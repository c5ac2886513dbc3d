------------------------------- MODULE DpfKeys --------------------------------
(***************************************************************************)
(* dpf-offline/fss.h: a pair of keys of a distributed point function and   *)
(* their expansion.  gen_dpf_key_pair walks down the path to real_rdx in a *)
(* tree of seeds, keeping both parties' seeds; dpf_batch_eval expands one  *)
(* key to all leaves, layer by layer in one array, and makes the proof of  *)
(* the verifiable variant.                                                 *)
(*                                                                         *)
(* The expansions of the two keys do not meet, so they run side by side    *)
(* here.  A seed is a word, its least significant bit is bit 0.  The       *)
(* generator and the hash are functions that nothing is assumed of.  Both  *)
(* indices of a key's bits are 0 for left and 1 for right.                 *)
(***************************************************************************)
EXTENDS ReplicatedShares

CONSTANTS Depth,        \* DPFKEY::depth
          Pow,          \* Pow[k]: 1 << k
          Expand,       \* Expand[w][d]: child d of w, by TwoKeyPRP
          Hash,         \* Hash[n][w]: the hash of leaf number n and its seed
          Betas         \* the words that a point function may have at its point

ASSUME DepthAssumption == Depth \in Nat \ {0}
ASSUME PowAssumption ==
    /\ Pow \in [0..Depth -> Nat \ {0}]
    /\ Pow[0] = 1
    /\ \A k \in 1..Depth : Pow[k] = 2 * Pow[k - 1]

Leaves == 0..(Pow[Depth] - 1)
Side   == 0..1

ASSUME ExpandAssumption == Expand \in [Word -> [Side -> Word]]
ASSUME HashAssumption == Hash \in [Leaves -> [Word -> Word]]
ASSUME BetasAssumption == Betas \subseteq Word

VARIABLES
    real_rdx, beta,     \* the point and the value there
    key_s, key_t,       \* key_s[b], key_t[b]: s and t of key b
    s_CW,               \* correction words, the same in both keys
    t_CW,               \* t_CW[n][0] is t_L_CW, t_CW[n][1] is t_R_CW
    hash_CW,
    pc,
    layer,
    i,
    vec, t_vec,         \* vec[b], t_vec[b]: the arrays of key b's holder
    proof,              \* proof[b][n]: proof_vec[2n], [2n + 1]
    s, t                \* s[n][b], t[n][b]: s0, s1 and t0, t1 after n levels

point == <<real_rdx, beta>>
key   == <<key_s, key_t, s_CW, t_CW, hash_CW>>
vars  == <<point, key, pc, layer, i, vec, t_vec, proof, s, t>>

-------------------------------------------------------------------------------

Times(bit, w) == IF bit THEN w ELSE Zero
getLSB(w) == 0 \in w

\* The number of the ancestor of the point among the nodes of layer n, and the
\* side on which it is.
Prefix(n)  == real_rdx \div Pow[Depth - n]
get_bit(n) == Prefix(n) % 2

\* A child of seed w with control bit b, corrected by the words of layer n.
ChildSeed(n, w, b, d) == Xor(Expand[w][d], Times(b, s_CW[n]))
ChildBit(n, w, b, d)  == getLSB(Expand[w][d]) # (b /\ t_CW[n][d])

Init == /\ real_rdx \in Leaves
        /\ beta \in Betas
        /\ key_s \in [Side -> Word]
        /\ key_t \in [Side -> BOOLEAN] /\ key_t[1] = ~key_t[0]
        /\ s_CW = [n \in 1..(Depth + 1) |-> Zero]
        /\ t_CW = [n \in 1..Depth |-> [d \in Side |-> FALSE]]
        /\ hash_CW = Zero
        /\ pc = "gen"
        /\ layer = 1
        /\ i = 0
        /\ vec = [b \in Side |-> [n \in Leaves |-> Zero]]
        /\ t_vec = [b \in Side |-> [n \in Leaves |-> FALSE]]
        /\ proof = [b \in Side |-> [n \in Leaves |-> Zero]]
        /\ s = [n \in 0..Depth |-> key_s]
        /\ t = [n \in 0..Depth |-> key_t]

\* Slips: the correction word of the side that is kept; control bits corrected
\* on both sides; a hash of one party; an ascending loop; a leaf too many.
SeedCorrectionKept(n) ==
    Xor(Expand[s[n - 1][0]][get_bit(n)], Expand[s[n - 1][1]][get_bit(n)])

BitCorrectionBoth(n, d) ==
    getLSB(Expand[s[n - 1][0]][d]) # getLSB(Expand[s[n - 1][1]][d])

HashCorrectionOne == Hash[real_rdx][s[Depth][0]]

NodeAscending == Pow[layer - 1] - 1 - i

LastLeafBeyond == i = Pow[Depth]

\* The words that make the two seeds, and the two control bits, of the child
\* off the path equal, and the control bits of the child on it different.
SeedCorrection(n) ==
    Xor(Expand[s[n - 1][0]][1 - get_bit(n)], Expand[s[n - 1][1]][1 - get_bit(n)])

BitCorrection(n, d) ==
    (getLSB(Expand[s[n - 1][0]][d]) # getLSB(Expand[s[n - 1][1]][d])) # (d = get_bit(n))

HashCorrection == Xor(Hash[real_rdx][s[Depth][0]], Hash[real_rdx][s[Depth][1]])

\* The loop of gen_dpf_key_pair.
GenLevel ==
    /\ pc = "gen" /\ layer <= Depth
    /\ s_CW' = [s_CW EXCEPT ![layer] = SeedCorrection(layer)]
    /\ t_CW' = [t_CW EXCEPT ![layer] = [d \in Side |-> BitCorrection(layer, d)]]
    /\ s' = [s EXCEPT ![layer] =
                [b \in Side |-> Xor(Expand[s[layer - 1][b]][get_bit(layer)],
                                    Times(t[layer - 1][b], SeedCorrection(layer)))]]
    /\ t' = [t EXCEPT ![layer] =
                [b \in Side |-> getLSB(Expand[s[layer - 1][b]][get_bit(layer)])
                                # (t[layer - 1][b] /\ BitCorrection(layer, get_bit(layer)))]]
    /\ layer' = layer + 1
    /\ UNCHANGED <<point, key_s, key_t, hash_CW, pc, i, vec, t_vec, proof>>

\* Its end, and the start of dpf_batch_eval at both holders.
GenEnd ==
    /\ pc = "gen" /\ layer = Depth + 1
    /\ s_CW' = [s_CW EXCEPT ![Depth + 1] = Xor(beta, Xor(s[Depth][0], s[Depth][1]))]
    /\ hash_CW' = HashCorrection
    /\ pc' = "expand"
    /\ layer' = 1
    /\ i' = 0
    /\ vec' = [b \in Side |-> [vec[b] EXCEPT ![0] = key_s[b]]]
    /\ t_vec' = [b \in Side |-> [t_vec[b] EXCEPT ![0] = key_t[b]]]
    /\ UNCHANGED <<point, key_s, key_t, t_CW, proof, s, t>>

\* The node that the inner loop is at: the last one of its layer first.
Node == i

\* Its children overwrite two entries of the array.
ExpandNode ==
    /\ pc = "expand"
    /\ vec' = [b \in Side |->
                [vec[b] EXCEPT ![2*Node]     = ChildSeed(layer, vec[b][Node], t_vec[b][Node], 0),
                               ![2*Node + 1] = ChildSeed(layer, vec[b][Node], t_vec[b][Node], 1)]]
    /\ t_vec' = [b \in Side |->
                [t_vec[b] EXCEPT ![2*Node]     = ChildBit(layer, vec[b][Node], t_vec[b][Node], 0),
                                 ![2*Node + 1] = ChildBit(layer, vec[b][Node], t_vec[b][Node], 1)]]
    /\ \/ i > 0 /\ i' = i - 1 /\ UNCHANGED <<pc, layer>>
       \/ i = 0 /\ layer < Depth /\ layer' = layer + 1 /\ i' = Pow[layer] - 1 /\ UNCHANGED pc
       \/ i = 0 /\ layer = Depth /\ pc' = "leaves" /\ UNCHANGED <<layer, i>>
    /\ UNCHANGED <<point, key, proof, s, t>>

LastLeaf == i + 1 = Pow[Depth]

\* The last loop: the proof of a leaf, and the word of its value.
CorrectLeaf ==
    /\ pc = "leaves"
    /\ proof' = [b \in Side |-> [proof[b] EXCEPT ![i] =
                    Xor(Hash[i][vec[b][i]], Times(t_vec[b][i], hash_CW))]]
    /\ vec' = [b \in Side |-> [vec[b] EXCEPT ![i] =
                    Xor(vec[b][i], Times(t_vec[b][i], s_CW[Depth + 1]))]]
    /\ IF LastLeaf THEN pc' = "done" /\ UNCHANGED i ELSE i' = i + 1 /\ UNCHANGED pc
    /\ UNCHANGED <<point, key, layer, t_vec, s, t>>

Next == GenLevel \/ GenEnd \/ ExpandNode \/ CorrectLeaf

Spec == Init /\ [][Next]_vars

-------------------------------------------------------------------------------

TypeOK == /\ real_rdx \in Leaves /\ beta \in Word
          /\ key_s \in [Side -> Word] /\ key_t \in [Side -> BOOLEAN]
          /\ s_CW \in [1..(Depth + 1) -> Word]
          /\ t_CW \in [1..Depth -> [Side -> BOOLEAN]]
          /\ hash_CW \in Word
          /\ pc \in {"gen", "expand", "leaves", "done"}
          /\ layer \in 1..(Depth + 1) /\ (pc = "expand" => layer <= Depth)
          /\ i \in Leaves
          /\ vec \in [Side -> [Leaves -> Word]]
          /\ t_vec \in [Side -> [Leaves -> BOOLEAN]]
          /\ proof \in [Side -> [Leaves -> Word]]
          /\ s \in [0..Depth -> [Side -> Word]] /\ t \in [0..Depth -> [Side -> BOOLEAN]]

\* Entry n of the two arrays, as node n of layer k: the seeds of gen_dpf_key_pair
\* on the path to the point, and equal seeds and control bits off it.
Agree(n, k) ==
    IF n = Prefix(k)
    THEN \A b \in Side : vec[b][n] = s[k][b] /\ t_vec[b][n] = t[k][b]
    ELSE vec[0][n] = vec[1][n] /\ t_vec[0][n] = t_vec[1][n]

\* A layer is expanded in place: the entries up to i are still nodes of the layer
\* above, and those from 2i + 2 on are nodes of the new one.  The two arrays differ
\* on the path only, and there they continue what key generation has computed.
DifferOnPath ==
    /\ pc = "expand" =>
          /\ \A n \in 0..i : Agree(n, layer - 1)
          /\ \A n \in (2*i + 2)..(Pow[layer] - 1) : Agree(n, layer)
    /\ pc = "leaves" => \A n \in i..(Pow[Depth] - 1) : Agree(n, Depth)

\* The two expansions add up to beta at the point and to zero everywhere else:
\* the promise that semi_ob_selection_matrix relies on (see ObliviousSelection).
PointFunction ==
    pc = "done" =>
        \A n \in Leaves : Xor(vec[0][n], vec[1][n]) = IF n = real_rdx THEN beta ELSE Zero

\* Both holders of an honest pair make the same proof, leaf by leaf.
ProofsAgree == pc = "done" => proof[0] = proof[1]

\* A level of dpf_eval: the child of the seed and control bit that idx leads to.
EvalStep(idx, n, up) ==
    LET bit == (idx \div Pow[Depth - n]) % 2
    IN <<ChildSeed(n, up[1], up[2], bit), ChildBit(n, up[1], up[2], bit)>>

EvalPath(b, idx) ==
    LET at[n \in 0..Depth] ==
            IF n = 0 THEN <<key_s[b], key_t[b]>> ELSE EvalStep(idx, n, at[n - 1])
    IN at

dpf_eval(b, idx) ==
    Xor(EvalPath(b, idx)[Depth][1], Times(EvalPath(b, idx)[Depth][2], s_CW[Depth + 1]))

\* Expanding the whole tree gives at each leaf what dpf_eval computes for it alone.
BatchIsPointwise ==
    pc = "done" => \A b \in Side, n \in Leaves : vec[b][n] = dpf_eval(b, n)
===============================================================================
