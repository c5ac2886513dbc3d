------------------------------- MODULE DpfProofs ------------------------------
(***************************************************************************)
(* That the two keys of gen_dpf_key_pair expand to a point function, for   *)
(* every depth, generator, hash, point and value.  The inductive invariant *)
(* IInv joins what key generation has put into the correction words (Path) *)
(* with what holds of every entry of the two arrays (DifferOnPath, and     *)
(* LeafResult for the leaves that are corrected already).  And that each   *)
(* leaf of the expansion is what dpf_eval computes for it alone            *)
(* (PathEntries).                                                          *)
(***************************************************************************)
EXTENDS DpfKeys, CommonLemmas

(* Words and control bits. *)

LEMMA XorWord == ASSUME NEW a \in Word, NEW b \in Word PROVE Xor(a, b) \in Word
BY DEF Word, Xor

LEMMA TimesWord == ASSUME NEW a \in BOOLEAN, NEW b \in Word PROVE Times(a, b) \in Word
BY DEF Word, Times, Zero

LEMMA XorSelf == ASSUME NEW a PROVE Xor(a, a) = Zero
BY DEF Xor, Zero

LEMMA XorZero == ASSUME NEW a PROVE Xor(a, Zero) = a
BY DEF Xor, Zero

\* One party corrects its seed, and then both have the other's.
LEMMA XorTwice ==
    ASSUME NEW a, NEW b
    PROVE  Xor(a, Xor(a, b)) = b /\ Xor(b, Xor(a, b)) = a
BY DEF Xor

LEMMA OneCorrected ==
    ASSUME NEW a, NEW b, NEW x \in BOOLEAN
    PROVE  Xor(a, Times(x, Xor(a, b))) = Xor(b, Times(~x, Xor(a, b)))
<1>1. CASE x
  BY <1>1, XorZero, XorTwice DEF Times
<1>2. CASE ~x
  BY <1>2, XorZero, XorTwice DEF Times
<1> QED BY <1>1, <1>2

\* One party adds the word that the two seeds lack of c.
LEMMA OneAdded ==
    ASSUME NEW a, NEW b, NEW c, NEW x \in BOOLEAN, NEW w, w = Xor(c, Xor(a, b))
    PROVE  Xor(Xor(a, Times(x, w)), Xor(b, Times(~x, w))) = c
<1>1. Xor(Xor(a, w), b) = c /\ Xor(a, Xor(b, w)) = c
  BY DEF Xor
<1>2. CASE x
  BY <1>1, <1>2, XorZero DEF Times
<1>3. CASE ~x
  BY <1>1, <1>3, XorZero DEF Times
<1> QED BY <1>2, <1>3

LEMMA BitSame ==
    ASSUME NEW a \in BOOLEAN, NEW b \in BOOLEAN, NEW x \in BOOLEAN
    PROVE  (a # (x /\ ((a # b) # FALSE))) = (b # ((~x) /\ ((a # b) # FALSE)))
OBVIOUS

LEMMA BitFlip ==
    ASSUME NEW a \in BOOLEAN, NEW b \in BOOLEAN, NEW x \in BOOLEAN
    PROVE  (b # ((~x) /\ ((a # b) # TRUE))) = ~ (a # (x /\ ((a # b) # TRUE)))
OBVIOUS

(* Layers of the tree. *)

\* No layer is larger than the last one.
LEMMA PowGrows ==
    ASSUME NEW k \in 0..Depth
    PROVE  /\ Pow[k] \in Nat \ {0} /\ Pow[k] <= Pow[Depth]
           /\ k > 0 => Pow[k - 1] \in Nat \ {0} /\ Pow[k] = 2 * Pow[k - 1]
<1>1. \A n \in 0..Depth : Pow[n] \in Nat \ {0}
  BY PowAssumption
<1>2. \A n \in 1..Depth : n - 1 \in 0..Depth /\ Pow[n] = 2 * Pow[n - 1]
  BY PowAssumption, DepthAssumption
<1> DEFINE T == {n \in 0..Depth : Pow[Depth - n] > Pow[Depth]}
<1>3. SUFFICES ASSUME T # {} PROVE FALSE
  <2>1. Depth - k \in 0..Depth /\ Depth - (Depth - k) = k
    BY DepthAssumption
  <2>2. ~ (Pow[k] > Pow[Depth])
    BY <1>3, <2>1
  <2>3. Pow[Depth] \in Nat /\ Pow[k] \in Nat
    BY <1>1, DepthAssumption
  <2> QED BY <1>1, <1>2, <2>2, <2>3
<1>4. PICK n \in T : \A y \in T : n <= y
  <2>1. T \subseteq Nat
    BY DepthAssumption
  <2> HIDE DEF T
  <2> QED BY <1>3, <2>1, LeastElement
<1>5. n # 0 /\ n - 1 \in 0..Depth /\ Depth - n \in 0..Depth /\ Depth - (n - 1) \in 1..Depth
  <2>1. n \in 0..Depth /\ Pow[Depth - n] > Pow[Depth] /\ Pow[Depth] \in Nat
    BY <1>1, <1>4, DepthAssumption
  <2>2. n # 0
    BY <2>1, DepthAssumption
  <2> QED BY <2>1, <2>2, DepthAssumption
<1>6. Pow[Depth - (n - 1)] = 2 * Pow[Depth - n]
  <2>1. Depth - (n - 1) - 1 = Depth - n
    BY <1>5, DepthAssumption
  <2> QED BY <1>2, <1>5, <2>1
<1>7. n - 1 \in T
  <2>1. Pow[Depth - n] \in Nat /\ Pow[Depth] \in Nat /\ Pow[Depth - n] > Pow[Depth]
    BY <1>1, <1>4, <1>5, DepthAssumption
  <2> QED BY <1>5, <1>6, <2>1
<1> QED BY <1>4, <1>5, <1>7

\* The ancestor of the point in layer k is the child get_bit(k) of the one above.
LEMMA PrefixStep ==
    ASSUME real_rdx \in Leaves, NEW k \in 1..Depth
    PROVE  /\ Prefix(k - 1) \in Nat /\ get_bit(k) \in Side
           /\ Prefix(k) = 2 * Prefix(k - 1) + get_bit(k)
<1> DEFINE m == Pow[Depth - k]
<1>1. real_rdx \in Nat /\ m \in Nat \ {0} /\ Pow[Depth - (k - 1)] = 2 * m
  <2>1. /\ Depth - k \in 0..Depth /\ Depth - (k - 1) \in 0..Depth
        /\ Depth - (k - 1) > 0 /\ Depth - (k - 1) - 1 = Depth - k
    BY DepthAssumption
  <2> QED BY <2>1, PowGrows, DepthAssumption DEF Leaves
<1> HIDE DEF m
<1>2. Prefix(k) = real_rdx \div m /\ Prefix(k - 1) = Prefix(k) \div 2
  <2>1. Prefix(k) = real_rdx \div m
    BY DEF Prefix, m
  <2>2. Prefix(k - 1) = real_rdx \div (2 * m)
    BY <1>1 DEF Prefix
  <2> QED BY <1>1, <2>1, <2>2, DivTwice
<1>3. Prefix(k) \in Nat
  BY <1>1, <1>2, DivDef
<1> DEFINE p == Prefix(k)
<1> HIDE DEF p
<1>4. p \in Nat
  BY <1>3 DEF p
<1>5. /\ p \div 2 \in Nat /\ p % 2 \in 0..1
      /\ p = 2 * (p \div 2) + (p % 2)
  BY <1>4
<1> HIDE DEF Prefix
<1> QED BY <1>2, <1>5 DEF get_bit, Side, p

LEMMA PrefixEnds ==
    ASSUME real_rdx \in Leaves
    PROVE  Prefix(0) = 0 /\ Prefix(Depth) = real_rdx
<1>1. real_rdx \in Nat /\ Pow[Depth] \in Nat \ {0} /\ real_rdx < Pow[Depth]
  BY PowGrows, DepthAssumption DEF Leaves
<1>2. real_rdx \div 1 = real_rdx
  BY <1>1
<1>3. real_rdx \div Pow[Depth] = 0
  BY <1>1
<1> QED BY <1>2, <1>3, PowAssumption, DepthAssumption DEF Prefix

-------------------------------------------------------------------------------
(* The inductive invariant. *)

\* Level n of key generation: the correction words are those of its seeds, and
\* its seeds are the corrected children of those above, on the path.
Link(n) ==
    /\ s_CW[n] = SeedCorrection(n)
    /\ \A d \in Side : t_CW[n][d] = BitCorrection(n, d)
    /\ \A b \in Side :
          /\ s[n][b] = ChildSeed(n, s[n - 1][b], t[n - 1][b], get_bit(n))
          /\ t[n][b] = ChildBit(n, s[n - 1][b], t[n - 1][b], get_bit(n))

Path ==
    /\ s[0] = key_s /\ t[0] = key_t
    /\ \A n \in 0..Depth : t[n][1] = ~t[n][0]
    /\ \A n \in 1..Depth : pc = "gen" /\ n < layer => Link(n)
    /\ \A n \in 1..Depth : pc # "gen" => Link(n)
    /\ pc # "gen" => /\ s_CW[Depth + 1] = Xor(beta, Xor(s[Depth][0], s[Depth][1]))
                     /\ hash_CW = HashCorrection

\* The node that is expanded is one of the layer above.
NodeInLayer == pc = "expand" => i < Pow[layer - 1]

\* A leaf whose word is final.
LeafDone(n) ==
    /\ Xor(vec[0][n], vec[1][n]) = IF n = real_rdx THEN beta ELSE Zero
    /\ proof[0][n] = proof[1][n]

LeafResult ==
    /\ pc = "leaves" => \A n \in Leaves : n < i => LeafDone(n)
    /\ pc = "done" => \A n \in Leaves : LeafDone(n)

IInv == TypeOK /\ Path /\ NodeInLayer /\ DifferOnPath /\ LeafResult

-------------------------------------------------------------------------------
(* One level of the tree. *)

\* The child off the path has the same seed and the same control bit at both.
LEMMA OffPath ==
    ASSUME TypeOK, Path, NEW k \in 1..Depth, Link(k), NEW d \in Side, d # get_bit(k)
    PROVE  /\ ChildSeed(k, s[k - 1][0], t[k - 1][0], d) = ChildSeed(k, s[k - 1][1], t[k - 1][1], d)
           /\ ChildBit(k, s[k - 1][0], t[k - 1][0], d) = ChildBit(k, s[k - 1][1], t[k - 1][1], d)
<1> DEFINE a == Expand[s[k - 1][0]][d]
           b == Expand[s[k - 1][1]][d]
           x == t[k - 1][0]
<1>1. k - 1 \in 0..Depth
  BY DepthAssumption
<1>2. x \in BOOLEAN /\ t[k - 1][1] = ~x
  BY <1>1 DEF TypeOK, Path, Side
<1>3. d = 1 - get_bit(k)
  BY PrefixStep DEF TypeOK, Side
<1>4. s_CW[k] = Xor(a, b)
  BY <1>3 DEF Link, SeedCorrection
<1>5. t_CW[k][d] = ((getLSB(a) # getLSB(b)) # FALSE)
  <2>1. (d = get_bit(k)) = FALSE
    OBVIOUS
  <2> QED BY <2>1 DEF Link, BitCorrection
<1>6. getLSB(a) \in BOOLEAN /\ getLSB(b) \in BOOLEAN
  BY DEF getLSB
<1> HIDE DEF a, b, x
<1>7. Xor(a, Times(x, s_CW[k])) = Xor(b, Times(t[k - 1][1], s_CW[k]))
  BY <1>2, <1>4, OneCorrected
<1>8. (getLSB(a) # (x /\ t_CW[k][d])) = (getLSB(b) # (t[k - 1][1] /\ t_CW[k][d]))
  <2>1. t[k - 1][1] = (~x)
    BY <1>2
  <2> HIDE DEF getLSB
  <2> QED BY <2>1, <1>2, <1>5, <1>6, BitSame
<1> QED BY <1>7, <1>8 DEF ChildSeed, ChildBit, a, b, x

\* What Agree says of a node of layer k - 1 holds of its children in layer k.
LEMMA NodeStep ==
    ASSUME TypeOK, Path, NEW k \in 1..Depth, Link(k), NEW n \in Nat, NEW d \in Side,
           Agree(n, k - 1)
    PROVE  IF 2 * n + d = Prefix(k)
           THEN \A b \in Side : /\ ChildSeed(k, vec[b][n], t_vec[b][n], d) = s[k][b]
                                /\ ChildBit(k, vec[b][n], t_vec[b][n], d) = t[k][b]
           ELSE /\ ChildSeed(k, vec[0][n], t_vec[0][n], d) = ChildSeed(k, vec[1][n], t_vec[1][n], d)
                /\ ChildBit(k, vec[0][n], t_vec[0][n], d) = ChildBit(k, vec[1][n], t_vec[1][n], d)
<1>1. /\ Prefix(k - 1) \in Nat /\ get_bit(k) \in 0..1
      /\ Prefix(k) = 2 * Prefix(k - 1) + get_bit(k)
  BY PrefixStep DEF TypeOK, Side
<1> HIDE DEF Prefix, get_bit
<1>2. 2 * n + d = Prefix(k) <=> n = Prefix(k - 1) /\ d = get_bit(k)
  BY <1>1, HalfAndParity DEF Side
<1>3. CASE n # Prefix(k - 1)
  BY <1>2, <1>3 DEF Agree
<1>4. CASE n = Prefix(k - 1) /\ d = get_bit(k)
  BY <1>2, <1>4 DEF Agree, Link
<1>5. CASE n = Prefix(k - 1) /\ d # get_bit(k)
  <2>1. \A b \in Side : vec[b][n] = s[k - 1][b] /\ t_vec[b][n] = t[k - 1][b]
    BY <1>5 DEF Agree
  <2>2. 0 \in Side /\ 1 \in Side
    BY DEF Side
  <2> QED BY <1>2, <1>5, <2>1, <2>2, OffPath
<1> QED BY <1>3, <1>4, <1>5

-------------------------------------------------------------------------------
(* Types. *)

LEMMA ExpandWord ==
    ASSUME NEW w \in Word, NEW d \in Side
    PROVE  Expand[w][d] \in Word
BY ExpandAssumption

LEMMA LeavesNat ==
    /\ Leaves \subseteq Nat /\ 0 \in Leaves
    /\ \A n \in Nat : n < Pow[Depth] <=> n \in Leaves
BY PowGrows, DepthAssumption DEF Leaves

LEMMA ChildType ==
    ASSUME TypeOK, NEW k \in 1..Depth, NEW w \in Word, NEW b \in BOOLEAN, NEW d \in Side
    PROVE  ChildSeed(k, w, b, d) \in Word /\ ChildBit(k, w, b, d) \in BOOLEAN
<1>1. Expand[w][d] \in Word
  BY ExpandWord
<1>2. k \in 1..(Depth + 1)
  BY DepthAssumption
<1>3. s_CW[k] \in Word
  BY <1>2 DEF TypeOK
<1> QED BY <1>1, <1>3, XorWord, TimesWord DEF ChildSeed, ChildBit

LEMMA GenType ==
    ASSUME TypeOK, NEW k \in 1..Depth
    PROVE  /\ SeedCorrection(k) \in Word
           /\ \A d \in Side : BitCorrection(k, d) \in BOOLEAN
<1>1. get_bit(k) \in Side /\ 1 - get_bit(k) \in Side
  BY PrefixStep DEF TypeOK, Side
<1>2. k - 1 \in 0..Depth /\ 0 \in Side /\ 1 \in Side
  BY DepthAssumption DEF Side
<1>3. s[k - 1][0] \in Word /\ s[k - 1][1] \in Word
  BY <1>2 DEF TypeOK
<1>4. SeedCorrection(k) \in Word
  <2>1. /\ Expand[s[k - 1][0]][1 - get_bit(k)] \in Word
        /\ Expand[s[k - 1][1]][1 - get_bit(k)] \in Word
    BY <1>1, <1>3, ExpandWord
  <2> QED BY <2>1, XorWord DEF SeedCorrection
<1>5. \A d \in Side : BitCorrection(k, d) \in BOOLEAN
  BY DEF BitCorrection
<1> QED BY <1>4, <1>5

LEMMA TypeInit == ASSUME Init PROVE TypeOK
<1>1. Zero \in Word
  BY DEF Zero, Word
<1>2. 0 \in Leaves
  BY LeavesNat
<1> QED BY <1>1, <1>2, BetasAssumption, DepthAssumption DEF Init, TypeOK

LEMMA TypeGenLevel == ASSUME TypeOK, GenLevel PROVE TypeOK'
<1>1. layer \in 1..Depth /\ layer - 1 \in 0..Depth
  BY DepthAssumption DEF TypeOK, GenLevel
<1>2. SeedCorrection(layer) \in Word /\ \A d \in Side : BitCorrection(layer, d) \in BOOLEAN
  BY <1>1, GenType
<1>3. s_CW' \in [1..(Depth + 1) -> Word] /\ t_CW' \in [1..Depth -> [Side -> BOOLEAN]]
  BY <1>1, <1>2 DEF TypeOK, GenLevel
<1>4. get_bit(layer) \in Side
  BY <1>1, PrefixStep DEF TypeOK
<1>5. s' \in [0..Depth -> [Side -> Word]]
  <2>1. ASSUME NEW b \in Side
        PROVE  Xor(Expand[s[layer - 1][b]][get_bit(layer)],
                   Times(t[layer - 1][b], SeedCorrection(layer))) \in Word
    <3>1. s[layer - 1][b] \in Word /\ t[layer - 1][b] \in BOOLEAN
      BY <1>1 DEF TypeOK
    <3> QED BY <1>2, <1>4, <3>1, ExpandWord, XorWord, TimesWord
  <2> QED BY <1>1, <2>1 DEF TypeOK, GenLevel
<1>6. t' \in [0..Depth -> [Side -> BOOLEAN]]
  BY <1>1 DEF TypeOK, GenLevel
<1>7. layer' \in 1..(Depth + 1)
  BY <1>1, DepthAssumption DEF GenLevel
<1> QED BY <1>3, <1>5, <1>6, <1>7 DEF TypeOK, GenLevel, point

LEMMA TypeGenEnd == ASSUME TypeOK, GenEnd PROVE TypeOK'
<1>1. Depth \in 0..Depth /\ Depth + 1 \in 1..(Depth + 1) /\ 0 \in Side /\ 1 \in Side
  BY DepthAssumption DEF Side
<1>2. real_rdx \in Leaves /\ s[Depth][0] \in Word /\ s[Depth][1] \in Word /\ beta \in Word
  BY <1>1 DEF TypeOK
<1>3. s_CW' \in [1..(Depth + 1) -> Word]
  <2>1. Xor(beta, Xor(s[Depth][0], s[Depth][1])) \in Word
    BY <1>2, XorWord
  <2> QED BY <1>1, <2>1 DEF TypeOK, GenEnd
<1>4. hash_CW' \in Word
  <2>1. Hash[real_rdx][s[Depth][0]] \in Word /\ Hash[real_rdx][s[Depth][1]] \in Word
    BY <1>2, HashAssumption
  <2> QED BY <2>1, XorWord DEF GenEnd, HashCorrection
<1>5. /\ vec' \in [Side -> [Leaves -> Word]] /\ t_vec' \in [Side -> [Leaves -> BOOLEAN]]
      /\ i' \in Leaves
  BY LeavesNat DEF TypeOK, GenEnd
<1>6. layer' = 1 /\ 1 \in 1..(Depth + 1) /\ 1 <= Depth
  BY DepthAssumption DEF GenEnd
<1> QED BY <1>3, <1>4, <1>5, <1>6 DEF TypeOK, GenEnd, point

LEMMA TypeExpandNode == ASSUME TypeOK, NodeInLayer, ExpandNode PROVE TypeOK'
<1>1. layer \in 1..Depth /\ i \in Nat /\ i \in Leaves
  BY LeavesNat, DepthAssumption DEF TypeOK, ExpandNode
<1>2. /\ \A b \in Side, d \in Side : /\ ChildSeed(layer, vec[b][i], t_vec[b][i], d) \in Word
                                    /\ ChildBit(layer, vec[b][i], t_vec[b][i], d) \in BOOLEAN
  <2>1. \A b \in Side : vec[b][i] \in Word /\ t_vec[b][i] \in BOOLEAN
    BY <1>1 DEF TypeOK
  <2> QED BY <1>1, <2>1, ChildType
<1>3. vec' \in [Side -> [Leaves -> Word]] /\ t_vec' \in [Side -> [Leaves -> BOOLEAN]]
  <2>1. 0 \in Side /\ 1 \in Side
    BY DEF Side
  <2> QED BY <1>1, <1>2, <2>1 DEF TypeOK, ExpandNode, Node
<1>4. i' \in Leaves
  <2>1. CASE i > 0
    <3>1. i' = i - 1 /\ i < Pow[Depth] /\ Pow[Depth] \in Nat
      BY <1>1, <2>1, LeavesNat, PowGrows, DepthAssumption DEF ExpandNode
    <3> QED BY <1>1, <2>1, <3>1, LeavesNat
  <2>2. CASE i = 0
    <3>1. Pow[layer] - 1 \in Leaves
      BY <1>1, PowGrows, DepthAssumption DEF Leaves
    <3> QED BY <1>1, <2>2, <3>1 DEF ExpandNode
  <2> QED BY <1>1, <2>1, <2>2
<1>5. layer' \in 1..(Depth + 1) /\ (pc' = "expand" => layer' <= Depth)
  BY <1>1, DepthAssumption DEF ExpandNode
<1>6. pc' \in {"expand", "leaves"}
  BY DEF ExpandNode
<1> QED BY <1>3, <1>4, <1>5, <1>6 DEF TypeOK, ExpandNode, point, key

LEMMA TypeCorrectLeaf == ASSUME TypeOK, CorrectLeaf PROVE TypeOK'
<1>1. i \in Leaves /\ Depth + 1 \in 1..(Depth + 1)
  BY DepthAssumption DEF TypeOK
<1>2. \A b \in Side : /\ Xor(Hash[i][vec[b][i]], Times(t_vec[b][i], hash_CW)) \in Word
                     /\ Xor(vec[b][i], Times(t_vec[b][i], s_CW[Depth + 1])) \in Word
  <2> SUFFICES ASSUME NEW b \in Side
               PROVE  /\ Xor(Hash[i][vec[b][i]], Times(t_vec[b][i], hash_CW)) \in Word
                      /\ Xor(vec[b][i], Times(t_vec[b][i], s_CW[Depth + 1])) \in Word
    OBVIOUS
  <2>1. /\ vec[b][i] \in Word /\ t_vec[b][i] \in BOOLEAN
        /\ s_CW[Depth + 1] \in Word /\ hash_CW \in Word
    BY <1>1 DEF TypeOK
  <2>2. Hash[i][vec[b][i]] \in Word
    BY <1>1, <2>1, HashAssumption
  <2> QED BY <2>1, <2>2, XorWord, TimesWord
<1>3. vec' \in [Side -> [Leaves -> Word]] /\ proof' \in [Side -> [Leaves -> Word]]
  BY <1>1, <1>2 DEF TypeOK, CorrectLeaf
<1>4. i' \in Leaves
  <2>1. i \in Nat /\ i < Pow[Depth] /\ Pow[Depth] \in Nat
    BY <1>1, LeavesNat, PowGrows, DepthAssumption
  <2>2. CASE LastLeaf
    BY <1>1, <2>2 DEF CorrectLeaf
  <2>3. CASE ~LastLeaf
    <3>1. i' = i + 1 /\ i + 1 # Pow[Depth]
      BY <2>3 DEF CorrectLeaf, LastLeaf
    <3> QED BY <2>1, <3>1, LeavesNat
  <2> QED BY <2>2, <2>3
<1> QED BY <1>3, <1>4 DEF TypeOK, CorrectLeaf, point, key

-------------------------------------------------------------------------------
(* The steps preserve the invariant. *)

LEMMA InvInit == ASSUME Init PROVE IInv
<1>1. TypeOK
  BY TypeInit
<1>2. Path
  BY DepthAssumption DEF Init, Path
<1>3. NodeInLayer /\ DifferOnPath /\ LeafResult
  BY DEF Init, NodeInLayer, DifferOnPath, LeafResult
<1> QED BY <1>1, <1>2, <1>3 DEF IInv

LEMMA InvGenLevel == ASSUME IInv, GenLevel PROVE IInv'
<1>1. TypeOK /\ Path /\ TypeOK'
  BY TypeGenLevel DEF IInv
<1>2. layer \in 1..Depth /\ layer - 1 \in 0..Depth /\ layer - 1 # layer
  BY <1>1, DepthAssumption DEF TypeOK, GenLevel
<1>3. /\ \A n \in 0..Depth : n # layer => s'[n] = s[n] /\ t'[n] = t[n]
      /\ \A n \in 1..Depth : n # layer => s_CW'[n] = s_CW[n] /\ t_CW'[n] = t_CW[n]
  BY DEF TypeOK, IInv, GenLevel
<1>4. \A n \in 1..Depth : get_bit(n)' = get_bit(n)
  BY DEF GenLevel, get_bit, Prefix, point
<1>5. /\ s_CW'[layer] = SeedCorrection(layer)
      /\ \A d \in Side : t_CW'[layer][d] = BitCorrection(layer, d)
      /\ \A b \in Side :
            /\ s'[layer][b] = Xor(Expand[s[layer - 1][b]][get_bit(layer)],
                                 Times(t[layer - 1][b], SeedCorrection(layer)))
            /\ t'[layer][b] = (getLSB(Expand[s[layer - 1][b]][get_bit(layer)])
                                # (t[layer - 1][b] /\ BitCorrection(layer, get_bit(layer))))
  <2>1. layer \in DOMAIN s_CW /\ layer \in DOMAIN t_CW /\ layer \in DOMAIN s /\ layer \in DOMAIN t
    BY <1>1, <1>2, DepthAssumption DEF TypeOK
  <2> QED BY <2>1 DEF GenLevel
<1>6. get_bit(layer) \in Side
  BY <1>1, <1>2, PrefixStep DEF TypeOK
<1>7. ASSUME NEW n \in 1..Depth, n < layer PROVE Link(n)'
  <2>1. Link(n)
    BY <1>1, <1>7 DEF Path, GenLevel
  <2>2. n # layer /\ n - 1 # layer /\ n - 1 \in 0..Depth /\ n \in 0..Depth
    BY <1>2, <1>7, DepthAssumption
  <2>3. s'[n] = s[n] /\ t'[n] = t[n] /\ s'[n - 1] = s[n - 1] /\ t'[n - 1] = t[n - 1]
    BY <1>3, <2>2
  <2>4. s_CW'[n] = s_CW[n] /\ t_CW'[n] = t_CW[n] /\ get_bit(n)' = get_bit(n)
    BY <1>3, <1>4, <2>2
  <2> HIDE DEF get_bit
  <2> QED BY <2>1, <2>3, <2>4, SMTT(30) DEF Link, SeedCorrection, BitCorrection, ChildSeed, ChildBit
<1>8. ASSUME NEW k \in 1..Depth, k = layer PROVE Link(k)'
  <2>1. s'[k - 1] = s[k - 1] /\ t'[k - 1] = t[k - 1] /\ get_bit(k)' = get_bit(k)
    BY <1>2, <1>3, <1>4, <1>8
  <2> HIDE DEF get_bit
  <2>2. SeedCorrection(k)' = SeedCorrection(k) /\ \A d \in Side : BitCorrection(k, d)' = BitCorrection(k, d)
    BY <2>1 DEF SeedCorrection, BitCorrection
  <2>3. t_CW'[k][get_bit(k)] = BitCorrection(k, get_bit(k))
    BY <1>5, <1>6, <1>8
  <2>4. s_CW'[k] = SeedCorrection(k) /\ \A d \in Side : t_CW'[k][d] = BitCorrection(k, d)
    BY <1>5, <1>8
  <2>5. ASSUME NEW b \in Side
        PROVE  /\ s'[k][b] = ChildSeed(k, s[k - 1][b], t[k - 1][b], get_bit(k))'
               /\ t'[k][b] = ChildBit(k, s[k - 1][b], t[k - 1][b], get_bit(k))'
    BY <1>5, <1>8, <2>1, <2>3, <2>4 DEF ChildSeed, ChildBit
  <2> QED BY <2>2, <2>4, <2>5 DEF Link
<1>9. t'[layer][1] = ~t'[layer][0]
  <2> DEFINE a == Expand[s[layer - 1][0]][get_bit(layer)]
             b == Expand[s[layer - 1][1]][get_bit(layer)]
             x == t[layer - 1][0]
  <2>1. x \in BOOLEAN /\ t[layer - 1][1] = (~x)
    BY <1>1, <1>2 DEF TypeOK, Path, Side
  <2>2. BitCorrection(layer, get_bit(layer)) = ((getLSB(a) # getLSB(b)) # TRUE)
    BY DEF BitCorrection
  <2>3. 0 \in Side /\ 1 \in Side
    BY DEF Side
  <2>4. getLSB(a) \in BOOLEAN /\ getLSB(b) \in BOOLEAN
    BY DEF getLSB
  <2>5. /\ t'[layer][0] = (getLSB(a) # (x /\ ((getLSB(a) # getLSB(b)) # TRUE)))
        /\ t'[layer][1] = (getLSB(b) # ((~x) /\ ((getLSB(a) # getLSB(b)) # TRUE)))
    BY <1>5, <2>1, <2>2, <2>3
  <2> HIDE DEF a, b, x, getLSB
  <2> QED BY <2>1, <2>4, <2>5, BitFlip
<1>10. Path'
  <2>1. s'[0] = key_s' /\ t'[0] = key_t'
    BY <1>1, <1>2, <1>3, DepthAssumption DEF Path, GenLevel
  <2>2. \A n \in 0..Depth : t'[n][1] = ~t'[n][0]
    BY <1>1, <1>3, <1>9 DEF Path
  <2>3. \A n \in 1..Depth : n < layer' => Link(n)'
    <3>1. \A n \in 1..Depth : n < layer' => n < layer \/ n = layer
      BY <1>2, DepthAssumption DEF GenLevel
    <3> QED BY <1>7, <1>8, <3>1
  <2>4. pc' = "gen"
    BY DEF GenLevel
  <2> QED BY <2>1, <2>2, <2>3, <2>4 DEF Path
<1>11. NodeInLayer' /\ DifferOnPath' /\ LeafResult'
  BY DEF GenLevel, NodeInLayer, DifferOnPath, LeafResult
<1> QED BY <1>1, <1>10, <1>11 DEF IInv

LEMMA InvGenEnd == ASSUME IInv, GenEnd PROVE IInv'
<1>1. TypeOK /\ Path /\ TypeOK'
  BY TypeGenEnd DEF IInv
<1>2. Depth \in 0..Depth /\ Depth + 1 \in 1..(Depth + 1) /\ 0 \in 0..Depth /\ layer = Depth + 1
  BY DepthAssumption DEF GenEnd
<1>3. Path'
  <2>1. \A n \in 1..Depth : Link(n)'
    <3> SUFFICES ASSUME NEW n \in 1..Depth PROVE Link(n)'
      OBVIOUS
    <3>1. Link(n)
      BY <1>1, <1>2, DepthAssumption DEF Path, GenEnd
    <3>2. s_CW'[n] = s_CW[n]
      BY <1>1, DepthAssumption DEF TypeOK, GenEnd
    <3>3. get_bit(n)' = get_bit(n) /\ t_CW' = t_CW /\ s' = s /\ t' = t
      BY DEF GenEnd, get_bit, Prefix, point
    <3> HIDE DEF get_bit
    <3> QED BY <3>1, <3>2, <3>3 DEF Link, SeedCorrection, BitCorrection, ChildSeed, ChildBit
  <2>2. s_CW'[Depth + 1] = Xor(beta, Xor(s[Depth][0], s[Depth][1]))'
    BY <1>1, <1>2 DEF TypeOK, GenEnd, point
  <2>3. hash_CW' = HashCorrection'
    BY DEF GenEnd, HashCorrection, point
  <2> QED BY <1>1, <2>1, <2>2, <2>3 DEF Path, GenEnd
<1>4. NodeInLayer'
  BY PowAssumption DEF GenEnd, NodeInLayer
<1>5. DifferOnPath'
  <2>1. Prefix(0)' = 0
    BY <1>1, PrefixEnds DEF TypeOK, GenEnd, Prefix, point
  <2>2. \A b \in Side : vec'[b][0] = s[0][b] /\ t_vec'[b][0] = t[0][b]
    BY <1>1, LeavesNat DEF TypeOK, Path, GenEnd
  <2>3. Agree(0, 0)'
    BY <2>1, <2>2 DEF Agree, GenEnd
  <2>4. Pow[1] = 2
    BY PowAssumption, DepthAssumption
  <2> QED BY <2>3, <2>4 DEF DifferOnPath, GenEnd
<1>6. LeafResult'
  BY DEF GenEnd, LeafResult
<1> QED BY <1>1, <1>3, <1>4, <1>5, <1>6 DEF IInv

\* The entries of the two arrays after the children of node i have been written.
LEMMA ExpandedEntries ==
    ASSUME TypeOK, ExpandNode, NEW k \in 1..Depth, k = layer, i \in Nat,
           NEW b \in Side, NEW n \in Leaves
    PROVE  /\ n # 2 * i /\ n # 2 * i + 1 => vec'[b][n] = vec[b][n] /\ t_vec'[b][n] = t_vec[b][n]
           /\ \A d \in Side : n = 2 * i + d =>
                  /\ vec'[b][n] = ChildSeed(k, vec[b][i], t_vec[b][i], d)
                  /\ t_vec'[b][n] = ChildBit(k, vec[b][i], t_vec[b][i], d)
<1>1. i \in Nat /\ n \in Nat /\ DOMAIN vec[b] = Leaves /\ DOMAIN t_vec[b] = Leaves
  BY LeavesNat DEF TypeOK
<1>2. /\ vec'[b] = [vec[b] EXCEPT ![2 * i] = ChildSeed(k, vec[b][i], t_vec[b][i], 0),
                                  ![2 * i + 1] = ChildSeed(k, vec[b][i], t_vec[b][i], 1)]
      /\ t_vec'[b] = [t_vec[b] EXCEPT ![2 * i] = ChildBit(k, vec[b][i], t_vec[b][i], 0),
                                      ![2 * i + 1] = ChildBit(k, vec[b][i], t_vec[b][i], 1)]
  BY DEF ExpandNode, Node
<1> HIDE DEF ChildSeed, ChildBit
<1>3. n # 2 * i /\ n # 2 * i + 1 => vec'[b][n] = vec[b][n] /\ t_vec'[b][n] = t_vec[b][n]
  BY <1>1, <1>2
<1>4. n = 2 * i => /\ vec'[b][n] = ChildSeed(k, vec[b][i], t_vec[b][i], 0)
                   /\ t_vec'[b][n] = ChildBit(k, vec[b][i], t_vec[b][i], 0)
  BY <1>1, <1>2
<1>5. n = 2 * i + 1 => /\ vec'[b][n] = ChildSeed(k, vec[b][i], t_vec[b][i], 1)
                       /\ t_vec'[b][n] = ChildBit(k, vec[b][i], t_vec[b][i], 1)
  BY <1>1, <1>2
<1> QED BY <1>1, <1>3, <1>4, <1>5 DEF Side

\* After node i of layer k - 1 has been expanded: the nodes before it are as they
\* were, those from its children on are nodes of layer k.
LEMMA ExpandedArray ==
    ASSUME IInv, ExpandNode, NEW k \in 1..Depth, k = layer
    PROVE  /\ \A n \in 0..(i - 1) : Agree(n, k - 1)'
           /\ \A n \in (2 * i)..(Pow[k] - 1) : Agree(n, k)'
<1>1. /\ TypeOK /\ Path /\ Link(k) /\ i \in Nat /\ i < Pow[k - 1]
      /\ Pow[k] = 2 * Pow[k - 1] /\ Pow[k] <= Pow[Depth]
      /\ Pow[k] \in Nat /\ Pow[k - 1] \in Nat /\ Pow[Depth] \in Nat
  <2>1. TypeOK /\ Path /\ NodeInLayer /\ pc = "expand"
    BY DEF IInv, ExpandNode
  <2>2. Link(k)
    BY <2>1 DEF Path
  <2>3. i \in Nat /\ i < Pow[k - 1]
    BY <2>1, LeavesNat DEF TypeOK, NodeInLayer
  <2> QED BY <2>1, <2>2, <2>3, PowGrows, DepthAssumption
<1>2. /\ \A n \in 0..i : Agree(n, k - 1)
      /\ \A n \in (2 * i + 2)..(Pow[k] - 1) : Agree(n, k)
  BY DEF IInv, ExpandNode, DifferOnPath
<1>3. ASSUME NEW b \in Side, NEW n \in Leaves
      PROVE  /\ n # 2 * i /\ n # 2 * i + 1 => vec'[b][n] = vec[b][n] /\ t_vec'[b][n] = t_vec[b][n]
             /\ \A d \in Side : n = 2 * i + d =>
                    /\ vec'[b][n] = ChildSeed(k, vec[b][i], t_vec[b][i], d)
                    /\ t_vec'[b][n] = ChildBit(k, vec[b][i], t_vec[b][i], d)
  BY <1>1, ExpandedEntries
<1>4. /\ real_rdx' = real_rdx /\ s' = s /\ t' = t
      /\ \A n : Prefix(n)' = Prefix(n)
  BY DEF ExpandNode, point, Prefix
<1> HIDE DEF Prefix
<1>5. 0 \in Side /\ 1 \in Side
  BY DEF Side
<1>6. ASSUME NEW n \in Leaves, NEW m \in 0..Depth, n # 2 * i, n # 2 * i + 1, Agree(n, m)
      PROVE  Agree(n, m)'
  <2>1. \A b \in Side : vec'[b][n] = vec[b][n] /\ t_vec'[b][n] = t_vec[b][n]
    BY <1>3, <1>6
  <2> QED BY <1>4, <1>5, <1>6, <2>1 DEF Agree
<1>7. ASSUME NEW n \in Leaves, NEW d \in Side, n = 2 * i + d PROVE Agree(n, k)'
  <2>1. \A b \in Side : /\ vec'[b][n] = ChildSeed(k, vec[b][i], t_vec[b][i], d)
                       /\ t_vec'[b][n] = ChildBit(k, vec[b][i], t_vec[b][i], d)
    BY <1>3, <1>7
  <2>2. Agree(i, k - 1)
    BY <1>1, <1>2
  <2> HIDE DEF ChildSeed, ChildBit
  <2>3. IF n = Prefix(k)
        THEN \A b \in Side : /\ ChildSeed(k, vec[b][i], t_vec[b][i], d) = s[k][b]
                             /\ ChildBit(k, vec[b][i], t_vec[b][i], d) = t[k][b]
        ELSE /\ ChildSeed(k, vec[0][i], t_vec[0][i], d) = ChildSeed(k, vec[1][i], t_vec[1][i], d)
             /\ ChildBit(k, vec[0][i], t_vec[0][i], d) = ChildBit(k, vec[1][i], t_vec[1][i], d)
    BY <1>1, <1>7, <2>2, NodeStep
  <2>4. CASE n = Prefix(k)
    BY <1>4, <2>1, <2>3, <2>4 DEF Agree
  <2>5. CASE n # Prefix(k)
    BY <1>4, <1>5, <2>1, <2>3, <2>5 DEF Agree
  <2> QED BY <2>4, <2>5
<1>8. ASSUME NEW n \in 0..(i - 1) PROVE Agree(n, k - 1)'
  <2>1. n \in Leaves /\ k - 1 \in 0..Depth /\ n # 2 * i /\ n # 2 * i + 1 /\ n \in 0..i
    BY <1>1, LeavesNat, DepthAssumption
  <2> QED BY <1>2, <1>6, <2>1
<1>9. ASSUME NEW n \in (2 * i)..(Pow[k] - 1) PROVE Agree(n, k)'
  <2>1. n \in Leaves /\ k \in 0..Depth /\ n \in Int
    BY <1>1, LeavesNat, DepthAssumption
  <2>2. CASE n = 2 * i + 0
    BY <1>5, <1>7, <2>1, <2>2
  <2>3. CASE n = 2 * i + 1
    BY <1>5, <1>7, <2>1, <2>3
  <2>4. CASE n \in (2 * i + 2)..(Pow[k] - 1)
    BY <1>1, <1>2, <1>6, <2>1, <2>4
  <2> QED BY <1>1, <2>1, <2>2, <2>3, <2>4
<1> QED BY <1>8, <1>9

\* Nothing changes the keys after they have been made.
LEMMA PathKept ==
    ASSUME Path, pc # "gen", pc' # "gen", UNCHANGED <<point, key, s, t>>
    PROVE  Path'
<1>1. ASSUME NEW n \in 1..Depth PROVE Link(n)'
  <2>1. Link(n) /\ get_bit(n)' = get_bit(n)
    BY DEF Path, get_bit, Prefix, point
  <2> HIDE DEF get_bit
  <2> QED BY <2>1 DEF Link, SeedCorrection, BitCorrection, ChildSeed, ChildBit, key
<1>2. hash_CW' = HashCorrection'
  BY DEF Path, HashCorrection, point, key
<1> QED BY <1>1, <1>2 DEF Path, point, key

LEMMA InvExpandNode == ASSUME IInv, ExpandNode PROVE IInv'
<1>1. TypeOK /\ Path /\ NodeInLayer /\ TypeOK'
  BY TypeExpandNode DEF IInv
<1> DEFINE k == layer
<1>2. k \in 1..Depth /\ i \in Nat /\ i < Pow[k - 1]
  BY <1>1, LeavesNat, DepthAssumption DEF TypeOK, NodeInLayer, ExpandNode
<1>3. Path'
  BY <1>1, PathKept DEF ExpandNode
<1>4. LeafResult'
  BY <1>2 DEF LeafResult, ExpandNode, Leaves
<1>5. PICK l \in 1..Depth : l = k
  BY <1>2
<1>6. /\ \A n \in 0..(i - 1) : Agree(n, l - 1)'
      /\ \A n \in (2 * i)..(Pow[l] - 1) : Agree(n, l)'
  BY <1>5, ExpandedArray
<1>7. /\ Pow[l] = 2 * Pow[l - 1] /\ Pow[l] \in Nat /\ Pow[l - 1] \in Nat
      /\ Pow[Depth] \in Nat
  BY PowGrows, DepthAssumption
<1>8. CASE i > 0 /\ i' = i - 1 /\ UNCHANGED <<pc, layer>>
  <2>1. layer' = l /\ pc' = "expand" /\ i' \in Nat /\ i' < Pow[l - 1]
    BY <1>2, <1>5, <1>7, <1>8 DEF ExpandNode
  <2>2. NodeInLayer'
    BY <2>1 DEF NodeInLayer
  <2>3. \A n \in 0..i' : Agree(n, l - 1)'
    BY <1>6, <1>8
  <2>4. \A n \in (2 * i' + 2)..(Pow[l] - 1) : Agree(n, l)'
    BY <1>2, <1>6, <1>7, <1>8
  <2>5. DifferOnPath'
    BY <2>1, <2>3, <2>4 DEF DifferOnPath, Agree, Prefix
  <2> QED BY <1>1, <1>3, <1>4, <2>2, <2>5 DEF IInv
<1>9. CASE i = 0 /\ layer < Depth /\ layer' = layer + 1 /\ i' = Pow[layer] - 1 /\ UNCHANGED pc
  <2>1. layer' = l + 1 /\ layer' - 1 = l /\ pc' = "expand" /\ i' = Pow[l] - 1 /\ l + 1 \in 1..Depth
    BY <1>2, <1>5, <1>9, DepthAssumption DEF ExpandNode
  <2>2. NodeInLayer'
    BY <1>7, <2>1 DEF NodeInLayer
  <2>3. \A n \in 0..i' : Agree(n, l)'
    BY <1>6, <1>9, <2>1
  <2>4. Pow[l + 1] = 2 * Pow[l] /\ (2 * i' + 2)..(Pow[l + 1] - 1) = {}
    <3>1. Pow[l + 1] = 2 * Pow[l]
      BY <2>1, PowAssumption
    <3> QED BY <1>7, <2>1, <3>1
  <2>5. \A n \in (2 * i' + 2)..(Pow[layer'] - 1) : Agree(n, layer)'
    BY <2>1, <2>4
  <2>6. \A n \in 0..i' : Agree(n, layer - 1)'
    BY <2>1, <2>3 DEF Agree, Prefix
  <2>7. DifferOnPath'
    BY <2>1, <2>5, <2>6 DEF DifferOnPath
  <2> QED BY <1>1, <1>3, <1>4, <2>2, <2>7 DEF IInv
<1>10. CASE i = 0 /\ layer = Depth /\ pc' = "leaves" /\ UNCHANGED <<layer, i>>
  <2>1. l = Depth /\ i' = 0
    BY <1>5, <1>10
  <2>2. \A n \in i'..(Pow[Depth] - 1) : Agree(n, Depth)'
    BY <1>6, <1>10, <2>1 DEF Agree, Prefix
  <2>3. DifferOnPath' /\ NodeInLayer'
    BY <1>10, <2>2 DEF DifferOnPath, NodeInLayer
  <2> QED BY <1>1, <1>3, <1>4, <2>3 DEF IInv
<1> QED BY <1>8, <1>9, <1>10 DEF ExpandNode

LEMMA InvCorrectLeaf == ASSUME IInv, CorrectLeaf PROVE IInv'
<1>1. TypeOK /\ Path /\ DifferOnPath /\ LeafResult /\ TypeOK' /\ pc = "leaves"
  BY TypeCorrectLeaf DEF IInv, CorrectLeaf
<1>2. i \in Nat /\ i \in Leaves /\ i < Pow[Depth] /\ Pow[Depth] \in Nat
  BY <1>1, LeavesNat, PowGrows, DepthAssumption DEF TypeOK
<1>3. Path'
  BY <1>1, PathKept DEF CorrectLeaf
<1>4. \A b \in Side, n \in Leaves :
         /\ vec'[b][n] = IF n = i THEN Xor(vec[b][i], Times(t_vec[b][i], s_CW[Depth + 1]))
                         ELSE vec[b][n]
         /\ proof'[b][n] = IF n = i THEN Xor(Hash[i][vec[b][i]], Times(t_vec[b][i], hash_CW))
                           ELSE proof[b][n]
  BY <1>1 DEF TypeOK, CorrectLeaf
<1>5. 0 \in Side /\ 1 \in Side
  BY DEF Side
<1>6. ASSUME NEW n \in Leaves, n = i PROVE LeafDone(n)'
  <2>1. Agree(n, Depth) /\ Prefix(Depth) = real_rdx
    BY <1>1, <1>2, <1>6, PrefixEnds DEF DifferOnPath, TypeOK
  <2>2. \A b \in Side :
           /\ vec'[b][n] = Xor(vec[b][n], Times(t_vec[b][n], s_CW[Depth + 1]))
           /\ proof'[b][n] = Xor(Hash[n][vec[b][n]], Times(t_vec[b][n], hash_CW))
    BY <1>4, <1>6
  <2>3. CASE n # real_rdx
    <3>1. vec'[0][n] = vec'[1][n] /\ proof'[0][n] = proof'[1][n]
      BY <1>5, <2>1, <2>2, <2>3 DEF Agree
    <3> QED BY <2>3, <3>1, XorSelf DEF LeafDone, CorrectLeaf, point
  <2>4. CASE n = real_rdx
    <3> DEFINE a == s[Depth][0]
               b == s[Depth][1]
               x == t[Depth][0]
    <3>1. x \in BOOLEAN /\ t[Depth][1] = (~x)
      BY <1>1, DepthAssumption DEF TypeOK, Path, Side
    <3>2. /\ vec[0][n] = a /\ vec[1][n] = b
          /\ t_vec[0][n] = x /\ t_vec[1][n] = (~x)
      BY <1>5, <2>1, <2>4, <3>1 DEF Agree
    <3>3. /\ s_CW[Depth + 1] = Xor(beta, Xor(a, b))
          /\ hash_CW = Xor(Hash[n][a], Hash[n][b])
      BY <1>1, <2>4 DEF Path, HashCorrection
    <3> HIDE DEF a, b, x
    <3>4. Xor(vec'[0][n], vec'[1][n]) = beta
      BY <1>5, <2>2, <3>1, <3>2, <3>3, OneAdded
    <3>5. proof'[0][n] = proof'[1][n]
      BY <1>5, <2>2, <3>1, <3>2, <3>3, OneCorrected
    <3> QED BY <2>4, <3>4, <3>5, SMTT(30) DEF LeafDone, CorrectLeaf, point
  <2> QED BY <2>3, <2>4
<1>7. ASSUME NEW n \in Leaves, n < i PROVE LeafDone(n)'
  <2>1. LeafDone(n) /\ n # i
    BY <1>1, <1>2, <1>7, LeavesNat DEF LeafResult
  <2> QED BY <1>4, <1>5, <2>1 DEF LeafDone, CorrectLeaf, point
<1>8. ASSUME NEW n \in Leaves, n > i, Agree(n, Depth) PROVE Agree(n, Depth)'
  <2>1. n # i
    BY <1>2, <1>8, LeavesNat
  <2> QED BY <1>4, <1>5, <1>8, <2>1 DEF Agree, CorrectLeaf, point, Prefix
<1>9. CASE LastLeaf
  <2>1. pc' = "done"
    BY <1>9 DEF CorrectLeaf
  <2>2. ASSUME NEW n \in Leaves PROVE LeafDone(n)'
    <3>1. n \in Nat /\ n < Pow[Depth] /\ i + 1 = Pow[Depth]
      BY <1>9, LeavesNat DEF LastLeaf
    <3>2. n < i \/ n = i
      BY <1>2, <3>1
    <3>3. CASE n = i
      BY <1>6, <3>3
    <3> QED BY <1>7, <3>2, <3>3
  <2>3. LeafResult' /\ DifferOnPath' /\ NodeInLayer'
    BY <2>1, <2>2 DEF LeafResult, DifferOnPath, NodeInLayer
  <2> QED BY <1>1, <1>3, <2>3 DEF IInv
<1>10. CASE ~LastLeaf
  <2>1. pc' = "leaves" /\ i' = i + 1
    BY <1>1, <1>10 DEF CorrectLeaf
  <2>2. ASSUME NEW n \in Leaves, n < i' PROVE LeafDone(n)'
    <3>1. n < i \/ n = i
      BY <1>2, <2>1, <2>2, LeavesNat
    <3>2. CASE n = i
      BY <1>6, <3>2
    <3> QED BY <1>7, <3>1, <3>2
  <2>3. ASSUME NEW n \in i'..(Pow[Depth] - 1) PROVE Agree(n, Depth)'
    <3>1. n \in Leaves /\ n > i /\ n \in i..(Pow[Depth] - 1)
      BY <1>2, <2>1, LeavesNat
    <3>2. Agree(n, Depth)
      BY <1>1, <3>1 DEF DifferOnPath
    <3> QED BY <1>8, <3>1, <3>2
  <2>4. LeafResult' /\ DifferOnPath' /\ NodeInLayer'
    BY <2>1, <2>2, <2>3 DEF LeafResult, DifferOnPath, NodeInLayer
  <2> QED BY <1>1, <1>3, <2>4 DEF IInv
<1> QED BY <1>9, <1>10

-------------------------------------------------------------------------------

LEMMA InvStep == IInv /\ [Next]_vars => IInv'
<1>1. CASE GenLevel
  BY <1>1, InvGenLevel
<1>2. CASE GenEnd
  BY <1>2, InvGenEnd
<1>3. CASE ExpandNode
  BY <1>3, InvExpandNode
<1>4. CASE CorrectLeaf
  BY <1>4, InvCorrectLeaf
<1>5. CASE UNCHANGED vars
  <2>1. UNCHANGED <<real_rdx, beta, key_s, key_t, s_CW, t_CW, hash_CW, pc, layer, i, vec,
                    t_vec, proof, s, t>>
    BY <1>5 DEF vars, point, key
  <2>2. IInv => TypeOK'
    BY <2>1 DEF IInv, TypeOK
  <2>3. IInv => Path'
    <3>1. HashCorrection' = HashCorrection
      BY <2>1 DEF HashCorrection
    <3>2. ASSUME NEW n PROVE Link(n)' <=> Link(n)
      BY <2>1 DEF Link, SeedCorrection, BitCorrection, ChildSeed, ChildBit, get_bit, Prefix
    <3> QED BY <2>1, <3>1, <3>2 DEF IInv, Path
  <2>4. IInv => NodeInLayer' /\ DifferOnPath'
    BY <2>1 DEF IInv, NodeInLayer, DifferOnPath, Agree, Prefix
  <2>5. IInv => LeafResult'
    BY <2>1 DEF IInv, LeafResult, LeafDone
  <2> QED BY <2>2, <2>3, <2>4, <2>5 DEF IInv
<1> QED BY <1>1, <1>2, <1>3, <1>4, <1>5 DEF Next

\* The state of key generation and of the two expansions (gen_dpf_key_pair and
\* dpf_batch_eval) keeps its types, and the indices stay inside the arrays.
THEOREM TypeCorrect == Spec => []TypeOK
<1>1. Init => IInv
  BY InvInit
<1>2. IInv => TypeOK
  BY DEF IInv
<1> QED BY <1>1, <1>2, InvStep, PTL DEF Spec

\* While dpf_batch_eval expands the layers in place, the arrays of the two holders
\* differ on the path to the point only, and there they hold the seeds and control
\* bits that gen_dpf_key_pair computed when it made the correction words.
THEOREM ExpansionsDifferOnPath == Spec => []DifferOnPath
<1>1. Init => IInv
  BY InvInit
<1>2. IInv => DifferOnPath
  BY DEF IInv
<1> QED BY <1>1, <1>2, InvStep, PTL DEF Spec

\* The two keys of gen_dpf_key_pair are those of a point function: the arrays that
\* dpf_batch_eval makes of them add up to beta at the point and to zero elsewhere.
THEOREM KeysMakePointFunction == Spec => []PointFunction
<1>1. Init => IInv
  BY InvInit
<1>2. IInv => PointFunction
  BY DEF IInv, LeafResult, LeafDone, PointFunction
<1> QED BY <1>1, <1>2, InvStep, PTL DEF Spec

\* The proofs that the two holders of an honest pair compute are the same, so the
\* comparison of DPF_Dealer::check accepts them.
THEOREM HonestProofsAgree == Spec => []ProofsAgree
<1>1. Init => IInv
  BY InvInit
<1>2. IInv => ProofsAgree
  <2> SUFFICES ASSUME IInv, pc = "done" PROVE proof[0] = proof[1]
    BY DEF ProofsAgree
  <2>1. proof[0] \in [Leaves -> Word] /\ proof[1] \in [Leaves -> Word]
    BY DEF IInv, TypeOK, Side
  <2>2. \A n \in Leaves : proof[0][n] = proof[1][n]
    BY DEF IInv, LeafResult, LeafDone
  <2> QED BY <2>1, <2>2
<1> QED BY <1>1, <1>2, InvStep, PTL DEF Spec

-------------------------------------------------------------------------------
(* The batch against dpf_eval.  A path of dpf_eval is a function of the keys'    *)
(* words, which no step of the expansion changes; what an entry of the arrays    *)
(* has to be is said of every such function and every leaf below the entry.      *)

Follows(f, b, idx) ==
    /\ DOMAIN f = 0..Depth
    /\ f[0] = <<key_s[b], key_t[b]>>
    /\ \A n \in 1..Depth : f[n] = EvalStep(idx, n, f[n - 1])

\* Entry n of the arrays, as node n of layer k, is what dpf_eval has after k levels
\* on its way to any leaf under that node.
Entry(n, k) ==
    \A b \in Side, idx \in Leaves : \A f :
        Follows(f, b, idx) /\ idx \div Pow[Depth - k] = n =>
            vec[b][n] = f[k][1] /\ t_vec[b][n] = f[k][2]

\* The word of leaf n is the one that dpf_eval returns.
AloneDone(n) ==
    \A b \in Side : \A f :
        Follows(f, b, n) =>
            vec[b][n] = Xor(f[Depth][1], Times(f[Depth][2], s_CW[Depth + 1]))

PathEntries ==
    /\ pc = "expand" =>
          /\ \A n \in 0..i : Entry(n, layer - 1)
          /\ \A n \in (2*i + 2)..(Pow[layer] - 1) : Entry(n, layer)
    /\ pc = "leaves" =>
          /\ \A n \in i..(Pow[Depth] - 1) : Entry(n, Depth)
          /\ \A n \in Leaves : n < i => AloneDone(n)
    /\ pc = "done" => \A n \in Leaves : AloneDone(n)

BatchInv == IInv /\ PathEntries

\* The node of layer k above a leaf, and the one of layer k - 1 above that.
LEMMA AncestorStep ==
    ASSUME NEW idx \in Leaves, NEW k \in 1..Depth, NEW n \in Nat, NEW d \in Side,
           idx \div Pow[Depth - k] = 2 * n + d
    PROVE  /\ idx \div Pow[Depth - (k - 1)] = n
           /\ (idx \div Pow[Depth - k]) % 2 = d
<1> DEFINE m == Pow[Depth - k]
           q == idx \div m
<1>1. idx \in Nat /\ m \in Nat \ {0} /\ Pow[Depth - (k - 1)] = 2 * m
  <2>1. /\ Depth - k \in 0..Depth /\ Depth - (k - 1) \in 0..Depth
        /\ Depth - (k - 1) > 0 /\ Depth - (k - 1) - 1 = Depth - k
    BY DepthAssumption
  <2> QED BY <2>1, PowGrows, LeavesNat
<1> HIDE DEF m
<1>2. q \in Nat
  BY <1>1, DivDef
<1>3. q \div 2 = idx \div (2 * m)
  BY <1>1, DivTwice
<1>4. q = 2 * n + d
  BY DEF m
<1> HIDE DEF q
<1>5. q \div 2 \in Nat /\ q % 2 \in 0..1 /\ q = 2 * (q \div 2) + (q % 2)
  BY <1>2
<1>6. q \div 2 = n /\ q % 2 = d
  BY <1>4, <1>5, HalfAndParity DEF Side
<1> QED BY <1>1, <1>3, <1>6 DEF q, m

\* No step after key generation changes what dpf_eval computes.
LEMMA FollowsKept ==
    ASSUME UNCHANGED key, NEW f, NEW b, NEW idx
    PROVE  Follows(f, b, idx)' <=> Follows(f, b, idx)
BY DEF Follows, EvalStep, ChildSeed, ChildBit, key

\* What Entry says of a node holds of its children.
LEMMA EntryStep ==
    ASSUME NEW k \in 1..Depth, NEW n \in Nat, NEW d \in Side, Entry(n, k - 1),
           NEW b \in Side, NEW idx \in Leaves, NEW f, Follows(f, b, idx),
           idx \div Pow[Depth - k] = 2 * n + d
    PROVE  /\ ChildSeed(k, vec[b][n], t_vec[b][n], d) = f[k][1]
           /\ ChildBit(k, vec[b][n], t_vec[b][n], d) = f[k][2]
<1>1. /\ idx \div Pow[Depth - (k - 1)] = n
      /\ (idx \div Pow[Depth - k]) % 2 = d
  BY AncestorStep
<1>2. vec[b][n] = f[k - 1][1] /\ t_vec[b][n] = f[k - 1][2]
  BY <1>1 DEF Entry
<1>3. f[k] = EvalStep(idx, k, f[k - 1])
  BY DEF Follows
<1>4. f[k] = <<ChildSeed(k, f[k - 1][1], f[k - 1][2], d),
               ChildBit(k, f[k - 1][1], f[k - 1][2], d)>>
  BY <1>1, <1>3, Zenon DEF EvalStep
<1> HIDE DEF ChildSeed, ChildBit
<1> QED BY <1>2, <1>4

LEMMA PointwiseGenEnd == ASSUME IInv, GenEnd PROVE PathEntries'
<1>1. TypeOK /\ 0 \in Leaves
  BY LeavesNat DEF IInv
<1>2. \A b \in Side : vec'[b][0] = key_s'[b] /\ t_vec'[b][0] = key_t'[b]
  BY <1>1 DEF TypeOK, GenEnd
<1>3. Entry(0, 0)'
  BY <1>2 DEF Entry, Follows
<1>4. layer' - 1 = 0 /\ i' = 0 /\ pc' = "expand" /\ Pow[layer'] = 2
  BY PowAssumption, DepthAssumption DEF GenEnd
<1> QED BY <1>3, <1>4 DEF PathEntries

\* After node i of layer k - 1 has been expanded (see ExpandedArray).
LEMMA ExpandedPaths ==
    ASSUME BatchInv, ExpandNode, NEW k \in 1..Depth, k = layer
    PROVE  /\ \A n \in 0..(i - 1) : Entry(n, k - 1)'
           /\ \A n \in (2 * i)..(Pow[k] - 1) : Entry(n, k)'
<1>1. /\ TypeOK /\ i \in Nat /\ i < Pow[k - 1]
      /\ Pow[k] = 2 * Pow[k - 1] /\ Pow[k] <= Pow[Depth]
      /\ Pow[k] \in Nat /\ Pow[k - 1] \in Nat /\ Pow[Depth] \in Nat
  <2>1. TypeOK /\ NodeInLayer /\ pc = "expand"
    BY DEF BatchInv, IInv, ExpandNode
  <2>2. i \in Nat /\ i < Pow[k - 1]
    BY <2>1, LeavesNat DEF TypeOK, NodeInLayer
  <2> QED BY <2>1, <2>2, PowGrows, DepthAssumption
<1>2. /\ \A n \in 0..i : Entry(n, k - 1)
      /\ \A n \in (2 * i + 2)..(Pow[k] - 1) : Entry(n, k)
  BY DEF BatchInv, ExpandNode, PathEntries
<1>3. UNCHANGED key
  BY DEF ExpandNode
<1>4. ASSUME NEW n \in Leaves, NEW m \in 0..Depth, n # 2 * i, n # 2 * i + 1, Entry(n, m)
      PROVE  Entry(n, m)'
  <2>1. \A b \in Side : vec'[b][n] = vec[b][n] /\ t_vec'[b][n] = t_vec[b][n]
    BY <1>1, <1>4, ExpandedEntries
  <2> QED BY <1>3, <1>4, <2>1, FollowsKept DEF Entry
<1>5. ASSUME NEW n \in Leaves, NEW d \in Side, n = 2 * i + d PROVE Entry(n, k)'
  <2>1. \A b \in Side : /\ vec'[b][n] = ChildSeed(k, vec[b][i], t_vec[b][i], d)
                       /\ t_vec'[b][n] = ChildBit(k, vec[b][i], t_vec[b][i], d)
    BY <1>1, <1>5, ExpandedEntries
  <2>2. Entry(i, k - 1)
    BY <1>1, <1>2
  <2> SUFFICES ASSUME NEW b \in Side, NEW idx \in Leaves, NEW f, Follows(f, b, idx)',
                      idx \div Pow[Depth - k] = n
               PROVE  vec'[b][n] = f[k][1] /\ t_vec'[b][n] = f[k][2]
    BY DEF Entry
  <2>3. Follows(f, b, idx)
    BY <1>3, FollowsKept
  <2>4. /\ ChildSeed(k, vec[b][i], t_vec[b][i], d) = f[k][1]
        /\ ChildBit(k, vec[b][i], t_vec[b][i], d) = f[k][2]
    BY <1>1, <1>5, <2>2, <2>3, EntryStep
  <2> QED BY <2>1, <2>4
<1>6. ASSUME NEW n \in 0..(i - 1) PROVE Entry(n, k - 1)'
  <2>1. n \in Leaves /\ k - 1 \in 0..Depth /\ n # 2 * i /\ n # 2 * i + 1 /\ n \in 0..i
    BY <1>1, LeavesNat, DepthAssumption
  <2> QED BY <1>2, <1>4, <2>1
<1>7. ASSUME NEW n \in (2 * i)..(Pow[k] - 1) PROVE Entry(n, k)'
  <2>1. n \in Leaves /\ k \in 0..Depth /\ n \in Int /\ 0 \in Side /\ 1 \in Side
    BY <1>1, LeavesNat, DepthAssumption DEF Side
  <2>2. CASE n = 2 * i + 0
    BY <1>5, <2>1, <2>2
  <2>3. CASE n = 2 * i + 1
    BY <1>5, <2>1, <2>3
  <2>4. CASE n \in (2 * i + 2)..(Pow[k] - 1)
    BY <1>1, <1>2, <1>4, <2>1, <2>4
  <2> QED BY <1>1, <2>1, <2>2, <2>3, <2>4
<1> QED BY <1>6, <1>7

LEMMA PointwiseExpandNode == ASSUME BatchInv, ExpandNode PROVE PathEntries'
<1>1. layer \in 1..Depth + 1 /\ (pc = "expand" => layer <= Depth) /\ i \in Leaves /\ pc = "expand"
  BY DEF BatchInv, IInv, TypeOK, ExpandNode
<1>2. layer \in 1..Depth /\ i \in Nat
  BY <1>1, LeavesNat, DepthAssumption
<1>3. PICK l \in 1..Depth : l = layer
  BY <1>2
<1>4. /\ \A n \in 0..(i - 1) : Entry(n, l - 1)'
      /\ \A n \in (2 * i)..(Pow[l] - 1) : Entry(n, l)'
  BY <1>3, ExpandedPaths
<1>5. Pow[l] \in Nat
  BY PowGrows
<1>6. CASE i > 0 /\ i' = i - 1 /\ UNCHANGED <<pc, layer>>
  <2>1. layer' = l /\ pc' = "expand"
    BY <1>3, <1>6 DEF ExpandNode
  <2>2. \A n \in 0..i' : Entry(n, l - 1)'
    BY <1>4, <1>6
  <2>3. \A n \in (2 * i' + 2)..(Pow[l] - 1) : Entry(n, l)'
    BY <1>2, <1>4, <1>5, <1>6
  <2> QED BY <2>1, <2>2, <2>3 DEF PathEntries, Entry
<1>7. CASE i = 0 /\ layer < Depth /\ layer' = layer + 1 /\ i' = Pow[layer] - 1 /\ UNCHANGED pc
  <2>1. layer' = l + 1 /\ layer' - 1 = l /\ pc' = "expand" /\ i' = Pow[l] - 1 /\ l + 1 \in 1..Depth
    BY <1>2, <1>3, <1>7, DepthAssumption DEF ExpandNode
  <2>2. \A n \in 0..i' : Entry(n, l)'
    BY <1>4, <1>7, <2>1
  <2>3. (2 * i' + 2)..(Pow[l + 1] - 1) = {}
    <3>1. Pow[l + 1] = 2 * Pow[l]
      BY <2>1, PowAssumption
    <3> QED BY <1>5, <2>1, <3>1
  <2> QED BY <2>1, <2>2, <2>3 DEF PathEntries, Entry
<1>8. CASE i = 0 /\ layer = Depth /\ pc' = "leaves" /\ UNCHANGED <<layer, i>>
  <2>1. l = Depth /\ i' = 0
    BY <1>3, <1>8
  <2>2. \A n \in i'..(Pow[Depth] - 1) : Entry(n, Depth)'
    BY <1>4, <1>8, <2>1
  <2>3. \A n \in Leaves : ~ n < i'
    BY <2>1, LeavesNat
  <2> QED BY <1>8, <2>2, <2>3 DEF PathEntries
<1> QED BY <1>6, <1>7, <1>8 DEF ExpandNode

LEMMA PointwiseCorrectLeaf == ASSUME BatchInv, CorrectLeaf PROVE PathEntries'
<1>1. TypeOK /\ PathEntries /\ pc = "leaves" /\ UNCHANGED key
  BY DEF BatchInv, IInv, CorrectLeaf
<1>2. i \in Nat /\ i \in Leaves /\ i < Pow[Depth] /\ Pow[Depth] \in Nat
  BY <1>1, LeavesNat, PowGrows, DepthAssumption DEF TypeOK
<1>3. /\ \A b \in Side, n \in Leaves :
            vec'[b][n] = IF n = i THEN Xor(vec[b][i], Times(t_vec[b][i], s_CW[Depth + 1]))
                         ELSE vec[b][n]
      /\ t_vec' = t_vec /\ s_CW' = s_CW
  BY <1>1 DEF TypeOK, CorrectLeaf, key
<1>4. ASSUME NEW n \in Leaves, n = i PROVE AloneDone(n)'
  <2>1. Entry(n, Depth) /\ n \div Pow[Depth - Depth] = n
    <3>1. Depth - Depth = 0 /\ Pow[0] = 1 /\ n \in Nat
      BY PowAssumption, DepthAssumption, LeavesNat
    <3>2. n \div 1 = n
      BY <3>1
    <3> QED BY <1>1, <1>2, <1>4, <3>1, <3>2 DEF PathEntries
  <2> SUFFICES ASSUME NEW b \in Side, NEW f, Follows(f, b, n)'
               PROVE  vec'[b][n] = Xor(f[Depth][1], Times(f[Depth][2], s_CW'[Depth + 1]))
    BY DEF AloneDone
  <2>2. Follows(f, b, n)
    BY <1>1, FollowsKept
  <2>3. vec[b][n] = f[Depth][1] /\ t_vec[b][n] = f[Depth][2]
    BY <2>1, <2>2 DEF Entry
  <2>4. vec'[b][n] = Xor(vec[b][n], Times(t_vec[b][n], s_CW[Depth + 1]))
    BY <1>3, <1>4
  <2> QED BY <1>3, <2>3, <2>4
<1>5. ASSUME NEW n \in Leaves, n # i, AloneDone(n) PROVE AloneDone(n)'
  <2>1. \A b \in Side : vec'[b][n] = vec[b][n]
    BY <1>3, <1>5
  <2> QED BY <1>1, <1>3, <1>5, <2>1, FollowsKept DEF AloneDone
<1>6. ASSUME NEW n \in Leaves, n # i, Entry(n, Depth) PROVE Entry(n, Depth)'
  <2>1. \A b \in Side : vec'[b][n] = vec[b][n] /\ t_vec'[b][n] = t_vec[b][n]
    BY <1>3, <1>6
  <2> QED BY <1>1, <1>6, <2>1, FollowsKept DEF Entry
<1>7. ASSUME NEW n \in Leaves, n <= i PROVE AloneDone(n)'
  <2>1. CASE n = i
    BY <1>4, <2>1
  <2>2. CASE n # i
    <3>1. n < i
      BY <1>2, <1>7, <2>2, LeavesNat
    <3>2. AloneDone(n)
      BY <1>1, <3>1 DEF PathEntries
    <3> QED BY <1>5, <2>2, <3>2
  <2> QED BY <2>1, <2>2
<1>8. CASE LastLeaf
  <2>1. pc' = "done"
    BY <1>8 DEF CorrectLeaf
  <2>2. \A n \in Leaves : n <= i
    BY <1>2, <1>8, LeavesNat DEF LastLeaf
  <2> QED BY <1>7, <2>1, <2>2 DEF PathEntries
<1>9. CASE ~LastLeaf
  <2>1. pc' = "leaves" /\ i' = i + 1
    BY <1>1, <1>9 DEF CorrectLeaf
  <2>2. \A n \in Leaves : n < i' => n <= i
    BY <1>2, <2>1, LeavesNat
  <2>3. ASSUME NEW n \in i'..(Pow[Depth] - 1) PROVE Entry(n, Depth)'
    <3>1. n \in Leaves /\ n # i /\ n \in i..(Pow[Depth] - 1)
      BY <1>2, <2>1, LeavesNat
    <3>2. Entry(n, Depth)
      BY <1>1, <3>1 DEF PathEntries
    <3> QED BY <1>6, <3>1, <3>2
  <2> QED BY <1>7, <2>1, <2>2, <2>3 DEF PathEntries
<1> QED BY <1>8, <1>9

LEMMA BatchStep == BatchInv /\ [Next]_vars => BatchInv'
<1> SUFFICES ASSUME BatchInv, [Next]_vars PROVE BatchInv'
  OBVIOUS
<1>1. IInv /\ PathEntries /\ IInv'
  BY InvStep DEF BatchInv
<1>2. CASE GenLevel
  BY <1>1, <1>2 DEF BatchInv, GenLevel, PathEntries
<1>3. CASE GenEnd
  BY <1>1, <1>3, PointwiseGenEnd DEF BatchInv
<1>4. CASE ExpandNode
  BY <1>1, <1>4, PointwiseExpandNode DEF BatchInv
<1>5. CASE CorrectLeaf
  BY <1>1, <1>5, PointwiseCorrectLeaf DEF BatchInv
<1>6. CASE UNCHANGED vars
  <2>1. UNCHANGED <<key, s_CW, pc, layer, i, vec, t_vec>>
    BY <1>6 DEF vars, key
  <2>2. \A n, k : Entry(n, k)' <=> Entry(n, k)
    BY <2>1, FollowsKept DEF Entry
  <2>3. \A n : AloneDone(n)' <=> AloneDone(n)
    BY <2>1, FollowsKept DEF AloneDone
  <2> QED BY <1>1, <2>1, <2>2, <2>3 DEF BatchInv, PathEntries
<1> QED BY <1>2, <1>3, <1>4, <1>5, <1>6 DEF Next

\* The recursive function that dpf_eval is defined by exists, and so it follows the
\* path: for every k there is a function that does so as far as level k.
LEMMA PathFollows ==
    ASSUME NEW b, NEW idx
    PROVE  Follows(EvalPath(b, idx), b, idx)
<1> DEFINE Body(f, n) == IF n = 0 THEN <<key_s[b], key_t[b]>> ELSE EvalStep(idx, n, f[n - 1])
           S == {k \in Nat : \E f : DOMAIN f = 0..k /\ \A n \in 0..k : f[n] = Body(f, n)}
<1> HIDE DEF EvalStep
<1>1. 0 \in S
  <2> DEFINE g == [n \in 0..0 |-> <<key_s[b], key_t[b]>>]
  <2>1. DOMAIN g = 0..0 /\ \A n \in 0..0 : g[n] = Body(g, n)
    OBVIOUS
  <2> HIDE DEF g
  <2>2. 0 \in Nat
    OBVIOUS
  <2> QED BY <2>1, <2>2, Zenon
<1>2. ASSUME NEW k \in 0..(Depth - 1), k \in S PROVE k + 1 \in S
  <2>1. k \in Nat
    BY DepthAssumption
  <2>2. PICK f : DOMAIN f = 0..k /\ \A n \in 0..k : f[n] = Body(f, n)
    BY <1>2, Zenon
  <2> DEFINE g == [n \in 0..(k + 1) |-> IF n = k + 1 THEN EvalStep(idx, n, f[n - 1]) ELSE f[n]]
  <2>3. DOMAIN g = 0..(k + 1)
    OBVIOUS
  <2>4. \A n \in 0..k : g[n] = f[n] /\ n \in 0..(k + 1)
    BY <2>1
  <2>5. ASSUME NEW n \in 0..(k + 1) PROVE g[n] = Body(g, n)
    <3>1. CASE n = k + 1
      <4>1. n # 0 /\ n - 1 \in 0..k
        BY <2>1, <3>1
      <4> QED BY <2>4, <3>1, <4>1
    <3>2. CASE n # k + 1 /\ n = 0
      <4>1. n \in 0..k
        BY <2>1, <3>2
      <4> QED BY <2>2, <2>4, <3>2, <4>1
    <3>3. CASE n # k + 1 /\ n # 0
      <4>1. n \in 0..k /\ n - 1 \in 0..k
        BY <2>1, <2>5, <3>3
      <4>2. g[n] = f[n] /\ g[n - 1] = f[n - 1] /\ f[n] = Body(f, n)
        BY <2>2, <2>4, <4>1
      <4> QED BY <3>3, <4>2, Zenon
    <3> QED BY <3>1, <3>2, <3>3
  <2> HIDE DEF g
  <2>6. k + 1 \in Nat
    BY <2>1
  <2> QED BY <2>3, <2>5, <2>6, Zenon
<1> HIDE DEF S
<1>3. Depth \in S
  BY <1>1, <1>2, CountUpTo, DepthAssumption
<1> USE DEF S
<1>4. PICK f : DOMAIN f = 0..Depth /\ \A n \in 0..Depth : f[n] = Body(f, n)
  BY <1>3, Zenon
<1> DEFINE h == [n \in 0..Depth |-> f[n]]
<1>5. ASSUME NEW n \in 0..Depth PROVE h[n] = Body(h, n)
  <2>1. n # 0 => n - 1 \in 0..Depth
    BY DepthAssumption
  <2>2. h[n] = f[n] /\ (n # 0 => h[n - 1] = f[n - 1]) /\ f[n] = Body(f, n)
    BY <1>4, <2>1
  <2> HIDE DEF h
  <2> QED BY <2>2, Zenon
<1>6. h = [n \in 0..Depth |-> h[n]]
  OBVIOUS
<1> HIDE DEF h
<1>7. h = [n \in 0..Depth |-> Body(h, n)]
  BY <1>5, <1>6, Zenon
<1>8. \E r : r = [n \in 0..Depth |-> Body(r, n)]
  BY <1>7, Zenon
<1> DEFINE e == EvalPath(b, idx)
<1>9. e = [n \in 0..Depth |-> Body(e, n)]
  BY <1>8, Zenon DEF EvalPath
<1> HIDE DEF Body, e
<1>10. DOMAIN e = 0..Depth /\ \A n \in 0..Depth : e[n] = Body(e, n)
  BY <1>9
<1>11. 0 \in 0..Depth /\ \A n \in 1..Depth : n \in 0..Depth /\ n # 0
  BY DepthAssumption
<1>12. Follows(e, b, idx)
  BY <1>10, <1>11 DEF Follows, Body
<1> QED BY <1>12 DEF e

\* dpf_batch_eval, which expands the whole tree in one array, leaves at every leaf
\* the word that dpf_eval computes for that leaf alone.
THEOREM BatchEvaluatesEachLeaf == Spec => []BatchIsPointwise
<1>1. Init => BatchInv
  BY InvInit DEF BatchInv, Init, PathEntries
<1>2. BatchInv => BatchIsPointwise
  <2> SUFFICES ASSUME BatchInv, pc = "done", NEW b \in Side, NEW n \in Leaves
               PROVE  vec[b][n] = dpf_eval(b, n)
    BY DEF BatchIsPointwise
  <2>1. AloneDone(n)
    BY DEF BatchInv, PathEntries
  <2>2. Follows(EvalPath(b, n), b, n)
    BY PathFollows
  <2> HIDE DEF EvalPath, Follows
  <2> QED BY <2>1, <2>2, Zenon DEF AloneDone, dpf_eval
<1> QED BY <1>1, <1>2, BatchStep, PTL DEF Spec
===============================================================================
