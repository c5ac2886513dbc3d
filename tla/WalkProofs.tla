------------------------------ MODULE WalkProofs ------------------------------
(***************************************************************************)
(* Proofs about TravelTree and SecureWalk for words of any power of two    *)
(* bits, any tree, keys, masks and triples and any depth: a selection      *)
(* yields the row at the shared index, a comparison computes the bit that  *)
(* TravelTree takes for granted, the walk follows the plain one, and no    *)
(* check fails.                                                            *)
(***************************************************************************)
EXTENDS SecureWalk, CommonLemmas, FiniteSetTheorems

\* x is a replicated sharing of v.
Shared(x, v) == x \in Sharing /\ Replicated(x) /\ ValueOf(x) = v

\* The plain tree and features, and their sharings and those of their MACs.
Tables ==
    /\ model \in [Row -> [Col -> Word]] /\ features \in [Row -> Word]
    /\ \A n \in Row : \A c \in {"left", "right", "vIdx"} : model[n][c] \in Row
    /\ ss_mac_key \in Sharing /\ Replicated(ss_mac_key)
    /\ \A n \in Row : /\ Shared(ssFeatureSchema[n], features[n])
                      /\ \A c \in Col : /\ Shared(ss_model[n][c], model[n][c])
                                        /\ Shared(ss_mac_model[n][c],
                                                  Times(ValueOf(ss_mac_key), model[n][c]))

\* Between the calls of a layer the shares hold what a plain walk has: the node
\* it is at, its feature, the outcome of its comparison, the next node.
Outcome == IF Above(model[at]["threshold"], features[model[at]["vIdx"]]) THEN {0} ELSE {}

Walk ==
    /\ pc \in {"feature", "compare", "child", "node", "check", "return"}
    /\ at \in Row
    /\ pc # "node" => \A c \in Col : Shared(cur_node[c], model[at][c])
    /\ pc = "compare" => Shared(ssY, features[model[at]["vIdx"]])
    /\ pc = "child" => Shared(ssb, Outcome)
    /\ pc = "node" => Shared(ssNextNodeIdx, at)

\* The sum over the MACs is the key times the sum over the nodes.
Sums ==
    /\ sum_model_data \in Sharing /\ Replicated(sum_model_data)
    /\ Shared(sum_mac_model_data, Times(ValueOf(ss_mac_key), ValueOf(sum_model_data)))
    /\ passed
    /\ pc = "return" => \A p \in Party : rec[p] = Zero

WalkInv == Tables /\ Walk /\ Sums

-------------------------------------------------------------------------------
(* The comparison. *)

Good(x) == x \in Sharing /\ Replicated(x)

\* There are csize blocks of Width \div csize bits.
Sizes == /\ cpc \in {"idle", "gt", "test", "eq", "shift", "g", "e", "return"}
         /\ csize \in 2..Width /\ Width % csize = 0
         /\ cpc \in {"gt", "test"} => csize = Width
         /\ cpc \in {"g", "e"} => ci \in Nat /\ 2 * ci + 2 <= csize

\* Of the words v and u, block by block: v above u, v equal to u.
BlockAbove(v, u, j, w) == Cmp!Above(v, u, Cmp!Block(j, w))
BlockEqual(v, u, j, w) == \A k \in Cmp!Block(j, w) : k \in v <=> k \in u

AboveBlocks(v, u, n, w) == {j \in 0..(n - 1) : BlockAbove(v, u, j, w)}
EqualBlocks(v, u, n, w) == {j \in 0..(n - 1) : BlockEqual(v, u, j, w)}

\* At the even positions of a word g or e are the results for two blocks at once.
AboveAtEven(g, v, u, n, w) == \A j \in 0..((n \div 2) - 1) : 2*j \in g <=> BlockAbove(v, u, j, 2*w)
EqualAtEven(e, v, u, n, w) == \A j \in 0..((n \div 2) - 1) : 2*j \in e <=> BlockEqual(v, u, j, 2*w)

\* What the words hold before each product: the loop collects what gt_temp3 and
\* eq_temp2 have at the even positions.
Blocks ==
    LET v == ValueOf(ct)
        u == ValueOf(cx)
        w == Width \div csize
    IN
    /\ cpc = "test" => Shared(cgt, AboveBlocks(v, u, csize, w))
    /\ cpc \in {"eq", "shift"} => /\ Shared(cgt, AboveBlocks(v, u, csize, w))
                                  /\ Shared(ceq, EqualBlocks(v, u, csize, w))
    /\ cpc = "shift" => Shared(ceq_temp1, Cmp!ShiftRight(EqualBlocks(v, u, csize, w), 1))
    /\ cpc \in {"shift", "g", "e"} =>
          Good(ceq_temp2) /\ EqualAtEven(ValueOf(ceq_temp2), v, u, csize, w)
    /\ cpc \in {"g", "e"} =>
          /\ Good(cgt_temp3) /\ AboveAtEven(ValueOf(cgt_temp3), v, u, csize, w)
          /\ Shared(ceq_temp, EqualBlocks(v, u, ci, 2*w))
          /\ Shared(cgt_temp, AboveBlocks(v, u, IF cpc = "e" THEN ci + 1 ELSE ci, 2*w))
    /\ cpc = "return" => /\ Shared(cret, IF BlockAbove(v, u, 0, Width) THEN {0} ELSE {})
                         /\ \A p \in Party : cret[p][0] \subseteq {0}

\* While a comparison runs the walk waits for it, and its words stay the same.
Compared ==
    /\ cpc # "idle" => /\ pc = "compare" /\ cval = i
                       /\ cx = ssY /\ ct = cur_node["threshold"]
                       /\ Good(cx) /\ Good(ct)
    /\ cpassed

\* The triples of the layers and products so far come before this one.
NextTriple ==
    CASE cpc = "gt"     -> Stride * i
      [] cpc = "test"   -> Stride * i + 1
      [] cpc = "eq"     -> Stride * i + cincr + 2
      [] cpc = "shift"  -> Stride * i + cincr + 3
      [] cpc = "g"      -> Stride * i + cincr + 4 + 2*ci
      [] cpc = "e"      -> Stride * i + cincr + 5 + 2*ci
      [] cpc = "return" -> Stride * (i + 1)
      [] OTHER          -> Stride * (IF pc \in {"child", "node"} THEN i + 1 ELSE i)

Taken ==
    /\ i \in 0..Depth /\ (pc \in {"feature", "compare", "child", "node"} => i < Depth)
    /\ cpc # "idle" => cincr \in Nat /\ cincr + TriplesTaken[csize] = TriplesTaken[Width]
    /\ cpc \in {"gt", "test"} => cincr = 0
    /\ IsFiniteSet(cused) /\ cands = Cardinality(cused)
    /\ \A n \in cused : n \in Nat /\ n < NextTriple

CmpInv == Sizes /\ Blocks /\ Compared

-------------------------------------------------------------------------------
(* Words. *)

LEMMA XorLaws ==
    ASSUME NEW a, NEW b, NEW c
    PROVE  /\ Xor(a, b) = Xor(b, a) /\ Xor(a, Xor(b, c)) = Xor(Xor(a, b), c)
           /\ Xor(a, a) = Zero /\ Xor(a, Zero) = a /\ Xor(Zero, a) = a
           /\ Xor(a, Xor(a, b)) = b /\ Xor(Xor(b, a), a) = b
BY DEF Xor, Zero

LEMMA RowsAreWords ==
    /\ IsFiniteSet(Row)
    /\ \A n \in Row : n \in Word
    /\ \A n \in Row, m \in Row : Xor(n, m) \in Row
    /\ Root \in Row
<1>1. IsFiniteSet(Row)
  BY BitsAssumption, FS_SUBSET DEF Row
<1> QED BY <1>1, BitsAssumption DEF Row, Word, Xor, Root

LEMMA FieldLaws ==
    ASSUME NEW a \in Word, NEW b \in Word, NEW c \in Word
    PROVE  /\ Xor(a, b) \in Word /\ Times(a, b) \in Word /\ Zero \in Word /\ {0} \in Word
           /\ Times(a, b) = Times(b, a)
           /\ Times(a, Times(b, c)) = Times(Times(a, b), c)
           /\ Times(a, Xor(b, c)) = Xor(Times(a, b), Times(a, c))
           /\ Times(Xor(b, c), a) = Xor(Times(b, a), Times(c, a))
           /\ Times({0}, a) = a /\ Times(Zero, a) = Zero
<1>1. Xor(b, c) \in Word /\ Xor(a, b) \in Word /\ Zero \in Word
  BY WordOps
<1>2. {0} \in Word
  BY FieldAssumption DEF Word
<1>3. /\ Times(a, b) \in Word
      /\ Times(a, b) = Times(b, a) /\ Times(a, c) = Times(c, a)
      /\ Times(a, Xor(b, c)) = Times(Xor(b, c), a)
      /\ Times(a, Times(b, c)) = Times(Times(a, b), c)
      /\ Times(a, Xor(b, c)) = Xor(Times(a, b), Times(a, c))
      /\ Times({0}, a) = a
  BY <1>1, FieldAssumption
<1>4. Times(Zero, a) = Zero
  <2>1. Xor(a, a) = Zero
    BY XorLaws
  <2>2. Times(a, Xor(a, a)) = Xor(Times(a, a), Times(a, a))
    BY FieldAssumption
  <2>3. Times(a, Zero) = Times(Zero, a)
    BY <1>1, FieldAssumption
  <2> QED BY <2>1, <2>2, <2>3, XorLaws
<1> QED BY <1>1, <1>2, <1>3, <1>4

-------------------------------------------------------------------------------
(* Shared words. *)

LEMMA SharedParts ==
    ASSUME NEW x, NEW v, Shared(x, v)
    PROVE  /\ v \in Word /\ v = Xor3(x[0][0], x[1][0], x[2][0])
           /\ \A p \in Party : x[p] \in Pair /\ x[p][0] \in Word /\ x[p][1] \in Word
           /\ x[0][1] = x[2][0] /\ x[1][1] = x[0][0] /\ x[2][1] = x[1][0]
<1>1. x \in Sharing /\ Replicated(x) /\ v = Xor3(x[0][0], x[1][0], x[2][0])
  BY DEF Shared, ValueOf
<1>2. \A p \in Party : x[p] \in Pair /\ x[p][0] \in Word /\ x[p][1] \in Word
  BY <1>1, SharingParts
<1>3. Xor3(x[0][0], x[1][0], x[2][0]) \in Word
  <2>1. x[0][0] \in Word /\ x[1][0] \in Word /\ x[2][0] \in Word
    BY <1>2, Ring
  <2> QED BY <2>1, WordOps DEF Xor3
<1> QED BY <1>1, <1>2, <1>3, SharingParts

LEMMA SharedXor ==
    ASSUME NEW x, NEW y, NEW v, NEW w, Shared(x, v), Shared(y, w)
    PROVE  Shared(XorOp(x, y), Xor(v, w))
BY XorValue DEF Shared

LEMMA SharedAnd ==
    ASSUME NEW x, NEW y, NEW v, NEW w, Shared(x, v), Shared(y, w)
    PROVE  Shared(AndOp(x, y), v \cap w)
BY AndValue DEF Shared

LEMMA SharedDealt ==
    ASSUME NEW v \in Word, NEW stream \in [Party -> Word]
    PROVE  Shared(Dealt(v, stream), v)
<1> DEFINE val == [p \in Party |-> IF p = 0 THEN v ELSE Zero]
<1>1. Zero \in Word
  BY WordOps
<1>2. val \in [Party -> Word] /\ val[0] = v /\ val[1] = Zero /\ val[2] = Zero
  BY <1>1, Ring
<1>3. Xor3(val[0], val[1], val[2]) = v
  BY <1>2, XorLaws DEF Xor3
<1> HIDE DEF val
<1>4. Shared(ShareOp(val, stream), v)
  BY <1>2, <1>3, ShareValue DEF Shared
<1> QED BY <1>4 DEF Dealt, val

\* poly_mul: the nine products of components are all there.
LEMMA SharedMul ==
    ASSUME NEW x, NEW y, NEW v, NEW w, Shared(x, v), Shared(y, w)
    PROVE  Shared(MulOp(x, y), Times(v, w))
<1> DEFINE x0 == x[0][0]
           x1 == x[1][0]
           x2 == x[2][0]
           y0 == y[0][0]
           y1 == y[1][0]
           y2 == y[2][0]
           c == [p \in Party |-> MulTerm(x[p], y[p])]
<1>1. /\ x0 \in Word /\ x1 \in Word /\ x2 \in Word /\ v = Xor3(x0, x1, x2) /\ v \in Word
      /\ x[0][1] = x2 /\ x[1][1] = x0 /\ x[2][1] = x1
  BY SharedParts, Ring
<1>2. /\ y0 \in Word /\ y1 \in Word /\ y2 \in Word /\ w = Xor3(y0, y1, y2) /\ w \in Word
      /\ y[0][1] = y2 /\ y[1][1] = y0 /\ y[2][1] = y1
  BY SharedParts, Ring
<1>3. /\ c[0] = Xor3(Times(x0, y0), Times(x0, y2), Times(x2, y0))
      /\ c[1] = Xor3(Times(x1, y1), Times(x1, y0), Times(x0, y1))
      /\ c[2] = Xor3(Times(x2, y2), Times(x2, y1), Times(x1, y2))
  BY <1>1, <1>2, Ring DEF MulTerm
<1> HIDE DEF x0, x1, x2, y0, y1, y2
<1>4. \A a, b \in Word : Times(a, b) \in Word
  BY FieldLaws
<1>5. c \in [Party -> Word]
  <2>1. \A a1, a2, a3 \in Word : Xor3(a1, a2, a3) \in Word
    BY WordOps DEF Xor3
  <2>2. c[0] \in Word /\ c[1] \in Word /\ c[2] \in Word
    BY <1>1, <1>2, <1>3, <1>4, <2>1
  <2>3. \A p \in Party : c[p] \in Word
    BY <2>2, Ring
  <2> QED BY <2>3
<1>6. \A a \in Word : Times(a, w) = Xor3(Times(a, y0), Times(a, y1), Times(a, y2))
  <2> TAKE a \in Word
  <2>1. Times(a, Xor(Xor(y0, y1), y2)) = Xor(Times(a, Xor(y0, y1)), Times(a, y2))
    BY <1>2, FieldLaws
  <2>2. Times(a, Xor(y0, y1)) = Xor(Times(a, y0), Times(a, y1))
    BY <1>2, FieldLaws
  <2> QED BY <1>2, <2>1, <2>2 DEF Xor3
<1>7. Times(v, w) = Xor3(Times(x0, w), Times(x1, w), Times(x2, w))
  <2>1. Times(Xor(Xor(x0, x1), x2), w) = Xor(Times(Xor(x0, x1), w), Times(x2, w))
    BY <1>1, <1>2, FieldLaws
  <2>2. Times(Xor(x0, x1), w) = Xor(Times(x0, w), Times(x1, w))
    BY <1>1, <1>2, FieldLaws
  <2> QED BY <1>1, <2>1, <2>2 DEF Xor3
<1>8. Xor3(c[0], c[1], c[2]) = Times(v, w)
  <2> DEFINE p00 == Times(x0, y0)
             p01 == Times(x0, y1)
             p02 == Times(x0, y2)
             p10 == Times(x1, y0)
             p11 == Times(x1, y1)
             p12 == Times(x1, y2)
             p20 == Times(x2, y0)
             p21 == Times(x2, y1)
             p22 == Times(x2, y2)
  <2>1. Times(v, w) = Xor3(Xor3(p00, p01, p02), Xor3(p10, p11, p12), Xor3(p20, p21, p22))
    BY <1>1, <1>6, <1>7
  <2>2. /\ c[0] = Xor3(p00, p02, p20) /\ c[1] = Xor3(p11, p10, p01) /\ c[2] = Xor3(p22, p21, p12)
    BY <1>3
  <2> HIDE DEF p00, p01, p02, p10, p11, p12, p20, p21, p22, c
  <2>3. \A e : e \in Xor3(Xor3(p00, p02, p20), Xor3(p11, p10, p01), Xor3(p22, p21, p12))
                 <=> e \in Xor3(Xor3(p00, p01, p02), Xor3(p10, p11, p12), Xor3(p20, p21, p22))
    BY DEF Xor3, Xor
  <2> QED BY <2>1, <2>2, <2>3
<1> QED BY <1>5, <1>8, Components DEF MulOp, Shared

LEMMA SharedReveal ==
    ASSUME NEW x, NEW v, Shared(x, v), NEW p \in Party
    PROVE  RevealOp(x)[p] = v
BY RevealValue DEF Shared

\* A public word, added by the two holders of component 0.
Public(v) == [p \in Party |-> PublicPair(p, v)]

LEMMA SharedPublic ==
    ASSUME NEW v \in Word
    PROVE  Shared(Public(v), v)
<1>1. Zero \in Word
  BY WordOps
<1>2. /\ Public(v)[0] = MkPair(v, Zero) /\ Public(v)[1] = MkPair(Zero, v)
      /\ Public(v)[2] = MkPair(Zero, Zero)
  BY Ring DEF Public, PublicPair
<1>3. /\ MkPair(v, Zero) \in Pair /\ MkPair(v, Zero)[0] = v /\ MkPair(v, Zero)[1] = Zero
      /\ MkPair(Zero, v) \in Pair /\ MkPair(Zero, v)[0] = Zero /\ MkPair(Zero, v)[1] = v
      /\ MkPair(Zero, Zero) \in Pair /\ MkPair(Zero, Zero)[0] = Zero /\ MkPair(Zero, Zero)[1] = Zero
  BY <1>1, PairParts
<1>4. \A p \in Party : Public(v)[p] \in Pair
  BY <1>2, <1>3, Ring
<1>5. Public(v) \in Sharing
  BY <1>4 DEF Sharing, Public
<1>6. Replicated(Public(v))
  BY <1>2, <1>3, Ring DEF Replicated
<1>7. ValueOf(Public(v)) = v
  <2>1. Xor(Xor(v, Zero), Zero) = v
    BY XorLaws
  <2> QED BY <1>2, <1>3, <2>1 DEF ValueOf, Xor3
<1> QED BY <1>5, <1>6, <1>7 DEF Shared

\* An operation on words that respects sums, on every component.
Mapped(f, x) == [p \in Party |-> MkPair(f[x[p][0]], f[x[p][1]])]

LEMMA SharedMapped ==
    ASSUME NEW f \in [Word -> Word],
           \A a \in Word, b \in Word : f[Xor(a, b)] = Xor(f[a], f[b]),
           NEW x, NEW v, Shared(x, v)
    PROVE  Shared(Mapped(f, x), f[v])
<1>1. \A p \in Party : x[p][0] \in Word /\ x[p][1] \in Word
  BY SharedParts
<1>2. /\ v = Xor3(x[0][0], x[1][0], x[2][0])
      /\ x[0][1] = x[2][0] /\ x[1][1] = x[0][0] /\ x[2][1] = x[1][0]
  BY SharedParts
<1>3. \A p \in Party : /\ Mapped(f, x)[p] \in Pair
                       /\ Mapped(f, x)[p][0] = f[x[p][0]]
                       /\ Mapped(f, x)[p][1] = f[x[p][1]]
  <2> TAKE p \in Party
  <2>1. f[x[p][0]] \in Word /\ f[x[p][1]] \in Word
    BY <1>1
  <2>2. Mapped(f, x)[p] = MkPair(f[x[p][0]], f[x[p][1]])
    BY DEF Mapped
  <2> QED BY <2>1, <2>2, PairParts
<1>4. Mapped(f, x) \in Sharing
  BY <1>3 DEF Sharing, Mapped
<1>5. Replicated(Mapped(f, x))
  BY <1>2, <1>3, Ring DEF Replicated
<1>6. ValueOf(Mapped(f, x)) = f[v]
  <2> DEFINE x0 == x[0][0]
             x1 == x[1][0]
             x2 == x[2][0]
  <2>1. x0 \in Word /\ x1 \in Word /\ x2 \in Word /\ v = Xor3(x0, x1, x2)
    BY <1>1, <1>2, Ring
  <2>2. ValueOf(Mapped(f, x)) = Xor(Xor(f[x0], f[x1]), f[x2])
    BY <1>3, Ring DEF ValueOf, Xor3
  <2> HIDE DEF x0, x1, x2
  <2>3. Xor(x0, x1) \in Word
    BY <2>1, WordOps
  <2>4. f[Xor(Xor(x0, x1), x2)] = Xor(f[Xor(x0, x1)], f[x2]) /\ f[Xor(x0, x1)] = Xor(f[x0], f[x1])
    BY <2>1, <2>3
  <2> QED BY <2>1, <2>2, <2>4 DEF Xor3
<1> QED BY <1>4, <1>5, <1>6 DEF Shared

\* A public word times a shared one.
Scaled(v, s) == [p \in Party |-> MkPair(Times(v, s[p][0]), Times(v, s[p][1]))]

LEMMA SharedScaled ==
    ASSUME NEW v \in Word, NEW s, NEW w, Shared(s, w)
    PROVE  Shared(Scaled(v, s), Times(v, w))
<1> DEFINE f == [a \in Word |-> Times(v, a)]
<1>1. f \in [Word -> Word]
  BY FieldLaws
<1>2. \A a \in Word, b \in Word : f[Xor(a, b)] = Xor(f[a], f[b])
  BY FieldLaws, WordOps
<1>3. Scaled(v, s) = Mapped(f, s)
  <2>1. \A p \in Party : f[s[p][0]] = Times(v, s[p][0]) /\ f[s[p][1]] = Times(v, s[p][1])
    BY SharedParts
  <2> HIDE DEF f
  <2> QED BY <2>1 DEF Scaled, Mapped
<1>4. w \in Word
  BY SharedParts
<1>5. f[w] = Times(v, w)
  BY <1>4
<1> HIDE DEF f
<1> QED BY <1>1, <1>2, <1>3, <1>5, SharedMapped

\* Shares of random words are a sharing of some word.
LEMMA SharedRandom ==
    ASSUME NEW val \in [Party -> Word], NEW stream \in [Party -> Word]
    PROVE  \E v \in Word : Shared(ShareOp(val, stream), v)
<1>1. Shared(ShareOp(val, stream), ValueOf(ShareOp(val, stream)))
  BY ShareValue DEF Shared
<1> QED BY <1>1, SharedParts

\* The check of an honest product reveals zero.
LEMMA HonestProduct ==
    ASSUME NEW x, NEW y, NEW a, NEW b, NEW v, NEW w, NEW va, NEW vb,
           Shared(x, v), Shared(y, w), Shared(a, va), Shared(b, vb), NEW p \in Party
    PROVE  CheckMul(x, y, MulOp(x, y), a, b)[p] = Zero
<1> DEFINE e == Xor(v, va)
           f == Xor(w, vb)
           c == MulOp(a, b)
           z == MulOp(x, y)
           s == XorOp(XorOp(Public(Times(f, e)), Scaled(f, a)), XorOp(XorOp(Scaled(e, b), c), z))
<1>1. /\ v \in Word /\ w \in Word /\ va \in Word /\ vb \in Word /\ e \in Word /\ f \in Word
      /\ Times(f, e) \in Word
  BY SharedParts, FieldLaws
<1>2. /\ Shared(XorOp(x, a), e) /\ Shared(XorOp(y, b), f)
      /\ Shared(c, Times(va, vb)) /\ Shared(z, Times(v, w))
  BY SharedXor, SharedMul
<1>3. \A q \in Party : RevealOp(XorOp(x, a))[q] = e /\ RevealOp(XorOp(y, b))[q] = f
  BY <1>2, SharedReveal
<1>4. CheckMul(x, y, z, a, b) = RevealOp(s)
  <2> DEFINE er == RevealOp(XorOp(x, a))
             fr == RevealOp(XorOp(y, b))
             opened == [q \in Party |->
                     XorPair(XorPair(PublicPair(q, Times(fr[q], er[q])),
                                     MkPair(Times(fr[q], a[q][0]), Times(fr[q], a[q][1]))),
                             XorPair(XorPair(MkPair(Times(er[q], b[q][0]), Times(er[q], b[q][1])), c[q]), z[q]))]
  <2>1. CheckMul(x, y, z, a, b) = RevealOp(opened)
    BY DEF CheckMul
  <2>2. \A A, B : \A q \in Party : XorOp(A, B)[q] = XorPair(A[q], B[q])
    BY DEF XorOp
  <2>3. \A q \in Party : /\ Public(Times(f, e))[q] = PublicPair(q, Times(f, e))
                         /\ Scaled(f, a)[q] = MkPair(Times(f, a[q][0]), Times(f, a[q][1]))
                         /\ Scaled(e, b)[q] = MkPair(Times(e, b[q][0]), Times(e, b[q][1]))
    BY DEF Public, Scaled
  <2>4. ASSUME NEW q \in Party PROVE opened[q] = s[q]
    <3> HIDE DEF e, f, z, c
    <3>1. er[q] = e /\ fr[q] = f
      BY <1>3
    <3> HIDE DEF er, fr
    <3>2. opened[q] = XorPair(XorPair(Public(Times(f, e))[q], Scaled(f, a)[q]),
                         XorPair(XorPair(Scaled(e, b)[q], c[q]), z[q]))
      BY <2>3, <3>1
    <3>3. /\ XorOp(Public(Times(f, e)), Scaled(f, a))[q] = XorPair(Public(Times(f, e))[q], Scaled(f, a)[q])
          /\ XorOp(Scaled(e, b), c)[q] = XorPair(Scaled(e, b)[q], c[q])
          /\ XorOp(XorOp(Scaled(e, b), c), z)[q] = XorPair(XorOp(Scaled(e, b), c)[q], z[q])
          /\ s[q] = XorPair(XorOp(Public(Times(f, e)), Scaled(f, a))[q], XorOp(XorOp(Scaled(e, b), c), z)[q])
      BY <2>2
    <3> QED BY <3>2, <3>3
  <2>5. opened = s
    <3>1. s = [q \in Party |-> s[q]] /\ opened = [q \in Party |-> opened[q]]
      BY DEF XorOp
    <3> HIDE DEF s, opened
    <3> QED BY <2>4, <3>1, Zenon
  <2> QED BY <2>1, <2>5
<1>5. Shared(s, Xor(Xor(Times(f, e), Times(f, va)), Xor(Xor(Times(e, vb), Times(va, vb)), Times(v, w))))
  <2> HIDE DEF e, f, c, z
  <2>1. /\ Shared(Public(Times(f, e)), Times(f, e)) /\ Shared(Scaled(f, a), Times(f, va))
        /\ Shared(Scaled(e, b), Times(e, vb))
    BY <1>1, SharedPublic, SharedScaled
  <2>2. Shared(XorOp(Public(Times(f, e)), Scaled(f, a)), Xor(Times(f, e), Times(f, va)))
    BY <2>1, SharedXor
  <2>3. Shared(XorOp(Scaled(e, b), c), Xor(Times(e, vb), Times(va, vb)))
    BY <1>2, <2>1, SharedXor
  <2>4. Shared(XorOp(XorOp(Scaled(e, b), c), z), Xor(Xor(Times(e, vb), Times(va, vb)), Times(v, w)))
    BY <1>2, <2>3, SharedXor
  <2> QED BY <2>2, <2>4, SharedXor
<1>6. Xor(Xor(Times(f, e), Times(f, va)), Xor(Xor(Times(e, vb), Times(va, vb)), Times(v, w))) = Zero
  <2>1. Xor(Times(f, e), Times(f, va)) = Times(f, v)
    <3>1. Xor(Times(f, e), Times(f, va)) = Times(f, Xor(e, va))
      BY <1>1, FieldLaws
    <3>2. Xor(e, va) = v
      BY XorLaws
    <3> QED BY <3>1, <3>2
  <2>2. Xor(Times(e, vb), Times(va, vb)) = Times(v, vb)
    <3>1. Xor(Times(e, vb), Times(va, vb)) = Times(Xor(e, va), vb)
      BY <1>1, FieldLaws
    <3>2. Xor(e, va) = v
      BY XorLaws
    <3> QED BY <3>1, <3>2
  <2>3. Times(f, v) = Xor(Times(v, w), Times(v, vb))
    BY <1>1, FieldLaws
  <2>4. Xor(Times(v, vb), Times(v, w)) = Xor(Times(v, w), Times(v, vb))
    BY XorLaws
  <2> QED BY <2>1, <2>2, <2>3, <2>4, XorLaws
<1> HIDE DEF s
<1> QED BY <1>4, <1>5, <1>6, SharedReveal

-------------------------------------------------------------------------------
(* Selection. *)

LEMMA Parity ==
    ASSUME NEW A, NEW B, IsFiniteSet(A), IsFiniteSet(B)
    PROVE  Cardinality(Xor(A, B)) % 2 = 1 <=> ~(Cardinality(A) % 2 = 1 <=> Cardinality(B) % 2 = 1)
<1> DEFINE m == Cardinality(A \cap B)
<1>1. /\ Cardinality(A \ B) = Cardinality(A) - m /\ IsFiniteSet(A \ B)
      /\ Cardinality(A) \in Nat
  BY FS_Difference, FS_CardinalityType
<1>2. /\ Cardinality(B \ A) = Cardinality(B) - Cardinality(B \cap A) /\ IsFiniteSet(B \ A)
      /\ Cardinality(B) \in Nat
  BY FS_Difference, FS_CardinalityType
<1>3. B \cap A = A \cap B
  OBVIOUS
<1>4. m \in Nat
  <2>1. IsFiniteSet(A \cap B)
    BY FS_Intersection
  <2> QED BY <2>1, FS_CardinalityType
<1>5. Cardinality((A \ B) \cup (B \ A)) =
          Cardinality(A \ B) + Cardinality(B \ A) - Cardinality((A \ B) \cap (B \ A))
  BY <1>1, <1>2, FS_Union
<1>6. (A \ B) \cap (B \ A) = {} /\ Cardinality({}) = 0
  BY FS_EmptySet
<1>7. Cardinality(Xor(A, B)) = Cardinality(A) + Cardinality(B) - 2 * m
  <2>1. Cardinality((A \ B) \cup (B \ A)) = (Cardinality(A) - m) + (Cardinality(B) - m) - 0
    BY <1>1, <1>2, <1>3, <1>5, <1>6
  <2> HIDE DEF m
  <2> QED BY <1>1, <1>2, <1>4, <2>1 DEF Xor
<1> DEFINE x == Cardinality(A)
           y == Cardinality(B)
<1>8. x \in Nat /\ y \in Nat
  BY <1>1, <1>2
<1> HIDE DEF m, x, y
<1>9. (x + y - 2 * m) % 2 = 1 <=> ~(x % 2 = 1 <=> y % 2 = 1)
  BY <1>4, <1>8
<1> QED BY <1>7, <1>9 DEF x, y

\* The sum over two sets of rows is the sum over those that are in one of them.
LEMMA XorRowsSum ==
    ASSUME NEW S \in SUBSET Row, NEW T \in SUBSET Row, NEW f
    PROVE  Xor(XorRows(S, f), XorRows(T, f)) = XorRows(Xor(S, T), f)
<1>1. ASSUME NEW b \in Bits
      PROVE  b \in Xor(XorRows(S, f), XorRows(T, f)) <=> b \in XorRows(Xor(S, T), f)
  <2> DEFINE A == {n \in S : b \in f[n]}
             B == {n \in T : b \in f[n]}
  <2>1. IsFiniteSet(A) /\ IsFiniteSet(B)
    <3>1. A \in SUBSET Row /\ B \in SUBSET Row
      OBVIOUS
    <3> QED BY <3>1, RowsAreWords, FS_Subset
  <2>2. {n \in Xor(S, T) : b \in f[n]} = Xor(A, B)
    BY DEF Xor
  <2>3. /\ b \in XorRows(S, f) <=> Cardinality(A) % 2 = 1
        /\ b \in XorRows(T, f) <=> Cardinality(B) % 2 = 1
        /\ b \in XorRows(Xor(S, T), f) <=> Cardinality({n \in Xor(S, T) : b \in f[n]}) % 2 = 1
    BY DEF XorRows
  <2>4. b \in Xor(XorRows(S, f), XorRows(T, f)) <=> ~(b \in XorRows(S, f) <=> b \in XorRows(T, f))
    BY DEF Xor
  <2> HIDE DEF A, B
  <2>5. Cardinality(Xor(A, B)) % 2 = 1 <=> ~(Cardinality(A) % 2 = 1 <=> Cardinality(B) % 2 = 1)
    BY <2>1, Parity
  <2> QED BY <2>2, <2>3, <2>4, <2>5
<1>2. Xor(XorRows(S, f), XorRows(T, f)) \subseteq Bits /\ XorRows(Xor(S, T), f) \subseteq Bits
  BY DEF Xor, XorRows
<1> QED BY <1>1, <1>2

\* The sum over one row is the row.
LEMMA XorRowsOne ==
    ASSUME NEW n, NEW f, f[n] \in Word
    PROVE  XorRows({n}, f) = f[n]
<1>1. ASSUME NEW b \in Bits PROVE b \in XorRows({n}, f) <=> b \in f[n]
  <2>1. b \in XorRows({n}, f) <=> Cardinality({m \in {n} : b \in f[m]}) % 2 = 1
    BY DEF XorRows
  <2>2. CASE b \in f[n]
    <3>1. {m \in {n} : b \in f[m]} = {n}
      BY <2>2
    <3> QED BY <2>1, <2>2, <3>1, FS_Singleton
  <2>3. CASE b \notin f[n]
    <3>1. {m \in {n} : b \in f[m]} = {}
      BY <2>3
    <3> QED BY <2>1, <2>3, <3>1, FS_EmptySet
  <2> QED BY <2>2, <2>3
<1> QED BY <1>1 DEF XorRows, Word

LEMMA XorRowsWord == ASSUME NEW S, NEW f PROVE XorRows(S, f) \in Word
BY DEF XorRows, Word

\* The keys of a party and the next one name rows that differ in one row only.
LEMMA KeyPair ==
    ASSUME NEW p \in Party
    PROVE  /\ R(p) \in Row
           /\ FssK[p][0] \in SUBSET Row /\ FssK[NextOf(p)][1] \in SUBSET Row
           /\ Xor(FssK[p][0], FssK[NextOf(p)][1]) = {R(p)}
<1>1. NextOf(p) \in Party
  BY Ring
<1>2. FssK[p][0] \in SUBSET Row /\ FssK[NextOf(p)][1] \in SUBSET Row
  BY <1>1, FssAssumption
<1>3. Xor(FssK[p][0], FssK[NextOf(p)][1]) = {R(p)}
  BY OneHotAssumption
<1>4. R(p) \in Xor(FssK[p][0], FssK[NextOf(p)][1])
  BY <1>3
<1>5. R(p) \in Row
  BY <1>2, <1>4 DEF Xor
<1> QED BY <1>2, <1>3, <1>5

\* What the parties learn is the index moved by the secret position of each pair.
LEMMA DeltaMoves ==
    ASSUME NEW idx, NEW v, Shared(idx, v), NEW p \in Party
    PROVE  /\ Delta(idx)[p][0] = Xor(v, R(p))
           /\ Delta(idx)[p][1] = Xor(v, R(PrevOf(p)))
<1> DEFINE d == [q \in Party |-> MkPair(Xor3(idx[q][0], idx[q][1], FssR[q][0]), Xor(idx[q][0], FssR[q][1]))]
           n == NextOf(p)
           m == PrevOf(p)
<1>1. /\ n \in Party /\ m \in Party /\ NextOf(m) = p /\ PrevOf(n) = p
  BY Ring
<1>2. \A q \in Party : /\ d[q][0] = Xor3(idx[q][0], idx[q][1], FssR[q][0])
                       /\ d[q][1] = Xor(idx[q][0], FssR[q][1])
  BY DEF MkPair
<1>3. /\ v = Xor3(idx[n][0], idx[p][0], idx[p][1])
      /\ v = Xor3(idx[m][0], idx[m][1], idx[p][0])
  <2>1. /\ v = Xor3(idx[0][0], idx[1][0], idx[2][0])
        /\ idx[0][1] = idx[2][0] /\ idx[1][1] = idx[0][0] /\ idx[2][1] = idx[1][0]
    BY SharedParts
  <2>2. \A a, b, c : Xor3(a, b, c) = Xor3(b, c, a) /\ Xor3(a, b, c) = Xor3(b, a, c)
    BY DEF Xor3, Xor
  <2>3. p = 0 \/ p = 1 \/ p = 2
    BY Ring
  <2>4. CASE p = 0
    BY <2>1, <2>2, <2>4, Ring
  <2>5. CASE p = 1
    BY <2>1, <2>2, <2>5, Ring
  <2>6. CASE p = 2
    BY <2>1, <2>2, <2>6, Ring
  <2> QED BY <2>3, <2>4, <2>5, <2>6
<1>4. /\ Delta(idx)[p][0] = Xor(Xor(Zero, d[n][1]), d[p][0])
      /\ Delta(idx)[p][1] = Xor(Xor(d[m][0], Zero), d[p][1])
  <2> HIDE DEF d
  <2>1. /\ P2NOp(d)[p][0] = Zero /\ P2NOp(d)[p][1] = d[m][0]
        /\ N2POp(d)[p][0] = d[n][1] /\ N2POp(d)[p][1] = Zero
    BY DEF P2NOp, N2POp, MkPair
  <2>2. \A x, y : /\ XorOp(x, y)[p][0] = Xor(x[p][0], y[p][0])
                  /\ XorOp(x, y)[p][1] = Xor(x[p][1], y[p][1])
    BY DEF XorOp, XorPair, MkPair
  <2>3. Delta(idx) = XorOp(XorOp(P2NOp(d), N2POp(d)), d)
    BY DEF Delta, d
  <2> QED BY <2>1, <2>2, <2>3
<1> HIDE DEF d
<1>5. R(p) = Xor(FssR[p][0], FssR[n][1]) /\ R(m) = Xor(FssR[m][0], FssR[p][1])
  BY <1>1 DEF R
<1>6. Xor(Xor(Zero, d[n][1]), d[p][0]) = Xor(v, R(p))
  <2> DEFINE a == idx[n][0]
             b == idx[p][0]
             c == idx[p][1]
             r == FssR[p][0]
             s == FssR[n][1]
  <2>1. /\ d[n][1] = Xor(a, s) /\ d[p][0] = Xor3(b, c, r) /\ v = Xor3(a, b, c) /\ R(p) = Xor(r, s)
    BY <1>1, <1>2, <1>3, <1>5
  <2> HIDE DEF a, b, c, r, s
  <2>2. \A e : e \in Xor(Xor(Zero, Xor(a, s)), Xor3(b, c, r)) <=> e \in Xor(Xor3(a, b, c), Xor(r, s))
    BY DEF Xor, Xor3, Zero
  <2>3. Xor(Xor(Zero, Xor(a, s)), Xor3(b, c, r)) = Xor(Xor3(a, b, c), Xor(r, s))
    BY <2>2
  <2> QED BY <2>1, <2>3
<1>7. Xor(Xor(d[m][0], Zero), d[p][1]) = Xor(v, R(m))
  <2> DEFINE a == idx[m][0]
             b == idx[m][1]
             c == idx[p][0]
             r == FssR[m][0]
             s == FssR[p][1]
  <2>1. /\ d[m][0] = Xor3(a, b, r) /\ d[p][1] = Xor(c, s) /\ v = Xor3(a, b, c) /\ R(m) = Xor(r, s)
    BY <1>1, <1>2, <1>3, <1>5
  <2> HIDE DEF a, b, c, r, s
  <2>2. \A e : e \in Xor(Xor(Xor3(a, b, r), Zero), Xor(c, s)) <=> e \in Xor(Xor3(a, b, c), Xor(r, s))
    BY DEF Xor, Xor3, Zero
  <2>3. Xor(Xor(Xor3(a, b, r), Zero), Xor(c, s)) = Xor(Xor3(a, b, c), Xor(r, s))
    BY <2>2
  <2> QED BY <2>1, <2>3
<1> QED BY <1>4, <1>6, <1>7

LEMMA SelectionInBounds ==
    ASSUME NEW idx, NEW v \in Row, Shared(idx, v)
    PROVE  InBounds(idx)
<1>1. ASSUME NEW p \in Party, NEW s \in 0..1 PROVE Delta(idx)[p][s] \subseteq IndexBits
  <2>1. PrevOf(p) \in Party
    BY Ring
  <2>2. R(p) \in Row /\ R(PrevOf(p)) \in Row
    BY <2>1, KeyPair
  <2>3. Xor(v, R(p)) \in Row /\ Xor(v, R(PrevOf(p))) \in Row
    BY <2>2, RowsAreWords
  <2>4. Delta(idx)[p][0] \in Row /\ Delta(idx)[p][1] \in Row
    BY <2>3, DeltaMoves
  <2>5. s = 0 \/ s = 1
    OBVIOUS
  <2> QED BY <2>4, <2>5 DEF Row
<1> QED BY <1>1 DEF InBounds

\* A selection gives the row at the index.
LEMMA SharedSelect ==
    ASSUME NEW X, NEW vals, NEW idx, NEW v \in Row, Shared(idx, v),
           \A n \in Row : Shared(X[n], vals[n]), NEW stream \in [Party -> Word]
    PROVE  Shared(Select(X, idx, stream), vals[v])
<1> DEFINE \* the rows of component p, moved, and what the key pair of p makes of them
           moved(p) == [n \in Row |-> X[Xor(n, Xor(v, R(p)))][p][0]]
           own(p)   == XorRows(FssK[p][0], moved(p))
           copy(p)  == XorRows(FssK[NextOf(p)][1], moved(p))
<1>1. ASSUME NEW p \in Party PROVE Xor(own(p), copy(p)) = X[v][p][0]
  <2> DEFINE f == moved(p)
  <2>1. /\ R(p) \in Row
        /\ FssK[p][0] \in SUBSET Row /\ FssK[NextOf(p)][1] \in SUBSET Row
        /\ Xor(FssK[p][0], FssK[NextOf(p)][1]) = {R(p)}
    BY <1>1, KeyPair
  <2>2. f[R(p)] = X[v][p][0] /\ f[R(p)] \in Word
    <3>1. Xor(R(p), Xor(v, R(p))) = v
      BY DEF Xor
    <3>2. X[v][p][0] \in Word
      BY SharedParts
    <3> QED BY <2>1, <3>1, <3>2
  <2> HIDE DEF f
  <2>3. Xor(XorRows(FssK[p][0], f), XorRows(FssK[NextOf(p)][1], f))
            = XorRows(Xor(FssK[p][0], FssK[NextOf(p)][1]), f)
    <3>1. \A S \in SUBSET Row, T \in SUBSET Row :
              Xor(XorRows(S, f), XorRows(T, f)) = XorRows(Xor(S, T), f)
      BY XorRowsSum
    <3> QED BY <2>1, <3>1
  <2>4. XorRows({R(p)}, f) = f[R(p)]
    BY <2>2, XorRowsOne
  <2> QED BY <2>1, <2>2, <2>3, <2>4 DEF f
<1>2. ASSUME NEW p \in Party PROVE SelectedY(X, idx)[p] = Xor(own(p), copy(PrevOf(p)))
  <2>1. PrevOf(p) \in Party /\ NextOf(PrevOf(p)) = p
    BY Ring
  <2>2. Delta(idx)[p][0] = Xor(v, R(p)) /\ Delta(idx)[p][1] = Xor(v, R(PrevOf(p)))
    BY DeltaMoves
  <2>3. Moved(X, p, 0, Delta(idx)[p][0]) = moved(p)
    BY <2>2 DEF Moved
  <2>4. Moved(X, p, 1, Delta(idx)[p][1]) = moved(PrevOf(p))
    <3>1. ASSUME NEW n \in Row
          PROVE  X[Xor(n, Xor(v, R(PrevOf(p))))][p][1] = X[Xor(n, Xor(v, R(PrevOf(p))))][PrevOf(p)][0]
      <4> DEFINE row == Xor(n, Xor(v, R(PrevOf(p))))
      <4>1. row \in Row
        BY <2>1, KeyPair, RowsAreWords
      <4> HIDE DEF row
      <4>2. Replicated(X[row])
        BY <4>1 DEF Shared
      <4> QED BY <4>2 DEF Replicated, row
    <3> QED BY <2>2, <3>1 DEF Moved
  <2> QED BY <2>1, <2>3, <2>4 DEF SelectedY
<1> HIDE DEF own, copy
<1>3. /\ Xor(own(0), copy(0)) = X[v][0][0] /\ Xor(own(1), copy(1)) = X[v][1][0]
      /\ Xor(own(2), copy(2)) = X[v][2][0]
  BY <1>1, Ring
<1>4. /\ SelectedY(X, idx)[0] = Xor(own(0), copy(2)) /\ SelectedY(X, idx)[1] = Xor(own(1), copy(0))
      /\ SelectedY(X, idx)[2] = Xor(own(2), copy(1))
  BY <1>2, Ring
<1>5. SelectedY(X, idx) \in [Party -> Word]
  <2>1. \A p \in Party : own(p) \in Word /\ copy(p) \in Word
    BY XorRowsWord DEF own, copy
  <2>2. \A p \in Party : SelectedY(X, idx)[p] \in Word
    <3> TAKE p \in Party
    <3>1. own(p) \in Word /\ copy(PrevOf(p)) \in Word
      BY <2>1, Ring
    <3>2. Xor(own(p), copy(PrevOf(p))) \in Word
      BY <3>1, WordOps
    <3> QED BY <1>2, <3>2
  <2> QED BY <2>2 DEF SelectedY
<1>6. Xor3(SelectedY(X, idx)[0], SelectedY(X, idx)[1], SelectedY(X, idx)[2]) = vals[v]
  <2>1. vals[v] = Xor3(X[v][0][0], X[v][1][0], X[v][2][0])
    BY SharedParts
  <2> DEFINE a == own(0)
             b == own(1)
             c == own(2)
             d == copy(0)
             e == copy(1)
             f == copy(2)
  <2>2. /\ vals[v] = Xor3(Xor(a, d), Xor(b, e), Xor(c, f))
        /\ Xor3(SelectedY(X, idx)[0], SelectedY(X, idx)[1], SelectedY(X, idx)[2]) = Xor3(Xor(a, f), Xor(b, d), Xor(c, e))
    BY <1>3, <1>4, <2>1
  <2> HIDE DEF a, b, c, d, e, f
  <2>3. \A k : k \in Xor3(Xor(a, d), Xor(b, e), Xor(c, f)) <=> k \in Xor3(Xor(a, f), Xor(b, d), Xor(c, e))
    BY DEF Xor3, Xor
  <2>4. Xor3(Xor(a, d), Xor(b, e), Xor(c, f)) = Xor3(Xor(a, f), Xor(b, d), Xor(c, e))
    BY <2>3
  <2> QED BY <2>2, <2>4
<1> QED BY <1>5, <1>6, ShareValue DEF Select, Shared

-------------------------------------------------------------------------------
(* The walk. *)

LEMMA NothingShared == Shared(NoShare, Zero)
<1>1. \A p \in Party : Public(Zero)[p] = MkPair(Zero, Zero)
  BY Ring DEF Public, PublicPair
<1>2. NoShare = Public(Zero)
  BY <1>1 DEF NoShare, Public
<1>3. Zero \in Word
  BY DEF Zero, Word
<1> QED BY <1>2, <1>3, SharedPublic

LEMMA MaskWords == ASSUME NEW mask \in Masks, NEW n \in Row PROVE mask[n] \in [Party -> Word]
BY TablesAssumption

LEMMA InitWalk == Init => WalkInv
<1> SUFFICES ASSUME Init PROVE WalkInv
  OBVIOUS
<1>1. PICK start \in Starts :
        /\ model = start.tree /\ features = start.features
        /\ ss_mac_key = Dealt(start.key, start.featureMasks[Root])
        /\ ss_model = SharedTable(model, start.treeMasks)
        /\ ss_mac_model = SharedTable(MacTable(model, start.key), start.treeMasks)
        /\ ssFeatureSchema = [n \in Row |-> Dealt(features[n], start.featureMasks[n])]
  BY DEF Init
<1>2. /\ model \in [Row -> [Col -> Word]] /\ features \in [Row -> Word] /\ start.key \in Word
      /\ start.treeMasks \in Masks /\ start.featureMasks \in Masks
      /\ \A n \in Row : \A c \in {"left", "right", "vIdx"} : model[n][c] \in Row
  BY <1>1, TablesAssumption
<1>3. Shared(ss_mac_key, start.key)
  BY <1>1, <1>2, MaskWords, RowsAreWords, SharedDealt
<1>4. \A n \in Row : Shared(ssFeatureSchema[n], features[n])
  <2> TAKE n \in Row
  <2>1. features[n] \in Word /\ start.featureMasks[n] \in [Party -> Word]
    BY <1>2, MaskWords
  <2> QED BY <1>1, <2>1, SharedDealt
<1>5. \A n \in Row, c \in Col : /\ Shared(ss_model[n][c], model[n][c])
                                /\ Shared(ss_mac_model[n][c], Times(start.key, model[n][c]))
  <2> TAKE n \in Row, c \in Col
  <2>1. model[n][c] \in Word /\ start.treeMasks[n] \in [Party -> Word]
    BY <1>2, MaskWords
  <2>2. Times(start.key, model[n][c]) \in Word
    BY <1>2, <2>1, FieldLaws
  <2>3. /\ ss_model[n][c] = Dealt(model[n][c], start.treeMasks[n])
        /\ ss_mac_model[n][c] = Dealt(Times(start.key, model[n][c]), start.treeMasks[n])
    BY <1>1 DEF SharedTable, MacTable
  <2> QED BY <2>1, <2>2, <2>3, SharedDealt
<1>6. Tables
  BY <1>2, <1>3, <1>4, <1>5 DEF Tables, Shared
<1>7. pc = "feature" /\ at = Root /\ cur_node = ss_model[Root]
  BY DEF Init
<1>8. Walk
  BY <1>5, <1>7, RowsAreWords DEF Walk
<1>9. /\ sum_model_data = NoShare /\ sum_mac_model_data = NoShare /\ passed = TRUE
  BY DEF Init
<1>10. Times(start.key, Zero) = Zero
  BY <1>2, WordOps, FieldLaws
<1>11. Sums
  BY <1>3, <1>7, <1>9, <1>10, NothingShared DEF Sums, Shared
<1> QED BY <1>6, <1>8, <1>11 DEF WalkInv

LEMMA SelectFeatureWalk == WalkInv /\ SelectFeature => WalkInv'
<1> SUFFICES ASSUME WalkInv, SelectFeature PROVE WalkInv'
  OBVIOUS
<1>1. PICK mask \in Masks : ssY' = Select(ssFeatureSchema, cur_node["vIdx"], mask[Root])
  BY DEF SelectFeature
<1>2. /\ pc = "feature" /\ pc' = "compare"
      /\ UNCHANGED <<model, features, ss_mac_key, ss_model, ss_mac_model, ssFeatureSchema>>
      /\ UNCHANGED <<cur_node, sum_model_data, sum_mac_model_data, rec, at, passed>>
  BY DEF SelectFeature, shared, sums
<1>3. Tables /\ Walk /\ Sums
  BY DEF WalkInv
<1>4. /\ at \in Row /\ \A c \in Col : Shared(cur_node[c], model[at][c])
      /\ model[at]["vIdx"] \in Row /\ \A n \in Row : Shared(ssFeatureSchema[n], features[n])
  BY <1>2, <1>3 DEF Walk, Tables
<1>5. Shared(ssY', features[model[at]["vIdx"]])
  <2>1. Shared(cur_node["vIdx"], model[at]["vIdx"])
    BY <1>4 DEF Col
  <2>2. mask[Root] \in [Party -> Word]
    BY MaskWords, RowsAreWords
  <2> QED BY <1>1, <1>4, <2>1, <2>2, SharedSelect
<1>6. Tables' /\ Sums'
  BY <1>2, <1>3 DEF Tables, Sums, Shared
<1>7. Walk'
  BY <1>2, <1>4, <1>5 DEF Walk, Shared
<1> QED BY <1>6, <1>7 DEF WalkInv

LEMMA CompareWalk == WalkInv /\ Compare => WalkInv'
<1> SUFFICES ASSUME WalkInv, Compare PROVE WalkInv'
  OBVIOUS
<1>1. PICK c \in [Party -> SUBSET {0}] :
        /\ ssb' = SharingOf(c)
        /\ ValueOf(ssb') = IF Above(ValueOf(cur_node["threshold"]), ValueOf(ssY)) THEN {0} ELSE {}
  BY DEF Compare
<1>2. /\ pc = "compare" /\ pc' = "child"
      /\ UNCHANGED <<model, features, ss_mac_key, ss_model, ss_mac_model, ssFeatureSchema>>
      /\ UNCHANGED <<cur_node, sum_model_data, sum_mac_model_data, rec, at, passed>>
  BY DEF Compare, shared, sums
<1>3. Tables /\ Walk /\ Sums
  BY DEF WalkInv
<1>4. /\ at \in Row /\ \A col \in Col : Shared(cur_node[col], model[at][col])
      /\ Shared(ssY, features[model[at]["vIdx"]])
  BY <1>2, <1>3 DEF Walk
<1>5. ValueOf(cur_node["threshold"]) = model[at]["threshold"] /\ ValueOf(ssY) = features[model[at]["vIdx"]]
  BY <1>4 DEF Shared, Col
<1>6. c \in [Party -> Word]
  BY FieldAssumption DEF Word
<1>7. Shared(ssb', Outcome)
  BY <1>1, <1>5, <1>6, Components DEF Shared, Outcome
<1>8. Tables' /\ Sums'
  BY <1>2, <1>3 DEF Tables, Sums, Shared
<1>9. Walk'
  BY <1>2, <1>4, <1>7 DEF Walk, Shared, Outcome
<1> QED BY <1>8, <1>9 DEF WalkInv

LEMMA ChildWalk == WalkInv /\ getChildNodeIndex => WalkInv'
<1> SUFFICES ASSUME WalkInv, getChildNodeIndex PROVE WalkInv'
  OBVIOUS
<1> DEFINE l == model[at]["left"]
           r == model[at]["right"]
           rl == XorOp(cur_node["left"], cur_node["right"])
<1>1. PICK ma \in Masks, mb \in Masks :
        passed' = (passed /\ \A p \in Party :
                      CheckMul(ssb, rl, MulOp(ssb, rl), ShareOp(ma[Root], mb[Root]),
                               ShareOp(mb[Root], ma[Root]))[p] = Zero)
  BY DEF getChildNodeIndex
<1>2. /\ pc = "child" /\ pc' = "node"
      /\ UNCHANGED <<model, features, ss_mac_key, ss_model, ss_mac_model, ssFeatureSchema>>
      /\ UNCHANGED <<cur_node, sum_model_data, sum_mac_model_data, rec>>
      /\ at' = PlainChild(model, features, at)
      /\ ssNextNodeIdx' = Child(ssb, cur_node["left"], cur_node["right"])
  BY DEF getChildNodeIndex, shared, sums
<1>3. Tables /\ Walk /\ Sums
  BY DEF WalkInv
<1>4. /\ at \in Row /\ l \in Row /\ r \in Row
      /\ Shared(cur_node["left"], l) /\ Shared(cur_node["right"], r) /\ Shared(ssb, Outcome)
  BY <1>2, <1>3 DEF Walk, Tables, Col
<1>5. Shared(rl, Xor(l, r))
  BY <1>4, SharedXor
<1>6. passed'
  <2>1. ma[Root] \in [Party -> Word] /\ mb[Root] \in [Party -> Word]
    BY MaskWords, RowsAreWords
  <2>2. PICK va : Shared(ShareOp(ma[Root], mb[Root]), va)
    BY <2>1, SharedRandom
  <2>3. PICK vb : Shared(ShareOp(mb[Root], ma[Root]), vb)
    BY <2>1, SharedRandom
  <2> HIDE DEF rl, l, r
  <2>4. \A p \in Party : CheckMul(ssb, rl, MulOp(ssb, rl), ShareOp(ma[Root], mb[Root]),
                                  ShareOp(mb[Root], ma[Root]))[p] = Zero
    BY <1>4, <1>5, <2>2, <2>3, HonestProduct
  <2>5. passed
    BY <1>3 DEF Sums
  <2> QED BY <1>1, <2>4, <2>5
<1>7. Shared(ssNextNodeIdx', Xor(r, Times(Outcome, Xor(l, r))))
  <2>1. Shared(MulOp(ssb, rl), Times(Outcome, Xor(l, r)))
    BY <1>4, <1>5, SharedMul
  <2>2. Shared(XorOp(cur_node["right"], MulOp(ssb, rl)), Xor(r, Times(Outcome, Xor(l, r))))
    BY <1>4, <2>1, SharedXor
  <2> QED BY <1>2, <2>2 DEF Child
<1>8. Xor(r, Times(Outcome, Xor(l, r))) = at' /\ at' \in Row
  <2>1. l \in Word /\ r \in Word /\ Xor(l, r) \in Word
    BY <1>4, RowsAreWords, WordOps
  <2>2. Times({0}, Xor(l, r)) = Xor(l, r) /\ Times({}, Xor(l, r)) = Zero
    BY <2>1, FieldLaws DEF Zero
  <2>3. Xor(r, Xor(l, r)) = l /\ Xor(r, Zero) = r
    BY DEF Xor, Zero
  <2> QED BY <1>2, <1>4, <2>2, <2>3 DEF Outcome, PlainChild
<1>9. Tables' /\ Sums'
  BY <1>2, <1>3, <1>6 DEF Tables, Sums, Shared
<1>10. Walk'
  BY <1>2, <1>7, <1>8 DEF Walk, Shared
<1> QED BY <1>9, <1>10 DEF WalkInv

\* SumOf adds up the five columns.
SumWord(row) == Xor(Xor(Xor(row["threshold"], row["left"]), Xor(row["right"], row["vIdx"])), row["label"])

LEMMA SharedSum ==
    ASSUME NEW node, NEW row, \A c \in Col : Shared(node[c], row[c])
    PROVE  Shared(SumOf(node), SumWord(row))
<1>1. /\ Shared(node["threshold"], row["threshold"]) /\ Shared(node["left"], row["left"])
      /\ Shared(node["right"], row["right"]) /\ Shared(node["vIdx"], row["vIdx"])
      /\ Shared(node["label"], row["label"])
  BY DEF Col
<1>2. /\ Shared(XorOp(node["threshold"], node["left"]), Xor(row["threshold"], row["left"]))
      /\ Shared(XorOp(node["right"], node["vIdx"]), Xor(row["right"], row["vIdx"]))
  BY <1>1, SharedXor
<1>3. Shared(XorOp(XorOp(node["threshold"], node["left"]), XorOp(node["right"], node["vIdx"])),
             Xor(Xor(row["threshold"], row["left"]), Xor(row["right"], row["vIdx"])))
  BY <1>2, SharedXor
<1> QED BY <1>1, <1>3, SharedXor DEF SumOf, SumWord

\* The sum of the MACs of a row is the MAC of its sum.
LEMMA SumOfMacs ==
    ASSUME NEW key \in Word, NEW row, \A c \in Col : row[c] \in Word
    PROVE  /\ SumWord(row) \in Word
           /\ SumWord([c \in Col |-> Times(key, row[c])]) = Times(key, SumWord(row))
<1> DEFINE a == row["threshold"]
           b == row["left"]
           c == row["right"]
           d == row["vIdx"]
           e == row["label"]
<1>1. a \in Word /\ b \in Word /\ c \in Word /\ d \in Word /\ e \in Word
  BY DEF Col
<1>2. /\ SumWord(row) = Xor(Xor(Xor(a, b), Xor(c, d)), e)
      /\ SumWord([k \in Col |-> Times(key, row[k])]) =
             Xor(Xor(Xor(Times(key, a), Times(key, b)), Xor(Times(key, c), Times(key, d))), Times(key, e))
  BY DEF SumWord, Col
<1> HIDE DEF a, b, c, d, e
<1>3. Xor(a, b) \in Word /\ Xor(c, d) \in Word
  BY <1>1, WordOps
<1>4. Xor(Xor(a, b), Xor(c, d)) \in Word
  BY <1>3, WordOps
<1>5. Xor(Xor(Xor(a, b), Xor(c, d)), e) \in Word
  BY <1>1, <1>4, WordOps
<1>6. /\ Times(key, Xor(a, b)) = Xor(Times(key, a), Times(key, b))
      /\ Times(key, Xor(c, d)) = Xor(Times(key, c), Times(key, d))
  BY <1>1, FieldLaws
<1>7. Times(key, Xor(Xor(a, b), Xor(c, d))) = Xor(Times(key, Xor(a, b)), Times(key, Xor(c, d)))
  BY <1>3, FieldLaws
<1>8. Times(key, Xor(Xor(Xor(a, b), Xor(c, d)), e)) = Xor(Times(key, Xor(Xor(a, b), Xor(c, d))), Times(key, e))
  BY <1>1, <1>4, FieldLaws
<1> QED BY <1>2, <1>5, <1>6, <1>7, <1>8

LEMMA SelectNodeWalk == WalkInv /\ SelectNode => WalkInv'
<1> SUFFICES ASSUME WalkInv, SelectNode PROVE WalkInv'
  OBVIOUS
<1> DEFINE next(table, mask) ==
             [c \in Col |-> Select([n \in Row |-> table[n][c]], ssNextNodeIdx, mask[Root])]
           key == ValueOf(ss_mac_key)
           total == ValueOf(sum_model_data)
<1>1. PICK mask \in Masks, mr \in Masks :
        /\ cur_node' = next(ss_model, mask)
        /\ sum_model_data' = XorOp(sum_model_data, Weighted(ShareOp(mr[Root], mr[{}]), next(ss_model, mask)))
        /\ sum_mac_model_data' =
               XorOp(sum_mac_model_data, Weighted(ShareOp(mr[Root], mr[{}]), next(ss_mac_model, mask)))
  BY DEF SelectNode
<1>2. /\ pc = "node" /\ pc' \in {"feature", "check"}
      /\ UNCHANGED <<model, features, ss_mac_key, ss_model, ss_mac_model, ssFeatureSchema>>
      /\ UNCHANGED <<rec, at, passed>>
  BY DEF SelectNode, NextCall, shared
<1>3. Tables /\ Walk /\ Sums
  BY DEF WalkInv
<1>4. at \in Row /\ Shared(ssNextNodeIdx, at)
  BY <1>2, <1>3 DEF Walk
<1>5. ASSUME NEW table, NEW vals, \A n \in Row : \A c \in Col : Shared(table[n][c], vals[n][c])
      PROVE  \A c \in Col : Shared(next(table, mask)[c], vals[at][c])
  <2> SUFFICES ASSUME NEW c \in Col PROVE Shared(next(table, mask)[c], vals[at][c])
    OBVIOUS
  <2> DEFINE X == [n \in Row |-> table[n][c]]
             v == [n \in Row |-> vals[n][c]]
  <2>1. mask[Root] \in [Party -> Word]
    BY MaskWords, RowsAreWords
  <2>2. \A n \in Row : Shared(X[n], v[n])
    BY <1>5
  <2>3. v[at] = vals[at][c] /\ next(table, mask)[c] = Select(X, ssNextNodeIdx, mask[Root])
    BY <1>4
  <2> HIDE DEF X, v, next
  <2>4. Shared(Select(X, ssNextNodeIdx, mask[Root]), v[at])
    BY <1>4, <2>1, <2>2, SharedSelect
  <2> QED BY <2>3, <2>4
<1> HIDE DEF next
<1>6. \A c \in Col : Shared(next(ss_model, mask)[c], model[at][c])
  <2>1. \A n \in Row : \A c \in Col : Shared(ss_model[n][c], model[n][c])
    BY <1>3 DEF Tables
  <2> QED BY <1>5, <2>1
<1> DEFINE row == model[at]
           mac == [c \in Col |-> Times(key, row[c])]
<1>7. \A c \in Col : Shared(next(ss_mac_model, mask)[c], mac[c])
  <2> DEFINE macs == [n \in Row |-> [c \in Col |-> Times(key, model[n][c])]]
  <2>1. \A n \in Row : \A c \in Col : Shared(ss_mac_model[n][c], macs[n][c])
    BY <1>3 DEF Tables
  <2>2. \A c \in Col : macs[at][c] = mac[c]
    BY <1>4
  <2> HIDE DEF macs
  <2>3. \A c \in Col : Shared(next(ss_mac_model, mask)[c], macs[at][c])
    BY <1>5, <2>1
  <2> QED BY <2>2, <2>3
<1>8. key \in Word /\ total \in Word /\ Shared(sum_model_data, total)
      /\ Shared(sum_mac_model_data, Times(key, total))
  <2>1. Shared(ss_mac_key, key) /\ Shared(sum_model_data, total) /\ Shared(sum_mac_model_data, Times(key, total))
    BY <1>3 DEF Tables, Sums, Shared
  <2> QED BY <2>1, SharedParts
<1>9. \A c \in Col : row[c] \in Word
  BY <1>3, <1>4 DEF Tables
<1> HIDE DEF key, total, row
<1>10. /\ Shared(SumOf(next(ss_model, mask)), SumWord(row)) /\ SumWord(row) \in Word
       /\ Shared(SumOf(next(ss_mac_model, mask)), Times(key, SumWord(row)))
  <2>1. Shared(SumOf(next(ss_model, mask)), SumWord(row))
    BY <1>6, SharedSum DEF row
  <2>2. Shared(SumOf(next(ss_mac_model, mask)), SumWord(mac))
    <3> HIDE DEF mac
    <3> QED BY <1>7, SharedSum
  <2>3. SumWord(row) \in Word /\ SumWord(mac) = Times(key, SumWord(row))
    BY <1>8, <1>9, SumOfMacs
  <2> QED BY <2>1, <2>2, <2>3
<1>11. PICK rho \in Word : Shared(ShareOp(mr[Root], mr[{}]), rho)
  <2>1. mr[Root] \in [Party -> Word] /\ mr[{}] \in [Party -> Word]
    BY MaskWords, RowsAreWords DEF Root
  <2> QED BY <2>1, SharedRandom
<1> DEFINE s == SumWord(row)
<1> HIDE DEF s, mac
<1>12. /\ Shared(Weighted(ShareOp(mr[Root], mr[{}]), next(ss_model, mask)), Times(rho, s))
       /\ Shared(Weighted(ShareOp(mr[Root], mr[{}]), next(ss_mac_model, mask)), Times(rho, Times(key, s)))
  BY <1>10, <1>11, SharedMul DEF Weighted, s
<1>13. Shared(sum_model_data', Xor(total, Times(rho, s)))
  BY <1>1, <1>8, <1>12, SharedXor
<1>14. Shared(sum_mac_model_data', Xor(Times(key, total), Times(rho, Times(key, s))))
  BY <1>1, <1>8, <1>12, SharedXor
<1>15. Xor(Times(key, total), Times(rho, Times(key, s))) = Times(key, Xor(total, Times(rho, s)))
  <2>1. s \in Word /\ Times(rho, s) \in Word
    BY <1>10, <1>11, FieldLaws DEF s
  <2>2. Times(rho, Times(key, s)) = Times(key, Times(rho, s))
    <3>1. Times(rho, Times(key, s)) = Times(Times(rho, key), s) /\ Times(rho, key) = Times(key, rho)
      BY <1>8, <1>11, <2>1, FieldLaws
    <3>2. Times(key, Times(rho, s)) = Times(Times(key, rho), s)
      BY <1>8, <1>11, <2>1, FieldLaws
    <3> QED BY <3>1, <3>2
  <2>3. Times(key, Xor(total, Times(rho, s))) = Xor(Times(key, total), Times(key, Times(rho, s)))
    BY <1>8, <2>1, FieldLaws
  <2> QED BY <2>2, <2>3
<1>16. Sums'
  <2>1. passed' /\ pc' # "return"
    BY <1>2, <1>3 DEF Sums
  <2>2. ValueOf(ss_mac_key)' = key /\ ValueOf(sum_model_data)' = Xor(total, Times(rho, s))
    BY <1>2, <1>13 DEF key, Shared
  <2> QED BY <1>13, <1>14, <1>15, <2>1, <2>2 DEF Sums, Shared
<1>17. Tables'
  BY <1>2, <1>3 DEF Tables, Shared
<1>18. Walk'
  <2>1. \A c \in Col : Shared(cur_node'[c], model'[at'][c])
    BY <1>1, <1>2, <1>6
  <2> QED BY <1>2, <1>4, <2>1 DEF Walk, Shared
<1> QED BY <1>16, <1>17, <1>18 DEF WalkInv

LEMMA MacCheckWalk == WalkInv /\ MacCheck => WalkInv'
<1> SUFFICES ASSUME WalkInv, MacCheck PROVE WalkInv'
  OBVIOUS
<1> DEFINE key == ValueOf(ss_mac_key)
           total == ValueOf(sum_model_data)
<1>1. PICK mg \in Masks :
        rec' = RevealOp(XorOp(MulOp(XorOp(sum_model_data, ShareOp(mg[Root], mg[Root])), ss_mac_key),
                              XorOp(MulOp(ss_mac_key, ShareOp(mg[Root], mg[Root])), sum_mac_model_data)))
  BY DEF MacCheck
<1>2. /\ pc = "check" /\ pc' = "return"
      /\ UNCHANGED <<model, features, ss_mac_key, ss_model, ss_mac_model, ssFeatureSchema>>
      /\ UNCHANGED <<cur_node, sum_model_data, sum_mac_model_data, at, passed>>
  BY DEF MacCheck, shared, sums
<1>3. Tables /\ Walk /\ Sums
  BY DEF WalkInv
<1>4. /\ Shared(ss_mac_key, key) /\ key \in Word
      /\ Shared(sum_model_data, total) /\ total \in Word
      /\ Shared(sum_mac_model_data, Times(key, total))
  <2>1. /\ Shared(ss_mac_key, key) /\ Shared(sum_model_data, total)
        /\ Shared(sum_mac_model_data, Times(key, total))
    BY <1>3 DEF Tables, Sums, Shared
  <2> QED BY <2>1, SharedParts
<1> HIDE DEF key, total
<1>5. PICK g \in Word : Shared(ShareOp(mg[Root], mg[Root]), g)
  <2>1. mg[Root] \in [Party -> Word]
    BY MaskWords, RowsAreWords
  <2> QED BY <2>1, SharedRandom
<1>6. /\ Shared(MulOp(XorOp(sum_model_data, ShareOp(mg[Root], mg[Root])), ss_mac_key), Times(Xor(total, g), key))
      /\ Shared(XorOp(MulOp(ss_mac_key, ShareOp(mg[Root], mg[Root])), sum_mac_model_data),
                Xor(Times(key, g), Times(key, total)))
  <2>1. Shared(XorOp(sum_model_data, ShareOp(mg[Root], mg[Root])), Xor(total, g))
    BY <1>4, <1>5, SharedXor
  <2>2. Shared(MulOp(ss_mac_key, ShareOp(mg[Root], mg[Root])), Times(key, g))
    BY <1>4, <1>5, SharedMul
  <2> QED BY <1>4, <2>1, <2>2, SharedXor, SharedMul
<1>7. Xor(Times(Xor(total, g), key), Xor(Times(key, g), Times(key, total))) = Zero
  <2>1. Times(Xor(total, g), key) = Xor(Times(total, key), Times(g, key))
    BY <1>4, <1>5, FieldLaws
  <2>2. Times(total, key) = Times(key, total) /\ Times(g, key) = Times(key, g)
    BY <1>4, <1>5, FieldLaws
  <2>3. Xor(Times(key, g), Times(key, total)) = Xor(Times(key, total), Times(key, g))
    BY XorLaws
  <2> QED BY <2>1, <2>2, <2>3, XorLaws
<1>8. \A p \in Party : rec'[p] = Zero
  <2>1. Shared(XorOp(MulOp(XorOp(sum_model_data, ShareOp(mg[Root], mg[Root])), ss_mac_key),
                     XorOp(MulOp(ss_mac_key, ShareOp(mg[Root], mg[Root])), sum_mac_model_data)), Zero)
    BY <1>6, <1>7, SharedXor
  <2> QED BY <1>1, <2>1, SharedReveal
<1>9. Tables' /\ Walk'
  BY <1>2, <1>3 DEF Tables, Walk, Shared
<1>10. Sums'
  BY <1>2, <1>3, <1>8 DEF Sums, Shared
<1> QED BY <1>9, <1>10 DEF WalkInv

LEMMA NextWalk == WalkInv /\ [Next]_vars => WalkInv'
<1>1. WalkInv /\ UNCHANGED vars => WalkInv'
  <2> SUFFICES ASSUME WalkInv, UNCHANGED vars PROVE WalkInv'
    OBVIOUS
  <2>1. Tables' /\ Sums'
    BY DEF WalkInv, Tables, Sums, Shared, vars, shared, sums
  <2>2. Walk'
    BY DEF WalkInv, Walk, Shared, Outcome, vars, shared
  <2> QED BY <2>1, <2>2 DEF WalkInv
<1> QED BY <1>1, SelectFeatureWalk, CompareWalk, ChildWalk, SelectNodeWalk, MacCheckWalk DEF Next

LEMMA WalkInvariance == Spec => []WalkInv
BY InitWalk, NextWalk, PTL DEF Spec

-------------------------------------------------------------------------------
(* The operations of a comparison.  Those of the instance are the walk's. *)

LEMMA SameOperations ==
    /\ \A x, y : Cmp!AndOp(x, y) = AndOp(x, y) /\ Cmp!XorOp(x, y) = XorOp(x, y)
    /\ \A x : Cmp!NegateOp(x) = NegateOp(x) /\ Cmp!RevealOp(x) = RevealOp(x)
    /\ \A x : Cmp!ValueOf(x) = ValueOf(x) /\ (Cmp!Replicated(x) <=> Replicated(x))
    /\ \A x, y : Cmp!XorPair(x, y) = XorPair(x, y)
    /\ \A p, v : Cmp!PublicPair(p, v) = PublicPair(p, v)
    /\ \A x, y : Cmp!ScalePair(x, y) = ScalePair(x, y) /\ Cmp!MkPair(x, y) = MkPair(x, y)
    /\ Cmp!Party = Party /\ Cmp!Zero = Zero /\ Cmp!NoShare = NoShare
<1>1. \A x, y : Cmp!AndOp(x, y) = AndOp(x, y)
  BY DEF Cmp!AndOp, Cmp!SharingOf, Cmp!AndTerm, Cmp!MkPair, Cmp!Xor3, Cmp!Xor, Cmp!Party, Cmp!PrevOf,
         AndOp, SharingOf, AndTerm, MkPair, Xor3, Xor, Party, PrevOf
<1>2. \A x, y : Cmp!XorOp(x, y) = XorOp(x, y) /\ Cmp!XorPair(x, y) = XorPair(x, y)
  BY DEF Cmp!XorOp, Cmp!XorPair, Cmp!MkPair, Cmp!Xor, Cmp!Party, XorOp, XorPair, MkPair, Xor, Party
<1>3. \A x : Cmp!NegateOp(x) = NegateOp(x)
  BY DEF Cmp!NegateOp, Cmp!NegatePair, Cmp!MkPair, Cmp!Not, Cmp!Party, NegateOp, NegatePair, MkPair, Not, Party
<1>4. \A x : Cmp!RevealOp(x) = RevealOp(x)
  BY DEF Cmp!RevealOp, Cmp!Xor3, Cmp!Xor, Cmp!Party, Cmp!NextOf, RevealOp, Xor3, Xor, Party, NextOf
<1>5. \A x : Cmp!ValueOf(x) = ValueOf(x) /\ (Cmp!Replicated(x) <=> Replicated(x))
  BY DEF Cmp!ValueOf, Cmp!Xor3, Cmp!Xor, Cmp!Replicated, Cmp!Party, Cmp!PrevOf,
         ValueOf, Xor3, Xor, Replicated, Party, PrevOf
<1>6. \A p, v : Cmp!PublicPair(p, v) = PublicPair(p, v)
  BY DEF Cmp!PublicPair, Cmp!MkPair, Cmp!Zero, PublicPair, MkPair, Zero
<1>7. \A x, y : Cmp!ScalePair(x, y) = ScalePair(x, y) /\ Cmp!MkPair(x, y) = MkPair(x, y)
  BY DEF Cmp!ScalePair, Cmp!MkPair, ScalePair, MkPair
<1>8. Cmp!Party = Party /\ Cmp!Zero = Zero /\ Cmp!NoShare = NoShare
  BY DEF Cmp!Party, Cmp!Zero, Cmp!NoShare, Cmp!MkPair, Party, Zero, NoShare, MkPair
<1> QED BY <1>1, <1>2, <1>3, <1>4, <1>5, <1>6, <1>7, <1>8

LEMMA SharedNegate ==
    ASSUME NEW x, NEW v, Shared(x, v)
    PROVE  Shared(NegateOp(x), Not(v))
BY NegateValue DEF Shared

LEMMA SharedScale ==
    ASSUME NEW v \in Word, NEW x, NEW w, Shared(x, w)
    PROVE  Shared([p \in Party |-> ScalePair(v, x[p])], v \cap w)
<1> DEFINE f == [a \in Word |-> v \cap a]
           g == [p \in Party |-> ScalePair(v, x[p])]
<1>1. f \in [Word -> Word]
  BY DEF Word
<1>2. \A a \in Word, b \in Word : f[Xor(a, b)] = Xor(f[a], f[b])
  <2> TAKE a \in Word, b \in Word
  <2>1. Xor(a, b) \in Word
    BY WordOps
  <2>2. v \cap Xor(a, b) = Xor(v \cap a, v \cap b)
    BY DEF Xor
  <2> QED BY <2>1, <2>2
<1>3. g = Mapped(f, x)
  <2>1. \A p \in Party : f[x[p][0]] = v \cap x[p][0] /\ f[x[p][1]] = v \cap x[p][1]
    BY SharedParts
  <2> HIDE DEF f
  <2> QED BY <2>1 DEF Mapped, ScalePair
<1>4. w \in Word
  BY SharedParts
<1>5. f[w] = v \cap w
  BY <1>4
<1> HIDE DEF f, g
<1>6. Shared(Mapped(f, x), f[w])
  BY <1>1, <1>2, SharedMapped
<1>7. Shared(g, v \cap w)
  BY <1>3, <1>5, <1>6
<1> QED BY <1>7 DEF g

\* A shift moves the bits down and copies the sign in above them.
LEMMA ShiftBit ==
    ASSUME NEW v \in Word, NEW n \in Nat, NEW b \in Bits
    PROVE  b \in Cmp!ShiftRight(v, n) <=> IF b + n < Width THEN b + n \in v ELSE Width - 1 \in v
<1>1. Bits = 0..(Width - 1) /\ Width \in Nat /\ b \in 0..(Width - 1) /\ v \subseteq 0..(Width - 1)
  BY WidthAssumption DEF Word
<1>2. b \in Cmp!ShiftRight(v, n) <=> b + n \in v \/ (b + n >= Width /\ Width - 1 \in v)
  BY DEF Cmp!ShiftRight
<1>3. b + n < Width => ~(b + n >= Width)
  BY <1>1
<1>4. ~(b + n < Width) => b + n \notin v /\ b + n >= Width
  BY <1>1
<1> QED BY <1>2, <1>3, <1>4

LEMMA ShiftWord ==
    ASSUME NEW v, NEW n
    PROVE  Cmp!ShiftRight(v, n) \in Word
BY DEF Cmp!ShiftRight, Word

LEMMA SharedShift ==
    ASSUME NEW x, NEW v, Shared(x, v), NEW n \in Nat
    PROVE  Shared(Cmp!ShiftOp(x, n), Cmp!ShiftRight(v, n))
<1> DEFINE f == [a \in Word |-> Cmp!ShiftRight(a, n)]
<1>1. f \in [Word -> Word]
  BY ShiftWord
<1>2. \A a \in Word, b \in Word : f[Xor(a, b)] = Xor(f[a], f[b])
  <2> TAKE a \in Word, b \in Word
  <2>1. Xor(a, b) \in Word
    BY WordOps
  <2>2. ASSUME NEW e \in Bits
        PROVE  e \in Cmp!ShiftRight(Xor(a, b), n) <=> e \in Xor(Cmp!ShiftRight(a, n), Cmp!ShiftRight(b, n))
    <3>1. \A k : k \in Xor(a, b) <=> ~(k \in a <=> k \in b)
      BY DEF Xor
    <3>2. /\ e \in Cmp!ShiftRight(Xor(a, b), n) <=> IF e + n < Width THEN e + n \in Xor(a, b) ELSE Width - 1 \in Xor(a, b)
          /\ e \in Cmp!ShiftRight(a, n) <=> IF e + n < Width THEN e + n \in a ELSE Width - 1 \in a
          /\ e \in Cmp!ShiftRight(b, n) <=> IF e + n < Width THEN e + n \in b ELSE Width - 1 \in b
      BY <2>1, ShiftBit
    <3>3. e \in Xor(Cmp!ShiftRight(a, n), Cmp!ShiftRight(b, n))
             <=> ~(e \in Cmp!ShiftRight(a, n) <=> e \in Cmp!ShiftRight(b, n))
      BY DEF Xor
    <3>4. CASE e + n < Width
      BY <3>1, <3>2, <3>3, <3>4
    <3>5. CASE ~(e + n < Width)
      BY <3>1, <3>2, <3>3, <3>5
    <3> QED BY <3>4, <3>5
  <2>3. /\ Cmp!ShiftRight(Xor(a, b), n) \subseteq Bits
        /\ Xor(Cmp!ShiftRight(a, n), Cmp!ShiftRight(b, n)) \subseteq Bits
    BY DEF Cmp!ShiftRight, Xor
  <2>4. Cmp!ShiftRight(Xor(a, b), n) = Xor(Cmp!ShiftRight(a, n), Cmp!ShiftRight(b, n))
    BY <2>2, <2>3
  <2> QED BY <2>1, <2>4
<1>3. Cmp!ShiftOp(x, n) = Mapped(f, x)
  <2>1. \A p \in Party : /\ f[x[p][0]] = Cmp!ShiftRight(x[p][0], n)
                         /\ f[x[p][1]] = Cmp!ShiftRight(x[p][1], n)
    BY SharedParts
  <2> HIDE DEF f
  <2> QED BY <2>1, SameOperations DEF Mapped, Cmp!ShiftOp
<1>4. v \in Word
  BY SharedParts
<1>5. f[v] = Cmp!ShiftRight(v, n)
  BY <1>4
<1> HIDE DEF f
<1> QED BY <1>1, <1>2, <1>3, <1>5, SharedMapped

LEMMA SharedLowBit ==
    ASSUME NEW x, NEW v, Shared(x, v)
    PROVE  Shared(Cmp!LowBit(x), v \cap {0})
<1> DEFINE f == [a \in Word |-> a \cap {0}]
<1>1. f \in [Word -> Word]
  BY DEF Word
<1>2. \A a \in Word, b \in Word : f[Xor(a, b)] = Xor(f[a], f[b])
  <2> TAKE a \in Word, b \in Word
  <2>1. Xor(a, b) \in Word
    BY WordOps
  <2>2. Xor(a, b) \cap {0} = Xor(a \cap {0}, b \cap {0})
    BY DEF Xor
  <2> QED BY <2>1, <2>2
<1>3. Cmp!LowBit(x) = Mapped(f, x)
  <2>1. \A p \in Party : f[x[p][0]] = x[p][0] \cap {0} /\ f[x[p][1]] = x[p][1] \cap {0}
    BY SharedParts
  <2> HIDE DEF f
  <2> QED BY <2>1 DEF Mapped, Cmp!LowBit, Cmp!MkPair, MkPair, Cmp!Party, Party
<1>4. v \in Word
  BY SharedParts
<1>5. f[v] = v \cap {0}
  BY <1>4
<1> HIDE DEF f
<1>6. Shared(Mapped(f, x), f[v])
  BY <1>1, <1>2, SharedMapped
<1> QED BY <1>3, <1>5, <1>6

LEMMA SharedOneBit ==
    ASSUME NEW n \in Bits
    PROVE  Shared(Cmp!OneBit(n), {n})
<1>1. Cmp!OneBit(n) = Public({n})
  BY SameOperations DEF Cmp!OneBit, Public
<1>2. {n} \in Word
  BY DEF Word
<1> QED BY <1>1, <1>2, SharedPublic

\* The check of an honest AND reveals zero.
LEMMA HonestAnd ==
    ASSUME NEW x, NEW y, NEW a, NEW b, NEW v, NEW w, NEW va, NEW vb,
           Shared(x, v), Shared(y, w), Shared(a, va), Shared(b, vb), NEW p \in Party
    PROVE  Cmp!CheckAnd(x, y, AndOp(x, y), a, b, AndOp(a, b))[p] = Zero
<1> DEFINE e == Xor(v, va)
           f == Xor(w, vb)
           c == AndOp(a, b)
           z == AndOp(x, y)
           scaled(u, s) == [q \in Party |-> ScalePair(u, s[q])]
           s == XorOp(XorOp(Public(e \cap f), scaled(f, a)), XorOp(XorOp(scaled(e, b), c), z))
<1>1. /\ v \in Word /\ w \in Word /\ va \in Word /\ vb \in Word /\ e \in Word /\ f \in Word
      /\ e \cap f \in Word
  BY SharedParts, WordOps
<1>2. /\ Shared(XorOp(x, a), e) /\ Shared(XorOp(y, b), f)
      /\ Shared(c, va \cap vb) /\ Shared(z, v \cap w)
  BY SharedXor, SharedAnd
<1>3. \A q \in Party : RevealOp(XorOp(x, a))[q] = e /\ RevealOp(XorOp(y, b))[q] = f
  BY <1>2, SharedReveal
<1>4. Cmp!CheckAnd(x, y, z, a, b, c) = RevealOp(s)
  <2> DEFINE er == RevealOp(XorOp(x, a))
             fr == RevealOp(XorOp(y, b))
             opened == [q \in Party |->
                          XorPair(XorPair(PublicPair(q, er[q] \cap fr[q]), ScalePair(fr[q], a[q])),
                                  XorPair(XorPair(ScalePair(er[q], b[q]), c[q]), z[q]))]
  <2>1. Cmp!CheckAnd(x, y, z, a, b, c) = RevealOp(opened)
    <3> HIDE DEF z, c
    <3>1. /\ Cmp!RevealOp(Cmp!XorOp(x, a)) = er /\ Cmp!RevealOp(Cmp!XorOp(y, b)) = fr
      BY SameOperations
    <3> DEFINE same == [q \in Cmp!Party |->
                          Cmp!XorPair(Cmp!XorPair(Cmp!PublicPair(q, er[q] \cap fr[q]), Cmp!ScalePair(fr[q], a[q])),
                                  Cmp!XorPair(Cmp!XorPair(Cmp!ScalePair(er[q], b[q]), c[q]), z[q]))]
    <3>2. Cmp!CheckAnd(x, y, z, a, b, c) = Cmp!RevealOp(same)
      BY <3>1 DEF Cmp!CheckAnd
    <3>3. Cmp!Party = Party
      BY SameOperations
    <3> HIDE DEF er, fr
    <3>4. ASSUME NEW q \in Party PROVE same[q] = opened[q]
      <4>1. same[q] = Cmp!XorPair(Cmp!XorPair(Cmp!PublicPair(q, er[q] \cap fr[q]), Cmp!ScalePair(fr[q], a[q])),
                                  Cmp!XorPair(Cmp!XorPair(Cmp!ScalePair(er[q], b[q]), c[q]), z[q]))
        BY <3>3
      <4> HIDE DEF same
      <4> QED BY <4>1, SameOperations
    <3>5. same = [q \in Party |-> same[q]] /\ opened = [q \in Party |-> opened[q]]
      BY <3>3
    <3> HIDE DEF same, opened
    <3>6. same = opened
      BY <3>4, <3>5, Zenon
    <3> QED BY <3>2, <3>6, SameOperations
  <2>2. \A A, B : \A q \in Party : XorOp(A, B)[q] = XorPair(A[q], B[q])
    BY DEF XorOp
  <2>3. \A q \in Party : /\ Public(e \cap f)[q] = PublicPair(q, e \cap f)
                         /\ scaled(f, a)[q] = ScalePair(f, a[q])
                         /\ scaled(e, b)[q] = ScalePair(e, b[q])
    BY DEF Public
  <2>4. ASSUME NEW q \in Party PROVE opened[q] = s[q]
    <3> HIDE DEF e, f, z, c
    <3>1. er[q] = e /\ fr[q] = f
      BY <1>3
    <3> HIDE DEF er, fr
    <3>2. opened[q] = XorPair(XorPair(PublicPair(q, e \cap f), ScalePair(f, a[q])),
                              XorPair(XorPair(ScalePair(e, b[q]), c[q]), z[q]))
      BY <3>1
    <3> HIDE DEF scaled, opened
    <3>3. /\ XorOp(Public(e \cap f), scaled(f, a))[q] = XorPair(Public(e \cap f)[q], scaled(f, a)[q])
          /\ XorOp(scaled(e, b), c)[q] = XorPair(scaled(e, b)[q], c[q])
          /\ XorOp(XorOp(scaled(e, b), c), z)[q] = XorPair(XorOp(scaled(e, b), c)[q], z[q])
          /\ s[q] = XorPair(XorOp(Public(e \cap f), scaled(f, a))[q], XorOp(XorOp(scaled(e, b), c), z)[q])
      BY <2>2
    <3> QED BY <2>3, <3>2, <3>3
  <2>5. opened = s
    <3>1. s = [q \in Party |-> s[q]] /\ opened = [q \in Party |-> opened[q]]
      BY DEF XorOp
    <3> HIDE DEF s, opened
    <3> QED BY <2>4, <3>1, Zenon
  <2> QED BY <2>1, <2>5
<1>5. Shared(s, Xor(Xor(e \cap f, f \cap va), Xor(Xor(e \cap vb, va \cap vb), v \cap w)))
  <2>1. /\ Shared(Public(e \cap f), e \cap f) /\ Shared(scaled(f, a), f \cap va)
        /\ Shared(scaled(e, b), e \cap vb)
    BY <1>1, SharedPublic, SharedScale
  <2> HIDE DEF e, f, c, z, scaled
  <2>2. Shared(XorOp(Public(e \cap f), scaled(f, a)), Xor(e \cap f, f \cap va))
    BY <2>1, SharedXor
  <2>3. Shared(XorOp(scaled(e, b), c), Xor(e \cap vb, va \cap vb))
    BY <1>2, <2>1, SharedXor
  <2>4. Shared(XorOp(XorOp(scaled(e, b), c), z), Xor(Xor(e \cap vb, va \cap vb), v \cap w))
    BY <1>2, <2>3, SharedXor
  <2> QED BY <2>2, <2>4, SharedXor
<1>6. Xor(Xor(e \cap f, f \cap va), Xor(Xor(e \cap vb, va \cap vb), v \cap w)) = Zero
  <2>1. \A k : k \notin Xor(Xor(e \cap f, f \cap va), Xor(Xor(e \cap vb, va \cap vb), v \cap w))
    BY DEF Xor
  <2> HIDE DEF e, f
  <2> QED BY <2>1 DEF Zero
<1> HIDE DEF s
<1> QED BY <1>4, <1>5, <1>6, SharedReveal


-------------------------------------------------------------------------------
(* Blocks. *)

LEMMA Widths ==
    /\ Width \in Nat /\ Width >= 2 /\ Bits = 0..(Width - 1) /\ 0 \in Bits
    /\ \A v \in Word : v \subseteq 0..(Width - 1)
    /\ Width % 2 = 0 /\ Width % Width = 0
BY WidthAssumption DEF Word

\* Half as many blocks of twice the width.
LEMMA HalfSize ==
    ASSUME NEW s \in 2..Width, Width % s = 0
    PROVE  LET w == Width \div s
               h == s \div 2
           IN
           /\ w \in Nat \ {0} /\ s * w = Width
           /\ h \in Nat \ {0} /\ s = 2 * h
           /\ s > 2 => h \in 2..Width /\ Width % h = 0 /\ Width \div h = 2 * w
           /\ s = 2 => 2 * w = Width
           /\ s = Width => w = 1
<1> DEFINE w == Width \div s
           h == s \div 2
<1>1. Width \in Nat /\ Width >= 2 /\ s \in Nat \ {0} /\ s >= 2 /\ s <= Width
  BY Widths
<1>2. w \in Nat /\ Width = s * w
  <2>1. Width = s * (Width \div s) + (Width % s) /\ Width \div s \in Nat
    BY <1>1, DivDef
  <2>2. s * (Width \div s) \in Nat
    BY <1>1, <2>1
  <2> QED BY <2>1, <2>2
<1>3. w # 0
  <2>1. s * 0 = 0
    BY <1>1
  <2> HIDE DEF w
  <2> QED BY <1>1, <1>2, <2>1
<1>4. h \in Nat \ {0} /\ s = 2 * h
  <2>1. s % 2 = 0
    BY WidthAssumption
  <2> QED BY <1>1, <2>1
<1> HIDE DEF w, h
<1>5. Width = h * (2 * w)
  <2>1. s * w = h * (2 * w)
    BY <1>2, <1>4
  <2> QED BY <1>2, <2>1
<1>6. Width \div h = 2 * w /\ Width % h = 0
  <2> DEFINE q == Width \div h
             e == Width % h
  <2>1. q \in Nat /\ e \in 0..(h - 1) /\ Width = h * q + e
    BY <1>1, <1>4, DivDef
  <2> HIDE DEF q, e
  <2>2. h * (2 * w) + 0 = h * q + e /\ 2 * w \in Nat /\ e \in Nat /\ e < h /\ 0 < h
    BY <1>2, <1>4, <1>5, <2>1
  <2>3. 2 * w = q
    BY <1>4, <2>1, <2>2, DivUnique
  <2>4. h * q \in Nat
    BY <1>4, <2>1
  <2>5. e = 0
    BY <2>1, <2>2, <2>3, <2>4
  <2> QED BY <2>3, <2>5 DEF q, e
<1>7. s > 2 => h \in 2..Width
  BY <1>1, <1>4
<1>8. s = 2 => 2 * w = Width
  BY <1>2
<1>9. s = Width => w = 1
  <2> SUFFICES ASSUME s = Width PROVE w = 1
    OBVIOUS
  <2>1. s * w + 0 = s * 1 + 0 /\ 0 < s
    BY <1>1, <1>2
  <2> QED BY <1>1, <1>2, <2>1, DivUnique
<1> QED BY <1>2, <1>3, <1>4, <1>6, <1>7, <1>8, <1>9 DEF w, h

LEMMA OneBitBlocks ==
    ASSUME NEW v, NEW u, NEW j \in Nat
    PROVE  /\ BlockAbove(v, u, j, 1) <=> j \in v /\ j \notin u
           /\ BlockEqual(v, u, j, 1) <=> (j \in v <=> j \in u)
<1>1. \A k : k \in Cmp!Block(j, 1) <=> k = j
  BY DEF Cmp!Block
<1> QED BY <1>1 DEF BlockAbove, BlockEqual, Cmp!Above

\* The upper of two blocks decides, or, where they are equal there, the lower.
LEMMA TwoBlocks ==
    ASSUME NEW v, NEW u, NEW j \in Nat, NEW w \in Nat \ {0}
    PROVE  /\ BlockEqual(v, u, j, 2*w) <=> BlockEqual(v, u, 2*j, w) /\ BlockEqual(v, u, 2*j + 1, w)
           /\ BlockAbove(v, u, j, 2*w) <=>
                 ~(BlockAbove(v, u, 2*j + 1, w)
                      <=> (BlockAbove(v, u, 2*j, w) /\ BlockEqual(v, u, 2*j + 1, w)))
<1> DEFINE whole == Cmp!Block(j, 2*w)
           low == Cmp!Block(2*j, w)
           high == Cmp!Block(2*j + 1, w)
           p == j * w
<1>1. p \in Nat /\ j * (2*w) = 2*p /\ (2*j) * w = 2*p /\ (2*j + 1) * w = 2*p + w
  OBVIOUS
<1>2. whole = (2*p)..(2*p + 2*w - 1) /\ low = (2*p)..(2*p + w - 1)
      /\ high = (2*p + w)..(2*p + w + w - 1)
  BY <1>1 DEF Cmp!Block
<1> HIDE DEF p
<1>3. /\ \A k : k \in whole <=> k \in low \/ k \in high
      /\ \A k \in low : \A m \in high : m > k /\ ~(k > m)
  BY <1>1, <1>2
<1> HIDE DEF whole, low, high
<1>4. BlockEqual(v, u, j, 2*w) <=> BlockEqual(v, u, 2*j, w) /\ BlockEqual(v, u, 2*j + 1, w)
  BY <1>3 DEF BlockEqual, whole, low, high
<1>5. BlockAbove(v, u, 2*j + 1, w) => ~BlockEqual(v, u, 2*j + 1, w)
  BY DEF BlockAbove, BlockEqual, Cmp!Above
<1>6. BlockAbove(v, u, j, 2*w) <=>
          \E k \in (v \ u) \cap whole : \A m \in whole : m > k => (m \in v <=> m \in u)
  BY DEF BlockAbove, Cmp!Above, whole
<1>7. BlockAbove(v, u, 2*j, w) <=>
          \E k \in (v \ u) \cap low : \A m \in low : m > k => (m \in v <=> m \in u)
  BY DEF BlockAbove, Cmp!Above, low
<1>8. BlockAbove(v, u, 2*j + 1, w) <=>
          \E k \in (v \ u) \cap high : \A m \in high : m > k => (m \in v <=> m \in u)
  BY DEF BlockAbove, Cmp!Above, high
<1>9. BlockEqual(v, u, 2*j + 1, w) <=> \A k \in high : k \in v <=> k \in u
  BY DEF BlockEqual, high
<1>10. BlockAbove(v, u, j, 2*w) => \/ BlockAbove(v, u, 2*j + 1, w)
                                   \/ BlockAbove(v, u, 2*j, w) /\ BlockEqual(v, u, 2*j + 1, w)
  <2> SUFFICES ASSUME NEW k \in (v \ u) \cap whole, \A m \in whole : m > k => (m \in v <=> m \in u)
               PROVE  \/ BlockAbove(v, u, 2*j + 1, w)
                      \/ BlockAbove(v, u, 2*j, w) /\ BlockEqual(v, u, 2*j + 1, w)
    BY <1>6
  <2>1. CASE k \in high
    BY <1>3, <1>8, <2>1
  <2>2. CASE k \in low
    BY <1>3, <1>7, <1>9, <2>2
  <2> QED BY <1>3, <2>1, <2>2
<1>11. BlockAbove(v, u, 2*j + 1, w) => BlockAbove(v, u, j, 2*w)
  BY <1>3, <1>6, <1>8
<1>12. BlockAbove(v, u, 2*j, w) /\ BlockEqual(v, u, 2*j + 1, w) => BlockAbove(v, u, j, 2*w)
  BY <1>3, <1>6, <1>7, <1>9
<1> QED BY <1>4, <1>5, <1>10, <1>11, <1>12

\* compare_ss starts with one block for each bit.
LEMMA FirstLevel ==
    ASSUME NEW v \in Word, NEW u \in Word
    PROVE  /\ v \cap Not(u) = AboveBlocks(v, u, Width, 1)
           /\ Not(Xor(v, u)) = EqualBlocks(v, u, Width, 1)
<1>1. /\ v \subseteq 0..(Width - 1) /\ Bits = 0..(Width - 1) /\ \A j \in Bits : j \in Nat
  BY Widths
<1>2. \A j \in Bits : /\ BlockAbove(v, u, j, 1) <=> j \in v /\ j \notin u
                      /\ BlockEqual(v, u, j, 1) <=> (j \in v <=> j \in u)
  BY <1>1, OneBitBlocks
<1>3. \A j : j \in v \cap Not(u) <=> j \in AboveBlocks(v, u, Width, 1)
  BY <1>1, <1>2 DEF AboveBlocks, Not
<1>4. \A j : j \in Not(Xor(v, u)) <=> j \in EqualBlocks(v, u, Width, 1)
  BY <1>1, <1>2 DEF EqualBlocks, Not, Xor
<1> QED BY <1>3, <1>4

LEMMA LevelWords ==
    ASSUME NEW v, NEW u, NEW s \in 2..Width, NEW w
    PROVE  AboveBlocks(v, u, s, w) \in Word /\ EqualBlocks(v, u, s, w) \in Word
<1>1. 0..(s - 1) \subseteq Bits
  BY Widths
<1> QED BY <1>1 DEF Word, AboveBlocks, EqualBlocks

\* The products of a level: at an even position the results for a pair of blocks.
LEMMA PairsOfBlocks ==
    ASSUME NEW v, NEW u, NEW s \in 2..Width, Width % s = 0, NEW w \in Nat \ {0}
    PROVE  LET g == AboveBlocks(v, u, s, w)
               e == EqualBlocks(v, u, s, w)
           IN
           /\ EqualAtEven(e \cap Cmp!ShiftRight(e, 1), v, u, s, w)
           /\ AboveAtEven(Xor(Cmp!ShiftRight(g, 1), g \cap Cmp!ShiftRight(e, 1)), v, u, s, w)
<1> DEFINE g == AboveBlocks(v, u, s, w)
           e == EqualBlocks(v, u, s, w)
<1>1. g \in Word /\ e \in Word
  BY LevelWords
<1>2. /\ s = 2 * (s \div 2) /\ s \div 2 \in Nat /\ s \in Nat /\ s <= Width /\ Width \in Nat
      /\ Bits = 0..(Width - 1)
  <2>1. s = 2 * (s \div 2) /\ s \div 2 \in Nat
    BY HalfSize
  <2>2. Width \in Nat /\ Bits = 0..(Width - 1)
    BY Widths
  <2> QED BY <2>1, <2>2
<1>3. ASSUME NEW j \in 0..((s \div 2) - 1)
      PROVE  /\ j \in Nat /\ 2*j \in 0..(s - 1) /\ 2*j + 1 \in 0..(s - 1)
             /\ 2*j \in Bits /\ 2*j + 1 < Width
  BY <1>2
<1>4. ASSUME NEW j \in 0..((s \div 2) - 1)
      PROVE  /\ 2*j \in g <=> BlockAbove(v, u, 2*j, w)
             /\ 2*j + 1 \in g <=> BlockAbove(v, u, 2*j + 1, w)
             /\ 2*j \in e <=> BlockEqual(v, u, 2*j, w)
             /\ 2*j + 1 \in e <=> BlockEqual(v, u, 2*j + 1, w)
  BY <1>3 DEF AboveBlocks, EqualBlocks
<1> HIDE DEF g, e
<1>5. ASSUME NEW j \in 0..((s \div 2) - 1)
      PROVE  /\ 2*j \in Cmp!ShiftRight(g, 1) <=> 2*j + 1 \in g
             /\ 2*j \in Cmp!ShiftRight(e, 1) <=> 2*j + 1 \in e
  BY <1>1, <1>3, ShiftBit
<1>6. ASSUME NEW j \in 0..((s \div 2) - 1)
      PROVE  2*j \in e \cap Cmp!ShiftRight(e, 1) <=> BlockEqual(v, u, j, 2*w)
  <2>1. j \in Nat
    BY <1>3
  <2> QED BY <1>4, <1>5, <2>1, TwoBlocks
<1>7. ASSUME NEW j \in 0..((s \div 2) - 1)
      PROVE  2*j \in Xor(Cmp!ShiftRight(g, 1), g \cap Cmp!ShiftRight(e, 1)) <=> BlockAbove(v, u, j, 2*w)
  <2>1. j \in Nat
    BY <1>3
  <2>2. 2*j \in Xor(Cmp!ShiftRight(g, 1), g \cap Cmp!ShiftRight(e, 1))
           <=> ~(2*j \in Cmp!ShiftRight(g, 1) <=> (2*j \in g /\ 2*j \in Cmp!ShiftRight(e, 1)))
    BY DEF Xor
  <2> QED BY <1>4, <1>5, <2>1, <2>2, TwoBlocks
<1>8. EqualAtEven(e \cap Cmp!ShiftRight(e, 1), v, u, s, w)
  BY <1>6 DEF EqualAtEven
<1>9. AboveAtEven(Xor(Cmp!ShiftRight(g, 1), g \cap Cmp!ShiftRight(e, 1)), v, u, s, w)
  BY <1>7 DEF AboveAtEven
<1> QED BY <1>8, <1>9 DEF g, e

\* Iteration n of the loop moves bit 2n of a word to bit n.
LEMMA MovedBit ==
    ASSUME NEW n \in Nat, 2*n + 2 <= Width, NEW V
    PROVE  Cmp!ShiftRight({2*n} \cap V, n) = IF 2*n \in V THEN {n} ELSE {}
<1>1. Bits = 0..(Width - 1) /\ Width \in Nat
  BY Widths
<1>2. \A b \in Bits : b + n \in {2*n} \cap V <=> b = n /\ 2*n \in V
  BY <1>1
<1>3. Width - 1 \notin {2*n} \cap V
  BY <1>1
<1>4. n \in Bits
  BY <1>1
<1> QED BY <1>2, <1>3, <1>4 DEF Cmp!ShiftRight

LEMMA CollectAbove ==
    ASSUME NEW v, NEW u, NEW s \in 2..Width, Width % s = 0, NEW w \in Nat \ {0},
           NEW n \in Nat, 2*n + 2 <= s, NEW V, AboveAtEven(V, v, u, s, w)
    PROVE  Xor(AboveBlocks(v, u, n, 2*w), Cmp!ShiftRight({2*n} \cap V, n)) = AboveBlocks(v, u, n + 1, 2*w)
<1>1. Cmp!ShiftRight({2*n} \cap V, n) = IF 2*n \in V THEN {n} ELSE {}
  <2>1. 2*n + 2 <= Width
    BY Widths
  <2> QED BY <2>1, MovedBit
<1>2. n \in 0..((s \div 2) - 1)
  <2>1. s = 2 * (s \div 2) /\ s \div 2 \in Nat
    BY HalfSize
  <2> QED BY <2>1
<1>3. \A k : k \in 0..((n + 1) - 1) <=> k \in 0..(n - 1) \/ k = n
  OBVIOUS
<1>4. 2*n \in V <=> BlockAbove(v, u, n, 2*w)
  BY <1>2 DEF AboveAtEven
<1>5. \A k : k \in AboveBlocks(v, u, n + 1, 2*w)
               <=> k \in AboveBlocks(v, u, n, 2*w) \/ (k = n /\ BlockAbove(v, u, n, 2*w))
  BY <1>3 DEF AboveBlocks
<1>6. n \notin AboveBlocks(v, u, n, 2*w)
  BY DEF AboveBlocks
<1> QED BY <1>1, <1>4, <1>5, <1>6 DEF Xor

LEMMA CollectEqual ==
    ASSUME NEW v, NEW u, NEW s \in 2..Width, Width % s = 0, NEW w \in Nat \ {0},
           NEW n \in Nat, 2*n + 2 <= s, NEW V, EqualAtEven(V, v, u, s, w)
    PROVE  Xor(EqualBlocks(v, u, n, 2*w), Cmp!ShiftRight({2*n} \cap V, n)) = EqualBlocks(v, u, n + 1, 2*w)
<1>1. Cmp!ShiftRight({2*n} \cap V, n) = IF 2*n \in V THEN {n} ELSE {}
  <2>1. 2*n + 2 <= Width
    BY Widths
  <2> QED BY <2>1, MovedBit
<1>2. n \in 0..((s \div 2) - 1)
  <2>1. s = 2 * (s \div 2) /\ s \div 2 \in Nat
    BY HalfSize
  <2> QED BY <2>1
<1>3. \A k : k \in 0..((n + 1) - 1) <=> k \in 0..(n - 1) \/ k = n
  OBVIOUS
<1>4. 2*n \in V <=> BlockEqual(v, u, n, 2*w)
  BY <1>2 DEF EqualAtEven
<1>5. \A k : k \in EqualBlocks(v, u, n + 1, 2*w)
               <=> k \in EqualBlocks(v, u, n, 2*w) \/ (k = n /\ BlockEqual(v, u, n, 2*w))
  BY <1>3 DEF EqualBlocks
<1>6. n \notin EqualBlocks(v, u, n, 2*w)
  BY DEF EqualBlocks
<1> QED BY <1>1, <1>4, <1>5, <1>6 DEF Xor

LEMMA NothingCollected ==
    ASSUME NEW v, NEW u, NEW w
    PROVE  AboveBlocks(v, u, 0, w) = Zero /\ EqualBlocks(v, u, 0, w) = Zero
BY DEF AboveBlocks, EqualBlocks, Zero

LEMMA WholeWord ==
    ASSUME NEW v \in Word, NEW u \in Word
    PROVE  /\ AboveBlocks(v, u, 1, Width) \cap {0} = IF BlockAbove(v, u, 0, Width) THEN {0} ELSE {}
           /\ BlockAbove(v, u, 0, Width) <=> Above(v, u)
<1>1. AboveBlocks(v, u, 1, Width) = IF BlockAbove(v, u, 0, Width) THEN {0} ELSE {}
  <2>1. \A k : k \in 0..(1 - 1) <=> k = 0
    OBVIOUS
  <2>2. \A k : k \in AboveBlocks(v, u, 1, Width) <=> k = 0 /\ BlockAbove(v, u, 0, Width)
    BY <2>1 DEF AboveBlocks
  <2> QED BY <2>2
<1>2. Cmp!Block(0, Width) = Bits
  BY Widths DEF Cmp!Block
<1>3. v \subseteq Bits
  BY DEF Word
<1>4. BlockAbove(v, u, 0, Width) <=> Above(v, u)
  BY <1>2, <1>3 DEF BlockAbove, Cmp!Above, Above
<1> QED BY <1>1, <1>4

-------------------------------------------------------------------------------
(* The steps of a comparison. *)

\* Init: nothing is compared before the first feature is selected.
LEMMA InitCompared == WalkInit => CmpInv
<1> SUFFICES ASSUME WalkInit PROVE CmpInv
  OBVIOUS
<1>1. cpc = "idle" /\ csize = Width /\ cpassed
  BY DEF WalkInit, Cmp!Init
<1>2. Sizes
  BY <1>1, Widths DEF Sizes
<1>3. Blocks
  BY <1>1 DEF Blocks
<1> QED BY <1>1, <1>2, <1>3 DEF CmpInv, Compared

\* A product of good words, checked with a triple.
LEMMA CheckedProduct ==
    ASSUME NEW a, NEW b, NEW index, Good(a), Good(b), cpassed, Cmp!Multiply(a, b, index)
    PROVE  cpassed'
<1>1. PICK triple \in Triples :
        cpassed' = (cpassed /\ \A p \in Cmp!Party :
                        Cmp!CheckAnd(a, b, Cmp!AndOp(a, b), triple[1], triple[2],
                                     Cmp!AndOp(triple[1], triple[2]))[p] = Cmp!Zero)
  BY DEF Cmp!Multiply
<1> DEFINE t1 == triple[1]
           t2 == triple[2]
<1>2. Good(t1) /\ Good(t2)
  BY TriplesAssumption DEF Good
<1> HIDE DEF t1, t2
<1>3. Shared(a, ValueOf(a)) /\ Shared(b, ValueOf(b)) /\ Shared(t1, ValueOf(t1)) /\ Shared(t2, ValueOf(t2))
  BY <1>2 DEF Good, Shared
<1>4. \A p \in Party : Cmp!CheckAnd(a, b, AndOp(a, b), t1, t2, AndOp(t1, t2))[p] = Zero
  BY <1>3, HonestAnd
<1>5. cpassed' = (cpassed /\ \A p \in Party :
                     Cmp!CheckAnd(a, b, AndOp(a, b), t1, t2, AndOp(t1, t2))[p] = Zero)
  BY <1>1, SameOperations DEF t1, t2
<1> QED BY <1>4, <1>5

LEMMA CallCompared == WalkInv /\ CmpInv /\ Call => CmpInv'
<1> SUFFICES ASSUME WalkInv, CmpInv, Call PROVE CmpInv'
  OBVIOUS
<1>1. /\ pc = "compare" /\ pc' = pc /\ i' = i /\ ssY' = ssY /\ cur_node' = cur_node
      /\ cpc' = "gt" /\ cx' = ssY /\ ct' = cur_node["threshold"] /\ cval' = i
      /\ csize' = Width /\ cpassed' = cpassed
  BY DEF Call, StartComparison, Cmp!Start, vars
<1>2. Good(ssY) /\ Good(cur_node["threshold"])
  BY <1>1 DEF WalkInv, Walk, Col, Shared, Good
<1>3. Sizes'
  BY <1>1, Widths DEF Sizes
<1>4. Blocks'
  BY <1>1 DEF Blocks
<1>5. Compared'
  <2>1. Good(cx') /\ Good(ct')
    BY <1>1, <1>2
  <2>2. Good(cx)' /\ Good(ct)'
    BY <2>1
  <2> QED BY <1>1, <2>2 DEF Compared, CmpInv
<1> QED BY <1>3, <1>4, <1>5 DEF CmpInv

LEMMA AroundCompared ==
    ASSUME CmpInv, pc # "compare", UNCHANGED comparison
    PROVE  CmpInv'
<1>1. cpc = "idle" /\ cpc' = "idle" /\ csize' = csize /\ cpassed' = cpassed
  BY DEF CmpInv, Compared, comparison
<1>2. Sizes'
  BY <1>1 DEF CmpInv, Sizes
<1>3. Blocks'
  BY <1>1 DEF Blocks
<1> QED BY <1>1, <1>2, <1>3 DEF CmpInv, Compared

LEMMA ReturnCompared == CmpInv /\ Return => CmpInv'
<1> SUFFICES ASSUME CmpInv, Return PROVE CmpInv'
  OBVIOUS
<1>1. cpc' = "idle" /\ csize' = csize /\ cpassed' = cpassed
  BY DEF Return, Cmp!Finish
<1>2. Sizes'
  BY <1>1 DEF CmpInv, Sizes
<1>3. Blocks'
  BY <1>1 DEF Blocks
<1> QED BY <1>1, <1>2, <1>3 DEF CmpInv, Compared

\* What every multiplication leaves alone.
LEMMA StillCompared ==
    ASSUME CmpInv, Cmp!AndStep, UNCHANGED vars, cpassed'
    PROVE  /\ ct' = ct /\ cx' = cx /\ Compared'
           /\ Good(cx) /\ Good(ct) /\ ValueOf(ct) \in Word /\ ValueOf(cx) \in Word
<1>1. ct' = ct /\ cx' = cx /\ cval' = cval /\ cpc # "idle"
  BY DEF Cmp!AndStep, Cmp!AndGt, Cmp!AndTest, Cmp!AndEq, Cmp!AndShift, Cmp!AndG, Cmp!AndE
<1>2. pc' = pc /\ i' = i /\ ssY' = ssY /\ cur_node' = cur_node
  BY DEF vars
<1>3. Good(cx) /\ Good(ct)
  BY <1>1 DEF CmpInv, Compared
<1>4. ValueOf(ct) \in Word /\ ValueOf(cx) \in Word
  <2>1. Shared(cx, ValueOf(cx)) /\ Shared(ct, ValueOf(ct))
    BY <1>3 DEF Good, Shared
  <2> QED BY <2>1, SharedParts
<1>5. Compared'
  <2>1. Good(cx') /\ Good(ct')
    BY <1>1, <1>3
  <2>2. Good(cx)' /\ Good(ct)'
    BY <2>1
  <2> QED BY <1>1, <1>2, <2>2 DEF CmpInv, Compared
<1> QED BY <1>1, <1>3, <1>4, <1>5

LEMMA AndGtCompared == CmpInv /\ Cmp!AndGt /\ UNCHANGED vars => CmpInv'
<1> SUFFICES ASSUME CmpInv, Cmp!AndGt, UNCHANGED vars PROVE CmpInv'
  OBVIOUS
<1> DEFINE v == ValueOf(ct)
           u == ValueOf(cx)
<1>1. /\ cpc = "gt" /\ cpc' = "test" /\ csize' = csize
      /\ Cmp!Multiply(ct, Cmp!NegateOp(cx), Cmp!Base)
      /\ cgt' = Cmp!AndOp(ct, Cmp!NegateOp(cx))
  BY DEF Cmp!AndGt
<1>2. csize = Width /\ Good(cx) /\ Good(ct) /\ cpassed
  BY <1>1 DEF CmpInv, Sizes, Compared
<1>3. Shared(ct, v) /\ Shared(cx, u)
  BY <1>2 DEF Good, Shared
<1>4. Shared(NegateOp(cx), Not(u))
  BY <1>3, SharedNegate
<1>5. cpassed'
  <2>1. Good(NegateOp(cx)) /\ Cmp!NegateOp(cx) = NegateOp(cx)
    BY <1>4, SameOperations DEF Good, Shared
  <2> QED BY <1>1, <1>2, <2>1, CheckedProduct
<1>6. ct' = ct /\ cx' = cx /\ Compared' /\ v \in Word /\ u \in Word
  BY <1>5, StillCompared DEF Cmp!AndStep
<1>7. Shared(cgt', AboveBlocks(v, u, Width, 1))
  <2>1. Shared(AndOp(ct, NegateOp(cx)), v \cap Not(u))
    BY <1>3, <1>4, SharedAnd
  <2>2. cgt' = AndOp(ct, NegateOp(cx))
    BY <1>1, SameOperations
  <2> QED BY <1>6, <2>1, <2>2, FirstLevel
<1>8. Width \div Width = 1
  BY Widths, HalfSize
<1>9. Blocks'
  BY <1>1, <1>2, <1>6, <1>7, <1>8 DEF Blocks
<1>10. Sizes'
  BY <1>1 DEF CmpInv, Sizes
<1> QED BY <1>6, <1>9, <1>10 DEF CmpInv

LEMMA AndTestCompared == CmpInv /\ Cmp!AndTest /\ UNCHANGED vars => CmpInv'
<1> SUFFICES ASSUME CmpInv, Cmp!AndTest, UNCHANGED vars PROVE CmpInv'
  OBVIOUS
<1> DEFINE v == ValueOf(ct)
           u == ValueOf(cx)
<1>1. /\ cpc = "test" /\ cpc' = "eq" /\ csize' = csize /\ cgt' = cgt
      /\ Cmp!Multiply(ct, cx, Cmp!Base + 1)
      /\ ceq' = Cmp!NegateOp(Cmp!XorOp(ct, cx))
  BY DEF Cmp!AndTest
<1>2. csize = Width /\ Good(cx) /\ Good(ct) /\ cpassed
  BY <1>1 DEF CmpInv, Sizes, Compared
<1>3. Shared(ct, v) /\ Shared(cx, u)
  BY <1>2 DEF Good, Shared
<1>4. cpassed'
  BY <1>1, <1>2, CheckedProduct
<1>5. ct' = ct /\ cx' = cx /\ Compared' /\ v \in Word /\ u \in Word
  BY <1>4, StillCompared DEF Cmp!AndStep
<1>6. Width \div Width = 1
  BY Widths, HalfSize
<1>7. Shared(cgt, AboveBlocks(v, u, Width, 1))
  BY <1>1, <1>2, <1>6 DEF CmpInv, Blocks
<1>8. Shared(ceq', EqualBlocks(v, u, Width, 1))
  <2>1. Shared(XorOp(ct, cx), Xor(v, u))
    BY <1>3, SharedXor
  <2>2. Shared(NegateOp(XorOp(ct, cx)), Not(Xor(v, u)))
    BY <2>1, SharedNegate
  <2>3. ceq' = NegateOp(XorOp(ct, cx))
    BY <1>1, SameOperations
  <2> QED BY <1>5, <2>2, <2>3, FirstLevel
<1>9. Blocks'
  BY <1>1, <1>2, <1>5, <1>6, <1>7, <1>8 DEF Blocks
<1>10. Sizes'
  BY <1>1, <1>2 DEF CmpInv, Sizes
<1> QED BY <1>5, <1>9, <1>10 DEF CmpInv

LEMMA AndEqCompared == CmpInv /\ Cmp!AndEq /\ UNCHANGED vars => CmpInv'
<1> SUFFICES ASSUME CmpInv, Cmp!AndEq, UNCHANGED vars PROVE CmpInv'
  OBVIOUS
<1> DEFINE v == ValueOf(ct)
           u == ValueOf(cx)
           w == Width \div csize
           e == EqualBlocks(v, u, csize, w)
<1>1. /\ cpc = "eq" /\ cpc' = "shift" /\ csize' = csize /\ cgt' = cgt /\ ceq' = ceq
      /\ Cmp!Multiply(ceq, Cmp!ShiftOp(ceq, 1), Cmp!Se + 2)
      /\ ceq_temp1' = Cmp!ShiftOp(ceq, 1)
      /\ ceq_temp2' = Cmp!AndOp(ceq, Cmp!ShiftOp(ceq, 1))
  BY DEF Cmp!AndEq
<1>2. /\ csize \in 2..Width /\ Width % csize = 0 /\ cpassed
      /\ Shared(cgt, AboveBlocks(v, u, csize, w)) /\ Shared(ceq, e)
  BY <1>1 DEF CmpInv, Sizes, Compared, Blocks
<1>3. w \in Nat \ {0}
  BY <1>2, HalfSize
<1> HIDE DEF w, e
<1>4. Shared(Cmp!ShiftOp(ceq, 1), Cmp!ShiftRight(e, 1))
  BY <1>2, SharedShift
<1>5. cpassed'
  <2>1. Good(ceq) /\ Good(Cmp!ShiftOp(ceq, 1))
    BY <1>2, <1>4 DEF Good, Shared
  <2> QED BY <1>1, <1>2, <2>1, CheckedProduct
<1>6. ct' = ct /\ cx' = cx /\ Compared'
  BY <1>5, StillCompared DEF Cmp!AndStep
<1>7. Shared(ceq_temp2', e \cap Cmp!ShiftRight(e, 1))
  <2>1. ceq_temp2' = AndOp(ceq, Cmp!ShiftOp(ceq, 1))
    BY <1>1, SameOperations
  <2> QED BY <1>2, <1>4, <2>1, SharedAnd
<1>8. EqualAtEven(e \cap Cmp!ShiftRight(e, 1), v, u, csize, w)
  BY <1>2, <1>3, PairsOfBlocks DEF e
<1>9. Good(ceq_temp2') /\ EqualAtEven(ValueOf(ceq_temp2'), v, u, csize, w)
  BY <1>7, <1>8 DEF Good, Shared
<1>10. Blocks'
  <2>1. v' = v /\ u' = u /\ w' = w
    BY <1>1, <1>6 DEF w
  <2>2. /\ Shared(cgt', AboveBlocks(v, u, csize, w)) /\ Shared(ceq', e)
        /\ Shared(ceq_temp1', Cmp!ShiftRight(e, 1))
    BY <1>1, <1>2, <1>4
  <2> QED BY <1>1, <1>6, <1>9, <2>1, <2>2 DEF Blocks, w, e
<1>11. Sizes'
  BY <1>1, <1>2 DEF CmpInv, Sizes
<1> QED BY <1>6, <1>10, <1>11 DEF CmpInv

LEMMA AndShiftCompared == CmpInv /\ Cmp!AndShift /\ UNCHANGED vars => CmpInv'
<1> SUFFICES ASSUME CmpInv, Cmp!AndShift, UNCHANGED vars PROVE CmpInv'
  OBVIOUS
<1> DEFINE v == ValueOf(ct)
           u == ValueOf(cx)
           w == Width \div csize
           g == AboveBlocks(v, u, csize, w)
           e == EqualBlocks(v, u, csize, w)
<1>1. /\ cpc = "shift" /\ cpc' = "g" /\ csize' = csize /\ ceq_temp2' = ceq_temp2
      /\ Cmp!Multiply(cgt, ceq_temp1, Cmp!Se + 3)
      /\ cgt_temp3' = Cmp!XorOp(Cmp!ShiftOp(cgt, 1), Cmp!AndOp(cgt, ceq_temp1))
      /\ cgt_temp' = Cmp!NoShare /\ ceq_temp' = Cmp!NoShare /\ ci' = 0
  BY DEF Cmp!AndShift
<1>2. /\ csize \in 2..Width /\ Width % csize = 0 /\ cpassed
      /\ Shared(cgt, g) /\ Shared(ceq_temp1, Cmp!ShiftRight(e, 1))
      /\ Good(ceq_temp2) /\ EqualAtEven(ValueOf(ceq_temp2), v, u, csize, w)
  BY <1>1 DEF CmpInv, Sizes, Compared, Blocks
<1>3. w \in Nat \ {0}
  BY <1>2, HalfSize
<1> HIDE DEF w, g, e
<1>4. cpassed'
  <2>1. Good(cgt) /\ Good(ceq_temp1)
    BY <1>2 DEF Good, Shared
  <2> QED BY <1>1, <1>2, <2>1, CheckedProduct
<1>5. ct' = ct /\ cx' = cx /\ Compared'
  BY <1>4, StillCompared DEF Cmp!AndStep
<1>6. Shared(cgt_temp3', Xor(Cmp!ShiftRight(g, 1), g \cap Cmp!ShiftRight(e, 1)))
  <2>1. cgt_temp3' = XorOp(Cmp!ShiftOp(cgt, 1), AndOp(cgt, ceq_temp1))
    BY <1>1, SameOperations
  <2>2. Shared(Cmp!ShiftOp(cgt, 1), Cmp!ShiftRight(g, 1))
    BY <1>2, SharedShift
  <2>3. Shared(AndOp(cgt, ceq_temp1), g \cap Cmp!ShiftRight(e, 1))
    BY <1>2, SharedAnd
  <2> QED BY <2>1, <2>2, <2>3, SharedXor
<1>7. AboveAtEven(Xor(Cmp!ShiftRight(g, 1), g \cap Cmp!ShiftRight(e, 1)), v, u, csize, w)
  BY <1>2, <1>3, PairsOfBlocks DEF g, e
<1>8. Good(cgt_temp3') /\ AboveAtEven(ValueOf(cgt_temp3'), v, u, csize, w)
  BY <1>6, <1>7 DEF Good, Shared
<1>9. Shared(cgt_temp', AboveBlocks(v, u, 0, 2*w)) /\ Shared(ceq_temp', EqualBlocks(v, u, 0, 2*w))
  BY <1>1, NothingShared, NothingCollected, SameOperations
<1>10. Blocks'
  <2>1. v' = v /\ u' = u /\ w' = w
    BY <1>1, <1>5 DEF w
  <2> QED BY <1>1, <1>2, <1>5, <1>8, <1>9, <2>1 DEF Blocks, w, Good
<1>11. Sizes'
  BY <1>1, <1>2 DEF CmpInv, Sizes
<1> QED BY <1>5, <1>10, <1>11 DEF CmpInv

\* Either word of the loop: bit 2n of V goes to bit n of what is collected so far.
LEMMA Collected ==
    ASSUME NEW n \in Nat, 2*n + 2 <= Width, NEW x, NEW V, Shared(x, V), NEW y, NEW S, Shared(y, S)
    PROVE  /\ Good(Cmp!OneBit(2*n))
           /\ Shared(Cmp!XorOp(y, Cmp!ShiftOp(Cmp!AndOp(Cmp!OneBit(2*n), x), n)),
                     Xor(S, Cmp!ShiftRight({2*n} \cap V, n)))
<1>1. 2*n \in Bits
  BY Widths
<1>2. Shared(Cmp!OneBit(2*n), {2*n})
  BY <1>1, SharedOneBit
<1>3. Shared(AndOp(Cmp!OneBit(2*n), x), {2*n} \cap V)
  BY <1>2, SharedAnd
<1>4. Shared(Cmp!ShiftOp(AndOp(Cmp!OneBit(2*n), x), n), Cmp!ShiftRight({2*n} \cap V, n))
  BY <1>3, SharedShift
<1>5. Shared(XorOp(y, Cmp!ShiftOp(AndOp(Cmp!OneBit(2*n), x), n)), Xor(S, Cmp!ShiftRight({2*n} \cap V, n)))
  BY <1>4, SharedXor
<1> QED BY <1>2, <1>5, SameOperations DEF Good, Shared

LEMMA AndGCompared == CmpInv /\ Cmp!AndG /\ UNCHANGED vars => CmpInv'
<1> SUFFICES ASSUME CmpInv, Cmp!AndG, UNCHANGED vars PROVE CmpInv'
  OBVIOUS
<1> DEFINE v == ValueOf(ct)
           u == ValueOf(cx)
           w == Width \div csize
           V == ValueOf(cgt_temp3)
<1>1. /\ cpc = "g" /\ cpc' = "e" /\ csize' = csize /\ ci' = ci
      /\ ceq_temp2' = ceq_temp2 /\ cgt_temp3' = cgt_temp3 /\ ceq_temp' = ceq_temp
      /\ Cmp!Multiply(Cmp!OneBit(2*ci), cgt_temp3, Cmp!Se + 4 + 2*ci)
      /\ cgt_temp' = Cmp!XorOp(cgt_temp, Cmp!ShiftOp(Cmp!AndOp(Cmp!OneBit(2*ci), cgt_temp3), ci))
  BY DEF Cmp!AndG
<1>2. /\ csize \in 2..Width /\ Width % csize = 0 /\ ci \in Nat /\ 2*ci + 2 <= csize /\ cpassed
      /\ Good(ceq_temp2) /\ EqualAtEven(ValueOf(ceq_temp2), v, u, csize, w)
      /\ Good(cgt_temp3) /\ AboveAtEven(V, v, u, csize, w)
      /\ Shared(ceq_temp, EqualBlocks(v, u, ci, 2*w))
      /\ Shared(cgt_temp, AboveBlocks(v, u, ci, 2*w))
  BY <1>1 DEF CmpInv, Sizes, Compared, Blocks
<1>3. w \in Nat \ {0} /\ 2*ci + 2 <= Width
  <2>1. w \in Nat \ {0}
    BY <1>2, HalfSize
  <2>2. 2*ci + 2 <= Width
    BY <1>2, Widths
  <2> QED BY <2>1, <2>2
<1>4. Shared(cgt_temp3, V)
  BY <1>2 DEF Good, Shared
<1> HIDE DEF v, u, w, V
<1>5. /\ Good(Cmp!OneBit(2*ci))
      /\ Shared(cgt_temp', Xor(AboveBlocks(v, u, ci, 2*w), Cmp!ShiftRight({2*ci} \cap V, ci)))
  BY <1>1, <1>2, <1>3, <1>4, Collected
<1>6. Shared(cgt_temp', AboveBlocks(v, u, ci + 1, 2*w))
  <2>1. Xor(AboveBlocks(v, u, ci, 2*w), Cmp!ShiftRight({2*ci} \cap V, ci)) = AboveBlocks(v, u, ci + 1, 2*w)
    BY <1>2, <1>3, CollectAbove
  <2> QED BY <1>5, <2>1
<1>7. cpassed'
  BY <1>1, <1>2, <1>5, CheckedProduct
<1>8. ct' = ct /\ cx' = cx /\ Compared'
  BY <1>7, StillCompared DEF Cmp!AndStep, v, u
<1>9. Blocks'
  <2>1. v' = v /\ u' = u /\ w' = w /\ V' = V
    BY <1>1, <1>8 DEF v, u, w, V
  <2> QED BY <1>1, <1>2, <1>6, <1>8, <2>1 DEF Blocks, v, u, w, V, Good
<1>10. Sizes'
  BY <1>1, <1>2 DEF CmpInv, Sizes
<1> QED BY <1>8, <1>9, <1>10 DEF CmpInv

LEMMA AndECompared == CmpInv /\ Cmp!AndE /\ UNCHANGED vars => CmpInv'
<1> SUFFICES ASSUME CmpInv, Cmp!AndE, UNCHANGED vars PROVE CmpInv'
  OBVIOUS
<1> DEFINE v == ValueOf(ct)
           u == ValueOf(cx)
           w == Width \div csize
           V == ValueOf(ceq_temp2)
<1>1. /\ cpc = "e"
      /\ ceq_temp2' = ceq_temp2 /\ cgt_temp3' = cgt_temp3 /\ cgt_temp' = cgt_temp
      /\ Cmp!Multiply(Cmp!OneBit(2*ci), ceq_temp2, Cmp!Se + 5 + 2*ci)
      /\ ceq_temp' = Cmp!XorOp(ceq_temp, Cmp!ShiftOp(Cmp!AndOp(Cmp!OneBit(2*ci), ceq_temp2), ci))
  BY DEF Cmp!AndE
<1>2. /\ csize \in 2..Width /\ Width % csize = 0 /\ ci \in Nat /\ 2*ci + 2 <= csize /\ cpassed
      /\ Good(ceq_temp2) /\ EqualAtEven(V, v, u, csize, w)
      /\ Good(cgt_temp3) /\ AboveAtEven(ValueOf(cgt_temp3), v, u, csize, w)
      /\ Shared(ceq_temp, EqualBlocks(v, u, ci, 2*w))
      /\ Shared(cgt_temp, AboveBlocks(v, u, ci + 1, 2*w))
  BY <1>1 DEF CmpInv, Sizes, Compared, Blocks
<1>3. w \in Nat \ {0} /\ 2*ci + 2 <= Width /\ csize = 2 * (csize \div 2) /\ csize \div 2 \in Nat
  <2>1. w \in Nat \ {0} /\ csize = 2 * (csize \div 2) /\ csize \div 2 \in Nat
    BY <1>2, HalfSize
  <2>2. 2*ci + 2 <= Width
    BY <1>2, Widths
  <2> QED BY <2>1, <2>2
<1>4. Shared(ceq_temp2, V)
  BY <1>2 DEF Good, Shared
<1> HIDE DEF v, u, w, V
<1>5. /\ Good(Cmp!OneBit(2*ci))
      /\ Shared(ceq_temp', Xor(EqualBlocks(v, u, ci, 2*w), Cmp!ShiftRight({2*ci} \cap V, ci)))
  BY <1>1, <1>2, <1>3, <1>4, Collected
<1>6. Shared(ceq_temp', EqualBlocks(v, u, ci + 1, 2*w))
  <2>1. Xor(EqualBlocks(v, u, ci, 2*w), Cmp!ShiftRight({2*ci} \cap V, ci)) = EqualBlocks(v, u, ci + 1, 2*w)
    BY <1>2, <1>3, CollectEqual
  <2> QED BY <1>5, <2>1
<1>7. cpassed'
  BY <1>1, <1>2, <1>5, CheckedProduct
<1>8. ct' = ct /\ cx' = cx /\ Compared' /\ v \in Word /\ u \in Word
  BY <1>7, StillCompared DEF Cmp!AndStep, v, u
<1>9. v' = v /\ u' = u
  BY <1>8 DEF v, u
<1>10. CASE ci + 1 < csize \div 2 /\ cpc' = "g" /\ ci' = ci + 1 /\ csize' = csize
  <2>1. w' = w
    BY <1>10 DEF w
  <2>2. ci' \in Nat /\ 2*ci' + 2 <= csize
    BY <1>2, <1>3, <1>10
  <2>3. Blocks'
    BY <1>1, <1>2, <1>6, <1>8, <1>9, <1>10, <2>1 DEF Blocks, v, u, w, V, Good
  <2>4. Sizes'
    BY <1>2, <1>10, <2>2 DEF CmpInv, Sizes
  <2> QED BY <1>8, <2>3, <2>4 DEF CmpInv
<1>11. CASE /\ ci + 1 = csize \div 2 /\ csize > 2 /\ cpc' = "eq"
            /\ cgt' = cgt_temp /\ ceq' = ceq_temp' /\ csize' = csize \div 2
  <2>1. csize' \in 2..Width /\ Width % csize' = 0 /\ Width \div csize' = 2*w
    BY <1>2, <1>11, HalfSize DEF w
  <2>2. Shared(cgt', AboveBlocks(v, u, csize', 2*w)) /\ Shared(ceq', EqualBlocks(v, u, csize', 2*w))
    BY <1>2, <1>6, <1>11
  <2>3. Blocks'
    BY <1>8, <1>9, <1>11, <2>1, <2>2 DEF Blocks, v, u
  <2>4. Sizes'
    BY <1>11, <2>1 DEF Sizes
  <2> QED BY <1>8, <2>3, <2>4 DEF CmpInv
<1>12. CASE /\ ci + 1 = csize \div 2 /\ csize = 2 /\ cpc' = "return" /\ csize' = csize
            /\ cret' = Cmp!LowBit(cgt_temp)
  <2>1. 2*w = Width /\ ci + 1 = 1
    BY <1>2, <1>3, <1>12, HalfSize DEF w
  <2>2. Shared(cret', AboveBlocks(v, u, 1, Width) \cap {0})
    BY <1>2, <1>12, <2>1, SharedLowBit
  <2>3. Shared(cret', IF BlockAbove(v, u, 0, Width) THEN {0} ELSE {})
    BY <1>8, <2>2, WholeWord
  <2>4. \A p \in Party : cret'[p][0] \subseteq {0}
    <3> TAKE p \in Party
    <3>1. cgt_temp[p] \in Pair
      BY <1>2, SharedParts
    <3>2. cgt_temp[p][0] \cap {0} \in Word /\ cgt_temp[p][1] \cap {0} \in Word
      BY <3>1 DEF Pair, Word
    <3>3. cret'[p] = MkPair(cgt_temp[p][0] \cap {0}, cgt_temp[p][1] \cap {0})
      BY <1>12 DEF Cmp!LowBit, Cmp!MkPair, MkPair, Cmp!Party, Party
    <3> QED BY <3>2, <3>3, PairParts
  <2>5. Blocks'
    BY <1>8, <1>9, <1>12, <2>3, <2>4 DEF Blocks, v, u
  <2>6. Sizes'
    BY <1>2, <1>12 DEF Sizes
  <2> QED BY <1>8, <2>5, <2>6 DEF CmpInv
<1> QED BY <1>10, <1>11, <1>12 DEF Cmp!AndE

-------------------------------------------------------------------------------
(* What compare_threshold returns is what TravelTree takes for granted. *)

LEMMA Representation ==
    ASSUME NEW x, Good(x), \A p \in Party : x[p][0] \subseteq {0}
    PROVE  \E c \in [Party -> SUBSET {0}] : x = SharingOf(c)
<1> DEFINE c == [p \in Party |-> x[p][0]]
<1>1. c \in [Party -> SUBSET {0}]
  OBVIOUS
<1>2. \A p \in Party : c[p] = x[p][0] /\ c[PrevOf(p)] = x[PrevOf(p)][0]
  BY Ring
<1> HIDE DEF c
<1>3. ASSUME NEW p \in Party PROVE SharingOf(c)[p] = x[p]
  <2>1. SharingOf(c)[p] = MkPair(x[p][0], x[PrevOf(p)][0])
    BY <1>2 DEF SharingOf
  <2>2. x[p][1] = x[PrevOf(p)][0] /\ x[p] \in Pair
    BY DEF Good, Sharing, Replicated
  <2>3. x[p] = [k \in 0..1 |-> x[p][k]]
    BY <2>2 DEF Pair
  <2>4. MkPair(x[p][0], x[p][1]) = [k \in 0..1 |-> x[p][k]]
    <3> DEFINE q == x[p]
    <3>1. q[0] = x[p][0] /\ q[1] = x[p][1]
      OBVIOUS
    <3> HIDE DEF q
    <3>2. \A k \in 0..1 : k = 0 \/ k = 1
      OBVIOUS
    <3>3. [k \in 0..1 |-> q[k]] = MkPair(q[0], q[1])
      BY <3>2 DEF MkPair
    <3> QED BY <3>3 DEF q
  <2> QED BY <2>1, <2>2, <2>3, <2>4
<1>4. SharingOf(c) = [p \in Party |-> SharingOf(c)[p]] /\ x = [p \in Party |-> x[p]]
  BY DEF SharingOf, Good, Sharing
<1>5. SharingOf(c) = x
  BY <1>3, <1>4, Zenon
<1> QED BY <1>1, <1>5

LEMMA ReturnImplements == WalkInv /\ CmpInv /\ Return => Compare
<1> SUFFICES ASSUME WalkInv, CmpInv, Return PROVE Compare
  OBVIOUS
<1>1. /\ cpc = "return" /\ pc = "compare" /\ pc' = "child" /\ ssb' = cret
      /\ UNCHANGED <<shared, i, cur_node, ssY, ssNextNodeIdx, sums, rec, at, passed>>
  BY DEF Return, Cmp!Finish
<1> DEFINE v == ValueOf(ct)
           u == ValueOf(cx)
<1>2. cx = ssY /\ ct = cur_node["threshold"] /\ Good(cx) /\ Good(ct)
  BY <1>1 DEF CmpInv, Compared
<1>3. v \in Word /\ u \in Word
  <2>1. Shared(cx, u) /\ Shared(ct, v)
    BY <1>2 DEF Good, Shared
  <2> QED BY <2>1, SharedParts
<1>4. /\ Shared(cret, IF BlockAbove(v, u, 0, Width) THEN {0} ELSE {})
      /\ \A p \in Party : cret[p][0] \subseteq {0}
  BY <1>1 DEF CmpInv, Blocks
<1> HIDE DEF v, u
<1>5. ValueOf(cret) = IF Above(v, u) THEN {0} ELSE {}
  BY <1>3, <1>4, WholeWord DEF Shared
<1>6. PICK c \in [Party -> SUBSET {0}] : cret = SharingOf(c)
  BY <1>4, Representation DEF Good, Shared
<1>7. /\ ssb' = SharingOf(c)
      /\ ValueOf(ssb') = IF Above(ValueOf(cur_node["threshold"]), ValueOf(ssY)) THEN {0} ELSE {}
  BY <1>1, <1>2, <1>5, <1>6 DEF v, u
<1> QED BY <1>1, <1>7 DEF Compare

\* Every step is one of TravelTree, or one that TravelTree does not see.
LEMMA StepImplements == WalkInv /\ CmpInv /\ [WalkNext]_<<vars, comparison>> => [Next]_vars
<1> SUFFICES ASSUME WalkInv, CmpInv, [WalkNext]_<<vars, comparison>> PROVE [Next]_vars
  OBVIOUS
<1>1. CASE Call
  BY <1>1 DEF Call
<1>2. CASE Multiplication
  BY <1>2 DEF Multiplication
<1>3. CASE Return
  BY <1>3, ReturnImplements DEF Next
<1>4. CASE Around
  BY <1>4 DEF Around, Next
<1>5. CASE UNCHANGED <<vars, comparison>>
  BY <1>5
<1> QED BY <1>1, <1>2, <1>3, <1>4, <1>5 DEF WalkNext

LEMMA StepCompared == WalkInv /\ CmpInv /\ [WalkNext]_<<vars, comparison>> => CmpInv'
<1> SUFFICES ASSUME WalkInv, CmpInv, [WalkNext]_<<vars, comparison>> PROVE CmpInv'
  OBVIOUS
<1>1. CASE Call
  BY <1>1, CallCompared
<1>2. CASE Multiplication
  BY <1>2, AndGtCompared, AndTestCompared, AndEqCompared, AndShiftCompared, AndGCompared, AndECompared
     DEF Multiplication, Cmp!AndStep
<1>3. CASE Return
  BY <1>3, ReturnCompared
<1>4. CASE Around
  <2>1. pc # "compare" /\ UNCHANGED comparison
    BY <1>4 DEF Around, SelectFeature, getChildNodeIndex, SelectNode, MacCheck
  <2> QED BY <2>1, AroundCompared
<1>5. CASE UNCHANGED <<vars, comparison>>
  <2>1. UNCHANGED vars /\ UNCHANGED comparison
    BY <1>5
  <2>2. Sizes' /\ Compared'
    BY <2>1 DEF CmpInv, Sizes, Compared, Good, vars, comparison
  <2>3. Blocks'
    BY <2>1 DEF CmpInv, Blocks, Good, Shared, AboveBlocks, EqualBlocks, AboveAtEven, EqualAtEven,
       BlockAbove, BlockEqual, vars, comparison
  <2> QED BY <2>2, <2>3 DEF CmpInv
<1> QED BY <1>1, <1>2, <1>3, <1>4, <1>5 DEF WalkNext

LEMMA WalkInvariants == WalkSpec => [](WalkInv /\ CmpInv)
<1>1. WalkInit => WalkInv /\ CmpInv
  BY InitWalk, InitCompared DEF WalkInit
<1>2. WalkInv /\ CmpInv /\ [WalkNext]_<<vars, comparison>> => (WalkInv /\ CmpInv)'
  BY StepImplements, StepCompared, NextWalk
<1> QED BY <1>1, <1>2, PTL DEF WalkSpec

-------------------------------------------------------------------------------
(* The triples. *)

TakenUpTo(f, n) ==
    /\ f \in [0..n -> Nat]
    /\ \A w \in 0..n : f[w] = IF w < 2 THEN 2 ELSE w + 2 + f[w \div 2]

LEMMA HalfBelow ==
    ASSUME NEW w \in Nat, w >= 2
    PROVE  w \div 2 \in Nat /\ w \div 2 < w
<1>1. w \div 2 \in Nat /\ w = 2 * (w \div 2) + (w % 2) /\ w % 2 \in 0..1
  BY DivDef
<1> QED BY <1>1

LEMMA TakenExists == ASSUME NEW n \in Nat PROVE \E f : TakenUpTo(f, n)
<1> DEFINE S == {m \in 0..n : \E f : TakenUpTo(f, m)}
<1>1. 0 \in S
  <2> DEFINE f == [w \in 0..0 |-> 2]
  <2>1. f \in [0..0 -> Nat]
    OBVIOUS
  <2>2. \A w \in 0..0 : w < 2 /\ f[w] = 2
    OBVIOUS
  <2> HIDE DEF f
  <2>3. TakenUpTo(f, 0)
    BY <2>1, <2>2 DEF TakenUpTo
  <2> QED BY <2>3
<1>2. ASSUME NEW m \in 0..(n - 1), m \in S PROVE m + 1 \in S
  <2>1. PICK f : TakenUpTo(f, m)
    BY <1>2
  <2>2. f \in [0..m -> Nat] /\ m \in Nat /\ m + 1 \in 0..n
    BY <2>1 DEF TakenUpTo
  <2> DEFINE top == IF m + 1 < 2 THEN 2 ELSE (m + 1) + 2 + f[(m + 1) \div 2]
             g == [w \in 0..(m + 1) |-> IF w <= m THEN f[w] ELSE top]
  <2>3. \A w \in 0..(m + 1) : w >= 2 => w \div 2 \in 0..m
    <3> TAKE w \in 0..(m + 1)
    <3> HAVE w >= 2
    <3>1. w \in Nat /\ w <= m + 1
      BY <2>2
    <3>2. w \div 2 \in Nat /\ w \div 2 < w
      BY <3>1, HalfBelow
    <3> QED BY <2>2, <3>1, <3>2
  <2>4. top \in Nat
    <3>1. CASE m + 1 < 2
      BY <3>1
    <3>2. CASE ~(m + 1 < 2)
      <4>1. (m + 1) \div 2 \in 0..m
        BY <2>2, <2>3, <3>2
      <4>2. f[(m + 1) \div 2] \in Nat
        BY <2>2, <4>1
      <4> QED BY <2>2, <3>2, <4>2
    <3> QED BY <3>1, <3>2
  <2>5. \A w \in 0..m : g[w] = f[w] /\ f[w] \in Nat
    BY <2>2
  <2>6. g[m + 1] = top
    BY <2>2
  <2>7. g \in [0..(m + 1) -> Nat]
    <3> HIDE DEF top
    <3> QED BY <2>2, <2>4
  <2> HIDE DEF g
  <2>8. ASSUME NEW w \in 0..(m + 1)
        PROVE  g[w] = IF w < 2 THEN 2 ELSE w + 2 + g[w \div 2]
    <3>1. CASE w \in 0..m
      <4>1. g[w] = IF w < 2 THEN 2 ELSE w + 2 + f[w \div 2]
        BY <2>1, <2>5, <3>1 DEF TakenUpTo
      <4>2. w >= 2 => g[w \div 2] = f[w \div 2]
        BY <2>3, <2>5
      <4> QED BY <2>2, <4>1, <4>2
    <3>2. CASE w = m + 1
      <4>1. w >= 2 => g[w \div 2] = f[w \div 2]
        BY <2>3, <2>5
      <4> QED BY <2>2, <2>6, <3>2, <4>1
    <3> QED BY <2>2, <3>1, <3>2
  <2>9. TakenUpTo(g, m + 1)
    BY <2>7, <2>8 DEF TakenUpTo
  <2> QED BY <2>2, <2>9
<1> HIDE DEF S
<1>3. n \in S
  <2>1. \A m \in 0..n : m \in S
    BY <1>1, <1>2, CountUpTo
  <2> QED BY <2>1
<1> QED BY <1>3 DEF S

LEMMA TakenUnique ==
    ASSUME NEW m \in Nat, NEW n \in Nat, NEW f, NEW g, TakenUpTo(f, m), TakenUpTo(g, n),
           NEW w \in Nat, w <= m, w <= n
    PROVE  f[w] = g[w]
<1> DEFINE T == {k \in 0..w : f[k] # g[k]}
<1> SUFFICES ASSUME T # {} PROVE FALSE
  OBVIOUS
<1>1. T \subseteq Nat
  OBVIOUS
<1>2. PICK k \in T : \A j \in T : k <= j
  BY <1>1, LeastElement
<1>3. k \in Nat /\ k <= w /\ f[k] # g[k] /\ k \in 0..m /\ k \in 0..n
  BY <1>2
<1>4. /\ f[k] = IF k < 2 THEN 2 ELSE k + 2 + f[k \div 2]
      /\ g[k] = IF k < 2 THEN 2 ELSE k + 2 + g[k \div 2]
  BY <1>3 DEF TakenUpTo
<1>5. k >= 2
  BY <1>3, <1>4
<1>6. k \div 2 \in Nat /\ k \div 2 < k
  BY <1>3, <1>5, HalfBelow
<1>7. f[k \div 2] = g[k \div 2]
  BY <1>2, <1>3, <1>6
<1> QED BY <1>3, <1>4, <1>7

\* The recursion defines a function.
LEMMA TriplesTakenValue ==
    /\ TriplesTaken = [w \in Nat |-> IF w < 2 THEN 2 ELSE w + 2 + TriplesTaken[w \div 2]]
    /\ TriplesTaken \in [Nat -> Nat]
<1> DEFINE part(w) == CHOOSE f : TakenUpTo(f, w)
           F == [w \in Nat |-> part(w)[w]]
<1>1. \A w \in Nat : TakenUpTo(part(w), w)
  BY TakenExists
<1> HIDE DEF part
<1>2. ASSUME NEW w \in Nat PROVE F[w] = IF w < 2 THEN 2 ELSE w + 2 + F[w \div 2]
  <2>1. part(w)[w] = IF w < 2 THEN 2 ELSE w + 2 + part(w)[w \div 2]
    BY <1>1 DEF TakenUpTo
  <2>2. ASSUME w >= 2 PROVE w \div 2 \in Nat /\ part(w)[w \div 2] = part(w \div 2)[w \div 2]
    <3>1. w \div 2 \in Nat /\ w \div 2 <= w
      BY <2>2, HalfBelow
    <3>2. TakenUpTo(part(w), w) /\ TakenUpTo(part(w \div 2), w \div 2)
      BY <1>1, <3>1
    <3> QED BY <3>1, <3>2, TakenUnique
  <2>3. CASE w < 2
    BY <2>1, <2>3
  <2>4. CASE w >= 2
    <3>1. F[w] = part(w)[w] /\ F[w \div 2] = part(w \div 2)[w \div 2]
      BY <2>2, <2>4
    <3> HIDE DEF F
    <3> QED BY <2>1, <2>2, <2>4, <3>1
  <2> QED BY <2>3, <2>4
<1>3. F = [w \in Nat |-> IF w < 2 THEN 2 ELSE w + 2 + F[w \div 2]]
  <2>1. F = [w \in Nat |-> F[w]]
    OBVIOUS
  <2> HIDE DEF F
  <2> QED BY <1>2, <2>1
<1> HIDE DEF F
<1>4. \E f : f = [w \in Nat |-> IF w < 2 THEN 2 ELSE w + 2 + f[w \div 2]]
  BY <1>3, Zenon
<1>5. TriplesTaken = [w \in Nat |-> IF w < 2 THEN 2 ELSE w + 2 + TriplesTaken[w \div 2]]
  BY <1>4, Zenon DEF TriplesTaken
<1>6. \A w \in Nat : TriplesTaken[w] = IF w < 2 THEN 2 ELSE w + 2 + TriplesTaken[w \div 2]
  BY <1>5, Zenon
<1> DEFINE T == {w \in Nat : TriplesTaken[w] \notin Nat}
<1>7. T = {}
  <2> SUFFICES ASSUME T # {} PROVE FALSE
    OBVIOUS
  <2>1. T \subseteq Nat
    OBVIOUS
  <2>2. PICK w \in T : \A k \in T : w <= k
    BY <2>1, LeastElement
  <2>3. w \in Nat /\ TriplesTaken[w] \notin Nat
    BY <2>2
  <2>4. w >= 2
    BY <1>6, <2>3
  <2>5. w \div 2 \in Nat /\ w \div 2 < w
    BY <2>3, <2>4, HalfBelow
  <2>6. TriplesTaken[w \div 2] \in Nat
    BY <2>2, <2>3, <2>5
  <2>7. TriplesTaken[w] = w + 2 + TriplesTaken[w \div 2]
    BY <1>6, <2>3, <2>4
  <2> QED BY <2>3, <2>6, <2>7
<1>8. TriplesTaken \in [Nat -> Nat]
  <2>1. TriplesTaken = [w \in Nat |-> TriplesTaken[w]]
    BY <1>5, <1>6, Zenon
  <2>2. \A w \in Nat : TriplesTaken[w] \in Nat
    BY <1>7
  <2> QED BY <2>1, <2>2
<1> QED BY <1>5, <1>8

LEMMA TriplesOfSize ==
    ASSUME NEW s \in 2..Width
    PROVE  /\ TriplesTaken[s] \in Nat /\ TriplesTaken[s \div 2] \in Nat
           /\ TriplesTaken[s] = s + 2 + TriplesTaken[s \div 2]
           /\ TriplesTaken[s] >= s + 4
           /\ s = 2 => TriplesTaken[s] = 6
<1>1. s \in Nat /\ s >= 2
  BY Widths
<1>2. s \div 2 \in Nat
  BY <1>1, HalfBelow
<1>3. \A w \in Nat : /\ TriplesTaken[w] \in Nat
                     /\ TriplesTaken[w] = IF w < 2 THEN 2 ELSE w + 2 + TriplesTaken[w \div 2]
  BY TriplesTakenValue
<1>4. TriplesTaken[s] = s + 2 + TriplesTaken[s \div 2] /\ TriplesTaken[s] \in Nat /\ TriplesTaken[s \div 2] \in Nat
  BY <1>1, <1>2, <1>3
<1>5. TriplesTaken[s \div 2] >= 2
  <2> DEFINE h == s \div 2
  <2>1. h \in Nat
    BY <1>2
  <2> HIDE DEF h
  <2>2. TriplesTaken[h] >= 2
    <3>1. CASE h < 2
      BY <1>3, <2>1, <3>1
    <3>2. CASE h >= 2
      <4>1. h \div 2 \in Nat
        BY <2>1, <3>2, HalfBelow
      <4>2. TriplesTaken[h] = h + 2 + TriplesTaken[h \div 2] /\ TriplesTaken[h \div 2] \in Nat
        BY <1>3, <2>1, <3>2, <4>1
      <4> QED BY <2>1, <3>2, <4>2
    <3> QED BY <2>1, <3>1, <3>2
  <2> QED BY <2>2 DEF h
<1>6. s = 2 => s \div 2 = 1 /\ TriplesTaken[1] = 2
  BY <1>3
<1> QED BY <1>1, <1>4, <1>5, <1>6

LEMMA LayerTriples ==
    /\ Stride \in Nat /\ Stride >= 2 /\ TriplesTaken[Width] \in Nat /\ TriplesTaken[Width] <= Stride
    /\ \A n \in Nat : Stride * n \in Nat /\ Stride * (n + 1) = Stride * n + Stride
    /\ \A n \in Nat, m \in Nat : n <= m => Stride * n <= Stride * m
<1>1. Stride \in Nat /\ TriplesTaken[Width] <= Stride
  BY StrideAssumption
<1>2. TriplesTaken[Width] \in Nat /\ TriplesTaken[Width] >= Width + 4
  BY Widths, TriplesOfSize
<1>3. Stride >= 2
  BY <1>1, <1>2, Widths
<1>4. \A n \in Nat : Stride * n \in Nat /\ Stride * (n + 1) = Stride * n + Stride
  BY <1>1
<1>5. ASSUME NEW n \in Nat, NEW m \in Nat, n <= m PROVE Stride * n <= Stride * m
  <2>1. PICK d \in Nat : m = n + d
    <3>1. m - n \in Nat /\ m = n + (m - n)
      BY <1>5
    <3> QED BY <3>1
  <2>2. Stride * m = Stride * n + Stride * d /\ Stride * d \in Nat /\ Stride * n \in Nat
    BY <1>1, <2>1
  <2> QED BY <2>2
<1> QED BY <1>1, <1>2, <1>3, <1>4, <1>5

\* The next triple is in the part of the current layer.
LEMMA NextInLayer ==
    ASSUME Sizes, Compared, Taken
    PROVE  /\ NextTriple \in Nat
           /\ NextTriple <= Stride * Depth
           /\ cpc # "idle" => NextTriple <= Stride * (i + 1) /\ Stride * i \in Nat
<1> DEFINE b == Stride * i
<1>1. i \in Nat /\ Depth \in Nat /\ i <= Depth /\ b \in Nat /\ Stride * (i + 1) = b + Stride
  BY DepthAssumption, LayerTriples DEF Taken
<1>2. b <= Stride * Depth /\ (i < Depth => b + Stride <= Stride * Depth)
  <2>1. i < Depth => i + 1 <= Depth /\ i + 1 \in Nat
    BY <1>1
  <2> QED BY <1>1, <2>1, LayerTriples
<1>3. Stride * Depth \in Nat /\ Stride \in Nat /\ Stride >= 2
  BY <1>1, LayerTriples
<1>4. ASSUME cpc # "idle" PROVE i < Depth
  BY <1>4 DEF Compared, Taken
<1>5. ASSUME cpc # "idle"
      PROVE  /\ cincr \in Nat /\ csize \in Nat
             /\ cincr + csize + 4 <= Stride
  <2>1. csize \in 2..Width
    BY DEF Sizes
  <2>2. TriplesTaken[csize] \in Nat /\ TriplesTaken[csize] >= csize + 4 /\ csize \in Nat
    BY <2>1, TriplesOfSize, Widths
  <2>3. cincr \in Nat /\ cincr + TriplesTaken[csize] = TriplesTaken[Width]
    BY <1>5 DEF Taken
  <2> QED BY <2>2, <2>3, LayerTriples
<1> HIDE DEF b
<1>6. CASE cpc = "idle"
  <2>1. NextTriple = Stride * (IF pc \in {"child", "node"} THEN i + 1 ELSE i)
    BY <1>6 DEF NextTriple
  <2>2. CASE pc \in {"child", "node"}
    <3>1. i < Depth
      BY <2>2 DEF Taken
    <3>2. NextTriple = b + Stride
      BY <1>1, <2>1, <2>2
    <3> QED BY <1>1, <1>2, <1>3, <1>6, <3>1, <3>2
  <2>3. CASE pc \notin {"child", "node"}
    <3>1. NextTriple = b
      BY <2>1, <2>3 DEF b
    <3> QED BY <1>1, <1>2, <1>6, <3>1
  <2> QED BY <2>2, <2>3
<1>7. CASE cpc # "idle"
  <2>1. NextTriple \in Nat /\ NextTriple <= b + Stride
    <3>1. CASE cpc = "gt"
      <4>1. NextTriple = b
        BY <3>1 DEF NextTriple, b
      <4> QED BY <1>1, <1>3, <4>1
    <3>2. CASE cpc = "test"
      <4>1. NextTriple = b + 1
        BY <3>2 DEF NextTriple, b
      <4> QED BY <1>1, <1>3, <4>1
    <3>3. CASE cpc = "eq"
      <4>1. NextTriple = b + cincr + 2
        BY <3>3 DEF NextTriple, b
      <4> QED BY <1>1, <1>3, <1>5, <1>7, <4>1
    <3>4. CASE cpc = "shift"
      <4>1. NextTriple = b + cincr + 3
        BY <3>4 DEF NextTriple, b
      <4> QED BY <1>1, <1>3, <1>5, <1>7, <4>1
    <3>5. CASE cpc = "g"
      <4>1. NextTriple = b + cincr + 4 + 2*ci /\ ci \in Nat /\ 2*ci + 2 <= csize
        BY <3>5 DEF NextTriple, b, Sizes
      <4> QED BY <1>1, <1>3, <1>5, <1>7, <4>1
    <3>6. CASE cpc = "e"
      <4>1. NextTriple = b + cincr + 5 + 2*ci /\ ci \in Nat /\ 2*ci + 2 <= csize
        BY <3>6 DEF NextTriple, b, Sizes
      <4> QED BY <1>1, <1>3, <1>5, <1>7, <4>1
    <3>7. CASE cpc = "return"
      <4>1. NextTriple = b + Stride
        BY <1>1, <3>7 DEF NextTriple
      <4> QED BY <1>1, <1>3, <4>1
    <3> QED BY <1>7, <3>1, <3>2, <3>3, <3>4, <3>5, <3>6, <3>7 DEF Sizes
  <2> QED BY <1>1, <1>2, <1>3, <1>4, <1>7, <2>1 DEF b
<1> QED BY <1>6, <1>7

\* A product takes the next triple, and the one after it is above.
LEMMA TakeNext ==
    ASSUME Sizes, Compared, Taken,
           cused' = cused \cup {NextTriple}, cands' = cands + 1,
           NEW n \in Nat, NextTriple < n
    PROVE  /\ IsFiniteSet(cused') /\ cands' = Cardinality(cused')
           /\ \A k \in cused' : k \in Nat /\ k < n
<1>1. NextTriple \in Nat
  BY NextInLayer
<1>2. /\ IsFiniteSet(cused) /\ cands = Cardinality(cused)
      /\ \A k \in cused : k \in Nat /\ k < NextTriple
  BY DEF Taken
<1>3. NextTriple \notin cused
  BY <1>1, <1>2
<1>4. IsFiniteSet(cused \cup {NextTriple})
      /\ Cardinality(cused \cup {NextTriple}) = Cardinality(cused) + 1
  BY <1>2, <1>3, FS_AddElement
<1>5. \A k \in cused \cup {NextTriple} : k \in Nat /\ k < n
  BY <1>1, <1>2
<1> QED BY <1>2, <1>4, <1>5

LEMMA InitTaken == WalkInit => Taken
<1> SUFFICES ASSUME WalkInit PROVE Taken
  OBVIOUS
<1>1. i = 0 /\ pc = "feature" /\ cpc = "idle" /\ cused = {} /\ cands = 0
  BY DEF WalkInit, Init, Cmp!Init
<1>2. 0 \in 0..Depth /\ 0 < Depth
  BY DepthAssumption
<1>3. IsFiniteSet({}) /\ Cardinality({}) = 0
  BY FS_EmptySet
<1> QED BY <1>1, <1>2, <1>3 DEF Taken

LEMMA CallTaken == Taken /\ Call => Taken'
<1> SUFFICES ASSUME Taken, Call PROVE Taken'
  OBVIOUS
<1>1. /\ pc = "compare" /\ cpc = "idle" /\ cpc' = "gt" /\ pc' = pc /\ i' = i
      /\ cincr' = 0 /\ csize' = Width /\ cused' = cused /\ cands' = cands
  BY DEF Call, StartComparison, Cmp!Start, vars
<1>2. NextTriple = Stride * i /\ NextTriple' = Stride * i
  BY <1>1 DEF NextTriple
<1>3. TriplesTaken[Width] \in Nat
  BY LayerTriples
<1>4. 0 \in Nat /\ 0 + TriplesTaken[Width] = TriplesTaken[Width]
  BY <1>3
<1> QED BY <1>1, <1>2, <1>4 DEF Taken

LEMMA QuietTaken ==
    ASSUME Taken, UNCHANGED <<cused, cands>>,
           cpc' # "idle" => cpc' = cpc /\ cincr' = cincr /\ csize' = csize,
           NextTriple' = NextTriple,
           i' \in 0..Depth, pc' \in {"feature", "compare", "child", "node"} => i' < Depth
    PROVE  Taken'
BY DEF Taken

LEMMA AroundTaken == CmpInv /\ Taken /\ Around => Taken'
<1> SUFFICES ASSUME CmpInv, Taken, Around PROVE Taken'
  OBVIOUS
<1>1. UNCHANGED <<cused, cands, cpc, cincr, csize, ci>>
  BY DEF Around, comparison
<1>2. pc # "compare"
  BY DEF Around, SelectFeature, getChildNodeIndex, SelectNode, MacCheck
<1>3. cpc = "idle" /\ cpc' = "idle"
  BY <1>1, <1>2 DEF CmpInv, Compared
<1>4. /\ NextTriple = Stride * (IF pc \in {"child", "node"} THEN i + 1 ELSE i)
      /\ NextTriple' = Stride * (IF pc' \in {"child", "node"} THEN i' + 1 ELSE i')
  BY <1>3 DEF NextTriple
<1>5. i \in 0..Depth /\ (pc \in {"feature", "compare", "child", "node"} => i < Depth) /\ Depth \in Nat
  BY DepthAssumption DEF Taken
<1>6. CASE SelectFeature
  <2>1. pc = "feature" /\ pc' = "compare" /\ i' = i
    BY <1>6 DEF SelectFeature
  <2> QED BY <1>1, <1>3, <1>4, <1>5, <2>1, QuietTaken
<1>7. CASE getChildNodeIndex
  <2>1. pc = "child" /\ pc' = "node" /\ i' = i
    BY <1>7 DEF getChildNodeIndex
  <2> QED BY <1>1, <1>3, <1>4, <1>5, <2>1, QuietTaken
<1>8. CASE SelectNode
  <2>1. pc = "node" /\ pc' = (IF i + 1 < Depth THEN "feature" ELSE "check") /\ i' = i + 1
    BY <1>8 DEF SelectNode, NextCall
  <2>2. i' \in 0..Depth /\ (pc' = "feature" => i' < Depth) /\ pc' \in {"feature", "check"}
    BY <1>5, <2>1
  <2>3. NextTriple' = NextTriple
    BY <1>4, <2>1, <2>2
  <2>4. pc' \in {"feature", "compare", "child", "node"} => i' < Depth
    BY <2>2
  <2> QED BY <1>1, <1>3, <2>2, <2>3, <2>4, QuietTaken
<1>9. CASE MacCheck
  <2>1. pc = "check" /\ pc' = "return" /\ i' = i
    BY <1>9 DEF MacCheck
  <2> QED BY <1>1, <1>3, <1>4, <1>5, <2>1, QuietTaken
<1> QED BY <1>6, <1>7, <1>8, <1>9 DEF Around

LEMMA ReturnTaken == Taken /\ Return => Taken'
<1> SUFFICES ASSUME Taken, Return PROVE Taken'
  OBVIOUS
<1>1. /\ cpc = "return" /\ cpc' = "idle" /\ pc = "compare" /\ pc' = "child" /\ i' = i
      /\ cused' = cused /\ cands' = cands
  BY DEF Return, Cmp!Finish
<1>2. NextTriple = Stride * (i + 1) /\ NextTriple' = Stride * (i + 1)
  BY <1>1 DEF NextTriple
<1>3. i' \in 0..Depth /\ i' < Depth
  BY <1>1 DEF Taken
<1> QED BY <1>1, <1>2, <1>3, QuietTaken

LEMMA MultiplicationTaken == CmpInv /\ Taken /\ Multiplication => Taken'
<1> SUFFICES ASSUME CmpInv, Taken, Multiplication PROVE Taken'
  OBVIOUS
<1> DEFINE b == Stride * i
<1>1. Sizes /\ Compared
  BY DEF CmpInv
<1>2. cpc # "idle" /\ pc' = pc /\ i' = i
  BY DEF Multiplication, vars, Cmp!AndStep, Cmp!AndGt, Cmp!AndTest, Cmp!AndEq, Cmp!AndShift, Cmp!AndG, Cmp!AndE
<1>3. b \in Nat /\ b' = b /\ Cmp!Base = b /\ Cmp!Se = b + cincr
  BY <1>1, <1>2, NextInLayer DEF Compared, Cmp!Base, Cmp!Se
<1>4. /\ i \in 0..Depth /\ (pc \in {"feature", "compare", "child", "node"} => i < Depth)
      /\ cincr \in Nat /\ cincr + TriplesTaken[csize] = TriplesTaken[Width]
      /\ (cpc \in {"gt", "test"} => cincr = 0)
  BY <1>2 DEF Taken
<1>5. csize \in 2..Width /\ csize \in Nat /\ csize >= 2 /\ (cpc \in {"gt", "test"} => csize = Width)
  BY <1>1, Widths DEF Sizes
<1>6. i' \in 0..Depth /\ (pc' \in {"feature", "compare", "child", "node"} => i' < Depth)
  BY <1>2, <1>4
<1> HIDE DEF b
<1>7. ASSUME cused' = cused \cup {NextTriple}, cands' = cands + 1,
             NextTriple' \in Nat, NextTriple < NextTriple'
      PROVE  /\ IsFiniteSet(cused') /\ cands' = Cardinality(cused')
             /\ \A k \in cused' : k \in Nat /\ k < NextTriple'
  BY <1>1, <1>7, TakeNext
<1>8. ASSUME cused' = cused \cup {NextTriple}, cands' = cands + 1,
             NextTriple' \in Nat, NextTriple < NextTriple',
             cincr' \in Nat, cincr' + TriplesTaken[csize'] = TriplesTaken[Width],
             cpc' \in {"gt", "test"} => cincr' = 0
      PROVE  Taken'
  BY <1>6, <1>7, <1>8 DEF Taken
<1>9. CASE Cmp!AndGt
  <2>1. /\ cpc = "gt" /\ cpc' = "test" /\ csize' = csize /\ cincr' = cincr
        /\ cused' = cused \cup {Cmp!Base} /\ cands' = cands + 1
    BY <1>9 DEF Cmp!AndGt, Cmp!Multiply
  <2>2. NextTriple = b /\ NextTriple' = b + 1
    BY <1>2, <2>1 DEF NextTriple, b
  <2> QED BY <1>3, <1>4, <1>8, <2>1, <2>2
<1>10. CASE Cmp!AndTest
  <2>1. /\ cpc = "test" /\ cpc' = "eq" /\ csize' = csize /\ cincr' = cincr
        /\ cused' = cused \cup {Cmp!Base + 1} /\ cands' = cands + 1
    BY <1>10 DEF Cmp!AndTest, Cmp!Multiply
  <2>2. NextTriple = b + 1 /\ NextTriple' = b + cincr + 2
    BY <1>2, <2>1 DEF NextTriple, b
  <2> QED BY <1>3, <1>4, <1>8, <2>1, <2>2
<1>11. CASE Cmp!AndEq
  <2>1. /\ cpc = "eq" /\ cpc' = "shift" /\ csize' = csize /\ cincr' = cincr
        /\ cused' = cused \cup {Cmp!Se + 2} /\ cands' = cands + 1
    BY <1>11 DEF Cmp!AndEq, Cmp!Multiply
  <2>2. NextTriple = b + cincr + 2 /\ NextTriple' = b + cincr + 3
    BY <1>2, <2>1 DEF NextTriple, b
  <2> QED BY <1>3, <1>4, <1>8, <2>1, <2>2
<1>12. CASE Cmp!AndShift
  <2>1. /\ cpc = "shift" /\ cpc' = "g" /\ csize' = csize /\ cincr' = cincr /\ ci' = 0
        /\ cused' = cused \cup {Cmp!Se + 3} /\ cands' = cands + 1
    BY <1>12 DEF Cmp!AndShift, Cmp!Multiply
  <2>2. NextTriple = b + cincr + 3 /\ NextTriple' = b + cincr + 4 + 2*0
    BY <1>2, <2>1 DEF NextTriple, b
  <2> QED BY <1>3, <1>4, <1>8, <2>1, <2>2
<1>13. CASE Cmp!AndG
  <2>1. /\ cpc = "g" /\ cpc' = "e" /\ csize' = csize /\ cincr' = cincr /\ ci' = ci
        /\ cused' = cused \cup {Cmp!Se + 4 + 2*ci} /\ cands' = cands + 1
    BY <1>13 DEF Cmp!AndG, Cmp!Multiply
  <2>2. NextTriple = b + cincr + 4 + 2*ci /\ NextTriple' = b + cincr + 5 + 2*ci /\ ci \in Nat
    BY <1>1, <1>2, <2>1 DEF NextTriple, b, Sizes
  <2> QED BY <1>3, <1>4, <1>8, <2>1, <2>2
<1>14. CASE Cmp!AndE
  <2>1. /\ cpc = "e" /\ cused' = cused \cup {Cmp!Se + 5 + 2*ci} /\ cands' = cands + 1
    BY <1>14 DEF Cmp!AndE, Cmp!Multiply
  <2>2. /\ NextTriple = b + cincr + 5 + 2*ci /\ ci \in Nat /\ 2*ci + 2 <= csize
        /\ csize = 2 * (csize \div 2) /\ csize \div 2 \in Nat
    <3>1. NextTriple = b + cincr + 5 + 2*ci /\ ci \in Nat /\ 2*ci + 2 <= csize
      BY <1>1, <2>1 DEF NextTriple, b, Sizes
    <3>2. Width % csize = 0
      BY <1>1 DEF Sizes
    <3>3. csize = 2 * (csize \div 2) /\ csize \div 2 \in Nat
      BY <1>5, <3>2, HalfSize
    <3> QED BY <3>1, <3>3
  <2>3. /\ TriplesTaken[csize] = csize + 2 + TriplesTaken[csize \div 2]
        /\ TriplesTaken[csize \div 2] \in Nat /\ (csize = 2 => TriplesTaken[csize] = 6)
    BY <1>5, TriplesOfSize
  <2>4. CASE ci + 1 < csize \div 2 /\ cpc' = "g" /\ ci' = ci + 1 /\ csize' = csize /\ cincr' = cincr
    <3>1. NextTriple' = b + cincr + 4 + 2*(ci + 1)
      BY <1>2, <2>4 DEF NextTriple, b
    <3> QED BY <1>3, <1>4, <1>8, <2>1, <2>2, <2>4, <3>1
  <2>5. CASE /\ ci + 1 = csize \div 2 /\ cpc' = "eq"
             /\ csize' = csize \div 2 /\ cincr' = csize + 2 + cincr
    <3>1. NextTriple' = b + (csize + 2 + cincr) + 2
      BY <1>2, <2>5 DEF NextTriple, b
    <3>2. cincr' \in Nat /\ NextTriple < NextTriple' /\ NextTriple' \in Nat
      BY <1>3, <1>4, <1>5, <2>2, <2>5, <3>1
    <3>3. cincr' + TriplesTaken[csize'] = TriplesTaken[Width]
      BY <1>4, <1>5, <2>3, <2>5
    <3> QED BY <1>3, <1>4, <1>8, <2>1, <2>2, <2>5, <3>2, <3>3
  <2>6. CASE /\ ci + 1 = csize \div 2 /\ csize = 2 /\ cpc' = "return"
             /\ csize' = csize /\ cincr' = cincr
    <3>1. NextTriple' = b + Stride
      <4>1. i \in Nat /\ Stride * (i + 1) = Stride * i + Stride
        BY <1>4, LayerTriples, DepthAssumption
      <4> QED BY <1>2, <2>6, <4>1 DEF NextTriple, b
    <3>2. cincr + 6 <= Stride /\ Stride \in Nat
      BY <1>4, <2>3, <2>6, LayerTriples
    <3>3. 2*ci + 2 = 2
      BY <2>2, <2>6
    <3>4. NextTriple < NextTriple' /\ NextTriple' \in Nat
      BY <1>3, <1>4, <2>2, <3>1, <3>2, <3>3
    <3> QED BY <1>3, <1>4, <1>8, <2>1, <2>2, <2>6, <3>4
  <2> QED BY <1>14, <2>4, <2>5, <2>6 DEF Cmp!AndE
<1> QED BY <1>9, <1>10, <1>11, <1>12, <1>13, <1>14 DEF Multiplication, Cmp!AndStep

LEMMA StepTaken == WalkInv /\ CmpInv /\ Taken /\ [WalkNext]_<<vars, comparison>> => Taken'
<1>1. Taken /\ UNCHANGED <<vars, comparison>> => Taken'
  BY DEF Taken, NextTriple, vars, comparison
<1> QED BY <1>1, CallTaken, MultiplicationTaken, ReturnTaken, AroundTaken DEF WalkNext

LEMMA TakenInvariance == WalkSpec => []Taken
<1>1. WalkSpec => [](WalkInv /\ CmpInv)
  BY WalkInvariants
<1>2. WalkInit => Taken
  BY InitTaken
<1>3. WalkInv /\ CmpInv /\ Taken /\ [WalkNext]_<<vars, comparison>> => Taken'
  BY StepTaken
<1> QED BY <1>1, <1>2, <1>3, PTL DEF WalkSpec

-------------------------------------------------------------------------------
(* The theorems. *)

LEMMA WalkHolds == WalkInv => WalksPlainTree /\ SelectsInBounds
<1> SUFFICES ASSUME WalkInv PROVE WalksPlainTree /\ SelectsInBounds
  OBVIOUS
<1>1. \A x, v : Shared(x, v) => Holds(x, v)
  BY DEF Shared, Holds
<1>2. WalksPlainTree
  BY <1>1 DEF WalkInv, Walk, WalksPlainTree
<1>3. \A x, v : Shared(x, v) /\ v \in Row => InBounds(x)
  BY SelectionInBounds
<1>4. ASSUME pc = "feature" PROVE InBounds(cur_node["vIdx"])
  <2>1. Shared(cur_node["vIdx"], model[at]["vIdx"]) /\ model[at]["vIdx"] \in Row
    BY <1>4 DEF WalkInv, Walk, Tables, Col
  <2> QED BY <1>3, <2>1
<1>5. ASSUME pc = "node" PROVE InBounds(ssNextNodeIdx)
  <2>1. Shared(ssNextNodeIdx, at) /\ at \in Row
    BY <1>5 DEF WalkInv, Walk
  <2> QED BY <1>3, <2>1
<1> QED BY <1>2, <1>4, <1>5 DEF SelectsInBounds

\* Whatever sharing of the right outcome a comparison yields, travelTree's shared
\* node is layer after layer the one that a plain walk of the model comes to.
THEOREM WalkFollowsTree == Spec => []WalksPlainTree
BY WalkInvariance, WalkHolds, PTL

\* The words that a selection adds to a row number are shares, of full length,
\* and yet no selection of a walk reads beyond its table.
THEOREM SelectionsInTables == Spec => []SelectsInBounds
BY WalkInvariance, WalkHolds, PTL

\* compare_threshold, product by product, yields what TravelTree takes for granted:
\* a sharing of one bit, the outcome for the words that came out of the selections.
THEOREM ComparisonImplements == WalkSpec => ImplementsTravelTree
<1>1. WalkInit => Init
  BY DEF WalkInit
<1>2. WalkInv /\ CmpInv /\ [WalkNext]_<<vars, comparison>> => [Next]_vars
  BY StepImplements
<1> QED BY <1>1, <1>2, WalkInvariants, PTL DEF WalkSpec, Spec, ImplementsTravelTree

\* So the walk whose comparisons are computed follows the plain one as well, and
\* stays within its tables.
THEOREM SecureWalkFollowsTree == WalkSpec => [](WalksPlainTree /\ SelectsInBounds)
BY WalkInvariants, WalkHolds, PTL

\* At each level of compare_process's recursion bit j of gt and of eq tells how
\* block j of the threshold compares to that of the feature, for any word width.
THEOREM ComparisonByBlocks == WalkSpec => []BlocksCompared
<1>1. CmpInv => BlocksCompared
  <2> SUFFICES ASSUME CmpInv, cpc = "eq"
               PROVE  /\ Cmp!Replicated(cgt) /\ Cmp!Replicated(ceq)
                      /\ Cmp!ValueOf(cgt) = AboveBlocks(Cmp!ValueOf(ct), Cmp!ValueOf(cx), csize, Width \div csize)
                      /\ Cmp!ValueOf(ceq) = EqualBlocks(Cmp!ValueOf(ct), Cmp!ValueOf(cx), csize, Width \div csize)
    BY DEF BlocksCompared, Cmp!BlocksCompared, AboveBlocks, EqualBlocks, BlockAbove, BlockEqual
  <2> QED BY SameOperations DEF CmpInv, Blocks, Shared
<1> QED BY <1>1, WalkInvariants, PTL

\* However many layers a walk has, its comparisons take every triple at most once,
\* and all of them from the arrays.
THEOREM NoTripleTwice == WalkSpec => []TriplesUsedOnce
<1>1. CmpInv /\ Taken => TriplesUsedOnce
  <2> SUFFICES ASSUME CmpInv, Taken PROVE Cardinality(cused) = cands /\ \A n \in cused : n < Stride * Depth
    <3>1. Cmp!Cardinality(cused) = Cardinality(cused)
      BY Zenon DEF Cmp!Cardinality, Cardinality
    <3> QED BY <3>1 DEF TriplesUsedOnce, Cmp!TriplesUsedOnce
  <2>1. NextTriple \in Nat /\ NextTriple <= Stride * Depth
    BY NextInLayer DEF CmpInv
  <2>2. Stride * Depth \in Nat
    BY LayerTriples, DepthAssumption
  <2> QED BY <2>1, <2>2 DEF Taken
<1> QED BY <1>1, WalkInvariants, TakenInvariance, PTL

\* Parties that follow the protocol never see a check fail, with any field, keys,
\* masks and triples: not that of an AND, of a child's product or of the MACs.
THEOREM NoFalseAlarm == WalkSpec => []HonestChecksPass
<1>1. WalkInv /\ CmpInv => HonestChecksPass
  BY DEF WalkInv, Sums, CmpInv, Compared, HonestChecksPass
<1> QED BY <1>1, WalkInvariants, PTL
===============================================================================
