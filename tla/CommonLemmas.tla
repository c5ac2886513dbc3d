----------------------------- MODULE CommonLemmas -----------------------------
(***************************************************************************)
(* Lemmas that several proof modules use.  What the library has no theorem *)
(* for: quotients, the least element of a set of naturals, counting up to  *)
(* a bound and applying a function again and again.  And what the          *)
(* operations of ReplicatedShares compute, for words of any length: which  *)
(* of them give replicated sharings, and of what.                          *)
(*                                                                         *)
(* A module about no shares instantiates this one with no bits.            *)
(***************************************************************************)
EXTENDS ReplicatedShares, Integers, Functions, WellFoundedInduction, SequenceTheorems, TLAPS

(* Natural numbers. *)

\* What quotient and remainder are.
LEMMA DivDef ==
    ASSUME NEW r \in Nat, NEW m \in Nat \ {0}
    PROVE  /\ r \div m \in Nat /\ r % m \in 0..(m - 1)
           /\ r = m * (r \div m) + (r % m)
<1>1. r \in Int /\ m \in Int /\ m > 0
  OBVIOUS
<1>2. r = m * (r \div m) + (r % m)
  BY <1>1
<1>3. r \div m \in Nat
  BY <1>1
<1>4. r % m \in Int /\ 0 <= r % m /\ r % m < m
  BY <1>1
<1> QED BY <1>2, <1>3, <1>4

\* A number has one parity, and one half.
LEMMA HalfAndParity ==
    ASSUME NEW a \in Nat, NEW b \in Nat, NEW c \in 0..1, NEW d \in 0..1
    PROVE  2 * a + c = 2 * b + d <=> a = b /\ c = d
<1>1. /\ c = 0 \/ c = 1
      /\ d = 0 \/ d = 1
  OBVIOUS
<1>2. CASE c = 0 /\ d = 0
  BY <1>2
<1>3. CASE c = 0 /\ d = 1
  BY <1>3
<1>4. CASE c = 1 /\ d = 0
  BY <1>4
<1>5. CASE c = 1 /\ d = 1
  BY <1>5
<1> QED BY <1>1, <1>2, <1>3, <1>4, <1>5

\* There is one quotient only.
LEMMA DivUnique ==
    ASSUME NEW m \in Nat \ {0}, NEW q \in Nat, NEW e \in Nat, e < m, 
           NEW q2 \in Nat, NEW e2 \in Nat, e2 < m, m*q+e = m*q2+e2
    PROVE q = q2
<1>1. ASSUME NEW x \in Nat, NEW y \in Nat, x < y PROVE m * x + m <= m * y
  <2>1. PICK d \in Nat : y = x + 1 + d
    BY <1>1
  <2>2. m * y = m * x + m + m * d /\ m * d \in Nat /\ m * x \in Nat
    BY <2>1
  <2> QED BY <2>2
<1>2. m * q \in Nat /\ m * q2 \in Nat
  OBVIOUS
<1>3. ~ (q < q2)
   BY <1>1, <1>2
<1>4. ~ (q2 < q)
   BY <1>1, <1>2
<1> QED BY <1>3, <1>4

\* Halving a quotient is dividing by twice as much.
LEMMA DivTwice ==
    ASSUME NEW r \in Nat, NEW m \in Nat \ {0}
    PROVE  (r \div m) \div 2 = r \div (2 * m)
<1> DEFINE a == r \div m
           q == a \div 2
           e == m * (a % 2) + (r % m)
<1>1. a \in Nat /\ r % m \in 0..(m - 1) /\ r = m * a + (r % m)
  BY DivDef
<1>2. q \in Nat /\ a % 2 \in 0..1 /\ a = 2 * q + (a % 2)
  BY <1>1
<1> DEFINE q2 == r \div (2 * m)
           e2 == r % (2 * m)
<1>3. q2 \in Nat /\ e2 \in 0..(2 * m - 1) /\ r = (2 * m) * q2 + e2
  <2> DEFINE n == 2 * m
  <2>1. n \in Nat \ {0}
    OBVIOUS
  <2> HIDE DEF n
  <2>2. r \div n \in Nat /\ r % n \in 0..(n - 1) /\ r = n * (r \div n) + (r % n)
    BY <2>1, DivDef
  <2> QED BY <2>2 DEF n
<1>4. e \in 0..(2 * m - 1) /\ r = (2 * m) * q + e
  <2> HIDE DEF a, q
  <2>1. a % 2 = 0 \/ a % 2 = 1
    BY <1>2
  <2> DEFINE c == a % 2
  <2>0. c \in Nat /\ a = 2 * q + c /\ q \in Nat
    BY <1>2, <2>1
  <2> HIDE DEF c
  <2>2. m * a = (2 * m) * q + m * c
    <3>1. m \in Int /\ q \in Int /\ c \in Int /\ a = 2 * q + c
      BY <2>0
    <3>2. m * a = m * (2 * q) + m * c
      BY <3>1
    <3> QED BY <3>1, <3>2
  <2> USE DEF c
  <2>3. m * (a % 2) \in 0..m
    BY <2>1
  <2>4. (2 * m) * q \in Nat
    BY <1>2
  <2> QED BY <1>1, <2>1, <2>2, <2>3, <2>4
<1> HIDE DEF e, q, q2, e2
<1>5. q = q2
  BY <1>2, <1>3, <1>4, DivUnique
<1> QED BY <1>5 DEF q, q2

\* A non-empty set of naturals has a least element.
LEMMA LeastElement ==
    ASSUME NEW T, T \subseteq Nat, T # {}
    PROVE  \E x \in T : \A y \in T : x <= y
<1> DEFINE R == OpToRel(<, Nat)
<1>1. \A x, y \in Nat : <<x, y>> \in R <=> x < y
  BY DEF OpToRel
<1>2. IsWellFoundedOn(R, Nat)
  BY NatLessThanWellFounded
<1> HIDE DEF R
<1>3. PICK x \in T : \A y \in T : ~ (<<y, x>> \in R)
  BY <1>2, WFMin
<1>4. ASSUME NEW y \in T PROVE x <= y
  <2>1. x \in Nat /\ y \in Nat
    OBVIOUS
  <2>2. ~ (y < x)
    BY <1>1, <1>3, <2>1, Zenon
  <2> QED BY <2>1, <2>2
<1> QED BY <1>4

\* Induction up to a bound, over the numbers that have been reached.
LEMMA CountUpTo ==
    ASSUME NEW K \in Nat, NEW S, 0 \in S, \A n \in 0..(K - 1) : n \in S => n + 1 \in S
    PROVE  \A n \in 0..K : n \in S
<1> DEFINE T == {n \in 0..K : n \notin S}
<1> SUFFICES ASSUME T # {} PROVE FALSE
  OBVIOUS
<1>1. T \subseteq Nat
  OBVIOUS
<1>2. PICK n \in T : \A m \in T : n <= m
  BY <1>1, LeastElement
<1>3. n \in 0..K /\ n \notin S /\ n # 0
  BY <1>2
<1>4. n - 1 \in 0..(K - 1) /\ n - 1 \in 0..K /\ (n - 1) + 1 = n
  BY <1>3
<1>5. n - 1 \in S
  <2> SUFFICES ASSUME n - 1 \notin S PROVE FALSE
    OBVIOUS
  <2>1. n - 1 \in T
    BY <1>4
  <2>2. n <= n - 1
    BY <1>2, <2>1
  <2> QED BY <1>3, <2>2
<1>6. (n - 1) + 1 \in S
  BY <1>4, <1>5
<1> QED BY <1>3, <1>4, <1>6

\* f lists what g gives when it is applied to a again and again.
Orbit(f, D, g, a, K) == f \in [0..K -> D] /\ f[0] = a /\ \A k \in 1..K : f[k] = g[f[k - 1]]

\* A function can be applied any number of times.
LEMMA Iterates ==
    ASSUME NEW D, NEW g \in [D -> D], NEW a \in D, NEW K \in Nat
    PROVE  \E f : Orbit(f, D, g, a, K)
<1> DEFINE S == {n \in 0..K : \E f : Orbit(f, D, g, a, n)}
<1>1. 0 \in S
  <2> DEFINE h == [k \in 0..0 |-> a]
  <2>1. h \in [0..0 -> D] /\ h[0] = a
    OBVIOUS
  <2> HIDE DEF h
  <2>2. \A k \in 1..0 : h[k] = g[h[k - 1]]
    OBVIOUS
  <2>3. Orbit(h, D, g, a, 0)
    BY <2>1, <2>2 DEF Orbit
  <2>4. 0 \in 0..K
    OBVIOUS
  <2> QED BY <2>3, <2>4
<1>2. ASSUME NEW n \in 0..(K - 1), n \in S PROVE n + 1 \in S
  <2>0. PICK f : Orbit(f, D, g, a, n)
    BY <1>2
  <2>1. f \in [0..n -> D] /\ f[0] = a /\ \A k \in 1..n : f[k] = g[f[k - 1]]
    BY <2>0 DEF Orbit
  <2>2. n \in Nat /\ n + 1 \in 0..K /\ n \in 0..n
    BY <1>2
  <2> DEFINE h == [k \in 0..(n + 1) |-> IF k = n + 1 THEN g[f[n]] ELSE f[k]]
  <2>3. f[n] \in D /\ g[f[n]] \in D
    BY <2>1, <2>2
  <2>4. ASSUME NEW k \in 0..(n + 1) PROVE h[k] \in D
    <3>1. k = n + 1 \/ k \in 0..n
      BY <2>2, <2>4
    <3> QED BY <2>1, <2>3, <3>1
  <2>5. h \in [0..(n + 1) -> D]
    BY <2>4
  <2>6. h[0] = a
    BY <2>1, <2>2
  <2>7. ASSUME NEW k \in 1..(n + 1) PROVE h[k] = g[h[k - 1]]
    <3>1. k - 1 \in 0..n /\ k - 1 # n + 1 /\ k - 1 \in 0..(n + 1) /\ k \in 0..(n + 1)
      BY <2>2, <2>7
    <3>2. h[k - 1] = f[k - 1]
      BY <3>1
    <3>3. CASE k = n + 1
      <4>1. k - 1 = n /\ h[k] = g[f[n]]
        BY <2>2, <3>1, <3>3
      <4> QED BY <3>2, <4>1
    <3>4. CASE k # n + 1
      <4>1. k \in 1..n /\ h[k] = f[k]
        BY <2>2, <2>7, <3>1, <3>4
      <4> QED BY <2>1, <3>2, <4>1
    <3> QED BY <3>3, <3>4
  <2> HIDE DEF h
  <2>8. Orbit(h, D, g, a, n + 1)
    BY <2>5, <2>6, <2>7 DEF Orbit
  <2> QED BY <2>2, <2>8
<1> HIDE DEF S
<1>3. K \in S
  BY <1>1, <1>2, CountUpTo
<1> QED BY <1>3 DEF S

-------------------------------------------------------------------------------
(* Shares. *)

LEMMA Ring ==
    /\ Party = {0, 1, 2}
    /\ NextOf(0) = 1 /\ NextOf(1) = 2 /\ NextOf(2) = 0
    /\ PrevOf(0) = 2 /\ PrevOf(1) = 0 /\ PrevOf(2) = 1
    /\ \A p \in Party : /\ NextOf(p) \in Party /\ PrevOf(p) \in Party
                        /\ NextOf(PrevOf(p)) = p /\ PrevOf(NextOf(p)) = p
                        /\ NextOf(p) # p /\ PrevOf(p) # p /\ NextOf(p) # PrevOf(p)
BY DEF Party, NextOf, PrevOf

LEMMA PairParts ==
    ASSUME NEW a \in Word, NEW b \in Word
    PROVE  MkPair(a, b) \in Pair /\ MkPair(a, b)[0] = a /\ MkPair(a, b)[1] = b
BY DEF MkPair, Pair

LEMMA WordOps ==
    ASSUME NEW a \in Word, NEW b \in Word
    PROVE  Xor(a, b) \in Word /\ Not(a) \in Word /\ a \cap b \in Word /\ Zero \in Word
BY DEF Word, Xor, Not, Zero

\* A sharing is known by its components.
LEMMA Components ==
    ASSUME NEW c \in [Party -> Word]
    PROVE  /\ SharingOf(c) \in Sharing
           /\ Replicated(SharingOf(c))
           /\ ValueOf(SharingOf(c)) = Xor3(c[0], c[1], c[2])
           /\ \A p \in Party : SharingOf(c)[p] = MkPair(c[p], c[PrevOf(p)])
<1>1. \A p \in Party : SharingOf(c)[p] = MkPair(c[p], c[PrevOf(p)])
  BY DEF SharingOf
<1>2. \A p \in Party : c[p] \in Word /\ c[PrevOf(p)] \in Word
  BY Ring
<1>3. \A p \in Party : /\ SharingOf(c)[p] \in Pair
                       /\ SharingOf(c)[p][0] = c[p] /\ SharingOf(c)[p][1] = c[PrevOf(p)]
  <2> TAKE p \in Party
  <2>1. LET m == MkPair(c[p], c[PrevOf(p)]) IN m \in Pair /\ m[0] = c[p] /\ m[1] = c[PrevOf(p)]
    BY <1>2, PairParts
  <2> QED BY <1>1, <2>1
<1>4. SharingOf(c) \in Sharing
  BY <1>3 DEF Sharing, SharingOf
<1>5. Replicated(SharingOf(c))
  BY <1>3, Ring DEF Replicated
<1>6. ValueOf(SharingOf(c)) = Xor3(c[0], c[1], c[2])
  BY <1>3, Ring DEF ValueOf
<1> QED BY <1>1, <1>4, <1>5, <1>6

\* The masks of the three parties cancel.
LEMMA ShareValue ==
    ASSUME NEW val \in [Party -> Word], NEW stream \in [Party -> Word]
    PROVE  /\ ShareOp(val, stream) \in Sharing
           /\ Replicated(ShareOp(val, stream))
           /\ ValueOf(ShareOp(val, stream)) = Xor3(val[0], val[1], val[2])
<1> DEFINE c == [p \in Party |-> Xor(ZeroShare(p, stream), val[p])]
<1>1. /\ stream[0] \in Word /\ stream[1] \in Word /\ stream[2] \in Word
      /\ val[0] \in Word /\ val[1] \in Word /\ val[2] \in Word
  BY Ring
<1>2. /\ c[0] = Xor(Xor(stream[2], stream[0]), val[0])
      /\ c[1] = Xor(Xor(stream[0], stream[1]), val[1])
      /\ c[2] = Xor(Xor(stream[1], stream[2]), val[2])
      /\ DOMAIN c = Party
  BY Ring DEF ZeroShare
<1>3. c \in [Party -> Word]
  <2>0. /\ Xor(stream[2], stream[0]) \in Word /\ Xor(stream[0], stream[1]) \in Word
        /\ Xor(stream[1], stream[2]) \in Word
    BY <1>1, WordOps
  <2> HIDE DEF c
  <2>1. c[0] \in Word /\ c[1] \in Word /\ c[2] \in Word
    <3>1. /\ Xor(Xor(stream[2], stream[0]), val[0]) \in Word
          /\ Xor(Xor(stream[0], stream[1]), val[1]) \in Word
          /\ Xor(Xor(stream[1], stream[2]), val[2]) \in Word
      BY <1>1, <2>0, WordOps
    <3> QED BY <1>2, <3>1
  <2>2. \A p \in Party : c[p] \in Word
    BY <2>1, Ring
  <2> QED BY <2>2 DEF c
<1>4. Xor3(c[0], c[1], c[2]) = Xor3(val[0], val[1], val[2])
  BY <1>2 DEF Xor3, Xor
<1> QED BY <1>3, <1>4, Components DEF ShareOp

LEMMA SharingParts ==
    ASSUME NEW x \in Sharing
    PROVE  /\ \A p \in Party : x[p] \in Pair /\ x[p][0] \in Word /\ x[p][1] \in Word
           /\ Replicated(x) => x[0][1] = x[2][0] /\ x[1][1] = x[0][0] /\ x[2][1] = x[1][0]
BY Ring DEF Sharing, Pair, Replicated

\* Each party multiplies what it holds; the nine products are all there.
LEMMA AndValue ==
    ASSUME NEW x \in Sharing, NEW y \in Sharing
    PROVE  /\ AndOp(x, y) \in Sharing
           /\ Replicated(AndOp(x, y))
           /\ Replicated(x) /\ Replicated(y) => ValueOf(AndOp(x, y)) = ValueOf(x) \cap ValueOf(y)
<1> DEFINE c == [p \in Party |-> AndTerm(x[p], y[p])]
<1>1. \A p \in Party : c[p] \in Word
  BY SharingParts, WordOps DEF AndTerm, Xor3
<1>2. c \in [Party -> Word] /\ c[0] = AndTerm(x[0], y[0]) /\ c[1] = AndTerm(x[1], y[1])
      /\ c[2] = AndTerm(x[2], y[2])
  BY <1>1, Ring
<1>3. ASSUME Replicated(x), Replicated(y)
      PROVE  Xor3(c[0], c[1], c[2]) = ValueOf(x) \cap ValueOf(y)
  <2>1. /\ x[0][1] = x[2][0] /\ x[1][1] = x[0][0] /\ x[2][1] = x[1][0]
        /\ y[0][1] = y[2][0] /\ y[1][1] = y[0][0] /\ y[2][1] = y[1][0]
    BY <1>3, SharingParts
  <2> DEFINE x0 == x[0][0]
             x1 == x[1][0]
             x2 == x[2][0]
             y0 == y[0][0]
             y1 == y[1][0]
             y2 == y[2][0]
  <2>2. /\ c[0] = Xor3(x0 \cap y0, x0 \cap y2, x2 \cap y0)
        /\ c[1] = Xor3(x1 \cap y1, x1 \cap y0, x0 \cap y1)
        /\ c[2] = Xor3(x2 \cap y2, x2 \cap y1, x1 \cap y2)
        /\ ValueOf(x) = Xor3(x0, x1, x2) /\ ValueOf(y) = Xor3(y0, y1, y2)
    BY <1>2, <2>1 DEF AndTerm, ValueOf
  <2> HIDE DEF c, x0, x1, x2, y0, y1, y2
  <2>3. \A e : e \in Xor3(c[0], c[1], c[2]) <=> e \in Xor3(x0, x1, x2) \cap Xor3(y0, y1, y2)
    BY <2>2 DEF Xor3, Xor
  <2> QED BY <2>2, <2>3
<1> QED BY <1>2, <1>3, Components DEF AndOp

LEMMA XorValue ==
    ASSUME NEW x \in Sharing, NEW y \in Sharing
    PROVE  /\ XorOp(x, y) \in Sharing
           /\ Replicated(x) /\ Replicated(y) =>
                  Replicated(XorOp(x, y)) /\ ValueOf(XorOp(x, y)) = Xor(ValueOf(x), ValueOf(y))
<1>1. \A p \in Party : /\ XorOp(x, y)[p] \in Pair
                       /\ XorOp(x, y)[p][0] = Xor(x[p][0], y[p][0])
                       /\ XorOp(x, y)[p][1] = Xor(x[p][1], y[p][1])
  <2> TAKE p \in Party
  <2> DEFINE a == Xor(x[p][0], y[p][0])
             b == Xor(x[p][1], y[p][1])
  <2>1. a \in Word /\ b \in Word
    BY SharingParts, WordOps
  <2>2. XorOp(x, y)[p] = MkPair(a, b)
    BY DEF XorOp, XorPair
  <2> HIDE DEF a, b
  <2>3. MkPair(a, b) \in Pair /\ MkPair(a, b)[0] = a /\ MkPair(a, b)[1] = b
    BY <2>1, PairParts
  <2> QED BY <2>2, <2>3 DEF a, b
<1>2. XorOp(x, y) \in Sharing
  BY <1>1 DEF Sharing, XorOp
<1>3. ASSUME Replicated(x), Replicated(y) PROVE Replicated(XorOp(x, y))
  BY <1>1, <1>3, Ring DEF Replicated
<1>4. ValueOf(XorOp(x, y)) = Xor(ValueOf(x), ValueOf(y))
  <2>1. ValueOf(XorOp(x, y)) = Xor3(Xor(x[0][0], y[0][0]), Xor(x[1][0], y[1][0]), Xor(x[2][0], y[2][0]))
    BY <1>1, Ring DEF ValueOf
  <2>2. \A e : e \in Xor3(Xor(x[0][0], y[0][0]), Xor(x[1][0], y[1][0]), Xor(x[2][0], y[2][0]))
                 <=> e \in Xor(ValueOf(x), ValueOf(y))
    BY DEF ValueOf, Xor3, Xor
  <2> QED BY <2>1, <2>2
<1> QED BY <1>2, <1>3, <1>4

\* Complementing one component complements the value.
LEMMA NegateValue ==
    ASSUME NEW x \in Sharing
    PROVE  /\ NegateOp(x) \in Sharing
           /\ Replicated(x) =>
                  Replicated(NegateOp(x)) /\ ValueOf(NegateOp(x)) = Not(ValueOf(x))
<1>0. /\ x[0] \in Pair /\ x[1] \in Pair /\ x[2] \in Pair
      /\ x[0][0] \in Word /\ x[0][1] \in Word /\ x[1][0] \in Word /\ x[1][1] \in Word /\ x[2][0] \in Word
  BY SharingParts, Ring
<1>1. /\ NegateOp(x)[0] = MkPair(Not(x[0][0]), x[0][1])
      /\ NegateOp(x)[1] = MkPair(x[1][0], Not(x[1][1]))
      /\ NegateOp(x)[2] = x[2]
  BY Ring DEF NegateOp, NegatePair
<1>2. /\ NegateOp(x)[0] \in Pair /\ NegateOp(x)[0][0] = Not(x[0][0]) /\ NegateOp(x)[0][1] = x[0][1]
      /\ NegateOp(x)[1] \in Pair /\ NegateOp(x)[1][0] = x[1][0] /\ NegateOp(x)[1][1] = Not(x[1][1])
      /\ NegateOp(x)[2] = x[2]
  <2>1. Not(x[0][0]) \in Word /\ Not(x[1][1]) \in Word
    BY <1>0, WordOps
  <2>2. LET m == MkPair(Not(x[0][0]), x[0][1])
        IN  m \in Pair /\ m[0] = Not(x[0][0]) /\ m[1] = x[0][1]
    BY <1>0, <2>1, PairParts
  <2>3. LET m == MkPair(x[1][0], Not(x[1][1]))
        IN  m \in Pair /\ m[0] = x[1][0] /\ m[1] = Not(x[1][1])
    BY <1>0, <2>1, PairParts
  <2> QED BY <1>1, <2>2, <2>3
<1>3. NegateOp(x) \in Sharing
  <2>1. \A p \in Party : NegateOp(x)[p] \in Pair
    BY <1>0, <1>2, Ring
  <2> QED BY <2>1 DEF Sharing, NegateOp
<1>4. ASSUME Replicated(x) PROVE Replicated(NegateOp(x))
  BY <1>2, <1>4, Ring DEF Replicated
<1>5. ValueOf(NegateOp(x)) = Not(ValueOf(x))
  <2>1. ValueOf(NegateOp(x)) = Xor3(Not(x[0][0]), x[1][0], x[2][0])
    BY <1>2 DEF ValueOf
  <2>2. x[0][0] \subseteq Bits /\ x[1][0] \subseteq Bits /\ x[2][0] \subseteq Bits
    BY <1>0 DEF Word
  <2>3. \A e : e \in Xor3(Not(x[0][0]), x[1][0], x[2][0]) <=> e \in Not(ValueOf(x))
    BY <2>2 DEF ValueOf, Xor3, Xor, Not
  <2> QED BY <2>1, <2>3
<1> QED BY <1>3, <1>4, <1>5

\* The three words that a party holds or is sent in revealAll are the components.
LEMMA RevealValue ==
    ASSUME NEW x \in Sharing, NEW p \in Party
    PROVE  /\ RevealOp(x)[p] \in Word
           /\ Replicated(x) => RevealOp(x)[p] = ValueOf(x)
<1>1. RevealOp(x)[p] = Xor3(x[NextOf(p)][0], x[p][0], x[p][1])
  BY DEF RevealOp
<1>2. x[NextOf(p)][0] \in Word /\ x[p][0] \in Word /\ x[p][1] \in Word
  BY SharingParts, Ring
<1>3. Xor3(x[NextOf(p)][0], x[p][0], x[p][1]) \in Word
  BY <1>2, WordOps DEF Xor3
<1>4. ASSUME Replicated(x) PROVE RevealOp(x)[p] = ValueOf(x)
  <2>1. \A a, b, c : Xor3(a, b, c) = Xor3(b, c, a) /\ Xor3(a, b, c) = Xor3(c, a, b)
                     /\ Xor3(b, a, c) = Xor3(a, b, c)
    BY DEF Xor3, Xor
  <2>2. x[0][1] = x[2][0] /\ x[1][1] = x[0][0] /\ x[2][1] = x[1][0]
    BY <1>4, SharingParts
  <2>3. p = 0 \/ p = 1 \/ p = 2
    BY Ring
  <2> QED BY <1>1, <2>1, <2>2, <2>3, Ring DEF ValueOf
<1> QED BY <1>1, <1>3, <1>4

\* Words that are handed on are pairs of words, though no sharing of anything.
LEMMA HandedOn ==
    ASSUME NEW x \in Sharing
    PROVE  /\ P2NOp(x) \in Sharing /\ N2POp(x) \in Sharing
           /\ [p \in Party |-> MkPair(RevealOp(x)[p], Zero)] \in Sharing
<1>1. \A p \in Party : /\ x[PrevOf(p)][0] \in Word /\ x[NextOf(p)][1] \in Word
                       /\ RevealOp(x)[p] \in Word /\ Zero \in Word
  BY SharingParts, Ring, RevealValue, WordOps
<1>2. \A p \in Party : /\ MkPair(Zero, x[PrevOf(p)][0]) \in Pair /\ MkPair(x[NextOf(p)][1], Zero) \in Pair
                       /\ MkPair(RevealOp(x)[p], Zero) \in Pair
  BY <1>1, PairParts
<1> QED BY <1>2 DEF P2NOp, N2POp, Sharing
===============================================================================
