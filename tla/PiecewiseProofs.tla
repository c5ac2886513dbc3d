---------------------------- MODULE PiecewiseProofs ---------------------------
(***************************************************************************)
(* Proofs about PiecewiseCalls for every program of calls and any words:   *)
(* that the two generators with one key stay in step, however far one      *)
(* party is ahead of its neighbour.                                        *)
(*                                                                         *)
(* What a party has done with a generator is a function of how many of its *)
(* calls have sent (UsesFollowCalls): the uses of each call, one call      *)
(* after the other.  For the two sides of a key these have the same length *)
(* and pair a send with a help (ListsOpposite), and a party that is behind *)
(* has a prefix of what it will have (ListsGrow).                          *)
(*                                                                         *)
(* The lemmas on numbers are taken with no bits: they are about none.      *)
(***************************************************************************)
EXTENDS PiecewiseCalls, SequenceTheorems, TLAPS

Numbers == INSTANCE CommonLemmas WITH Bits <- {}

\* f lists the values that a is taken through by the first k steps of g.
Steps(f, D, g, a, k) ==
    f \in [0..k -> D] /\ f[0] = a /\ \A n \in 1..k : f[n] = g[<<n, f[n - 1]>>]

\* A value can be taken through any number of steps, each of which depends on its
\* number too.
LEMMA Recursion ==
    ASSUME NEW K \in Nat, NEW D, NEW a \in D, NEW g \in [(1..K) \X D -> D]
    PROVE  \E f : Steps(f, D, g, a, K)
<1> DEFINE S == {k \in 0..K : \E f : Steps(f, D, g, a, k)}
<1>1. 0 \in S
  <2> DEFINE h == [n \in 0..0 |-> a]
  <2>1. h \in [0..0 -> D] /\ h[0] = a /\ 1..0 = {} /\ 0 \in 0..K
    OBVIOUS
  <2> HIDE DEF h
  <2>2. Steps(h, D, g, a, 0)
    BY <2>1 DEF Steps
  <2> QED BY <2>1, <2>2
<1>2. ASSUME NEW k \in 0..(K - 1), k \in S PROVE k + 1 \in S
  <2>1. k \in Nat /\ k + 1 \in 0..K /\ k + 1 \in 1..K
    OBVIOUS
  <2>2. PICK f : Steps(f, D, g, a, k)
    BY <1>2
  <2> DEFINE h == [n \in 0..(k + 1) |-> IF n = k + 1 THEN g[<<k + 1, f[k]>>] ELSE f[n]]
  <2> USE DEF Steps
  <2>3. g[<<k + 1, f[k]>>] \in D
    <3>1. f[k] \in D
      BY <2>1, <2>2
    <3> QED BY <2>1, <3>1
  <2>4. h \in [0..(k + 1) -> D]
    BY <2>1, <2>2, <2>3
  <2>5. \A n \in 0..k : h[n] = f[n]
    BY <2>1
  <2>6. h[k + 1] = g[<<k + 1, f[k]>>]
    BY <2>1
  <2> HIDE DEF h
  <2>7. ASSUME NEW n \in 1..(k + 1) PROVE h[n] = g[<<n, h[n - 1]>>]
    <3>1. CASE n = k + 1
      <4>1. n - 1 = k /\ k \in 0..k
        BY <2>1, <3>1
      <4> QED BY <2>5, <2>6, <3>1, <4>1
    <3>2. CASE n # k + 1
      <4>1. n \in 1..k /\ n \in 0..k /\ n - 1 \in 0..k
        BY <2>1, <3>2
      <4> QED BY <2>2, <2>5, <4>1
    <3> QED BY <3>1, <3>2
  <2>8. h[0] = a
    BY <2>1, <2>2, <2>5
  <2>9. Steps(h, D, g, a, k + 1)
    BY <2>4, <2>7, <2>8
  <2> HIDE DEF Steps
  <2> QED BY <2>1, <2>9
<1> HIDE DEF S
<1>3. K \in S
  BY <1>1, <1>2, Numbers!CountUpTo
<1> QED BY <1>3 DEF S

-------------------------------------------------------------------------------
(* The uses of a script. *)

Sides == {"prev", "next"}

\* The step of UsesOf.
Counted(script, side, n, before) ==
    IF script[n].kind # "plain" /\ script[n].side = side
    THEN Append(before, script[n]) ELSE before

UsesUpto(u, script, side) ==
    /\ u[0] = <<>>
    /\ \A n \in 1..Len(script) : u[n] = Counted(script, side, n, u[n - 1])

\* UsesOf is its last step.
LEMMA UsesSteps ==
    ASSUME NEW script, Len(script) \in Nat, NEW side
    PROVE  \E u : UsesUpto(u, script, side) /\ UsesOf(script, side) = u[Len(script)]
<1> DEFINE K == Len(script)
           D == Seq({script[n] : n \in 1..K})
           g == [x \in (1..K) \X D |-> Counted(script, side, x[1], x[2])]
           Body(f, n) == IF n = 0 THEN <<>>
                         ELSE IF script[n].kind # "plain" /\ script[n].side = side
                              THEN Append(f[n - 1], script[n]) ELSE f[n - 1]
<1>1. <<>> \in D
  OBVIOUS
<1>2. g \in [(1..K) \X D -> D]
  <2>1. ASSUME NEW n \in 1..K, NEW d \in D PROVE Counted(script, side, n, d) \in D
    <3>1. Append(d, script[n]) \in D
      OBVIOUS
    <3> QED BY <3>1 DEF Counted
  <2>2. ASSUME NEW x \in (1..K) \X D PROVE Counted(script, side, x[1], x[2]) \in D
    <3>1. x[1] \in 1..K /\ x[2] \in D
      OBVIOUS
    <3> HIDE DEF D
    <3> QED BY <2>1, <3>1
  <2> HIDE DEF D
  <2> QED BY <2>2
<1>3. \A n \in 1..K, d \in D : g[<<n, d>>] = Counted(script, side, n, d)
  OBVIOUS
<1> HIDE DEF g, D
<1>4. PICK f : Steps(f, D, g, <<>>, K)
  <2>1. K \in Nat
    OBVIOUS
  <2> HIDE DEF K
  <2> QED BY <1>1, <1>2, <2>1, Recursion
<1> USE DEF Steps
<1>5. \A n \in 1..K : f[n] = Counted(script, side, n, f[n - 1])
  <2> TAKE n \in 1..K
  <2>1. n - 1 \in 0..K
    OBVIOUS
  <2>2. f[n - 1] \in D
    BY <1>4, <2>1
  <2> QED BY <1>3, <1>4, <2>2
<1>6. f = [n \in 0..K |-> Body(f, n)]
  <2>1. ASSUME NEW n \in 0..K PROVE f[n] = Body(f, n)
    <3>1. CASE n = 0
      BY <1>4, <3>1
    <3>2. CASE n # 0
      <4>1. n \in 1..K
        BY <3>2
      <4> QED BY <1>5, <3>2, <4>1 DEF Counted
    <3> QED BY <3>1, <3>2
  <2> HIDE DEF Body
  <2>2. f = [n \in 0..K |-> f[n]]
    BY <1>4
  <2> QED BY <2>1, <2>2, Zenon
<1>7. \E r : r = [n \in 0..K |-> Body(r, n)]
  <2> HIDE DEF Body
  <2> QED BY <1>6, Zenon
<1> DEFINE u == CHOOSE r : r = [n \in 0..K |-> Body(r, n)]
<1>8. UsesOf(script, side) = u[K]
  BY Zenon DEF UsesOf
<1>9. u = [n \in 0..K |-> Body(u, n)]
  <2> HIDE DEF Body
  <2> QED BY <1>7, Zenon
<1> HIDE DEF u
<1>10. u[0] = <<>>
  BY <1>9
<1>11. \A n \in 1..K : u[n] = Counted(script, side, n, u[n - 1])
  <2> TAKE n \in 1..K
  <2>1. n \in 0..K /\ n # 0
    OBVIOUS
  <2>2. u[n] = Body(u, n)
    BY <1>9, <2>1
  <2> QED BY <2>1, <2>2 DEF Counted
<1>12. UsesUpto(u, script, side)
  BY <1>10, <1>11 DEF UsesUpto
<1> QED BY <1>8, <1>12

\* What a product does with a generator.
Kinds(p, op, side) ==
    CASE op = "mulBit" /\ side = "next" ->
            (IF p = 0 THEN <<"send">> ELSE IF p = 1 THEN <<"help", "send">> ELSE <<"help">>)
      [] op = "mulBit" /\ side = "prev" ->
            (IF p = 0 THEN <<"send", "help">> ELSE IF p = 1 THEN <<"send">> ELSE <<"help">>)
      [] op = "mulPublic" /\ side = "next" ->
            (IF p = 0 THEN <<"send">> ELSE IF p = 1 THEN <<"help">> ELSE <<>>)
      [] op = "mulPublic" /\ side = "prev" ->
            (IF p = 0 THEN <<"send">> ELSE IF p = 1 THEN <<>> ELSE <<"help">>)
      [] OTHER -> <<>>

KindsOf(script, side) ==
    LET u == UsesOf(script, side) IN [k \in DOMAIN u |-> u[k].kind]

CountedKind(entry, side, before) ==
    IF entry.kind # "plain" /\ entry.side = side THEN Append(before, entry.kind) ELSE before

KindsUpto(w, script, side) ==
    /\ w[0] = <<>>
    /\ \A n \in 1..Len(script) : w[n] = CountedKind(script[n], side, w[n - 1])

\* And so are the kinds of the uses.
LEMMA KindsSteps ==
    ASSUME NEW script, Len(script) \in Nat, NEW side
    PROVE  \E w : KindsUpto(w, script, side) /\ KindsOf(script, side) = w[Len(script)]
<1> DEFINE K == Len(script)
           D == Seq({script[n] : n \in 1..K})
           Kind(s) == [k \in DOMAIN s |-> s[k].kind]
<1>0. K \in Nat
  OBVIOUS
<1> HIDE DEF K
<1>1. PICK u : UsesUpto(u, script, side) /\ UsesOf(script, side) = u[K]
  BY UsesSteps DEF K
<1>2. u[0] = <<>> /\ \A n \in 1..K : u[n] = Counted(script, side, n, u[n - 1])
  BY <1>1 DEF UsesUpto, K
<1>3. \A n \in 0..K : u[n] \in D
  <2> DEFINE S == {n \in 0..K : u[n] \in D}
  <2>1. 0 \in S
    <3>1. <<>> \in D
      OBVIOUS
    <3> HIDE DEF D
    <3> QED BY <1>0, <1>2, <3>1
  <2>2. ASSUME NEW n \in 0..(K - 1), n \in S PROVE n + 1 \in S
    <3>1. n + 1 \in 1..K /\ n + 1 \in 0..K /\ (n + 1) - 1 = n
      BY <1>0
    <3>2. u[n + 1] = Counted(script, side, n + 1, u[n])
      BY <1>2, <3>1
    <3>3. u[n] \in D /\ script[n + 1] \in {script[m] : m \in 1..K}
      BY <2>2, <3>1
    <3>4. Append(u[n], script[n + 1]) \in D
      BY <3>3
    <3> QED BY <3>1, <3>2, <3>3, <3>4 DEF Counted
  <2> HIDE DEF S
  <2>3. \A n \in 0..K : n \in S
    BY <1>0, <2>1, <2>2, Numbers!CountUpTo
  <2> QED BY <2>3 DEF S
<1> DEFINE w == [n \in 0..K |-> Kind(u[n])]
<1>4. w[0] = <<>>
  BY <1>0, <1>2
<1>5. ASSUME NEW n \in 1..K
      PROVE  w[n] = CountedKind(script[n], side, w[n - 1])
  <2>1. n \in 0..K /\ n - 1 \in 0..K
    BY <1>0
  <2>2. w[n] = Kind(u[n]) /\ w[n - 1] = Kind(u[n - 1])
    BY <2>1
  <2>3. u[n] = Counted(script, side, n, u[n - 1]) /\ u[n - 1] \in D
    BY <1>2, <1>3, <2>1
  <2>4. Kind(Append(u[n - 1], script[n])) = Append(Kind(u[n - 1]), script[n].kind)
    <3> DEFINE s == u[n - 1]
               e == script[n]
    <3>1. /\ DOMAIN s = 1..Len(s) /\ Len(s) \in Nat
          /\ DOMAIN Append(s, e) = 1..(Len(s) + 1)
          /\ \A k \in 1..Len(s) : Append(s, e)[k] = s[k]
          /\ Append(s, e)[Len(s) + 1] = e
      BY <2>3
    <3> HIDE DEF s, e
    <3> DEFINE r == Kind(s)
    <3>2. r = [k \in 1..Len(s) |-> s[k].kind]
      BY <3>1
    <3>3. r \in Seq({s[k].kind : k \in 1..Len(s)} \cup {e.kind}) /\ Len(r) = Len(s)
      BY <3>1, <3>2
    <3> HIDE DEF r
    <3>4. /\ DOMAIN Append(r, e.kind) = 1..(Len(s) + 1)
          /\ \A k \in 1..Len(s) : Append(r, e.kind)[k] = r[k]
          /\ Append(r, e.kind)[Len(s) + 1] = e.kind
      BY <3>1, <3>3
    <3>5. Append(r, e.kind) = [k \in 1..(Len(s) + 1) |-> Append(s, e)[k].kind]
      BY <3>1, <3>2, <3>3, <3>4
    <3> QED BY <3>1, <3>5 DEF r, s, e
  <2> HIDE DEF w, Kind
  <2> QED BY <2>2, <2>3, <2>4 DEF Counted, CountedKind
<1>6. KindsOf(script, side) = w[K]
  BY <1>0, <1>1 DEF KindsOf
<1> HIDE DEF w
<1>7. KindsUpto(w, script, side)
  BY <1>4, <1>5 DEF KindsUpto, K
<1> QED BY <1>6, <1>7 DEF K

\* A script of up to four entries.
LEMMA ShortScript ==
    ASSUME NEW script, NEW side, Len(script) \in 2..4
    PROVE  LET c(n, before) == CountedKind(script[n], side, before)
               c2 == c(2, c(1, <<>>))
           IN KindsOf(script, side) = CASE Len(script) = 2 -> c2
                                        [] Len(script) = 3 -> c(3, c2)
                                        [] Len(script) = 4 -> c(4, c(3, c2))
<1> DEFINE K == Len(script)
<1>1. K \in 2..4 /\ K \in Nat
  OBVIOUS
<1>2. PICK w : KindsUpto(w, script, side) /\ KindsOf(script, side) = w[K]
  BY <1>1, KindsSteps, Zenon
<1> DEFINE C(n, before) == CountedKind(script[n], side, before)
<1> HIDE DEF K
<1>3. w[0] = <<>> /\ \A n \in 1..K : w[n] = C(n, w[n - 1])
  BY <1>2 DEF KindsUpto, K
<1> HIDE DEF C
<1>4. /\ w[1] = C(1, w[0]) /\ w[2] = C(2, w[1])
      /\ K >= 3 => w[3] = C(3, w[2])
      /\ K = 4 => w[4] = C(4, w[3])
  <2>1. 1 \in 1..K /\ 2 \in 1..K /\ (K >= 3 => 3 \in 1..K) /\ (K = 4 => 4 \in 1..K)
    BY <1>1
  <2>2. 1 - 1 = 0 /\ 2 - 1 = 1 /\ 3 - 1 = 2 /\ 4 - 1 = 3
    OBVIOUS
  <2>3. w[1] = C(1, w[0])
    BY <1>3, <2>1, <2>2
  <2>4. w[2] = C(2, w[1])
    BY <1>3, <2>1, <2>2
  <2>5. K >= 3 => w[3] = C(3, w[2])
    BY <1>3, <2>1, <2>2
  <2>6. K = 4 => w[4] = C(4, w[3])
    BY <1>3, <2>1, <2>2
  <2> QED BY <2>3, <2>4, <2>5, <2>6
<1>5. KindsOf(script, side) = CASE K = 2 -> w[2] [] K = 3 -> w[3] [] K = 4 -> w[4]
  BY <1>1, <1>2
<1>6. KindsOf(script, side) = CASE K = 2 -> C(2, C(1, <<>>))
                                [] K = 3 -> C(3, C(2, C(1, <<>>)))
                                [] K = 4 -> C(4, C(3, C(2, C(1, <<>>))))
  BY <1>1, <1>3, <1>4, <1>5
<1> QED BY <1>6 DEF C, K

LEMMA Appended ==
    ASSUME NEW x, NEW y
    PROVE  Append(<<>>, x) = <<x>> /\ Append(<<x>>, y) = <<x, y>>
<1>1. <<>> \in Seq({x, y}) /\ <<x>> \in Seq({x, y}) /\ <<x, y>> \in Seq({x, y})
  OBVIOUS
<1>2. Append(<<>>, x) \in Seq({x, y}) /\ Append(<<x>>, y) \in Seq({x, y})
  BY <1>1
<1>3. Append(<<>>, x) = <<x>>
  BY <1>1, <1>2
<1>4. Append(<<x>>, y) = <<x, y>>
  <2> DEFINE s == Append(<<x>>, y)
             t == <<x, y>>
  <2>1. s \in Seq({x, y}) /\ Len(s) = 2 /\ s[1] = x /\ s[2] = y
    BY <1>1, <1>2
  <2>2. t \in Seq({x, y}) /\ Len(t) = 2 /\ t[1] = x /\ t[2] = y
    BY <1>1
  <2> HIDE DEF s, t
  <2>3. \A i \in 1..Len(s) : s[i] = t[i]
    BY <2>1, <2>2
  <2>4. s = t
    BY <2>1, <2>2, <2>3, SeqEqual
  <2> QED BY <2>4 DEF s, t
<1> QED BY <1>3, <1>4

\* A script of a product, entry by entry.
LEMMA BitKinds ==
    ASSUME NEW p \in Party, NEW side \in Sides, NEW a, NEW b
    PROVE  KindsOf(BitScript(p, a, b), side) = Kinds(p, "mulBit", side)
<1> DEFINE script == BitScript(p, a, b)
<1> SUFFICES KindsOf(script, side) = Kinds(p, "mulBit", side)
  OBVIOUS
<1>1. CASE p = 2
  <2>1. /\ Len(script) = 4
        /\ script[1].kind = "help" /\ script[1].side = "prev"
        /\ script[2].kind = "plain"
        /\ script[3].kind = "help" /\ script[3].side = "next"
        /\ script[4].kind = "plain"
    BY <1>1 DEF BitScript, Help, Plain
  <2> HIDE DEF script
  <2>2. KindsOf(script, side) =
            CountedKind(script[4], side, CountedKind(script[3], side,
                CountedKind(script[2], side, CountedKind(script[1], side, <<>>))))
    BY <2>1, ShortScript
  <2>3. CASE side = "next"
    BY <1>1, <2>1, <2>2, <2>3, Appended DEF Kinds, CountedKind
  <2>4. CASE side = "prev"
    BY <1>1, <2>1, <2>2, <2>4, Appended DEF Kinds, CountedKind
  <2> QED BY <2>3, <2>4 DEF Sides
<1>2. CASE p = 0
  <2>1. /\ Len(script) = 3
        /\ script[1].kind = "send" /\ script[1].side = "next"
        /\ script[2].kind = "send" /\ script[2].side = "prev"
        /\ script[3].kind = "help" /\ script[3].side = "prev"
    BY <1>2 DEF BitScript, Help, SendOt
  <2> HIDE DEF script
  <2>2. KindsOf(script, side) =
            CountedKind(script[3], side,
                CountedKind(script[2], side, CountedKind(script[1], side, <<>>)))
    BY <2>1, ShortScript
  <2>3. CASE side = "next"
    BY <1>2, <2>1, <2>2, <2>3, Appended DEF Kinds, CountedKind
  <2>4. CASE side = "prev"
    BY <1>2, <2>1, <2>2, <2>4, Appended DEF Kinds, CountedKind
  <2> QED BY <2>3, <2>4 DEF Sides
<1>3. CASE p = 1
  <2>1. /\ Len(script) = 3
        /\ script[1].kind = "help" /\ script[1].side = "next"
        /\ script[2].kind = "send" /\ script[2].side = "next"
        /\ script[3].kind = "send" /\ script[3].side = "prev"
    BY <1>3 DEF BitScript, Help, SendOt
  <2> HIDE DEF script
  <2>2. KindsOf(script, side) =
            CountedKind(script[3], side,
                CountedKind(script[2], side, CountedKind(script[1], side, <<>>)))
    BY <2>1, ShortScript
  <2>3. CASE side = "next"
    BY <1>3, <2>1, <2>2, <2>3, Appended DEF Kinds, CountedKind
  <2>4. CASE side = "prev"
    BY <1>3, <2>1, <2>2, <2>4, Appended DEF Kinds, CountedKind
  <2> QED BY <2>3, <2>4 DEF Sides
<1> QED BY <1>1, <1>2, <1>3 DEF Party

LEMMA PublicKinds ==
    ASSUME NEW p \in Party, NEW side \in Sides, NEW v, NEW b
    PROVE  KindsOf(PublicScript(p, v, b), side) = Kinds(p, "mulPublic", side)
<1> DEFINE script == PublicScript(p, v, b)
<1> SUFFICES KindsOf(script, side) = Kinds(p, "mulPublic", side)
  OBVIOUS
<1>1. /\ Len(script) = 2
      /\ p = 0 => /\ script[1].kind = "send" /\ script[1].side = "next"
                  /\ script[2].kind = "send" /\ script[2].side = "prev"
      /\ p = 1 => /\ script[1].kind = "help" /\ script[1].side = "next"
                  /\ script[2].kind = "plain"
      /\ p = 2 => /\ script[1].kind = "help" /\ script[1].side = "prev"
                  /\ script[2].kind = "plain"
  <2>1. CASE p = 0
    BY <2>1 DEF PublicScript, SendOt
  <2>2. CASE p = 1
    BY <2>2 DEF PublicScript, Help, Plain
  <2>3. CASE p = 2
    BY <2>3 DEF PublicScript, Help, Plain
  <2> QED BY <2>1, <2>2, <2>3 DEF Party
<1> HIDE DEF script
<1>2. KindsOf(script, side) =
          CountedKind(script[2], side, CountedKind(script[1], side, <<>>))
  BY <1>1, ShortScript
<1>3. CASE side = "next"
  BY <1>1, <1>2, <1>3, Appended DEF Kinds, CountedKind, Party
<1>4. CASE side = "prev"
  <2>1. CASE p = 0
    BY <1>1, <1>2, <1>4, <2>1, Appended DEF Kinds, CountedKind
  <2>2. CASE p = 1
    BY <1>1, <1>2, <1>4, <2>2, Appended DEF Kinds, CountedKind
  <2>3. CASE p = 2
    BY <1>1, <1>2, <1>4, <2>3, Appended DEF Kinds, CountedKind
  <2> QED BY <2>1, <2>2, <2>3 DEF Party
<1> QED BY <1>3, <1>4 DEF Sides

Words == Seq({"send", "help"})

LEMMA KindsType ==
    ASSUME NEW p \in Party, NEW side \in Sides, NEW op
    PROVE  /\ Kinds(p, op, side) \in Words
           /\ op \notin {"mulBit", "mulPublic"} => Kinds(p, op, side) = <<>>
<1>1. /\ <<>> \in Words /\ <<"send">> \in Words /\ <<"help">> \in Words
      /\ <<"help", "send">> \in Words /\ <<"send", "help">> \in Words
  BY DEF Words
<1>2. Kinds(p, op, side) \in Words
  BY <1>1 DEF Kinds
<1>3. op \notin {"mulBit", "mulPublic"} => Kinds(p, op, side) = <<>>
  BY DEF Kinds
<1> QED BY <1>2, <1>3

\* Where p sends to or helps the previous party under a key, that one does the
\* other, as often.
LEMMA KindsPair ==
    ASSUME NEW p \in Party, NEW op
    PROVE  LET mine   == Kinds(p, op, "next")
               theirs == Kinds(PrevOf(p), op, "prev")
           IN /\ Len(mine) = Len(theirs)
              /\ \A k \in 1..Len(mine) : mine[k] # theirs[k]
<1> DEFINE mine == Kinds(p, op, "next")
           theirs == Kinds(PrevOf(p), op, "prev")
<1>1. CASE p = 0
  <2>1. PrevOf(p) = 2
    BY <1>1 DEF PrevOf
  <2> QED BY <1>1, <2>1 DEF Kinds
<1>2. CASE p = 1
  <2>1. PrevOf(p) = 0
    BY <1>2 DEF PrevOf
  <2> QED BY <1>2, <2>1 DEF Kinds
<1>3. CASE p = 2
  <2>1. PrevOf(p) = 1
    BY <1>3 DEF PrevOf
  <2> QED BY <1>3, <2>1 DEF Kinds
<1> QED BY <1>1, <1>2, <1>3 DEF Party

-------------------------------------------------------------------------------
(* What the calls of a program use, one call after the other. *)

\* f[n]: what p has done on one side once it has sent for the first n calls.
Listed(f, program, p, side) ==
    /\ f \in [0..Len(program) -> Words]
    /\ f[0] = <<>>
    /\ \A n \in 1..Len(program) : f[n] = f[n - 1] \o Kinds(p, program[n].op, side)

LEMMA ListsExist ==
    ASSUME NEW program, Len(program) \in Nat, NEW p \in Party, NEW side \in Sides
    PROVE  \E f : Listed(f, program, p, side)
<1> DEFINE K == Len(program)
           g == [x \in (1..K) \X Words |-> x[2] \o Kinds(p, program[x[1]].op, side)]
<1>1. <<>> \in Words
  BY DEF Words
<1>2. \A n \in 1..K, d \in Words : d \o Kinds(p, program[n].op, side) \in Words
  <2> TAKE n \in 1..K, d \in Words
  <2>1. Kinds(p, program[n].op, side) \in Words
    BY KindsType
  <2> QED BY <2>1 DEF Words
<1>3. g \in [(1..K) \X Words -> Words] /\ K \in Nat
  <2>1. ASSUME NEW x \in (1..K) \X Words
        PROVE  x[2] \o Kinds(p, program[x[1]].op, side) \in Words
    <3>1. x[1] \in 1..K /\ x[2] \in Words
      OBVIOUS
    <3> QED BY <1>2, <3>1
  <2> QED BY <2>1
<1>4. \A n \in 1..K, d \in Words : g[<<n, d>>] = d \o Kinds(p, program[n].op, side)
  OBVIOUS
<1> HIDE DEF g, K
<1>5. PICK f : Steps(f, Words, g, <<>>, K)
  BY <1>1, <1>3, Recursion
<1>6. f \in [0..K -> Words] /\ f[0] = <<>> /\ \A n \in 1..K : f[n] = g[<<n, f[n - 1]>>]
  BY <1>5 DEF Steps
<1>7. ASSUME NEW n \in 1..K PROVE f[n] = f[n - 1] \o Kinds(p, program[n].op, side)
  <2>1. n - 1 \in 0..K
    BY <1>3
  <2>2. f[n - 1] \in Words
    BY <1>6, <2>1
  <2> QED BY <1>4, <1>6, <2>2
<1>8. Listed(f, program, p, side)
  BY <1>6, <1>7 DEF Listed, K
<1> QED BY <1>8

\* Two sequences of the same length that differ everywhere.
Opposite(s, t) == Len(s) = Len(t) /\ \A k \in 1..Len(s) : s[k] # t[k]

LEMMA OppositeConcat ==
    ASSUME NEW s \in Words, NEW t \in Words, NEW x \in Words, NEW y \in Words,
           Opposite(s, t), Opposite(x, y)
    PROVE  Opposite(s \o x, t \o y)
<1>1. Len(s \o x) = Len(s) + Len(x) /\ Len(t \o y) = Len(t) + Len(y)
  BY DEF Words
<1>2. Len(s) = Len(t) /\ Len(x) = Len(y) /\ Len(s) \in Nat /\ Len(x) \in Nat
  BY DEF Opposite, Words
<1>3. ASSUME NEW k \in 1..Len(s \o x) PROVE (s \o x)[k] # (t \o y)[k]
  <2>1. CASE k <= Len(s)
    <3>1. (s \o x)[k] = s[k] /\ (t \o y)[k] = t[k] /\ k \in 1..Len(s)
      BY <1>1, <1>2, <2>1 DEF Words
    <3> QED BY <3>1 DEF Opposite
  <2>2. CASE k > Len(s)
    <3>1. (s \o x)[k] = x[k - Len(s)] /\ (t \o y)[k] = y[k - Len(t)]
      BY <1>1, <1>2, <2>2 DEF Words
    <3>2. k - Len(s) \in 1..Len(x) /\ k - Len(t) = k - Len(s)
      BY <1>1, <1>2, <2>2
    <3> QED BY <3>1, <3>2 DEF Opposite
  <2> QED BY <1>2, <2>1, <2>2
<1> QED BY <1>1, <1>2, <1>3 DEF Opposite

\* The lists of the two sides of a key are opposite at every call.
LEMMA ListsOpposite ==
    ASSUME NEW program, Len(program) \in Nat, NEW p \in Party, NEW f, NEW g,
           Listed(f, program, p, "next"), Listed(g, program, PrevOf(p), "prev")
    PROVE  \A n \in 0..Len(program) : Opposite(f[n], g[n])
<1> DEFINE K == Len(program)
           S == {n \in 0..K : Opposite(f[n], g[n])}
<1>1. K \in Nat /\ f \in [0..K -> Words] /\ g \in [0..K -> Words]
      /\ f[0] = <<>> /\ g[0] = <<>>
  BY DEF Listed
<1>2. PrevOf(p) \in Party /\ "next" \in Sides /\ "prev" \in Sides
  BY DEF PrevOf, Party, Sides
<1>3. \A n \in 1..K : /\ f[n] = f[n - 1] \o Kinds(p, program[n].op, "next")
                      /\ g[n] = g[n - 1] \o Kinds(PrevOf(p), program[n].op, "prev")
  BY DEF Listed
<1> HIDE DEF K
<1>4. 0 \in S
  BY <1>1 DEF Opposite
<1>5. ASSUME NEW n \in 0..(K - 1), n \in S PROVE n + 1 \in S
  <2>1. n + 1 \in 1..K /\ n + 1 \in 0..K /\ n \in 0..K /\ (n + 1) - 1 = n
    BY <1>1
  <2> DEFINE x == Kinds(p, program[n + 1].op, "next")
             y == Kinds(PrevOf(p), program[n + 1].op, "prev")
  <2>2. x \in Words /\ y \in Words
    BY <1>2, KindsType
  <2>3. Opposite(x, y)
    BY KindsPair DEF Opposite
  <2>4. f[n + 1] = f[n] \o x /\ g[n + 1] = g[n] \o y
    BY <1>3, <2>1
  <2>5. f[n] \in Words /\ g[n] \in Words /\ Opposite(f[n], g[n])
    BY <1>1, <1>5, <2>1
  <2> HIDE DEF x, y
  <2>6. Opposite(f[n + 1], g[n + 1])
    BY <2>2, <2>3, <2>4, <2>5, OppositeConcat
  <2> QED BY <2>1, <2>6
<1> HIDE DEF S
<1>6. \A n \in 0..K : n \in S
  BY <1>1, <1>4, <1>5, Numbers!CountUpTo
<1> QED BY <1>6 DEF S, K

\* s begins t.
Begins(s, t) == Len(s) <= Len(t) /\ \A k \in 1..Len(s) : t[k] = s[k]

\* What has been done stays.
LEMMA ListsGrow ==
    ASSUME NEW program, Len(program) \in Nat, NEW p \in Party, NEW side \in Sides,
           NEW f, Listed(f, program, p, side), NEW m \in 0..Len(program)
    PROVE  \A n \in m..Len(program) : Begins(f[m], f[n])
<1> DEFINE K == Len(program)
           S == {n \in 0..K : n >= m => Begins(f[m], f[n])}
<1>1. K \in Nat /\ f \in [0..K -> Words] /\ m \in 0..K
  BY DEF Listed
<1>2. \A n \in 1..K : f[n] = f[n - 1] \o Kinds(p, program[n].op, side)
  BY DEF Listed
<1> HIDE DEF K
<1>3. f[m] \in Words /\ Len(f[m]) \in Nat /\ Begins(f[m], f[m])
  BY <1>1 DEF Words, Begins
<1>4. 0 \in S
  <2>1. CASE m = 0
    BY <1>1, <1>3, <2>1
  <2>2. CASE m # 0
    BY <1>1, <2>2
  <2> QED BY <2>1, <2>2
<1>5. ASSUME NEW n \in 0..(K - 1), n \in S PROVE n + 1 \in S
  <2>1. n + 1 \in 1..K /\ n + 1 \in 0..K /\ n \in 0..K /\ (n + 1) - 1 = n
    BY <1>1
  <2>2. CASE n + 1 < m
    BY <1>1, <2>1, <2>2
  <2>3. CASE n + 1 = m
    BY <1>3, <2>1, <2>3
  <2>4. CASE n + 1 > m
    <3> DEFINE x == Kinds(p, program[n + 1].op, side)
    <3>1. x \in Words
      BY KindsType
    <3>2. f[n] \in Words /\ Begins(f[m], f[n]) /\ f[n + 1] = f[n] \o x
      <4>1. f[n] \in Words
        BY <1>1, <2>1
      <4>2. n >= m
        BY <1>1, <2>1, <2>4
      <4>3. Begins(f[m], f[n])
        BY <1>5, <4>2
      <4>4. f[n + 1] = f[n] \o x
        BY <1>2, <2>1
      <4> QED BY <4>1, <4>3, <4>4
    <3> HIDE DEF x
    <3>3. /\ Len(f[n + 1]) = Len(f[n]) + Len(x) /\ Len(x) \in Nat /\ Len(f[n]) \in Nat
          /\ \A k \in 1..Len(f[n]) : f[n + 1][k] = f[n][k]
      <4> DEFINE s == f[n]
      <4>1. s \in Words /\ f[n + 1] = s \o x
        BY <3>2
      <4> HIDE DEF s
      <4>2. /\ Len(s \o x) = Len(s) + Len(x) /\ Len(x) \in Nat /\ Len(s) \in Nat
            /\ \A k \in 1..Len(s) : (s \o x)[k] = s[k]
        BY <3>1, <4>1 DEF Words
      <4> QED BY <4>1, <4>2 DEF s
    <3>4. Begins(f[m], f[n + 1])
      BY <1>3, <3>2, <3>3 DEF Begins
    <3> QED BY <2>1, <3>4
  <2> QED BY <1>1, <2>1, <2>2, <2>3, <2>4
<1> HIDE DEF S
<1>6. \A n \in 0..K : n \in S
  BY <1>1, <1>4, <1>5, Numbers!CountUpTo
<1>7. \A n \in m..K : n \in 0..K /\ n >= m
  BY <1>1
<1> QED BY <1>6, <1>7 DEF S, K

-------------------------------------------------------------------------------
(* The parties' uses follow their calls. *)

\* The calls that p has sent for.
Through(p) == IF InProduct(p, 1) THEN at[p] ELSE at[p] - 1

CallsCounted ==
    /\ Len(Program) \in Nat
    /\ at \in [Party -> Nat] /\ DOMAIN task = Party
    /\ \A p \in Party : at[p] \in 1..Len(Program) + 1

UsesFollowCalls ==
    /\ otUses \in [Party -> [Sides -> Words]]
    /\ \A p \in Party, side \in Sides : \A f :
          Listed(f, Program, p, side) => otUses[p][side] = f[Through(p)]

\* A step of a call that is no product.
Aside(p) ==
    /\ ~Done(p)
    /\ Call(p).op \notin {"mulBit", "mulPublic"}
    /\ NextTask(p) \/ EndCall(p)
    /\ UNCHANGED otUses

Idle == UNCHANGED <<prog, at, task, otUses>>

\* The products use the generators, and nothing else does.
LEMMA StepKinds ==
    ASSUME [Next]_vars
    PROVE  Idle \/ \E p \in Party : Aside(p) \/ SendBit(p) \/ OpenBit(p)
<1> USE DEF InTask, InCall
<1>1. CASE UNCHANGED vars
  BY <1>1 DEF vars, position, arith, Idle
<1>2. ASSUME NEW link \in Links, Transmit(link) PROVE Idle
  BY <1>2 DEF Transmit, ReadBuffer, arith, position, Idle
<1>3. ASSUME NEW p \in Party, Step(p) PROVE Aside(p) \/ SendBit(p) \/ OpenBit(p)
  <2>1. ~Done(p)
    BY <1>3 DEF Step
  <2>2. CASE ArithmeticTask(p)
    <3>1. CASE LocalInt(p)
      BY <2>1, <3>1 DEF LocalInt, SendOwn, Aside
    <3>2. CASE Multiply(p)
      BY <2>1, <3>2 DEF Multiply, SendOwn, Aside
    <3>3. CASE ReceiveCopy(p)
      BY <2>1, <3>3 DEF ReceiveCopy, Aside
    <3>4. CASE SendBit(p)
      BY <3>4
    <3>5. CASE OpenBit(p)
      BY <3>5
    <3>6. CASE MultiplyShift(p)
      BY <2>1, <3>6 DEF MultiplyShift, Aside
    <3>7. CASE Truncate(p)
      BY <2>1, <3>7 DEF Truncate, Aside
    <3>8. CASE RevealSend(p)
      BY <2>1, <3>8 DEF RevealSend, arith, Aside
    <3>9. CASE RevealReceive(p)
      BY <2>1, <3>9 DEF RevealReceive, Aside
    <3> QED BY <2>2, <3>1, <3>2, <3>3, <3>4, <3>5, <3>6, <3>7, <3>8, <3>9 DEF ArithmeticTask
  <2>3. CASE CircuitTask(p)
    <3>1. CASE BeginCircuit(p)
      BY <2>1, <3>1 DEF BeginCircuit, Aside
    <3>2. CASE EvaluateRound(p)
      BY <2>1, <3>2 DEF EvaluateRound, Evaluating, arith, Aside
    <3>3. CASE LastRound(p)
      BY <2>1, <3>3 DEF LastRound, Evaluating, arith, Aside
    <3>4. CASE GetOutput(p)
      BY <2>1, <3>4 DEF GetOutput, Evaluating, Aside
    <3> QED BY <2>3, <3>1, <3>2, <3>3, <3>4 DEF CircuitTask
  <2>4. CASE PiecewiseTask(p)
    <3>1. CASE SendRegionInput(p)
      BY <2>1, <3>1 DEF SendRegionInput, Aside
    <3>2. CASE SetThresholds(p)
      BY <2>1, <3>2 DEF SetThresholds, Aside
    <3>3. CASE FunctionValues(p)
      BY <2>1, <3>3 DEF FunctionValues, Aside
    <3>4. CASE AddOutput(p)
      BY <2>1, <3>4 DEF AddOutput, Aside
    <3> QED BY <2>4, <3>1, <3>2, <3>3, <3>4 DEF PiecewiseTask
  <2> QED BY <1>3, <2>2, <2>3, <2>4 DEF Step
<1> QED BY <1>1, <1>2, <1>3 DEF Next

\* Nobody has sent anything.
LEMMA CallsInitially == Init => CallsCounted /\ UsesFollowCalls
<1> SUFFICES ASSUME Init PROVE CallsCounted /\ UsesFollowCalls
  OBVIOUS
<1>1. PICK start \in Starts :
         /\ prog = start.program
         /\ at = [p \in Party |-> 1] /\ task = [p \in Party |-> 0]
         /\ otUses = [p \in Party |-> [prev |-> <<>>, next |-> <<>>]]
  BY DEF Init, CallsInit, ArithmeticInit
<1>2. Len(Program) \in Nat
  BY <1>1, StartsAssumption DEF Program
<1>3. CallsCounted
  BY <1>1, <1>2 DEF CallsCounted
<1>4. \A p \in Party, side \in Sides : otUses[p][side] = <<>>
  BY <1>1 DEF Sides
<1>5. otUses \in [Party -> [Sides -> Words]]
  <2>1. <<>> \in Words
    BY DEF Words
  <2>2. [prev |-> <<>>, next |-> <<>>] \in [Sides -> Words]
    BY <2>1 DEF Sides
  <2> QED BY <1>1, <2>2
<1>6. ASSUME NEW p \in Party, NEW side \in Sides, NEW f, Listed(f, Program, p, side)
      PROVE  otUses[p][side] = f[Through(p)]
  <2>1. Through(p) = 0
    BY <1>1 DEF Through, InProduct, InTask
  <2>2. f[0] = <<>>
    BY <1>6 DEF Listed
  <2> QED BY <1>4, <2>1, <2>2
<1>7. UsesFollowCalls
  BY <1>5, <1>6 DEF UsesFollowCalls
<1> QED BY <1>3, <1>7

\* A step of p moves no other party.
LEMMA OthersStay ==
    ASSUME CallsCounted, NEW p \in Party, NEW q \in Party, q # p,
           NextTask(p) \/ EndCall(p)
    PROVE  Through(q)' = Through(q)
<1>1. at'[q] = at[q] /\ task'[q] = task[q] /\ prog' = prog
  BY DEF CallsCounted, NextTask, EndCall
<1> QED BY <1>1 DEF Through, InProduct, InTask, InCall, Done, Call, Program

LEMMA CallsNext ==
    ASSUME CallsCounted, NEW p \in Party, ~Done(p), NextTask(p) \/ EndCall(p)
    PROVE  CallsCounted' /\ Program' = Program
<1>1. prog' = prog /\ Program' = Program
  BY DEF NextTask, EndCall, Program
<1>2. DOMAIN task' = Party
  BY DEF CallsCounted, NextTask, EndCall
<1>3. at[p] \in 1..Len(Program)
  BY DEF CallsCounted, Done
<1>4. at' \in [Party -> Nat] /\ \A q \in Party : at'[q] \in 1..Len(Program) + 1
  <2>1. CASE NextTask(p)
    BY <2>1 DEF CallsCounted, NextTask
  <2>2. CASE EndCall(p)
    <3>1. at' = [at EXCEPT ![p] = at[p] + 1]
      BY <2>2 DEF EndCall
    <3>2. at[p] + 1 \in 1..Len(Program) + 1 /\ at[p] + 1 \in Nat
      BY <1>3 DEF CallsCounted
    <3> QED BY <3>1, <3>2 DEF CallsCounted
  <2> QED BY <2>1, <2>2
<1> QED BY <1>1, <1>2, <1>4 DEF CallsCounted

LEMMA AsideFollows ==
    ASSUME CallsCounted, UsesFollowCalls, NEW p \in Party, Aside(p)
    PROVE  UsesFollowCalls'
<1>1. CallsCounted' /\ Program' = Program
  BY CallsNext DEF Aside
<1>2. otUses' = otUses
  BY DEF Aside
<1>3. ASSUME NEW q \in Party, NEW side \in Sides, NEW f, Listed(f, Program, q, side)
      PROVE  otUses[q][side] = f[Through(q)']
  <2>0. otUses[q][side] = f[Through(q)]
    BY <1>3 DEF UsesFollowCalls
  <2>1. CASE q # p
    BY <2>0, <2>1, OthersStay DEF Aside
  <2>2. CASE q = p
    <3>1. Through(p) = at[p] - 1 /\ at[p] \in 1..Len(Program)
      BY DEF Through, Aside, InProduct, InTask, InCall, CallsCounted, Done
    <3>2. CASE NextTask(p)
      <4>1. at' = at /\ prog' = prog
        BY <3>2 DEF NextTask
      <4>2. Through(p)' = at[p] - 1
        BY <4>1 DEF Through, Aside, InProduct, InTask, InCall, Call, Program
      <4> QED BY <2>0, <2>2, <3>1, <4>2
    <3>3. CASE EndCall(p)
      <4>1. at'[p] = at[p] + 1 /\ task'[p] = 0
        BY <3>3 DEF EndCall, CallsCounted
      <4>2. Through(p)' = at[p]
        BY <3>1, <4>1 DEF Through, InProduct, InTask
      <4>3. Kinds(p, Program[at[p]].op, side) = <<>>
        BY KindsType DEF Aside, Call
      <4>4. f[at[p]] = f[at[p] - 1] \o <<>> /\ f[at[p] - 1] \in Words
        <5>1. Listed(f, Program, p, side)
          BY <1>3, <2>2
        <5>2. at[p] \in 1..Len(Program) /\ at[p] - 1 \in 0..Len(Program)
          BY <3>1
        <5>3. f[at[p]] = f[at[p] - 1] \o Kinds(p, Program[at[p]].op, side)
          BY <5>1, <5>2 DEF Listed
        <5>4. f[at[p] - 1] \in Words
          BY <5>1, <5>2 DEF Listed
        <5> QED BY <4>3, <5>3, <5>4
      <4>5. f[at[p]] = f[at[p] - 1]
        BY <4>4 DEF Words
      <4> QED BY <2>0, <2>2, <3>1, <4>2, <4>5
    <3> QED BY <3>2, <3>3 DEF Aside
  <2> QED BY <2>1, <2>2
<1> QED BY <1>1, <1>2, <1>3 DEF UsesFollowCalls

LEMMA OpenFollows ==
    ASSUME CallsCounted, UsesFollowCalls, NEW p \in Party, OpenBit(p)
    PROVE  CallsCounted' /\ UsesFollowCalls'
<1>0. ~Done(p) /\ EndCall(p) /\ otUses' = otUses /\ InProduct(p, 1)
  BY DEF OpenBit, InProduct, InTask, InCall
<1>1. CallsCounted' /\ Program' = Program
  BY <1>0, CallsNext
<1>2. ASSUME NEW q \in Party, NEW side \in Sides, NEW f, Listed(f, Program, q, side)
      PROVE  otUses[q][side] = f[Through(q)']
  <2>0. otUses[q][side] = f[Through(q)]
    BY <1>2 DEF UsesFollowCalls
  <2>1. CASE q # p
    BY <1>0, <2>0, <2>1, OthersStay
  <2>2. CASE q = p
    <3>1. at'[p] = at[p] + 1 /\ task'[p] = 0 /\ at[p] \in Nat
      BY <1>0 DEF EndCall, CallsCounted
    <3>2. Through(p)' = at[p]
      BY <3>1 DEF Through, InProduct, InTask
    <3>3. Through(p) = at[p]
      BY <1>0 DEF Through
    <3> QED BY <2>0, <2>2, <3>2, <3>3
  <2> QED BY <2>1, <2>2
<1> QED BY <1>0, <1>1, <1>2 DEF UsesFollowCalls

LEMMA SendFollows ==
    ASSUME CallsCounted, UsesFollowCalls, NEW p \in Party, SendBit(p)
    PROVE  CallsCounted' /\ UsesFollowCalls'
<1> DEFINE sent(side) == KindsOf(Script(p), side)
<1>0. ~Done(p) /\ NextTask(p) /\ InProduct(p, 0) /\ task[p] = 0
  BY DEF SendBit, InProduct, InTask, InCall
<1>1. CallsCounted' /\ Program' = Program /\ at[p] \in 1..Len(Program)
  BY <1>0, CallsNext DEF CallsCounted, Done
<1>2. \A side \in Sides : sent(side) = Kinds(p, Call(p).op, side)
  <2> TAKE side \in Sides
  <2>1. CASE Call(p).op = "mulBit"
    BY <2>1, BitKinds DEF Script
  <2>2. CASE Call(p).op = "mulPublic"
    BY <2>2, PublicKinds DEF Script
  <2> QED BY <1>0, <2>1, <2>2 DEF InProduct, InTask, InCall
<1>3. otUses' = [otUses EXCEPT ![p] = [prev |-> otUses[p].prev \o sent("prev"),
                                       next |-> otUses[p].next \o sent("next")]]
  BY DEF SendBit, KindsOf
<1> HIDE DEF sent
<1>4. \A side \in Sides : sent(side) \in Words
  BY <1>2, KindsType
<1>5. \A side \in Sides : otUses'[p][side] = otUses[p][side] \o sent(side)
  <2>1. otUses'[p] = [prev |-> otUses[p].prev \o sent("prev"),
                      next |-> otUses[p].next \o sent("next")]
    BY <1>3 DEF UsesFollowCalls
  <2>2. otUses'[p]["prev"] = otUses[p]["prev"] \o sent("prev")
    BY <2>1
  <2>3. otUses'[p]["next"] = otUses[p]["next"] \o sent("next")
    BY <2>1
  <2> QED BY <2>2, <2>3 DEF Sides
<1>6. otUses' \in [Party -> [Sides -> Words]]
  <2> DEFINE after == [prev |-> otUses[p].prev \o sent("prev"),
                       next |-> otUses[p].next \o sent("next")]
  <2>1. otUses[p].prev \in Words /\ otUses[p].next \in Words
    BY DEF UsesFollowCalls, Sides
  <2>2. sent("prev") \in Words /\ sent("next") \in Words
    BY <1>4 DEF Sides
  <2>3. otUses[p].prev \o sent("prev") \in Words /\ otUses[p].next \o sent("next") \in Words
    BY <2>1, <2>2 DEF Words
  <2>4. after \in [Sides -> Words]
    <3>1. ASSUME NEW a \in Words, NEW b \in Words
          PROVE  [prev |-> a, next |-> b] \in [Sides -> Words]
      BY DEF Sides
    <3> QED BY <2>3, <3>1
  <2> HIDE DEF after
  <2>5. otUses' = [otUses EXCEPT ![p] = after]
    BY <1>3 DEF after
  <2> QED BY <2>4, <2>5 DEF UsesFollowCalls
<1>7. ASSUME NEW q \in Party, NEW side \in Sides, NEW f, Listed(f, Program, q, side)
      PROVE  otUses'[q][side] = f[Through(q)']
  <2>0. otUses[q][side] = f[Through(q)]
    BY <1>7 DEF UsesFollowCalls
  <2>1. CASE q # p
    <3>1. otUses'[q] = otUses[q]
      BY <1>3, <2>1 DEF UsesFollowCalls
    <3> QED BY <1>0, <2>0, <2>1, <3>1, OthersStay
  <2>2. CASE q = p
    <3>1. at' = at /\ prog' = prog /\ task'[p] = 1
      BY <1>0 DEF NextTask, CallsCounted
    <3>2. Through(p) = at[p] - 1
      BY <1>0 DEF Through, InProduct, InTask
    <3>3. Through(p)' = at[p]
      BY <1>0, <3>1 DEF Through, InProduct, InTask, InCall, Done, Call, Program
    <3>4. f[at[p]] = f[at[p] - 1] \o sent(side)
      BY <1>1, <1>2, <1>7, <2>2 DEF Listed, Call
    <3> QED BY <1>5, <2>0, <2>2, <3>2, <3>3, <3>4
  <2> QED BY <2>1, <2>2
<1> QED BY <1>1, <1>6, <1>7 DEF UsesFollowCalls

\* A party's uses of its generators are told by the calls that it has sent for
\* (SharedOT::send and help move mIdx on in the order of the calls).
THEOREM UsesFollow == Spec => [](CallsCounted /\ UsesFollowCalls)
<1>1. Init => CallsCounted /\ UsesFollowCalls
  BY CallsInitially
<1>2. CallsCounted /\ UsesFollowCalls /\ [Next]_vars => CallsCounted' /\ UsesFollowCalls'
  <2> SUFFICES ASSUME CallsCounted, UsesFollowCalls, [Next]_vars
               PROVE  CallsCounted' /\ UsesFollowCalls'
    OBVIOUS
  <2>1. CASE Idle
    BY <2>1 DEF Idle, CallsCounted, UsesFollowCalls, Through, Program, InProduct, InTask,
                InCall, Done, Call
  <2>2. ASSUME NEW p \in Party, Aside(p) PROVE CallsCounted' /\ UsesFollowCalls'
    BY <2>2, AsideFollows, CallsNext DEF Aside
  <2>3. ASSUME NEW p \in Party, SendBit(p) PROVE CallsCounted' /\ UsesFollowCalls'
    BY <2>3, SendFollows
  <2>4. ASSUME NEW p \in Party, OpenBit(p) PROVE CallsCounted' /\ UsesFollowCalls'
    BY <2>4, OpenFollows
  <2> QED BY <2>1, <2>2, <2>3, <2>4, StepKinds
<1> QED BY <1>1, <1>2, PTL DEF Spec

\* The two generators with one key are in step, for any programs, words and keys,
\* however far a party is ahead of its neighbour (SharedOT's two ends of a key,
\* Sh3Evaluator::asyncMul of a word and a bit).
THEOREM GeneratorsInStep == Spec => []PadsPair
<1>1. CallsCounted /\ UsesFollowCalls => PadsPair
  <2> SUFFICES ASSUME CallsCounted, UsesFollowCalls, NEW p \in Party,
                      NEW k \in (DOMAIN otUses[p].next) \cap (DOMAIN otUses[PrevOf(p)].prev)
               PROVE  otUses[p].next[k] # otUses[PrevOf(p)].prev[k]
    BY DEF PadsPair
  <2> DEFINE q == PrevOf(p)
             m == Through(p)
             n == Through(q)
             K == Len(Program)
  <2>1. q \in Party /\ "next" \in Sides /\ "prev" \in Sides /\ K \in Nat
    BY DEF PrevOf, Party, Sides, CallsCounted
  <2>2. PICK f : Listed(f, Program, p, "next")
    BY <2>1, ListsExist, Zenon
  <2>3. PICK g : Listed(g, Program, q, "prev")
    BY <2>1, ListsExist, Zenon
  <2>4. m \in 0..K /\ n \in 0..K
    <3>1. ASSUME NEW r \in Party PROVE Through(r) \in 0..K
      <4>1. at[r] \in 1..K + 1
        BY DEF CallsCounted
      <4>2. InProduct(r, 1) => at[r] <= K
        BY DEF InProduct, InTask, InCall, Done, CallsCounted
      <4> QED BY <2>1, <4>1, <4>2 DEF Through
    <3> QED BY <2>1, <3>1
  <2>5. otUses[p].next = f[m] /\ otUses[q].prev = g[n]
    BY <2>1, <2>2, <2>3 DEF UsesFollowCalls
  <2> HIDE DEF q, m, n
  <2>6. f[m] \in Words /\ g[n] \in Words /\ f[n] \in Words /\ g[m] \in Words
    BY <2>2, <2>3, <2>4 DEF Listed
  <2>7. k \in 1..Len(f[m]) /\ k \in 1..Len(g[n])
    <3>1. k \in DOMAIN f[m] /\ k \in DOMAIN g[n]
      BY <2>5 DEF q
    <3> QED BY <2>6, <3>1 DEF Words
  <2>8. Opposite(f[m], g[m]) /\ Opposite(f[n], g[n])
    <3>1. Listed(g, Program, PrevOf(p), "prev")
      BY <2>3 DEF q
    <3>2. \A i \in 0..K : Opposite(f[i], g[i])
      BY <2>1, <2>2, <3>1, ListsOpposite
    <3> QED BY <2>4, <3>2
  <2>9. f[m][k] # g[n][k]
    <3>1. CASE m <= n
      <4>1. n \in m..K
        BY <2>4, <3>1
      <4>2. Begins(g[m], g[n])
        BY <2>1, <2>3, <2>4, <4>1, ListsGrow
      <4> QED BY <2>6, <2>7, <2>8, <4>2 DEF Opposite, Begins
    <3>2. CASE n <= m
      <4>1. m \in n..K
        BY <2>4, <3>2
      <4>2. Begins(f[n], f[m])
        BY <2>1, <2>2, <2>4, <4>1, ListsGrow
      <4> QED BY <2>6, <2>7, <2>8, <4>2 DEF Opposite, Begins
    <3> QED BY <2>4, <3>1, <3>2
  <2> QED BY <2>5, <2>9 DEF q
<1> QED BY <1>1, UsesFollow, PTL
===============================================================================
