------------------------------ MODULE DealerProofs -----------------------------
(***************************************************************************)
(* Proofs about DpfDealer for batches of any size and connections of any   *)
(* capacity: what a party receives is told by how far the three parties    *)
(* are, so the keys and the proofs that meet belong together.              *)
(***************************************************************************)
EXTENDS DpfDealer, SequenceTheorems, TLAPS

-------------------------------------------------------------------------------
(* How far a party is. *)

Labels == {"connect", "send_pre", "send_next", "recv_pre", "recv_next", "extract",
           "send_tag", "recv_tag", "send_proof", "recv_proof", "done",
           "ohv_recv_next", "ohv_recv_pre"}

\* How many messages it has sent to the previous party and to the next one.
ToPre(l)  == IF l \in {"connect", "send_pre"} THEN 0
             ELSE IF l \in {"recv_proof", "done"} THEN 2 ELSE 1
ToNext(l) == IF l \in {"connect", "send_pre", "send_next"} THEN 0
             ELSE IF l \in {"recv_tag", "send_proof", "recv_proof", "done"} THEN 2 ELSE 1

\* How many it has received from them.
FromPre(l)  == IF l \in {"connect", "send_pre", "send_next", "recv_pre"} THEN 0
               ELSE IF l \in {"send_proof", "recv_proof", "done"} THEN 2 ELSE 1
FromNext(l) == IF l \in {"connect", "send_pre", "send_next", "recv_pre", "recv_next"} THEN 0
               ELSE IF l = "done" THEN 2 ELSE 1

Expanded(l) == l \in {"send_tag", "recv_tag", "send_proof", "recv_proof", "done"}

\* Of the messages m1 and m2, those that are sent but not received.
Pending(sent, got, m1, m2) ==
    IF got = sent THEN <<>>
    ELSE IF got = 1 THEN <<m2>>
    ELSE IF sent = 1 THEN <<m1>> ELSE <<m1, m2>>

-------------------------------------------------------------------------------
(* The inductive invariant. *)

Types ==
    /\ kind \in {"dpf", "ohv"}
    /\ differs \in [Party -> [Batch -> Spoils]]
    /\ pc \in [Party -> Labels]
    /\ valid \in [Party -> BOOLEAN]
    /\ DOMAIN chan = Party /\ \A p \in Party : DOMAIN chan[p] = Party
    /\ DOMAIN rev_pre = Party /\ DOMAIN rev_next = Party
    /\ DOMAIN proof_pre = Party /\ DOMAIN proof_next = Party

\* What is on its way to the next party and to the previous one.
Right(p) ==
    /\ FromPre(pc[next(p)]) <= ToNext(pc[p])
    /\ chan[p][next(p)] = Pending(ToNext(pc[p]), FromPre(pc[next(p)]),
                                  Dealt(p, 1), Tag(proof_pre[p]))

Left(p) ==
    /\ FromNext(pc[pre(p)]) <= ToPre(pc[p])
    /\ chan[p][pre(p)] = Pending(ToPre(pc[p]), FromNext(pc[pre(p)]),
                                 Dealt(p, 0), proof_next[p])

Keys(p) ==
    /\ FromPre(pc[p]) > 0 => rev_pre[p] = Dealt(pre(p), 1)
    /\ FromNext(pc[p]) > 0 => rev_next[p] = Dealt(next(p), 0)

Proofs(p) ==
    Expanded(pc[p]) => /\ proof_pre[p] = ProofOf(Dealt(pre(p), 1))
                       /\ proof_next[p] = ProofOf(Dealt(next(p), 0))

\* What the final hashes take of the vectors of proofs is the same for both keys of
\* each pair.
HashesAgree(d) == \A j \in Batch : differs[d][j] \cap HashedBytes = {}

\* The tag that is received proves the next party's pairs, and the proof the
\* previous party's.
Verdict(p) ==
    valid[p] <=> /\ FromPre(pc[p]) = 2 => HashesAgree(next(p))
                 /\ FromNext(pc[p]) = 2 => HashesAgree(pre(p))

Own(p) == Keys(p) /\ Proofs(p) /\ Verdict(p) /\ pc[p] \notin {"ohv_recv_next", "ohv_recv_pre"}

DealerInv == Types /\ (kind = "dpf" => \A p \in Party : Right(p) /\ Left(p) /\ Own(p))

-------------------------------------------------------------------------------
(* The ring and the messages. *)

\* The three parties in a ring.
LEMMA Ring ==
    ASSUME NEW p \in Party
    PROVE  /\ next(p) \in Party /\ pre(p) \in Party
           /\ next(p) # p /\ pre(p) # p /\ next(p) # pre(p)
           /\ next(pre(p)) = p /\ pre(next(p)) = p
           /\ next(next(p)) = pre(p) /\ pre(pre(p)) = next(p)
           /\ \A q \in Party : q = p \/ q = next(p) \/ q = pre(p)
           /\ \A q \in Party : q # p => next(q) # next(p) /\ pre(q) # pre(p)
           /\ \A q \in Party : q # pre(p) => next(q) # p
           /\ \A q \in Party : q # next(p) => pre(q) # p
<1>1. p = 0 \/ p = 1 \/ p = 2
  BY DEF Party
<1>2. /\ next(0) = 1 /\ next(1) = 2 /\ next(2) = 0
      /\ pre(0) = 2 /\ pre(1) = 0 /\ pre(2) = 1
  BY DEF next, pre
<1>3. \A q \in Party : q = 0 \/ q = 1 \/ q = 2
  BY DEF Party
<1>4. 0 \in Party /\ 1 \in Party /\ 2 \in Party
  BY DEF Party
<1>5. /\ next(p) \in Party /\ pre(p) \in Party
      /\ next(p) # p /\ pre(p) # p /\ next(p) # pre(p)
  BY <1>1, <1>2, <1>4
<1>6. next(pre(p)) = p /\ pre(next(p)) = p /\ next(next(p)) = pre(p) /\ pre(pre(p)) = next(p)
  BY <1>1, <1>2
<1>7. \A q \in Party : q = p \/ q = next(p) \/ q = pre(p)
  BY <1>1, <1>2, <1>3
<1>8. \A q \in Party : pre(next(q)) = q /\ next(pre(q)) = q
  BY <1>2, <1>3
<1> QED BY <1>5, <1>6, <1>7, <1>8

\* At most two messages go each way.
LEMMA CountsBounded ==
    ASSUME NEW l
    PROVE  ToPre(l) \in 0..2 /\ ToNext(l) \in 0..2 /\ FromPre(l) \in 0..2 /\ FromNext(l) \in 0..2
BY DEF ToPre, ToNext, FromPre, FromNext

\* A second message behind the first.
LEMMA AppendSecond ==
    ASSUME NEW m1, NEW m2
    PROVE  Append(<<m1>>, m2) = <<m1, m2>>
<1> DEFINE S == {m1, m2}
           c == <<m1>>
           d == <<m1, m2>>
<1>1. c \in Seq(S) /\ m2 \in S /\ Len(c) = 1 /\ c[1] = m1
  OBVIOUS
<1>2. d \in Seq(S) /\ Len(d) = 2 /\ d[1] = m1 /\ d[2] = m2
  OBVIOUS
<1> HIDE DEF S, c, d
<1>3. /\ Append(c, m2) \in Seq(S) /\ Len(Append(c, m2)) = Len(c) + 1
      /\ \A i \in 1..Len(c) : Append(c, m2)[i] = c[i]
      /\ Append(c, m2)[Len(c) + 1] = m2
  <2>1. c \in Seq(S) /\ m2 \in S
    BY <1>1
  <2>2. Append(c, m2) \in Seq(S)
    BY <2>1, AppendProperties
  <2>3. Len(Append(c, m2)) = Len(c) + 1
    BY <2>1, AppendProperties
  <2>4. \A i \in 1..Len(c) : Append(c, m2)[i] = c[i]
    BY <2>1, AppendProperties
  <2>5. Append(c, m2)[Len(c) + 1] = m2
    BY <2>1, AppendProperties
  <2> QED BY <2>2, <2>3, <2>4, <2>5
<1>4. Len(Append(c, m2)) = Len(d) /\ \A i \in 1..Len(d) : Append(c, m2)[i] = d[i]
  <2>1. Len(c) + 1 = 2 /\ 1 \in 1..Len(c) /\ \A i \in 1..Len(d) : i = 1 \/ i = 2
    BY <1>1, <1>2
  <2>2. Append(c, m2)[1] = m1 /\ Append(c, m2)[2] = m2
    BY <1>1, <1>3, <2>1
  <2> QED BY <1>2, <1>3, <2>1, <2>2
<1>5. Append(c, m2) = d
  BY <1>2, <1>3, <1>4, SeqEqual
<1> QED BY <1>5 DEF c, d

\* Sending adds the message to what is pending, receiving takes the first.
LEMMA PendingSend ==
    ASSUME NEW s \in 0..1, NEW r \in 0..2, r <= s, NEW m1, NEW m2, NEW c,
           c = Pending(s, r, m1, m2)
    PROVE  Append(c, IF s = 0 THEN m1 ELSE m2) = Pending(s + 1, r, m1, m2)
<1>1. CASE s = 0
  <2>1. c = <<>> /\ r = 0
    BY <1>1 DEF Pending
  <2>2. Append(c, m1) = <<m1>>
    BY <2>1
  <2> QED BY <1>1, <2>1, <2>2 DEF Pending
<1>2. CASE s = 1 /\ r = 0
  <2>1. c = <<m1>>
    BY <1>2 DEF Pending
  <2>2. Append(c, m2) = <<m1, m2>>
    BY <2>1, AppendSecond
  <2> QED BY <1>2, <2>2 DEF Pending
<1>3. CASE s = 1 /\ r = 1
  <2>1. c = <<>>
    BY <1>3 DEF Pending
  <2>2. Append(c, m2) = <<m2>>
    BY <2>1
  <2> QED BY <1>3, <2>2 DEF Pending
<1> QED BY <1>1, <1>2, <1>3

LEMMA PendingTake ==
    ASSUME NEW s \in 0..2, NEW r \in 0..2, r <= s, NEW m1, NEW m2, NEW c,
           c = Pending(s, r, m1, m2), c # <<>>
    PROVE  /\ r < s /\ Head(c) = IF r = 0 THEN m1 ELSE m2
           /\ Tail(c) = Pending(s, r + 1, m1, m2)
<1>1. r < s
  BY DEF Pending
<1>2. CASE s = 1
  <2>1. c = <<m1>> /\ r = 0
    BY <1>1, <1>2 DEF Pending
  <2>2. Head(c) = m1 /\ Tail(c) = <<>>
    BY <2>1
  <2> QED BY <1>1, <1>2, <2>1, <2>2 DEF Pending
<1>3. CASE s = 2 /\ r = 0
  <2>1. c = <<m1, m2>>
    BY <1>3 DEF Pending
  <2>2. Head(c) = m1 /\ Tail(c) = <<m2>>
    BY <2>1
  <2> QED BY <1>1, <1>3, <2>2 DEF Pending
<1>4. CASE s = 2 /\ r = 1
  <2>1. c = <<m2>>
    BY <1>4 DEF Pending
  <2>2. Head(c) = m2 /\ Tail(c) = <<>>
    BY <2>1
  <2> QED BY <1>1, <1>4, <2>2 DEF Pending
<1> QED BY <1>1, <1>2, <1>3, <1>4

\* The two halves of a batch prove the same exactly if each pair's hashes agree.
LEMMA HalvesAgree ==
    ASSUME Types, NEW d \in Party
    PROVE  ProofOf(Dealt(d, 0)) = ProofOf(Dealt(d, 1)) <=> HashesAgree(d)
<1> DEFINE same(j) == differs[d][j] \cap HashedBytes = {}
           proof(h) == [j \in Batch |-> <<d, j, IF same(j) THEN 0 ELSE h>>]
<1>1. ASSUME NEW h PROVE ProofOf(Dealt(d, h)) = proof(h)
  <2>1. Len(Dealt(d, h)) = NumDpf
    BY NumDpfAssumption DEF Dealt, Batch
  <2>2. ASSUME NEW j \in Batch
        PROVE  (LET k == Dealt(d, h)[j] IN <<k[1], k[2], Seen(k)>>)
                   = <<d, j, IF same(j) THEN 0 ELSE h>>
    BY DEF Dealt, Seen
  <2> QED BY <2>1, <2>2 DEF ProofOf, Batch
<1>2. HashesAgree(d) <=> \A j \in Batch : same(j)
  BY DEF HashesAgree
<1> HIDE DEF same
<1>3. ASSUME \A j \in Batch : same(j) PROVE proof(0) = proof(1)
  BY <1>3
<1>4. ASSUME proof(0) = proof(1) PROVE \A j \in Batch : same(j)
  <2> SUFFICES ASSUME NEW j \in Batch, ~same(j) PROVE FALSE
    OBVIOUS
  <2>1. proof(0)[j] = <<d, j, 0>> /\ proof(1)[j] = <<d, j, 1>>
    OBVIOUS
  <2>2. <<d, j, 0>> = <<d, j, 1>>
    BY <1>4, <2>1
  <2> QED BY <2>2
<1> HIDE DEF proof
<1>5. ProofOf(Dealt(d, 0)) = proof(0) /\ ProofOf(Dealt(d, 1)) = proof(1)
  BY <1>1
<1> QED BY <1>2, <1>3, <1>4, <1>5

-------------------------------------------------------------------------------
(* What a step does to one party's streams and to what it knows. *)

\* A stream that a step leaves alone: its second message is free until it is sent.
LEMMA RightSame ==
    ASSUME NEW q \in Party, Right(q),
           chan'[q][next(q)] = chan[q][next(q)],
           ToNext(pc'[q]) = ToNext(pc[q]),
           FromPre(pc'[next(q)]) = FromPre(pc[next(q)]),
           proof_pre'[q] = proof_pre[q] \/ ToNext(pc[q]) < 2
    PROVE  Right(q)'
<1>1. ToNext(pc[q]) \in 0..2
  BY CountsBounded
<1>2. Right(q)' <=> /\ FromPre(pc[next(q)]) <= ToNext(pc[q])
                    /\ chan[q][next(q)] = Pending(ToNext(pc[q]), FromPre(pc[next(q)]),
                                                  Dealt(q, 1), Tag(proof_pre'[q]))
  BY DEF Right, Tag
<1>3. ToNext(pc[q]) < 2 /\ FromPre(pc[next(q)]) <= ToNext(pc[q]) =>
          \A m, n : Pending(ToNext(pc[q]), FromPre(pc[next(q)]), Dealt(q, 1), m)
                        = Pending(ToNext(pc[q]), FromPre(pc[next(q)]), Dealt(q, 1), n)
  <2>1. FromPre(pc[next(q)]) \in 0..2
    BY CountsBounded
  <2> QED BY <1>1, <2>1 DEF Pending
<1> QED BY <1>2, <1>3 DEF Right

\* The same to the other side.
LEMMA LeftSame ==
    ASSUME NEW q \in Party, Left(q),
           chan'[q][pre(q)] = chan[q][pre(q)],
           ToPre(pc'[q]) = ToPre(pc[q]),
           FromNext(pc'[pre(q)]) = FromNext(pc[pre(q)]),
           proof_next'[q] = proof_next[q] \/ ToPre(pc[q]) < 2
    PROVE  Left(q)'
<1>1. ToPre(pc[q]) \in 0..2
  BY CountsBounded
<1>2. Left(q)' <=> /\ FromNext(pc[pre(q)]) <= ToPre(pc[q])
                   /\ chan[q][pre(q)] = Pending(ToPre(pc[q]), FromNext(pc[pre(q)]),
                                                Dealt(q, 0), proof_next'[q])
  BY DEF Left
<1>3. ToPre(pc[q]) < 2 /\ FromNext(pc[pre(q)]) <= ToPre(pc[q]) =>
          \A m, n : Pending(ToPre(pc[q]), FromNext(pc[pre(q)]), Dealt(q, 0), m)
                        = Pending(ToPre(pc[q]), FromNext(pc[pre(q)]), Dealt(q, 0), n)
  <2>1. FromNext(pc[pre(q)]) \in 0..2
    BY CountsBounded
  <2> QED BY <1>1, <2>1 DEF Pending
<1> QED BY <1>2, <1>3 DEF Left

\* A stream at which a message is sent.
LEMMA RightSends ==
    ASSUME NEW q \in Party, Right(q), ToNext(pc[q]) < 2,
           chan'[q][next(q)] = Append(chan[q][next(q)],
                                      IF ToNext(pc[q]) = 0 THEN Dealt(q, 1) ELSE Tag(proof_pre[q])),
           ToNext(pc'[q]) = ToNext(pc[q]) + 1,
           FromPre(pc'[next(q)]) = FromPre(pc[next(q)]),
           proof_pre'[q] = proof_pre[q]
    PROVE  Right(q)'
<1>1. ToNext(pc[q]) \in 0..1 /\ FromPre(pc[next(q)]) \in 0..2
  BY CountsBounded
<1>2. Append(chan[q][next(q)], IF ToNext(pc[q]) = 0 THEN Dealt(q, 1) ELSE Tag(proof_pre[q]))
          = Pending(ToNext(pc[q]) + 1, FromPre(pc[next(q)]), Dealt(q, 1), Tag(proof_pre[q]))
  BY <1>1, PendingSend DEF Right
<1>3. Right(q)' <=> /\ FromPre(pc[next(q)]) <= ToNext(pc[q]) + 1
                    /\ chan'[q][next(q)] = Pending(ToNext(pc[q]) + 1, FromPre(pc[next(q)]),
                                                   Dealt(q, 1), Tag(proof_pre[q]))
  BY DEF Right, Tag
<1> QED BY <1>1, <1>2, <1>3 DEF Right

\* The same to the other side.
LEMMA LeftSends ==
    ASSUME NEW q \in Party, Left(q), ToPre(pc[q]) < 2,
           chan'[q][pre(q)] = Append(chan[q][pre(q)],
                                     IF ToPre(pc[q]) = 0 THEN Dealt(q, 0) ELSE proof_next[q]),
           ToPre(pc'[q]) = ToPre(pc[q]) + 1,
           FromNext(pc'[pre(q)]) = FromNext(pc[pre(q)]),
           proof_next'[q] = proof_next[q]
    PROVE  Left(q)'
<1>1. ToPre(pc[q]) \in 0..1 /\ FromNext(pc[pre(q)]) \in 0..2
  BY CountsBounded
<1>2. Append(chan[q][pre(q)], IF ToPre(pc[q]) = 0 THEN Dealt(q, 0) ELSE proof_next[q])
          = Pending(ToPre(pc[q]) + 1, FromNext(pc[pre(q)]), Dealt(q, 0), proof_next[q])
  BY <1>1, PendingSend DEF Left
<1>3. Left(q)' <=> /\ FromNext(pc[pre(q)]) <= ToPre(pc[q]) + 1
                   /\ chan'[q][pre(q)] = Pending(ToPre(pc[q]) + 1, FromNext(pc[pre(q)]),
                                                 Dealt(q, 0), proof_next[q])
  BY DEF Left
<1> QED BY <1>1, <1>2, <1>3 DEF Left

\* A stream from which a message is taken: it is the first, then the second.
LEMMA RightTaken ==
    ASSUME NEW q \in Party, Right(q), chan[q][next(q)] # <<>>,
           chan'[q][next(q)] = Tail(chan[q][next(q)]),
           ToNext(pc'[q]) = ToNext(pc[q]),
           FromPre(pc'[next(q)]) = FromPre(pc[next(q)]) + 1,
           proof_pre'[q] = proof_pre[q]
    PROVE  /\ Right(q)' /\ FromPre(pc[next(q)]) < ToNext(pc[q])
           /\ Head(chan[q][next(q)])
                  = IF FromPre(pc[next(q)]) = 0 THEN Dealt(q, 1) ELSE Tag(proof_pre[q])
<1>1. ToNext(pc[q]) \in 0..2 /\ FromPre(pc[next(q)]) \in 0..2
  BY CountsBounded
<1>2. /\ FromPre(pc[next(q)]) < ToNext(pc[q])
      /\ Head(chan[q][next(q)])
             = IF FromPre(pc[next(q)]) = 0 THEN Dealt(q, 1) ELSE Tag(proof_pre[q])
      /\ Tail(chan[q][next(q)]) = Pending(ToNext(pc[q]), FromPre(pc[next(q)]) + 1,
                                          Dealt(q, 1), Tag(proof_pre[q]))
  BY <1>1, PendingTake DEF Right
<1>3. Right(q)' <=> /\ FromPre(pc[next(q)]) + 1 <= ToNext(pc[q])
                    /\ chan'[q][next(q)] = Pending(ToNext(pc[q]), FromPre(pc[next(q)]) + 1,
                                                   Dealt(q, 1), Tag(proof_pre[q]))
  BY DEF Right, Tag
<1> QED BY <1>1, <1>2, <1>3

\* The same to the other side.
LEMMA LeftTaken ==
    ASSUME NEW q \in Party, Left(q), chan[q][pre(q)] # <<>>,
           chan'[q][pre(q)] = Tail(chan[q][pre(q)]),
           ToPre(pc'[q]) = ToPre(pc[q]),
           FromNext(pc'[pre(q)]) = FromNext(pc[pre(q)]) + 1,
           proof_next'[q] = proof_next[q]
    PROVE  /\ Left(q)' /\ FromNext(pc[pre(q)]) < ToPre(pc[q])
           /\ Head(chan[q][pre(q)])
                  = IF FromNext(pc[pre(q)]) = 0 THEN Dealt(q, 0) ELSE proof_next[q]
<1>1. ToPre(pc[q]) \in 0..2 /\ FromNext(pc[pre(q)]) \in 0..2
  BY CountsBounded
<1>2. /\ FromNext(pc[pre(q)]) < ToPre(pc[q])
      /\ Head(chan[q][pre(q)])
             = IF FromNext(pc[pre(q)]) = 0 THEN Dealt(q, 0) ELSE proof_next[q]
      /\ Tail(chan[q][pre(q)]) = Pending(ToPre(pc[q]), FromNext(pc[pre(q)]) + 1,
                                         Dealt(q, 0), proof_next[q])
  BY <1>1, PendingTake DEF Left
<1>3. Left(q)' <=> /\ FromNext(pc[pre(q)]) + 1 <= ToPre(pc[q])
                   /\ chan'[q][pre(q)] = Pending(ToPre(pc[q]), FromNext(pc[pre(q)]) + 1,
                                                 Dealt(q, 0), proof_next[q])
  BY DEF Left
<1> QED BY <1>1, <1>2, <1>3

\* A party that only sends, or does nothing, knows what it knew.
LEMMA OwnSame ==
    ASSUME NEW q \in Party, Own(q), differs' = differs,
           FromPre(pc'[q]) = FromPre(pc[q]), FromNext(pc'[q]) = FromNext(pc[q]),
           Expanded(pc'[q]) = Expanded(pc[q]),
           pc'[q] \notin {"ohv_recv_next", "ohv_recv_pre"},
           rev_pre'[q] = rev_pre[q], rev_next'[q] = rev_next[q],
           proof_pre'[q] = proof_pre[q], proof_next'[q] = proof_next[q], valid'[q] = valid[q]
    PROVE  Own(q)'
<1>1. Keys(q)'
  BY DEF Own, Keys
<1>2. \A d, h : ProofOf(Dealt(d, h))' = ProofOf(Dealt(d, h))
  BY DEF ProofOf, Seen, Dealt
<1>3. Proofs(q)'
  BY <1>2 DEF Own, Proofs
<1>4. HashesAgree(next(q))' = HashesAgree(next(q)) /\ HashesAgree(pre(q))' = HashesAgree(pre(q))
  BY DEF HashesAgree
<1>5. Verdict(q)'
  BY <1>4 DEF Own, Verdict
<1> QED BY <1>1, <1>3, <1>5 DEF Own

-------------------------------------------------------------------------------
(* The steps. *)

\* A step moves one party on.
LEMMA Moves ==
    ASSUME Types, NEW p \in Party, NEW from, NEW to \in Labels, Goto(p, from, to)
    PROVE  /\ pc' \in [Party -> Labels] /\ pc[p] = from /\ pc'[p] = to
           /\ \A q \in Party : q # p => pc'[q] = pc[q]
BY DEF Types, Goto

\* A step on the connection from p to q leaves the other connections alone.
LEMMA OneConnection ==
    ASSUME Types, NEW p \in Party, NEW q \in Party, NEW c, chan' = [chan EXCEPT ![p][q] = c]
    PROVE  /\ DOMAIN chan' = Party /\ \A r \in Party : DOMAIN chan'[r] = Party
           /\ chan'[p][q] = c
           /\ \A r, s \in Party : r # p \/ s # q => chan'[r][s] = chan[r][s]
BY DEF Types

\* The party leaves its own state as it is when it sends.
LEMMA SendsOwn ==
    ASSUME Types, \A q \in Party : Own(q), NEW p \in Party,
           pc' \in [Party -> Labels], \A q \in Party : q # p => pc'[q] = pc[q],
           FromPre(pc'[p]) = FromPre(pc[p]), FromNext(pc'[p]) = FromNext(pc[p]),
           Expanded(pc'[p]) = Expanded(pc[p]),
           pc'[p] \notin {"ohv_recv_next", "ohv_recv_pre"},
           UNCHANGED <<differs, rev_pre, rev_next, proof_pre, proof_next, valid>>
    PROVE  \A q \in Party : Own(q)'
<1> TAKE q \in Party
<1>1. CASE q = p
  BY <1>1, OwnSame
<1>2. CASE q # p
  <2>1. pc'[q] = pc[q] /\ pc[q] \notin {"ohv_recv_next", "ohv_recv_pre"}
    BY <1>2 DEF Own
  <2> QED BY <2>1, OwnSame
<1> QED BY <1>1, <1>2

\* A message to the previous party.
LEMMA SendLeft ==
    ASSUME DealerInv, kind = "dpf", NEW p \in Party,
           pc' \in [Party -> Labels], \A q \in Party : q # p => pc'[q] = pc[q],
           ToPre(pc[p]) < 2, ToPre(pc'[p]) = ToPre(pc[p]) + 1, ToNext(pc'[p]) = ToNext(pc[p]),
           FromPre(pc'[p]) = FromPre(pc[p]), FromNext(pc'[p]) = FromNext(pc[p]),
           Expanded(pc'[p]) = Expanded(pc[p]),
           pc'[p] \notin {"ohv_recv_next", "ohv_recv_pre"},
           Send(p, pre(p), IF ToPre(pc[p]) = 0 THEN Dealt(p, 0) ELSE proof_next[p]),
           UNCHANGED <<kind, differs, rev_pre, rev_next, proof_pre, proof_next, valid>>
    PROVE  DealerInv'
<1> DEFINE c == Append(chan[p][pre(p)], IF ToPre(pc[p]) = 0 THEN Dealt(p, 0) ELSE proof_next[p])
<1>1. Types /\ \A q \in Party : Right(q) /\ Left(q) /\ Own(q)
  BY DEF DealerInv
<1>2. chan' = [chan EXCEPT ![p][pre(p)] = c]
  BY DEF Send
<1> HIDE DEF c
<1>3. /\ DOMAIN chan' = Party /\ \A r \in Party : DOMAIN chan'[r] = Party
      /\ chan'[p][pre(p)] = c
      /\ \A r, s \in Party : r # p \/ s # pre(p) => chan'[r][s] = chan[r][s]
  <2>1. pre(p) \in Party /\ Types
    BY <1>1, Ring
  <2> QED BY <1>2, <2>1 DEF Types
<1>4. Types'
  BY <1>1, <1>3 DEF Types
<1>5. \A q \in Party : /\ FromPre(pc'[q]) = FromPre(pc[q]) /\ FromNext(pc'[q]) = FromNext(pc[q])
                       /\ ToNext(pc'[q]) = ToNext(pc[q])
  OBVIOUS
<1>6. \A q \in Party : Right(q)'
  <2> TAKE q \in Party
  <2>1. chan'[q][next(q)] = chan[q][next(q)]
    BY <1>3, Ring
  <2> QED BY <1>1, <1>5, <2>1, RightSame, Ring
<1>7. \A q \in Party : Left(q)'
  <2> TAKE q \in Party
  <2>1. CASE q = p
    BY <1>1, <1>3, <1>5, <2>1, LeftSends, Ring DEF c
  <2>2. CASE q # p
    <3>1. chan'[q][pre(q)] = chan[q][pre(q)] /\ pc'[q] = pc[q]
      BY <1>3, <2>2, Ring
    <3> QED BY <1>1, <1>5, <3>1, LeftSame, Ring
  <2> QED BY <2>1, <2>2
<1>8. \A q \in Party : Own(q)'
  BY <1>1, SendsOwn
<1> QED BY <1>4, <1>6, <1>7, <1>8 DEF DealerInv

\* A message to the next party.
LEMMA SendRight ==
    ASSUME DealerInv, kind = "dpf", NEW p \in Party,
           pc' \in [Party -> Labels], \A q \in Party : q # p => pc'[q] = pc[q],
           ToNext(pc[p]) < 2, ToNext(pc'[p]) = ToNext(pc[p]) + 1, ToPre(pc'[p]) = ToPre(pc[p]),
           FromPre(pc'[p]) = FromPre(pc[p]), FromNext(pc'[p]) = FromNext(pc[p]),
           Expanded(pc'[p]) = Expanded(pc[p]),
           pc'[p] \notin {"ohv_recv_next", "ohv_recv_pre"},
           Send(p, next(p), IF ToNext(pc[p]) = 0 THEN Dealt(p, 1) ELSE Tag(proof_pre[p])),
           UNCHANGED <<kind, differs, rev_pre, rev_next, proof_pre, proof_next, valid>>
    PROVE  DealerInv'
<1> DEFINE c == Append(chan[p][next(p)], IF ToNext(pc[p]) = 0 THEN Dealt(p, 1) ELSE Tag(proof_pre[p]))
<1>1. Types /\ \A q \in Party : Right(q) /\ Left(q) /\ Own(q)
  BY DEF DealerInv
<1>2. chan' = [chan EXCEPT ![p][next(p)] = c]
  BY DEF Send
<1> HIDE DEF c
<1>3. /\ DOMAIN chan' = Party /\ \A r \in Party : DOMAIN chan'[r] = Party
      /\ chan'[p][next(p)] = c
      /\ \A r, s \in Party : r # p \/ s # next(p) => chan'[r][s] = chan[r][s]
  <2>1. next(p) \in Party /\ Types
    BY <1>1, Ring
  <2> QED BY <1>2, <2>1 DEF Types
<1>4. Types'
  BY <1>1, <1>3 DEF Types
<1>5. \A q \in Party : /\ FromPre(pc'[q]) = FromPre(pc[q]) /\ FromNext(pc'[q]) = FromNext(pc[q])
                       /\ ToPre(pc'[q]) = ToPre(pc[q])
  OBVIOUS
<1>6. \A q \in Party : Left(q)'
  <2> TAKE q \in Party
  <2>1. chan'[q][pre(q)] = chan[q][pre(q)]
    BY <1>3, Ring
  <2> QED BY <1>1, <1>5, <2>1, LeftSame, Ring
<1>7. \A q \in Party : Right(q)'
  <2> TAKE q \in Party
  <2>1. CASE q = p
    BY <1>1, <1>3, <1>5, <2>1, RightSends, Ring DEF c
  <2>2. CASE q # p
    <3>1. chan'[q][next(q)] = chan[q][next(q)] /\ pc'[q] = pc[q]
      BY <1>3, <2>2, Ring
    <3> QED BY <1>1, <1>5, <3>1, RightSame, Ring
  <2> QED BY <2>1, <2>2
<1>8. \A q \in Party : Own(q)'
  BY <1>1, SendsOwn
<1> QED BY <1>4, <1>6, <1>7, <1>8 DEF DealerInv

\* A message from the previous party.
LEMMA TakeFromPre ==
    ASSUME DealerInv, kind = "dpf", NEW p \in Party,
           pc' \in [Party -> Labels], \A q \in Party : q # p => pc'[q] = pc[q],
           FromPre(pc'[p]) = FromPre(pc[p]) + 1, FromNext(pc'[p]) = FromNext(pc[p]),
           ToPre(pc'[p]) = ToPre(pc[p]), ToNext(pc'[p]) = ToNext(pc[p]),
           Receives(p, pre(p)), UNCHANGED <<proof_pre, proof_next>>
    PROVE  /\ DOMAIN chan' = Party /\ \A r \in Party : DOMAIN chan'[r] = Party
           /\ \A q \in Party : Right(q)' /\ Left(q)'
           /\ FromPre(pc[p]) < ToNext(pc[pre(p)])
           /\ Head(chan[pre(p)][p])
                  = IF FromPre(pc[p]) = 0 THEN Dealt(pre(p), 1) ELSE Tag(proof_pre[pre(p)])
<1>1. Types /\ \A q \in Party : Right(q) /\ Left(q)
  BY DEF DealerInv
<1>2. chan[pre(p)][p] # <<>> /\ chan' = [chan EXCEPT ![pre(p)][p] = Tail(chan[pre(p)][p])]
  BY DEF Receives
<1>3. /\ DOMAIN chan' = Party /\ \A r \in Party : DOMAIN chan'[r] = Party
      /\ chan'[pre(p)][p] = Tail(chan[pre(p)][p])
      /\ \A r, s \in Party : r # pre(p) \/ s # p => chan'[r][s] = chan[r][s]
  <2>1. pre(p) \in Party /\ Types
    BY <1>1, Ring
  <2> QED BY <1>2, <2>1 DEF Types
<1>4. \A q \in Party : /\ ToPre(pc'[q]) = ToPre(pc[q]) /\ ToNext(pc'[q]) = ToNext(pc[q])
                       /\ FromNext(pc'[q]) = FromNext(pc[q])
  OBVIOUS
<1>5. \A q \in Party : Left(q)'
  <2> TAKE q \in Party
  <2>1. chan'[q][pre(q)] = chan[q][pre(q)]
    BY <1>3, Ring
  <2> QED BY <1>1, <1>4, <2>1, LeftSame, Ring
<1>6. /\ Right(pre(p))' /\ FromPre(pc[p]) < ToNext(pc[pre(p)])
      /\ Head(chan[pre(p)][p])
             = IF FromPre(pc[p]) = 0 THEN Dealt(pre(p), 1) ELSE Tag(proof_pre[pre(p)])
  <2>1. pre(p) \in Party /\ next(pre(p)) = p
    BY Ring
  <2> QED BY <1>1, <1>2, <1>3, <1>4, <2>1, RightTaken
<1>7. \A q \in Party : Right(q)'
  <2> TAKE q \in Party
  <2>1. CASE q = pre(p)
    BY <1>6, <2>1
  <2>2. CASE q # pre(p)
    <3>1. next(q) \in Party /\ next(q) # p
      BY <2>2, Ring
    <3>2. chan'[q][next(q)] = chan[q][next(q)] /\ FromPre(pc'[next(q)]) = FromPre(pc[next(q)])
      BY <1>3, <3>1
    <3> QED BY <1>1, <1>4, <3>2, RightSame
  <2> QED BY <2>1, <2>2
<1> QED BY <1>3, <1>5, <1>6, <1>7

\* A message from the next party.
LEMMA TakeFromNext ==
    ASSUME DealerInv, kind = "dpf", NEW p \in Party,
           pc' \in [Party -> Labels], \A q \in Party : q # p => pc'[q] = pc[q],
           FromNext(pc'[p]) = FromNext(pc[p]) + 1, FromPre(pc'[p]) = FromPre(pc[p]),
           ToPre(pc'[p]) = ToPre(pc[p]), ToNext(pc'[p]) = ToNext(pc[p]),
           Receives(p, next(p)), UNCHANGED <<proof_pre, proof_next>>
    PROVE  /\ DOMAIN chan' = Party /\ \A r \in Party : DOMAIN chan'[r] = Party
           /\ \A q \in Party : Right(q)' /\ Left(q)'
           /\ FromNext(pc[p]) < ToPre(pc[next(p)])
           /\ Head(chan[next(p)][p])
                  = IF FromNext(pc[p]) = 0 THEN Dealt(next(p), 0) ELSE proof_next[next(p)]
<1>1. Types /\ \A q \in Party : Right(q) /\ Left(q)
  BY DEF DealerInv
<1>2. chan[next(p)][p] # <<>> /\ chan' = [chan EXCEPT ![next(p)][p] = Tail(chan[next(p)][p])]
  BY DEF Receives
<1>3. /\ DOMAIN chan' = Party /\ \A r \in Party : DOMAIN chan'[r] = Party
      /\ chan'[next(p)][p] = Tail(chan[next(p)][p])
      /\ \A r, s \in Party : r # next(p) \/ s # p => chan'[r][s] = chan[r][s]
  <2>1. next(p) \in Party /\ Types
    BY <1>1, Ring
  <2> QED BY <1>2, <2>1 DEF Types
<1>4. \A q \in Party : /\ ToPre(pc'[q]) = ToPre(pc[q]) /\ ToNext(pc'[q]) = ToNext(pc[q])
                       /\ FromPre(pc'[q]) = FromPre(pc[q])
  OBVIOUS
<1>5. \A q \in Party : Right(q)'
  <2> TAKE q \in Party
  <2>1. chan'[q][next(q)] = chan[q][next(q)]
    BY <1>3, Ring
  <2> QED BY <1>1, <1>4, <2>1, RightSame, Ring
<1>6. /\ Left(next(p))' /\ FromNext(pc[p]) < ToPre(pc[next(p)])
      /\ Head(chan[next(p)][p])
             = IF FromNext(pc[p]) = 0 THEN Dealt(next(p), 0) ELSE proof_next[next(p)]
  <2>1. next(p) \in Party /\ pre(next(p)) = p
    BY Ring
  <2> QED BY <1>1, <1>2, <1>3, <1>4, <2>1, LeftTaken
<1>7. \A q \in Party : Left(q)'
  <2> TAKE q \in Party
  <2>1. CASE q = next(p)
    BY <1>6, <2>1
  <2>2. CASE q # next(p)
    <3>1. pre(q) \in Party /\ pre(q) # p
      BY <2>2, Ring
    <3>2. chan'[q][pre(q)] = chan[q][pre(q)] /\ FromNext(pc'[pre(q)]) = FromNext(pc[pre(q)])
      BY <1>3, <3>1
    <3> QED BY <1>1, <1>4, <3>2, LeftSame
  <2> QED BY <2>1, <2>2
<1> QED BY <1>3, <1>5, <1>6, <1>7

\* The halves for the previous party.
LEMMA SendPreHolds ==
    ASSUME DealerInv, kind = "dpf", NEW p \in Party, SendPre(p)
    PROVE  DealerInv'
<1>1. /\ pc' \in [Party -> Labels] /\ pc[p] = "send_pre" /\ pc'[p] = "send_next"
      /\ \A q \in Party : q # p => pc'[q] = pc[q]
  BY Moves DEF SendPre, Labels, DealerInv
<1>2. /\ ToPre(pc[p]) = 0 /\ ToPre(pc'[p]) = 1 /\ ToNext(pc'[p]) = ToNext(pc[p])
      /\ FromPre(pc'[p]) = FromPre(pc[p]) /\ FromNext(pc'[p]) = FromNext(pc[p])
      /\ Expanded(pc'[p]) = Expanded(pc[p]) /\ pc'[p] \notin {"ohv_recv_next", "ohv_recv_pre"}
  BY <1>1 DEF ToPre, ToNext, FromPre, FromNext, Expanded
<1>3. Send(p, pre(p), IF ToPre(pc[p]) = 0 THEN Dealt(p, 0) ELSE proof_next[p])
  BY <1>2 DEF SendPre
<1>4. UNCHANGED <<kind, differs, rev_pre, rev_next, proof_pre, proof_next, valid>>
  BY DEF SendPre, held
<1> QED BY <1>1, <1>2, <1>3, <1>4, SendLeft

\* The halves for the next party.
LEMMA SendNextHolds ==
    ASSUME DealerInv, kind = "dpf", NEW p \in Party, SendNext(p)
    PROVE  DealerInv'
<1>1. /\ pc' \in [Party -> Labels] /\ pc[p] = "send_next" /\ pc'[p] = "recv_pre"
      /\ \A q \in Party : q # p => pc'[q] = pc[q]
  BY Moves DEF SendNext, Labels, DealerInv
<1>2. /\ ToNext(pc[p]) = 0 /\ ToNext(pc'[p]) = 1 /\ ToPre(pc'[p]) = ToPre(pc[p])
      /\ FromPre(pc'[p]) = FromPre(pc[p]) /\ FromNext(pc'[p]) = FromNext(pc[p])
      /\ Expanded(pc'[p]) = Expanded(pc[p]) /\ pc'[p] \notin {"ohv_recv_next", "ohv_recv_pre"}
  BY <1>1 DEF ToPre, ToNext, FromPre, FromNext, Expanded
<1>3. Send(p, next(p), IF ToNext(pc[p]) = 0 THEN Dealt(p, 1) ELSE Tag(proof_pre[p]))
  BY <1>2 DEF SendNext
<1>4. UNCHANGED <<kind, differs, rev_pre, rev_next, proof_pre, proof_next, valid>>
  BY DEF SendNext, held
<1> QED BY <1>1, <1>2, <1>3, <1>4, SendRight

\* The tag for the next party.
LEMMA SendTagHolds ==
    ASSUME DealerInv, kind = "dpf", NEW p \in Party, SendTag(p)
    PROVE  DealerInv'
<1>1. /\ pc' \in [Party -> Labels] /\ pc[p] = "send_tag" /\ pc'[p] = "recv_tag"
      /\ \A q \in Party : q # p => pc'[q] = pc[q]
  BY Moves DEF SendTag, Labels, DealerInv
<1>2. /\ ToNext(pc[p]) = 1 /\ ToNext(pc'[p]) = 2 /\ ToPre(pc'[p]) = ToPre(pc[p])
      /\ FromPre(pc'[p]) = FromPre(pc[p]) /\ FromNext(pc'[p]) = FromNext(pc[p])
      /\ Expanded(pc'[p]) = Expanded(pc[p]) /\ pc'[p] \notin {"ohv_recv_next", "ohv_recv_pre"}
  BY <1>1 DEF ToPre, ToNext, FromPre, FromNext, Expanded
<1>3. Send(p, next(p), IF ToNext(pc[p]) = 0 THEN Dealt(p, 1) ELSE Tag(proof_pre[p]))
  BY <1>2 DEF SendTag
<1>4. UNCHANGED <<kind, differs, rev_pre, rev_next, proof_pre, proof_next, valid>>
  BY DEF SendTag, held
<1> QED BY <1>1, <1>2, <1>3, <1>4, SendRight

\* The proof for the previous party.
LEMMA SendProofHolds ==
    ASSUME DealerInv, kind = "dpf", NEW p \in Party, SendProof(p)
    PROVE  DealerInv'
<1>1. /\ pc' \in [Party -> Labels] /\ pc[p] = "send_proof" /\ pc'[p] = "recv_proof"
      /\ \A q \in Party : q # p => pc'[q] = pc[q]
  BY Moves DEF SendProof, Labels, DealerInv
<1>2. /\ ToPre(pc[p]) = 1 /\ ToPre(pc'[p]) = 2 /\ ToNext(pc'[p]) = ToNext(pc[p])
      /\ FromPre(pc'[p]) = FromPre(pc[p]) /\ FromNext(pc'[p]) = FromNext(pc[p])
      /\ Expanded(pc'[p]) = Expanded(pc[p]) /\ pc'[p] \notin {"ohv_recv_next", "ohv_recv_pre"}
  BY <1>1 DEF ToPre, ToNext, FromPre, FromNext, Expanded
<1>3. Send(p, pre(p), IF ToPre(pc[p]) = 0 THEN Dealt(p, 0) ELSE proof_next[p])
  BY <1>2 DEF SendProof
<1>4. UNCHANGED <<kind, differs, rev_pre, rev_next, proof_pre, proof_next, valid>>
  BY DEF SendProof, held
<1> QED BY <1>1, <1>2, <1>3, <1>4, SendLeft

\* What a batch of keys proves does not change.
LEMMA SameProofs ==
    ASSUME differs' = differs
    PROVE  /\ \A d, h : ProofOf(Dealt(d, h))' = ProofOf(Dealt(d, h))
           /\ \A d : HashesAgree(d)' = HashesAgree(d)
BY DEF ProofOf, Seen, Dealt, HashesAgree

\* The other parties know what they knew.
LEMMA OthersOwn ==
    ASSUME \A q \in Party : Own(q), NEW p \in Party, \A q \in Party : q # p => pc'[q] = pc[q],
           differs' = differs,
           \A q \in Party : q # p => /\ rev_pre'[q] = rev_pre[q] /\ rev_next'[q] = rev_next[q]
                                     /\ proof_pre'[q] = proof_pre[q]
                                     /\ proof_next'[q] = proof_next[q] /\ valid'[q] = valid[q]
    PROVE  \A q \in Party : q # p => Own(q)'
<1> SUFFICES ASSUME NEW q \in Party, q # p PROVE Own(q)'
  OBVIOUS
<1>1. pc'[q] = pc[q] /\ pc[q] \notin {"ohv_recv_next", "ohv_recv_pre"}
  BY DEF Own
<1> QED BY <1>1, OwnSame

\* The halves of the previous party.
LEMMA RecvPreHolds ==
    ASSUME DealerInv, kind = "dpf", NEW p \in Party, RecvPre(p)
    PROVE  DealerInv'
<1>1. Types /\ \A q \in Party : Right(q) /\ Left(q) /\ Own(q)
  BY DEF DealerInv
<1>2. /\ pc' \in [Party -> Labels] /\ pc[p] = "recv_pre" /\ pc'[p] = "recv_next"
      /\ \A q \in Party : q # p => pc'[q] = pc[q]
  BY <1>1, Moves DEF RecvPre, Labels
<1>3. /\ FromPre(pc[p]) = 0 /\ FromPre(pc'[p]) = 1
      /\ FromNext(pc[p]) = 0 /\ FromNext(pc'[p]) = 0
      /\ ToPre(pc'[p]) = ToPre(pc[p]) /\ ToNext(pc'[p]) = ToNext(pc[p])
      /\ ~Expanded(pc'[p]) /\ pc'[p] \notin {"ohv_recv_next", "ohv_recv_pre"}
  BY <1>2 DEF ToPre, ToNext, FromPre, FromNext, Expanded
<1>4. /\ UNCHANGED <<kind, differs, rev_next, proof_pre, proof_next, valid>> /\ Receives(p, pre(p))
      /\ rev_pre' = [rev_pre EXCEPT ![p] = Head(chan[pre(p)][p])]
  BY DEF RecvPre
<1>5. /\ DOMAIN chan' = Party /\ \A r \in Party : DOMAIN chan'[r] = Party
      /\ \A q \in Party : Right(q)' /\ Left(q)'
      /\ Head(chan[pre(p)][p]) = Dealt(pre(p), 1)
  BY <1>2, <1>3, <1>4, TakeFromPre
<1>6. /\ DOMAIN rev_pre' = Party /\ rev_pre'[p] = Dealt(pre(p), 1)
      /\ \A q \in Party : q # p => rev_pre'[q] = rev_pre[q]
  BY <1>1, <1>4, <1>5 DEF Types
<1>7. Types'
  BY <1>1, <1>2, <1>4, <1>5, <1>6 DEF Types
<1>8. \A q \in Party : q # p => Own(q)'
  BY <1>1, <1>2, <1>4, <1>6, OthersOwn
<1>9. Own(p)'
  <2>1. Keys(p)'
    BY <1>3, <1>6 DEF Keys, Dealt
  <2>2. Proofs(p)'
    BY <1>3 DEF Proofs
  <2>3. Verdict(p)'
    BY <1>1, <1>3, <1>4, SameProofs DEF Own, Verdict
  <2> QED BY <1>3, <2>1, <2>2, <2>3 DEF Own
<1> QED BY <1>5, <1>7, <1>8, <1>9 DEF DealerInv

\* The halves of the next party.
LEMMA RecvNextHolds ==
    ASSUME DealerInv, kind = "dpf", NEW p \in Party, RecvNext(p)
    PROVE  DealerInv'
<1>1. Types /\ \A q \in Party : Right(q) /\ Left(q) /\ Own(q)
  BY DEF DealerInv
<1>2. /\ pc' \in [Party -> Labels] /\ pc[p] = "recv_next" /\ pc'[p] = "extract"
      /\ \A q \in Party : q # p => pc'[q] = pc[q]
  BY <1>1, Moves DEF RecvNext, Labels
<1>3. /\ FromPre(pc[p]) = 1 /\ FromPre(pc'[p]) = 1
      /\ FromNext(pc[p]) = 0 /\ FromNext(pc'[p]) = 1
      /\ ToPre(pc'[p]) = ToPre(pc[p]) /\ ToNext(pc'[p]) = ToNext(pc[p])
      /\ ~Expanded(pc'[p]) /\ pc'[p] \notin {"ohv_recv_next", "ohv_recv_pre"}
  BY <1>2 DEF ToPre, ToNext, FromPre, FromNext, Expanded
<1>4. /\ UNCHANGED <<kind, differs, rev_pre, proof_pre, proof_next, valid>> /\ Receives(p, next(p))
      /\ rev_next' = [rev_next EXCEPT ![p] = Head(chan[next(p)][p])]
  BY DEF RecvNext
<1>5. /\ DOMAIN chan' = Party /\ \A r \in Party : DOMAIN chan'[r] = Party
      /\ \A q \in Party : Right(q)' /\ Left(q)'
      /\ Head(chan[next(p)][p]) = Dealt(next(p), 0)
  BY <1>2, <1>3, <1>4, TakeFromNext
<1>6. /\ DOMAIN rev_next' = Party /\ rev_next'[p] = Dealt(next(p), 0)
      /\ \A q \in Party : q # p => rev_next'[q] = rev_next[q]
  BY <1>1, <1>4, <1>5 DEF Types
<1>7. Types'
  BY <1>1, <1>2, <1>4, <1>5, <1>6 DEF Types
<1>8. \A q \in Party : q # p => Own(q)'
  BY <1>1, <1>2, <1>4, <1>6, OthersOwn
<1>9. Own(p)'
  <2>1. Keys(p)'
    BY <1>1, <1>3, <1>4, <1>6 DEF Own, Keys, Dealt
  <2>2. Proofs(p)'
    BY <1>3 DEF Proofs
  <2>3. Verdict(p)'
    BY <1>1, <1>3, <1>4, SameProofs DEF Own, Verdict
  <2> QED BY <1>3, <2>1, <2>2, <2>3 DEF Own
<1> QED BY <1>5, <1>7, <1>8, <1>9 DEF DealerInv

\* The keys are expanded.
LEMMA ExtractHolds ==
    ASSUME DealerInv, kind = "dpf", NEW p \in Party, Extract(p)
    PROVE  DealerInv'
<1>1. Types /\ \A q \in Party : Right(q) /\ Left(q) /\ Own(q)
  BY DEF DealerInv
<1>2. /\ pc' \in [Party -> Labels] /\ pc[p] = "extract" /\ pc'[p] = "send_tag"
      /\ \A q \in Party : q # p => pc'[q] = pc[q]
  BY <1>1, Moves DEF Extract, Labels
<1>3. /\ FromPre(pc[p]) = 1 /\ FromPre(pc'[p]) = 1 /\ FromNext(pc[p]) = 1 /\ FromNext(pc'[p]) = 1
      /\ ToPre(pc[p]) = 1 /\ ToPre(pc'[p]) = 1 /\ ToNext(pc[p]) = 1 /\ ToNext(pc'[p]) = 1
      /\ pc'[p] \notin {"ohv_recv_next", "ohv_recv_pre"}
  BY <1>2 DEF ToPre, ToNext, FromPre, FromNext
<1>4. /\ UNCHANGED <<kind, differs, chan, rev_pre, rev_next, valid>>
      /\ proof_pre' = [proof_pre EXCEPT ![p] = ProofOf(rev_pre[p])]
      /\ proof_next' = [proof_next EXCEPT ![p] = ProofOf(rev_next[p])]
  BY DEF Extract, held
<1>5. rev_pre[p] = Dealt(pre(p), 1) /\ rev_next[p] = Dealt(next(p), 0)
  BY <1>1, <1>3 DEF Own, Keys
<1>6. /\ DOMAIN proof_pre' = Party /\ DOMAIN proof_next' = Party
      /\ proof_pre'[p] = ProofOf(Dealt(pre(p), 1)) /\ proof_next'[p] = ProofOf(Dealt(next(p), 0))
      /\ \A q \in Party : q # p => proof_pre'[q] = proof_pre[q] /\ proof_next'[q] = proof_next[q]
  BY <1>1, <1>4, <1>5 DEF Types
<1>7. Types'
  BY <1>1, <1>2, <1>4, <1>6 DEF Types
<1>8. \A q \in Party : /\ FromPre(pc'[q]) = FromPre(pc[q]) /\ FromNext(pc'[q]) = FromNext(pc[q])
                       /\ ToPre(pc'[q]) = ToPre(pc[q]) /\ ToNext(pc'[q]) = ToNext(pc[q])
                       /\ proof_pre'[q] = proof_pre[q] \/ ToNext(pc[q]) < 2
                       /\ proof_next'[q] = proof_next[q] \/ ToPre(pc[q]) < 2
  BY <1>2, <1>3, <1>6
<1>9. \A q \in Party : Right(q)' /\ Left(q)'
  <2> TAKE q \in Party
  <2>1. next(q) \in Party /\ pre(q) \in Party
    BY Ring
  <2>2. Right(q)'
    BY <1>1, <1>4, <1>8, <2>1, RightSame
  <2>3. Left(q)'
    BY <1>1, <1>4, <1>8, <2>1, LeftSame
  <2> QED BY <2>2, <2>3
<1>10. \A q \in Party : q # p => Own(q)'
  BY <1>1, <1>2, <1>4, <1>6, OthersOwn
<1>11. Own(p)'
  <2>1. Keys(p)'
    BY <1>3, <1>4, <1>5 DEF Keys, Dealt
  <2>2. Proofs(p)'
    BY <1>4, <1>6, SameProofs DEF Proofs
  <2>3. Verdict(p)'
    BY <1>1, <1>3, <1>4, SameProofs DEF Own, Verdict
  <2> QED BY <1>3, <2>1, <2>2, <2>3 DEF Own
<1> QED BY <1>7, <1>9, <1>10, <1>11 DEF DealerInv

\* The tag of the previous party is compared.
LEMMA RecvTagHolds ==
    ASSUME DealerInv, kind = "dpf", NEW p \in Party, RecvTag(p)
    PROVE  DealerInv'
<1>1. Types /\ \A q \in Party : Right(q) /\ Left(q) /\ Own(q)
  BY DEF DealerInv
<1>2. /\ pc' \in [Party -> Labels] /\ pc[p] = "recv_tag" /\ pc'[p] = "send_proof"
      /\ \A q \in Party : q # p => pc'[q] = pc[q]
  BY <1>1, Moves DEF RecvTag, Labels
<1>3. /\ FromPre(pc[p]) = 1 /\ FromPre(pc'[p]) = 2
      /\ FromNext(pc[p]) = 1 /\ FromNext(pc'[p]) = 1
      /\ ToPre(pc'[p]) = ToPre(pc[p]) /\ ToNext(pc'[p]) = ToNext(pc[p])
      /\ Expanded(pc[p]) /\ Expanded(pc'[p]) /\ pc'[p] \notin {"ohv_recv_next", "ohv_recv_pre"}
  BY <1>2 DEF ToPre, ToNext, FromPre, FromNext, Expanded
<1>4. /\ UNCHANGED <<kind, differs, rev_pre, rev_next, proof_pre, proof_next>> /\ Receives(p, pre(p))
      /\ valid' = [valid EXCEPT ![p] = @ /\ Head(chan[pre(p)][p]) = Tag(proof_next[p])]
  BY DEF RecvTag, held
<1>5. /\ DOMAIN chan' = Party /\ \A r \in Party : DOMAIN chan'[r] = Party
      /\ \A q \in Party : Right(q)' /\ Left(q)'
      /\ 1 < ToNext(pc[pre(p)]) /\ Head(chan[pre(p)][p]) = Tag(proof_pre[pre(p)])
  BY <1>2, <1>3, <1>4, TakeFromPre
<1>6. /\ valid' \in [Party -> BOOLEAN] /\ \A q \in Party : q # p => valid'[q] = valid[q]
      /\ valid'[p] <=> valid[p] /\ Head(chan[pre(p)][p]) = Tag(proof_next[p])
  BY <1>1, <1>4 DEF Types
<1>7. Types'
  BY <1>1, <1>2, <1>4, <1>5, <1>6 DEF Types
<1>8. \A q \in Party : q # p => Own(q)'
  BY <1>1, <1>2, <1>4, <1>6, OthersOwn
\* Both sides prove the batch that the next party has dealt.
<1>9. Head(chan[pre(p)][p]) = Tag(proof_next[p]) <=> HashesAgree(next(p))
  <2>1. pre(p) \in Party /\ next(p) \in Party /\ pre(pre(p)) = next(p)
    BY Ring
  <2>2. Expanded(pc[pre(p)])
    BY <1>5 DEF ToNext, Expanded
  <2>3. proof_pre[pre(p)] = ProofOf(Dealt(next(p), 1)) /\ proof_next[p] = ProofOf(Dealt(next(p), 0))
    BY <1>1, <1>3, <2>1, <2>2 DEF Own, Proofs
  <2>4. \A a, b : Tag(a) = Tag(b) <=> a = b
    BY DEF Tag
  <2>5. Head(chan[pre(p)][p]) = Tag(proof_next[p]) <=> proof_pre[pre(p)] = proof_next[p]
    BY <1>5, <2>4
  <2> QED BY <1>1, <2>1, <2>3, <2>5, HalvesAgree
<1>10. Own(p)'
  <2>1. Keys(p)'
    <3>1. rev_pre[p] = Dealt(pre(p), 1) /\ rev_next[p] = Dealt(next(p), 0)
      BY <1>1, <1>3 DEF Own, Keys
    <3>2. rev_pre'[p] = Dealt(pre(p), 1) /\ rev_next'[p] = Dealt(next(p), 0)
      BY <1>4, <3>1
    <3> QED BY <3>2 DEF Keys, Dealt
  <2>2. Proofs(p)'
    BY <1>1, <1>3, <1>4, SameProofs DEF Own, Proofs
  <2>3. Verdict(p)'
    <3>1. valid[p] <=> /\ FromPre(pc[p]) = 2 => HashesAgree(next(p))
                       /\ FromNext(pc[p]) = 2 => HashesAgree(pre(p))
      BY <1>1 DEF Own, Verdict
    <3>2. valid'[p] <=> /\ FromPre(pc'[p]) = 2 => HashesAgree(next(p))
                        /\ FromNext(pc'[p]) = 2 => HashesAgree(pre(p))
      BY <1>3, <1>6, <1>9, <3>1
    <3>3. HashesAgree(next(p))' = HashesAgree(next(p)) /\ HashesAgree(pre(p))' = HashesAgree(pre(p))
      BY <1>4, SameProofs
    <3> QED BY <3>2, <3>3 DEF Verdict
  <2> QED BY <1>3, <2>1, <2>2, <2>3 DEF Own
<1> QED BY <1>5, <1>7, <1>8, <1>10 DEF DealerInv

\* The proof of the next party is compared.
LEMMA RecvProofHolds ==
    ASSUME DealerInv, kind = "dpf", NEW p \in Party, RecvProof(p)
    PROVE  DealerInv'
<1>1. Types /\ \A q \in Party : Right(q) /\ Left(q) /\ Own(q)
  BY DEF DealerInv
<1>2. /\ pc' \in [Party -> Labels] /\ pc[p] = "recv_proof" /\ pc'[p] = "done"
      /\ \A q \in Party : q # p => pc'[q] = pc[q]
  BY <1>1, Moves DEF RecvProof, Labels
<1>3. /\ FromPre(pc[p]) = 2 /\ FromPre(pc'[p]) = 2
      /\ FromNext(pc[p]) = 1 /\ FromNext(pc'[p]) = 2
      /\ ToPre(pc'[p]) = ToPre(pc[p]) /\ ToNext(pc'[p]) = ToNext(pc[p])
      /\ Expanded(pc[p]) /\ Expanded(pc'[p]) /\ pc'[p] \notin {"ohv_recv_next", "ohv_recv_pre"}
  BY <1>2 DEF ToPre, ToNext, FromPre, FromNext, Expanded
<1>4. /\ UNCHANGED <<kind, differs, rev_pre, rev_next, proof_pre, proof_next>> /\ Receives(p, next(p))
      /\ valid' = [valid EXCEPT ![p] = @ /\ Head(chan[next(p)][p]) = proof_pre[p]]
  BY DEF RecvProof, held
<1>5. /\ DOMAIN chan' = Party /\ \A r \in Party : DOMAIN chan'[r] = Party
      /\ \A q \in Party : Right(q)' /\ Left(q)'
      /\ 1 < ToPre(pc[next(p)]) /\ Head(chan[next(p)][p]) = proof_next[next(p)]
  BY <1>2, <1>3, <1>4, TakeFromNext
<1>6. /\ valid' \in [Party -> BOOLEAN] /\ \A q \in Party : q # p => valid'[q] = valid[q]
      /\ valid'[p] <=> valid[p] /\ Head(chan[next(p)][p]) = proof_pre[p]
  BY <1>1, <1>4 DEF Types
<1>7. Types'
  BY <1>1, <1>2, <1>4, <1>5, <1>6 DEF Types
<1>8. \A q \in Party : q # p => Own(q)'
  BY <1>1, <1>2, <1>4, <1>6, OthersOwn
\* Both sides prove the batch that the previous party has dealt.
<1>9. Head(chan[next(p)][p]) = proof_pre[p] <=> HashesAgree(pre(p))
  <2>1. pre(p) \in Party /\ next(p) \in Party /\ next(next(p)) = pre(p)
    BY Ring
  <2>2. Expanded(pc[next(p)])
    BY <1>5 DEF ToPre, Expanded
  <2>3. proof_next[next(p)] = ProofOf(Dealt(pre(p), 0)) /\ proof_pre[p] = ProofOf(Dealt(pre(p), 1))
    BY <1>1, <1>3, <2>1, <2>2 DEF Own, Proofs
  <2> QED BY <1>1, <1>5, <2>1, <2>3, HalvesAgree
<1>10. Own(p)'
  <2>1. Keys(p)'
    <3>1. rev_pre[p] = Dealt(pre(p), 1) /\ rev_next[p] = Dealt(next(p), 0)
      BY <1>1, <1>3 DEF Own, Keys
    <3>2. rev_pre'[p] = Dealt(pre(p), 1) /\ rev_next'[p] = Dealt(next(p), 0)
      BY <1>4, <3>1
    <3> QED BY <3>2 DEF Keys, Dealt
  <2>2. Proofs(p)'
    BY <1>1, <1>3, <1>4, SameProofs DEF Own, Proofs
  <2>3. Verdict(p)'
    <3>1. valid[p] <=> /\ FromPre(pc[p]) = 2 => HashesAgree(next(p))
                       /\ FromNext(pc[p]) = 2 => HashesAgree(pre(p))
      BY <1>1 DEF Own, Verdict
    <3>2. valid'[p] <=> /\ FromPre(pc'[p]) = 2 => HashesAgree(next(p))
                        /\ FromNext(pc'[p]) = 2 => HashesAgree(pre(p))
      BY <1>3, <1>6, <1>9, <3>1
    <3>3. HashesAgree(next(p))' = HashesAgree(next(p)) /\ HashesAgree(pre(p))' = HashesAgree(pre(p))
      BY <1>4, SameProofs
    <3> QED BY <3>2, <3>3 DEF Verdict
  <2> QED BY <1>3, <2>1, <2>2, <2>3 DEF Own
<1> QED BY <1>5, <1>7, <1>8, <1>10 DEF DealerInv

\* Connecting only lets the parties start.
LEMMA ConnectHolds ==
    ASSUME DealerInv, NEW p \in Party, Connect(p)
    PROVE  DealerInv'
<1>1. Types
  BY DEF DealerInv
<1>2. /\ pc' = [q \in Party |-> IF pc[q] = "connect" /\ opened'[q] = 2 THEN "send_pre" ELSE pc[q]]
      /\ UNCHANGED <<kind, differs, chan, rev_pre, rev_next, proof_pre, proof_next, valid>>
  BY DEF Connect, held
<1>3. pc' \in [Party -> Labels] /\ \A q \in Party : pc'[q] = pc[q] \/ (pc[q] = "connect" /\ pc'[q] = "send_pre")
  <2>1. \A q \in Party : pc[q] \in Labels /\ "send_pre" \in Labels
    BY <1>1 DEF Types, Labels
  <2> QED BY <1>2, <2>1
<1>4. Types'
  BY <1>1, <1>2, <1>3 DEF Types
<1>5. \A q \in Party : /\ FromPre(pc'[q]) = FromPre(pc[q]) /\ FromNext(pc'[q]) = FromNext(pc[q])
                       /\ ToPre(pc'[q]) = ToPre(pc[q]) /\ ToNext(pc'[q]) = ToNext(pc[q])
                       /\ Expanded(pc'[q]) = Expanded(pc[q])
  <2> TAKE q \in Party
  <2>1. CASE pc'[q] = pc[q]
    BY <2>1
  <2>2. CASE pc[q] = "connect" /\ pc'[q] = "send_pre"
    BY <2>2 DEF FromPre, FromNext, ToPre, ToNext, Expanded
  <2> QED BY <1>3, <2>1, <2>2
<1>6. ASSUME kind = "dpf", NEW q \in Party PROVE Right(q)' /\ Left(q)' /\ Own(q)'
  <2>1. Right(q) /\ Left(q) /\ Own(q)
    BY <1>6 DEF DealerInv
  <2>2. next(q) \in Party /\ pre(q) \in Party
    BY Ring
  <2>3. Right(q)'
    BY <1>2, <1>5, <2>1, <2>2, RightSame
  <2>4. Left(q)'
    BY <1>2, <1>5, <2>1, <2>2, LeftSame
  <2>5. pc'[q] \notin {"ohv_recv_next", "ohv_recv_pre"}
    BY <1>3, <2>1 DEF Own
  <2>6. Own(q)'
    BY <1>2, <1>5, <2>1, <2>5, OwnSame
  <2> QED BY <2>3, <2>4, <2>6
<1> QED BY <1>2, <1>4, <1>6 DEF DealerInv

\* The vectors of 128 nodes at most: nothing is said of their keys.
LEMMA OhvTypes ==
    ASSUME Types, kind = "ohv", NEW p \in Party, PartyStep(p)
    PROVE  Types' /\ kind' = kind
<1>1. next(p) \in Party /\ pre(p) \in Party
  BY Ring
<1>2. CASE SendPre(p)
  <2>1. /\ pc' \in [Party -> Labels] /\ UNCHANGED <<kind, differs, rev_pre, rev_next, proof_pre, proof_next, valid>>
        /\ chan' = [chan EXCEPT ![p][pre(p)] = Append(chan[p][pre(p)], Dealt(p, 0))]
    BY <1>2, Moves DEF SendPre, Send, Labels, held
  <2> QED BY <1>1, <2>1, OneConnection DEF Types
<1>3. CASE SendNext(p)
  <2>1. /\ pc' \in [Party -> Labels] /\ UNCHANGED <<kind, differs, rev_pre, rev_next, proof_pre, proof_next, valid>>
        /\ chan' = [chan EXCEPT ![p][next(p)] = Append(chan[p][next(p)], Dealt(p, 1))]
    BY <1>3, Moves DEF SendNext, Send, Labels, held
  <2> QED BY <1>1, <2>1, OneConnection DEF Types
<1>4. CASE SendTag(p)
  <2>1. /\ pc' \in [Party -> Labels] /\ UNCHANGED <<kind, differs, rev_pre, rev_next, proof_pre, proof_next, valid>>
        /\ chan' = [chan EXCEPT ![p][next(p)] = Append(chan[p][next(p)], Tag(proof_pre[p]))]
    BY <1>4, Moves DEF SendTag, Send, Labels, held
  <2> QED BY <1>1, <2>1, OneConnection DEF Types
<1>5. CASE SendProof(p)
  <2>1. /\ pc' \in [Party -> Labels] /\ UNCHANGED <<kind, differs, rev_pre, rev_next, proof_pre, proof_next, valid>>
        /\ chan' = [chan EXCEPT ![p][pre(p)] = Append(chan[p][pre(p)], proof_next[p])]
    BY <1>5, Moves DEF SendProof, Send, Labels, held
  <2> QED BY <1>1, <2>1, OneConnection DEF Types
<1>6. CASE RecvPre(p) \/ RecvTag(p) \/ OhvRecvPre(p)
  <2>1. /\ pc' \in [Party -> Labels] /\ UNCHANGED <<kind, differs>>
        /\ chan' = [chan EXCEPT ![pre(p)][p] = Tail(chan[pre(p)][p])]
    BY <1>6, Moves DEF RecvPre, RecvTag, OhvRecvPre, Receives, Labels
  <2>2. DOMAIN chan' = Party /\ \A r \in Party : DOMAIN chan'[r] = Party
    BY <1>1, <2>1, OneConnection
  <2>3. /\ DOMAIN rev_pre' = Party /\ DOMAIN rev_next' = Party
        /\ DOMAIN proof_pre' = Party /\ DOMAIN proof_next' = Party
    BY <1>6 DEF RecvPre, RecvTag, OhvRecvPre, held, Types
  <2>4. valid' \in [Party -> BOOLEAN]
    BY <1>6 DEF RecvPre, RecvTag, OhvRecvPre, Types
  <2> QED BY <2>1, <2>2, <2>3, <2>4 DEF Types
<1>7. CASE RecvNext(p) \/ RecvProof(p) \/ OhvRecvNext(p)
  <2>1. /\ pc' \in [Party -> Labels] /\ UNCHANGED <<kind, differs>>
        /\ chan' = [chan EXCEPT ![next(p)][p] = Tail(chan[next(p)][p])]
    BY <1>7, Moves DEF RecvNext, RecvProof, OhvRecvNext, Receives, Labels
  <2>2. DOMAIN chan' = Party /\ \A r \in Party : DOMAIN chan'[r] = Party
    BY <1>1, <2>1, OneConnection
  <2>3. /\ DOMAIN rev_pre' = Party /\ DOMAIN rev_next' = Party
        /\ DOMAIN proof_pre' = Party /\ DOMAIN proof_next' = Party
    BY <1>7 DEF RecvNext, RecvProof, OhvRecvNext, held, Types
  <2>4. valid' \in [Party -> BOOLEAN]
    BY <1>7 DEF RecvNext, RecvProof, OhvRecvNext, Types
  <2> QED BY <2>1, <2>2, <2>3, <2>4 DEF Types
<1>8. CASE Extract(p)
  <2>1. pc' \in [Party -> Labels]
    BY <1>8, Moves DEF Extract, Labels
  <2> QED BY <1>8, <2>1 DEF Extract, held, Types
<1>9. CASE Connect(p)
  <2>1. \A q \in Party : pc[q] \in Labels /\ "send_pre" \in Labels
    BY DEF Types, Labels
  <2>2. pc' \in [Party -> Labels]
    BY <1>9, <2>1 DEF Connect
  <2> QED BY <1>9, <2>2 DEF Connect, held, Types
<1> QED BY <1>2, <1>3, <1>4, <1>5, <1>6, <1>7, <1>8, <1>9 DEF PartyStep

\* The messages that are pending are told by where the parties are.
THEOREM DealerInvariance == Spec => []DealerInv
<1>1. Init => DealerInv
  <2> SUFFICES ASSUME Init PROVE DealerInv
    OBVIOUS
  <2>1. /\ pc = [p \in Party |-> "connect"] /\ valid = [p \in Party |-> TRUE]
        /\ chan = [p \in Party |-> [q \in Party |-> <<>>]]
    BY DEF Init
  <2>2. Types
    <3>1. "connect" \in Labels
      BY DEF Labels
    <3> QED BY <2>1, <3>1 DEF Init, Types
  <2>3. /\ ToPre("connect") = 0 /\ ToNext("connect") = 0
        /\ FromPre("connect") = 0 /\ FromNext("connect") = 0 /\ ~Expanded("connect")
    BY DEF ToPre, ToNext, FromPre, FromNext, Expanded
  <2>4. ASSUME NEW p \in Party PROVE Right(p) /\ Left(p) /\ Own(p)
    <3>1. /\ next(p) \in Party /\ pre(p) \in Party
          /\ pc[p] = "connect" /\ pc[next(p)] = "connect" /\ pc[pre(p)] = "connect"
          /\ chan[p][next(p)] = <<>> /\ chan[p][pre(p)] = <<>> /\ valid[p]
      BY <2>1, Ring
    <3>2. Right(p) /\ Left(p)
      BY <2>3, <3>1 DEF Right, Left, Pending
    <3>3. Own(p)
      BY <2>3, <3>1 DEF Own, Keys, Proofs, Verdict
    <3> QED BY <3>2, <3>3
  <2> QED BY <2>2, <2>4 DEF DealerInv
<1>2. DealerInv /\ [Next]_vars => DealerInv'
  <2> SUFFICES ASSUME DealerInv, [Next]_vars PROVE DealerInv'
    OBVIOUS
  <2>1. ASSUME NEW p \in Party, PartyStep(p), kind = "dpf" PROVE DealerInv'
    <3>1. ~OhvRecvNext(p) /\ ~OhvRecvPre(p)
      <4>1. pc[p] \notin {"ohv_recv_next", "ohv_recv_pre"}
        BY <2>1 DEF DealerInv, Own
      <4> QED BY <4>1 DEF OhvRecvNext, OhvRecvPre, Goto
    <3> QED BY <2>1, <3>1, ConnectHolds, SendPreHolds, SendNextHolds, RecvPreHolds, RecvNextHolds,
               ExtractHolds, SendTagHolds, RecvTagHolds, SendProofHolds, RecvProofHolds DEF PartyStep
  <2>2. ASSUME NEW p \in Party, PartyStep(p), kind = "ohv" PROVE DealerInv'
    BY <2>2, OhvTypes DEF DealerInv
  <2>3. CASE UNCHANGED vars
    <3>1. /\ UNCHANGED <<kind, differs, pc, chan, rev_pre, rev_next, proof_pre, proof_next, valid>>
      BY <2>3 DEF vars, held
    <3>2. Types'
      BY <3>1 DEF DealerInv, Types
    <3>3. ASSUME kind = "dpf", NEW q \in Party PROVE Right(q)' /\ Left(q)' /\ Own(q)'
      <4>1. Right(q) /\ Left(q) /\ Own(q)
        BY <3>3 DEF DealerInv
      <4>2. Right(q)' /\ Left(q)'
        BY <3>1, <4>1, RightSame, LeftSame
      <4>3. Own(q)'
        <5>1. pc'[q] \notin {"ohv_recv_next", "ohv_recv_pre"}
          BY <3>1, <4>1 DEF Own
        <5> QED BY <3>1, <4>1, <5>1, OwnSame
      <4> QED BY <4>2, <4>3
    <3> QED BY <3>1, <3>2, <3>3 DEF DealerInv
  <2>4. kind \in {"dpf", "ohv"}
    BY DEF DealerInv, Types
  <2> QED BY <2>1, <2>2, <2>3, <2>4 DEF Next
<1> QED BY <1>1, <1>2, PTL DEF Spec

\* When two neighbours have finished, the keys that they hold of the batch which
\* the third party dealt are the two halves of the same pairs (DPFPlayer).
THEOREM NeighboursHoldPairs == Spec => []HoldersMatch
<1>1. DealerInv => HoldersMatch
  <2> SUFFICES ASSUME DealerInv, NEW p \in Party, kind = "dpf", pc[p] = "done",
                      pc[next(p)] = "done", NEW j \in Batch
               PROVE  rev_pre[p][j] = <<pre(p), j, 1>> /\ rev_next[next(p)][j] = <<pre(p), j, 0>>
    BY DEF HoldersMatch
  <2>1. next(p) \in Party /\ next(next(p)) = pre(p)
    BY Ring
  <2>2. FromPre("done") = 2 /\ FromNext("done") = 2
    BY DEF FromPre, FromNext
  <2>3. rev_pre[p] = Dealt(pre(p), 1)
    BY <2>2 DEF DealerInv, Own, Keys
  <2>4. rev_next[next(p)] = Dealt(pre(p), 0)
    BY <2>1, <2>2 DEF DealerInv, Own, Keys
  <2> QED BY <2>3, <2>4 DEF Dealt
<1> QED BY <1>1, DealerInvariance, PTL

\* A party finishes with a valid batch exactly if the pairs of both its dealers
\* have vectors of proofs that agree in the first sixteenth: extract_dpf compares
\* all that dpf_batch_eval hashes, of every pair and for both dealers, and blames no
\* pair for the bytes that it leaves out.
THEOREM ChecksSeeFirstSixteenth == Spec => []CheckSeesFirstSixteenth
<1>1. ASSUME Types, NEW d \in Party, NEW j \in Batch
      PROVE  differs[d][j] \cap HashedBytes = {}
                 <=> \A b \in differs[d][j] : 16 * b >= 32 * NumLeaves
  <2>1. differs[d][j] \in Spoils
    BY <1>1 DEF Types
  <2>2. \A b \in differs[d][j] : b \in VectorBytes
    BY <2>1, SpoilsAssumption
  <2>3. ASSUME NEW b \in VectorBytes PROVE b \notin HashedBytes <=> 16 * b >= 32 * NumLeaves
    BY NumLeavesAssumption DEF VectorBytes, HashedBytes
  <2> QED BY <2>2, <2>3
<1>2. DealerInv => CheckSeesFirstSixteenth
  <2> SUFFICES ASSUME DealerInv, NEW p \in Party, kind = "dpf", pc[p] = "done"
               PROVE  valid[p] <=> \A d \in {pre(p), next(p)}, j \in Batch :
                                       \A b \in differs[d][j] : 16 * b >= 32 * NumLeaves
    BY DEF CheckSeesFirstSixteenth
  <2>1. FromPre("done") = 2 /\ FromNext("done") = 2
    BY DEF FromPre, FromNext
  <2>2. valid[p] <=> HashesAgree(next(p)) /\ HashesAgree(pre(p))
    BY <2>1 DEF DealerInv, Own, Verdict
  <2>3. Types /\ pre(p) \in Party /\ next(p) \in Party
    BY Ring DEF DealerInv
  <2>4. \A d \in {pre(p), next(p)} :
            HashesAgree(d) <=> \A j \in Batch : \A b \in differs[d][j] : 16 * b >= 32 * NumLeaves
    BY <1>1, <2>3 DEF HashesAgree
  <2> QED BY <2>2, <2>4
<1> QED BY <1>2, DealerInvariance, PTL
===============================================================================
