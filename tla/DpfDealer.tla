------------------------------- MODULE DpfDealer ------------------------------
(***************************************************************************)
(* The exchange of keys in the offline phase: init_network of fss.h,       *)
(* DPFPlayer of dpf_dealer.h and OHVlayer of ohv_dealer.h.  Each of the    *)
(* three parties deals a batch of pairs of keys to the other two, receives *)
(* one key of each of their pairs, expands it, and compares what the       *)
(* expansion proves with the holder of the pair's other key.               *)
(*                                                                         *)
(* A key is named by its dealer, its number in the batch and its half.     *)
(* The keys of a pair that was made by gen_dpf_key_pair expand to the same *)
(* vector of leaf proofs (DpfKeys, ProofsAgree); those of a spoiled pair   *)
(* differ at some bytes of it.  A hash stands for the bytes it takes, and  *)
(* the hash of hashes over a batch for the sequence it hashes.             *)
(***************************************************************************)
EXTENDS Integers, Sequences

CONSTANTS NumDpf,       \* num_dpf
          Cap,          \* how many messages a connection holds in one direction
          NumLeaves,    \* 1 << depth
          Spoils        \* the sets of bytes at which two proof vectors may differ

\* dpf_batch_eval: two blocks of 16 bytes for each leaf in proof_vec, of which the
\* final hash takes 2 * 1 << depth bytes.
VectorBytes == 0..(32 * NumLeaves - 1)
HashedBytes == 0..(2 * NumLeaves - 1)

ASSUME NumDpfAssumption == NumDpf \in Nat \ {0}
ASSUME CapAssumption == Cap \in Nat \ {0}
ASSUME NumLeavesAssumption == NumLeaves \in Nat \ {0}
ASSUME SpoilsAssumption == Spoils \subseteq SUBSET VectorBytes /\ {} \in Spoils

Party   == 0..2
next(p) == (p + 1) % 3
pre(p)  == (p + 2) % 3
Batch   == 1..NumDpf

VARIABLES
    kind,       \* "dpf", or "ohv" for trees of at most 128 nodes
    differs,    \* differs[d][j]: the bytes at which the proof vectors of pair j of dealer
                \* d differ, none if the pair is as gen_dpf_key_pair makes it
    opened,     \* opened[p]: how many of its two sockets party p has opened
    pc,
    chan,       \* chan[p][q]: bytes on the way from p to q
    rev_pre,    \* rev_buf_pre, rev_buf_next: the keys received
    rev_next,
    proof_pre,  \* pre_proof, next_proof
    proof_next,
    valid

held == <<rev_pre, rev_next>>
vars == <<kind, differs, opened, pc, chan, held, proof_pre, proof_next, valid>>

-------------------------------------------------------------------------------

Init == /\ kind \in {"dpf", "ohv"}
        /\ differs \in [Party -> [Batch -> Spoils]]
        /\ kind = "ohv" => differs = [d \in Party |-> [j \in Batch |-> {}]]
        /\ opened = [p \in Party |-> 0]
        /\ pc = [p \in Party |-> "connect"]
        /\ chan = [p \in Party |-> [q \in Party |-> <<>>]]
        /\ rev_pre = [p \in Party |-> <<>>]
        /\ rev_next = [p \in Party |-> <<>>]
        /\ proof_pre = [p \in Party |-> <<>>]
        /\ proof_next = [p \in Party |-> <<>>]
        /\ valid = [p \in Party |-> TRUE]

\* Which of the two halves the final hash of dpf_batch_eval tells a key to be: of
\* proof vectors that agree on the bytes it takes, none.
Seen(k) == IF differs[k[1]][k[2]] \cap HashedBytes = {} THEN 0 ELSE k[3]

\* Slips: every party serves first; both neighbours get the same halves; the
\* proof of the last key only.
SocketServerFirst(p) == <<"pre", "next">>

DealtSame(p, half) == [j \in Batch |-> <<p, j, 0>>]

ProofOfLast(keys) == LET k == keys[NumDpf] IN <<<<k[1], k[2], Seen(k)>>>>

\* The sockets of init_network in the order they are opened: pre is the server of
\* the previous party, next the client of the next one.
Socket(p) == IF p = 2 THEN <<"next", "pre">> ELSE <<"pre", "next">>

Opens(p, side) == opened[p] < 2 /\ Socket(p)[opened[p] + 1] = side

\* A server waits in accept, a client tries again until its server listens.
Connect(p) ==
    /\ Opens(p, "next") /\ Opens(next(p), "pre")
    /\ opened' = [opened EXCEPT ![p] = @ + 1, ![next(p)] = @ + 1]
    /\ pc' = [q \in Party |-> IF pc[q] = "connect" /\ opened'[q] = 2 THEN "send_pre" ELSE pc[q]]
    /\ UNCHANGED <<kind, differs, chan, held, proof_pre, proof_next, valid>>

Goto(p, from, to) == pc[p] = from /\ pc' = [pc EXCEPT ![p] = to]

\* A send waits for room; a batch of keys is one message.
Send(p, q, m) == Len(chan[p][q]) < Cap /\ chan' = [chan EXCEPT ![p][q] = Append(@, m)]

\* The halves of p's own pairs for one of its neighbours.
Dealt(p, half) == [j \in Batch |-> <<p, j, half>>]

SendPre(p) ==
    /\ Goto(p, "send_pre", "send_next")
    /\ Send(p, pre(p), Dealt(p, 0))
    /\ UNCHANGED <<kind, differs, opened, held, proof_pre, proof_next, valid>>

SendNext(p) ==
    /\ Goto(p, "send_next", IF kind = "dpf" THEN "recv_pre" ELSE "ohv_recv_next")
    /\ Send(p, next(p), Dealt(p, 1))
    /\ UNCHANGED <<kind, differs, opened, held, proof_pre, proof_next, valid>>

Receives(p, q) == chan[q][p] # <<>> /\ chan' = [chan EXCEPT ![q][p] = Tail(@)]

RecvPre(p) ==
    /\ Goto(p, "recv_pre", "recv_next")
    /\ Receives(p, pre(p))
    /\ rev_pre' = [rev_pre EXCEPT ![p] = Head(chan[pre(p)][p])]
    /\ UNCHANGED <<kind, differs, opened, rev_next, proof_pre, proof_next, valid>>

RecvNext(p) ==
    /\ Goto(p, "recv_next", "extract")
    /\ Receives(p, next(p))
    /\ rev_next' = [rev_next EXCEPT ![p] = Head(chan[next(p)][p])]
    /\ UNCHANGED <<kind, differs, opened, rev_pre, proof_pre, proof_next, valid>>

\* OHV_gen_send_recv receives in the other order, both times into ohv_next_buf.
OhvRecvNext(p) ==
    /\ Goto(p, "ohv_recv_next", "ohv_recv_pre")
    /\ Receives(p, next(p))
    /\ rev_next' = [rev_next EXCEPT ![p] = Head(chan[next(p)][p])]
    /\ UNCHANGED <<kind, differs, opened, rev_pre, proof_pre, proof_next, valid>>

OhvRecvPre(p) ==
    /\ Goto(p, "ohv_recv_pre", "done")
    /\ Receives(p, pre(p))
    /\ rev_next' = [rev_next EXCEPT ![p] = Head(chan[pre(p)][p])]
    /\ UNCHANGED <<kind, differs, opened, rev_pre, proof_pre, proof_next, valid>>

\* What the loop of extract_dpf makes of the proofs of a batch of keys.
ProofOf(keys) ==
    [j \in 1..Len(keys) |-> LET k == keys[j] IN <<k[1], k[2], Seen(k)>>]

Extract(p) ==
    /\ Goto(p, "extract", "send_tag")
    /\ proof_pre' = [proof_pre EXCEPT ![p] = ProofOf(rev_pre[p])]
    /\ proof_next' = [proof_next EXCEPT ![p] = ProofOf(rev_next[p])]
    /\ UNCHANGED <<kind, differs, opened, chan, held, valid>>

Tag(proof) == <<"hash", proof>>

SendTag(p) ==
    /\ Goto(p, "send_tag", "recv_tag")
    /\ Send(p, next(p), Tag(proof_pre[p]))
    /\ UNCHANGED <<kind, differs, opened, held, proof_pre, proof_next, valid>>

RecvTag(p) ==
    /\ Goto(p, "recv_tag", "send_proof")
    /\ Receives(p, pre(p))
    /\ valid' = [valid EXCEPT ![p] = @ /\ Head(chan[pre(p)][p]) = Tag(proof_next[p])]
    /\ UNCHANGED <<kind, differs, opened, held, proof_pre, proof_next>>

\* A mismatch of the tags is reported, and the exchange goes on.
SendProof(p) ==
    /\ Goto(p, "send_proof", "recv_proof")
    /\ Send(p, pre(p), proof_next[p])
    /\ UNCHANGED <<kind, differs, opened, held, proof_pre, proof_next, valid>>

RecvProof(p) ==
    /\ Goto(p, "recv_proof", "done")
    /\ Receives(p, next(p))
    /\ valid' = [valid EXCEPT ![p] = @ /\ Head(chan[next(p)][p]) = proof_pre[p]]
    /\ UNCHANGED <<kind, differs, opened, held, proof_pre, proof_next>>

PartyStep(p) ==
    \/ Connect(p)
    \/ SendPre(p) \/ SendNext(p) \/ RecvPre(p) \/ RecvNext(p)
    \/ OhvRecvNext(p) \/ OhvRecvPre(p)
    \/ Extract(p) \/ SendTag(p) \/ RecvTag(p) \/ SendProof(p) \/ RecvProof(p)

Next == \E p \in Party : PartyStep(p)

Spec == Init /\ [][Next]_vars

\* The threads run: each takes its next step when its call can return.
FairSpec == Spec /\ \A p \in Party : WF_vars(PartyStep(p))

-------------------------------------------------------------------------------

\* The key that a party received from the one before it and the key that the next
\* party received from the one after it are the two halves of a pair, which the
\* third party has dealt: what ObliviousSelection assumes of its keys.
HoldersMatch ==
    \A p \in Party : kind = "dpf" /\ pc[p] = "done" /\ pc[next(p)] = "done" =>
        \A j \in Batch : /\ rev_pre[p][j] = <<pre(p), j, 1>>
                         /\ rev_next[next(p)][j] = <<pre(p), j, 0>>

\* A party ends up with a valid batch exactly if the pairs that it holds a key of
\* have vectors of proofs that agree in their first sixteenth, which is what the
\* final hash of dpf_batch_eval takes of them: each of the two comparisons of
\* extract_dpf is made by both holders of a batch, and covers every pair of it.
CheckSeesFirstSixteenth ==
    \A p \in Party : kind = "dpf" /\ pc[p] = "done" =>
        (valid[p] <=> \A d \in {pre(p), next(p)}, j \in Batch :
                          \A b \in differs[d][j] : 16 * b >= 32 * NumLeaves)

\* The parties connect and finish, in whatever order their threads run.
EveryoneFinishes == <>(\A p \in Party : pc[p] = "done")
===============================================================================
