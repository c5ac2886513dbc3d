---------------------------- MODULE ArithmeticCalls ----------------------------
(***************************************************************************)
(* The operations on additive shares: Sh3Encryptor's localInt and reveal,  *)
(* and the products of Sh3Evaluator: of two words, of a word and a bit, of *)
(* a public word and a bit (both by SharedOT), and of two words with a     *)
(* truncation.  A call names the registers that it reads and writes.       *)
(***************************************************************************)
EXTENDS PartyCalls, RingShares

CONSTANTS Registers,            \* names
          Prf(_, _, _, _)       \* of a seed: word i at a position of p's stream

VARIABLES
    reg,            \* reg[p][n]: the pair that p holds in register n
    seed,           \* what the generators' keys are taken from
    drawn,          \* drawn[p]: positions of the common generators that p has used
    otUses,         \* otUses[p]: what p has done with mOtPrev and mOtNext, in
                    \* order; mIdx is the length
    kept            \* kept[p]: the word that the next task of a call has captured

arith == <<reg, seed, drawn, otUses, kept>>

ArithmeticInit(pairs, keys) ==
    /\ reg = [p \in Party |-> [n \in Registers |->
                IF n \in DOMAIN pairs THEN SharingOf(pairs[n])[p] ELSE MkPair(0, 0)]]
    /\ seed = keys
    /\ drawn = [p \in Party |-> 0]
    /\ otUses = [p \in Party |-> [prev |-> <<>>, next |-> <<>>]]
    /\ kept = [p \in Party |-> 0]

\* The next word of mNextCommon and of mPrevCommon.
Common(p) == MkPair(Prf(seed, p, drawn[p], 0), Prf(seed, PrevOf(p), drawn[p], 0))

Write(p, n, pair) == reg' = [reg EXCEPT ![p][n] = pair]

-------------------------------------------------------------------------------
\* localInt, asyncMul: the own component is computed and sent on, and the copy of
\* the previous party's received.
SendOwn(p, op, own) ==
    /\ InTask(p, op, 0)
    /\ Write(p, Call(p).c, MkPair(own, reg[p][Call(p).c][1]))
    /\ Send(p, <<>>, <<Copied(own)>>)
    /\ NextTask(p)
    /\ UNCHANGED <<seed, drawn, otUses, kept>>

LocalInt(p) == InCall(p, "localInt") /\ SendOwn(p, "localInt", Call(p).val[p])

Multiply(p) == InCall(p, "mul")
               /\ SendOwn(p, "mul", MulTerm(reg[p][Call(p).a], reg[p][Call(p).b]))

ReceiveCopy(p) ==
    /\ InTask(p, "localInt", 1) \/ InTask(p, "mul", 1)
    /\ Received(p, Previous)
    /\ LET c == Call(p).c
       IN Write(p, c, MkPair(reg[p][c][0], Head(FromPrev(p)).data))
    /\ Exchange(p, Previous, <<>>, <<>>)
    /\ EndCall(p)
    /\ UNCHANGED <<seed, drawn, otUses, kept>>

-------------------------------------------------------------------------------
Script(p) == IF Call(p).op = "mulBit"
             THEN BitScript(p, reg[p][Call(p).a], reg[p][Call(p).b])
             ELSE PublicScript(p, Call(p).v, reg[p][Call(p).b])

InProduct(p, k) == InTask(p, "mulBit", k) \/ InTask(p, "mulPublic", k)

SendBit(p) ==
    /\ InProduct(p, 0)
    /\ LET messages(side) ==
               LET m == MessagesOf(p, Script(p), side, Len(otUses[p][side]))
               IN [k \in DOMAIN m |-> Copied(m[k])]
           uses(side) ==
               LET u == UsesOf(Script(p), side)
               IN [k \in DOMAIN u |-> u[k].kind]
       IN /\ Send(p, messages("prev"), messages("next"))
          /\ otUses' = [otUses EXCEPT ![p] = [prev |-> @.prev \o uses("prev"),
                                              next |-> @.next \o uses("next")]]
    /\ NextTask(p)
    /\ UNCHANGED <<reg, seed, drawn, kept>>

OpenBit(p) ==
    /\ InProduct(p, 1)
    /\ LET private == Call(p).op = "mulBit"
           inbox   == IF private THEN BitInbox(p) ELSE PublicInbox(p)
           prev    == [k \in 1 .. inbox.prev |-> FromPrev(p)[k].data]
           next    == [k \in 1 .. inbox.next |-> FromNext(p)[k].data]
           b       == reg[p][Call(p).b]
       IN /\ Received(p, inbox)
          /\ Write(p, Call(p).c, IF private THEN BitResult(p, b, prev, next)
                                            ELSE PublicResult(p, b, prev, next))
          /\ Exchange(p, inbox, <<>>, <<>>)
    /\ EndCall(p)
    /\ UNCHANGED <<seed, drawn, otUses, kept>>

-------------------------------------------------------------------------------
(***************************************************************************)
(* The product with a truncation by d bits.  Each party has a random word  *)
(* t; its share of r is t >> 2 and of r / 2^d is t >> (d + 2).  The parties *)
(* reveal ab - r to parties 0 and 1, which shift it and add it to the      *)
(* component of r / 2^d that both of them hold.                            *)
(***************************************************************************)

\* mNextCommon and mPrevCommon of p, the streams of p and of the previous party,
\* move on together.
Draw(p) == drawn' = [drawn EXCEPT ![p] = @ + 1]

MultiplyShift(p) ==
    /\ InTask(p, "mulShift", 0)
    /\ LET d      == Call(p).shift
           t      == Common(p)
           masked == Wrap(MulTerm(reg[p][Call(p).a], reg[p][Call(p).b]) - ShiftRight(t[0], 2))
           to(q)  == IF q < 2 THEN <<Copied(masked)>> ELSE <<>>
       IN /\ Write(p, Call(p).c, MkPair(ShiftRight(t[0], d + 2), ShiftRight(t[1], d + 2)))
          /\ Send(p, to(PrevOf(p)), to(NextOf(p)))
          /\ kept' = [kept EXCEPT ![p] = masked]
    /\ Draw(p)
    /\ IF p < 2 THEN NextTask(p) ELSE EndCall(p)
    /\ UNCHANGED <<seed, otUses>>

\* Slip: parties 0 and 1 add to their own component.
TruncatedOwn(p, pair, word) == MkPair(Wrap(pair[0] + word), pair[1])

\* C.mData[mPartyIdx]: component 0 is [0] at party 0 and [1] at party 1.
Truncated(p, pair, word) ==
    IF p = 0 THEN MkPair(Wrap(pair[0] + word), pair[1])
             ELSE MkPair(pair[0], Wrap(pair[1] + word))

BothSides == [prev |-> 1, next |-> 1]

Truncate(p) ==
    /\ InTask(p, "mulShift", 1)
    /\ Received(p, BothSides)
    /\ LET c     == Call(p).c
           total == Wrap(Head(FromNext(p)).data + Head(FromPrev(p)).data + kept[p])
       IN Write(p, c, Truncated(p, reg[p][c], ShiftRight(total, Call(p).shift)))
    /\ Exchange(p, BothSides, <<>>, <<>>)
    /\ EndCall(p)
    /\ UNCHANGED <<seed, drawn, otUses, kept>>

-------------------------------------------------------------------------------
\* revealAll: every party sends its own component back, and gets the missing one
\* from the next party.  A revealed word is kept in [0].
RevealSend(p) ==
    /\ InTask(p, "reveal", 0)
    /\ Send(p, <<Copied(reg[p][Call(p).a][0])>>, <<>>)
    /\ NextTask(p)
    /\ UNCHANGED arith

FromNextOnly == [prev |-> 0, next |-> 1]

RevealReceive(p) ==
    /\ InTask(p, "reveal", 1)
    /\ Received(p, FromNextOnly)
    /\ LET x == reg[p][Call(p).a]
       IN Write(p, Call(p).c, MkPair(Wrap(Head(FromNext(p)).data + x[0] + x[1]), 0))
    /\ Exchange(p, FromNextOnly, <<>>, <<>>)
    /\ EndCall(p)
    /\ UNCHANGED <<seed, drawn, otUses, kept>>

ArithmeticTask(p) ==
    \/ LocalInt(p) \/ Multiply(p) \/ ReceiveCopy(p)
    \/ SendBit(p) \/ OpenBit(p)
    \/ MultiplyShift(p) \/ Truncate(p)
    \/ RevealSend(p) \/ RevealReceive(p)
===============================================================================
