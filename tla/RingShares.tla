------------------------------ MODULE RingShares -------------------------------
(***************************************************************************)
(* Replicated additive shares (si64 of aby3/sh3/Sh3Types.h), and what a    *)
(* party computes and sends in a product (Sh3Evaluator::asyncMul).         *)
(*                                                                         *)
(* A word is a number modulo 2^Width, a signed integer in two's            *)
(* complement.  Sh3ShareGen::getShare, which every product adds to its     *)
(* share, sets its result to 0: it is left out of the sums.                *)
(***************************************************************************)
EXTENDS Parties, Integers, Sequences

CONSTANT Width          \* bits in a word, 64 in the program

ASSUME WidthAssumption == Width \in Nat \ {0}

RingWord  == 0 .. 2^Width - 1
Wrap(n)   == n % 2^Width
Signed(w) == IF w < 2^(Width - 1) THEN w ELSE w - 2^Width
Bit(w, i) == (w \div 2^i) % 2

\* >> on a signed word: the quotient is rounded down.
ShiftRight(w, k) == Wrap(Signed(w) \div 2^k)

AddPair(x, y) == MkPair(Wrap(x[0] + y[0]), Wrap(x[1] + y[1]))

\* The part of a product that a party can compute.
MulTerm(x, y) == Wrap(x[0] * y[0] + x[0] * y[1] + x[1] * y[0])

RingValue(x) == Wrap(x[0][0] + x[1][0] + x[2][0])

-------------------------------------------------------------------------------
(***************************************************************************)
(* SharedOT.  Two neighbours share a key, and with it a stream of pads, a  *)
(* pair per position.  One of them sends the pair of messages under the    *)
(* pads of its position, the other helps: it sends the pad of the chosen   *)
(* message.  The third party opens it.  A pad is its place in the stream.  *)
(***************************************************************************)

\* mOtNext of a party and mOtPrev of the previous one have the same key.
KeyOf(p, side) == IF side = "next" THEN PrevOf(p) ELSE p

Pad(key, idx, slot) == [key |-> key, idx |-> idx, slot |-> slot]

\* What a party sends in a product, in order: through its mOtNext or mOtPrev,
\* which send to the next and the previous party, or in the clear.
SendOt(side, s)     == [kind |-> "send", side |-> side, word |-> s]
Help(side, choice)  == [kind |-> "help", side |-> side, word |-> choice]
Plain(side, word)   == [kind |-> "plain", side |-> side, word |-> word]

\* The pair of messages whose message b reads as v for b = 1, where b is the sum
\* of the known choice bb and the bit that the receiver chooses with.
Chosen(bb, v) == [slot \in 0..1 |-> IF slot = bb THEN 0 ELSE Wrap(v)]
ChoiceSum(b)  == (b[0] + b[1]) % 2

\* Slip: party 1 sends before it helps.
BitScriptSendsFirst(p, a, b) ==
    CASE p = 0 -> << SendOt("next", Chosen(ChoiceSum(b), a[1])),
                     SendOt("prev", Chosen(ChoiceSum(b), a[1])), Help("prev", b[1]) >>
      [] p = 1 -> << SendOt("next", Chosen(ChoiceSum(b), a[0] + a[1])),
                     SendOt("prev", Chosen(ChoiceSum(b), a[0] + a[1])), Help("next", b[0]) >>
      [] p = 2 -> << Help("prev", b[1]), Plain("next", 0),
                     Help("next", b[0]), Plain("prev", 0) >>

\* A shared word times a shared bit.  Party 0 has the component of party 2 of the
\* word, party 1 the other two; party 2 knows the missing choice of both.
BitScript(p, a, b) ==
    CASE p = 0 -> << SendOt("next", Chosen(ChoiceSum(b), a[1])),
                     SendOt("prev", Chosen(ChoiceSum(b), a[1])), Help("prev", b[1]) >>
      [] p = 1 -> << Help("next", b[0]),
                     SendOt("next", Chosen(ChoiceSum(b), a[0] + a[1])),
                     SendOt("prev", Chosen(ChoiceSum(b), a[0] + a[1])) >>
      [] p = 2 -> << Help("prev", b[1]), Plain("next", 0),
                     Help("next", b[0]), Plain("prev", 0) >>

\* A public word times a shared bit.
PublicScript(p, v, b) ==
    CASE p = 0 -> << SendOt("next", Chosen(ChoiceSum(b), v)),
                     SendOt("prev", Chosen(ChoiceSum(b), v)) >>
      [] p = 1 -> << Help("next", b[0]), Plain("prev", 0) >>
      [] p = 2 -> << Help("prev", b[1]), Plain("next", 0) >>

\* The entries of a script, in order, that take a position of the stream on one
\* side.
UsesOf(script, side) ==
    LET upto[n \in 0 .. Len(script)] ==
            IF n = 0 THEN <<>>
            ELSE IF script[n].kind # "plain" /\ script[n].side = side
                 THEN Append(upto[n - 1], script[n]) ELSE upto[n - 1]
    IN upto[Len(script)]

\* The messages of a script to one side, after `used' positions of its stream.
MessagesOf(p, script, side, used) ==
    LET mine   == SelectSeq(script, LAMBDA e : e.side = side)
        idx(k) == used + Len(UsesOf(SubSeq(mine, 1, k - 1), side))
    IN [k \in DOMAIN mine |->
            CASE mine[k].kind = "send" ->
                    [slot \in 0..1 |-> [pad  |-> Pad(KeyOf(p, side), idx(k), slot),
                                        word |-> mine[k].word[slot]]]
              [] mine[k].kind = "help" -> Pad(KeyOf(p, side), idx(k), mine[k].word)
              [] OTHER                 -> mine[k].word]

\* asyncRecv: under another pad the word is garbage, here one that is wrong.
Open(messages, pad, choice) ==
    IF messages[choice].pad = pad THEN messages[choice].word
                                  ELSE Wrap(messages[choice].word + 1)

\* How many messages the parties receive from either side, and what they make
\* of them and of their bits.
BitInbox(p) == CASE p = 0 -> [prev |-> 2, next |-> 1]
                 [] p = 1 -> [prev |-> 1, next |-> 2]
                 [] p = 2 -> [prev |-> 2, next |-> 2]

BitResult(p, b, prev, next) ==
    CASE p = 0 -> MkPair(prev[1], Open(next[1], prev[2], b[1]))
      [] p = 1 -> MkPair(Open(prev[1], next[1], b[0]), next[2])
      [] p = 2 -> MkPair(Open(prev[2], next[2], b[0]), Open(next[1], prev[1], b[1]))

PublicInbox(p) == [prev |-> 1, next |-> 1]

\* Parties 1 and 2 have put their own word, 0, where they need it.
PublicResult(p, b, prev, next) ==
    CASE p = 0 -> MkPair(next[1], prev[1])
      [] p = 1 -> MkPair(Open(prev[1], next[1], b[0]), 0)
      [] p = 2 -> MkPair(0, Open(next[1], prev[1], b[1]))
===============================================================================
