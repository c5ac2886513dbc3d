------------------------------ MODULE PartyCalls ------------------------------
(***************************************************************************)
(* Three parties that run the same sequence of calls of the framework, and *)
(* the channels between them.                                              *)
(*                                                                         *)
(* A call is a few tasks of a party's runtime, one after the other; a task *)
(* may wait for messages, and then computes and sends.  A channel is FIFO  *)
(* and its messages carry only data.  Most sends copy or move their data   *)
(* (asyncSendCopy, asyncSend of an rvalue).  The others take a pointer:    *)
(* the data is read from the party's buffer when the message is put on the *)
(* wire, by the channel's own thread.                                      *)
(***************************************************************************)
EXTENDS Parties, Integers, Sequences

CONSTANTS Programs,     \* the sequences of calls, each a sequence of records
          Prompt        \* messages are on the wire before their buffer is used again

ASSUME PromptAssumption == Prompt \in BOOLEAN

VARIABLES
    prog,           \* the sequence that the parties run
    at,             \* at[p]: the call that p is in, from 1
    task,           \* task[p]: the task of that call that is next, from 0
    net             \* net[<<p, q>>]: what p has sent to q and q has not received

position == <<at, task>>

Links == {<<p, q>> : p, q \in Party} \ {<<p, p>> : p \in Party}

Program == Programs[prog]
Done(p) == at[p] > Len(Program)
Call(p) == Program[at[p]]

CallsInit == /\ at = [p \in Party |-> 1]
             /\ task = [p \in Party |-> 0]
             /\ net = [link \in Links |-> <<>>]

\* A task of the given call is next.
InCall(p, op) == ~Done(p) /\ Call(p).op = op
InTask(p, op, k) == InCall(p, op) /\ task[p] = k

NextTask(p) == task' = [task EXCEPT ![p] = @ + 1] /\ UNCHANGED <<prog, at>>

EndCall(p) == /\ at' = [at EXCEPT ![p] = @ + 1]
              /\ task' = [task EXCEPT ![p] = 0]
              /\ UNCHANGED prog

-------------------------------------------------------------------------------
\* A message is its data, what it was when it was sent (history), and the buffer
\* that it is still to be read from.
OnWire == "none"
Copied(v)          == [data |-> v, sent |-> v, buffer |-> OnWire]
Pointed(v, buffer) == [data |-> v, sent |-> v, buffer |-> buffer]

Pending(p, buffer) ==
    \E link \in Links : link[1] = p /\ \E k \in DOMAIN net[link] : net[link][k].buffer = buffer

\* A buffer of p may be written.
MayWrite(p, buffer) == Prompt => ~Pending(p, buffer)

FromPrev(p) == net[<<PrevOf(p), p>>]
FromNext(p) == net[<<NextOf(p), p>>]

Arrived(channel, n) ==
    /\ Len(channel) >= n
    /\ \A k \in 1..n : channel[k].buffer = OnWire

\* The task receives some messages from either side and sends some to either.
Exchange(p, inbox, toPrev, toNext) ==
    net' = [net EXCEPT ![<<PrevOf(p), p>>] = SubSeq(@, inbox.prev + 1, Len(@)),
                       ![<<NextOf(p), p>>] = SubSeq(@, inbox.next + 1, Len(@)),
                       ![<<p, PrevOf(p)>>] = @ \o toPrev,
                       ![<<p, NextOf(p)>>] = @ \o toNext]

Received(p, inbox) == /\ Arrived(FromPrev(p), inbox.prev)
                      /\ Arrived(FromNext(p), inbox.next)

Nobody   == [prev |-> 0, next |-> 0]
Previous == [prev |-> 1, next |-> 0]

Send(p, toPrev, toNext) == Exchange(p, Nobody, toPrev, toNext)

\* The channel's thread reads the first message that is still in a buffer.
ReadBuffer(link, content) ==
    LET waiting == {k \in DOMAIN net[link] : net[link][k].buffer # OnWire}
        first   == CHOOSE k \in waiting : \A j \in waiting : k <= j
    IN /\ waiting # {}
       /\ net' = [net EXCEPT ![link][first].data = content[net[link][first].buffer],
                             ![link][first].buffer = OnWire]
       /\ UNCHANGED <<prog, position>>
===============================================================================
