------------------------------- MODULE MCShares -------------------------------
(* Every program of at most MaxOps share operations on words of few bits.   *)
(* A share adds a mask to what a party puts in, so that these inputs and    *)
(* streams already give every combination of components.                    *)
EXTENDS ShareProtocol

MCInputs == {[p \in Party |-> IF p \in S THEN Bits ELSE Zero] : S \in {{}, Party}}

MCStreams == {s \in [Party -> Word] : s[0] = Zero}
===============================================================================
