------------------------------ MODULE MCDpfDealer -----------------------------
(* Batches of two pairs, connections that hold one message, and 16 leaves: the *)
(* final hash takes the proof of the first leaf and nothing of the second.     *)
EXTENDS DpfDealer

\* The proof of leaf n in the vector.
Leaf(n) == 32 * n .. 32 * n + 31

MCSpoils == {{}, Leaf(0), Leaf(1)}
===============================================================================
