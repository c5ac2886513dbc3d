--------------------------------- MODULE MCDpf --------------------------------
(* Seeds of three bits, a tree of eight leaves, every pair of seeds and point. *)
EXTENDS DpfKeys

MCPow == [k \in 0..Depth |-> 2^k]

\* A word, as a number from 0 to 7, and back.
Num(w) == (IF 0 \in w THEN 1 ELSE 0) + (IF 1 \in w THEN 2 ELSE 0) + (IF 2 \in w THEN 4 ELSE 0)
WordOf(n) == {b \in Bits : (n \div 2^b) % 2 = 1}

\* Some permutations and some function.
MCExpand == [w \in Word |-> [d \in Side |->
                IF d = 0 THEN Xor(w, WordOf((3 * Num(w) + 5) % 8))
                         ELSE Xor(w, WordOf((5 * Num(w) * Num(w) + 2 * Num(w) + 3) % 8))]]

MCHash == [n \in Leaves |-> [w \in Word |-> WordOf((7 * n + 3 * Num(w) * Num(w) + Num(w)) % 8)]]

MCBetas == {{0}, {2}}
===============================================================================
