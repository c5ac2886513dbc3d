-------------------------------- MODULE Parties --------------------------------
(***************************************************************************)
(* The ring of three parties, and the pairs in which they hold shares:     *)
(* [0] is the party's own component, [1] a copy of the previous party's.   *)
(***************************************************************************)
EXTENDS Naturals

Party     == 0..2
NextOf(p) == (p + 1) % 3
PrevOf(p) == (p + 2) % 3

MkPair(a, b) == [i \in 0..1 |-> IF i = 0 THEN a ELSE b]

\* Both holders of a component hold the same.
Replicated(x) == \A p \in Party : x[p][1] = x[PrevOf(p)][0]

\* The replicated sharing with the given components.
SharingOf(c) == [p \in Party |-> MkPair(c[p], c[PrevOf(p)])]
===============================================================================
