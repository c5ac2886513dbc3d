------------------------------ MODULE SecureWalk ------------------------------
(***************************************************************************)
(* travelTree with the multiplications of its comparisons.                 *)
(*                                                                         *)
(* TravelTree makes a comparison in one step that gives any sharing of the *)
(* outcome.  Here compare_threshold is run: it gets the shared feature and *)
(* threshold as they come out of the selections, makes its products on     *)
(* them one after the other, takes the triples of its layer, and what it   *)
(* returns is the bit that getChildNodeIndex multiplies with.              *)
(***************************************************************************)
EXTENDS TravelTree

CONSTANTS Width,        \* MODEL_BITS
          Stride,       \* triples set aside for the comparison of a layer
          Triples       \* sharings <<a, b>> to check its multiplications with

\* MODEL_BITS is a power of two: it and its divisors but 1 are even.
ASSUME WidthAssumption ==
    /\ Width \in Nat \ {0, 1} /\ Bits = 0 .. Width - 1
    /\ \A d \in 2..Width : Width % d = 0 => d % 2 = 0

\* The triples that a comparison of w-bit words takes.
TriplesTaken[w \in Nat] == IF w < 2 THEN 2 ELSE w + 2 + TriplesTaken[w \div 2]

\* main-dtree.cpp sets 140 aside, which is TriplesTaken[64].
ASSUME StrideAssumption == Stride \in Nat /\ TriplesTaken[Width] <= Stride

ASSUME TriplesAssumption ==
    \A triple \in Triples : \A k \in {1, 2} : triple[k] \in Sharing /\ Replicated(triple[k])

VARIABLES cx, ct, cval, cpc, csize, cincr, cgt, ceq, ci, cgt_temp3, ceq_temp1, ceq_temp2,
          cgt_temp, ceq_temp, cret, cands, cused, cpassed

Cmp == INSTANCE Comparison
         WITH Layers <- Depth,
              x <- cx, t <- ct, val <- cval, pc <- cpc, size <- csize, incr <- cincr,
              gt <- cgt, eq <- ceq, i <- ci, gt_temp3 <- cgt_temp3, eq_temp1 <- ceq_temp1,
              eq_temp2 <- ceq_temp2, gt_temp <- cgt_temp, eq_temp <- ceq_temp, ret <- cret,
              ands <- cands, used <- cused, passed <- cpassed

comparison == <<cx, ct, cval, cpc, csize, cincr, cgt, ceq, ci, cgt_temp3, ceq_temp1, ceq_temp2,
                cgt_temp, ceq_temp, cret, cands, cused, cpassed>>

\* Slip: compare_ss gets its operands in the order of compare_threshold.
StartComparisonSwapped == Cmp!Start(i, cur_node["threshold"], ssY)

StartComparison == Cmp!Start(i, ssY, cur_node["threshold"])

Call == pc = "compare" /\ StartComparison /\ UNCHANGED vars

Multiplication == Cmp!AndStep /\ UNCHANGED vars

Return == /\ Cmp!Finish
          /\ pc = "compare" /\ pc' = "child"
          /\ ssb' = cret
          /\ UNCHANGED <<shared, i, cur_node, ssY, ssNextNodeIdx, sums, rec, at, passed>>

\* The calls around the comparison.
Around == /\ SelectFeature \/ getChildNodeIndex \/ SelectNode \/ MacCheck
          /\ UNCHANGED comparison

WalkInit == Init /\ Cmp!Init

WalkNext == Call \/ Multiplication \/ Return \/ Around

WalkSpec == WalkInit /\ [][WalkNext]_<<vars, comparison>>

-------------------------------------------------------------------------------
\* The walk of TravelTree: what compare_threshold returns is a sharing of one bit,
\* the outcome of the comparison, with both copies of each component the same.
ImplementsTravelTree == Spec

\* At each level of the recursion of compare_process bit j of gt tells whether
\* block j of the threshold is above block j of the feature, bit j of eq whether
\* they are equal, and the bits above the blocks are clear.
BlocksCompared == Cmp!BlocksCompared

\* In a whole walk no triple of a comparison checks two of its multiplications,
\* and none is taken from beyond the arrays.
TriplesUsedOnce == Cmp!TriplesUsedOnce

\* No check fails when everybody computes what the protocol says: those of the
\* comparisons, of the children's products and of the MACs.
HonestChecksPass ==
    cpassed /\ passed /\ (pc = "return" => \A p \in Party : rec[p] = Zero)
===============================================================================
