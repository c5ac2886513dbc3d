------------------------------- MODULE MCWalk -------------------------------
(* The keys of FssKeys on tables of eight rows, in words of four bits. *)
EXTENDS SecureWalk, FssKeys

MCFssR == [p \in Party |-> fssR(p)]
MCFssK == [p \in Party |-> fssK(p)]

\* GF(16), by x^4 + x + 1.
TimesX(w) == Xor({b + 1 : b \in w \ {3}}, IF 3 \in w THEN {0, 1} ELSE {})
MCTimes(a, b) ==
    LET part(w, n) == IF n \in b THEN w ELSE {}
        a1 == TimesX(a)
        a2 == TimesX(a1)
    IN Xor(Xor(part(a, 0), part(a1, 1)), Xor(part(a2, 2), part(TimesX(a2), 3)))

Num(w) == CHOOSE n \in 0..15 : WordOf(n) = w

Node(t, l, r, v, label) ==
    [threshold |-> WordOf(t), left |-> WordOf(l), right |-> WordOf(r),
     vIdx |-> WordOf(v), label |-> WordOf(label)]

\* load_model_test, its large numbers scaled down.
TestModel ==
    <<Node(11, 1, 2, 2, 0), Node(15, 1, 1, 0, 1), Node(12, 3, 4, 1, 0), Node(15, 3, 3, 0, 3),
      Node(15, 4, 4, 0, 4), Node(15, 5, 5, 0, 5), Node(15, 6, 6, 0, 6), Node(15, 7, 7, 0, 7)>>

\* Every node has children of its own.
DeepModel ==
    <<Node(3, 1, 2, 7, 9), Node(8, 3, 4, 0, 8), Node(15, 5, 6, 3, 7), Node(1, 7, 0, 1, 6),
      Node(0, 4, 4, 0, 5), Node(7, 5, 1, 6, 4), Node(9, 2, 6, 5, 3), Node(12, 7, 3, 4, 2)>>

MCTrees == {[n \in Row |-> tree[Num(n) + 1]] : tree \in {TestModel, DeepModel}}

\* initFeatureSchema, and two others.
MCFeatures == {[n \in Row |-> WordOf((Num(n) + 10) % 16)],
               [n \in Row |-> WordOf((Num(n) * 5) % 16)],
               [n \in Row |-> WordOf(15 - Num(n))]}

MCMasks == {[n \in Row |-> [p \in Party |-> IF p = 0 THEN {3} ELSE IF p = 1 THEN n ELSE {0, 3}]],
            [n \in Row |-> [p \in Party |-> IF p = 2 THEN Xor(n, {1, 3}) ELSE {p}]]}

\* The instance has as few triples as its own width asks for; the program has
\* 140 for its 64 bits (main-dtree.cpp:235).
ASSUME Stride = TriplesTaken[Width] /\ TriplesTaken[64] = 140

MCTriples == {<<SharingOf([p \in Party |-> {p}]), SharingOf([p \in Party |-> {0, p}])>>}

\* A root with threshold n that names feature 0.
RootOf(n) == [row \in Row |-> LET line == DeepModel[Num(row) + 1]
                              IN IF row = Root THEN [line EXCEPT !["threshold"] = WordOf(n),
                                                                 !["vIdx"] = {}] ELSE line]

Start(tree, row, key, treeMasks, featureMasks) ==
    [tree |-> tree, features |-> row, key |-> WordOf(key),
     treeMasks |-> treeMasks, featureMasks |-> featureMasks]

OneMask == CHOOSE m \in MCMasks : TRUE

Walks == {Start(tree, row, key, tm, fm) :
            tree \in MCTrees, row \in MCFeatures, key \in {2, 13}, tm, fm \in MCMasks}

\* Every threshold against every feature.
Comparisons == {Start(RootOf(n), [row \in Row |-> WordOf(v)], 2, OneMask, OneMask) :
                    n, v \in 0..15}

MCStarts == Walks \cup Comparisons

\* Bound: of those only the first comparison.
FirstComparison == i > 0 => model \in MCTrees
===============================================================================
