-------------------------------- MODULE FssKeys -------------------------------
(***************************************************************************)
(* DtreeModel::fssPreprocess: the keys for tables of eight rows.  The six  *)
(* files that realFeatureFssPreprocess and realTreeFssPreprocess read hold *)
(* the same bits in their first eight rows, and are equal in pairs beyond  *)
(* them; r is the same.                                                    *)
(***************************************************************************)
EXTENDS ReplicatedShares, Sequences

WordOf(n) == {b \in Bits : (n \div 2^b) % 2 = 1}

realIdx(pIdx) == (pIdx + 2) % 3

\* The rows of an eight-row table where a list of bits is 1.
RowsOf(bits) == {WordOf(n) : n \in {m \in 0..7 : bits[m + 1] = 1}}

fssR(pIdx) ==
    CASE realIdx(pIdx) = 0 -> MkPair(WordOf(4), WordOf(4))
      [] realIdx(pIdx) = 1 -> MkPair(WordOf(1), WordOf(7))
      [] realIdx(pIdx) = 2 -> MkPair(WordOf(6), WordOf(5))

fssK(pIdx) ==
    CASE realIdx(pIdx) = 0 -> MkPair(RowsOf(<<0,1,1,0,1,0,1,1>>), RowsOf(<<1,0,1,1,0,1,1,0>>))
      [] realIdx(pIdx) = 1 -> MkPair(RowsOf(<<1,1,0,1,0,0,0,1>>), RowsOf(<<0,1,1,1,1,0,1,1>>))
      [] realIdx(pIdx) = 2 -> MkPair(RowsOf(<<1,0,0,1,0,1,1,0>>), RowsOf(<<1,1,0,1,1,0,0,1>>))
===============================================================================
