------------------------------ MODULE MCBTree ------------------------------
(* Instances of BTree for TLC.  Pages have their real size; keys of 1356   *)
(* bytes let three small cells into a leaf and two into an internal page.  *)
EXTENDS BTree

MCValueSize == [v \in Values |-> IF v = "small" THEN 0 ELSE IF v = "big" THEN 1000 ELSE 5000]

\* The iterators that writes come between.
MCScanRanges == {<<1, 0>>}
=============================================================================
