---------------------------- MODULE MCBTreeLatch ----------------------------
(* Instances of BTreeLatch for TLC: two small cells fill a leaf.            *)
EXTENDS BTreeLatch

MCValueSize == [v \in Values |-> 0]
MCInitialKeys == {{}, {1, 2}, {2, 3}}
=============================================================================
