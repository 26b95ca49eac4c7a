---------------------------- MODULE MCHashIndex ----------------------------
(* The hash index on small sets of keys and goroutines. *)
EXTENDS HashIndex, TLC

Sym == Permutations(Keys) \cup Permutations(Writers) \cup Permutations(Readers)
=============================================================================
