------------------------- MODULE ShardedIndex_proofs -------------------------
(***************************************************************************)
(* Proof about module ShardedIndex, for any keys, shards, goroutines and     *)
(* batches: the atomic counter is exact.                                     *)
(***************************************************************************)
EXTENDS ShardedIndex, FiniteSetTheorems, TLAPS

\* The provers each leaf is given to, with the time in seconds.
USE SMTT(10), ZenonT(20), SMTT(30)

\* Types, with what is left of a batch when it rests and what it never has: a key
\* that it both updates and deletes.
TypeOK ==
    /\ entries \in SUBSET Keys /\ count \in Int
    /\ delta \in [Procs -> {-1, 0, 1}]
    /\ batch \in [pc : {"idle", "shards"}, updates : SUBSET Keys, deletions : SUBSET Keys,
                  todo : SUBSET Shards, deltaCount : Int]
    /\ batch.pc = "idle" => batch.deltaCount = 0 /\ batch.todo = {}
    /\ batch.updates \cap batch.deletions = {}

IInv == TypeOK /\ CountExact

----------------------------------------------------------------------------
\* What a shard's batch adds and takes away changes the number of keys by their
\* numbers.
LEMMA CardinalityReplaced ==
    ASSUME NEW S, IsFiniteSet(S), NEW A, IsFiniteSet(A), NEW G, A \cap G = {}
    PROVE  /\ IsFiniteSet((S \cup A) \ G)
           /\ Cardinality((S \cup A) \ G) \in Nat /\ Cardinality(S) \in Nat
           /\ Cardinality(A \ S) \in Nat /\ Cardinality(G \cap S) \in Nat
           /\ Cardinality((S \cup A) \ G)
                = Cardinality(S) + Cardinality(A \ S) - Cardinality(G \cap S)
  <1> DEFINE T == S \cup (A \ S)
  <1>1. IsFiniteSet(A \ S) /\ S \cap (A \ S) = {}
    BY FS_Difference
  <1>2. IsFiniteSet(T) /\ Cardinality(T) = Cardinality(S) + Cardinality(A \ S)
    <2>1. Cardinality(S \cap (A \ S)) = 0 BY <1>1, FS_EmptySet
    <2>2. /\ IsFiniteSet(T)
          /\ Cardinality(T) = Cardinality(S) + Cardinality(A \ S)
                                - Cardinality(S \cap (A \ S))
      BY <1>1, FS_Union
    <2> QED BY <1>1, <2>1, <2>2, FS_CardinalityType
  <1>3. (S \cup A) \ G = T \ G /\ T \cap G = G \cap S
    OBVIOUS
  <1>4. /\ IsFiniteSet(T \ G)
        /\ Cardinality(T \ G) = Cardinality(T) - Cardinality(T \cap G)
    BY <1>2, FS_Difference
  <1>5. IsFiniteSet(G \cap S) BY FS_Subset
  <1>6. /\ Cardinality(T \ G) \in Nat /\ Cardinality(S) \in Nat
        /\ Cardinality(A \ S) \in Nat /\ Cardinality(G \cap S) \in Nat
    BY <1>1, <1>4, <1>5, FS_CardinalityType
  <1> HIDE DEF T
  <1>7. /\ IsFiniteSet((S \cup A) \ G)
        /\ Cardinality((S \cup A) \ G) = Cardinality(T \ G)
        /\ Cardinality(T \cap G) = Cardinality(G \cap S)
    BY <1>3, <1>4, Zenon
  <1> QED BY <1>2, <1>4, <1>6, <1>7

\* The goroutines that owe a count are finitely many.
LEMMA OwingFinite ==
    ASSUME ShardedIndexAssumption, NEW d
    PROVE  IsFiniteSet(Owing(d)) /\ Cardinality(Owing(d)) \in Nat
  BY FS_Subset, FS_CardinalityType DEF ShardedIndexAssumption, Owing

\* A fresh index has no key and owes nothing.
LEMMA InitIInv == ASSUME ShardedIndexAssumption, Init PROVE IInv
  <1>1. TypeOK BY DEF Init, NoBatch, TypeOK
  <1>2. Owing(1) = {} /\ Owing(-1) = {} BY DEF Init, Owing
  <1>3. CountExact BY <1>2, FS_EmptySet DEF Init, NoBatch, CountExact
  <1> QED BY <1>1, <1>3 DEF IInv

\* Every step keeps the types, and a batch its disjoint operations.
LEMMA NextTypeOK == ASSUME ShardedIndexAssumption, TypeOK, [Next]_vars PROVE TypeOK'
  <1> USE DEF TypeOK
  <1>1. ASSUME NEW p \in Procs, NEW k \in Keys, Put(p, k) \/ Delete(p, k) PROVE TypeOK'
    BY <1>1 DEF Put, Delete
  <1>2. ASSUME NEW p \in Procs, AddCount(p) PROVE TypeOK'
    BY <1>2 DEF AddCount
  <1>3. CASE BatchBegin
    <2>1. PICK u \in SUBSET Keys : \E d \in SUBSET (Keys \ u) :
            batch' = [pc |-> "shards", updates |-> u, deletions |-> d, todo |-> Shards,
                      deltaCount |-> 0]
      BY <1>3 DEF BatchBegin
    <2> QED BY <1>3, <2>1 DEF BatchBegin
  <1>4. ASSUME NEW s \in Shards, BatchShard(s) PROVE TypeOK'
    <2> DEFINE mine == {k \in Keys : ShardOf[k] = s}
               set == batch.updates \cap mine
               gone == batch.deletions \cap mine
    <2>1. /\ Cardinality(set \ entries) \in Nat
          /\ Cardinality(gone \cap entries) \in Nat
      BY FS_Subset, FS_CardinalityType DEF ShardedIndexAssumption
    <2>2. /\ entries' = (entries \cup set) \ gone
          /\ batch' = [batch EXCEPT !.todo = @ \ {s},
                          !.deltaCount = @ + Cardinality(set \ entries)
                                             - Cardinality(gone \cap entries)]
          /\ s \in batch.todo /\ UNCHANGED <<count, delta>>
      BY <1>4 DEF BatchShard
    <2>3. batch.deltaCount + Cardinality(set \ entries) - Cardinality(gone \cap entries) \in Int
      BY <2>1
    <2> QED BY <2>2, <2>3
  <1>5. CASE BatchEnd BY <1>5 DEF BatchEnd, NoBatch
  <1>6. CASE UNCHANGED vars BY <1>6 DEF vars
  <1>7. CASE Returned BY <1>6, <1>7 DEF Returned
  <1> QED BY <1>1, <1>2, <1>3, <1>4, <1>5, <1>6, <1>7 DEF Next, UpdateBatch

\* Each step moves the counter, the debts and the set of keys together.
LEMMA NextCountExact == ASSUME ShardedIndexAssumption, IInv, [Next]_vars PROVE CountExact'
  <1>0. TypeOK /\ CountExact BY DEF IInv
  <1>a. IsFiniteSet(entries) /\ Cardinality(entries) \in Nat
    BY <1>0, FS_Subset, FS_CardinalityType DEF TypeOK, ShardedIndexAssumption
  <1>b. \A d \in {-1, 1} : IsFiniteSet(Owing(d)) /\ Cardinality(Owing(d)) \in Nat
    BY OwingFinite
  <1>c. count \in Int /\ batch.deltaCount \in Int BY <1>0 DEF TypeOK
  <1>1. ASSUME NEW p \in Procs, NEW k \in Keys, Put(p, k) PROVE CountExact'
    <2>1. CASE k \in entries
      <3>1. entries' = entries /\ delta' = delta /\ UNCHANGED <<count, batch>>
        BY <1>0, <1>1, <2>1 DEF Put, TypeOK
      <3> QED BY <1>0, <3>1 DEF CountExact, Owing
    <2>2. CASE k \notin entries
      <3>1. /\ Owing(1)' = Owing(1) \cup {p} /\ p \notin Owing(1)
            /\ Owing(-1)' = Owing(-1)
            /\ entries' = entries \cup {k} /\ UNCHANGED <<count, batch>>
        BY <1>0, <1>1, <2>2 DEF Put, TypeOK, Owing
      <3>2. /\ Cardinality(Owing(1)') = Cardinality(Owing(1)) + 1
            /\ Cardinality(entries') = Cardinality(entries) + 1
        BY <1>a, <1>b, <2>2, <3>1, FS_AddElement
      <3> QED BY <1>0, <1>a, <1>b, <1>c, <3>1, <3>2 DEF CountExact
    <2> QED BY <2>1, <2>2
  <1>2. ASSUME NEW p \in Procs, NEW k \in Keys, Delete(p, k) PROVE CountExact'
    <2>1. CASE k \notin entries
      <3>1. entries' = entries /\ delta' = delta /\ UNCHANGED <<count, batch>>
        BY <1>0, <1>2, <2>1 DEF Delete, TypeOK
      <3> QED BY <1>0, <3>1 DEF CountExact, Owing
    <2>2. CASE k \in entries
      <3>1. /\ Owing(-1)' = Owing(-1) \cup {p} /\ p \notin Owing(-1)
            /\ Owing(1)' = Owing(1)
            /\ entries' = entries \ {k} /\ UNCHANGED <<count, batch>>
        BY <1>0, <1>2, <2>2 DEF Delete, TypeOK, Owing
      <3>2. /\ Cardinality(Owing(-1)') = Cardinality(Owing(-1)) + 1
            /\ Cardinality(entries') = Cardinality(entries) - 1
        <4>1. Cardinality(entries') = Cardinality(entries) - 1
          BY <1>a, <2>2, <3>1, FS_RemoveElement
        <4>2. Cardinality(Owing(-1)') = Cardinality(Owing(-1)) + 1
          BY <1>b, <3>1, FS_AddElement
        <4> QED BY <4>1, <4>2
      <3> QED BY <1>0, <1>a, <1>b, <1>c, <3>1, <3>2 DEF CountExact
    <2> QED BY <2>1, <2>2
  <1>3. ASSUME NEW p \in Procs, AddCount(p) PROVE CountExact'
    <2>1. CASE delta[p] = 1
      <3>1. /\ Owing(1)' = Owing(1) \ {p} /\ p \in Owing(1)
            /\ Owing(-1)' = Owing(-1)
            /\ count' = count + 1 /\ UNCHANGED <<entries, batch>>
        BY <1>0, <1>3, <2>1 DEF AddCount, TypeOK, Owing
      <3>2. Cardinality(Owing(1)') = Cardinality(Owing(1)) - 1
        BY <1>b, <3>1, FS_RemoveElement
      <3> QED BY <1>0, <1>a, <1>b, <1>c, <3>1, <3>2 DEF CountExact
    <2>2. CASE delta[p] = -1
      <3>1. /\ Owing(-1)' = Owing(-1) \ {p} /\ p \in Owing(-1)
            /\ Owing(1)' = Owing(1)
            /\ count' = count - 1 /\ UNCHANGED <<entries, batch>>
        BY <1>0, <1>3, <2>2 DEF AddCount, TypeOK, Owing
      <3>2. Cardinality(Owing(-1)') = Cardinality(Owing(-1)) - 1
        BY <1>b, <3>1, FS_RemoveElement
      <3> QED BY <1>0, <1>a, <1>b, <1>c, <3>1, <3>2 DEF CountExact
    <2> QED BY <1>0, <1>3, <2>1, <2>2 DEF AddCount, TypeOK
  <1>4. CASE BatchBegin
    BY <1>0, <1>4 DEF BatchBegin, TypeOK, CountExact, Owing
  <1>5. ASSUME NEW s \in Shards, BatchShard(s) PROVE CountExact'
    <2> DEFINE mine == {k \in Keys : ShardOf[k] = s}
               set == batch.updates \cap mine
               gone == batch.deletions \cap mine
    <2>1. /\ entries' = (entries \cup set) \ gone
          /\ batch' = [batch EXCEPT !.todo = @ \ {s},
                          !.deltaCount = @ + Cardinality(set \ entries)
                                             - Cardinality(gone \cap entries)]
          /\ UNCHANGED <<count, delta>>
      BY <1>5 DEF BatchShard
    <2>2. IsFiniteSet(set) /\ set \cap gone = {}
      BY <1>0, FS_Subset DEF TypeOK, ShardedIndexAssumption
    <2> HIDE DEF set, gone
    <2>3. /\ Cardinality(entries')
               = Cardinality(entries) + Cardinality(set \ entries)
                                      - Cardinality(gone \cap entries)
          /\ Cardinality(set \ entries) \in Nat /\ Cardinality(gone \cap entries) \in Nat
      BY <1>a, <2>1, <2>2, CardinalityReplaced
    <2>4. batch'.deltaCount = batch.deltaCount + Cardinality(set \ entries)
                                               - Cardinality(gone \cap entries)
      BY <1>0, <2>1 DEF TypeOK
    <2>5. \A d : Owing(d)' = Owing(d) BY <2>1 DEF Owing
    <2> QED BY <1>0, <1>a, <1>b, <1>c, <2>1, <2>3, <2>4, <2>5 DEF CountExact
  <1>6. CASE BatchEnd
    <2>1. /\ count' = count + batch.deltaCount /\ batch'.deltaCount = 0
          /\ UNCHANGED <<entries, delta>>
      BY <1>6 DEF BatchEnd, NoBatch
    <2>2. \A d : Owing(d)' = Owing(d) BY <2>1 DEF Owing
    <2> QED BY <1>0, <1>a, <1>b, <1>c, <2>1, <2>2 DEF CountExact
  <1>7. CASE UNCHANGED vars BY <1>0, <1>7 DEF vars, CountExact, Owing
  <1>8. CASE Returned BY <1>7, <1>8 DEF Returned
  <1> QED BY <1>1, <1>2, <1>3, <1>4, <1>5, <1>6, <1>7, <1>8 DEF Next, UpdateBatch

\* However Puts, Deletes and the goroutines of UpdateBatch interleave, the counter
\* and what the running calls have yet to add to it make the number of keys.
THEOREM CountsKeys == ASSUME ShardedIndexAssumption PROVE Spec => []CountExact
  <1>1. Init => IInv BY InitIInv
  <1>2. IInv /\ [Next]_vars => IInv'
    BY NextTypeOK, NextCountExact DEF IInv
  <1>3. IInv => CountExact BY DEF IInv
  <1> QED BY <1>1, <1>2, <1>3, PTL DEF Spec
=============================================================================
