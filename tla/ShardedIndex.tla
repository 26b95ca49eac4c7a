---------------------------- MODULE ShardedIndex ----------------------------
(***************************************************************************)
(* hashindex/shard.go: the map from keys to entries, split into shards     *)
(* with a lock each, and the atomic counter of keys beside them.  What is  *)
(* done under a shard's lock is one step; the counter is updated outside   *)
(* the lock, in a step of its own.  Of the entries only their presence     *)
(* matters here.                                                           *)
(***************************************************************************)
EXTENDS Integers, FiniteSets

CONSTANTS Keys, Shards,
          ShardOf,        \* getShard: the shard of each key
          Procs,          \* goroutines calling Put and Delete
          MaxCalls,       \* bound: calls of Put and Delete
          MaxBatches      \* bound: calls of UpdateBatch

ShardedIndexAssumption ==
    /\ IsFiniteSet(Keys) /\ IsFiniteSet(Procs)
    /\ ShardOf \in [Keys -> Shards]
    /\ MaxCalls \in Nat /\ MaxBatches \in Nat

VARIABLES entries,   \* the keys that have an entry
          count,     \* shardedIndex.count
          delta,     \* per goroutine: what it still has to add to count
          batch,     \* the call of UpdateBatch in progress
          calls, batches
vars == <<entries, count, delta, batch, calls, batches>>

NoBatch == [pc |-> "idle", updates |-> {}, deletions |-> {}, todo |-> {}, deltaCount |-> 0]

Init ==
    /\ entries = {} /\ count = 0
    /\ delta = [p \in Procs |-> 0] /\ batch = NoBatch
    /\ calls = 0 /\ batches = 0

\* Mutant: the counter is told of every Put.
Put_CountsAll(p, k) ==
    /\ delta[p] = 0 /\ calls < MaxCalls
    /\ entries' = entries \cup {k}
    /\ delta' = [delta EXCEPT ![p] = 1]
    /\ calls' = calls + 1
    /\ UNCHANGED <<count, batch, batches>>

Put(p, k) ==
    /\ delta[p] = 0 /\ calls < MaxCalls
    /\ entries' = entries \cup {k}
    /\ delta' = [delta EXCEPT ![p] = IF k \in entries THEN 0 ELSE 1]
    /\ calls' = calls + 1
    /\ UNCHANGED <<count, batch, batches>>

Delete(p, k) ==
    /\ delta[p] = 0 /\ calls < MaxCalls
    /\ entries' = entries \ {k}
    /\ delta' = [delta EXCEPT ![p] = IF k \in entries THEN -1 ELSE 0]
    /\ calls' = calls + 1
    /\ UNCHANGED <<count, batch, batches>>

\* count.Add at the end of Put and of Delete.
AddCount(p) ==
    /\ delta[p] # 0
    /\ count' = count + delta[p]
    /\ delta' = [delta EXCEPT ![p] = 0]
    /\ UNCHANGED <<entries, batch, calls, batches>>

\* UpdateBatch of disjoint updates and deletions, which applyCompaction hands
\* over: the operations are distributed to the shards, ...
BatchBegin ==
    /\ batch.pc = "idle" /\ batches < MaxBatches
    /\ \E u \in SUBSET Keys : \E d \in SUBSET (Keys \ u) :
          batch' = [pc |-> "shards", updates |-> u, deletions |-> d, todo |-> Shards,
                    deltaCount |-> 0]
    /\ batches' = batches + 1
    /\ UNCHANGED <<entries, count, delta, calls>>

\* ... applied by one goroutine per shard, in any order, under the shard's lock,
BatchShard(s) ==
    LET mine == {k \in Keys : ShardOf[k] = s}
        set == batch.updates \cap mine
        gone == batch.deletions \cap mine
    IN  /\ s \in batch.todo
        /\ entries' = (entries \cup set) \ gone
        /\ batch' = [batch EXCEPT !.todo = @ \ {s},
                        !.deltaCount = @ + Cardinality(set \ entries)
                                           - Cardinality(gone \cap entries)]
        /\ UNCHANGED <<count, delta, calls, batches>>

\* ... and the counter is told when all of them are done.
BatchEnd ==
    /\ batch.pc = "shards" /\ batch.todo = {}
    /\ count' = count + batch.deltaCount
    /\ batch' = NoBatch
    /\ UNCHANGED <<entries, delta, calls, batches>>

UpdateBatch == BatchBegin \/ (\E s \in Shards : BatchShard(s)) \/ BatchEnd

\* All calls the bounds allow have returned.
Returned == /\ calls = MaxCalls /\ batches = MaxBatches /\ batch.pc = "idle"
            /\ \A p \in Procs : delta[p] = 0
            /\ UNCHANGED vars

Next == \/ \E p \in Procs, k \in Keys : Put(p, k) \/ Delete(p, k)
        \/ \E p \in Procs : AddCount(p)
        \/ UpdateBatch \/ Returned

Spec == Init /\ [][Next]_vars

----------------------------------------------------------------------------
\* The goroutines that have yet to count a key they have added or deleted.
Owing(d) == {p \in Procs : delta[p] = d}

\* The counter and what the running calls have yet to add to it make the number
\* of keys: however Puts, Deletes and the goroutines of a batch interleave, each
\* key that appears or disappears is counted once, so that Count is exact when
\* no call runs.
CountExact ==
    count + Cardinality(Owing(1)) - Cardinality(Owing(-1)) + batch.deltaCount
        = Cardinality(entries)
=============================================================================
