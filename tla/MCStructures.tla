---------------------------- MODULE MCStructures ----------------------------
(* The sequential data structures and the sharded index for TLC, which runs one *)
(* of them in each behaviour: the index of the hash engine, the merge of a      *)
(* compaction, the builder and reader of a table, the iterator of a scan and    *)
(* the page of the B-tree.  They share nothing; the variables of the others     *)
(* rest.                                                                        *)
EXTENDS Integers, Sequences

VARIABLES part,
          \* ShardedIndex
          entries, count, delta, batch, calls, batches,
          \* MergeFiles
          sstables, targetLevel, merge,
          \* SSTable
          added, currentBlock, blockOffset, blocks, sections, index, bits, minKey, maxKey,
          phase,
          \* MergingIterator
          memtables, position, heap, currentKey, currentValue, seen,
          \* PageLayout
          data, map, ops

\* Two of the three keys share a shard.
Index == INSTANCE ShardedIndex
    WITH Keys <- 1..3, Shards <- 1..2, ShardOf <- [k \in 1..3 |-> IF k = 3 THEN 2 ELSE 1],
         Procs <- {"p", "q"}, MaxCalls <- 4, MaxBatches <- 2

Merge == INSTANCE MergeFiles
    WITH Keys <- 1..3, LastLevel <- 4, MaxEntriesPerFile <- 2, Deletable <- {1}, MaxTables <- 4

\* A filter small enough to answer for keys that are not in the table; blocks that
\* entries of some sizes fill exactly or overflow.
Table == INSTANCE SSTable
    WITH Keys <- 1..5, BlockSize <- 40, BlockHeader <- 4, EntryHeader <- 9,
         DataSizes <- {3, 10, 27, 28}, KeySize <- 2, FooterSize <- 28,
         NumBits <- 8, NumHashes <- 2,
         Hash1 <- [k \in 1..5 |-> 5 * k + 3], Hash2 <- [k \in 1..5 |-> 7 * k + 1]

Iterator == INSTANCE MergingIterator
    WITH Keys <- 0..4, entries <- memtables, index <- position

\* A long value has a length of two bytes; a page holds one long value, not two.
Page == INSTANCE PageLayout
    WITH PageSize <- 150, KeySize <- 1, Values <- {"short", "long"},
         ValueSize <- [v \in {"short", "long"} |-> IF v = "short" THEN 1 ELSE 128],
         Byte <- [v \in {"short", "long"} |-> IF v = "short" THEN 5 ELSE 6],
         Keys <- 1..3, Children <- {7, 70000}, MaxOps <- 4

ASSUME InstancesAssumption ==
    /\ Index!ShardedIndexAssumption /\ Merge!MergeAssumption /\ Table!SSTableAssumption
    /\ Iterator!KeysAssumption

----------------------------------------------------------------------------
indexVars == <<entries, count, delta, batch, calls, batches>>
mergeVars == <<sstables, targetLevel, merge>>
tableVars == <<added, currentBlock, blockOffset, blocks, sections, index, bits, minKey,
               maxKey, phase>>
iteratorVars == <<memtables, position, heap, currentKey, currentValue, seen>>
pageVars == <<data, map, ops>>
vars == <<part, indexVars, mergeVars, tableVars, iteratorVars, pageVars>>

None == 0

NoIndex == /\ entries = None /\ count = None /\ delta = None /\ batch = None
           /\ calls = None /\ batches = None
NoMerge == sstables = None /\ targetLevel = None /\ merge = None
NoTable == /\ added = None /\ currentBlock = None /\ blockOffset = None /\ blocks = None
           /\ sections = None /\ index = None /\ bits = None /\ minKey = None
           /\ maxKey = None /\ phase = None
NoIterator == /\ memtables = None /\ position = None /\ heap = None /\ currentKey = None
              /\ currentValue = None /\ seen = None
NoPage == data = None /\ map = None /\ ops = None

Init ==
    \/ part = "index" /\ Index!Init /\ NoMerge /\ NoTable /\ NoIterator /\ NoPage
    \/ part = "merge" /\ NoIndex /\ Merge!Init /\ NoTable /\ NoIterator /\ NoPage
    \/ part = "table" /\ NoIndex /\ NoMerge /\ Table!Init /\ NoIterator /\ NoPage
    \/ part = "iterator" /\ NoIndex /\ NoMerge /\ NoTable /\ Iterator!Init /\ NoPage
    \/ part = "page" /\ NoIndex /\ NoMerge /\ NoTable /\ NoIterator /\ Page!Init

Next ==
    /\ \/ /\ part = "index" /\ Index!Next
          /\ UNCHANGED <<mergeVars, tableVars, iteratorVars, pageVars>>
       \/ /\ part = "merge" /\ Merge!Next
          /\ UNCHANGED <<indexVars, tableVars, iteratorVars, pageVars>>
       \/ /\ part = "table" /\ Table!Next
          /\ UNCHANGED <<indexVars, mergeVars, iteratorVars, pageVars>>
       \/ /\ part = "iterator" /\ Iterator!Scan
          /\ UNCHANGED <<indexVars, mergeVars, tableVars, pageVars>>
       \/ /\ part = "page" /\ Page!Next
          /\ UNCHANGED <<indexVars, mergeVars, tableVars, iteratorVars>>
    /\ UNCHANGED part

Spec == Init /\ [][Next]_vars

----------------------------------------------------------------------------
\* Each structure's property, as its module states it.

\* Put, Delete and the goroutines of UpdateBatch count each key that appears or
\* disappears once: Count is exact when no call runs.
CountExact == part = "index" => Index!CountExact

\* mergeFiles writes strictly increasing files within their limit, and neither
\* invents a record nor loses a key that it may not drop.
MergeExact == part = "merge" => Merge!MergeExact

\* Get and the merge's iterator see of a finished table exactly what was added.
ReadsExact == part = "table" => Table!ReadsExact

\* OpenSSTable accepts a table exactly when Finish has written all of it, with
\* the index, filter and key range it was built with.
OpensAsBuilt == part = "table" => Table!OpensAsBuilt

\* Scan gives each key of the memtables it reads once, in order, with the value of
\* the newer memtable.
ScanExact == part = "iterator" => Iterator!ScanExact

\* The bytes of a B-tree page always say what the abstract page of the B-tree's
\* modules says: inserts, deletes and resets keep directory and cells apart.
BytesMatchMap == part = "page" => Page!BytesMatchMap
=============================================================================
