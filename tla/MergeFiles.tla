----------------------------- MODULE MergeFiles -----------------------------
(***************************************************************************)
(* lsm/compaction.go: the k-way merge of sorted tables with a heap from    *)
(* container/heap.  A table is a sequence of entries, strictly increasing  *)
(* in the key; the bytes of a value are the number of the write that made  *)
(* it.  Iterators, heap and output are one record, so that the same loop   *)
(* body serves the state machine below and the operator mergeFiles that    *)
(* the engine's module uses.                                               *)
(***************************************************************************)
EXTENDS Integers, Sequences, FiniteSets, SequencesExt

CONSTANTS Keys,               \* a set of numbers, in the order of the strings
          LastLevel,          \* 4 in the code
          MaxEntriesPerFile,
          MaxTables,          \* bound: tables of one merge
          Deletable           \* bound: keys that may have tombstones

MergeAssumption ==
    /\ Keys \subseteq Nat /\ Deletable \subseteq Keys
    /\ LastLevel \in Nat /\ MaxTables \in Nat
    /\ MaxEntriesPerFile \in Nat \ {0}

VARIABLES sstables, targetLevel, merge
vars == <<sstables, targetLevel, merge>>

Entry == [key : Nat, num : Nat, del : BOOLEAN]
\* SSTables do not store sequence numbers: the iterator fills in zero.
CompactionEntry == [key : Nat, num : Nat, del : BOOLEAN, seq : {0}, sstIndex : Nat]

----------------------------------------------------------------------------
\* CompactionHeap and container/heap, which counts from zero.

Less(a, b) == \/ a.key < b.key
              \/ a.key = b.key /\ a.seq > b.seq

SwapIn(h, i, j) == [h EXCEPT ![i] = h[j], ![j] = h[i]]

up[h \in Seq(CompactionEntry), j \in Nat] ==
    IF j = 1 \/ ~Less(h[j], h[j \div 2]) THEN h
    ELSE up[SwapIn(h, j, j \div 2), j \div 2]

\* Mutant: the right child is not looked at.
SmallerChild_Left(h, i) == 2 * i

SmallerChild(h, i) ==
    IF 2 * i < Len(h) /\ Less(h[2 * i + 1], h[2 * i]) THEN 2 * i + 1 ELSE 2 * i

down[h \in Seq(CompactionEntry), i \in Nat] ==
    LET j == SmallerChild(h, i) IN
    IF 2 * i > Len(h) THEN h
    ELSE IF ~Less(h[j], h[i]) THEN h
    ELSE down[SwapIn(h, i, j), j]

Push(h, x) == up[Append(h, x), Len(h) + 1]
Pop(h) == IF Len(h) = 1 THEN <<>> ELSE down[Front(SwapIn(h, 1, Len(h))), 1]

----------------------------------------------------------------------------
\* SSTableIterator.Next over the entries of table i, and the heap after it.

Item(tables, i, n) == LET e == tables[i][n] IN
    [key |-> e.key, num |-> e.num, del |-> e.del, seq |-> 0, sstIndex |-> i]

PushNext(tables, m, i) ==
    IF m.pos[i] > Len(tables[i]) THEN m
    ELSE [m EXCEPT !.heap = Push(@, Item(tables, i, m.pos[i])), !.pos[i] = @ + 1]

Start(tables) ==
    FoldLeft(LAMBDA m, i : PushNext(tables, m, i),
             [pos |-> [i \in DOMAIN tables |-> 1], heap |-> <<>>,
              new |-> <<>>, builder |-> <<>>],
             [i \in DOMAIN tables |-> i])

\* The popped entry is not written: the heap still has its key, or it is a
\* tombstone on its way to the last level.
Skips(m, e, level) == \/ m.heap # <<>> /\ m.heap[1].key = e.key
                      \/ level = LastLevel /\ e.del

\* Builder.Add, and Finish when the file is full.
Write(m, e) ==
    LET b == Append(m.builder, [key |-> e.key, num |-> e.num, del |-> e.del]) IN
    IF Len(b) >= MaxEntriesPerFile
    THEN [m EXCEPT !.new = Append(@, b), !.builder = <<>>]
    ELSE [m EXCEPT !.builder = b]

\* One round of the loop.
Round(tables, level, m) ==
    LET e == m.heap[1]
        n == PushNext(tables, [m EXCEPT !.heap = Pop(@)], e.sstIndex)
    IN  IF Skips(n, e, level) THEN n ELSE Write(n, e)

\* "Finish last file".
Finish(m) == IF m.builder = <<>> THEN m
             ELSE [m EXCEPT !.new = Append(@, m.builder), !.builder = <<>>]

\* mergeFiles as the engine sees it: the new tables.
mergeFiles(tables, level) ==
    LET loop[m \in [pos : Seq(Nat), heap : Seq(CompactionEntry),
                    new : Seq(Seq(Entry)), builder : Seq(Entry)]] ==
            IF m.heap = <<>> THEN Finish(m).new ELSE loop[Round(tables, level, m)]
    IN  loop[Start(tables)]

----------------------------------------------------------------------------
\* The merge of any tables, round by round.  The number of an entry is the
\* place of its table in the argument.

SortedTable(ks, i, dels) ==
    [n \in 1..Cardinality(ks) |->
        LET k == SetToSortSeq(ks, <)[n] IN [key |-> k, num |-> i, del |-> k \in dels]]

TablesOf(i) == UNION {{SortedTable(ks, i, dels) : dels \in SUBSET (ks \cap Deletable)} :
                         ks \in SUBSET Keys \ {{}}}

Init ==
    /\ \E n \in 1..MaxTables :
          sstables \in {s \in [1..n -> UNION {TablesOf(i) : i \in 1..n}] :
                           \A i \in 1..n : s[i][1].num = i}
    /\ targetLevel \in {1, LastLevel}
    /\ merge = Start(sstables)

MergeRound ==
    /\ merge.heap # <<>>
    /\ merge' = Round(sstables, targetLevel, merge)
    /\ UNCHANGED <<sstables, targetLevel>>

MergeEnd ==
    /\ merge.heap = <<>> /\ merge.builder # <<>>
    /\ merge' = Finish(merge)
    /\ UNCHANGED <<sstables, targetLevel>>

Done == merge.heap = <<>> /\ merge.builder = <<>>

Next == MergeRound \/ MergeEnd \/ (Done /\ UNCHANGED vars)

Spec == Init /\ [][Next]_vars

----------------------------------------------------------------------------
KeysOf(t) == {t[n].key : n \in DOMAIN t}
Output == FlattenSeq(merge.new) \o merge.builder
InTables == UNION {ToSet(sstables[i]) : i \in DOMAIN sstables}

\* The output, across all new files, is strictly increasing, as Builder.Add asks
\* of its callers ("MUST be called in sorted key order!") and as level 1 and above
\* need to be searched by range, and no file is over its limit.  The merge neither
\* invents nor loses: what it writes comes from the tables, and at the end every
\* key of the tables has been written, except that the last level may be without
\* keys that have a tombstone.
MergeExact ==
    /\ \A i, j \in DOMAIN Output : i < j => Output[i].key < Output[j].key
    /\ \A i \in DOMAIN merge.new : Len(merge.new[i]) \in 1..MaxEntriesPerFile
    /\ ToSet(Output) \subseteq InTables
    /\ Done => \A e \in InTables :
          \/ e.key \in KeysOf(Output)
          \/ targetLevel = LastLevel /\ \E d \in InTables : d.key = e.key /\ d.del
=============================================================================
