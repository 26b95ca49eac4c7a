-------------------------------- MODULE LSM --------------------------------
(***************************************************************************)
(* The LSM engine (lsm/lsm.go with memtable.go, wal.go, levels.go and the   *)
(* compaction entry points of compaction.go): Put/Delete, Get, the flush    *)
(* worker, the compaction worker, Close, a crash, and New.                  *)
(*                                                                         *)
(* A memtable is a function from the keys it holds; an SSTable is a record  *)
(* of its level, its file number and its sorted entries; blocks, index and  *)
(* filter are the subject of module SSTable, the merge itself of module     *)
(* MergeFiles.  The value of a record is the number of the write.           *)
(***************************************************************************)
EXTENDS Integers, Sequences, FiniteSets, FiniteSetsExt, SequencesExt

CONSTANTS Keys,                 \* a set of numbers, in the order of the strings
          Deletable,            \* keys that Delete is called with
          Writers, Readers,     \* goroutines calling Put and Delete, and Get
          MemTableSize,         \* Config
          KeyCost, ValueSize,   \* len(key) + 16, len(value)
          MaxL0Files,           \* maxL0Files, 4 in the code
          MaxLevelFiles,        \* files of 4 MB that fill a level above 0
          LastLevel,            \* 4 in the code
          MaxEntriesPerFile,    \* 100000 in the code
          MaxPuts, MaxCrashes, MaxCloses, MaxFaults,     \* bounds
          Faults                \* the operations that may fail

ASSUME LSMAssumption ==
    /\ Keys \subseteq Nat \ {0} /\ Deletable \subseteq Keys
    /\ {MemTableSize, KeyCost, MaxL0Files, MaxLevelFiles, LastLevel, MaxEntriesPerFile}
           \subseteq Nat \ {0}
    /\ {ValueSize, MaxPuts, MaxCrashes, MaxCloses, MaxFaults} \subseteq Nat
    /\ Faults \subseteq {"append", "flush", "wal", "merge"}

VARIABLES
    active, imm,     \* activeMemtable; immutableMemtable, empty for nil
    sequence, nextFileNum,
    wal, walFile,    \* the open log handle or NoWAL; the records of wal.log
    handles,         \* log handles made so far
    levels,          \* LevelManager: per level its SSTables
    disk,            \* the SSTables whose file is in the data directory
    flushChan, compactionChan,    \* a signal is in the channel
    up,              \* open, closing, flushed, closed; failed when New failed
    mu,              \* lsm.mu: free, or the worker that holds it for some steps
    wr, rd, fl, cp,  \* the calls in progress and the two workers
    last,            \* history: the last write applied to each key
    acked,           \* history: keys of acknowledged writes
    cnt              \* calls, crashes and failures so far, against the bounds;
                     \* back (history): nextFileNum went back to a number given out

memVars == <<active, imm, sequence, flushChan>>
walVars == <<wal, walFile, handles>>
sstVars == <<nextFileNum, levels, disk>>
histVars == <<last, acked>>
vars == <<memVars, walVars, sstVars, compactionChan, up, mu, wr, rd, fl, cp, histVars, cnt>>

CM == INSTANCE MergeFiles WITH MaxTables <- 0, sstables <- <<>>, targetLevel <- 0,
                               merge <- <<>>

Nil == <<>>              \* no immutable memtable; also an empty one
NoWAL == 0
Levels == 0..LastLevel
NoWrite == [num |-> 0, seq |-> 0, del |-> FALSE]
Torn == [key |-> 0, num |-> 0, seq |-> 0, del |-> FALSE]
ReadError == -1          \* what Get returns besides a value and 0, not found

IdleWriter == [pc |-> "idle", key |-> 0, rec |-> NoWrite, wal |-> NoWAL]
IdleReader == [pc |-> "idle", key |-> 0, level |-> 0, files |-> <<>>, must |-> FALSE,
               got |-> 0]
IdleCompaction == [pc |-> "wait", level |-> 0, src |-> <<>>, old |-> <<>>, out |-> <<>>,
                   new |-> <<>>, num |-> 0, left |-> <<>>]

Init ==
    /\ active = Nil /\ imm = Nil /\ sequence = 0 /\ nextFileNum = 0
    /\ wal = 1 /\ walFile = <<>> /\ handles = 1
    /\ levels = [l \in Levels |-> <<>>] /\ disk = {}
    /\ flushChan = FALSE /\ compactionChan = FALSE /\ up = "open" /\ mu = "free"
    /\ wr = [c \in Writers |-> IdleWriter] /\ rd = [r \in Readers |-> IdleReader]
    /\ fl = "wait" /\ cp = IdleCompaction
    /\ last = [k \in Keys |-> NoWrite] /\ acked = {}
    /\ cnt = [put |-> 0, crash |-> 0, close |-> 0, fault |-> 0, back |-> FALSE]

Count(field) == cnt' = [cnt EXCEPT ![field] = @ + 1]

\* The operation fails, as often as the bound allows.
Fault(op) == op \in Faults /\ cnt.fault < MaxFaults /\ Count("fault")

----------------------------------------------------------------------------
\* MemTable and SSTable

\* MemTable.Put and Delete
MemPut(m, k, rec) == [x \in DOMAIN m \cup {k} |-> IF x = k THEN rec ELSE m[x]]

MemSize(m) == KeyCost * Cardinality(DOMAIN m)
              + ValueSize * Cardinality({k \in DOMAIN m : ~m[k].del})
IsFull(m) == MemSize(m) >= MemTableSize

MemGet(m, k) == IF k \in DOMAIN m THEN m[k] ELSE NoWrite

\* GetAllEntries
Entries(m) == LET ks == SetToSortSeq(DOMAIN m, <) IN
    [i \in DOMAIN ks |-> [key |-> ks[i], num |-> m[ks[i]].num, del |-> m[ks[i]].del]]

SSTable(l, n, d) == [level |-> l, fileNum |-> n, data |-> d]
MinKey(t) == t.data[1].key
MaxKey(t) == Last(t.data).key
TableKeys(t) == {t.data[i].key : i \in DOMAIN t.data}
Overlaps(t, lo, hi) == MaxKey(t) >= lo /\ MinKey(t) <= hi

\* SSTable.Get of a table that can be read; a tombstone is not found.
SSTGet(t, k) ==
    LET hit == {i \in DOMAIN t.data : t.data[i].key = k /\ ~t.data[i].del} IN
    IF hit = {} THEN 0 ELSE t.data[Min(hit)].num

\* A file goes by its name, made of level and number: removing or creating one
\* hits whatever has that name.
RemoveFile(t) == {d \in disk : d.level # t.level \/ d.fileNum # t.fileNum}
Create(t) == RemoveFile(t) \cup {t}

----------------------------------------------------------------------------
\* LevelManager

\* Mutant: level 0 is kept newest first.
AddTo_Prepends(files, t) ==
    IF t.level = 0 THEN <<t>> \o files
    ELSE SelectSeq(files, LAMBDA f : MinKey(f) <= MinKey(t)) \o <<t>>
         \o SelectSeq(files, LAMBDA f : MinKey(f) > MinKey(t))

\* AddSSTable: level 0 in order of arrival, the others by their first key.
AddTo(files, t) ==
    IF t.level = 0 THEN Append(files, t)
    ELSE SelectSeq(files, LAMBDA f : MinKey(f) <= MinKey(t)) \o <<t>>
         \o SelectSeq(files, LAMBDA f : MinKey(f) > MinKey(t))

AddSSTable(t) == levels' = [levels EXCEPT ![t.level] = AddTo(@, t)]

\* RemoveSSTable goes by the file number.
RemoveSSTable(t) ==
    LET at == {i \in DOMAIN levels[t.level] : levels[t.level][i].fileNum = t.fileNum} IN
    levels' = [levels EXCEPT ![t.level] = IF at = {} THEN @ ELSE RemoveAt(@, Min(at))]

\* updateLevelSize, in units of the 4 MB assumed per file.
LevelSize(l) == Len(levels[l])

ShouldCompact(l) == IF l = 0 THEN Len(levels[0]) >= MaxL0Files
                             ELSE LevelSize(l) >= MaxLevelFiles

PickCompactionFiles(l) == IF l = 0 THEN levels[0] ELSE SubSeq(levels[l], 1, 1)

----------------------------------------------------------------------------
\* WAL

WALAppend(k, rec) == walFile' = Append(walFile, [key |-> k] @@ rec)

NewWAL == wal' = handles + 1 /\ handles' = handles + 1

WALDelete == walFile' = <<>>

\* ReadAll returns an error: a torn record is cut off by the end of the file, or
\* its lengths cover the records behind it and the CRC does not match.
ReadAllFails == Torn \in ToSet(walFile)

----------------------------------------------------------------------------
\* Put and Delete: the same steps, after DeleteBegin with a tombstone.

WriteBegin(c, k, d) ==
    /\ wr[c].pc = "idle" /\ up = "open" /\ cnt.put < MaxPuts /\ Count("put")
    /\ sequence' = sequence + 1
    /\ wr' = [wr EXCEPT ![c] =
                [pc |-> "append", key |-> k, wal |-> wal,
                 rec |-> [num |-> cnt.put + 1, seq |-> sequence + 1, del |-> d]]]
    /\ UNCHANGED <<active, imm, flushChan, walVars, sstVars, compactionChan, up, mu, rd, fl,
                   cp, histVars>>

PutBegin(c) == \E k \in Keys : WriteBegin(c, k, FALSE)
DeleteBegin(c) == \E k \in Deletable : WriteBegin(c, k, TRUE)

\* lsm.wal is read without lsm.mu.  The handle read is the current one, or one
\* that was current since the call began and has been closed.
PutAppend(c) ==
    /\ wr[c].pc = "append" /\ wal # NoWAL
    /\ WALAppend(wr[c].key, wr[c].rec)
    /\ wr' = [wr EXCEPT ![c].pc = "apply"]
    /\ UNCHANGED <<memVars, wal, handles, sstVars, compactionChan, up, mu, rd, fl, cp,
                   histVars, cnt>>

\* Append returns an error: the handle is closed, or the file took only a part
\* of the record.
PutFails(c) ==
    /\ wr[c].pc = "append"
    /\ \/ (wr[c].wal # wal \/ wal = NoWAL) /\ UNCHANGED <<walFile, cnt>>
       \/ wal # NoWAL /\ Fault("append") /\ walFile' = Append(walFile, Torn)
    /\ wr' = [wr EXCEPT ![c] = IdleWriter]
    /\ UNCHANGED <<memVars, wal, handles, sstVars, compactionChan, up, mu, rd, fl, cp, histVars>>

\* The insertion and IsFull under RLock.
PutApply(c) ==
    /\ wr[c].pc = "apply" /\ mu = "free"
    /\ active' = MemPut(active, wr[c].key, wr[c].rec)
    /\ last' = [last EXCEPT ![wr[c].key] = wr[c].rec]
    /\ IF IsFull(active')
       THEN wr' = [wr EXCEPT ![c].pc = "freeze"] /\ UNCHANGED acked
       ELSE wr' = [wr EXCEPT ![c] = IdleWriter] /\ acked' = acked \cup {wr[c].key}
    /\ UNCHANGED <<imm, sequence, flushChan, walVars, sstVars, compactionChan, up, mu, rd, fl,
                   cp, cnt>>

MayFreeze == IsFull(active) /\ imm = Nil

\* The double check under Lock.
PutFreeze(c) ==
    /\ wr[c].pc = "freeze" /\ mu = "free"
    /\ IF MayFreeze
       THEN imm' = active /\ active' = Nil /\ flushChan' = TRUE
       ELSE UNCHANGED <<active, imm, flushChan>>
    /\ wr' = [wr EXCEPT ![c] = IdleWriter]
    /\ acked' = acked \cup {wr[c].key}
    /\ UNCHANGED <<sequence, walVars, sstVars, compactionChan, up, mu, rd, fl, cp, last, cnt>>

----------------------------------------------------------------------------
\* Get

\* What the memtables say: a write, or NoWrite.
InMemtables(k) == IF MemGet(active, k) # NoWrite THEN MemGet(active, k) ELSE MemGet(imm, k)

Value(rec) == IF rec.del THEN 0 ELSE rec.num

\* The compaction is between taking its inputs off the lists and listing its
\* outputs.
Switching == cp.pc \in {"remove", "add"}

\* What is kept of a Get that has returned n: whether it had to find its key, and
\* whether it found a value, none, or failed.
Returned(g, n) == [IdleReader EXCEPT !.must = g.must, !.got = IF n > 0 THEN 1 ELSE n]

\* Mutant: Get leaves out the memtable that waits to be flushed.
GetMemtables_ActiveOnly(r) ==
    /\ rd[r].pc = "idle" /\ up = "open" /\ mu = "free"
    /\ \E k \in Keys :
          LET g == [IdleReader EXCEPT !.pc = "list", !.key = k,
                                      !.must = k \in acked \ Deletable /\ ~Switching]
          IN  rd' = [rd EXCEPT ![r] = IF MemGet(active, k) = NoWrite THEN g
                                      ELSE Returned(g, Value(MemGet(active, k)))]
    /\ UNCHANGED <<memVars, walVars, sstVars, compactionChan, up, mu, wr, fl, cp, histVars, cnt>>

\* Both memtables under one RLock.
GetMemtables(r) ==
    /\ rd[r].pc = "idle" /\ up = "open" /\ mu = "free"
    /\ \E k \in Keys :
          LET g == [IdleReader EXCEPT !.pc = "list", !.key = k,
                                      !.must = k \in acked \ Deletable /\ ~Switching]
          IN  rd' = [rd EXCEPT ![r] = IF InMemtables(k) = NoWrite THEN g
                                      ELSE Returned(g, Value(InMemtables(k)))]
    /\ UNCHANGED <<memVars, walVars, sstVars, compactionChan, up, mu, wr, fl, cp, histVars, cnt>>

\* GetAllSSTables of the next level.
GetList(r) ==
    /\ rd[r].pc = "list"
    /\ rd' = [rd EXCEPT ![r].pc = "search", ![r].files = levels[rd[r].level]]
    /\ UNCHANGED <<memVars, walVars, sstVars, compactionChan, up, mu, wr, fl, cp, histVars, cnt>>

\* The tables whose Get is called: on level 0 all up to the first that finds the
\* key, on the others the first whose range has the key.
Searched(files, l, k) ==
    LET range == {i \in DOMAIN files : Overlaps(files[i], k, k)}
        hit == {i \in DOMAIN files : SSTGet(files[i], k) # 0}
    IN  IF l > 0 THEN {i \in range : i = Min(range)}
        ELSE IF hit = {} THEN DOMAIN files ELSE 1..Min(hit)

Found(files, l, k) ==
    LET n == {SSTGet(files[i], k) : i \in Searched(files, l, k)} IN Max(n \cup {0})

\* A search reads a file only when its filter passes the key, and fails when
\* the file has been closed meanwhile.
GetSearch(r) ==
    LET g == rd[r]
        gone == {i \in Searched(g.files, g.level, g.key) :
                    g.files[i] \notin disk \/ up = "closed"}
        done(n) == rd' = [rd EXCEPT ![r] = Returned(g, n)]
    IN  /\ g.pc = "search"
        /\ \/ gone # {} /\ done(ReadError)
           \/ /\ \A i \in gone : g.key \notin TableKeys(g.files[i])
              /\ LET n == Found(g.files, g.level, g.key) IN
                 IF n # 0 \/ g.level = LastLevel THEN done(n)
                 ELSE rd' = [rd EXCEPT ![r].pc = "list", ![r].level = @ + 1,
                                       ![r].files = <<>>]
        /\ UNCHANGED <<memVars, walVars, sstVars, compactionChan, up, mu, wr, fl, cp,
                       histVars, cnt>>

\* A Get that nothing interrupts.
LookupIn(ls, k) ==
    LET hits == {l \in Levels : Found(ls[l], l, k) # 0} IN
    IF InMemtables(k) # NoWrite THEN Value(InMemtables(k))
    ELSE IF hits = {} THEN 0 ELSE Found(ls[Min(hits)], Min(hits), k)

Lookup(k) == LookupIn(levels, k)

----------------------------------------------------------------------------
\* flushWorker

FlushReceive ==
    /\ fl = "wait" /\ flushChan
    /\ flushChan' = FALSE /\ fl' = "lock"
    /\ UNCHANGED <<active, imm, sequence, walVars, sstVars, compactionChan, up, mu, wr, rd, cp,
                   histVars, cnt>>

FlushLock ==
    /\ fl = "lock" /\ mu = "free"
    /\ IF imm = Nil THEN fl' = "check" /\ UNCHANGED mu
                    ELSE fl' = "build" /\ mu' = "flush"
    /\ UNCHANGED <<memVars, walVars, sstVars, compactionChan, up, wr, rd, cp, histVars, cnt>>

\* A file for the entries of m, listed on level 0.
flushMemtable(m) ==
    LET t == SSTable(0, nextFileNum, Entries(m)) IN
    /\ nextFileNum' = nextFileNum + 1
    /\ disk' = Create(t)
    /\ AddSSTable(t)

FlushBuild ==
    /\ fl = "build"
    /\ flushMemtable(imm)
    /\ fl' = "clear"
    /\ UNCHANGED <<memVars, walVars, compactionChan, up, mu, wr, rd, cp, histVars, cnt>>

\* flushMemtable returns an error; no readable file is left.
FlushFails ==
    /\ fl = "build" /\ Fault("flush")
    /\ nextFileNum' = nextFileNum + 1
    /\ fl' = "check" /\ mu' = "free"
    /\ UNCHANGED <<memVars, walVars, levels, disk, compactionChan, up, wr, rd, cp, histVars>>

\* WAL.Delete and NewWAL; when NewWAL fails lsm.wal stays the closed one.
NewLog ==
    /\ WALDelete
    /\ \/ NewWAL /\ UNCHANGED cnt
       \/ wal' = NoWAL /\ Fault("wal") /\ UNCHANGED handles

FlushClear ==
    /\ fl = "clear"
    /\ imm' = Nil /\ NewLog
    /\ fl' = "check" /\ mu' = "free"
    /\ UNCHANGED <<active, sequence, flushChan, sstVars, compactionChan, up, wr, rd, cp, histVars>>

\* Mutant: the signal is sent one file late.
FlushCheck_Late ==
    /\ fl = "check"
    /\ compactionChan' = (compactionChan \/ Len(levels[0]) > MaxL0Files)
    /\ fl' = "wait"
    /\ UNCHANGED <<memVars, walVars, sstVars, up, mu, wr, rd, cp, histVars, cnt>>

FlushCheck ==
    /\ fl = "check"
    /\ compactionChan' = (compactionChan \/ ShouldCompact(0))
    /\ fl' = "wait"
    /\ UNCHANGED <<memVars, walVars, sstVars, up, mu, wr, rd, cp, histVars, cnt>>

FlushStop ==
    /\ fl = "wait" /\ up # "open"
    /\ fl' = "done"
    /\ UNCHANGED <<memVars, walVars, sstVars, compactionChan, up, mu, wr, rd, cp, histVars, cnt>>

----------------------------------------------------------------------------
\* compactionWorker

CompactReceive ==
    /\ cp.pc = "wait" /\ compactionChan
    /\ compactionChan' = FALSE /\ cp' = [cp EXCEPT !.pc = "pick"]
    /\ UNCHANGED <<memVars, walVars, sstVars, up, mu, wr, rd, fl, histVars, cnt>>

\* Mutant: only the first file of the lower level is compared.
Overlapping_First(src, files) ==
    SelectSeq(files, LAMBDA t : Overlaps(t, MinKey(src[1]), MaxKey(src[1])))

\* The files of the next level that overlap the range of src.
Overlapping(src, files) ==
    LET lo == Min({MinKey(src[i]) : i \in DOMAIN src})
        hi == Max({MaxKey(src[i]) : i \in DOMAIN src})
    IN  SelectSeq(files, LAMBDA t : Overlaps(t, lo, hi))

Data(files) == [i \in DOMAIN files |-> files[i].data]

\* The merge of src with the overlapping files of the next level.
CompactLnToLn1(src, files, targetLevel) ==
    LET old == Overlapping(src, files) IN
    [old |-> old, out |-> CM!mergeFiles(Data(src \o old), targetLevel)]

\* compactL0ToL1 and compactLevel: what is merged, before its files are written.
compactLevel(l) ==
    LET src == PickCompactionFiles(l)
        merged == CompactLnToLn1(src, levels[l + 1], l + 1)
    IN  [IdleCompaction EXCEPT !.pc = "merge", !.level = l, !.src = src,
                               !.old = merged.old, !.out = merged.out]

\* performCompaction; the tables being merged do not change meanwhile.
CompactPick ==
    LET need == {l \in 0..LastLevel - 1 : ShouldCompact(l)} IN
    /\ cp.pc = "pick"
    /\ cp' = IF need = {} THEN IdleCompaction ELSE compactLevel(Min(need))
    /\ UNCHANGED <<memVars, walVars, sstVars, compactionChan, up, mu, wr, rd, fl, histVars, cnt>>

\* mergeFiles takes its file numbers with a plain read and a plain write.
MergeNumber ==
    /\ cp.pc = "merge" /\ cp.out # <<>>
    /\ cp' = [cp EXCEPT !.pc = "write", !.num = nextFileNum]
    /\ UNCHANGED <<memVars, walVars, sstVars, compactionChan, up, mu, wr, rd, fl, histVars, cnt>>

\* Flushes have taken more than one number since MergeNumber: the last will be given
\* out again.
StepsBack == cp.pc = "write" /\ nextFileNum > cp.num + 1

\* Mutant: only the last new file is handed back.
MergeWrite_LastOnly ==
    LET t == SSTable(cp.level + 1, cp.num, Head(cp.out)) IN
    /\ cp.pc = "write"
    /\ nextFileNum' = cp.num + 1
    /\ disk' = Create(t)
    /\ cnt' = [cnt EXCEPT !.back = @ \/ StepsBack]
    /\ cp' = [cp EXCEPT !.pc = "merge", !.out = Tail(@), !.new = <<t>>]
    /\ UNCHANGED <<memVars, walVars, levels, compactionChan, up, mu, wr, rd, fl, histVars>>

MergeWrite ==
    LET t == SSTable(cp.level + 1, cp.num, Head(cp.out)) IN
    /\ cp.pc = "write"
    /\ nextFileNum' = cp.num + 1
    /\ disk' = Create(t)
    /\ cnt' = [cnt EXCEPT !.back = @ \/ StepsBack]
    /\ cp' = [cp EXCEPT !.pc = "merge", !.out = Tail(@), !.new = Append(@, t)]
    /\ UNCHANGED <<memVars, walVars, levels, compactionChan, up, mu, wr, rd, fl, histVars>>

\* Mutant: the inputs of a failed merge are deleted.
MergeFails_Deletes ==
    /\ \/ cp.pc = "write" /\ nextFileNum' = cp.num + 1
       \/ cp.pc = "merge" /\ cp.new = <<>> /\ cp.out # <<>> /\ UNCHANGED nextFileNum
    /\ "merge" \in Faults /\ cnt.fault < MaxFaults
    /\ cnt' = [cnt EXCEPT !.fault = @ + 1, !.back = @ \/ StepsBack]
    /\ cp' = [cp EXCEPT !.pc = "delete", !.left = cp.src \o cp.old]
    /\ UNCHANGED <<memVars, walVars, levels, disk, compactionChan, up, mu, wr, rd, fl, histVars>>

\* mergeFiles returns an error, before its first file when a table cannot be
\* read; the files it has finished stay.
MergeFails ==
    /\ \/ cp.pc = "write" /\ nextFileNum' = cp.num + 1
       \/ cp.pc = "merge" /\ cp.new = <<>> /\ cp.out # <<>> /\ UNCHANGED nextFileNum
    /\ "merge" \in Faults /\ cnt.fault < MaxFaults
    /\ cnt' = [cnt EXCEPT !.fault = @ + 1, !.back = @ \/ StepsBack]
    /\ cp' = [cp EXCEPT !.pc = "trigger"]
    /\ UNCHANGED <<memVars, walVars, levels, disk, compactionChan, up, mu, wr, rd, fl, histVars>>

\* Mutant: the inputs are deleted before they are off the lists.
CompactLock_DeletesFirst ==
    /\ cp.pc = "merge" /\ cp.out = <<>> /\ mu = "free"
    /\ mu' = "compact" /\ cp' = [cp EXCEPT !.pc = "remove", !.left = cp.src \o cp.old]
    /\ disk' = disk \ ToSet(cp.src \o cp.old)
    /\ UNCHANGED <<memVars, walVars, nextFileNum, levels, compactionChan, up, wr, rd, fl,
                   histVars, cnt>>

CompactLock ==
    /\ cp.pc = "merge" /\ cp.out = <<>> /\ mu = "free"
    /\ mu' = "compact" /\ cp' = [cp EXCEPT !.pc = "remove", !.left = cp.src \o cp.old]
    /\ rd' = [r \in Readers |-> IF rd[r].pc = "idle" THEN rd[r]
                                ELSE [rd[r] EXCEPT !.must = FALSE]]
    /\ UNCHANGED <<memVars, walVars, sstVars, compactionChan, up, wr, fl, histVars, cnt>>

Listed == UNION {ToSet(levels[l]) : l \in Levels}

\* The loops over the lists of files, one file a step.
CompactRemove ==
    /\ cp.pc = "remove"
    /\ IF cp.left = <<>>
       THEN cp' = [cp EXCEPT !.pc = "add", !.left = cp.new] /\ UNCHANGED levels
       ELSE RemoveSSTable(Head(cp.left)) /\ cp' = [cp EXCEPT !.left = Tail(@)]
    /\ UNCHANGED <<memVars, walVars, nextFileNum, disk, compactionChan, up, mu, wr, rd, fl,
                   histVars, cnt>>

CompactAdd ==
    /\ cp.pc = "add"
    /\ IF cp.left = <<>>
       THEN /\ cp' = [cp EXCEPT !.pc = "delete", !.left = cp.src \o cp.old]
            /\ mu' = "free" /\ UNCHANGED levels
       ELSE /\ AddSSTable(Head(cp.left))
            /\ cp' = [cp EXCEPT !.left = Tail(@)] /\ UNCHANGED mu
    /\ UNCHANGED <<memVars, walVars, nextFileNum, disk, compactionChan, up, wr, rd, fl, histVars,
                   cnt>>

\* DeleteSSTables
CompactDelete ==
    /\ cp.pc = "delete"
    /\ IF cp.left = <<>>
       THEN cp' = [cp EXCEPT !.pc = "trigger"] /\ UNCHANGED disk
       ELSE disk' = RemoveFile(Head(cp.left)) /\ cp' = [cp EXCEPT !.left = Tail(@)]
    /\ UNCHANGED <<memVars, walVars, nextFileNum, levels, compactionChan, up, mu, wr, rd, fl,
                   histVars, cnt>>

\* triggerNextLevelCompaction
CompactTrigger ==
    /\ cp.pc = "trigger"
    /\ compactionChan' = (compactionChan \/ ShouldCompact(cp.level + 1))
    /\ cp' = IdleCompaction
    /\ UNCHANGED <<memVars, walVars, sstVars, up, mu, wr, rd, fl, histVars, cnt>>

CompactStop ==
    /\ cp.pc = "wait" /\ up # "open"
    /\ cp' = [cp EXCEPT !.pc = "done"]
    /\ UNCHANGED <<memVars, walVars, sstVars, compactionChan, up, mu, wr, rd, fl, histVars, cnt>>

----------------------------------------------------------------------------
\* Close, a crash, and New

CloseBegin ==
    /\ up = "open" /\ cnt.close < MaxCloses /\ Count("close")
    /\ up' = "closing"
    /\ UNCHANGED <<memVars, walVars, sstVars, compactionChan, mu, wr, rd, fl, cp, histVars>>

\* Mutant: Close polls until the immutable memtable is gone.
CloseFlush_Polls ==
    /\ up = "closing" /\ fl = "done" /\ cp.pc = "done"
    /\ IF imm # Nil THEN UNCHANGED <<sstVars, up>>
       ELSE /\ IF active = Nil THEN UNCHANGED sstVars ELSE flushMemtable(active)
            /\ up' = "flushed"
    /\ UNCHANGED <<memVars, walVars, compactionChan, mu, wr, rd, fl, cp, histVars, cnt>>

\* wg.Wait has returned; the active memtable is flushed under Lock.
CloseFlush ==
    /\ up = "closing" /\ fl = "done" /\ cp.pc = "done"
    /\ IF active = Nil THEN UNCHANGED sstVars ELSE flushMemtable(active)
    /\ up' = "flushed"
    /\ UNCHANGED <<memVars, walVars, compactionChan, mu, wr, rd, fl, cp, histVars, cnt>>

\* The log and the tables are closed; wal.log stays.
CloseEnd ==
    /\ up = "flushed"
    /\ up' = "closed" /\ wal' = NoWAL
    /\ UNCHANGED <<memVars, walFile, handles, sstVars, compactionChan, mu, wr, rd, fl, cp,
                   histVars, cnt>>

\* loadSSTables: os.ReadDir lists by level, then by number.
loadSSTables ==
    LET in(l) == SetToSortSeq({t \in disk : t.level = l},
                              LAMBDA s, t : s.fileNum < t.fileNum)
    IN  /\ levels' = [l \in Levels |-> FoldLeft(AddTo, <<>>, in(l))]
        /\ nextFileNum' = Max({t.fileNum + 1 : t \in disk} \cup {0})

\* recoverFromWAL; ReadAll refuses a log with a torn record.
recoverFromWAL ==
    /\ active' = FoldLeft(LAMBDA m, r : MemPut(m, r.key, [num |-> r.num, seq |-> r.seq,
                                                         del |-> r.del]), Nil, walFile)
    /\ sequence' = Max({walFile[i].seq : i \in DOMAIN walFile} \cup {0})

New ==
    /\ IF ReadAllFails
       THEN up' = "failed" /\ UNCHANGED <<active, sequence, levels, nextFileNum>>
       ELSE up' = "open" /\ recoverFromWAL /\ loadSSTables
    /\ imm' = Nil /\ flushChan' = FALSE /\ compactionChan' = FALSE
    /\ NewWAL
    /\ mu' = "free" /\ fl' = "wait" /\ cp' = IdleCompaction
    /\ wr' = [c \in Writers |-> IdleWriter] /\ rd' = [r \in Readers |-> IdleReader]
    /\ UNCHANGED <<walFile, disk, histVars>>

CallsDone == /\ \A c \in Writers : wr[c].pc = "idle"
             /\ \A r \in Readers : rd[r].pc = "idle"

\* The process dies and is started again.
Crash == up \in {"open", "closing", "flushed"} /\ cnt.crash < MaxCrashes /\ Count("crash") /\ New
Reopen == up = "closed" /\ CallsDone /\ New /\ UNCHANGED cnt

\* Nothing is left to do but what the bounds forbid.
Idle == /\ CallsDone /\ \/ up = "failed"
                        \/ up = "open" /\ fl = "wait" /\ ~flushChan /\ cp.pc = "wait"
                           /\ ~compactionChan
        /\ UNCHANGED vars

----------------------------------------------------------------------------
Put(c) == PutBegin(c) \/ PutAppend(c) \/ PutFails(c) \/ PutApply(c) \/ PutFreeze(c)
Delete(c) == DeleteBegin(c)
Get(r) == GetMemtables(r) \/ GetList(r) \/ GetSearch(r)
flushWorker == \/ FlushReceive \/ FlushLock \/ FlushBuild \/ FlushFails \/ FlushClear
               \/ FlushCheck \/ FlushStop
mergeFiles == MergeNumber \/ MergeWrite \/ MergeFails
compactionWorker == \/ CompactReceive \/ CompactPick \/ mergeFiles \/ CompactLock
                    \/ CompactRemove \/ CompactAdd \/ CompactDelete \/ CompactTrigger
                    \/ CompactStop
Close == CloseBegin \/ CloseFlush \/ CloseEnd

Next == \/ \E c \in Writers : Put(c) \/ Delete(c)
        \/ \E r \in Readers : Get(r)
        \/ flushWorker \/ compactionWorker \/ Close \/ Crash \/ Reopen \/ Idle

Spec == Init /\ [][Next]_vars

\* A goroutine inside a call keeps running, and lsm.mu is not withheld from one
\* that waits for it (sync.RWMutex lets waiting readers and writers alternate).
\* Nothing makes a caller call, an operation fail or the process die.
FairSpec ==
    /\ Spec
    /\ \A c \in Writers : /\ WF_vars(PutAppend(c) \/ PutFails(c))
                          /\ SF_vars(PutApply(c)) /\ SF_vars(PutFreeze(c))
    /\ \A r \in Readers : WF_vars(GetList(r) \/ GetSearch(r))
    /\ WF_vars(FlushReceive \/ FlushStop) /\ SF_vars(FlushLock)
    /\ WF_vars(FlushBuild \/ FlushFails) /\ WF_vars(FlushClear) /\ WF_vars(FlushCheck)
    /\ WF_vars(CompactReceive \/ CompactStop) /\ SF_vars(CompactLock)
    /\ WF_vars(CompactPick \/ mergeFiles \/ CompactRemove \/ CompactAdd \/ CompactDelete
               \/ CompactTrigger)
    /\ WF_vars(CloseFlush \/ CloseEnd)

----------------------------------------------------------------------------
\* The properties of tables end when a merge sets nextFileNum back: a later flush then
\* writes over a table that is listed, and a compaction may delete it.
Numbered == ~cnt.back

\* The newest version of k among memtables and level 0.
Newest(k) ==
    LET at == {i \in DOMAIN levels[0] : k \in TableKeys(levels[0][i])}
        t == levels[0][Max(at)].data
    IN  IF InMemtables(k) # NoWrite THEN InMemtables(k).num
        ELSE IF at = {} THEN 0 ELSE t[CHOOSE i \in DOMAIN t : t[i].key = k].num

\* Freezing, flushing and compacting keep the order of age above level 1: the
\* first of active memtable, immutable memtable and level 0 files, newest
\* first, that has a key has the write last applied to it.  A writer never
\* freezes over a memtable that waits to be flushed, the flush lists its file
\* before the memtable goes, and a compaction takes older files off level 0
\* before newer ones.  (A restart may bring older writes back.)
NewestKept ==
    Numbered /\ cnt.crash = 0 /\ cnt.close = 0 =>
        \A k \in Keys : Newest(k) \in {0, last[k].num}

\* A Get that begins after a write of the key was acknowledged finds the key,
\* while memtables are frozen and flushed and a compaction merges or deletes
\* files between the steps of the Get, unless the Get overlaps the moment at
\* which a compaction exchanges the lists.
GetFindsKey ==
    Numbered => \A r \in Readers :
        rd[r].pc = "idle" /\ rd[r].must /\ up = "open" => rd[r].got > 0

\* Above level 0 the files of a level are sorted and do not overlap, which Get
\* relies on when it stops at the first file whose range has the key.
LevelsDisjoint ==
    Numbered => \A l \in 1..LastLevel : \A i, j \in DOMAIN levels[l] :
        i < j => MaxKey(levels[l][i]) < MinKey(levels[l][j])

\* Whatever is flushed while a compaction merges, a key that was acknowledged
\* and never deleted is found, except while the compaction is between taking
\* its inputs off the lists and listing its outputs.
KeyFound ==
    Numbered /\ up = "open" /\ ~Switching =>
        \A k \in acked \ Deletable : Lookup(k) > 0

\* A listed table has its file: no compaction deletes a file before it is off
\* the lists or one that was flushed meanwhile.
LevelsOnDisk == Numbered /\ up # "failed" => Listed \subseteq disk

\* No step takes the last file of a key that is never deleted: a compaction
\* deletes its inputs only when its outputs are complete, so a crash at any
\* step of it leaves every key it was moving in some file.
DiskKeepsKeys ==
    [][Numbered => \A t \in disk : \A k \in TableKeys(t) \ Deletable :
           \E d \in disk' : k \in TableKeys(d)]_vars

\* Every Put returns, and so does Close, unless the process dies in it: both
\* workers see closeChan, also in the middle of their work.
CallsReturn ==
    /\ \A c \in Writers : wr[c].pc # "idle" ~> wr[c].pc = "idle"
    /\ up \in {"closing", "flushed"} ~> up \notin {"closing", "flushed"}

\* A frozen memtable is flushed, and level 0 is compacted after flushes have
\* filled it, unless a step of it fails or the engine closes first: no signal that
\* a channel could not take is missed.  (New sends no signal for a level 0 it
\* finds full.)
WorkServed ==
    /\ imm # Nil ~> imm = Nil \/ up # "open" \/ cnt.fault > 0
    /\ ShouldCompact(0) /\ cnt.close = 0 /\ cnt.crash = 0 ~>
          ~ShouldCompact(0) \/ up # "open" \/ cnt.fault > 0 \/ cnt.crash > 0

----------------------------------------------------------------------------
\* "Scenario 1: Crash before memtable flush ... Result: No data loss"
\* (COMPONENT_GUIDE.md:108-111): a key that was acknowledged and never deleted
\* is found after a crash.
CrashKeepsAcked ==
    [][cnt'.crash # cnt.crash => \A k \in acked \ Deletable : LookupIn(levels, k)' > 0]_vars
=============================================================================
