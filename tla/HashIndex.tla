----------------------------- MODULE HashIndex -----------------------------
(***************************************************************************)
(* The hash index engine (hashindex/hashindex.go, compaction.go,            *)
(* recovery.go, shard.go): Put/Delete with and without rotation, Get, Sync, *)
(* Compact and the compaction worker, Close, a crash, and New's recovery.   *)
(*                                                                         *)
(* A segment is named by its position in the order of creation, which is    *)
(* what its UnixNano id is in the code.  Records are named by the number of *)
(* the Put that wrote them; offsets count records.  Each shard of the index *)
(* holds one key: keys that share a shard are updated in one step of the    *)
(* code and in several here.  Calls of a segment's methods are atomic: what *)
(* their own interleavings do is the subject of module Segment.             *)
(***************************************************************************)
EXTENDS Integers, Sequences, FiniteSets, FiniteSetsExt

CONSTANTS Keys, NoKey,         \* keys; NoKey is in no record but a torn one
          Writers, NoWriter,   \* goroutines calling Put and Delete
          Readers,             \* goroutines calling Get
          SegmentSizeBytes, MaxSegments, SyncOnWrite,      \* Config
          HeaderSize, KeySize, ValueSize,                  \* bytes of a record
          PowerLoss,           \* a crash may lose what was not synced
          MaxPuts, MaxSyncs, MaxCompacts, MaxCloses, MaxCrashes,
          MaxCreateErrors      \* bounds on calls, crashes and failed file operations

ASSUME NamesAssumption ==
    IsFiniteSet(Keys) /\ NoKey \notin Keys /\ NoWriter \notin Writers
ASSUME ConfigAssumption ==
    /\ {SegmentSizeBytes, MaxSegments, HeaderSize, KeySize, ValueSize} \subseteq Nat
    /\ {SyncOnWrite, PowerLoss} \subseteq BOOLEAN
ASSUME LimitsAssumption ==
    {MaxPuts, MaxSyncs, MaxCompacts, MaxCloses, MaxCrashes, MaxCreateErrors}
        \subseteq Nat

VARIABLES
    file,    \* per segment ever created: the records of its file, in order
    synced,  \* per segment: how many of them an fsync has covered
    refs,    \* per segment: refCount, without the references of running reads
    open,    \* segments whose file handle is open
    disk,    \* segments whose file is in the data directory
    idx,     \* shardedIndex: per key [seg, off] or NoEntry
    active,  \* activeSegment
    list,    \* segments
    chan,    \* compactChan holds a request
    closed,  \* the engine's closed flag; stopChan is closed with it
    segMu,   \* segmentMu: its holder or NoWriter
    wr, rd,  \* the calls in progress: Put/Delete, Get,
    sy, cl,  \* Sync, Close,
    wk,      \* and the compaction worker
    puts,    \* history: every Put, what had returned before it, its fate
    cur,     \* history: what the last index.Put of each key made visible
    cnt      \* calls, crashes and failures so far, against the bounds

segVars == <<file, synced, refs, open, disk>>
engVars == <<idx, active, list, chan, closed, segMu>>
vars == <<segVars, engVars, wr, rd, sy, cl, wk, puts, cur, cnt>>

----------------------------------------------------------------------------
NoEntry == [seg |-> 0, off |-> 0]
Torn == [key |-> NoKey, num |-> 0, del |-> TRUE]
NoValue == [k \in Keys |-> Torn]
Segs == DOMAIN file

Visible(r) == IF r.del THEN 0 ELSE r.num

RecSize(r) == HeaderSize + KeySize + (IF r.del THEN 0 ELSE ValueSize)
Size(s) == MapThenSumSet(LAMBDA i : RecSize(file[s][i]), DOMAIN file[s])

\* getLogicalSize: the entries' sizes without their headers.
getLogicalSize ==
    MapThenSumSet(LAMBDA k : RecSize(file[idx[k].seg][idx[k].off]) - HeaderSize,
                  {k \in Keys : idx[k] # NoEntry})

\* The trigger at the end of putWithRotation.
shouldCompact ==
    \/ Len(list) >= MaxSegments
    \/ /\ Len(list) >= 2
       /\ getLogicalSize > 0
       /\ MapThenSumSet(LAMBDA i : Size(list[i]), DOMAIN list) + Size(active)
              > 3 * getLogicalSize

IdleWriter == [pc |-> "idle", path |-> "fast", key |-> NoKey, num |-> 0,
               del |-> FALSE, seg |-> 0, off |-> 0]
IdleReader == [pc |-> "idle", key |-> NoKey, ent |-> NoEntry, win |-> {0}, got |-> 0]
IdleSyncer == [pc |-> "idle", seg |-> 0, snap |-> {}]
IdleWorker == [pc |-> "wait", sel |-> <<>>, left |-> <<>>, latest |-> NoValue,
               new |-> 0, todo |-> {}, batch |-> {}, calm |-> {}]
NoCalls == [sync |-> 0, compact |-> 0, close |-> 0, crash |-> 0, cerr |-> 0,
            runs |-> 0]

Init ==
    /\ file = <<(<<>>)>> /\ synced = <<0>> /\ refs = <<1>>
    /\ open = {1} /\ disk = {1}
    /\ idx = [k \in Keys |-> NoEntry] /\ active = 1 /\ list = <<>>
    /\ chan = FALSE /\ closed = FALSE /\ segMu = NoWriter
    /\ wr = [c \in Writers |-> IdleWriter]
    /\ rd = [r \in Readers |-> IdleReader]
    /\ sy = IdleSyncer /\ cl = "open" /\ wk = IdleWorker
    /\ puts = <<>> /\ cur = [k \in Keys |-> 0] /\ cnt = NoCalls

----------------------------------------------------------------------------
\* Put and Delete (a Put of an empty value).

\* The fast path is taken when the active segment has room.
PutBegin(c) ==
    /\ wr[c].pc = "idle" /\ ~closed /\ Len(puts) < MaxPuts
    /\ \E k \in Keys, d \in BOOLEAN :
          /\ wr' = [wr EXCEPT ![c] =
                      [pc |-> IF Size(active) < SegmentSizeBytes THEN "append"
                                                                 ELSE "lock",
                       path |-> "fast", key |-> k, num |-> Len(puts) + 1,
                       del |-> d, seg |-> active, off |-> 0]]
          /\ puts' = Append(puts,
                [key |-> k, del |-> d, done |-> FALSE, safe |-> FALSE,
                 after |-> {n \in DOMAIN puts : puts[n].key = k /\ puts[n].done}])
          /\ wk' = [wk EXCEPT !.calm = @ \ {k}]
    /\ UNCHANGED <<segVars, engVars, rd, sy, cl, cur, cnt>>

\* segment.append; on an error Put falls back to putWithRotation, which
\* returns it.
PutAppend(c) ==
    /\ wr[c].pc = "append"
    /\ LET s == wr[c].seg IN
       \/ /\ s \in open
          /\ file' = [file EXCEPT ![s] = Append(@,
                        [key |-> wr[c].key, num |-> wr[c].num, del |-> wr[c].del])]
          /\ wr' = [wr EXCEPT ![c] = [@ EXCEPT !.pc = "index", !.off = Len(file[s]) + 1]]
          /\ UNCHANGED segMu
       \/ /\ s \notin open /\ wr[c].path = "fast"
          /\ wr' = [wr EXCEPT ![c].pc = "lock"]
          /\ UNCHANGED <<file, segMu>>
       \/ /\ s \notin open /\ wr[c].path # "fast"
          /\ wr' = [wr EXCEPT ![c] = IdleWriter]
          /\ segMu' = NoWriter
          /\ UNCHANGED file
    /\ UNCHANGED <<synced, refs, open, disk, idx, active, list, chan, closed,
                   rd, sy, cl, wk, puts, cur, cnt>>

\* index.Put.  What a running Get of the key may return grows with it.
PutIndex(c) ==
    /\ wr[c].pc = "index"
    /\ LET k == wr[c].key IN
       /\ idx' = [idx EXCEPT ![k] = [seg |-> wr[c].seg, off |-> wr[c].off]]
       /\ cur' = [cur EXCEPT ![k] = Visible(wr[c])]
       /\ rd' = [r \in Readers |->
                   IF rd[r].pc # "idle" /\ rd[r].key = k
                   THEN [rd[r] EXCEPT !.win = @ \cup {Visible(wr[c])}]
                   ELSE rd[r]]
    /\ wr' = [wr EXCEPT ![c].pc = IF SyncOnWrite THEN "sync" ELSE "end"]
    /\ UNCHANGED <<segVars, active, list, chan, closed, segMu, sy, cl, wk, puts, cnt>>

SyncSeg(s) == synced' = [synced EXCEPT ![s] = Len(file[s])]

\* Mutant: SyncOnWrite does not reach fsync.
PutSync_NoFsync(c) ==
    /\ wr[c].pc = "sync"
    /\ wr' = [wr EXCEPT ![c].pc = "end"]
    /\ UNCHANGED <<segVars, engVars, rd, sy, cl, wk, puts, cur, cnt>>

\* SyncOnWrite; an error of sync is ignored.
PutSync(c) ==
    /\ wr[c].pc = "sync"
    /\ IF wr[c].seg \in open THEN SyncSeg(wr[c].seg) ELSE UNCHANGED synced
    /\ wr' = [wr EXCEPT ![c].pc = "end"]
    /\ UNCHANGED <<file, refs, open, disk, engVars, rd, sy, cl, wk, puts, cur, cnt>>

\* Put returns nil; after a rotation it may first ask for a compaction.
PutEnd(c) ==
    /\ wr[c].pc = "end"
    /\ chan' = (chan \/ (wr[c].path = "rotated" /\ shouldCompact))
    /\ segMu' = IF wr[c].path = "fast" THEN segMu ELSE NoWriter
    /\ puts' = [puts EXCEPT ![wr[c].num] =
                    [@ EXCEPT !.done = TRUE, !.safe = SyncOnWrite \/ ~PowerLoss]]
    /\ wr' = [wr EXCEPT ![c] = IdleWriter]
    /\ UNCHANGED <<segVars, idx, active, list, closed, rd, sy, cl, wk, cur, cnt>>

\* putWithRotation: lock segmentMu and look at the active segment again.
PutLock(c) ==
    /\ wr[c].pc = "lock" /\ segMu = NoWriter
    /\ segMu' = c
    /\ wr' = [wr EXCEPT ![c] =
                [@ EXCEPT !.pc = IF Size(active) < SegmentSizeBytes THEN "append"
                                                                    ELSE "rotate",
                          !.path = "locked", !.seg = active]]
    /\ UNCHANGED <<segVars, idx, active, list, chan, closed, rd, sy, cl, wk, puts,
                   cur, cnt>>

\* Mutant: the old active segment does not get into the list.
RotateList_NotListed(c) ==
    /\ wr[c].pc = "rotate" /\ active \in open
    /\ SyncSeg(active)
    /\ wr' = [wr EXCEPT ![c].pc = "create"]
    /\ UNCHANGED <<file, refs, open, disk, engVars, rd, sy, cl, wk, puts, cur, cnt>>

\* rotateSegment, first half: sync the active segment, add it to the list.
RotateList(c) ==
    /\ wr[c].pc = "rotate"
    /\ \/ /\ active \in open
          /\ SyncSeg(active)
          /\ list' = Append(list, active)
          /\ wr' = [wr EXCEPT ![c].pc = "create"]
          /\ UNCHANGED segMu
       \/ /\ active \notin open
          /\ wr' = [wr EXCEPT ![c] = IdleWriter]
          /\ segMu' = NoWriter
          /\ UNCHANGED <<synced, list>>
    /\ UNCHANGED <<file, refs, open, disk, idx, active, chan, closed, rd, sy, cl,
                   wk, puts, cur, cnt>>

createSegment ==
    LET s == Len(file) + 1 IN
    /\ file' = Append(file, <<>>)
    /\ synced' = Append(synced, 0)
    /\ refs' = Append(refs, 1)
    /\ open' = open \cup {s}
    /\ disk' = disk \cup {s}

\* rotateSegment, second half: the new segment becomes the active one.
RotateCreate(c) ==
    /\ wr[c].pc = "create"
    /\ \/ /\ createSegment
          /\ active' = Len(file) + 1
          /\ wr' = [wr EXCEPT ![c] = [@ EXCEPT !.pc = "append", !.path = "rotated",
                                               !.seg = Len(file) + 1]]
          /\ UNCHANGED <<segMu, cnt>>
       \/ /\ cnt.cerr < MaxCreateErrors /\ cnt' = [cnt EXCEPT !.cerr = @ + 1]
          /\ wr' = [wr EXCEPT ![c] = IdleWriter]
          /\ segMu' = NoWriter
          /\ UNCHANGED <<segVars, active>>
    /\ UNCHANGED <<idx, list, chan, closed, rd, sy, cl, wk, puts, cur>>

----------------------------------------------------------------------------
\* Get: index, active segment, segment list, file.

Answer(r, v) ==
    rd' = [rd EXCEPT ![r] = [@ EXCEPT !.pc = "idle", !.ent = NoEntry, !.got = v]]
GetError == -1

GetBegin(r) ==
    /\ rd[r].pc = "idle" /\ ~closed
    /\ \E k \in Keys :
          rd' = [rd EXCEPT ![r] =
                   [pc |-> IF idx[k] = NoEntry THEN "idle" ELSE "active", key |-> k,
                    ent |-> idx[k], win |-> {cur[k]}, got |-> 0]]
    /\ UNCHANGED <<segVars, engVars, wr, sy, cl, wk, puts, cur, cnt>>

GetActive(r) ==
    /\ rd[r].pc = "active"
    /\ rd' = [rd EXCEPT ![r].pc = IF rd[r].ent.seg = active THEN "read" ELSE "list"]
    /\ UNCHANGED <<segVars, engVars, wr, sy, cl, wk, puts, cur, cnt>>

GetList(r) ==
    /\ rd[r].pc = "list"
    /\ IF rd[r].ent.seg \in Range(list) THEN rd' = [rd EXCEPT ![r].pc = "read"]
                                        ELSE Answer(r, GetError)
    /\ UNCHANGED <<segVars, engVars, wr, sy, cl, wk, puts, cur, cnt>>

GetRead(r) ==
    /\ rd[r].pc = "read"
    /\ LET e == rd[r].ent IN
       Answer(r, IF e.seg \in open THEN Visible(file[e.seg][e.off]) ELSE GetError)
    /\ UNCHANGED <<segVars, engVars, wr, sy, cl, wk, puts, cur, cnt>>

----------------------------------------------------------------------------
\* Sync and Compact.

SyncBegin ==
    /\ sy.pc = "idle" /\ ~closed
    /\ cnt.sync < MaxSyncs /\ cnt' = [cnt EXCEPT !.sync = @ + 1]
    /\ sy' = [pc |-> "sync", seg |-> active,
              snap |-> {n \in DOMAIN puts : puts[n].done /\ ~puts[n].safe}]
    /\ UNCHANGED <<segVars, engVars, wr, rd, cl, wk, puts, cur>>

SyncEnd ==
    /\ sy.pc = "sync"
    /\ \/ /\ sy.seg \in open
          /\ SyncSeg(sy.seg)
          /\ puts' = [n \in DOMAIN puts |->
                        [puts[n] EXCEPT !.safe = @ \/ n \in sy.snap]]
       \/ sy.seg \notin open /\ UNCHANGED <<synced, puts>>
    /\ sy' = IdleSyncer
    /\ UNCHANGED <<file, refs, open, disk, engVars, wr, rd, cl, wk, cur, cnt>>

Compact ==
    /\ ~closed /\ cnt.compact < MaxCompacts /\ cnt' = [cnt EXCEPT !.compact = @ + 1]
    /\ chan' = TRUE
    /\ UNCHANGED <<segVars, idx, active, list, closed, segMu, wr, rd, sy, cl, wk,
                   puts, cur>>

----------------------------------------------------------------------------
\* What a Get of k that runs now, without interruption, makes visible.
Lookup(k) ==
    LET e == idx[k] IN
    IF e = NoEntry THEN 0
    ELSE IF e.seg \in ({active} \cup Range(list)) \cap open
         THEN Visible(file[e.seg][e.off])
         ELSE GetError

Writing(k) == \E c \in Writers : wr[c].pc # "idle" /\ wr[c].key = k

\* Records of a file before its first torn record.
Readable(f) == CHOOSE n \in 0..Len(f) : /\ \A i \in 1..n : f[i] # Torn
                                        /\ n < Len(f) => f[n + 1] = Torn

\* No record of k in the segments sel comes after the one idx[k] locates, and no
\* torn record before it in its file.
LastIn(sel, k) ==
    \A i \in DOMAIN sel : idx[k].seg = sel[i] =>
        /\ idx[k].off <= Readable(file[sel[i]])
        /\ \A j \in DOMAIN sel : \A o \in DOMAIN file[sel[j]] :
              file[sel[j]][o].key = k => j < i \/ (j = i /\ o <= idx[k].off)

\* Segments the engine answers for: the active one (until a rotation lists it),
\* the listed ones, the one a compaction is writing and those it has taken out
\* of the list but not closed.
Owned(s) == \/ s = active /\ \A c \in Writers : wr[c].pc # "create"
            \/ s \in Range(list)
            \/ s = wk.new /\ wk.pc \in {"write", "sync", "index", "batch", "list"}
            \/ s \in Range(wk.left) /\ wk.pc = "remove"

\* compactionWorker and doCompact.  In its history, calm holds the keys that
\* no Put has touched since the worker selected its segments.

WorkerReceive ==
    /\ wk.pc = "wait" /\ chan
    /\ chan' = FALSE
    /\ wk' = [wk EXCEPT !.pc = "select"]
    /\ UNCHANGED <<segVars, idx, active, list, closed, segMu, wr, rd, sy, cl, puts,
                   cur, cnt>>

\* Mutant: the worker looks at stopChan only when it has a request.
WorkerStop_AfterRequest ==
    /\ wk.pc = "wait" /\ closed /\ chan
    /\ wk' = [wk EXCEPT !.pc = "done"]
    /\ UNCHANGED <<segVars, engVars, wr, rd, sy, cl, puts, cur, cnt>>

WorkerStop ==
    /\ wk.pc = "wait" /\ closed
    /\ wk' = [wk EXCEPT !.pc = "done"]
    /\ UNCHANGED <<segVars, engVars, wr, rd, sy, cl, puts, cur, cnt>>

\* Few segments are compacted all together, of many the first half.
numToCompact == IF Len(list) > 3 THEN (Len(list) + 1) \div 2 ELSE Len(list)

\* Under segmentsMu.  When an acquire fails the segments acquired before it
\* keep their extra reference.
WorkerSelect ==
    /\ wk.pc = "select"
    /\ LET n == numToCompact
           sel == SubSeq(list, 1, n)
           got == {i \in 1..n : \A j \in 1..i : list[j] \in open}
           held == {list[i] : i \in got}
       IN \/ /\ Len(list) < 2
             /\ wk' = IdleWorker
             /\ UNCHANGED <<refs, cnt>>
          \/ /\ Len(list) >= 2 /\ got = 1..n
             /\ refs' = [s \in Segs |-> IF s \in held THEN refs[s] + 1 ELSE refs[s]]
             /\ wk' = [wk EXCEPT !.pc = "scan", !.sel = sel, !.left = sel,
                    !.calm = {k \in Keys : /\ ~Writing(k) /\ LastIn(sel, k)
                                           /\ Lookup(k) = cur[k]
                                           /\ idx[k] = NoEntry \/ Owned(idx[k].seg)}]
             /\ cnt' = [cnt EXCEPT !.runs = @ + 1]
          \/ /\ Len(list) >= 2 /\ got # 1..n
             /\ refs' = [s \in Segs |-> IF s \in held THEN refs[s] + 1 ELSE refs[s]]
             /\ wk' = IdleWorker
             /\ UNCHANGED cnt
    /\ UNCHANGED <<file, synced, open, disk, engVars, wr, rd, sy, cl, puts, cur>>

\* Mutant: the first value of a key wins.
ScanSegment_FirstWins ==
    /\ wk.pc = "scan"
    /\ LET s == Head(wk.left)
           at(k) == {i \in 1..Readable(file[s]) : file[s][i].key = k}
           seen == [k \in Keys |-> IF at(k) = {} \/ wk.latest[k] # Torn
                                  THEN wk.latest[k] ELSE file[s][Max(at(k))]]
       IN wk' = [wk EXCEPT !.latest = seen, !.left = Tail(@),
                           !.pc = IF Len(wk.left) = 1 THEN "create" ELSE "scan"]
    /\ UNCHANGED <<segVars, engVars, wr, rd, sy, cl, puts, cur, cnt>>

\* compactSegments: one segment of the scan.  A torn record at the end of the
\* file reads as EOF, which ends the segment; in the middle of the file its
\* lengths cover what follows, which reads as EOF or fails the CRC.
ScanSegment ==
    /\ wk.pc = "scan"
    /\ LET s == Head(wk.left)
           n == Readable(file[s])
           last(k) == {i \in 1..n : file[s][i].key = k}
           seen == [k \in Keys |-> IF last(k) = {} THEN wk.latest[k]
                                                   ELSE file[s][Max(last(k))]]
       IN \/ /\ s \in open
             /\ wk' = [wk EXCEPT !.latest = seen, !.left = Tail(@),
                                 !.pc = IF Len(wk.left) = 1 THEN "create" ELSE "scan"]
          \/ /\ s \notin open \/ n + 1 < Len(file[s])
             /\ wk' = [wk EXCEPT !.pc = "release"]
    /\ UNCHANGED <<segVars, engVars, wr, rd, sy, cl, puts, cur, cnt>>

CompactCreate ==
    /\ wk.pc = "create"
    /\ \/ /\ createSegment
          /\ wk' = [wk EXCEPT !.pc = "write", !.new = Len(file) + 1]
          /\ UNCHANGED cnt
       \/ /\ cnt.cerr < MaxCreateErrors /\ cnt' = [cnt EXCEPT !.cerr = @ + 1]
          /\ wk' = [wk EXCEPT !.pc = "release"]
          /\ UNCHANGED segVars
    /\ UNCHANGED <<engVars, wr, rd, sy, cl, puts, cur>>

\* The sequences that list each element of a finite set once.
Orders(S) == Bijection(1..Cardinality(S), S)

\* The latest values, without tombstones, in the order of the map iteration.
CompactWrite ==
    /\ wk.pc = "write"
    /\ \E f \in Orders({wk.latest[k] : k \in {j \in Keys : ~wk.latest[j].del}}) :
          file' = [file EXCEPT ![wk.new] = f]
    /\ wk' = [wk EXCEPT !.pc = "sync"]
    /\ UNCHANGED <<synced, refs, open, disk, engVars, wr, rd, sy, cl, puts, cur, cnt>>

CompactSync ==
    /\ wk.pc = "sync"
    /\ SyncSeg(wk.new)
    /\ wk' = [wk EXCEPT !.pc = "index", !.todo = Keys]
    /\ UNCHANGED <<file, refs, open, disk, engVars, wr, rd, sy, cl, puts, cur, cnt>>

\* An append or the sync fails: the new segment is closed and its file removed.
CompactFails ==
    /\ wk.pc \in {"write", "sync"}
    /\ cnt.cerr < MaxCreateErrors /\ cnt' = [cnt EXCEPT !.cerr = @ + 1]
    /\ refs' = [refs EXCEPT ![wk.new] = @ - 1]
    /\ disk' = disk \ {wk.new}
    /\ wk' = [wk EXCEPT !.pc = "release"]
    /\ UNCHANGED <<file, synced, open, engVars, wr, rd, sy, cl, puts, cur>>

\* applyCompaction reads the shards one after the other under their locks and
\* collects the keys whose entries point into compacted segments.
ApplyCollect ==
    /\ wk.pc = "index"
    /\ \E k \in wk.todo :
          wk' = [wk EXCEPT
                   !.todo = @ \ {k},
                   !.batch = @ \cup (IF idx[k].seg \in Range(wk.sel) THEN {k} ELSE {}),
                   !.pc = IF wk.todo = {k} THEN "batch" ELSE "index"]
    /\ UNCHANGED <<segVars, engVars, wr, rd, sy, cl, puts, cur, cnt>>

\* Mutant: the offset noted is the one before the append.
newIndex_OffByOne(k) ==
    LET at == {i \in DOMAIN file[wk.new] : file[wk.new][i].key = k}
    IN  IF at = {} THEN NoEntry ELSE [seg |-> wk.new, off |-> Max(at) - 1]

\* newIndex[key], or NoEntry for the deletions.
newIndex(k) ==
    LET at == {i \in DOMAIN file[wk.new] : file[wk.new][i].key = k}
    IN  IF at = {} THEN NoEntry ELSE [seg |-> wk.new, off |-> Max(at)]

\* UpdateBatch: one shard of the batch, whatever its entries are by now.
ApplyBatch ==
    /\ wk.pc = "batch"
    /\ \/ \E k \in wk.batch :
            /\ idx' = [idx EXCEPT ![k] = newIndex(k)]
            /\ wk' = [wk EXCEPT !.batch = @ \ {k}]
       \/ /\ wk.batch = {}
          /\ wk' = [wk EXCEPT !.pc = "list"]
          /\ UNCHANGED idx
    /\ UNCHANGED <<segVars, active, list, chan, closed, segMu, wr, rd, sy, cl, puts,
                   cur, cnt>>

\* The segments of l that are not in sel, in their order.
Remaining(l, sel) ==
    LET kept[i \in 0..Len(l)] ==
          IF i = 0 THEN <<>>
          ELSE IF l[i] \in Range(sel) THEN kept[i - 1] ELSE Append(kept[i - 1], l[i])
    IN  kept[Len(l)]

ApplyList ==
    /\ wk.pc = "list"
    /\ list' = Append(Remaining(list, wk.sel), wk.new)
    /\ wk' = [wk EXCEPT !.pc = "remove", !.left = wk.sel]
    /\ UNCHANGED <<segVars, idx, active, chan, closed, segMu, wr, rd, sy, cl, puts,
                   cur, cnt>>

\* Mutant: the compacted segments are closed and their files stay.
ApplyRemove_KeepsFile ==
    /\ wk.pc = "remove"
    /\ refs' = [refs EXCEPT ![Head(wk.left)] = @ - 1]
    /\ wk' = [wk EXCEPT !.left = Tail(@),
                        !.pc = IF Len(wk.left) = 1 THEN "release" ELSE "remove"]
    /\ UNCHANGED <<file, synced, open, disk, engVars, wr, rd, sy, cl, puts, cur, cnt>>

\* os.Remove and close, segment by segment.
ApplyRemove ==
    /\ wk.pc = "remove"
    /\ LET s == Head(wk.left) IN
       /\ disk' = disk \ {s}
       /\ refs' = [refs EXCEPT ![s] = @ - 1]
       /\ wk' = [wk EXCEPT !.left = Tail(@),
                           !.pc = IF Len(wk.left) = 1 THEN "release" ELSE "remove"]
    /\ UNCHANGED <<file, synced, open, engVars, wr, rd, sy, cl, puts, cur, cnt>>

\* Mutant: doCompact does not release what it acquired.
WorkerRelease_Leaks ==
    /\ wk.pc = "release"
    /\ wk' = IdleWorker
    /\ UNCHANGED <<segVars, engVars, wr, rd, sy, cl, puts, cur, cnt>>

\* The deferred release of doCompact.
WorkerRelease ==
    /\ wk.pc = "release"
    /\ refs' = [s \in Segs |-> IF s \in Range(wk.sel) THEN refs[s] - 1 ELSE refs[s]]
    /\ wk' = IdleWorker
    /\ UNCHANGED <<file, synced, open, disk, engVars, wr, rd, sy, cl, puts, cur, cnt>>

\* closeFile by whoever gave up the last reference: the worker, Close, or a
\* read that was still running then.
CloseHandle ==
    /\ \E s \in open : refs[s] <= 0 /\ open' = open \ {s}
    /\ UNCHANGED <<file, synced, refs, disk, engVars, wr, rd, sy, cl, wk, puts, cur, cnt>>

----------------------------------------------------------------------------
\* Close

CloseBegin ==
    /\ cl = "open" /\ cnt.close < MaxCloses /\ cnt' = [cnt EXCEPT !.close = @ + 1]
    /\ closed' = TRUE
    /\ cl' = "wait"
    /\ UNCHANGED <<segVars, idx, active, list, chan, segMu, wr, rd, sy, wk, puts, cur>>

\* compactWg.Wait has returned.
CloseActive ==
    /\ cl = "wait" /\ wk.pc = "done"
    /\ refs' = [refs EXCEPT ![active] = @ - 1]
    /\ cl' = "list"
    /\ UNCHANGED <<file, synced, open, disk, engVars, wr, rd, sy, wk, puts, cur, cnt>>

CloseList ==
    /\ cl = "list"
    /\ refs' = [s \in Segs |-> refs[s] - Cardinality({i \in DOMAIN list : list[i] = s})]
    /\ cl' = "closed"
    /\ UNCHANGED <<file, synced, open, disk, engVars, wr, rd, sy, wk, puts, cur, cnt>>

----------------------------------------------------------------------------
\* A crash, or the end of a closed engine's process, and New on its directory.

\* What a crash may leave of segment s: a prefix, all of it unless power is
\* lost, and part of the record whose write was under way or is lost.
Appending(s) == \/ \E c \in Writers : wr[c].pc = "append" /\ wr[c].seg = s
                \/ wk.pc = "write" /\ wk.new = s
Survivors(s) ==
    LET kept == IF PowerLoss THEN synced[s]..Len(file[s]) ELSE {Len(file[s])}
    IN  {SubSeq(file[s], 1, n) : n \in kept}
          \cup {Append(SubSeq(file[s], 1, n), Torn) :
                  n \in {m \in kept : m < Len(file[s]) \/ Appending(s)}}

\* recover's scan of one segment: it ends at a torn record.  At the end of the
\* file that is an EOF and the file is left as it is; further up it is an EOF
\* too, or a CRC mismatch and the file is truncated there.
Scanned(f) == {f} \cup (IF Readable(f) + 1 < Len(f) THEN {SubSeq(f, 1, Readable(f))}
                                                   ELSE {})

\* The last record of the key, segments in the order of their ids.
LastRecord(files, k) ==
    LET at(s) == {o \in 1..Readable(files[s]) : files[s][o].key = k}
        having == {s \in disk : at(s) # {}}
    IN  IF having = {} THEN NoEntry
        ELSE [seg |-> Max(having), off |-> Max(at(Max(having)))]

recover(files) ==
    /\ file' = files
    /\ synced' = [s \in Segs |-> Len(files[s])]
    /\ refs' = [s \in Segs |-> IF s \in disk THEN 1 ELSE 0]
    /\ open' = disk
    /\ idx' = [k \in Keys |-> LastRecord(files, k)]
    /\ active' = Max(disk)
    /\ list' \in Orders(disk \ {Max(disk)})
    /\ \A i, j \in DOMAIN list' : i < j => list'[i] < list'[j]
    /\ cur' = [k \in Keys |-> LET e == LastRecord(files, k) IN
                                IF e = NoEntry THEN 0 ELSE Visible(files[e.seg][e.off])]
    /\ chan' = FALSE /\ closed' = FALSE /\ segMu' = NoWriter
    /\ wr' = [c \in Writers |-> IdleWriter]
    /\ rd' = [r \in Readers |-> IdleReader]
    /\ sy' = IdleSyncer /\ cl' = "open" /\ wk' = IdleWorker
    /\ UNCHANGED <<disk, puts>>

Crash ==
    /\ cnt.crash < MaxCrashes /\ cnt' = [cnt EXCEPT !.crash = @ + 1]
    /\ LET left(s) == UNION {Scanned(f) : f \in Survivors(s)}
           open_ended == {s \in disk : left(s) # {file[s]}}
       IN \E fs \in [open_ended -> UNION {left(s) : s \in open_ended}] :
             /\ \A s \in open_ended : fs[s] \in left(s)
             /\ recover([s \in Segs |-> IF s \in open_ended THEN fs[s] ELSE file[s]])

Quiet == /\ \A c \in Writers : wr[c].pc = "idle"
         /\ \A r \in Readers : rd[r].pc = "idle"
         /\ sy.pc = "idle"

Restart == cl = "closed" /\ Quiet /\ recover(file) /\ UNCHANGED cnt

----------------------------------------------------------------------------
Put(c) == \/ PutBegin(c) \/ PutAppend(c) \/ PutIndex(c) \/ PutSync(c) \/ PutEnd(c)
          \/ PutLock(c) \/ RotateList(c) \/ RotateCreate(c)
Get(r) == GetBegin(r) \/ GetActive(r) \/ GetList(r) \/ GetRead(r)
compactSegments == \/ ScanSegment \/ CompactCreate \/ CompactWrite \/ CompactSync
                   \/ CompactFails
applyCompaction == ApplyCollect \/ ApplyBatch \/ ApplyList \/ ApplyRemove
compactionWorker == \/ WorkerReceive \/ WorkerStop \/ WorkerSelect \/ compactSegments
                    \/ applyCompaction \/ WorkerRelease
Close == CloseBegin \/ CloseActive \/ CloseList

Next == \/ \E c \in Writers : Put(c)
        \/ \E r \in Readers : Get(r)
        \/ SyncBegin \/ SyncEnd \/ Compact
        \/ compactionWorker \/ CloseHandle \/ Close
        \/ Crash \/ Restart

Spec == Init /\ [][Next]_vars

\* A goroutine inside a call keeps running and segmentMu is not passed over for
\* ever (sync.Mutex hands over to a starving waiter).  Nothing makes a caller
\* call, and nothing makes the system crash.
FairSpec ==
    /\ Spec
    /\ \A c \in Writers :
          /\ WF_vars(\/ PutAppend(c) \/ PutIndex(c) \/ PutSync(c) \/ PutEnd(c)
                     \/ RotateList(c) \/ RotateCreate(c))
          /\ SF_vars(PutLock(c))
    /\ WF_vars(compactionWorker) /\ WF_vars(CloseHandle)
    /\ WF_vars(CloseActive \/ CloseList)

----------------------------------------------------------------------------
EntryOK(k, e) == /\ e.seg \in Segs
                 /\ e.off \in DOMAIN file[e.seg]
                 /\ file[e.seg][e.off].key = k

\* Every index entry, and the entry a running Get has taken from the index,
\* locates a record of its own key, whatever appends, rotations, compactions,
\* crashes and recoveries have done to the files meanwhile.
IndexPointsToRecord ==
    /\ \A k \in Keys : idx[k] = NoEntry \/ EntryOK(k, idx[k])
    /\ \A r \in Readers : rd[r].pc # "idle" => EntryOK(rd[r].key, rd[r].ent)

One(b) == IF b THEN 1 ELSE 0

\* The references are exact until Close gives them up: one for the engine and
\* one for a running compaction.  No segment in use is closed by the end of a
\* compaction and none of the compacted ones keeps a handle.
RefsExact ==
    cl \in {"open", "wait"} /\ cnt.cerr = 0 =>
        \A s \in Segs : refs[s] = One(Owned(s)) + One(s \in Range(wk.sel))

\* The data directory holds the files of exactly the segments the engine
\* answers for: compaction and recovery neither orphan a file nor remove one
\* that is still listed.
DiskExact == cnt.cerr = 0 => disk = {s \in Segs : Owned(s)}

\* As long as no compaction has begun, a Get that returns before Close returns
\* what was visible at some moment of the call, and never an error: rotation
\* lists the old segment before it replaces the active one.
GetLinearizable ==
    cnt.runs = 0 /\ ~closed =>
        \A r \in Readers : rd[r].pc = "idle" => rd[r].got \in rd[r].win

\* A compaction does not change what a key reads as while no Put of that key
\* overlaps it, whatever is written to other keys and whatever rotates
\* meanwhile; between the index update and the list update a Get may fail.  Not
\* so for a record behind one that a crash has torn, where no scan gets to, for
\* one in a segment that an earlier compaction has given up in the middle of a
\* rotation, nor once a failed creation has left the active segment in the list.
CompactionPreserves ==
    cnt.cerr = 0 /\ wk.pc \notin {"batch", "list"} =>
        \A k \in wk.calm : Lookup(k) = cur[k]

Located(k) == IF idx[k] = NoEntry THEN 0 ELSE file[idx[k].seg][idx[k].off].num

\* Record number m (0: none) as the state of k forgets a Put of the set N.
Forgets(N, k, m) ==
    \E n \in N : puts[n].key = k /\ (m = 0 \/ m \in puts[n].after)

\* The first crash of an open engine forgets no Put that had become durable
\* (SyncOnWrite, a later Sync, or no loss of power): recovery brings each key
\* back as that Put or as one that was not finished before it began.  Not so
\* once a compaction has run, whose segment has old data and the highest number,
\* nor once a crash has left a torn record, which ends every later scan of its
\* file, nor for a Put whose sync found the file closed by Close, nor, when Sync
\* alone makes it durable, for one that appended to a segment rotated meanwhile.
\* Close followed by New forgets no Put that returned nil, within the same
\* limits.
RecoveryKeeps ==
    [][cnt.crash = 0 /\ cnt.runs = 0 => \A k \in Keys :
         /\ cnt'.crash # cnt.crash /\ ~closed =>
               ~Forgets({n \in DOMAIN puts : puts[n].safe}, k, Located(k)')
         /\ cl = "closed" /\ cl' = "open" /\ cnt'.crash = 0 =>
               ~Forgets({n \in DOMAIN puts : puts[n].done}, k, Located(k)')]_vars

\* Every Put returns, with a rotation, a compaction or Close under way or not,
\* and so does Close (unless the process dies in it): the worker sees stopChan
\* also when requests keep coming, and ends a compaction it is in.  A compaction
\* that was asked for is begun, unless the engine closes first.
CallsReturn ==
    /\ \A c \in Writers : wr[c].pc # "idle" ~> wr[c].pc = "idle"
    /\ cl \in {"wait", "list"} ~> cl \notin {"wait", "list"}
    /\ chan ~> ~chan \/ closed

----------------------------------------------------------------------------
\* "During compaction, the index is updated atomically ... This ensures readers
\* never see inconsistent state" (hashindex/README.md:737-748): once nobody
\* writes a key and no compaction runs, the key reads as its last Put left it.
NoUpdateLost ==
    wk.pc = "wait" => \A k \in Keys : Writing(k) \/ Lookup(k) = cur[k]
=============================================================================
