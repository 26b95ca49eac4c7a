------------------------ MODULE HashIndexInv_proofs -------------------------
(***************************************************************************)
(* The invariants of module HashIndex: what the index, the files, the       *)
(* references and the calls in progress keep of each other.                 *)
(***************************************************************************)
EXTENDS HashIndex_proofs

\* The time each leaf is given, in seconds; a second attempt follows a failed one.
USE SMTT(30), SMTT(40)

\* What a step of a Put may do to the state of the calls: only its own changes, it
\* keeps its key, and its segment is the one it had or the active one.
LEMMA PutEffect ==
    ASSUME TypeOK, NEW c \in Writers, Put(c)
    PROVE  /\ \A d \in Writers \ {c} : wr'[d] = wr[d]
           /\ wr'[c].pc # "idle" =>
                 /\ wr[c].pc = "idle" => wr'[c].key \in Keys /\ wr'[c].seg = active /\ active' = active
                 /\ wr[c].pc # "idle" => /\ wr'[c].key = wr[c].key
                                         /\ wr'[c].seg \in {wr[c].seg, active'}
           /\ wr'[c].pc = "index" => PutAppend(c)
           /\ wr'[c].pc = "create" => RotateList(c)
           /\ wr[c].pc = "create" => RotateCreate(c)
<1> USE DEF segVars, engVars
<1>1. wr \in [Writers -> WriterStates]
  BY DEF TypeOK
<1>2. CASE PutBegin(c)
  <2>1. PICK k \in Keys, d \in BOOLEAN, p \in {"append", "lock"} :
             wr' = [wr EXCEPT ![c] = [pc |-> p, path |-> "fast", key |-> k, num |-> Len(puts) + 1,
                                      del |-> d, seg |-> active, off |-> 0]]
    BY <1>2, Zenon DEF PutBegin
  <2>2. wr[c].pc = "idle" /\ active' = active
    BY <1>2 DEF PutBegin
  <2> QED
    BY <1>1, <2>1, <2>2
<1>3. CASE PutAppend(c)
  <2>1. ~RotateList(c) /\ ~RotateCreate(c)
    BY <1>3 DEF PutAppend, RotateList, RotateCreate
  <2>2. /\ wr[c].pc = "append" /\ wr'[c].pc \in {"index", "lock", "idle"}
        /\ \A d \in Writers \ {c} : wr'[d] = wr[d]
        /\ wr'[c].pc # "idle" => wr'[c].key = wr[c].key /\ wr'[c].seg = wr[c].seg
    BY <1>3, AppendEffect, Zenon
  <2> QED
    BY <1>3, <2>2
<1>4. CASE PutIndex(c)
  BY <1>1, <1>4 DEF PutIndex, WriterStates
<1>5. CASE PutSync(c)
  BY <1>1, <1>5 DEF PutSync, WriterStates
<1>6. CASE PutEnd(c)
  BY <1>1, <1>6 DEF PutEnd, WriterStates, IdleWriter
<1>7. CASE PutLock(c)
  <2>1. PICK p \in {"append", "rotate"} :
            wr' = [wr EXCEPT ![c] = [@ EXCEPT !.pc = p, !.path = "locked", !.seg = active]]
    BY <1>7, Zenon DEF PutLock
  <2>2. wr[c].pc = "lock" /\ active' = active
    BY <1>7 DEF PutLock
  <2> QED
    BY <1>1, <2>1, <2>2 DEF WriterStates
<1>8. CASE RotateList(c)
  <2>1. wr' = [wr EXCEPT ![c].pc = "create"] \/ wr' = [wr EXCEPT ![c] = IdleWriter]
    BY <1>8 DEF RotateList
  <2>2. wr[c].pc = "rotate" /\ active' = active
    BY <1>8 DEF RotateList
  <2> QED
    BY <1>1, <1>8, <2>1, <2>2 DEF WriterStates, IdleWriter
<1>9. CASE RotateCreate(c)
  <2>1. wr[c].pc = "create"
    BY <1>9 DEF RotateCreate
  <2>2. CASE /\ wr' = [wr EXCEPT ![c] = [@ EXCEPT !.pc = "append", !.path = "rotated",
                                               !.seg = Len(file) + 1]]
             /\ active' = Len(file) + 1
    BY <1>1, <1>9, <2>1, <2>2 DEF WriterStates
  <2>3. CASE wr' = [wr EXCEPT ![c] = IdleWriter]
    BY <1>1, <1>9, <2>1, <2>3 DEF IdleWriter
  <2> QED
    BY <1>9, <2>2, <2>3 DEF RotateCreate
<1> QED
  BY <1>2, <1>3, <1>4, <1>5, <1>6, <1>7, <1>8, <1>9, Zenon DEF Put

\* Files only grow while the engine runs: the segment that compactSegments fills was
\* empty.
Grows == /\ Segs \subseteq Segs'
         /\ \A s \in Segs : \A o \in DOMAIN file[s] :
               o \in DOMAIN file'[s] /\ file'[s][o] = file[s][o]

\* Steps of a running engine keep every record where it is.
LEMMA FilesGrow ==
    ASSUME TypeOK, WorkerOK, Step
    PROVE  Grows
<1> USE DEF segVars, engVars
<1>f. FilesOK
  BY DEF TypeOK
<1>1. CASE file' = file
  BY <1>1 DEF Grows, Segs
<1>2. ASSUME createSegment PROVE Grows
  <2>1. file \in Seq(Seq(Records)) /\ file' = Append(file, <<>>)
    BY <1>f, <1>2 DEF FilesOK, createSegment
  <2>2. \A s \in DOMAIN file : s \in DOMAIN file' /\ file'[s] = file[s]
    BY <2>1
  <2> QED
    BY <2>2 DEF Grows, Segs
<1>3. ASSUME NEW c \in Writers, Put(c) PROVE Grows
  <2>1. CASE PutAppend(c)
    <3>1. CASE file' = file
      BY <1>1, <3>1
    <3>2. CASE file' # file
      <4> DEFINE s == wr[c].seg
                 x == [key |-> wr[c].key, num |-> wr[c].num, del |-> wr[c].del]
      <4>1. s \in open /\ file' = [file EXCEPT ![s] = Append(@, x)]
        BY <2>1, <3>2, Zenon DEF PutAppend
      <4> HIDE DEF s, x
      <4>2. s \in Segs /\ file[s] \in Seq(Records) /\ DOMAIN file' = DOMAIN file
        BY <1>f, <4>1, FileTypes DEF FilesOK
      <4>3. \A t \in Segs \ {s} : file'[t] = file[t]
        BY <4>1 DEF Segs
      <4>4. file'[s] = Append(file[s], x)
        BY <4>1, <4>2 DEF Segs
      <4>5. \A o \in DOMAIN file[s] : o \in DOMAIN file'[s] /\ file'[s][o] = file[s][o]
        BY <4>2, <4>4
      <4> QED
        BY <4>2, <4>3, <4>5 DEF Grows, Segs
    <3> QED
      BY <3>1, <3>2
  <2>2. CASE RotateCreate(c)
    BY <1>1, <1>2, <2>2, Zenon DEF RotateCreate
  <2>3. CASE ~PutAppend(c) /\ ~RotateCreate(c)
    BY <1>1, <1>3, <2>3, Zenon DEF Put, PutBegin, PutIndex, PutSync, PutEnd, PutLock, RotateList
  <2> QED
    BY <2>1, <2>2, <2>3
<1>4. CASE compactionWorker
  <2>1. CASE CompactCreate
    BY <1>1, <1>2, <2>1 DEF CompactCreate
  <2>2. CASE CompactWrite
    <3>1. file[wk.new] = <<>>
      BY <2>2 DEF CompactWrite, WorkerOK
    <3>2. PICK f : file' = [file EXCEPT ![wk.new] = f]
      BY <2>2, Zenon DEF CompactWrite
    <3>3. DOMAIN file' = DOMAIN file /\ \A s \in DOMAIN file : s # wk.new => file'[s] = file[s]
      BY <3>2
    <3>4. DOMAIN file[wk.new] = {}
      BY <3>1
    <3> QED
      BY <3>3, <3>4 DEF Grows, Segs
  <2>3. CASE WorkerReceive \/ WorkerStop \/ WorkerSelect \/ WorkerRelease
    BY <1>1, <2>3, Zenon DEF WorkerReceive, WorkerStop, WorkerSelect, WorkerRelease
  <2>4. CASE ScanSegment \/ CompactSync \/ CompactFails
    BY <1>1, <2>4, Zenon DEF ScanSegment, CompactSync, CompactFails
  <2>5. CASE applyCompaction
    BY <1>1, <2>5, Zenon DEF applyCompaction, ApplyCollect, ApplyBatch, ApplyList, ApplyRemove
  <2> QED
    BY <1>4, <2>1, <2>2, <2>3, <2>4, <2>5 DEF compactionWorker, compactSegments
<1> QED
  BY <1>1, <1>3, <1>4, CallFrame, HandleFrame DEF Step

\* A call and the list name segments that exist.
LEMMA StepSegsOK ==
    ASSUME TypeOK, WorkerOK, SegsOK, Step
    PROVE  SegsOK'
<1> USE DEF segVars, engVars
<1>t. list \in Seq(Nat) /\ active \in Segs /\ wk \in WorkerStates /\ disk \subseteq Segs
  BY DEF TypeOK, FilesOK
<1>g. Segs \subseteq Segs'
  BY FilesGrow DEF Grows
<1>1. CASE UNCHANGED <<wr, list>>
  BY <1>g, <1>1 DEF SegsOK
<1>2. ASSUME NEW c \in Writers, Put(c) PROVE SegsOK'
  <2>1. list' = list \/ list' = Append(list, active)
    BY <1>2, Zenon DEF Put, PutBegin, PutAppend, PutIndex, PutSync, PutEnd, PutLock, RotateList,
                RotateCreate
  <2>2. Range(list') \subseteq Segs'
    <3>1. Range(Append(list, active)) = Range(list) \cup {active}
      BY <1>t, AppendElements
    <3> QED
      BY <1>t, <1>g, <2>1, <3>1, Zenon DEF SegsOK
  <2>3. active' \in Segs'
    BY <1>2, PutTypeOK DEF TypeOK
  <2>4. ASSUME NEW d \in Writers, wr'[d].pc # "idle"
        PROVE  wr'[d].key \in Keys /\ wr'[d].seg \in Segs'
    <3>1. CASE d = c
      BY <1>2, <1>g, <1>t, <2>3, <2>4, <3>1, PutEffect DEF SegsOK
    <3>2. CASE d # c
      BY <1>2, <1>g, <2>4, <3>2, PutEffect DEF SegsOK
    <3> QED
      BY <3>1, <3>2
  <2> QED
    BY <2>2, <2>4, Zenon DEF SegsOK
<1>3. CASE compactionWorker
  <2>1. wr' = wr
    BY <1>3, WorkerFrame
  <2>2. CASE ApplyList
    <3>1. Remaining(list, wk.sel) \in Seq(Nat) /\ Range(Remaining(list, wk.sel)) \subseteq Segs
          /\ wk.new \in Segs /\ wk.new \in Nat
      BY <1>t, <2>2, RemainingExact DEF SegsOK, ApplyList, WorkerOK, Created, WorkerStates
    <3>2. list' = Append(Remaining(list, wk.sel), wk.new)
      BY <2>2 DEF ApplyList
    <3>3. Range(list') = Range(Remaining(list, wk.sel)) \cup {wk.new}
      BY <3>1, <3>2, AppendElements, Zenon
    <3> QED
      BY <1>g, <2>1, <3>1, <3>3 DEF SegsOK
  <2>3. CASE ~ApplyList
    BY <1>1, <1>3, <2>1, <2>3, Zenon
    DEF compactionWorker, WorkerReceive, WorkerStop, WorkerSelect, WorkerRelease,
        compactSegments, ScanSegment, CompactCreate, CompactWrite, CompactSync, CompactFails,
        applyCompaction, ApplyCollect, ApplyBatch, ApplyRemove
  <2> QED
    BY <2>2, <2>3
<1> QED
  BY <1>1, <1>2, <1>3, CallFrame, HandleFrame DEF Step

\* The record of a Put stays where it was appended until it enters the index.
LEMMA StepAppended ==
    ASSUME TypeOK, WorkerOK, SegsOK, Appended, Step
    PROVE  Appended'
<1> USE DEF segVars, engVars
<1>g. Grows
  BY FilesGrow
<1>1. ASSUME NEW d \in Writers, wr'[d] = wr[d], wr'[d].pc = "index"
      PROVE  /\ wr'[d].off \in DOMAIN file'[wr'[d].seg]
             /\ file'[wr'[d].seg][wr'[d].off]
                  = [key |-> wr'[d].key, num |-> wr'[d].num, del |-> wr'[d].del]
  BY <1>g, <1>1 DEF Grows, Appended, SegsOK
<1>2. CASE wr' = wr
  BY <1>1, <1>2, Zenon DEF Appended
<1>3. ASSUME NEW c \in Writers, Put(c) PROVE Appended'
  <2>1. ASSUME wr'[c].pc = "index"
        PROVE  /\ wr'[c].off \in DOMAIN file'[wr'[c].seg]
               /\ file'[wr'[c].seg][wr'[c].off]
                    = [key |-> wr'[c].key, num |-> wr'[c].num, del |-> wr'[c].del]
    <3> DEFINE s == wr[c].seg
               x == [key |-> wr[c].key, num |-> wr[c].num, del |-> wr[c].del]
    <3>1. PutAppend(c)
      BY <1>3, <2>1, PutEffect
    <3>2. /\ s \in open /\ file' = [file EXCEPT ![s] = Append(@, x)]
          /\ wr'[c].seg = s /\ wr'[c].off = Len(file[s]) + 1
          /\ wr'[c].key = wr[c].key /\ wr'[c].num = wr[c].num /\ wr'[c].del = wr[c].del
      BY <2>1, <3>1, AppendEffect, Zenon
    <3>3. [key |-> wr'[c].key, num |-> wr'[c].num, del |-> wr'[c].del] = x
      BY <3>2
    <3> HIDE DEF s, x
    <3>4. s \in Segs /\ file[s] \in Seq(Records)
      BY <3>2, FileTypes DEF TypeOK, FilesOK
    <3>5. file'[s] = Append(file[s], x)
      BY <3>2, <3>4 DEF Segs
    <3>6. Len(file[s]) + 1 \in DOMAIN file'[s] /\ file'[s][Len(file[s]) + 1] = x
      BY <3>4, <3>5
    <3> QED
      BY <3>2, <3>3, <3>6
  <2> QED
    BY <1>1, <1>3, <2>1, PutEffect DEF Appended
<1> QED
  BY <1>2, <1>3, CallFrame, HandleFrame, WorkerFrame DEF Step

\* What a step of a Put does to what the worker looks at: it takes its key out of
\* calm, may list the active segment or replace it by a new one, and appends to its
\* own segment only.
LEMMA PutFrame ==
    ASSUME TypeOK, NEW c \in Writers, Put(c)
    PROVE  /\ wk'.pc = wk.pc /\ wk'.sel = wk.sel /\ wk'.left = wk.left /\ wk'.new = wk.new
           /\ wk'.latest = wk.latest /\ wk'.todo = wk.todo /\ wk'.batch = wk.batch
           /\ wk'.calm \subseteq wk.calm
           /\ \/ list' = list /\ wr'[c].pc # "create"
              \/ wr[c].pc = "rotate" /\ wr'[c].pc = "create" /\ list' = Append(list, active)
           /\ \/ /\ UNCHANGED <<active, disk, refs, open>> /\ Segs' = Segs
                 /\ wr[c].pc # "create" \/ cnt'.cerr # 0
              \/ createSegment /\ active' = Len(file) + 1 /\ wr[c].pc = "create"
           /\ \A s \in Segs : s # wr[c].seg \/ wr[c].pc # "append" => file'[s] = file[s]
           /\ UNCHANGED <<closed, cl>> /\ cnt'.runs = cnt.runs
           /\ cnt'.cerr = 0 => cnt.cerr = 0
<1> USE DEF segVars, engVars
<1>t. wk \in WorkerStates /\ wr \in [Writers -> WriterStates] /\ cnt \in Counts
  BY DEF TypeOK
<1>p. /\ wr'[c].pc = "create" <=> RotateList(c) /\ list' = Append(list, active)
      /\ wr[c].pc = "create" => RotateCreate(c)
  <2>1. wr'[c].pc = "create" => RotateList(c)
    BY PutEffect
  <2>2. RotateList(c) => (wr'[c].pc = "create" <=> list' = Append(list, active))
    <3>1. active \in Nat /\ list \in Seq(Nat)
      BY FileTypes DEF TypeOK
    <3>2. Append(list, active) # list
      <4>1. Len(Append(list, active)) = Len(list) + 1 /\ Len(list) \in Nat
        BY <3>1
      <4> QED
        BY <4>1
    <3> QED
      BY <1>t, <3>2 DEF RotateList, IdleWriter, WriterStates
  <2> QED
    BY <2>1, <2>2, PutEffect, Zenon
<1>1. CASE PutBegin(c)
  <2>1. PICK k \in Keys : wk' = [wk EXCEPT !.calm = @ \ {k}]
    BY <1>1, Zenon DEF PutBegin
  <2> QED
    BY <1>p, <1>t, <1>1, <2>1 DEF PutBegin, WorkerStates, Segs, RotateList
<1>2. CASE PutAppend(c)
  <2>1. \/ file' = file
        \/ \E f : file' = [file EXCEPT ![wr[c].seg] = f]
    BY <1>2, Zenon DEF PutAppend
  <2>2. Segs' = Segs /\ \A s \in Segs : s # wr[c].seg => file'[s] = file[s]
    BY <2>1 DEF Segs
  <2> QED
    BY <1>p, <1>2, <2>2, Zenon DEF PutAppend, RotateList
<1>3. CASE PutIndex(c) \/ PutSync(c) \/ PutEnd(c) \/ PutLock(c)
  BY <1>p, <1>3, Zenon DEF PutIndex, PutSync, PutEnd, PutLock, Segs, RotateList
<1>4. CASE RotateList(c)
  BY <1>p, <1>4 DEF RotateList, Segs
<1>5. CASE RotateCreate(c)
  <2>1. ASSUME createSegment PROVE \A s \in Segs : file'[s] = file[s]
    BY <2>1 DEF createSegment, TypeOK, FilesOK, Segs
  <2>2. CASE createSegment /\ cnt' = cnt /\ active' = Len(file) + 1
    BY <1>p, <1>5, <2>1, <2>2 DEF RotateCreate, RotateList
  <2>3. CASE UNCHANGED <<segVars, active>> /\ cnt' = [cnt EXCEPT !.cerr = @ + 1]
    BY <1>p, <1>t, <1>5, <2>3 DEF RotateCreate, RotateList, Segs, Counts
  <2> QED
    BY <1>5, <2>2, <2>3, Zenon DEF RotateCreate
<1> QED
  BY <1>1, <1>2, <1>3, <1>4, <1>5, Zenon DEF Put

\* Nobody but the worker disturbs what it works on.
LEMMA OthersWorkerOK ==
    ASSUME TypeOK, SegsOK, WorkerOK, Step, ~compactionWorker
    PROVE  WorkerOK'
<1>t. FilesOK /\ list \in Seq(Nat) /\ active \in Segs /\ disk \subseteq Segs
  BY DEF TypeOK, FilesOK
<1>g. Segs \subseteq Segs'
  BY FilesGrow DEF Grows
<1>1. CASE UNCHANGED <<file, disk, active, list, wr, wk>>
  BY <1>g, <1>1, Zenon DEF WorkerOK
<1>2. ASSUME NEW c \in Writers, Put(c) PROVE WorkerOK'
  <2>1. /\ wk'.pc = wk.pc /\ wk'.sel = wk.sel /\ wk'.left = wk.left /\ wk'.new = wk.new
        /\ wk'.calm \subseteq wk.calm
    BY <1>2, PutFrame, Zenon
  <2>2. Range(list) \subseteq Range(list') /\ Range(list') \subseteq Range(list) \cup {active}
    <3>1. Range(Append(list, active)) = Range(list) \cup {active}
      BY <1>t, AppendElements
    <3> QED
      BY <1>2, <3>1, PutFrame, Zenon
  <2>3. /\ disk \subseteq disk'
        /\ active' = active \/ active' \notin Segs
    <3>1. Len(file) + 1 \notin Segs
      BY <1>t, FileTypes
    <3> QED
      BY <1>2, <3>1, PutFrame DEF createSegment
  <2>4. \A d \in Writers : wr'[d].pc # "idle" =>
           wr'[d].seg \in {active, active'} \/ (wr[d].pc # "idle" /\ wr'[d].seg = wr[d].seg)
    BY <1>2, PutEffect, Zenon
  <2>5. ASSUME wk.pc = "write" PROVE file'[wk.new] = file[wk.new]
    <3>1. wk.new \in Segs /\ (wr[c].pc = "append" => wr[c].seg # wk.new)
      BY <1>t, <2>5 DEF WorkerOK, Created
    <3> QED
      BY <1>2, <3>1, PutFrame, Zenon
  <2>6. ASSUME wk.pc \in Created
        PROVE  /\ wk.new # active' /\ wk.new \notin Range(list')
               /\ \A d \in Writers : wr'[d].pc # "idle" => wr'[d].seg # wk.new
    <3>1. /\ wk.new # active /\ wk.new \notin Range(list) /\ wk.new \in Segs
          /\ \A d \in Writers : wr[d].pc # "idle" => wr[d].seg # wk.new
      BY <1>t, <2>6, Zenon DEF WorkerOK
    <3> QED
      BY <2>2, <2>3, <2>4, <3>1, Zenon
  <2> QED
    BY <1>g, <2>1, <2>2, <2>3, <2>5, <2>6, Zenon DEF WorkerOK
<1> QED
  BY <1>1, <1>2, CallFrame, HandleFrame DEF Step

\* The worker keeps what it knows of its segments.
LEMMA WorkerWorkerOK ==
    ASSUME TypeOK, SegsOK, WorkerOK, compactionWorker
    PROVE  WorkerOK'
<1> USE DEF segVars, engVars
<1>t. /\ FilesOK /\ list \in Seq(Nat) /\ disk \subseteq Segs /\ wk \in WorkerStates
      /\ wk.sel \in Seq(Nat) /\ wk.left \in Seq(Nat)
  BY DEF TypeOK, FilesOK, WorkerStates
<1>f. UNCHANGED <<active, wr>>
  BY WorkerFrame
<1>e. Range(<<>>) = {}
  BY DEF Range
<1>g. Segs \subseteq Segs' /\ Range(list) \subseteq Segs /\ Range(wk.sel) \subseteq Segs
  BY FilesGrow, Zenon DEF Grows, Step, SegsOK, WorkerOK
<1>i. ASSUME wk' = IdleWorker, disk' = disk PROVE WorkerOK'
  <2>1. wk'.pc = "wait" /\ wk'.sel = <<>> /\ wk'.left = <<>> /\ wk'.calm = {}
    BY <1>i DEF IdleWorker
  <2> QED
    BY <1>g, <1>i, <1>e, <2>1, Zenon DEF WorkerOK, Resting, Selected, Created
<1>1. CASE WorkerReceive \/ WorkerStop
  <2>1. /\ wk'.pc \in {"select", "done"} /\ wk.pc = "wait" /\ wk'.sel = wk.sel
        /\ wk'.left = wk.left /\ wk'.calm = wk.calm /\ disk' = disk
    BY <1>t, <1>1 DEF WorkerReceive, WorkerStop, WorkerStates
  <2> QED
    BY <1>g, <2>1, Zenon DEF WorkerOK, Resting, Selected, Created
<1>2. CASE WorkerSelect
  <2> DEFINE sel == SubSeq(list, 1, numToCompact)
  <2>1. CASE wk' = IdleWorker
    BY <1>i, <1>2, <2>1 DEF WorkerSelect
  <2>2. CASE wk' # IdleWorker
    <3>1. /\ Len(list) >= 2 /\ \E K : wk' = [wk EXCEPT !.pc = "scan", !.sel = sel, !.left = sel,
                                                       !.calm = K]
          /\ list' = list /\ disk' = disk
      BY <1>2, <2>2, Zenon DEF WorkerSelect
    <3>2. wk'.pc = "scan" /\ wk'.sel = sel /\ wk'.left = sel
      <4> HIDE DEF sel
      <4> QED
        BY <1>t, <3>1 DEF WorkerStates
    <3>3. sel # <<>> /\ Range(sel) \subseteq Range(list)
      <4>1. numToCompact \in 1..Len(list)
        BY <1>t, <3>1, SelectType DEF numToCompact
      <4>2. Len(sel) = numToCompact
        BY <1>t, SelectType
      <4>3. sel # <<>>
        BY <4>1, <4>2
      <4>4. sel \in Seq(Nat) /\ Range(sel) \subseteq Range(list)
        BY <1>t, <4>1, PrefixElements
      <4> QED
        BY <4>3, <4>4
    <3> HIDE DEF sel
    <3> QED
      BY <1>g, <3>1, <3>2, <3>3 DEF WorkerOK, Resting, Selected, Created
  <2> QED
    BY <2>1, <2>2
<1>3. CASE ScanSegment
  <2>1. /\ wk.pc = "scan" /\ disk' = disk /\ list' = list /\ wk'.sel = wk.sel /\ wk.left # <<>>
        /\ Range(wk.left) \subseteq Range(wk.sel)
    BY <1>t, <1>3, Zenon DEF ScanSegment, WorkerStates, WorkerOK
  <2>2. \/ wk'.pc = "release" /\ wk'.left = wk.left
        \/ /\ wk'.left = Tail(wk.left)
           /\ wk'.pc = IF Len(wk.left) = 1 THEN "create" ELSE "scan"
    BY <1>t, <1>3, Zenon DEF ScanSegment, WorkerStates
  <2>3. Range(Tail(wk.left)) \subseteq Range(wk.left)
    BY <1>t, <2>1, TailElements
  <2>4. Len(wk.left) # 1 => Tail(wk.left) # <<>>
    BY <1>t, <2>1, TailElements, Zenon
  <2> QED
    BY <1>g, <2>1, <2>2, <2>3, <2>4, Zenon DEF WorkerOK, Resting, Selected, Created
<1>4. CASE CompactCreate
  <2>1. /\ wk.pc = "create" /\ list' = list /\ wk'.sel = wk.sel /\ wk'.left = wk.left
        /\ Range(wk.left) \subseteq Range(wk.sel) /\ Range(wk.sel) \subseteq Range(list)
        /\ Range(list) \subseteq Segs /\ disk # {}
    BY <1>t, <1>4, Zenon DEF CompactCreate, WorkerStates, WorkerOK, SegsOK, Selected
  <2>2. CASE wk'.pc = "release" /\ disk' = disk
    BY <1>g, <2>1, <2>2, Zenon DEF WorkerOK, Resting, Selected, Created
  <2>3. CASE createSegment /\ wk'.pc = "write" /\ wk'.new = Len(file) + 1
    <3>1. /\ Len(file) + 1 \notin Segs /\ disk' = disk \cup {Len(file) + 1}
          /\ file'[Len(file) + 1] = <<>> /\ Len(file) + 1 \notin disk
      BY <1>t, <2>3, FileTypes DEF createSegment, FilesOK
    <3>2. active \in Segs /\ \A c \in Writers : wr[c].pc # "idle" => wr[c].seg \in Segs
      BY DEF TypeOK, SegsOK
    <3> QED
      BY <1>f, <1>g, <2>1, <2>3, <3>1, <3>2 DEF WorkerOK, Resting, Selected, Created
  <2> QED
    BY <1>t, <1>4, <2>2, <2>3, Zenon DEF CompactCreate, WorkerStates
<1>5. CASE CompactWrite \/ CompactSync
  <2>1. /\ wk.pc \in {"write", "sync"} /\ list' = list /\ wk'.sel = wk.sel /\ wk'.left = wk.left
        /\ wk'.new = wk.new /\ disk' = disk /\ wk'.pc \in {"sync", "index"}
    BY <1>t, <1>5, Zenon DEF CompactWrite, CompactSync, WorkerStates
  <2> QED
    BY <1>g, <1>f, <2>1, Zenon DEF WorkerOK, Resting, Selected, Created
<1>6. CASE CompactFails
  <2>1. /\ wk.pc \in {"write", "sync"} /\ list' = list /\ wk'.sel = wk.sel /\ wk'.left = wk.left
        /\ disk' = disk \ {wk.new} /\ wk'.pc = "release"
    BY <1>t, <1>6 DEF CompactFails, WorkerStates
  <2> QED
    BY <1>g, <2>1, Zenon DEF WorkerOK, Resting, Selected, Created
<1>7. CASE ApplyCollect \/ ApplyBatch
  <2>1. /\ wk.pc \in {"index", "batch"} /\ list' = list /\ wk'.sel = wk.sel
        /\ wk'.left = wk.left /\ wk'.new = wk.new /\ disk' = disk
        /\ wk'.pc \in {"index", "batch", "list"}
    BY <1>t, <1>7, Zenon DEF ApplyCollect, ApplyBatch, WorkerStates
  <2> QED
    BY <1>g, <1>f, <2>1, Zenon DEF WorkerOK, Resting, Selected, Created
<1>8. CASE ApplyList
  <2>1. /\ wk.pc = "list" /\ wk'.sel = wk.sel /\ wk'.left = wk.sel /\ wk'.new = wk.new
        /\ disk' = disk /\ wk'.pc = "remove"
    BY <1>t, <1>8 DEF ApplyList, WorkerStates
  <2> QED
    BY <1>g, <2>1, Zenon DEF WorkerOK, Resting, Selected, Created
<1>9. CASE ApplyRemove
  <2>1. /\ wk.pc = "remove" /\ wk'.sel = wk.sel /\ wk'.left = Tail(wk.left) /\ wk'.new = wk.new
        /\ disk' = disk \ {Head(wk.left)} /\ wk.left # <<>>
        /\ wk'.pc = IF Len(wk.left) = 1 THEN "release" ELSE "remove"
        /\ wk.new \in disk /\ wk.new \notin Range(wk.sel) /\ Range(wk.left) \subseteq Range(wk.sel)
    BY <1>t, <1>9 DEF ApplyRemove, WorkerStates, WorkerOK
  <2>2. Range(Tail(wk.left)) \subseteq Range(wk.left) /\ Head(wk.left) \in Range(wk.left)
    BY <1>t, <2>1, TailElements DEF Range
  <2>3. Len(wk.left) # 1 => Tail(wk.left) # <<>>
    BY <1>t, <2>1, TailElements, Zenon
  <2> QED
    BY <1>g, <2>1, <2>2, <2>3, Zenon DEF WorkerOK, Resting, Selected, Created
<1>10. CASE WorkerRelease
  BY <1>i, <1>10 DEF WorkerRelease
<1> QED
  BY <1>1, <1>2, <1>3, <1>4, <1>5, <1>6, <1>7, <1>8, <1>9, <1>10, Zenon
  DEF compactionWorker, compactSegments, applyCompaction

\* Entries keep locating a record of their key: files grow, a Put enters the record
\* it has appended, and a compaction the records of its new segment.
LEMMA StepIndexOK ==
    ASSUME TypeOK, SegsOK, Appended, WorkerOK, IndexPointsToRecord, Step
    PROVE  IndexPointsToRecord'
<1> USE DEF segVars, engVars
<1>t. /\ FilesOK /\ idx \in [Keys -> Entries] /\ wk \in WorkerStates
      /\ wr \in [Writers -> WriterStates] /\ rd \in [Readers -> ReaderStates]
  BY DEF TypeOK
<1> DEFINE Later(k, e) == /\ e.seg \in Segs' /\ e.off \in DOMAIN file'[e.seg]
                          /\ file'[e.seg][e.off].key = k
<1>g. ASSUME NEW k, NEW e, EntryOK(k, e) PROVE Later(k, e)
  BY <1>g, FilesGrow DEF Grows, EntryOK
<1>i. \A k \in Keys : idx[k] = NoEntry \/ Later(k, idx[k])
  <2> HIDE DEF Later
  <2> QED
    BY <1>g DEF IndexPointsToRecord
<1>r. \A r \in Readers : rd[r].pc # "idle" => Later(rd[r].key, rd[r].ent)
  <2> HIDE DEF Later
  <2> QED
    BY <1>g DEF IndexPointsToRecord
<1>q. ASSUME \A k \in Keys : idx'[k] = NoEntry \/ Later(k, idx'[k]),
             \A r \in Readers : rd'[r].pc # "idle" => Later(rd'[r].key, rd'[r].ent)
      PROVE  IndexPointsToRecord'
  BY <1>q, Zenon DEF IndexPointsToRecord, EntryOK
<1> HIDE DEF Later
<1>1. CASE UNCHANGED <<idx, rd>>
  BY <1>i, <1>r, <1>q, <1>1, Zenon
<1>2. ASSUME NEW c \in Writers, Put(c) PROVE IndexPointsToRecord'
  <2>1. CASE PutIndex(c)
    <3> DEFINE e == [seg |-> wr[c].seg, off |-> wr[c].off]
    <3>1. /\ wr[c].pc = "index" /\ idx' = [idx EXCEPT ![wr[c].key] = e]
          /\ \A r \in Readers : /\ rd'[r].pc = rd[r].pc /\ rd'[r].key = rd[r].key
                                /\ rd'[r].ent = rd[r].ent
      BY <1>t, <2>1 DEF PutIndex, ReaderStates
    <3>2. EntryOK(wr[c].key, e)
      <4>1. wr[c].seg \in Segs /\ wr[c].off \in DOMAIN file[wr[c].seg]
        BY <3>1, Zenon DEF Appended, SegsOK
      <4>3. file[wr[c].seg][wr[c].off].key = wr[c].key
        <5> DEFINE x == [key |-> wr[c].key, num |-> wr[c].num, del |-> wr[c].del]
        <5>1. file[wr[c].seg][wr[c].off] = x
          BY <3>1, Zenon DEF Appended
        <5>2. x.key = wr[c].key
          OBVIOUS
        <5> QED
          BY <5>1, <5>2, Zenon
      <4>2. e.seg = wr[c].seg /\ e.off = wr[c].off
        OBVIOUS
      <4> HIDE DEF e
      <4> QED
        BY <4>1, <4>2, <4>3, Zenon DEF EntryOK
    <3>3. Later(wr[c].key, e)
      BY <1>g, <3>2, Zenon
    <3> HIDE DEF e
    <3>4. \A k \in Keys : idx'[k] = idx[k] \/ (k = wr[c].key /\ idx'[k] = e)
      BY <1>t, <3>1, Zenon
    <3> QED
      BY <1>i, <1>r, <1>q, <3>1, <3>3, <3>4, Zenon
  <2>2. CASE ~PutIndex(c)
    BY <1>1, <1>2, <2>2, Zenon DEF Put, PutBegin, PutAppend, PutSync, PutEnd, PutLock, RotateList,
                            RotateCreate
  <2> QED
    BY <2>1, <2>2
<1>3. ASSUME NEW r \in Readers, Get(r) PROVE IndexPointsToRecord'
  <2>1. idx' = idx /\ \A q \in Readers : q # r => rd'[q] = rd[q]
    BY <1>t, <1>3, Zenon DEF Get, GetBegin, GetActive, GetList, GetRead, Answer
  <2>2. ASSUME rd'[r].pc # "idle" PROVE Later(rd'[r].key, rd'[r].ent)
    <3>1. CASE GetBegin(r)
      <4>1. PICK k \in Keys :
              rd' = [rd EXCEPT ![r] = [pc |-> IF idx[k] = NoEntry THEN "idle" ELSE "active",
                                       key |-> k, ent |-> idx[k], win |-> {cur[k]}, got |-> 0]]
        BY <3>1, Zenon DEF GetBegin
      <4>2. /\ rd'[r].pc = IF idx[k] = NoEntry THEN "idle" ELSE "active"
            /\ rd'[r].key = k /\ rd'[r].ent = idx[k]
        BY <1>t, <4>1
      <4> QED
        BY <1>i, <2>2, <4>2
    <3>2. CASE GetActive(r)
      <4>1. PICK p : rd' = [rd EXCEPT ![r].pc = p]
        BY <3>2, Zenon DEF GetActive
      <4>2. rd'[r].key = rd[r].key /\ rd'[r].ent = rd[r].ent /\ rd[r].pc = "active"
        BY <1>t, <3>2, <4>1 DEF ReaderStates, GetActive
      <4> QED
        BY <1>r, <4>2, Zenon
    <3>3. CASE GetList(r)
      <4>1. rd' = [rd EXCEPT ![r].pc = "read"]
        BY <1>t, <2>2, <3>3, Zenon DEF GetList, Answer, ReaderStates
      <4>2. rd'[r].key = rd[r].key /\ rd'[r].ent = rd[r].ent /\ rd[r].pc = "list"
        BY <1>t, <3>3, <4>1 DEF ReaderStates, GetList
      <4> QED
        BY <1>r, <4>2
    <3>4. CASE GetRead(r)
      BY <1>t, <2>2, <3>4 DEF GetRead, Answer, ReaderStates
    <3> QED
      BY <1>3, <3>1, <3>2, <3>3, <3>4 DEF Get
  <2> QED
    BY <1>i, <1>r, <1>q, <2>1, <2>2, Zenon
<1>4. CASE compactionWorker
  <2>1. rd' = rd
    BY <1>4, WorkerFrame
  <2>2. CASE ApplyBatch
    <3>1. CASE idx' = idx
      BY <1>1, <2>1, <3>1
    <3>2. CASE idx' # idx
      <4>1. PICK k \in wk.batch : idx' = [idx EXCEPT ![k] = newIndex(k)]
        BY <2>2, <3>2 DEF ApplyBatch
      <4>2. wk.new \in Segs /\ k \in Keys
        BY <1>t, <2>2 DEF ApplyBatch, WorkerOK, Created, FilesOK, WorkerStates
      <4>3. newIndex(k) = NoEntry \/ Later(k, newIndex(k))
        BY <1>t, <1>g, <4>2, NewIndexOK, Zenon
      <4>4. \A j \in Keys : idx'[j] = idx[j] \/ (j = k /\ idx'[j] = newIndex(k))
        BY <1>t, <4>1, <4>2, Zenon
      <4> QED
        BY <1>i, <1>r, <1>q, <2>1, <4>3, <4>4, Zenon
    <3> QED
      BY <3>1, <3>2
  <2>3. CASE ~ApplyBatch
    BY <1>1, <1>4, <2>1, <2>3, Zenon
    DEF compactionWorker, WorkerReceive, WorkerStop, WorkerSelect, WorkerRelease,
        compactSegments, ScanSegment, CompactCreate, CompactWrite, CompactSync, CompactFails,
        applyCompaction, ApplyCollect, ApplyList, ApplyRemove
  <2> QED
    BY <2>2, <2>3
<1>5. CASE SyncBegin \/ SyncEnd \/ Compact \/ UNCHANGED vars
  BY <1>1, <1>5 DEF SyncBegin, SyncEnd, Compact, vars
<1> QED
  BY <1>1, <1>2, <1>3, <1>4, <1>5, HandleFrame DEF Step, CallStep

\* What recover builds: nothing is in progress, and an entry locates the last
\* record of its key in the files of the directory.
LEMMA RecoverIndexInv ==
    ASSUME TypeOK, disk # {}, cnt' \in Counts, NEW files \in Seq(Seq(Records)),
           Len(files) = Len(file), recover(files)
    PROVE  IndexInv'
<1>1. TypeOK' /\ Segs' = Segs /\ Range(list') \subseteq disk
  BY RecoverType
<1>2. /\ disk' = disk /\ disk \subseteq Segs /\ file' = files /\ wk' = IdleWorker
      /\ \A c \in Writers : wr'[c].pc = "idle"
      /\ \A r \in Readers : rd'[r].pc = "idle"
  <2>1. /\ disk' = disk /\ file' = files /\ wk' = IdleWorker
        /\ wr' = [c \in Writers |-> IdleWriter] /\ rd' = [r \in Readers |-> IdleReader]
    BY Zenon DEF recover
  <2>2. IdleWriter.pc = "idle" /\ IdleReader.pc = "idle"
    BY Zenon DEF IdleWriter, IdleReader
  <2> QED
    BY <2>1, <2>2, Zenon DEF TypeOK, FilesOK
<1>3. SegsOK' /\ MuExact' /\ Appended'
  BY <1>1, <1>2, Zenon DEF SegsOK, MuExact, Holds, Appended
<1>4. WorkerOK'
  <2>1. wk'.pc = "wait" /\ wk'.sel = <<>> /\ wk'.left = <<>> /\ wk'.calm = {}
    BY <1>2, Zenon DEF IdleWorker
  <2>2. Range(<<>>) = {}
    BY DEF Range
  <2> QED
    BY <1>2, <2>1, <2>2 DEF WorkerOK, Resting, Selected, Created
<1>5. IndexPointsToRecord'
  <2>1. disk \subseteq DOMAIN files /\ Segs' = DOMAIN files
    BY <1>1, <1>2 DEF Segs
  <2>2. ASSUME NEW k \in Keys, idx'[k] # NoEntry
        PROVE  /\ idx'[k].seg \in Segs' /\ idx'[k].off \in DOMAIN file'[idx'[k].seg]
               /\ file'[idx'[k].seg][idx'[k].off].key = k
    <3>1. idx'[k] = LastRecord(files, k)
      BY Zenon DEF recover
    <3>2. PICK e : e = LastRecord(files, k)
      OBVIOUS
    <3>3. e.seg \in disk /\ e.off \in DOMAIN files[e.seg] /\ files[e.seg][e.off].key = k
      BY <2>1, <2>2, <3>1, <3>2, LastRecordOK, Zenon
    <3> QED
      BY <1>1, <1>2, <3>1, <3>2, <3>3, Zenon
  <2> QED
    BY <1>2, <2>2, Zenon DEF IndexPointsToRecord, EntryOK
<1> QED
  BY <1>1, <1>3, <1>4, <1>5 DEF IndexInv

\* A crash or Close, and New on the directory.
LEMMA RestartIndexInv ==
    ASSUME IndexInv, Crash \/ Restart
    PROVE  IndexInv'
<1>1. TypeOK /\ disk # {}
  BY DEF IndexInv, WorkerOK
<1>2. CASE Crash
  <2>1. cnt' \in Counts
    BY <1>1, <1>2, CrashFiles
  <2>2. PICK files \in Seq(Seq(Records)) : Len(files) = Len(file) /\ recover(files)
    BY <1>1, <1>2, CrashFiles
  <2> QED
    BY <1>1, <2>1, <2>2, RecoverIndexInv
<1>3. CASE Restart
  <2>1. cnt' \in Counts /\ file \in Seq(Seq(Records)) /\ recover(file)
    BY <1>1, <1>3 DEF Restart, TypeOK, FilesOK
  <2> QED
    BY <1>1, <2>1, RecoverIndexInv
<1> QED
  BY <1>2, <1>3

\* The inductive invariant behind IndexPointsToRecord.
LEMMA IndexInvStep == IndexInv /\ [Next]_vars => IndexInv'
<1> SUFFICES ASSUME IndexInv, Step PROVE IndexInv'
  BY NextSteps, RestartIndexInv
<1>1. TypeOK /\ SegsOK /\ MuExact /\ Appended /\ WorkerOK /\ IndexPointsToRecord
  BY DEF IndexInv
<1>2. TypeOK'
  <2>1. CASE UNCHANGED vars
    BY <1>1, <2>1, Zenon DEF vars, segVars, engVars, TypeOK, FilesOK, Segs
  <2>2. CASE compactionWorker \/ \E c \in Writers : Put(c)
    BY <1>1, <2>2, PutTypeOK, WorkerTypeOK
  <2>3. CASE SyncBegin \/ SyncEnd \/ Compact \/ CloseHandle \/ Close \/ \E r \in Readers : Get(r)
    BY <1>1, <2>3, GetTypeOK, OtherTypeOK
  <2> QED
    BY <2>1, <2>2, <2>3 DEF Step, CallStep, HandleStep
<1>3. SegsOK' /\ MuExact' /\ Appended'
  BY <1>1, StepSegsOK, StepMuExact, StepAppended
<1>4. WorkerOK'
  BY <1>1, WorkerWorkerOK, OthersWorkerOK
<1>5. IndexPointsToRecord'
  BY <1>1, StepIndexOK
<1> QED
  BY <1>2, <1>3, <1>4, <1>5 DEF IndexInv

\* The new, empty engine's index.
LEMMA InitIndexInv == Init => IndexInv
<1> SUFFICES ASSUME Init PROVE IndexInv
  OBVIOUS
<1>1. TypeOK
  BY InitTypeOK
<1>2. Range(list) = {} /\ disk # {} /\ wk = IdleWorker /\ Range(<<>>) = {}
  BY DEF Init, Range
<1>3. \A c \in Writers : wr[c].pc = "idle"
  BY Zenon DEF Init, IdleWriter
<1>4. SegsOK /\ MuExact /\ Appended
  BY <1>2, <1>3, Zenon DEF SegsOK, MuExact, Holds, Appended
<1>5. WorkerOK
  BY <1>2, Zenon DEF WorkerOK, IdleWorker, Resting, Selected, Created
<1>6. IndexPointsToRecord
  BY DEF Init, IndexPointsToRecord, IdleReader
<1> QED
  BY <1>1, <1>4, <1>5, <1>6 DEF IndexInv

\* Every entry of the index, and every entry a running Get has taken from it,
\* locates a record of its own key, whatever Puts, rotations, compactions, failed
\* file operations, crashes and recoveries have done to the files meanwhile.
THEOREM EntriesLocateRecords == Spec => []IndexPointsToRecord
<1>1. IndexInv => IndexPointsToRecord
  BY DEF IndexInv
<1> QED
  BY <1>1, InitIndexInv, IndexInvStep, PTL DEF Spec
=============================================================================
