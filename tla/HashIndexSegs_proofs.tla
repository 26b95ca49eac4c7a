------------------------ MODULE HashIndexSegs_proofs ------------------------
(***************************************************************************)
(* The invariants of module HashIndex about its segments: which files      *)
(* there are, which of them are open, who holds a reference to them; and   *)
(* what a Get finds in them as long as nothing is compacted.               *)
(***************************************************************************)
EXTENDS HashIndexInv_proofs

\* The time each leaf is given, in seconds; a second attempt follows a failed one.
USE SMTT(30), SMTT(40)

\* A step that is no failure of a file operation follows no such failure.
LEMMA NoError ==
    ASSUME TypeOK, Step, cnt'.cerr = 0
    PROVE  cnt.cerr = 0
<1> USE DEF segVars, engVars
<1>1. CASE compactionWorker
  <2>1. \/ cnt' = cnt \/ cnt' = [cnt EXCEPT !.runs = @ + 1] \/ cnt' = [cnt EXCEPT !.cerr = @ + 1]
    BY <1>1, Zenon
    DEF compactionWorker, WorkerReceive, WorkerStop, WorkerSelect, WorkerRelease,
        compactSegments, ScanSegment, CompactCreate, CompactWrite, CompactSync, CompactFails,
        applyCompaction, ApplyCollect, ApplyBatch, ApplyList, ApplyRemove
  <2> QED
    BY <2>1 DEF TypeOK, Counts
<1> QED
  BY <1>1, PutFrame, CallFrame, HandleFrame, Zenon DEF Step

\* One Put at a time rotates.
LEMMA RotatingStep ==
    ASSUME TypeOK, MuExact, NEW c \in Writers, Put(c)
    PROVE  /\ wr[c].pc = "rotate" => ~Rotating
           /\ wr[c].pc = "create" => Rotating /\ ~Rotating'
           /\ wr'[c].pc = "create" => Rotating'
           /\ wr[c].pc # "create" /\ wr'[c].pc # "create" => (Rotating' <=> Rotating)
<1>1. \A d \in Writers : Holds(c) /\ Holds(d) => c = d
  BY DEF MuExact
<1>2. \A d \in Writers \ {c} : wr'[d] = wr[d]
  BY PutEffect
<1>3. wr[c].pc = "create" => wr'[c].pc # "create"
  BY PutEffect DEF RotateList
<1> QED
  BY <1>1, <1>2, <1>3 DEF Rotating, Holds

\* Close runs once, and gives up the segments when the worker has stopped.
LEMMA StepCloseOK ==
    ASSUME TypeOK, CloseOK, Step
    PROVE  CloseOK'
<1> USE DEF segVars, engVars
<1>1. CASE UNCHANGED <<closed, cl>> /\ (wk'.pc = wk.pc \/ cl \notin {"list", "closed"})
  BY <1>1 DEF CloseOK
<1>2. ASSUME NEW c \in Writers, Put(c) PROVE CloseOK'
  BY <1>1, <1>2, PutFrame
<1>3. CASE CallStep
  BY <1>1, <1>3, CallFrame
<1>4. CASE compactionWorker
  <2>1. UNCHANGED <<closed, cl>>
    BY <1>4, WorkerFrame, Zenon
  <2>2. wk.pc # "done"
    BY <1>4, Zenon
    DEF compactionWorker, WorkerReceive, WorkerStop, WorkerSelect, WorkerRelease,
        compactSegments, ScanSegment, CompactCreate, CompactWrite, CompactSync, CompactFails,
        applyCompaction, ApplyCollect, ApplyBatch, ApplyList, ApplyRemove
  <2> QED
    BY <1>1, <2>1, <2>2, Zenon DEF CloseOK
<1>5. CASE HandleStep
  BY <1>5 DEF HandleStep, CloseHandle, Close, CloseBegin, CloseActive, CloseList, CloseOK
<1> QED
  BY <1>2, <1>3, <1>4, <1>5 DEF Step

\* As long as a segment has a reference its handle stays open: the handle is closed
\* when there is none, and references are added to open segments only.
LEMMA StepOpenHeld ==
    ASSUME TypeOK, WorkerOK, OpenHeld, Step
    PROVE  OpenHeld'
<1> USE DEF segVars, engVars
<1>t. FilesOK /\ list \in Seq(Nat)
  BY DEF TypeOK
<1>s. Segs = 1..Len(file) /\ Len(file) \in Nat /\ refs \in [Segs -> Int]
  BY <1>t, FileTypes DEF FilesOK
<1>1. CASE Segs' = Segs /\ UNCHANGED <<refs, open>>
  BY <1>1 DEF OpenHeld
<1>2. ASSUME createSegment PROVE OpenHeld'
  <2>1. /\ Segs' = Segs \cup {Len(file) + 1} /\ open' = open \cup {Len(file) + 1}
        /\ \A s \in Segs : refs'[s] = refs[s]
    BY <1>t, <1>s, <1>2, CreateType DEF createSegment, FilesOK
  <2> QED
    BY <2>1 DEF OpenHeld
<1>3. ASSUME Segs' = Segs, open' = open,
             \A s \in Segs : refs'[s] = refs[s] \/ s \in open \/ (\E n \in Nat : refs'[s] = refs[s] - n)
      PROVE  OpenHeld'
  BY <1>s, <1>3 DEF OpenHeld
<1>4. ASSUME NEW c \in Writers, Put(c) PROVE OpenHeld'
  BY <1>1, <1>2, <1>4, PutFrame
<1>5. CASE CallStep
  BY <1>1, <1>5, CallFrame DEF Segs
<1>d. ASSUME NEW x, refs' = [refs EXCEPT ![x] = @ - 1] PROVE \A s \in Segs :
                                                              refs'[s] = refs[s] \/ refs'[s] = refs[s] - 1
  BY <1>s, <1>d
<1>6. CASE compactionWorker
  <2>1. CASE WorkerSelect
    <3> DEFINE held == {list[i] : i \in {i \in 1..numToCompact : \A j \in 1..i : list[j] \in open}}
    <3>1. /\ Segs' = Segs /\ open' = open
          /\ \/ refs' = refs
             \/ refs' = [s \in Segs |-> IF s \in held THEN refs[s] + 1 ELSE refs[s]]
      BY <2>1, Zenon DEF WorkerSelect, Segs
    <3>2. held \subseteq open
      <4>1. numToCompact \in Nat
        BY <1>t, SelectType
      <4> QED
        BY <4>1
    <3> HIDE DEF held
    <3> QED
      BY <1>1, <1>3, <1>s, <3>1, <3>2
  <2>2. CASE CompactCreate
    BY <1>1, <1>2, <2>2 DEF CompactCreate, Segs
  <2>3. CASE CompactFails \/ ApplyRemove
    <3>1. Segs' = Segs /\ open' = open /\ \E x : refs' = [refs EXCEPT ![x] = @ - 1]
      BY <2>3 DEF CompactFails, ApplyRemove, Segs
    <3> QED
      BY <1>3, <1>d, <3>1
  <2>4. CASE WorkerRelease
    <3>1. Segs' = Segs /\ open' = open /\ \A s \in Segs : refs'[s] = refs[s] \/ refs'[s] = refs[s] - 1
      BY <2>4 DEF WorkerRelease, Segs
    <3> QED
      BY <1>3, <3>1
  <2>5. CASE \/ WorkerReceive \/ WorkerStop \/ ScanSegment \/ CompactWrite \/ CompactSync
             \/ ApplyCollect \/ ApplyBatch \/ ApplyList
    <3>1. UNCHANGED <<refs, open>> /\ Segs' = Segs
      BY <2>5, Zenon DEF WorkerReceive, WorkerStop, ScanSegment, CompactWrite, CompactSync,
                  ApplyCollect, ApplyBatch, ApplyList, Segs
    <3> QED
      BY <1>1, <3>1, Zenon
  <2> QED
    BY <1>6, <2>1, <2>2, <2>3, <2>4, <2>5 DEF compactionWorker, compactSegments, applyCompaction
<1>7. CASE CloseHandle
  BY <1>s, <1>7 DEF CloseHandle, OpenHeld, Segs
<1>8. CASE CloseBegin
  BY <1>1, <1>8 DEF CloseBegin, Segs
<1>9. CASE CloseActive
  <2>1. Segs' = Segs /\ open' = open /\ \E x : refs' = [refs EXCEPT ![x] = @ - 1]
    BY <1>9, Zenon DEF CloseActive, Segs
  <2> QED
    BY <1>3, <1>d, <2>1
<1>10. CASE CloseList
  <2>1. ASSUME NEW s \in Segs PROVE \E n \in Nat : refs'[s] = refs[s] - n
    <3> DEFINE I == {i \in DOMAIN list : list[i] = s}
    <3>1. Cardinality(I) \in Nat
      <4>1. IsFiniteSet(1..Len(list))
        BY <1>t, FS_Interval
      <4>2. I \in SUBSET (1..Len(list))
        BY <1>t
      <4>3. IsFiniteSet(I)
        BY <4>1, <4>2, FS_Subset
      <4> QED
        BY <4>3, FS_CardinalityType
    <3> QED
      BY <1>10, <3>1 DEF CloseList
  <2> QED
    BY <1>3, <1>10, <2>1 DEF CloseList, Segs
<1> QED
  BY <1>4, <1>5, <1>6, <1>7, <1>8, <1>9, <1>10 DEF Step, HandleStep, Close

\* While no creation of a file fails, no segment gets twice into the list.
LEMMA StepListOK ==
    ASSUME TypeOK, SegsOK, MuExact, WorkerOK, ListOK, Step, cnt'.cerr = 0
    PROVE  ListOK'
<1> USE DEF segVars, engVars
<1>t. /\ list \in Seq(Nat) /\ active \in Segs /\ active \in Nat /\ wk \in WorkerStates /\ FilesOK
      /\ wk.sel \in Seq(Nat) /\ wk.left \in Seq(Nat) /\ wk.new \in Nat
  BY FileTypes DEF TypeOK, WorkerStates
<1>l. /\ Injective(list) /\ Injective(wk.sel) /\ Injective(wk.left)
      /\ active \in Range(list) \cup Range(wk.sel) => Rotating
      /\ Rotating => list # <<>>
      /\ wk.pc = "remove" => Range(wk.left) \cap Range(list) = {}
  BY DEF ListOK
<1>w. Range(wk.left) \subseteq Range(wk.sel) /\ Range(wk.sel) \subseteq Segs /\ Range(list) \subseteq Segs
  BY DEF WorkerOK, SegsOK
<1>1. CASE UNCHANGED <<active, list, wr, wk>>
  BY <1>1 DEF ListOK, Rotating
<1>2. ASSUME NEW c \in Writers, Put(c) PROVE ListOK'
  <2>1. /\ wk'.pc = wk.pc /\ wk'.sel = wk.sel /\ wk'.left = wk.left
        /\ \/ list' = list /\ wr'[c].pc # "create"
           \/ wr[c].pc = "rotate" /\ wr'[c].pc = "create" /\ list' = Append(list, active)
        /\ \/ active' = active /\ wr[c].pc # "create"
           \/ active' = Len(file) + 1 /\ wr[c].pc = "create"
    BY <1>2, PutFrame
  <2>2. /\ wr[c].pc = "rotate" => ~Rotating
        /\ wr[c].pc = "create" => Rotating /\ ~Rotating'
        /\ wr'[c].pc = "create" => Rotating'
        /\ wr[c].pc # "create" /\ wr'[c].pc # "create" => (Rotating' <=> Rotating)
    BY <1>2, RotatingStep
  <2> HIDE DEF Rotating
  <2>3. CASE wr[c].pc = "create"
    <3>1. active' \notin Segs /\ list' = list
      BY <1>t, <2>1, <2>3, FileTypes
    <3> QED
      BY <1>l, <1>w, <2>1, <2>2, <2>3, <3>1, Zenon DEF ListOK
  <2>4. CASE wr[c].pc # "create" /\ wr'[c].pc = "create"
    <3>1. active \notin Range(list) /\ active \notin Range(wk.sel) /\ active' = active
      BY <1>l, <2>1, <2>2, <2>4
    <3>2. Injective(list') /\ Range(list') = Range(list) \cup {active}
      <4>1. list' = Append(list, active)
        BY <2>1, <2>4
      <4> QED
        BY <1>t, <1>l, <3>1, <4>1, AppendElements, Zenon
    <3>3. list' # <<>>
      BY <3>2 DEF Range
    <3> QED
      BY <1>l, <1>w, <2>1, <2>2, <2>4, <3>1, <3>2, <3>3 DEF ListOK
  <2>5. CASE wr[c].pc # "create" /\ wr'[c].pc # "create"
    <3>1. list' = list /\ active' = active /\ (Rotating' <=> Rotating)
      BY <2>1, <2>2, <2>5
    <3> QED
      BY <1>l, <2>1, <3>1, Zenon DEF ListOK
  <2> QED
    BY <2>3, <2>4, <2>5
<1>3. CASE compactionWorker
  <2>f. active' = active /\ (Rotating' <=> Rotating)
    BY <1>3, WorkerFrame DEF Rotating
  <2> HIDE DEF Rotating
  <2>i. ASSUME wk'.sel = <<>>, wk'.left = <<>>, wk'.pc # "remove", list' = list PROVE ListOK'
    <3>1. Injective(<<>>) /\ Range(<<>>) = {}
      BY DEF Injective, Range
    <3> QED
      BY <1>l, <2>f, <2>i, <3>1 DEF ListOK
  <2>1. CASE WorkerReceive \/ WorkerStop
    <3>1. wk'.sel = <<>> /\ wk'.left = <<>> /\ wk'.pc # "remove" /\ list' = list
      BY <1>t, <2>1 DEF WorkerReceive, WorkerStop, WorkerStates, WorkerOK, Resting
    <3> QED
      BY <2>i, <3>1
  <2>2. CASE WorkerSelect
    <3> DEFINE sel == SubSeq(list, 1, numToCompact)
    <3>1. CASE wk' = IdleWorker
      BY <2>i, <2>2, <3>1 DEF WorkerSelect, IdleWorker
    <3>2. CASE wk' # IdleWorker
      <4>1. /\ \E K : wk' = [wk EXCEPT !.pc = "scan", !.sel = sel, !.left = sel, !.calm = K]
            /\ list' = list
        BY <2>2, <3>2, Zenon DEF WorkerSelect
      <4>2. wk'.pc = "scan" /\ wk'.sel = sel /\ wk'.left = sel
        <5> HIDE DEF sel
        <5> QED
          BY <1>t, <4>1 DEF WorkerStates
      <4>3. Injective(sel) /\ Range(sel) \subseteq Range(list)
        BY <1>t, <1>l, SelectType, PrefixElements
      <4> HIDE DEF sel
      <4> QED
        BY <1>l, <2>f, <4>1, <4>2, <4>3 DEF ListOK
    <3> QED
      BY <3>1, <3>2
  <2>3. CASE ScanSegment
    <3>1. /\ wk'.sel = wk.sel /\ list' = list /\ wk.left # <<>> /\ wk'.pc # "remove"
          /\ wk'.left = wk.left \/ wk'.left = Tail(wk.left)
      BY <1>t, <2>3, Zenon DEF ScanSegment, WorkerStates, WorkerOK
    <3>2. Injective(Tail(wk.left))
      BY <1>t, <1>l, <3>1, TailElements
    <3> QED
      BY <1>l, <2>f, <3>1, <3>2 DEF ListOK
  <2>4. CASE \/ CompactCreate \/ CompactWrite \/ CompactSync \/ CompactFails \/ ApplyCollect
             \/ ApplyBatch
    <3>1. wk'.sel = wk.sel /\ list' = list /\ wk'.left = wk.left /\ wk'.pc # "remove"
      BY <1>t, <2>4, Zenon DEF CompactCreate, CompactWrite, CompactSync, CompactFails, ApplyCollect,
                        ApplyBatch, WorkerStates
    <3> QED
      BY <1>l, <2>f, <3>1 DEF ListOK
  <2>5. CASE ApplyList
    <3>1. /\ wk'.sel = wk.sel /\ wk'.left = wk.sel /\ list' = Append(Remaining(list, wk.sel), wk.new)
          /\ wk.new \notin Range(list) /\ wk.new # active /\ wk.new \notin Range(wk.sel)
      BY <1>t, <2>5 DEF ApplyList, WorkerStates, WorkerOK, Created
    <3>2. /\ Remaining(list, wk.sel) \in Seq(Nat) /\ Injective(Remaining(list, wk.sel))
          /\ Range(Remaining(list, wk.sel)) = Range(list) \ Range(wk.sel)
      BY <1>t, <1>l, RemainingExact
    <3>3. /\ Injective(list') /\ Range(list') = (Range(list) \ Range(wk.sel)) \cup {wk.new}
          /\ list' # <<>>
      BY <1>t, <3>1, <3>2, AppendElements, Zenon
    <3> QED
      BY <1>l, <2>f, <3>1, <3>3 DEF ListOK
  <2>6. CASE ApplyRemove
    <3>1. /\ wk'.sel = wk.sel /\ list' = list /\ wk.left # <<>> /\ wk.pc = "remove"
          /\ wk'.left = Tail(wk.left)
      BY <1>t, <2>6 DEF ApplyRemove, WorkerStates, WorkerOK
    <3>2. Injective(Tail(wk.left)) /\ Range(Tail(wk.left)) \subseteq Range(wk.left)
      BY <1>t, <1>l, <3>1, TailElements
    <3> QED
      BY <1>l, <2>f, <3>1, <3>2 DEF ListOK
  <2>7. CASE WorkerRelease
    BY <2>i, <2>7 DEF WorkerRelease, IdleWorker
  <2> QED
    BY <1>3, <2>1, <2>2, <2>3, <2>4, <2>5, <2>6, <2>7
    DEF compactionWorker, compactSegments, applyCompaction
<1> QED
  BY <1>1, <1>2, <1>3, CallFrame, HandleFrame DEF Step

\* How the segments the engine answers for change: a new one joins them, the removal
\* of a compacted one takes it out, and no other step changes them.
SameOwned == /\ Segs' = Segs /\ disk' = disk
             /\ \/ refs' = refs /\ wk'.sel = wk.sel
                \/ WorkerSelect \/ WorkerRelease
                \/ cl' \notin {"open", "wait"}
             /\ \A s \in Segs : Owned(s)' <=> Owned(s)
MoreOwned == /\ createSegment /\ wk'.sel = wk.sel /\ \A n : n = Len(file) + 1 => Owned(n)'
             /\ \A s \in Segs : Owned(s)' <=> Owned(s)
LessOwned == /\ Segs' = Segs /\ wk'.sel = wk.sel /\ ApplyRemove /\ Owned(Head(wk.left)) /\ Head(wk.left) \in Segs
             /\ \A s \in Segs : Owned(s)' <=> Owned(s) /\ s # Head(wk.left)

\* Every step without a failure is one of the three.
LEMMA StepOwned ==
    ASSUME TypeOK, SegsOK, MuExact, WorkerOK, ListOK, Step, cnt'.cerr = 0
    PROVE  SameOwned \/ MoreOwned \/ LessOwned
<1> USE DEF segVars, engVars
<1> DEFINE Own(s, rot, act, lst, new, pc, left) ==
             \/ s = act /\ ~rot
             \/ s \in lst
             \/ s = new /\ pc \in Created
             \/ s \in left /\ pc = "remove"
<1>o. \A s : Owned(s) <=> Own(s, Rotating, active, Range(list), wk.new, wk.pc, Range(wk.left))
  BY DEF Owned, Rotating, Created
<1>p. \A s : Owned(s)' <=> Own(s, Rotating', active', Range(list'), wk'.new, wk'.pc, Range(wk'.left))
  BY DEF Owned, Rotating, Created
<1>t. /\ list \in Seq(Nat) /\ active \in Segs /\ wk \in WorkerStates /\ FilesOK
      /\ wk.sel \in Seq(Nat) /\ wk.left \in Seq(Nat) /\ wk.new \in Nat /\ Len(file) + 1 \notin Segs
  BY FileTypes DEF TypeOK, WorkerStates
<1>l. /\ active \in Range(list) \cup Range(wk.sel) => Rotating
      /\ wk.pc = "remove" => Range(wk.left) \cap Range(list) = {}
      /\ Injective(wk.left)
  BY DEF ListOK
<1>w. Range(wk.left) \subseteq Range(wk.sel) /\ Range(wk.sel) \subseteq Segs /\ Range(list) \subseteq Segs
  BY DEF WorkerOK, SegsOK
<1>1. ASSUME Segs' = Segs, UNCHANGED <<active, list, disk>>, Rotating' <=> Rotating,
             WorkerSelect \/ WorkerRelease \/ (refs' = refs /\ wk'.sel = wk.sel),
             wk'.pc # "remove", wk.pc # "remove",
             wk'.new = wk.new \/ wk.pc \notin Created, wk'.pc \in Created <=> wk.pc \in Created
      PROVE  SameOwned
  BY <1>o, <1>p, <1>1 DEF SameOwned
<1>2. ASSUME NEW c \in Writers, Put(c) PROVE SameOwned \/ MoreOwned
  <2>1. /\ wk'.pc = wk.pc /\ wk'.left = wk.left /\ wk'.new = wk.new /\ wk'.sel = wk.sel
        /\ \/ list' = list /\ wr'[c].pc # "create"
           \/ wr[c].pc = "rotate" /\ wr'[c].pc = "create" /\ list' = Append(list, active)
        /\ \/ UNCHANGED <<active, disk, refs>> /\ Segs' = Segs /\ wr[c].pc # "create"
           \/ createSegment /\ active' = Len(file) + 1 /\ wr[c].pc = "create"
    BY <1>2, PutFrame
  <2>2. /\ wr[c].pc = "rotate" => ~Rotating
        /\ wr[c].pc = "create" => Rotating /\ ~Rotating'
        /\ wr'[c].pc = "create" => Rotating'
        /\ wr[c].pc # "create" /\ wr'[c].pc # "create" => (Rotating' <=> Rotating)
    BY <1>2, RotatingStep
  <2>3. Range(Append(list, active)) = Range(list) \cup {active}
    BY <1>t, AppendElements
  <2>4. CASE wr[c].pc = "create"
    BY <1>o, <1>p, <1>t, <2>1, <2>2, <2>4 DEF MoreOwned
  <2>5. CASE wr'[c].pc = "create"
    <3>1. Range(list') = Range(list) \cup {active}
      BY <2>1, <2>3, <2>5, Zenon
    <3> QED
      BY <1>o, <1>p, <2>1, <2>2, <2>5, <3>1 DEF SameOwned
  <2>6. CASE wr[c].pc # "create" /\ wr'[c].pc # "create"
    BY <1>o, <1>p, <2>1, <2>2, <2>6 DEF SameOwned
  <2> QED
    BY <2>4, <2>5, <2>6
<1>3. ASSUME CallStep \/ HandleStep PROVE SameOwned
  <2>1. refs' = refs \/ cl' \notin {"open", "wait"}
    BY <1>3, CallFrame DEF HandleStep, CloseHandle, Close, CloseBegin, CloseActive, CloseList
  <2> QED
    BY <1>o, <1>p, <1>3, <2>1, CallFrame, HandleFrame DEF SameOwned, Rotating, Segs
<1>4. CASE compactionWorker
  <2>f. active' = active /\ (Rotating' <=> Rotating)
    BY <1>4, WorkerFrame, Zenon DEF Rotating
  <2>1. CASE WorkerReceive \/ WorkerStop \/ ScanSegment \/ CompactWrite \/ CompactSync
             \/ ApplyCollect \/ ApplyBatch
    <3>1. /\ Segs' = Segs /\ UNCHANGED <<list, disk, refs>> /\ wk'.sel = wk.sel
          /\ wk.pc # "remove" /\ wk'.pc # "remove"
          /\ wk'.new = wk.new
          /\ wk'.pc \in Created <=> wk.pc \in Created
      <4>1. Segs' = Segs
        BY <2>1, Zenon DEF WorkerReceive, WorkerStop, ScanSegment, CompactWrite, CompactSync,
                    ApplyCollect, ApplyBatch, Segs
      <4> QED
        BY <1>t, <2>1, <4>1, ZenonT(30)
        DEF WorkerReceive, WorkerStop, ScanSegment, CompactWrite, CompactSync,
                    ApplyCollect, ApplyBatch, WorkerStates, Created
    <3> QED
      BY <1>1, <2>f, <3>1, Zenon
  <2>2. CASE WorkerSelect
    <3>1. wk'.pc \in {"wait", "scan"}
      <4>1. CASE wk' = IdleWorker
        BY <4>1 DEF IdleWorker
      <4>2. CASE wk' # IdleWorker
        <5>1. \E a, K : wk' = [wk EXCEPT !.pc = "scan", !.sel = a, !.left = a, !.calm = K]
          BY <2>2, <4>2, Zenon DEF WorkerSelect
        <5> QED
          BY <1>t, <5>1 DEF WorkerStates
      <4> QED
        BY <4>1, <4>2
    <3> QED
      BY <1>1, <2>f, <2>2, <3>1, Zenon DEF WorkerSelect, Segs, Created
  <2>3. CASE CompactCreate
    <3>1. list' = list /\ wk.pc = "create" /\ wk'.left = wk.left /\ wk'.sel = wk.sel
      BY <1>t, <2>3, Zenon DEF CompactCreate, WorkerStates
    <3>2. CASE createSegment /\ wk'.new = Len(file) + 1 /\ wk'.pc = "write"
      BY <1>o, <1>p, <1>t, <2>f, <3>1, <3>2 DEF MoreOwned, Created
    <3>3. CASE Segs' = Segs /\ wk'.pc = "release" /\ UNCHANGED <<disk, refs>>
      BY <1>1, <2>f, <3>1, <3>3 DEF Created
    <3> QED
      BY <1>t, <2>3, <3>2, <3>3, Zenon DEF CompactCreate, WorkerStates, Segs
  <2>4. CASE CompactFails
    BY <2>4 DEF CompactFails, TypeOK, Counts
  <2>5. CASE ApplyList
    <3>1. /\ wk.pc = "list" /\ wk'.pc = "remove" /\ wk'.left = wk.sel /\ wk'.new = wk.new
          /\ list' = Append(Remaining(list, wk.sel), wk.new) /\ Segs' = Segs
          /\ UNCHANGED <<disk, refs>> /\ wk'.sel = wk.sel
          /\ Range(wk.sel) \subseteq Range(list)
      BY <1>t, <2>5 DEF ApplyList, WorkerStates, WorkerOK, Selected, Segs
    <3>2. /\ Remaining(list, wk.sel) \in Seq(Nat)
          /\ Range(Remaining(list, wk.sel)) = Range(list) \ Range(wk.sel)
      BY <1>t, RemainingExact
    <3>3. Range(list') = (Range(list) \ Range(wk.sel)) \cup {wk.new}
      <4> DEFINE rest == Remaining(list, wk.sel)
      <4>1. rest \in Seq(Nat) /\ Range(rest) = Range(list) \ Range(wk.sel) /\ list' = Append(rest, wk.new)
        BY <3>1, <3>2
      <4> HIDE DEF rest
      <4>2. Range(Append(rest, wk.new)) = Range(rest) \cup {wk.new}
        BY <4>1, AppendElements
      <4> QED
        BY <4>1, <4>2, Zenon
    <3> QED
      BY <1>o, <1>p, <2>f, <3>1, <3>3 DEF SameOwned, Created
  <2>6. CASE ApplyRemove
    <3>1. /\ wk.pc = "remove" /\ wk.left # <<>> /\ wk'.left = Tail(wk.left) /\ list' = list
          /\ Segs' = Segs /\ wk'.sel = wk.sel /\ wk'.pc = IF Len(wk.left) = 1 THEN "release" ELSE "remove"
      BY <1>t, <2>6 DEF ApplyRemove, WorkerStates, WorkerOK, Segs
    <3>2. /\ Range(wk.left) = {Head(wk.left)} \cup Range(Tail(wk.left))
          /\ Head(wk.left) \notin Range(Tail(wk.left))
          /\ Len(wk.left) = 1 => Range(Tail(wk.left)) = {}
      <4>1. Len(Tail(wk.left)) = Len(wk.left) - 1 /\ Tail(wk.left) \in Seq(Nat)
        BY <1>t, <3>1, TailElements
      <4>2. Len(wk.left) = 1 => Range(Tail(wk.left)) = {}
        BY <4>1 DEF Range
      <4> QED
        BY <1>t, <1>l, <3>1, <4>2, TailElements
    <3> QED
      BY <1>o, <1>p, <1>l, <1>w, <2>f, <2>6, <3>1, <3>2, Zenon DEF LessOwned, Created
  <2>7. CASE WorkerRelease
    <3>1. wk.pc = "release" /\ wk'.pc = "wait" /\ list' = list /\ Segs' = Segs /\ disk' = disk
      BY <2>7, Zenon DEF WorkerRelease, IdleWorker, Segs
    <3> QED
      BY <1>1, <2>f, <2>7, <3>1 DEF Created
  <2> QED
    BY <1>4, <2>1, <2>2, <2>3, <2>4, <2>5, <2>6, <2>7
    DEF compactionWorker, compactSegments, applyCompaction
<1> QED
  BY <1>2, <1>3, <1>4 DEF Step

\* The directory follows the segments the engine answers for, ...
LEMMA StepDiskExact ==
    ASSUME TypeOK, SegsOK, MuExact, WorkerOK, cnt.cerr = 0 => ListOK, DiskExact, Step
    PROVE  DiskExact'
<1> SUFFICES ASSUME cnt'.cerr = 0 PROVE disk' = {s \in Segs' : Owned(s)'}
  BY DEF DiskExact
<1>1. ListOK /\ disk = {s \in Segs : Owned(s)} /\ FilesOK
  BY NoError DEF DiskExact, TypeOK
<1>2. CASE SameOwned
  BY <1>1, <1>2 DEF SameOwned
<1>3. CASE MoreOwned
  <2>1. PICK n : n = Len(file) + 1 /\ Owned(n)'
    BY <1>3 DEF MoreOwned
  <2>2. Segs' = Segs \cup {n} /\ disk' = disk \cup {n}
    BY <1>1, <1>3, <2>1, CreateType DEF MoreOwned, createSegment
  <2>3. \A s \in Segs : Owned(s)' <=> Owned(s)
    BY <1>3 DEF MoreOwned
  <2> QED
    BY <1>1, <2>1, <2>2, <2>3
<1>4. CASE LessOwned
  BY <1>1, <1>4 DEF LessOwned, ApplyRemove
<1> QED
  BY <1>1, <1>2, <1>3, <1>4, StepOwned

\* ... and so do the references, to which a compaction adds one for each segment it
\* has selected.
LEMMA StepRefsExact ==
    ASSUME TypeOK, SegsOK, MuExact, WorkerOK, cnt.cerr = 0 => ListOK, OpenHeld, RefsExact, Step
    PROVE  RefsExact'
<1> USE DEF segVars, engVars
<1> SUFFICES ASSUME cl' \in {"open", "wait"}, cnt'.cerr = 0, NEW s \in Segs'
             PROVE  refs'[s] = One(Owned(s)') + One(s \in Range(wk'.sel))
  BY Zenon DEF RefsExact
<1>c. cl \in {"open", "wait"}
  BY CallFrame, WorkerFrame, PutFrame, Zenon DEF Step, HandleStep, CloseHandle, Close, CloseBegin,
     CloseActive, CloseList
<1>f. FilesOK /\ list \in Seq(Nat) /\ wk \in WorkerStates /\ wk.sel \in Seq(Nat)
  BY Zenon DEF TypeOK, WorkerStates
<1>t. /\ FilesOK /\ list \in Seq(Nat) /\ wk \in WorkerStates /\ wk.sel \in Seq(Nat)
      /\ Segs = 1..Len(file) /\ Len(file) \in Nat /\ refs \in [Segs -> Int]
  BY <1>f, FileTypes DEF FilesOK
<1>1. ListOK /\ \A x \in Segs : refs[x] = One(Owned(x)) + One(x \in Range(wk.sel))
  BY <1>c, NoError DEF RefsExact
<1>2. CASE MoreOwned
  <2>1. PICK n : n = Len(file) + 1 /\ Owned(n)'
    BY <1>2 DEF MoreOwned
  <2>2. /\ Segs' = Segs \cup {n} /\ refs'[n] = 1 /\ \A x \in Segs : refs'[x] = refs[x]
    BY <1>t, <1>2, <2>1, CreateType DEF MoreOwned, createSegment, FilesOK
  <2>3. wk'.sel = wk.sel /\ \A x \in Segs : Owned(x)' <=> Owned(x)
    BY <1>2 DEF MoreOwned
  <2>4. n \notin Range(wk.sel)
    BY <1>t, <2>1 DEF WorkerOK
  <2> QED
    BY <1>1, <2>1, <2>2, <2>3, <2>4 DEF One
<1>3. CASE LessOwned
  <2> DEFINE h == Head(wk.left)
  <2>1. /\ refs' = [refs EXCEPT ![h] = @ - 1] /\ h \in Segs /\ Owned(h) /\ Segs' = Segs
        /\ wk'.sel = wk.sel /\ (Owned(s)' <=> Owned(s) /\ s # h)
    BY <1>3 DEF LessOwned, ApplyRemove
  <2> HIDE DEF h
  <2> QED
    BY <1>1, <1>t, <2>1 DEF One
<1>4. CASE SameOwned
  <2>1. Segs' = Segs /\ (Owned(s)' <=> Owned(s)) /\ refs[s] = One(Owned(s)) + One(s \in Range(wk.sel))
    BY <1>1, <1>4, Zenon DEF SameOwned
  <2>2. CASE refs' = refs /\ wk'.sel = wk.sel
    BY <2>1, <2>2 DEF One
  <2>3. CASE WorkerRelease
    <3>1. wk'.sel = <<>> /\ Range(<<>>) = {}
      BY <2>3 DEF WorkerRelease, IdleWorker, Range
    <3>2. refs'[s] = IF s \in Range(wk.sel) THEN refs[s] - 1 ELSE refs[s]
      BY <2>1, <2>3 DEF WorkerRelease
    <3> QED
      BY <2>1, <3>1, <3>2 DEF One
  <2>4. CASE WorkerSelect
    <3> DEFINE sel == SubSeq(list, 1, numToCompact)
               got == {i \in 1..numToCompact : \A j \in 1..i : list[j] \in open}
               held == {list[i] : i \in got}
    <3>1. Range(wk.sel) = {}
      BY <2>4 DEF WorkerSelect, WorkerOK, Resting, Range
    <3>2. numToCompact \in 0..Len(list) /\ Len(list) \in Nat
      BY <1>t, SelectType
    <3>3. got = 1..numToCompact
      <4>1. ASSUME NEW j \in 1..Len(list) PROVE list[j] \in open
        <5>1. list[j] \in Range(list) /\ list[j] \in Segs
          BY <1>t DEF Range, SegsOK
        <5>2. refs[list[j]] = 1 + One(list[j] \in Range(wk.sel))
          BY <1>1, <5>1 DEF Owned, One
        <5> QED
          BY <5>1, <5>2 DEF OpenHeld, One
      <4> QED
        BY <3>2, <4>1
    <3>4. Range(sel) = held
      <4>1. sel \in Seq(Nat) /\ Len(sel) = numToCompact /\ \A i \in 1..numToCompact : sel[i] = list[i]
        BY <1>t, SelectType, Zenon
      <4> HIDE DEF sel
      <4> QED
        BY <3>3, <4>1 DEF Range
    <3>5. CASE Len(list) < 2
      <4>1. refs' = refs /\ wk' = IdleWorker
        BY <1>t, <2>4, <3>2, <3>5 DEF WorkerSelect
      <4>2. Range(wk'.sel) = {}
        BY <4>1 DEF IdleWorker, Range
      <4> QED
        BY <2>1, <3>1, <4>1, <4>2 DEF One
    <3>6. CASE ~(Len(list) < 2)
      <4>1. /\ refs' = [x \in Segs |-> IF x \in held THEN refs[x] + 1 ELSE refs[x]]
            /\ \E K : wk' = [wk EXCEPT !.pc = "scan", !.sel = sel, !.left = sel, !.calm = K]
        <5> HIDE DEF held, sel
        <5> QED
          BY <2>4, <3>3, <3>6, Zenon DEF WorkerSelect, held, sel
      <4>2. wk'.sel = sel
        <5> HIDE DEF sel, held
        <5> QED
          BY <1>t, <4>1 DEF WorkerStates
      <4> HIDE DEF sel, held
      <4> QED
        BY <2>1, <3>1, <3>4, <4>1, <4>2 DEF One
    <3> QED
      BY <3>5, <3>6
  <2> QED
    BY <1>4, <2>2, <2>3, <2>4, Zenon DEF SameOwned
<1> QED
  BY <1>1, <1>2, <1>3, <1>4, StepOwned, Zenon

\* The worker at rest has selected nothing.
LEMMA IdleWorkerFields ==
    IdleWorker.pc = "wait" /\ IdleWorker.sel = <<>> /\ IdleWorker.left = <<>>
BY DEF IdleWorker

\* The sequence without elements.
LEMMA EmptySequence == Range(<<>>) = {} /\ Injective(<<>>)
BY DEF Range, Injective

\* recover: what is on disk is active or listed, has one reference and is open.
LEMMA RecoverSegmentInv ==
    ASSUME TypeOK, disk # {}, cnt' \in Counts, NEW files \in Seq(Seq(Records)),
           Len(files) = Len(file), recover(files)
    PROVE  SegmentInv'
<1>1. IndexInv'
  BY RecoverIndexInv
<1>2. /\ Segs' = Segs /\ Max(disk) \in disk
      /\ Injective(list') /\ Range(list') = disk \ {Max(disk)}
  BY RecoverType
<1>3. PICK m : m = Max(disk)
  OBVIOUS
<1>4. /\ m \in disk /\ Injective(list') /\ Range(list') = disk \ {m} /\ disk \subseteq Segs
      /\ active' = m /\ open' = disk /\ disk' = disk /\ cl' = "open" /\ closed' = FALSE
      /\ refs' = [s \in Segs |-> IF s \in disk THEN 1 ELSE 0]
      /\ wk' = IdleWorker /\ \A c \in Writers : wr'[c].pc = "idle"
  BY <1>2, <1>3, Zenon DEF recover, IdleWriter, TypeOK, FilesOK
<1>5. /\ wk'.pc = "wait" /\ wk'.sel = <<>> /\ wk'.left = <<>>
      /\ Range(<<>>) = {} /\ Injective(<<>>)
  BY <1>4, IdleWorkerFields, EmptySequence
<1>6. \A s : Owned(s)' <=> s \in disk
  BY <1>4, <1>5, Zenon DEF Owned
<1>7. CloseOK' /\ OpenHeld'
  BY <1>2, <1>4 DEF CloseOK, OpenHeld
<1>8. DiskExact' /\ RefsExact'
  <2>1. DiskExact'
    BY <1>2, <1>4, <1>6 DEF DiskExact
  <2>2. RefsExact'
    BY <1>2, <1>4, <1>5, <1>6 DEF RefsExact, One
  <2> QED
    BY <2>1, <2>2
<1>9. ListOK'
  BY <1>4, <1>5 DEF ListOK, Rotating
<1> QED
  BY <1>1, <1>7, <1>8, <1>9 DEF SegmentInv

\* The inductive invariant behind DiskExact and RefsExact.
LEMMA SegmentInvStep == SegmentInv /\ [Next]_vars => SegmentInv'
<1> SUFFICES ASSUME SegmentInv, [Next]_vars PROVE SegmentInv'
  OBVIOUS
<1>1. /\ IndexInv /\ TypeOK /\ SegsOK /\ MuExact /\ WorkerOK /\ disk # {}
      /\ CloseOK /\ OpenHeld /\ DiskExact /\ RefsExact /\ (cnt.cerr = 0 => ListOK)
  BY Zenon DEF SegmentInv, IndexInv, WorkerOK
<1>2. CASE Step
  <2>1. IndexInv'
    BY <1>1, IndexInvStep
  <2>2. CloseOK' /\ OpenHeld'
    BY <1>1, <1>2, StepCloseOK, StepOpenHeld
  <2>3. DiskExact'
    BY <1>1, <1>2, StepDiskExact
  <2>4. RefsExact'
    BY <1>1, <1>2, StepRefsExact
  <2>5. cnt'.cerr = 0 => ListOK'
    BY <1>1, <1>2, StepListOK, NoError
  <2> QED
    BY <2>1, <2>2, <2>3, <2>4, <2>5 DEF SegmentInv
<1>3. CASE Crash
  <2>1. cnt' \in Counts
    BY <1>1, <1>3, CrashFiles, Zenon
  <2>2. PICK files \in Seq(Seq(Records)) : Len(files) = Len(file) /\ recover(files)
    BY <1>1, <1>3, CrashFiles
  <2> QED
    BY <1>1, <2>1, <2>2, RecoverSegmentInv
<1>4. CASE Restart
  <2>1. cnt' \in Counts /\ file \in Seq(Seq(Records)) /\ recover(file)
    BY <1>1, <1>4 DEF Restart, TypeOK, FilesOK
  <2> QED
    BY <1>1, <2>1, RecoverSegmentInv
<1> QED
  BY <1>2, <1>3, <1>4, NextSteps

\* The new, empty engine.
LEMMA InitSegmentInv == Init => SegmentInv
<1> SUFFICES ASSUME Init PROVE SegmentInv
  OBVIOUS
<1>1. IndexInv
  BY InitIndexInv
<1>2. /\ Segs = {1} /\ open = {1} /\ disk = {1} /\ refs = <<1>> /\ active = 1 /\ list = <<>>
      /\ cl = "open" /\ closed = FALSE /\ Range(<<>>) = {} /\ Injective(<<>>)
      /\ wk.pc = "wait" /\ wk.sel = <<>> /\ wk.left = <<>>
      /\ \A c \in Writers : wr[c].pc = "idle"
  <2>1. Segs = {1} /\ refs = <<1>>
    BY DEF Init, Segs
  <2>2. IdleWriter.pc = "idle"
    BY DEF IdleWriter
  <2> QED
    BY <2>1, <2>2, IdleWorkerFields, EmptySequence, Zenon DEF Init
<1>3. \A s : Owned(s) <=> s = 1
  BY <1>2 DEF Owned
<1>4. ListOK /\ CloseOK /\ OpenHeld
  BY <1>2, Zenon DEF ListOK, Rotating, CloseOK, OpenHeld
<1>5. DiskExact /\ RefsExact
  BY <1>2, <1>3 DEF DiskExact, RefsExact, One
<1> QED
  BY <1>1, <1>4, <1>5 DEF SegmentInv

\* The segments, their references and files in every reachable state.
LEMMA SegmentInvariant == Spec => []SegmentInv
BY InitSegmentInv, SegmentInvStep, PTL DEF Spec

\* The data directory holds the files of exactly the segments the engine answers
\* for: rotation, compaction and recovery neither orphan a file nor remove one that
\* is listed, as long as no file operation fails.
THEOREM DirectoryExact == Spec => []DiskExact
<1>1. SegmentInv => DiskExact
  BY DEF SegmentInv
<1> QED
  BY <1>1, SegmentInvariant, PTL

\* Until Close gives them up, a segment has one reference of the engine and one of
\* the compaction that has selected it: a compaction leaves no reference behind and
\* gives up none that another needs.
THEOREM ReferencesExact == Spec => []RefsExact
<1>1. SegmentInv => RefsExact
  BY DEF SegmentInv
<1> QED
  BY <1>1, SegmentInvariant, PTL

----------------------------------------------------------------------------
\* The value a Get finds at an entry.
At(e) == Visible(file[e.seg][e.off])
Indexed(k) == cur[k] = IF idx[k] = NoEntry THEN 0 ELSE At(idx[k])

\* As long as no compaction has begun no segment leaves the engine.
NothingGone ==
    /\ wk.pc \in Resting /\ disk = Segs
    /\ Segs = Range(list) \cup {active}
    /\ Rotating => active \in Range(list)
    /\ cl \in {"open", "wait"} => \A s \in Segs : refs[s] > 0

\* What a Get has taken from the index stays where it is, active or listed.
ReaderOK(r) ==
    IF rd[r].pc = "idle" THEN ~closed => rd[r].got \in rd[r].win
    ELSE /\ At(rd[r].ent) \in rd[r].win
         /\ rd[r].pc = "list" => rd[r].ent.seg \in Range(list)

ReadInv == cnt.runs = 0 => /\ NothingGone
                           /\ \A k \in Keys : Indexed(k)
                           /\ \A r \in Readers : ReaderOK(r)

----------------------------------------------------------------------------
\* Compactions are counted, and a worker that begins none leaves the segments alone.
LEMMA NoRun ==
    ASSUME TypeOK, Step, cnt'.runs = 0
    PROVE  /\ cnt.runs = 0
           /\ compactionWorker /\ wk.pc \in Resting =>
                 /\ UNCHANGED <<file, open, disk, idx, list>> /\ wk'.pc \in Resting
                 /\ \A s \in Segs : refs'[s] = refs[s] \/ refs'[s] = refs[s] + 1
<1> USE DEF segVars, engVars
<1>c. cnt \in Counts /\ wk \in WorkerStates
  BY DEF TypeOK
<1>1. CASE compactionWorker
  <2>1. \/ cnt' = cnt \/ cnt' = [cnt EXCEPT !.runs = @ + 1] \/ cnt' = [cnt EXCEPT !.cerr = @ + 1]
    BY <1>1, Zenon
    DEF compactionWorker, WorkerReceive, WorkerStop, WorkerSelect, WorkerRelease,
        compactSegments, ScanSegment, CompactCreate, CompactWrite, CompactSync, CompactFails,
        applyCompaction, ApplyCollect, ApplyBatch, ApplyList, ApplyRemove
  <2>2. cnt.runs = 0 /\ cnt' # [cnt EXCEPT !.runs = @ + 1]
    BY <1>c, <2>1 DEF Counts
  <2>3. ASSUME wk.pc \in Resting
        PROVE  /\ UNCHANGED <<file, open, disk, idx, list>> /\ wk'.pc \in Resting
               /\ \A s \in Segs : refs'[s] = refs[s] \/ refs'[s] = refs[s] + 1
    <3>1. WorkerReceive \/ WorkerStop \/ WorkerSelect
      BY <1>1, <2>3, Zenon
      DEF Resting, compactionWorker, WorkerReceive, WorkerStop, WorkerSelect, WorkerRelease,
          compactSegments, ScanSegment, CompactCreate, CompactWrite, CompactSync, CompactFails,
          applyCompaction, ApplyCollect, ApplyBatch, ApplyList, ApplyRemove
    <3>2. CASE WorkerReceive \/ WorkerStop
      BY <1>c, <3>2 DEF WorkerReceive, WorkerStop, WorkerStates, Resting
    <3>3. CASE WorkerSelect
      <4>1. UNCHANGED <<file, open, disk, idx, list>> /\ wk' = IdleWorker
        BY <2>2, <3>3, Zenon DEF WorkerSelect
      <4>2. \/ refs' = refs
            \/ \E held : refs' = [s \in Segs |-> IF s \in held THEN refs[s] + 1 ELSE refs[s]]
        BY <3>3, Zenon DEF WorkerSelect
      <4>3. wk'.pc \in Resting
        BY <4>1 DEF IdleWorker, Resting
      <4> QED
        BY <4>1, <4>2, <4>3
    <3> QED
      BY <3>1, <3>2, <3>3
  <2> QED
    BY <2>2, <2>3
<1>2. CASE ~compactionWorker
  BY <1>2, PutFrame, CallFrame, HandleFrame, Zenon DEF Step
<1> QED
  BY <1>1, <1>2

\* Rotation lists the old segment before it replaces the active one, and nobody gives
\* up a reference.
LEMMA StepNothingGone ==
    ASSUME IndexInv, CloseOK, NothingGone, Step, cnt'.runs = 0
    PROVE  NothingGone'
<1> USE DEF segVars, engVars
<1>t. /\ TypeOK /\ MuExact /\ FilesOK /\ list \in Seq(Nat) /\ active \in Nat
      /\ Segs = 1..Len(file) /\ Len(file) \in Nat /\ \A s \in Segs : refs[s] \in Int
  BY FileTypes DEF IndexInv, TypeOK
<1>n. /\ wk.pc \in Resting /\ disk = Segs /\ Segs = Range(list) \cup {active}
      /\ Rotating => active \in Range(list)
      /\ cl \in {"open", "wait"} => \A s \in Segs : refs[s] > 0
  BY DEF NothingGone
<1>1. ASSUME NEW c \in Writers, Put(c) PROVE NothingGone'
  <2>1. /\ wk'.pc = wk.pc /\ cl' = cl
        /\ \/ list' = list /\ wr'[c].pc # "create"
           \/ wr[c].pc = "rotate" /\ wr'[c].pc = "create" /\ list' = Append(list, active)
        /\ \/ UNCHANGED <<active, disk, refs, open>> /\ Segs' = Segs
           \/ createSegment /\ active' = Len(file) + 1 /\ wr[c].pc = "create"
    BY <1>t, <1>1, PutFrame, Zenon
  <2>2. /\ wr[c].pc = "rotate" => ~Rotating
        /\ wr[c].pc = "create" => Rotating /\ ~Rotating'
        /\ wr'[c].pc = "create" => Rotating'
        /\ wr[c].pc # "create" /\ wr'[c].pc # "create" => (Rotating' <=> Rotating)
    BY <1>t, <1>1, RotatingStep, Zenon
  <2> HIDE DEF Rotating
  <2>3. Range(Append(list, active)) = Range(list) \cup {active}
    BY <1>t, AppendElements
  <2>4. CASE createSegment /\ active' = Len(file) + 1 /\ wr[c].pc = "create"
    <3>1. /\ Segs' = Segs \cup {Len(file) + 1} /\ disk' = disk \cup {Len(file) + 1}
          /\ \A s \in Segs : refs'[s] = refs[s]
          /\ refs'[Len(file) + 1] = 1
      BY <1>t, <2>4, CreateType DEF createSegment, FilesOK
    <3>2. list' = list /\ ~Rotating' /\ active \in Range(list)
      BY <1>n, <2>1, <2>2, <2>4, Zenon
    <3>3. Segs' = Range(list') \cup {active'} /\ disk' = Segs'
      BY <1>n, <2>4, <3>1, <3>2
    <3>4. cl' \in {"open", "wait"} => \A s \in Segs' : refs'[s] > 0
      BY <1>n, <2>1, <3>1
    <3> QED
      BY <1>n, <2>1, <3>2, <3>3, <3>4, Zenon DEF NothingGone
  <2>5. CASE UNCHANGED <<active, disk, refs, open>> /\ Segs' = Segs
    <3>1. cl' \in {"open", "wait"} => \A s \in Segs' : refs'[s] > 0
      BY <1>n, <2>1, <2>5, Zenon
    <3>2. CASE list' = list /\ wr'[c].pc # "create"
      <4>1. Rotating' => Rotating
        BY <2>2, <3>2, Zenon
      <4> QED
        BY <1>n, <2>1, <2>5, <3>1, <3>2, <4>1, Zenon DEF NothingGone
    <3>3. CASE list' = Append(list, active)
      <4>1. Range(list') = Range(list) \cup {active}
        BY <2>3, <3>3, Zenon
      <4>2. Segs' = Range(list') \cup {active'} /\ active' \in Range(list')
        BY <1>n, <2>5, <4>1
      <4> QED
        BY <1>n, <2>1, <2>5, <3>1, <4>2, Zenon DEF NothingGone
    <3> QED
      BY <2>1, <3>2, <3>3, Zenon
  <2> QED
    BY <2>1, <2>4, <2>5, Zenon
<1>2. CASE UNCHANGED <<file, refs, disk, active, list, wr, cl, wk>>
  BY <1>n, <1>2, Zenon DEF NothingGone, Segs, Rotating
<1>3. CASE compactionWorker
  <2>1. /\ UNCHANGED <<file, disk, list, active, wr, cl>> /\ wk'.pc \in Resting
        /\ \A s \in Segs : refs'[s] = refs[s] \/ refs'[s] = refs[s] + 1
    BY <1>t, <1>n, <1>3, NoRun, WorkerFrame, Zenon
  <2>2. Segs' = Segs /\ (Rotating' <=> Rotating)
    BY <2>1, Zenon DEF Segs, Rotating
  <2>3. cl' \in {"open", "wait"} => \A s \in Segs' : refs'[s] > 0
    BY <1>t, <1>n, <2>1, <2>2
  <2> QED
    BY <1>n, <2>1, <2>2, <2>3, Zenon DEF NothingGone
<1>4. CASE HandleStep
  <2>1. UNCHANGED <<file, disk, active, list, wr, wk>>
    BY <1>t, <1>4, HandleFrame, Zenon
  <2>2. cl' \in {"open", "wait"} => refs' = refs /\ cl \in {"open", "wait"}
    BY <1>4 DEF HandleStep, CloseHandle, Close, CloseBegin, CloseActive, CloseList
  <2> QED
    BY <1>n, <2>1, <2>2, Zenon DEF NothingGone, Segs, Rotating
<1> QED
  BY <1>t, <1>1, <1>2, <1>3, <1>4, CallFrame, Zenon DEF Step

\* What an entry locates stays as it is.
LEMMA AtStays ==
    ASSUME Grows, NEW k, NEW e, EntryOK(k, e)
    PROVE  Visible(file'[e.seg][e.off]) = At(e)
BY DEF Grows, EntryOK, At

\* An index.Put makes the record visible that the Put has appended.
LEMMA PutIndexEffect ==
    ASSUME IndexInv, NEW c \in Writers, PutIndex(c)
    PROVE  /\ wr[c].key \in Keys /\ file' = file /\ closed' = closed /\ list' = list
           /\ idx'[wr[c].key] # NoEntry /\ cur'[wr[c].key] = Visible(wr[c])
           /\ Visible(file[idx'[wr[c].key].seg][idx'[wr[c].key].off]) = Visible(wr[c])
           /\ \A k \in Keys \ {wr[c].key} : idx'[k] = idx[k] /\ cur'[k] = cur[k]
           /\ rd' = [r \in Readers |->
                       IF rd[r].pc # "idle" /\ rd[r].key = wr[c].key
                       THEN [rd[r] EXCEPT !.win = @ \cup {Visible(wr[c])}]
                       ELSE rd[r]]
<1> USE DEF segVars, engVars
<1>1. wr[c].pc = "index" /\ wr[c].key \in Keys /\ wr[c].seg \in Segs /\ wr[c].seg # 0
  BY FileTypes DEF PutIndex, IndexInv, SegsOK, TypeOK
<1>2. /\ idx' = [idx EXCEPT ![wr[c].key] = [seg |-> wr[c].seg, off |-> wr[c].off]]
      /\ cur' = [cur EXCEPT ![wr[c].key] = Visible(wr[c])]
      /\ file' = file /\ closed' = closed /\ list' = list
      /\ rd' = [r \in Readers |->
                  IF rd[r].pc # "idle" /\ rd[r].key = wr[c].key
                  THEN [rd[r] EXCEPT !.win = @ \cup {Visible(wr[c])}]
                  ELSE rd[r]]
  BY Zenon DEF PutIndex
<1>3. idx \in [Keys -> Entries] /\ cur \in [Keys -> Nat]
  BY DEF IndexInv, TypeOK
<1>4. idx'[wr[c].key] = [seg |-> wr[c].seg, off |-> wr[c].off] /\ cur'[wr[c].key] = Visible(wr[c])
  BY <1>1, <1>2, <1>3, Zenon
<1>5. idx'[wr[c].key].seg = wr[c].seg /\ idx'[wr[c].key].off = wr[c].off /\ idx'[wr[c].key] # NoEntry
  BY <1>1, <1>4 DEF NoEntry
<1>6. file[wr[c].seg][wr[c].off] = [key |-> wr[c].key, num |-> wr[c].num, del |-> wr[c].del]
  BY <1>1 DEF IndexInv, Appended
<1>7. Visible(file[wr[c].seg][wr[c].off]) = Visible(wr[c])
  BY <1>6 DEF Visible
<1>8. \A k \in Keys \ {wr[c].key} : idx'[k] = idx[k] /\ cur'[k] = cur[k]
  BY <1>2, <1>3
<1> QED
  BY <1>1, <1>2, <1>4, <1>5, <1>7, <1>8, Zenon

\* The index agrees with what the Puts have made visible, a compaction apart.
LEMMA StepIndexed ==
    ASSUME IndexInv, NothingGone, \A k \in Keys : Indexed(k), Step, cnt'.runs = 0, NEW k \in Keys
    PROVE  Indexed(k)'
<1> USE DEF segVars, engVars
<1>t. TypeOK /\ WorkerOK /\ (idx[k] = NoEntry \/ EntryOK(k, idx[k])) /\ wk.pc \in Resting
  BY DEF IndexInv, IndexPointsToRecord, NothingGone
<1>g. Grows
  BY <1>t, FilesGrow
<1>1. ASSUME idx'[k] = idx[k], cur'[k] = cur[k] PROVE Indexed(k)'
  <2>1. CASE idx[k] = NoEntry
    BY <1>1, <2>1, Zenon DEF Indexed
  <2>2. CASE idx[k] # NoEntry
    <3>1. Visible(file'[idx[k].seg][idx[k].off]) = At(idx[k])
      BY <1>t, <1>g, <2>2, AtStays, Zenon
    <3> QED
      BY <1>1, <2>2, <3>1, Zenon DEF Indexed, At
  <2> QED
    BY <2>1, <2>2
<1>2. ASSUME NEW c \in Writers, Put(c) PROVE Indexed(k)'
  <2>1. CASE PutIndex(c)
    <3>1. CASE k = wr[c].key
      BY <2>1, <3>1, PutIndexEffect, ZenonT(30) DEF Indexed, At
    <3>2. CASE k # wr[c].key
      BY <1>1, <2>1, <3>2, PutIndexEffect, Zenon
    <3> QED
      BY <3>1, <3>2
  <2>2. CASE ~PutIndex(c)
    <3>1. UNCHANGED <<idx, cur>>
      BY <1>2, <2>2, Zenon
      DEF Put, PutBegin, PutAppend, PutSync, PutEnd, PutLock, RotateList, RotateCreate
    <3> QED
      BY <1>1, <3>1, Zenon
  <2> QED
    BY <2>1, <2>2
<1>3. CASE UNCHANGED <<idx, cur>>
  BY <1>1, <1>3, Zenon
<1> QED
  BY <1>t, <1>2, <1>3, CallFrame, HandleFrame, WorkerFrame, NoRun, Zenon DEF Step

\* A Get finds in the file what its entry located when it took it from the index.
LEMMA StepReaders ==
    ASSUME IndexInv, CloseOK, OpenHeld, NothingGone, \A k \in Keys : Indexed(k),
           \A r \in Readers : ReaderOK(r), Step, cnt'.runs = 0, NEW r \in Readers
    PROVE  ReaderOK(r)'
<1> USE DEF segVars, engVars
<1>t. /\ TypeOK /\ WorkerOK /\ rd \in [Readers -> ReaderStates] /\ list \in Seq(Nat)
      /\ active \in Nat /\ wk.pc \in Resting /\ cur \in [Keys -> Nat]
  <2>1. TypeOK /\ WorkerOK /\ wk.pc \in Resting
    BY DEF IndexInv, NothingGone
  <2> QED
    BY <2>1, FileTypes DEF TypeOK
<1>e. rd[r].pc # "idle" => EntryOK(rd[r].key, rd[r].ent)
  BY DEF IndexInv, IndexPointsToRecord
<1>g. Grows
  BY <1>t, FilesGrow
<1>l. Range(list) \subseteq Range(list')
  <2>1. ASSUME NEW c \in Writers, Put(c) PROVE list' = list \/ list' = Append(list, active)
    BY <1>t, <2>1, PutFrame, Zenon
  <2>2. Range(Append(list, active)) = Range(list) \cup {active}
    BY <1>t, AppendElements
  <2>3. list' = list \/ list' = Append(list, active)
    BY <1>t, <2>1, CallFrame, HandleFrame, NoRun, Zenon DEF Step
  <2>4. list' = list => Range(list') = Range(list)
    BY Zenon
  <2>5. list' = Append(list, active) => Range(list') = Range(list) \cup {active}
    BY <2>2, Zenon
  <2> QED
    BY <2>3, <2>4, <2>5
<1>r. ReaderOK(r)
  OBVIOUS
<1>1. ASSUME rd'[r].pc = rd[r].pc, rd'[r].ent = rd[r].ent, rd'[r].got = rd[r].got,
             rd[r].win \subseteq rd'[r].win, ~closed' => ~closed
      PROVE  ReaderOK(r)'
  <2>1. CASE rd[r].pc = "idle"
    BY <1>r, <1>1, <2>1 DEF ReaderOK
  <2>2. CASE rd[r].pc # "idle"
    <3>1. Visible(file'[rd[r].ent.seg][rd[r].ent.off]) = At(rd[r].ent)
      BY <1>e, <1>g, <2>2, AtStays, Zenon
    <3>2. At(rd[r].ent) \in rd[r].win /\ (rd[r].pc = "list" => rd[r].ent.seg \in Range(list))
      BY <1>r, <2>2, Zenon DEF ReaderOK
    <3>3. Visible(file'[rd'[r].ent.seg][rd'[r].ent.off]) \in rd'[r].win
      BY <1>1, <3>1, <3>2, Zenon
    <3> QED
      BY <1>1, <1>l, <2>2, <3>2, <3>3, Zenon DEF ReaderOK, At
  <2> QED
    BY <2>1, <2>2
<1>2. CASE rd' = rd /\ closed' = closed
  BY <1>1, <1>2, Zenon
<1>3. ASSUME NEW c \in Writers, Put(c) PROVE ReaderOK(r)'
  <2>1. CASE PutIndex(c)
    <3>1. /\ closed' = closed
          /\ \/ rd'[r] = rd[r]
             \/ \E v : rd'[r] = [rd[r] EXCEPT !.win = @ \cup {v}]
      <4>1. /\ closed' = closed
            /\ rd' = [q \in Readers |->
                        IF rd[q].pc # "idle" /\ rd[q].key = wr[c].key
                        THEN [rd[q] EXCEPT !.win = @ \cup {Visible(wr[c])}] ELSE rd[q]]
        BY <2>1, PutIndexEffect, Zenon
      <4>2. rd'[r] = IF rd[r].pc # "idle" /\ rd[r].key = wr[c].key
                     THEN [rd[r] EXCEPT !.win = @ \cup {Visible(wr[c])}] ELSE rd[r]
        BY <4>1, Zenon
      <4> QED
        BY <4>1, <4>2, Zenon
    <3>2. rd[r] \in ReaderStates
      BY <1>t
    <3>3. /\ rd'[r].pc = rd[r].pc /\ rd'[r].ent = rd[r].ent /\ rd'[r].got = rd[r].got
          /\ rd[r].win \subseteq rd'[r].win
      <4>1. CASE rd'[r] = rd[r]
        BY <4>1
      <4>2. CASE rd'[r] # rd[r]
        <5>1. PICK v : rd'[r] = [rd[r] EXCEPT !.win = @ \cup {v}]
          BY <3>1, <4>2, Zenon
        <5> QED
          BY <3>2, <5>1 DEF ReaderStates
      <4> QED
        BY <4>1, <4>2
    <3> QED
      BY <1>1, <3>1, <3>3, Zenon
  <2>2. CASE ~PutIndex(c)
    BY <1>2, <1>3, <2>2, Zenon
    DEF Put, PutBegin, PutAppend, PutSync, PutEnd, PutLock, RotateList, RotateCreate
  <2> QED
    BY <2>1, <2>2
<1>4. ASSUME NEW q \in Readers, Get(q) PROVE ReaderOK(r)'
  <2>1. closed' = closed /\ file' = file /\ list' = list
    BY <1>4, Zenon DEF Get, GetBegin, GetActive, GetList, GetRead
  <2>7. ASSUME rd[r].pc # "idle", rd'[r].ent = rd[r].ent, rd'[r].win = rd[r].win,
               rd'[r].pc # "idle", rd'[r].pc = "list" => rd[r].ent.seg \in Range(list)
        PROVE  ReaderOK(r)'
    <3>1. At(rd[r].ent) \in rd[r].win
      BY <1>r, <2>7, Zenon DEF ReaderOK
    <3>2. Visible(file'[rd'[r].ent.seg][rd'[r].ent.off]) \in rd'[r].win
      BY <2>1, <2>7, <3>1, Zenon DEF At
    <3> QED
      BY <2>1, <2>7, <3>2, Zenon DEF ReaderOK, At
  <2>2. CASE q # r
    <3>1. rd'[r] = rd[r]
      BY <1>t, <1>4, <2>2 DEF Get, GetBegin, GetActive, GetList, GetRead, Answer
    <3> QED
      BY <1>1, <2>1, <3>1, Zenon
  <2>3. CASE q = r /\ GetBegin(r)
    <3>1. PICK k \in Keys, p \in {"idle", "active"} :
             /\ rd' = [rd EXCEPT ![r] = [pc |-> p, key |-> k, ent |-> idx[k],
                                        win |-> {cur[k]}, got |-> 0]]
             /\ p = IF idx[k] = NoEntry THEN "idle" ELSE "active"
      BY <2>3, Zenon DEF GetBegin
    <3>2. /\ rd'[r].pc = p /\ rd'[r].ent = idx[k] /\ rd'[r].win = {cur[k]} /\ rd'[r].got = 0
      BY <1>t, <3>1
    <3>3. Indexed(k)
      OBVIOUS
    <3> QED
      <4>1. cur[k] = IF idx[k] = NoEntry THEN 0 ELSE Visible(file[idx[k].seg][idx[k].off])
        BY <3>3, Zenon DEF Indexed, At
      <4>2. CASE idx[k] = NoEntry
        <5>1. p = "idle" /\ cur[k] = 0
          BY <3>1, <4>1, <4>2, Zenon
        <5>2. rd'[r].pc = "idle" /\ rd'[r].got \in rd'[r].win
          <6>1. rd'[r].pc = "idle" /\ rd'[r].win = {cur[k]} /\ rd'[r].got = cur[k]
            BY <3>2, <5>1, Zenon
          <6> QED
            BY <6>1, Zenon
        <5> QED
          BY <2>3, <5>2, Zenon DEF ReaderOK
      <4>3. CASE idx[k] # NoEntry
        <5>0. "active" # "idle" /\ "active" # "list"
          OBVIOUS
        <5>3. p = "active"
          BY <3>1, <4>3, Zenon
        <5>1. rd'[r].pc = "active" /\ rd'[r].pc # "idle" /\ rd'[r].pc # "list"
          BY <3>2, <5>0, <5>3, Zenon
        <5>2. Visible(file'[rd'[r].ent.seg][rd'[r].ent.off]) \in rd'[r].win
          BY <2>1, <3>2, <4>1, <4>3, Zenon
        <5> QED
          BY <2>3, <5>1, <5>2, Zenon DEF ReaderOK, At
      <4> QED
        BY <4>2, <4>3
  <2>4. CASE q = r /\ GetActive(r)
    <3>1. /\ rd[r].pc = "active"
          /\ rd' = [rd EXCEPT ![r].pc = IF rd[r].ent.seg = active THEN "read" ELSE "list"]
      BY <2>4, Zenon DEF GetActive
    <3>2. PICK p \in {"read", "list"} :
             /\ p = IF rd[r].ent.seg = active THEN "read" ELSE "list"
             /\ rd' = [rd EXCEPT ![r].pc = p]
      BY <3>1, Zenon
    <3>3. rd'[r].pc = p /\ rd'[r].ent = rd[r].ent /\ rd'[r].win = rd[r].win
      BY <1>t, <3>2 DEF ReaderStates
    <3>4. rd[r].ent.seg \in Range(list) \cup {active}
      <4>1. rd[r].ent.seg \in Segs
        BY <1>e, <3>1 DEF EntryOK
      <4> QED
        BY <4>1, Zenon DEF NothingGone
    <3>5. p = "list" => rd[r].ent.seg \in Range(list)
      BY <3>2, <3>4
    <3>6. p # "idle"
      BY <3>2
    <3> QED
      BY <2>4, <2>7, <3>1, <3>3, <3>5, <3>6, Zenon
  <2>5. CASE q = r /\ GetList(r)
    <3>1. rd[r].pc = "list"
      BY <2>5, Zenon DEF GetList
    <3>2. rd[r].ent.seg \in Range(list)
      BY <1>r, <3>1 DEF ReaderOK
    <3>3. rd' = [rd EXCEPT ![r].pc = "read"]
      BY <2>5, <3>2, Zenon DEF GetList
    <3>4. rd'[r].pc = "read" /\ rd'[r].ent = rd[r].ent /\ rd'[r].win = rd[r].win
      BY <1>t, <3>3 DEF ReaderStates
    <3>5. "read" # "idle" /\ "read" # "list"
      OBVIOUS
    <3> QED
      BY <2>5, <2>7, <3>1, <3>4, <3>5, Zenon
  <2>6. CASE q = r /\ GetRead(r)
    <3>1. rd[r].pc = "read" /\ rd[r].pc # "idle"
      BY <2>6 DEF GetRead
    <3>2. PICK v : /\ v = IF rd[r].ent.seg \in open THEN At(rd[r].ent) ELSE GetError
                   /\ rd' = [rd EXCEPT ![r] = [@ EXCEPT !.pc = "idle", !.ent = NoEntry, !.got = v]]
      BY <2>6, Zenon DEF GetRead, Answer, At
    <3>3. rd'[r].win = rd[r].win /\ rd'[r].pc = "idle" /\ rd'[r].got = v
      BY <1>t, <3>2 DEF ReaderStates
    <3>4. ~closed => rd[r].ent.seg \in open
      <4>1. rd[r].ent.seg \in Segs
        BY <1>e, <3>1 DEF EntryOK
      <4>2. ~closed => refs[rd[r].ent.seg] > 0
        BY <4>1 DEF CloseOK, NothingGone
      <4> QED
        BY <4>1, <4>2, Zenon DEF OpenHeld
    <3>5. At(rd[r].ent) \in rd[r].win
      BY <1>r, <3>1, Zenon DEF ReaderOK
    <3> QED
      BY <2>1, <2>6, <3>2, <3>3, <3>4, <3>5, Zenon DEF ReaderOK
  <2> QED
    BY <1>4, <2>2, <2>3, <2>4, <2>5, <2>6, Zenon DEF Get
<1>5. CASE compactionWorker
  BY <1>2, <1>5, WorkerFrame, Zenon
<1>6. CASE HandleStep
  <2>1. rd' = rd
    BY <1>t, <1>6, HandleFrame, Zenon
  <2>2. ~closed' => ~closed
    BY <1>6 DEF HandleStep, CloseHandle, Close, CloseBegin, CloseActive, CloseList
  <2> QED
    BY <1>1, <2>1, <2>2, Zenon
<1>7. CASE SyncBegin \/ SyncEnd \/ Compact \/ UNCHANGED vars
  BY <1>2, <1>7, Zenon DEF SyncBegin, SyncEnd, Compact, vars
<1> QED
  BY <1>3, <1>4, <1>5, <1>6, <1>7, Zenon DEF Step, CallStep

\* recover brings back all the segments there are, and what the index says of them is
\* what is visible.
LEMMA RecoverReadInv ==
    ASSUME TypeOK, disk # {}, cnt' \in Counts, NEW files \in Seq(Seq(Records)),
           Len(files) = Len(file), recover(files), cnt'.runs = cnt.runs, ReadInv
    PROVE  ReadInv'
<1> SUFFICES ASSUME cnt.runs = 0
             PROVE  NothingGone' /\ (\A k \in Keys : Indexed(k)') /\ \A r \in Readers : ReaderOK(r)'
  BY Zenon DEF ReadInv
<1>1. /\ Segs' = Segs /\ Max(disk) \in disk /\ Range(list') = disk \ {Max(disk)}
  BY RecoverType
<1>2. disk = Segs
  BY DEF ReadInv, NothingGone
<1>3. PICK m : m = Max(disk)
  OBVIOUS
<1>4. /\ m \in Segs /\ Range(list') = Segs \ {m} /\ active' = m /\ disk' = Segs
      /\ refs' = [s \in Segs |-> IF s \in Segs THEN 1 ELSE 0]
      /\ wk' = IdleWorker /\ \A c \in Writers : wr'[c].pc = "idle"
  BY <1>1, <1>2, <1>3, Zenon DEF recover, IdleWriter
<1>5. NothingGone'
  <2>1. wk'.pc \in Resting
    BY <1>4, IdleWorkerFields DEF Resting
  <2>2. ~Rotating'
    BY <1>4, Zenon DEF Rotating
  <2>3. Segs' = Range(list') \cup {active'} /\ \A s \in Segs' : refs'[s] > 0
    BY <1>1, <1>4
  <2> QED
    BY <1>1, <1>4, <2>1, <2>2, <2>3, Zenon DEF NothingGone
<1>6. ASSUME NEW k \in Keys PROVE Indexed(k)'
  <2>1. PICK e : e = LastRecord(files, k)
    OBVIOUS
  <2>2. /\ idx'[k] = e /\ file' = files
        /\ cur'[k] = IF e = NoEntry THEN 0 ELSE Visible(files[e.seg][e.off])
    BY <2>1, Zenon DEF recover
  <2> QED
    BY <2>2, Zenon DEF Indexed, At
<1>7. ASSUME NEW r \in Readers PROVE ReaderOK(r)'
  <2>1. rd'[r] = IdleReader
    BY Zenon DEF recover
  <2>2. rd'[r].pc = "idle" /\ rd'[r].got \in rd'[r].win
    BY <2>1 DEF IdleReader
  <2> QED
    BY <2>2, Zenon DEF ReaderOK
<1> QED
  BY <1>5, <1>6, <1>7

\* The inductive invariant behind GetLinearizable.
LEMMA ReadInvStep == SegmentInv /\ ReadInv /\ [Next]_vars => ReadInv'
<1> SUFFICES ASSUME SegmentInv, ReadInv, [Next]_vars PROVE ReadInv'
  OBVIOUS
<1>1. IndexInv /\ CloseOK /\ OpenHeld /\ TypeOK /\ disk # {}
  BY Zenon DEF SegmentInv, IndexInv, WorkerOK
<1>2. CASE Step
  <2> SUFFICES ASSUME cnt'.runs = 0
               PROVE  NothingGone' /\ (\A k \in Keys : Indexed(k)') /\ \A r \in Readers : ReaderOK(r)'
    BY Zenon DEF ReadInv
  <2>1. NothingGone /\ (\A k \in Keys : Indexed(k)) /\ \A r \in Readers : ReaderOK(r)
    BY <1>1, <1>2, NoRun, Zenon DEF ReadInv
  <2> QED
    BY <1>1, <1>2, <2>1, StepNothingGone, StepIndexed, StepReaders, Zenon
<1>3. CASE Crash
  <2>1. cnt' \in Counts /\ cnt'.runs = cnt.runs
    BY <1>1, <1>3, CrashFiles, Zenon
  <2>2. PICK files \in Seq(Seq(Records)) : Len(files) = Len(file) /\ recover(files)
    BY <1>1, <1>3, CrashFiles
  <2> QED
    BY <1>1, <2>1, <2>2, RecoverReadInv, Zenon
<1>4. CASE Restart
  <2>1. cnt' \in Counts /\ file \in Seq(Seq(Records)) /\ recover(file) /\ cnt'.runs = cnt.runs
    BY <1>1, <1>4 DEF Restart, TypeOK, FilesOK
  <2> QED
    BY <1>1, <2>1, RecoverReadInv, Zenon
<1> QED
  BY <1>2, <1>3, <1>4, NextSteps

\* The new, empty engine has nothing to read.
LEMMA InitReadInv == Init => ReadInv
<1> SUFFICES ASSUME Init
             PROVE  NothingGone /\ (\A k \in Keys : Indexed(k)) /\ \A r \in Readers : ReaderOK(r)
  BY Zenon DEF ReadInv
<1>1. /\ Segs = {1} /\ disk = {1} /\ refs = <<1>> /\ active = 1 /\ Range(list) = {}
      /\ wk.pc = "wait" /\ \A c \in Writers : wr[c].pc = "idle"
  <2>1. Segs = {1} /\ refs = <<1>>
    BY DEF Init, Segs
  <2>2. IdleWriter.pc = "idle"
    BY DEF IdleWriter
  <2> QED
    BY <2>1, <2>2, IdleWorkerFields, EmptySequence, Zenon DEF Init
<1>2. NothingGone
  BY <1>1 DEF NothingGone, Resting, Rotating
<1>3. ASSUME NEW k \in Keys PROVE Indexed(k)
  BY Zenon DEF Init, Indexed
<1>4. ASSUME NEW r \in Readers PROVE ReaderOK(r)
  <2>1. rd[r] = IdleReader
    BY Zenon DEF Init
  <2>2. rd[r].pc = "idle" /\ rd[r].got \in rd[r].win
    BY <2>1 DEF IdleReader
  <2> QED
    BY <2>2, Zenon DEF ReaderOK
<1> QED
  BY <1>2, <1>3, <1>4

\* As long as no compaction has begun, every Get that returns before Close returns
\* what was visible at some moment of the call, and never an error, whatever Puts and
\* rotations run beside it and however often the engine was restarted before: for any
\* number of keys, writers, readers, segments, crashes and failed creations.
THEOREM GetsLinearizable == Spec => []GetLinearizable
<1>1. ReadInv => GetLinearizable
  BY Zenon DEF ReadInv, ReaderOK, GetLinearizable
<1>2. Spec => []ReadInv
  BY SegmentInvariant, InitReadInv, ReadInvStep, PTL DEF Spec
<1> QED
  BY <1>1, <1>2, PTL
=============================================================================
