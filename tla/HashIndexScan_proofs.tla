------------------------ MODULE HashIndexScan_proofs ------------------------
(***************************************************************************)
(* The invariant of module HashIndex about the work of a compaction, and   *)
(* the steps of compactionWorker up to the last segment it scans.          *)
(***************************************************************************)
EXTENDS HashIndexSegs_proofs

\* The time each leaf is given, in seconds; a second attempt follows a failed one.
USE SMTT(30), SMTT(40)

----------------------------------------------------------------------------
\* Segments where a Get finds what it looks for.
Listed(s) == (s = active /\ ~Rotating) \/ s \in Range(list)

\* What is left of the scan is the end of the selection, the latest values are records
\* of their keys, and a batch is collected and applied in one go.
ScanOK ==
    /\ \A j \in Keys : wk.latest[j] = Torn \/ wk.latest[j].key = j
    /\ wk.pc \in Selected =>
          /\ Len(wk.left) <= Len(wk.sel)
          /\ \A j \in 1..Len(wk.left) : wk.left[j] = wk.sel[Len(wk.sel) - Len(wk.left) + j]
    /\ wk.pc \in Selected \ {"scan"} => wk.left = <<>>
    /\ wk.pc \notin {"index", "batch"} => wk.batch = {}

\* The new segment holds the latest values that are no tombstones, and only those.
Written ==
    wk.pc \in {"sync", "index", "batch"} =>
        /\ \A o \in DOMAIN file[wk.new] :
              \E j \in Keys : ~wk.latest[j].del /\ file[wk.new][o] = wk.latest[j]
        /\ \A j \in Keys : ~wk.latest[j].del =>
              \E o \in DOMAIN file[wk.new] : file[wk.new][o] = wk.latest[j]

\* What the worker knows of a key that nobody has written since the selection: its
\* entry locates what is visible, in a segment where a Get finds it;
Found(k) ==
    /\ ~Writing(k) /\ Indexed(k)
    /\ idx[k] # NoEntry =>
          Listed(idx[k].seg) \/ (wk.pc \in {"batch", "list"} /\ idx[k].seg = wk.new)

\* the record its entry locates is the last one of the key in the selection;
Newest(k) ==
    wk.pc = "scan" => \A i \in DOMAIN wk.sel : idx[k].seg = wk.sel[i] =>
        /\ \A o \in 1..idx[k].off : file[wk.sel[i]][o] # Torn
        /\ \A j \in DOMAIN wk.sel : \A o \in DOMAIN file[wk.sel[j]] :
              file[wk.sel[j]][o].key = k => j < i \/ (j = i /\ o <= idx[k].off)

\* once its segment is scanned it is the latest value;
Seen(k) ==
    wk.pc \in Selected \ {"list"} =>
        \A i \in 1..(Len(wk.sel) - Len(wk.left)) : idx[k].seg = wk.sel[i] =>
            wk.latest[k] = file[idx[k].seg][idx[k].off]

\* and the key is collected if its entry points into the selection.
Collected(k) ==
    /\ wk.pc = "index" =>
          /\ k \in wk.batch => idx[k].seg \in Range(wk.sel)
          /\ k \notin wk.todo /\ idx[k].seg \in Range(wk.sel) => k \in wk.batch
    /\ wk.pc \in {"batch", "list"} => (k \in wk.batch <=> idx[k].seg \in Range(wk.sel))

CompactOK == /\ ScanOK /\ Written
             /\ \A k \in wk.calm : Found(k) /\ Newest(k) /\ Seen(k) /\ Collected(k)

\* This holds as long as no file operation has failed.
CompactInv == cnt.cerr = 0 => CompactOK

----------------------------------------------------------------------------
\* A Put of another key leaves the entry of a calm key alone and appends no record
\* of it.
LEMMA PutCalm ==
    ASSUME IndexInv, NEW c \in Writers, Put(c), NEW k \in Keys, k \in wk'.calm, ~Writing(k)
    PROVE  /\ ~Writing(k)' /\ idx'[k] = idx[k] /\ cur'[k] = cur[k]
           /\ \A s \in Segs : \A o \in DOMAIN file'[s] :
                 file'[s][o].key = k => o \in DOMAIN file[s]
<1> USE DEF segVars, engVars
<1>t. /\ TypeOK /\ FilesOK /\ wr \in [Writers -> WriterStates] /\ wk \in WorkerStates
      /\ wk.calm \subseteq Keys
  BY DEF IndexInv, TypeOK, WorkerStates
<1>o. \A d \in Writers \ {c} : wr'[d] = wr[d]
  BY <1>t, PutEffect
<1>1. ~Writing(k)'
  <2>1. ASSUME wr'[c].pc # "idle" PROVE wr'[c].key # k
    <3>1. CASE PutBegin(c)
      <4>1. PICK j \in Keys, d \in BOOLEAN, p \in {"append", "lock"} :
             /\ wr' = [wr EXCEPT ![c] = [pc |-> p, path |-> "fast", key |-> j, num |-> Len(puts) + 1,
                                      del |-> d, seg |-> active, off |-> 0]]
             /\ wk' = [wk EXCEPT !.calm = @ \ {j}]
        BY <3>1, Zenon DEF PutBegin
      <4>2. wr'[c].key = j
        BY <1>t, <4>1
      <4>3. wk'.calm = wk.calm \ {j}
        BY <1>t, <4>1 DEF WorkerStates
      <4> QED
        BY <4>2, <4>3
    <3>2. CASE ~PutBegin(c)
      <4>1. wr[c].pc # "idle"
        BY <3>2, Zenon
        DEF Put, PutAppend, PutIndex, PutSync, PutEnd, PutLock, RotateList, RotateCreate
      <4> QED
        BY <1>t, <2>1, <4>1, PutEffect, Zenon DEF Writing
    <3> QED
      BY <3>1, <3>2
  <2> QED
    BY <1>o, <2>1, Zenon DEF Writing
<1>2. idx'[k] = idx[k] /\ cur'[k] = cur[k]
  <2>1. CASE PutIndex(c)
    <3>1. wr[c].key # k
      BY <2>1, Zenon DEF PutIndex, Writing
    <3> QED
      BY <2>1, <3>1, PutIndexEffect, Zenon
  <2>2. CASE ~PutIndex(c)
    BY <2>2, Zenon
    DEF Put, PutBegin, PutAppend, PutSync, PutEnd, PutLock, RotateList, RotateCreate
  <2> QED
    BY <2>1, <2>2
<1>3. ASSUME NEW s \in Segs, NEW o \in DOMAIN file'[s], file'[s][o].key = k
      PROVE  o \in DOMAIN file[s]
  <2>1. CASE file'[s] = file[s]
    BY <2>1, Zenon
  <2>2. CASE file'[s] # file[s]
    <3> DEFINE x == [key |-> wr[c].key, num |-> wr[c].num, del |-> wr[c].del]
    <3>1. wr[c].pc = "append" /\ s = wr[c].seg
      BY <1>t, <2>2, PutFrame, Zenon
    <3>2. PutAppend(c)
      BY <3>1, Zenon
      DEF Put, PutBegin, PutIndex, PutSync, PutEnd, PutLock, RotateList, RotateCreate
    <3>3. file' = [file EXCEPT ![s] = Append(@, x)]
      BY <1>t, <2>2, <3>1, <3>2, AppendEffect, Zenon
    <3>4. wr[c].key # k /\ x.key = wr[c].key
      BY <3>1, Zenon DEF Writing
    <3> HIDE DEF x
    <3>5. file[s] \in Seq(Records)
      BY <1>t, FileTypes
    <3>6. file'[s] = Append(file[s], x)
      BY <3>3 DEF Segs
    <3>7. CASE o = Len(file[s]) + 1
      BY <1>3, <3>4, <3>5, <3>6, <3>7
    <3>8. CASE o # Len(file[s]) + 1
      BY <3>5, <3>6, <3>8
    <3> QED
      BY <3>7, <3>8
  <2> QED
    BY <2>1, <2>2
<1> QED
  BY <1>1, <1>2, <1>3

\* What is listed, or active and not about to be listed, stays so.
LEMMA PutListed ==
    ASSUME TypeOK, MuExact, cnt'.cerr = 0, NEW c \in Writers, Put(c), NEW s, Listed(s)
    PROVE  Listed(s)'
<1>1. /\ \/ list' = list /\ wr'[c].pc # "create"
         \/ wr[c].pc = "rotate" /\ wr'[c].pc = "create" /\ list' = Append(list, active)
      /\ \/ active' = active
         \/ wr[c].pc = "create"
  BY PutFrame, Zenon
<1>2. /\ wr[c].pc = "create" => Rotating
      /\ wr'[c].pc = "create" => Rotating'
      /\ wr[c].pc # "create" /\ wr'[c].pc # "create" => (Rotating' <=> Rotating)
  BY RotatingStep, Zenon
<1>3. list \in Seq(Nat) /\ active \in Nat
  BY FileTypes DEF TypeOK
<1>4. Range(Append(list, active)) = Range(list) \cup {active}
  BY <1>3, AppendElements
<1>5. CASE list' = list /\ wr'[c].pc # "create"
  BY <1>1, <1>2, <1>5, Zenon DEF Listed
<1>6. CASE list' = Append(list, active)
  <2>1. Range(list') = Range(list) \cup {active}
    BY <1>4, <1>6, Zenon
  <2> QED
    BY <2>1 DEF Listed
<1> QED
  BY <1>1, <1>5, <1>6, Zenon

\* What is known of a key stays known while its entry, the worker and the records of
\* the key stay as they are.
LEMMA CalmStays ==
    ASSUME IndexInv, Grows, NEW k \in Keys, Found(k), Newest(k), Seen(k), Collected(k),
           wk'.pc = wk.pc, wk'.sel = wk.sel, wk'.left = wk.left, wk'.new = wk.new,
           wk'.latest = wk.latest, wk'.todo = wk.todo, wk'.batch = wk.batch,
           idx'[k] = idx[k], cur'[k] = cur[k], ~Writing(k)', \A s : Listed(s) => Listed(s)',
           \A s \in Segs : \A o \in DOMAIN file'[s] : file'[s][o].key = k => o \in DOMAIN file[s]
    PROVE  Found(k)' /\ Newest(k)' /\ Seen(k)' /\ Collected(k)'
<1>t. /\ Range(wk.sel) \subseteq Segs /\ (idx[k] = NoEntry \/ EntryOK(k, idx[k])) /\ FilesOK
      /\ wk.sel \in Seq(Nat) /\ wk.left \in Seq(Nat)
  BY DEF IndexInv, WorkerOK, IndexPointsToRecord, TypeOK, WorkerStates
<1>s. \A i \in DOMAIN wk.sel : wk.sel[i] \in Segs
  BY <1>t DEF Range
<1>z. NoEntry.seg = 0 /\ 0 \notin Segs
  BY <1>t, FileTypes DEF NoEntry
<1>a. idx[k] # NoEntry => /\ Visible(file'[idx[k].seg][idx[k].off]) = At(idx[k])
                          /\ file'[idx[k].seg][idx[k].off] = file[idx[k].seg][idx[k].off]
  BY <1>t, AtStays, Zenon DEF Grows, EntryOK
<1>1. Found(k)'
  BY <1>a, Zenon DEF Found, Indexed, At
<1>2. Newest(k)'
  <2> DEFINE Last(p, sel, e) ==
        p = "scan" => \A i \in DOMAIN sel : e.seg = sel[i] =>
            /\ \A o \in 1..e.off : file'[sel[i]][o] # Torn
            /\ \A j \in DOMAIN sel : \A o \in DOMAIN file'[sel[j]] :
                  file'[sel[j]][o].key = k => j < i \/ (j = i /\ o <= e.off)
  <2>n. Newest(k)' <=> Last(wk'.pc, wk'.sel, idx'[k])
    BY Zenon DEF Newest
  <2>l. Last(wk'.pc, wk'.sel, idx'[k]) <=> Last(wk.pc, wk.sel, idx[k])
    <3> HIDE DEF Last
    <3> QED
      BY Zenon
  <2> SUFFICES ASSUME wk.pc = "scan", NEW i \in DOMAIN wk.sel, idx[k].seg = wk.sel[i]
               PROVE  /\ \A o \in 1..idx[k].off : file'[wk.sel[i]][o] # Torn
                      /\ \A j \in DOMAIN wk.sel : \A o \in DOMAIN file'[wk.sel[j]] :
                            file'[wk.sel[j]][o].key = k => j < i \/ (j = i /\ o <= idx[k].off)
    BY <2>n, <2>l, Zenon
  <2>1. /\ \A o \in 1..idx[k].off : file[wk.sel[i]][o] # Torn
        /\ \A j \in DOMAIN wk.sel : \A o \in DOMAIN file[wk.sel[j]] :
              file[wk.sel[j]][o].key = k => j < i \/ (j = i /\ o <= idx[k].off)
    BY Zenon DEF Newest
  <2>2. EntryOK(k, idx[k])
    BY <1>t, <1>s, <1>z
  <2>3. \A o \in 1..idx[k].off : o \in DOMAIN file[wk.sel[i]]
    <3>1. file[wk.sel[i]] \in Seq(Records) /\ idx[k].off \in DOMAIN file[wk.sel[i]]
      BY <1>t, <1>s, <2>2, FileTypes DEF EntryOK
    <3> QED
      BY <3>1
  <2>4. \A o \in 1..idx[k].off : file'[wk.sel[i]][o] # Torn
    BY <1>s, <2>1, <2>3, Zenon DEF Grows
  <2>5. ASSUME NEW j \in DOMAIN wk.sel, NEW o \in DOMAIN file'[wk.sel[j]], file'[wk.sel[j]][o].key = k
        PROVE  j < i \/ (j = i /\ o <= idx[k].off)
    <3>1. o \in DOMAIN file[wk.sel[j]]
      BY <1>s, <2>5, Zenon
    <3>2. file[wk.sel[j]][o].key = k
      BY <1>s, <2>5, <3>1, Zenon DEF Grows
    <3> QED
      BY <2>1, <3>1, <3>2, Zenon
  <2> QED
    BY <2>4, <2>5, Zenon
<1>3. Seen(k)'
  <2> SUFFICES ASSUME wk.pc \in Selected \ {"list"}, NEW i \in 1..(Len(wk.sel) - Len(wk.left)),
                      idx[k].seg = wk.sel[i]
               PROVE  wk.latest[k] = file'[idx[k].seg][idx[k].off]
    BY Zenon DEF Seen
  <2>1. wk.latest[k] = file[idx[k].seg][idx[k].off]
    BY Zenon DEF Seen
  <2>2. i \in DOMAIN wk.sel
    <3>1. DOMAIN wk.sel = 1..Len(wk.sel) /\ Len(wk.sel) \in Nat /\ Len(wk.left) \in Nat
      BY <1>t
    <3> QED
      BY <3>1
  <2>3. idx[k] # NoEntry
    BY <1>s, <1>z, <2>2
  <2> QED
    BY <1>a, <2>1, <2>3, Zenon
<1>4. Collected(k)'
  BY Zenon DEF Collected
<1> QED
  BY <1>1, <1>2, <1>3, <1>4

\* Nobody but the worker disturbs it: a Put takes its own key out of what is calm.
LEMMA OthersCompactOK ==
    ASSUME IndexInv, CompactOK, Step, ~compactionWorker, cnt'.cerr = 0
    PROVE  CompactOK'
<1>t. TypeOK /\ MuExact /\ WorkerOK /\ FilesOK /\ wk.calm \subseteq Keys
  BY DEF IndexInv, TypeOK, WorkerStates
<1>g. Grows
  BY <1>t, FilesGrow
<1>1. CASE UNCHANGED <<file, idx, active, list, wr, wk, cur>>
  <2>1. ScanOK' /\ Written'
    BY <1>1, Zenon DEF CompactOK, ScanOK, Written
  <2>2. ASSUME NEW k PROVE (Listed(k)' <=> Listed(k)) /\ (Writing(k)' <=> Writing(k))
    BY <1>1, Zenon DEF Listed, Rotating, Writing
  <2>3. ASSUME NEW k PROVE Found(k)' <=> Found(k)
    BY <1>1, <2>2, Zenon DEF Found, Indexed, At
  <2>4. ASSUME NEW k PROVE Newest(k)' <=> Newest(k)
    BY <1>1, ZenonT(40) DEF Newest
  <2>5. ASSUME NEW k PROVE (Seen(k)' <=> Seen(k)) /\ (Collected(k)' <=> Collected(k))
    BY <1>1, Zenon DEF Seen, Collected
  <2> QED
    BY <1>1, <2>1, <2>3, <2>4, <2>5, Zenon DEF CompactOK
<1>2. ASSUME NEW c \in Writers, Put(c) PROVE CompactOK'
  <2>1. /\ wk'.pc = wk.pc /\ wk'.sel = wk.sel /\ wk'.left = wk.left /\ wk'.new = wk.new
        /\ wk'.latest = wk.latest /\ wk'.todo = wk.todo /\ wk'.batch = wk.batch
        /\ wk'.calm \subseteq wk.calm
    BY <1>t, <1>2, PutFrame, Zenon
  <2>2. ScanOK'
    BY <2>1, ZenonT(40) DEF CompactOK, ScanOK
  <2>3. Written'
    <3> SUFFICES ASSUME wk.pc \in {"sync", "index", "batch"} PROVE Written'
      BY <2>1, Zenon DEF Written
    <3>1. wk.pc \in Created
      BY Zenon DEF Created
    <3>2. wk.new \in disk /\ (wr[c].pc # "idle" => wr[c].seg # wk.new)
      BY <1>t, <3>1, Zenon DEF WorkerOK
    <3>3. file'[wk.new] = file[wk.new]
      <4>1. wk.new \in Segs
        BY <1>t, <3>2, Zenon DEF FilesOK
      <4>2. wk.new # wr[c].seg \/ wr[c].pc # "append"
        BY <3>2, Zenon
      <4> QED
        BY <1>t, <1>2, <4>1, <4>2, PutFrame, Zenon
    <3> DEFINE Holding(f, latest) ==
          /\ \A o \in DOMAIN f : \E j \in Keys : ~latest[j].del /\ f[o] = latest[j]
          /\ \A j \in Keys : ~latest[j].del => \E o \in DOMAIN f : f[o] = latest[j]
    <3>4. Holding(file[wk.new], wk.latest)
      BY Zenon DEF CompactOK, Written
    <3>5. Holding(file'[wk'.new], wk'.latest) => Written'
      BY Zenon DEF Written
    <3> HIDE DEF Holding
    <3> QED
      BY <2>1, <3>3, <3>4, <3>5, Zenon
  <2>4. ASSUME NEW k \in wk'.calm PROVE Found(k)' /\ Newest(k)' /\ Seen(k)' /\ Collected(k)'
    <3>1. k \in Keys /\ Found(k) /\ Newest(k) /\ Seen(k) /\ Collected(k) /\ ~Writing(k)
      BY <1>t, <2>1, Zenon DEF CompactOK, Found
    <3>2. /\ ~Writing(k)' /\ idx'[k] = idx[k] /\ cur'[k] = cur[k]
          /\ \A s \in Segs : \A o \in DOMAIN file'[s] :
                file'[s][o].key = k => o \in DOMAIN file[s]
      BY <1>2, <3>1, PutCalm, Zenon
    <3>3. \A s : Listed(s) => Listed(s)'
      BY <1>t, <1>2, PutListed, Zenon
    <3> QED
      BY <1>g, <2>1, <3>1, <3>2, <3>3, CalmStays, Zenon
  <2> QED
    BY <2>2, <2>3, <2>4, Zenon DEF CompactOK
<1> QED
  BY <1>t, <1>1, <1>2, CallFrame, HandleFrame, Zenon DEF Step


\* What the worker keeps of the keys whose entries it does not touch.
LEMMA WorkerKeeps ==
    ASSUME IndexInv, compactionWorker, NEW k \in Keys, idx'[k] = idx[k]
    PROVE  /\ /\ Found(k) /\ Range(list) \subseteq Range(list')
              /\ wk.pc \notin {"batch", "list"} \/ (wk'.pc \in {"batch", "list"} /\ wk'.new = wk.new)
              => Found(k)'
           /\ /\ Seen(k) /\ wk.pc \in Selected \ {"list"} /\ wk'.sel = wk.sel
              /\ wk'.left = wk.left /\ wk'.latest = wk.latest
              => Seen(k)'
<1>t. /\ Range(wk.sel) \subseteq Segs /\ (idx[k] = NoEntry \/ EntryOK(k, idx[k])) /\ FilesOK
      /\ wk.sel \in Seq(Nat) /\ wk.left \in Seq(Nat) /\ TypeOK /\ WorkerOK
  BY DEF IndexInv, WorkerOK, IndexPointsToRecord, TypeOK, WorkerStates
<1>g. Grows
  BY <1>t, FilesGrow, Zenon DEF Step
<1>s. \A i \in DOMAIN wk.sel : wk.sel[i] \in Segs
  BY <1>t DEF Range
<1>z. NoEntry.seg = 0 /\ 0 \notin Segs
  BY <1>t, FileTypes DEF NoEntry
<1>a. idx[k] # NoEntry => /\ Visible(file'[idx[k].seg][idx[k].off]) = At(idx[k])
                          /\ file'[idx[k].seg][idx[k].off] = file[idx[k].seg][idx[k].off]
  BY <1>t, <1>g, AtStays, Zenon DEF Grows, EntryOK
<1>f. UNCHANGED <<active, wr, cur>>
  BY WorkerFrame, Zenon
<1>1. ASSUME Found(k), Range(list) \subseteq Range(list'),
             wk.pc \notin {"batch", "list"} \/ (wk'.pc \in {"batch", "list"} /\ wk'.new = wk.new)
      PROVE  Found(k)'
  <2>1. (Writing(k)' <=> Writing(k)) /\ (Rotating' <=> Rotating)
    BY <1>f, Zenon DEF Writing, Rotating
  <2>2. \A s : Listed(s) => Listed(s)'
    BY <1>f, <1>1, <2>1 DEF Listed
  <2>3. Indexed(k)'
    BY <1>a, <1>f, <1>1, Zenon DEF Found, Indexed, At
  <2> QED
    BY <1>1, <2>1, <2>2, <2>3, Zenon DEF Found
<1>2. ASSUME Seen(k), wk.pc \in Selected \ {"list"}, wk'.sel = wk.sel,
             wk'.left = wk.left, wk'.latest = wk.latest
      PROVE  Seen(k)'
  <2> SUFFICES ASSUME NEW i \in 1..(Len(wk.sel) - Len(wk.left)), idx[k].seg = wk.sel[i]
               PROVE  wk.latest[k] = file'[idx[k].seg][idx[k].off]
    BY <1>2, Zenon DEF Seen
  <2>1. wk.latest[k] = file[idx[k].seg][idx[k].off]
    BY <1>2, Zenon DEF Seen
  <2>2. i \in DOMAIN wk.sel
    <3>1. DOMAIN wk.sel = 1..Len(wk.sel) /\ Len(wk.sel) \in Nat /\ Len(wk.left) \in Nat
      BY <1>t
    <3> QED
      BY <3>1
  <2>3. idx[k] # NoEntry
    BY <1>s, <1>z, <2>2
  <2> QED
    BY <1>a, <2>1, <2>3, Zenon
<1> QED
  BY <1>1, <1>2, Zenon

\* The worker at rest knows nothing.
LEMMA RestCompactOK ==
    ASSUME wk'.pc \in Resting, wk'.calm = {}, wk'.batch = {},
           \A j \in Keys : wk'.latest[j] = Torn \/ wk'.latest[j].key = j
    PROVE  CompactOK'
<1>1. wk'.pc \notin Selected /\ wk'.pc \notin {"sync", "index", "batch"}
  BY DEF Selected, Resting
<1> QED
  BY <1>1, Zenon DEF CompactOK, ScanOK, Written

\* A selection begins with keys whose last record in it their entry locates.
LEMMA SelectCompactOK ==
    ASSUME IndexInv, CompactOK, WorkerSelect
    PROVE  CompactOK'
<1> USE DEF segVars, engVars
<1>t. /\ list \in Seq(Nat) /\ wk \in WorkerStates /\ cur \in [Keys -> Nat] /\ FilesOK
      /\ wk.pc = "select" /\ wk.calm = {} /\ wk.batch = {} /\ Range(list) \subseteq Segs
      /\ \A j \in Keys : wk.latest[j] = Torn \/ wk.latest[j].key = j
  <2>1. wk.pc = "select"
    BY Zenon DEF WorkerSelect
  <2>2. wk.calm = {}
    BY <2>1 DEF IndexInv, WorkerOK, Resting
  <2>3. wk.batch = {} /\ \A j \in Keys : wk.latest[j] = Torn \/ wk.latest[j].key = j
    BY <2>1 DEF CompactOK, ScanOK
  <2> QED
    BY <2>1, <2>2, <2>3 DEF IndexInv, TypeOK, SegsOK
<1>1. CASE wk' = IdleWorker
  <2>1. wk'.pc = "wait" /\ wk'.calm = {} /\ wk'.batch = {} /\ \A j \in Keys : wk'.latest[j] = Torn
    BY <1>1, Zenon DEF IdleWorker, NoValue
  <2> QED
    BY <2>1, RestCompactOK, Zenon DEF Resting
<1>2. CASE wk' # IdleWorker
  <2> DEFINE Calm(sel) == {k \in Keys : /\ ~Writing(k) /\ LastIn(sel, k) /\ Lookup(k) = cur[k]
                                        /\ idx[k] = NoEntry \/ Owned(idx[k].seg)}
  <2>0. LET sel == SubSeq(list, 1, numToCompact)
        IN  wk' = [wk EXCEPT !.pc = "scan", !.sel = sel, !.left = sel, !.calm = Calm(sel)]
    BY <1>2, Zenon DEF WorkerSelect
  <2>1. PICK sel, K :
          /\ sel = SubSeq(list, 1, numToCompact) /\ K = Calm(sel)
          /\ wk' = [wk EXCEPT !.pc = "scan", !.sel = sel, !.left = sel, !.calm = K]
    <3> HIDE DEF Calm
    <3> QED
      BY <2>0, Zenon
  <2>2. UNCHANGED <<file, idx, active, list, wr, cur, open>>
    BY Zenon DEF WorkerSelect
  <2>3. /\ wk'.pc = "scan" /\ wk'.sel = sel /\ wk'.left = sel /\ wk'.calm = Calm(sel)
        /\ wk'.latest = wk.latest /\ wk'.batch = wk.batch
    <3> HIDE DEF Calm
    <3>1. wk' = [wk EXCEPT !.pc = "scan", !.sel = sel, !.left = sel, !.calm = K]
      BY <2>1, Zenon
    <3>2. /\ wk'.pc = "scan" /\ wk'.sel = sel /\ wk'.left = sel /\ wk'.calm = K
          /\ wk'.latest = wk.latest /\ wk'.batch = wk.batch
      BY <1>t, <3>1 DEF WorkerStates
    <3> QED
      BY <2>1, <3>2, Zenon
  <2>4. sel \in Seq(Nat) /\ Len(sel) \in Nat /\ \A i \in DOMAIN sel : sel[i] \in Segs
    <3>1. numToCompact \in 0..Len(list)
      BY <1>t, SelectType DEF numToCompact
    <3>2. sel \in Seq(Nat) /\ Range(sel) \subseteq Range(list)
      BY <1>t, <2>1, <3>1, PrefixElements
    <3>3. Len(sel) \in Nat
      BY <3>2
    <3>4. \A i \in DOMAIN sel : sel[i] \in Range(sel)
      BY Zenon DEF Range
    <3> QED
      BY <1>t, <3>2, <3>3, <3>4, Zenon
  <2>5. ScanOK'
    <3>1. Len(sel) <= Len(sel) /\ \A j \in 1..Len(sel) : sel[j] = sel[Len(sel) - Len(sel) + j]
      BY <2>4
    <3>2. "scan" \notin Selected \ {"scan"} /\ "scan" \notin {"index", "batch"}
      OBVIOUS
    <3> QED
      BY <1>t, <2>3, <3>1, <3>2, Zenon DEF ScanOK
  <2>6. Written'
    BY <2>3 DEF Written
  <2>7. ASSUME NEW k \in wk'.calm PROVE Found(k)' /\ Newest(k)' /\ Seen(k)' /\ Collected(k)'
    <3>1. /\ k \in Keys /\ ~Writing(k) /\ LastIn(sel, k) /\ Lookup(k) = cur[k]
          /\ idx[k] = NoEntry \/ Owned(idx[k].seg)
      BY <2>3, <2>7, Zenon
    <3>2. Writing(k)' <=> Writing(k)
      BY <2>2, Zenon DEF Writing
    <3>3. cur[k] # GetError
      <4>1. cur[k] \in Nat
        BY <1>t, <3>1
      <4> QED
        BY <4>1 DEF GetError
    <3>4. Indexed(k)
      BY <3>1, <3>3, Zenon DEF Indexed, At, Lookup
    <3>5. idx[k] # NoEntry => Listed(idx[k].seg)
      BY <1>t, <3>1 DEF Owned, Listed, Rotating
    <3>6. Found(k)'
      <4>1. Indexed(k)' /\ (idx'[k] # NoEntry => Listed(idx[k].seg)')
        BY <2>2, <3>4, <3>5, Zenon DEF Indexed, At, Listed, Rotating
      <4> QED
        BY <3>1, <3>2, <4>1, Zenon DEF Found
    <3>7. Newest(k)'
      <4> DEFINE Last(s, f, e) ==
            \A i \in DOMAIN s : e.seg = s[i] =>
                /\ \A o \in 1..e.off : f[s[i]][o] # Torn
                /\ \A j \in DOMAIN s : \A o \in DOMAIN f[s[j]] :
                      f[s[j]][o].key = k => j < i \/ (j = i /\ o <= e.off)
      <4>n. Last(wk'.sel, file', idx'[k]) => Newest(k)'
        BY Zenon DEF Newest
      <4>l. Last(sel, file, idx[k]) => Newest(k)'
        <5> HIDE DEF Last
        <5> QED
          BY <2>2, <2>3, <4>n, Zenon
      <4> SUFFICES ASSUME NEW i \in DOMAIN sel, idx[k].seg = sel[i]
                   PROVE  /\ \A o \in 1..idx[k].off : file[sel[i]][o] # Torn
                          /\ \A j \in DOMAIN sel : \A o \in DOMAIN file[sel[j]] :
                                file[sel[j]][o].key = k => j < i \/ (j = i /\ o <= idx[k].off)
        BY <4>l, Zenon
      <4>1. idx[k].off <= Readable(file[sel[i]])
        BY <3>1, Zenon DEF LastIn
      <4>2. /\ Readable(file[sel[i]]) \in 0..Len(file[sel[i]])
            /\ \A o \in 1..Readable(file[sel[i]]) : file[sel[i]][o] # Torn
        <5>1. file[sel[i]] \in Seq(Records)
          BY <1>t, <2>4, FileTypes
        <5> QED
          BY <5>1, ReadableExact
      <4>3. idx[k].off \in Nat
        BY <3>1 DEF IndexInv, TypeOK, Entries
      <4>4. \A o \in 1..idx[k].off : file[sel[i]][o] # Torn
        BY <4>1, <4>2, <4>3
      <4> QED
        BY <3>1, <4>4, Zenon DEF LastIn
    <3>8. Seen(k)'
      <4>1. 1..(Len(sel) - Len(sel)) = {}
        BY <2>4
      <4> QED
        BY <2>3, <4>1, Zenon DEF Seen
    <3>9. Collected(k)'
      BY <2>3, Zenon DEF Collected
    <3> QED
      BY <3>6, <3>7, <3>8, <3>9
  <2> QED
    BY <2>5, <2>6, <2>7, Zenon DEF CompactOK
<1> QED
  BY <1>1, <1>2


\* The records of a key that the scan of a segment gets to.
Matches(s, k) == {o \in 1..Readable(file[s]) : file[s][o].key = k}

\* The scan of a segment finds the record the entry locates, and nothing of the key in
\* the segments behind it.
LEMMA ScanFinds ==
    ASSUME IndexInv, NEW k \in Keys, Newest(k), wk.pc = "scan",
           NEW i \in DOMAIN wk.sel, NEW p \in DOMAIN wk.sel, idx[k].seg = wk.sel[i]
    PROVE  /\ i < p => Matches(wk.sel[p], k) = {}
           /\ i = p => /\ Matches(wk.sel[p], k) # {}
                       /\ Max(Matches(wk.sel[p], k)) = idx[k].off
<1> DEFINE f == file[wk.sel[p]]
           last == {o \in 1..Readable(f) : f[o].key = k}
<1>t. /\ Range(wk.sel) \subseteq Segs /\ (idx[k] = NoEntry \/ EntryOK(k, idx[k])) /\ FilesOK
      /\ wk.sel \in Seq(Nat)
  <2>1. TypeOK /\ WorkerOK /\ IndexPointsToRecord
    BY Zenon DEF IndexInv
  <2>2. FilesOK /\ wk \in WorkerStates
    BY <2>1, Zenon DEF TypeOK
  <2>3. wk.sel \in Seq(Nat)
    BY <2>2, Zenon DEF WorkerStates
  <2> QED
    BY <2>1, <2>2, <2>3, Zenon DEF WorkerOK, IndexPointsToRecord
<1>s. wk.sel[i] \in Segs /\ wk.sel[p] \in Segs
  BY <1>t, Zenon DEF Range
<1>z. idx[k] # NoEntry
  <2>1. \A x \in Segs : x # 0
    BY <1>t DEF FilesOK, Segs
  <2>2. NoEntry.seg = 0
    BY DEF NoEntry
  <2> QED
    BY <1>s, <2>1, <2>2, Zenon
<1>n. /\ \A o \in 1..idx[k].off : file[wk.sel[i]][o] # Torn
      /\ \A o \in DOMAIN file[wk.sel[p]] :
            file[wk.sel[p]][o].key = k => p < i \/ (p = i /\ o <= idx[k].off)
  BY Zenon DEF Newest
<1>r. /\ f \in Seq(Records) /\ Readable(f) \in 0..Len(f) /\ Len(f) \in Nat
      /\ Readable(f) < Len(f) => f[Readable(f) + 1] = Torn
  <2>1. f \in Seq(Records)
    BY <1>t, <1>s, FileTypes
  <2> HIDE DEF f
  <2> QED
    BY <2>1, ReadableExact
<1>l. /\ last \subseteq DOMAIN f
      /\ last # {} => Max(last) \in last /\ \A o \in last : o <= Max(last)
  <2>1. FilesOK /\ wk.sel[p] \in Segs
    BY <1>t, <1>s
  <2> QED
    BY <2>1, ScanType, ZenonT(40)
<1>i. i \in Nat /\ p \in Nat
  BY <1>t
<1>1. ASSUME i < p PROVE last = {}
  <2>1. ~(p < i) /\ p # i
    BY <1>i, <1>1
  <2> QED
    BY <1>n, <1>l, <2>1, Zenon
<1>2. ASSUME i = p PROVE last # {} /\ Max(last) = idx[k].off
  <2>1. idx[k].off \in DOMAIN f /\ f[idx[k].off].key = k
    BY <1>t, <1>z, <1>2, Zenon DEF EntryOK
  <2>2. ~(p < i)
    BY <1>i, <1>2
  <2>3. \A o \in last : o <= idx[k].off
    BY <1>n, <1>l, <2>2, Zenon
  <2>4. \A o \in 1..idx[k].off : f[o] # Torn
    BY <1>n, <1>2, Zenon
  <2>5. PICK n : n = Readable(f)
    OBVIOUS
  <2>6. idx[k].off \in 1..n
    <3> HIDE DEF f
    <3> QED
      BY <1>r, <2>1, <2>4, <2>5
  <2>7. idx[k].off \in last
    BY <2>1, <2>5, <2>6, Zenon
  <2>8. PICK m : m = Max(last)
    BY Zenon
  <2>9. m \in last /\ m \in Nat /\ idx[k].off <= m /\ m <= idx[k].off
    <3>1. m \in last /\ idx[k].off <= m
      <4> HIDE DEF last
      <4> QED
        BY <1>l, <2>7, <2>8, Zenon
    <3>2. m \in DOMAIN f
      BY <1>l, <3>1, Zenon
    <3>3. m \in Nat
      <4> HIDE DEF f
      <4> QED
        BY <1>r, <3>2
    <3> QED
      BY <2>3, <3>1, <3>3, Zenon
  <2>10. m = idx[k].off
    <3>1. idx[k].off \in Nat
      BY <1>r, <2>5, <2>6
    <3> QED
      BY <2>9, <3>1
  <2> HIDE DEF last
  <2> QED
    BY <2>7, <2>8, <2>10, Zenon
<1>3. last = Matches(wk.sel[p], k)
  BY Zenon DEF Matches
<1> HIDE DEF last
<1> QED
  BY <1>1, <1>2, <1>3, Zenon

\* The scan: the latest value of a calm key becomes the record its entry locates.
LEMMA ScanCompactOK ==
    ASSUME IndexInv, CompactOK, ScanSegment
    PROVE  CompactOK'
<1> USE DEF segVars, engVars
<1>t. /\ wk \in WorkerStates /\ FilesOK /\ wk.pc = "scan" /\ wk.left # <<>>
      /\ wk.sel \in Seq(Nat) /\ wk.left \in Seq(Nat) /\ wk.calm \subseteq Keys
      /\ Range(wk.left) \subseteq Range(wk.sel) /\ Range(wk.sel) \subseteq Segs
  <2>1. wk.pc = "scan"
    BY Zenon DEF ScanSegment
  <2> QED
    BY <2>1 DEF IndexInv, TypeOK, WorkerStates, WorkerOK
<1>c. /\ \A j \in Keys : wk.latest[j] = Torn \/ wk.latest[j].key = j
      /\ Len(wk.left) <= Len(wk.sel)
      /\ \A j \in 1..Len(wk.left) : wk.left[j] = wk.sel[Len(wk.sel) - Len(wk.left) + j]
      /\ wk.batch = {}
      /\ \A k \in wk.calm : Found(k) /\ Newest(k) /\ Seen(k)
  BY <1>t, Zenon DEF CompactOK, ScanOK, Selected
<1>u. UNCHANGED <<file, idx, list>> /\ compactionWorker
  BY Zenon DEF ScanSegment, compactionWorker, compactSegments
<1>f. ASSUME NEW k \in wk.calm PROVE Found(k)'
  <2>1. wk.pc \notin {"batch", "list"} /\ Range(list) \subseteq Range(list') /\ idx'[k] = idx[k]
    BY <1>t, <1>u, Zenon
  <2> QED
    BY <1>t, <1>c, <1>u, <2>1, WorkerKeeps, Zenon
<1>1. CASE wk' = [wk EXCEPT !.pc = "release"]
  <2>1. /\ wk'.pc = "release" /\ wk'.latest = wk.latest /\ wk'.batch = wk.batch
        /\ wk'.calm = wk.calm
    BY <1>t, <1>1 DEF WorkerStates
  <2>2. "release" \notin Selected /\ "release" \notin {"sync", "index", "batch"}
    BY DEF Selected
  <2>3. ScanOK' /\ Written'
    BY <1>c, <2>1, <2>2, Zenon DEF ScanOK, Written
  <2>4. ASSUME NEW k \in wk'.calm PROVE Newest(k)' /\ Seen(k)' /\ Collected(k)'
    BY <2>1, <2>2, Zenon DEF Newest, Seen, Collected
  <2> QED
    BY <1>f, <2>1, <2>3, <2>4, Zenon DEF CompactOK
<1>2. CASE wk' # [wk EXCEPT !.pc = "release"]
  <2> DEFINE s == Head(wk.left)
             last(k) == {i \in 1..Readable(file[s]) : file[s][i].key = k}
             found == [k \in Keys |-> IF last(k) = {} THEN wk.latest[k] ELSE file[s][Max(last(k))]]
  <2>0. \E q \in {"create", "scan"} :
          /\ wk' = [wk EXCEPT !.latest = found, !.left = Tail(@), !.pc = q]
          /\ q = IF Len(wk.left) = 1 THEN "create" ELSE "scan"
    BY <1>2, Zenon DEF ScanSegment
  <2>1. PICK new, q :
          /\ new = found /\ wk' = [wk EXCEPT !.latest = new, !.left = Tail(@), !.pc = q]
          /\ q = IF Len(wk.left) = 1 THEN "create" ELSE "scan"
          /\ q \in {"create", "scan"}
    <3> HIDE DEF found
    <3> QED
      BY <2>0, Zenon
  <2>2. /\ wk'.pc = q /\ wk'.latest = new /\ wk'.left = Tail(wk.left) /\ wk'.sel = wk.sel
        /\ wk'.batch = wk.batch /\ wk'.calm = wk.calm
    <3> HIDE DEF found
    <3>1. wk' = [wk EXCEPT !.latest = new, !.left = Tail(@), !.pc = q]
      BY <2>1, Zenon
    <3> QED
      BY <1>t, <3>1 DEF WorkerStates
  <2> HIDE DEF s, last, found
  <2>3. PICK n \in Nat, m \in Nat :
          /\ n = Len(wk.sel) /\ m = Len(wk.left) /\ m <= n
          /\ \A j \in 1..m : wk.left[j] = wk.sel[n - m + j]
    <3>1. Len(wk.sel) \in Nat /\ Len(wk.left) \in Nat
      BY <1>t
    <3> QED
      BY <1>c, <3>1, Zenon
  <2>4. /\ m >= 1 /\ m <= n /\ n - m + 1 \in DOMAIN wk.sel /\ s = wk.sel[n - m + 1] /\ s \in Segs
        /\ Len(Tail(wk.left)) = m - 1 /\ \A j \in 1..(m - 1) : Tail(wk.left)[j] = wk.left[j + 1]
    <3>1. /\ m >= 1 /\ Len(Tail(wk.left)) = m - 1 /\ \A j \in 1..(m - 1) : Tail(wk.left)[j] = wk.left[j + 1]
      BY <1>t, <2>3, TailElements
    <3>2. DOMAIN wk.sel = 1..n
      BY <1>t, <2>3
    <3>3. n - m + 1 \in DOMAIN wk.sel /\ 1 \in 1..m
      <4>1. m >= 1 /\ m <= n
        BY <2>3, <3>1, Zenon
      <4>2. n - m + 1 \in 1..n /\ 1 \in 1..m
        BY <4>1
      <4> QED
        BY <3>2, <4>2, Zenon
    <3>4. s = wk.left[1]
      BY <1>t DEF s
    <3>5. s = wk.sel[n - m + 1]
      BY <2>3, <3>3, <3>4, Zenon
    <3>6. s \in Segs
      BY <1>t, <3>3, <3>5, Zenon DEF Range
    <3> QED
      BY <2>3, <3>1, <3>3, <3>5, <3>6, Zenon
  <2>5. ScanOK'
    <3>1. ASSUME NEW j \in Keys PROVE wk'.latest[j] = Torn \/ wk'.latest[j].key = j
      <4>1. last(j) # {} => Max(last(j)) \in last(j)
        BY <1>t, <2>4, ScanType, Zenon DEF last
      <4>2. wk'.latest[j] = IF last(j) = {} THEN wk.latest[j] ELSE file[s][Max(last(j))]
        BY <2>1, <2>2, Zenon DEF found
      <4>3. CASE last(j) = {}
        BY <1>c, <4>2, <4>3, Zenon
      <4>4. CASE last(j) # {}
        <5>1. file[s][Max(last(j))].key = j
          BY <4>1, <4>4, Zenon DEF last
        <5> QED
          BY <4>2, <4>4, <5>1, Zenon
      <4> QED
        BY <4>3, <4>4
    <3>2. Len(wk'.left) <= Len(wk'.sel)
          /\ \A j \in 1..Len(wk'.left) : wk'.left[j] = wk'.sel[Len(wk'.sel) - Len(wk'.left) + j]
      <4>1. \A j \in 1..(m - 1) : Tail(wk.left)[j] = wk.sel[n - (m - 1) + j]
        <5>1. \A j \in 1..m : wk.left[j] = wk.sel[n - m + j]
          BY <2>3, Zenon
        <5>2. ASSUME NEW j \in 1..(m - 1) PROVE wk.left[j + 1] = wk.sel[n - (m - 1) + j]
          <6>1. j + 1 \in 1..m /\ n - m + (j + 1) = n - (m - 1) + j
            OBVIOUS
          <6> QED
            BY <5>1, <6>1, Zenon
        <5> QED
          BY <2>4, <5>2, Zenon
      <4>2. m - 1 <= n
        BY <2>3, <2>4
      <4>3. Len(wk'.left) = m - 1 /\ Len(wk'.sel) = n
        BY <2>2, <2>3, <2>4, Zenon
      <4> DEFINE Ends(left, sel, a, b) == a <= b /\ \A j \in 1..a : left[j] = sel[b - a + j]
      <4>4. Ends(Tail(wk.left), wk.sel, m - 1, n)
        BY <4>1, <4>2, Zenon
      <4>5. Ends(wk'.left, wk'.sel, Len(wk'.left), Len(wk'.sel))
        <5> HIDE DEF Ends
        <5> QED
          BY <2>2, <4>3, <4>4, Zenon
      <4> QED
        BY <4>5, Zenon
    <3>3. wk'.pc \in Selected \ {"scan"} => wk'.left = <<>>
      <4>1. ASSUME wk'.pc # "scan" PROVE wk'.left = <<>>
        <5>1. m = 1
          BY <2>1, <2>2, <2>3, <4>1, Zenon
        <5>2. Tail(wk.left) \in Seq(Nat) /\ Len(Tail(wk.left)) = 0
          BY <1>t, <2>4, <5>1, TailElements
        <5>3. \A t \in Seq(Nat) : Len(t) = 0 => t = <<>>
          OBVIOUS
        <5> QED
          BY <2>2, <5>2, <5>3, Zenon
      <4> QED
        BY <4>1
    <3> QED
      BY <1>c, <2>2, <3>1, <3>2, <3>3, Zenon DEF ScanOK
  <2>6. Written'
    <3>1. q \notin {"sync", "index", "batch"}
      BY <2>1
    <3> QED
      BY <2>2, <3>1, Zenon DEF Written
  <2>7. ASSUME NEW k \in wk.calm PROVE Newest(k)' /\ Collected(k)'
    <3>1. Collected(k)'
      <4>1. q # "index" /\ q \notin {"batch", "list"}
        BY <2>1
      <4> QED
        BY <2>2, <4>1, Zenon DEF Collected
    <3>2. CASE wk'.pc # "scan"
      BY <3>1, <3>2, Zenon DEF Newest
    <3>3. CASE wk'.pc = "scan"
      <4> DEFINE Last(sel, f, e) ==
            \A i \in DOMAIN sel : e.seg = sel[i] =>
                /\ \A o \in 1..e.off : f[sel[i]][o] # Torn
                /\ \A j \in DOMAIN sel : \A o \in DOMAIN f[sel[j]] :
                      f[sel[j]][o].key = k => j < i \/ (j = i /\ o <= e.off)
      <4>1. Last(wk.sel, file, idx[k])
        BY <1>t, <1>c, Zenon DEF Newest
      <4>2. Last(wk'.sel, file', idx'[k]) => Newest(k)'
        BY Zenon DEF Newest
      <4> HIDE DEF Last
      <4> QED
        BY <1>u, <2>2, <3>1, <4>1, <4>2, Zenon
    <3> QED
      BY <3>2, <3>3
  <2>8. ASSUME NEW k \in wk.calm PROVE Seen(k)'
    <3>k. k \in Keys /\ Newest(k) /\ Seen(k)
      BY <1>t, <1>c
    <3>1. ASSUME NEW i \in 1..(n - (m - 1)), idx[k].seg = wk.sel[i]
          PROVE  new[k] = file[idx[k].seg][idx[k].off]
      <4>1. i \in DOMAIN wk.sel /\ i \in Nat
        BY <1>t, <2>3, <2>4
      <4>2. new[k] = IF last(k) = {} THEN wk.latest[k] ELSE file[s][Max(last(k))]
        BY <2>1, <3>k, Zenon DEF found
      <4>3. /\ i < n - m + 1 => last(k) = {}
            /\ i = n - m + 1 => last(k) # {} /\ Max(last(k)) = idx[k].off
        <5>1. PICK p \in DOMAIN wk.sel : p = n - m + 1 /\ s = wk.sel[p]
          BY <2>4, Zenon
        <5>2. /\ i < p => last(k) = {}
              /\ i = p => last(k) # {} /\ Max(last(k)) = idx[k].off
          <6>1. last(k) = Matches(s, k)
            BY Zenon DEF last, Matches
          <6>2. wk.pc = "scan" /\ i \in DOMAIN wk.sel /\ p \in DOMAIN wk.sel
            BY <1>t, <4>1, <5>1, Zenon
          <6>3. /\ i < p => Matches(wk.sel[p], k) = {}
                /\ i = p => /\ Matches(wk.sel[p], k) # {}
                            /\ Max(Matches(wk.sel[p], k)) = idx[k].off
            BY <3>k, <3>1, <6>2, ScanFinds, Zenon
          <6> QED
            BY <5>1, <6>1, <6>3, Zenon
        <5> QED
          BY <5>1, <5>2, Zenon
      <4>4. CASE i < n - m + 1
        <5>1. i \in 1..(Len(wk.sel) - Len(wk.left))
          <6>1. i \in 1..(n - m)
            BY <4>1, <4>4
          <6> QED
            BY <2>3, <6>1, Zenon
        <5>2. "scan" \in Selected \ {"list"}
          BY DEF Selected
        <5>3. wk.latest[k] = file[idx[k].seg][idx[k].off]
          BY <1>t, <3>k, <3>1, <5>1, <5>2, Zenon DEF Seen
        <5> QED
          BY <4>2, <4>3, <4>4, <5>3, Zenon
      <4>5. CASE i = n - m + 1
        BY <2>4, <3>1, <4>2, <4>3, <4>5, Zenon
      <4> QED
        BY <4>1, <4>4, <4>5
    <3>2. Len(wk'.sel) - Len(wk'.left) = n - (m - 1)
      BY <2>2, <2>3, <2>4, Zenon
    <3> QED
      BY <1>u, <2>2, <3>1, <3>2, Zenon DEF Seen
  <2> QED
    BY <1>f, <2>2, <2>5, <2>6, <2>7, <2>8, Zenon DEF CompactOK
<1> QED
  BY <1>1, <1>2
=============================================================================
