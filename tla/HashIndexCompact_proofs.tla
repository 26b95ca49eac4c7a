---------------------- MODULE HashIndexCompact_proofs -----------------------
(***************************************************************************)
(* What module HashIndex says of compaction: it changes no value that      *)
(* nobody writes meanwhile.                                                *)
(***************************************************************************)
EXTENDS HashIndexScan_proofs

\* The time each leaf is given, in seconds; a second attempt follows a failed one.
USE SMTT(30), SMTT(40)

----------------------------------------------------------------------------
\* What is done of a compaction after its scan.
LEMMA WorkKept ==
    ASSUME IndexInv, CompactOK, compactionWorker, UNCHANGED <<idx, list>>,
           wk.pc \in {"create", "write", "sync", "index"},
           wk'.pc \in {"write", "sync", "index", "batch"},
           wk'.sel = wk.sel, wk'.left = wk.left, wk'.latest = wk.latest, wk'.calm = wk.calm,
           wk'.pc \notin {"index", "batch"} => wk'.batch = {},
           Written', \A k \in wk.calm : Collected(k)'
    PROVE  CompactOK'
<1>1. /\ wk.pc \in Selected /\ wk.pc \in Selected \ {"scan"} /\ wk.pc \in Selected \ {"list"}
      /\ wk'.pc \in Selected /\ wk'.pc # "scan" /\ wk.pc \notin {"batch", "list"}
  BY DEF Selected
<1>t. wk.calm \subseteq Keys
  BY DEF IndexInv, TypeOK, WorkerStates
<1>c. ScanOK /\ \A k \in wk.calm : Found(k) /\ Seen(k)
  BY Zenon DEF CompactOK
<1>2. ScanOK'
  <2> DEFINE Ends(left, sel) == /\ Len(left) <= Len(sel)
                                /\ \A j \in 1..Len(left) : left[j] = sel[Len(sel) - Len(left) + j]
  <2>1. Ends(wk.left, wk.sel) /\ wk.left = <<>> /\ \A j \in Keys : wk.latest[j] = Torn \/ wk.latest[j].key = j
    BY <1>c, <1>1, Zenon DEF ScanOK
  <2>2. Ends(wk'.left, wk'.sel) /\ wk'.left = <<>> => ScanOK'
    BY <2>1, Zenon DEF ScanOK
  <2> HIDE DEF Ends
  <2> QED
    BY <2>1, <2>2, Zenon
<1>3. ASSUME NEW k \in wk.calm PROVE Found(k)' /\ Newest(k)' /\ Seen(k)'
  <2>1. Newest(k)'
    BY <1>1, Zenon DEF Newest
  <2>2. idx'[k] = idx[k] /\ Range(list) \subseteq Range(list') /\ k \in Keys
    BY <1>t, Zenon
  <2>3. Found(k) /\ Seen(k)
    BY <1>c
  <2> QED
    BY <1>1, <2>1, <2>2, <2>3, WorkerKeeps, Zenon
<1> QED
  BY <1>2, <1>3, Zenon DEF CompactOK

\* The new segment gets the latest values.
LEMMA WriteCompactOK ==
    ASSUME IndexInv, CompactOK, CompactWrite
    PROVE  CompactOK'
<1> USE DEF segVars, engVars
<1>t. /\ wk \in WorkerStates /\ wk.pc = "write" /\ wk.new \in Segs
      /\ wk.pc \notin {"index", "batch"}
  <2>1. wk.pc = "write"
    BY Zenon DEF CompactWrite
  <2> QED
    BY <2>1 DEF IndexInv, TypeOK, FilesOK, WorkerOK, Created
<1>1. PICK f \in Orders({wk.latest[k] : k \in {j \in Keys : ~wk.latest[j].del}}) :
        file' = [file EXCEPT ![wk.new] = f]
  BY Zenon DEF CompactWrite
<1>2. /\ wk' = [wk EXCEPT !.pc = "sync"] /\ UNCHANGED <<idx, list>> /\ compactionWorker
  BY Zenon DEF CompactWrite, compactionWorker, compactSegments
<1>3. /\ wk'.pc = "sync" /\ wk'.sel = wk.sel /\ wk'.left = wk.left /\ wk'.latest = wk.latest
      /\ wk'.calm = wk.calm /\ wk'.batch = wk.batch /\ wk'.new = wk.new
  BY <1>t, <1>2 DEF WorkerStates
<1>4. file'[wk'.new] = f
  BY <1>t, <1>1, <1>3 DEF Segs
<1>5. Written'
  <2> DEFINE K == {j \in Keys : ~wk.latest[j].del}
             V == {wk.latest[k] : k \in K}
  <2>1. IsFiniteSet(V)
    <3>1. IsFiniteSet(K)
      BY NamesAssumption, FS_Subset
    <3> DEFINE g == [k \in K |-> wk.latest[k]]
    <3>2. g \in Surjection(K, V)
      BY Zenon DEF Surjection
    <3> HIDE DEF K, V, g
    <3> QED
      BY <3>1, <3>2, FS_Surjection, Zenon
  <2>2. f \in Seq(V) /\ \A x \in V : \E i \in DOMAIN f : f[i] = x
    <3> HIDE DEF V
    <3> QED
      BY <1>1, <2>1, BijectionListsOnce, Zenon DEF Orders, V
  <2>3. \A o \in DOMAIN f : f[o] \in V
    <3> HIDE DEF V
    <3> QED
      BY <2>2
  <2> DEFINE Holding(h, latest) ==
        /\ \A o \in DOMAIN h : \E j \in Keys : ~latest[j].del /\ h[o] = latest[j]
        /\ \A j \in Keys : ~latest[j].del => \E o \in DOMAIN h : h[o] = latest[j]
  <2>4. Holding(f, wk.latest)
    BY <2>2, <2>3, Zenon
  <2>5. Holding(file'[wk'.new], wk'.latest) => Written'
    BY Zenon DEF Written
  <2> HIDE DEF Holding
  <2> QED
    BY <1>3, <1>4, <2>4, <2>5, Zenon
<1>6. wk.batch = {}
  BY <1>t, Zenon DEF CompactOK, ScanOK
<1>7. \A k \in wk.calm : Collected(k)'
  BY <1>3 DEF Collected
<1> QED
  BY <1>t, <1>2, <1>3, <1>5, <1>6, <1>7, WorkKept, Zenon

\* What has been written stays until the batch is applied.
LEMMA WrittenStays ==
    ASSUME Written, wk.pc \in {"sync", "index", "batch"}, wk'.new = wk.new,
           wk'.latest = wk.latest, file' = file
    PROVE  Written'
<1> DEFINE Holding(h, latest) ==
      /\ \A o \in DOMAIN h : \E j \in Keys : ~latest[j].del /\ h[o] = latest[j]
      /\ \A j \in Keys : ~latest[j].del => \E o \in DOMAIN h : h[o] = latest[j]
<1>1. Holding(file[wk.new], wk.latest)
  BY Zenon DEF Written
<1>2. Holding(file'[wk'.new], wk'.latest) => Written'
  BY Zenon DEF Written
<1> HIDE DEF Holding
<1> QED
  BY <1>1, <1>2, Zenon

\* Creating the new segment and syncing it.
LEMMA CreateCompactOK ==
    ASSUME IndexInv, CompactOK, CompactCreate \/ CompactSync, cnt'.cerr = 0
    PROVE  CompactOK'
<1> USE DEF segVars, engVars
<1>t. wk \in WorkerStates /\ cnt \in Counts /\ wk.calm \subseteq Keys
  BY DEF IndexInv, TypeOK, WorkerStates
<1>1. CASE CompactCreate
  <2>1. wk.pc = "create" /\ UNCHANGED <<idx, list>> /\ compactionWorker
    BY <1>1, Zenon DEF CompactCreate, compactionWorker, compactSegments
  <2>2. cnt' # [cnt EXCEPT !.cerr = @ + 1]
    BY <1>t DEF Counts
  <2>3. wk' = [wk EXCEPT !.pc = "write", !.new = Len(file) + 1]
    BY <1>1, <2>2, Zenon DEF CompactCreate
  <2>4. /\ wk'.pc = "write" /\ wk'.sel = wk.sel /\ wk'.left = wk.left /\ wk'.latest = wk.latest
        /\ wk'.calm = wk.calm /\ wk'.batch = wk.batch
    BY <1>t, <2>3 DEF WorkerStates
  <2>5. wk.batch = {}
    BY <2>1 DEF CompactOK, ScanOK
  <2>6. Written' /\ \A k \in wk.calm : Collected(k)'
    BY <2>4 DEF Written, Collected
  <2> QED
    BY <2>1, <2>4, <2>5, <2>6, WorkKept, Zenon
<1>2. CASE CompactSync
  <2>1. /\ wk.pc = "sync" /\ UNCHANGED <<file, idx, list>> /\ compactionWorker
        /\ wk' = [wk EXCEPT !.pc = "index", !.todo = Keys]
    BY <1>2, Zenon DEF CompactSync, compactionWorker, compactSegments
  <2>4. /\ wk'.pc = "index" /\ wk'.sel = wk.sel /\ wk'.left = wk.left /\ wk'.latest = wk.latest
        /\ wk'.calm = wk.calm /\ wk'.batch = wk.batch /\ wk'.new = wk.new /\ wk'.todo = Keys
    BY <1>t, <2>1 DEF WorkerStates
  <2>5. wk.batch = {}
    BY <2>1 DEF CompactOK, ScanOK
  <2>6. Written'
    BY <2>1, <2>4, WrittenStays, Zenon DEF CompactOK
  <2>7. \A k \in wk.calm : Collected(k)'
    BY <1>t, <2>4, <2>5 DEF Collected
  <2> QED
    BY <2>1, <2>4, <2>5, <2>6, <2>7, WorkKept, Zenon
<1> QED
  BY <1>1, <1>2

\* A calm key is collected when its turn comes.
LEMMA CollectCompactOK ==
    ASSUME IndexInv, CompactOK, ApplyCollect
    PROVE  CompactOK'
<1> USE DEF segVars, engVars
<1>t. wk \in WorkerStates /\ wk.calm \subseteq Keys
  BY DEF IndexInv, TypeOK, WorkerStates
<1>1. wk.pc = "index" /\ UNCHANGED <<file, idx, list>> /\ compactionWorker
  BY Zenon DEF ApplyCollect, compactionWorker, applyCompaction
<1>2. PICK k \in wk.todo :
        wk' = [wk EXCEPT !.todo = @ \ {k},
                 !.batch = @ \cup (IF idx[k].seg \in Range(wk.sel) THEN {k} ELSE {}),
                 !.pc = IF wk.todo = {k} THEN "batch" ELSE "index"]
  BY Zenon DEF ApplyCollect
<1>3. PICK B, p : /\ B = IF idx[k].seg \in Range(wk.sel) THEN {k} ELSE {}
                  /\ p = IF wk.todo = {k} THEN "batch" ELSE "index"
                  /\ p \in {"batch", "index"}
                  /\ wk' = [wk EXCEPT !.todo = @ \ {k}, !.batch = @ \cup B, !.pc = p]
  BY <1>2, Zenon
<1>4. /\ wk'.pc = p /\ wk'.sel = wk.sel /\ wk'.left = wk.left /\ wk'.latest = wk.latest
      /\ wk'.calm = wk.calm /\ wk'.new = wk.new
      /\ wk'.batch = wk.batch \cup B /\ wk'.todo = wk.todo \ {k}
  <2>1. wk' = [wk EXCEPT !.todo = @ \ {k}, !.batch = @ \cup B, !.pc = p]
    BY <1>3, Zenon
  <2> QED
    BY <1>t, <2>1 DEF WorkerStates
<1>5. Written'
  BY <1>1, <1>4, WrittenStays, Zenon DEF CompactOK
<1>6. ASSUME NEW j \in wk.calm PROVE Collected(j)'
  <2>1. /\ j \in wk.batch => idx[j].seg \in Range(wk.sel)
        /\ j \notin wk.todo /\ idx[j].seg \in Range(wk.sel) => j \in wk.batch
    BY <1>1, <1>6 DEF CompactOK, Collected
  <2>2. /\ j \in wk'.batch => idx[j].seg \in Range(wk.sel)
        /\ j \notin wk'.todo /\ idx[j].seg \in Range(wk.sel) => j \in wk'.batch
    BY <1>3, <1>4, <2>1
  <2>3. wk'.pc \in {"batch", "list"} => j \notin wk'.todo
    BY <1>3, <1>4
  <2> QED
    BY <1>1, <1>4, <2>2, <2>3, Zenon DEF Collected
<1>7. p \in {"write", "sync", "index", "batch"} /\ p \in {"index", "batch"}
  BY <1>3
<1> QED
  BY <1>1, <1>4, <1>5, <1>6, <1>7, WorkKept, Zenon


\* newIndex has the place of the latest value of a key, and nothing for a deletion.
LEMMA NewIndexLatest ==
    ASSUME IndexInv, ScanOK, Written, wk.pc = "batch", NEW k \in Keys
    PROVE  /\ wk.latest[k].del => newIndex(k) = NoEntry
           /\ ~wk.latest[k].del => /\ newIndex(k) # NoEntry /\ newIndex(k).seg = wk.new
                                   /\ file[wk.new][newIndex(k).off] = wk.latest[k]
<1> DEFINE f == file[wk.new]
           at == {i \in DOMAIN f : f[i].key = k}
<1>t. wk.new \in Segs /\ FilesOK
  BY DEF IndexInv, TypeOK, FilesOK, WorkerOK, Created
<1>1. Len(f) \in Nat /\ DOMAIN f = 1..Len(f) /\ wk.new \in Nat /\ wk.new # 0
  BY <1>t, FileTypes DEF Segs
<1>2. /\ \A o \in DOMAIN f : \E j \in Keys : ~wk.latest[j].del /\ f[o] = wk.latest[j]
      /\ \A j \in Keys : ~wk.latest[j].del => \E o \in DOMAIN f : f[o] = wk.latest[j]
  BY Zenon DEF Written
<1>3. \A j \in Keys : ~wk.latest[j].del => wk.latest[j].key = j
  BY DEF ScanOK, Torn
<1>4. \A i \in at : f[i] = wk.latest[k] /\ ~wk.latest[k].del
  <2> SUFFICES ASSUME NEW i \in DOMAIN f, f[i].key = k
               PROVE  f[i] = wk.latest[k] /\ ~wk.latest[k].del
    BY Zenon
  <2>1. PICK j \in Keys : ~wk.latest[j].del /\ f[i] = wk.latest[j]
    BY <1>2, Zenon
  <2>2. j = k
    BY <1>3, <2>1, Zenon
  <2> QED
    BY <2>1, <2>2, Zenon
<1>5. CASE wk.latest[k].del
  <2>1. at = {}
    BY <1>4, <1>5, Zenon
  <2> QED
    BY <1>5, <2>1, Zenon DEF newIndex
<1>6. CASE ~wk.latest[k].del
  <2>1. at # {}
    <3>1. PICK o \in DOMAIN f : f[o] = wk.latest[k]
      BY <1>2, <1>6, Zenon
    <3> QED
      BY <1>3, <1>6, <3>1, Zenon
  <2>2. Max(at) \in at
    <3>1. at \subseteq Nat /\ \A x \in at : x <= Len(f)
      BY <1>1
    <3> HIDE DEF at, f
    <3> QED
      BY <1>1, <2>1, <3>1, MaxIn, Zenon
  <2>3. PICK m \in at : m = Max(at)
    BY <2>2, Zenon
  <2>4. newIndex(k) = [seg |-> wk.new, off |-> m] /\ f[m] = wk.latest[k]
    BY <1>4, <2>1, <2>3, Zenon DEF newIndex
  <2>5. newIndex(k) # NoEntry /\ newIndex(k).seg = wk.new /\ newIndex(k).off = m
    BY <1>1, <2>4 DEF NoEntry
  <2> QED
    BY <1>6, <2>4, <2>5, Zenon
<1> QED
  BY <1>5, <1>6

\* UpdateBatch moves an entry to the same value in the new segment.
LEMMA MoveCompactOK ==
    ASSUME IndexInv, CompactOK, wk.pc = "batch", NEW k \in wk.batch, k \in wk.calm,
           idx'[k] = newIndex(k), UNCHANGED <<file, cur, wr>>,
           wk'.pc = wk.pc, wk'.sel = wk.sel, wk'.left = wk.left, wk'.latest = wk.latest,
           wk'.new = wk.new, wk'.batch = wk.batch \ {k}
    PROVE  Found(k)' /\ Seen(k)' /\ Collected(k)'
<1>t. /\ k \in Keys /\ wk.sel \in Seq(Nat) /\ wk.left \in Seq(Nat) /\ FilesOK
      /\ wk.latest \in [Keys -> Records]
      /\ Range(wk.sel) \subseteq Segs /\ wk.new \in Segs /\ wk.new \notin Range(wk.sel)
  BY DEF IndexInv, TypeOK, FilesOK, WorkerOK, WorkerStates, Created
<1>0. 0 \notin Segs
  BY <1>t, FileTypes DEF Segs
<1>1. ScanOK /\ Written /\ Found(k) /\ Seen(k) /\ Collected(k)
  BY Zenon DEF CompactOK
<1>2. idx[k].seg \in Range(wk.sel)
  BY <1>1, Zenon DEF Collected
<1>3. idx[k] # NoEntry
  BY <1>0, <1>t, <1>2 DEF NoEntry
<1>4. wk.latest[k] = file[idx[k].seg][idx[k].off]
  <2>1. wk.left = <<>> /\ Len(wk.left) = 0
    <3>1. wk.pc \in Selected \ {"scan"}
      BY DEF Selected
    <3>2. wk.left = <<>>
      BY <1>1, <3>1, Zenon DEF ScanOK
    <3> QED
      BY <3>2
  <2>2. PICK i \in DOMAIN wk.sel : wk.sel[i] = idx[k].seg
    BY <1>2 DEF Range
  <2>3. i \in 1..(Len(wk.sel) - Len(wk.left))
    BY <1>t, <2>1, <2>2
  <2>4. wk.pc \in Selected \ {"list"}
    BY DEF Selected
  <2> QED
    BY <1>1, <2>2, <2>3, <2>4, Zenon DEF Seen
<1>5. cur[k] = Visible(wk.latest[k])
  BY <1>1, <1>3, <1>4, Zenon DEF Found, Indexed, At
<1>6. /\ wk.latest[k].del => idx'[k] = NoEntry
      /\ ~wk.latest[k].del => /\ idx'[k] # NoEntry /\ idx'[k].seg = wk.new
                              /\ file[wk.new][idx'[k].off] = wk.latest[k]
  BY <1>1, <1>t, NewIndexLatest, Zenon
<1>7. idx'[k].seg \notin Range(wk.sel)
  <2>1. NoEntry.seg = 0
    BY DEF NoEntry
  <2> QED
    BY <1>0, <1>6, <1>t, <2>1, Zenon
<1>8. cur[k] = IF idx'[k] = NoEntry THEN 0 ELSE Visible(file[idx'[k].seg][idx'[k].off])
  BY <1>5, <1>6, Zenon DEF Visible
<1>9. Found(k)'
  <2>1. ~Writing(k)' /\ Indexed(k)'
    BY <1>1, <1>8, Zenon DEF Found, Writing, Indexed, At
  <2>2. idx'[k] # NoEntry => wk'.pc \in {"batch", "list"} /\ idx'[k].seg = wk'.new
    BY <1>6
  <2> QED
    BY <2>1, <2>2, Zenon DEF Found
<1>10. Seen(k)'
  <2>1. \A i \in 1..(Len(wk.sel) - Len(wk.left)) : wk.sel[i] \in Range(wk.sel)
    BY <1>t DEF Range
  <2> QED
    BY <1>7, <2>1, Zenon DEF Seen
<1>11. Collected(k)'
  BY <1>7, Zenon DEF Collected
<1> QED
  BY <1>9, <1>10, <1>11

\* UpdateBatch, shard by shard, and its end.
LEMMA BatchCompactOK ==
    ASSUME IndexInv, CompactOK, ApplyBatch
    PROVE  CompactOK'
<1> USE DEF segVars, engVars
<1>t. /\ wk \in WorkerStates /\ wk.calm \subseteq Keys /\ wk.batch \subseteq Keys
      /\ idx \in [Keys -> Entries]
  BY DEF IndexInv, TypeOK, WorkerStates
<1>1. wk.pc = "batch" /\ UNCHANGED <<file, list, cur, wr>> /\ compactionWorker
  BY Zenon DEF ApplyBatch, compactionWorker, applyCompaction
<1>c. ScanOK /\ Written /\ \A j \in wk.calm : Found(j) /\ Newest(j) /\ Seen(j) /\ Collected(j)
  BY Zenon DEF CompactOK
<1>2. ASSUME NEW k \in wk.batch, idx' = [idx EXCEPT ![k] = newIndex(k)],
             wk' = [wk EXCEPT !.batch = @ \ {k}]
      PROVE  CompactOK'
  <2>1. /\ wk'.pc = wk.pc /\ wk'.sel = wk.sel /\ wk'.left = wk.left /\ wk'.latest = wk.latest
        /\ wk'.new = wk.new /\ wk'.batch = wk.batch \ {k} /\ wk'.calm = wk.calm
    BY <1>t, <1>2 DEF WorkerStates
  <2>2. idx'[k] = newIndex(k) /\ \A j \in Keys \ {k} : idx'[j] = idx[j]
    BY <1>t, <1>2
  <2>3. ScanOK'
    BY <1>1, <1>c, <2>1, Zenon DEF ScanOK
  <2>4. Written'
    BY <1>1, <1>c, <2>1, WrittenStays, Zenon
  <2>5. ASSUME NEW j \in wk.calm PROVE Found(j)' /\ Newest(j)' /\ Seen(j)' /\ Collected(j)'
    <3>1. Newest(j)'
      BY <1>1, <2>1 DEF Newest
    <3>2. CASE j = k
      BY <1>1, <1>2, <2>1, <2>2, <2>5, <3>1, <3>2, MoveCompactOK, Zenon
    <3>3. CASE j # k
      <4>1. j \in Keys /\ idx'[j] = idx[j] /\ Found(j) /\ Seen(j) /\ Collected(j)
        BY <1>t, <1>c, <2>2, <3>3
      <4>2. Range(list) \subseteq Range(list') /\ wk.pc \in Selected \ {"list"}
        BY <1>1 DEF Selected
      <4>3. Found(j)' /\ Seen(j)'
        BY <1>1, <2>1, <4>1, <4>2, WorkerKeeps, Zenon
      <4>4. Collected(j)'
        BY <1>1, <2>1, <3>3, <4>1, Zenon DEF Collected
      <4> QED
        BY <3>1, <4>3, <4>4
    <3> QED
      BY <3>2, <3>3
  <2> QED
    BY <2>1, <2>3, <2>4, <2>5, Zenon DEF CompactOK
<1>3. ASSUME wk.batch = {}, wk' = [wk EXCEPT !.pc = "list"], UNCHANGED idx
      PROVE  CompactOK'
  <2>1. /\ wk'.pc = "list" /\ wk'.sel = wk.sel /\ wk'.left = wk.left /\ wk'.latest = wk.latest
        /\ wk'.new = wk.new /\ wk'.batch = wk.batch /\ wk'.calm = wk.calm
    BY <1>t, <1>3 DEF WorkerStates
  <2>2. wk.pc \in Selected /\ wk.pc \in Selected \ {"scan"}
    BY <1>1 DEF Selected
  <2>3. ScanOK'
    BY <1>3, <1>c, <2>1, <2>2, Zenon DEF ScanOK
  <2>4. Written'
    BY <2>1 DEF Written
  <2>5. ASSUME NEW j \in wk.calm PROVE Found(j)' /\ Newest(j)' /\ Seen(j)' /\ Collected(j)'
    <3>1. Newest(j)' /\ Seen(j)'
      BY <2>1 DEF Newest, Seen, Selected
    <3>2. j \in Keys /\ idx'[j] = idx[j] /\ Found(j) /\ Collected(j)
      BY <1>t, <1>c, <1>3
    <3>3. Range(list) \subseteq Range(list') /\ wk'.pc \in {"batch", "list"}
      BY <1>1, <2>1
    <3>4. Found(j)'
      BY <1>1, <2>1, <3>2, <3>3, WorkerKeeps, Zenon
    <3>5. Collected(j)'
      BY <1>1, <2>1, <3>2, <3>3, Zenon DEF Collected
    <3> QED
      BY <3>1, <3>4, <3>5
  <2> QED
    BY <2>1, <2>3, <2>4, <2>5, Zenon DEF CompactOK
<1> QED
  BY <1>2, <1>3, Zenon DEF ApplyBatch


\* The new segment takes the place of the compacted ones, which no calm key needs.
LEMMA ListCompactOK ==
    ASSUME IndexInv, CompactOK, ApplyList
    PROVE  CompactOK'
<1> USE DEF segVars, engVars
<1>t. wk \in WorkerStates /\ list \in Seq(Nat) /\ wk.sel \in Seq(Nat)
  BY DEF IndexInv, TypeOK, WorkerStates
<1>1. /\ wk.pc = "list" /\ UNCHANGED <<file, idx, active, cur, wr>>
      /\ list' = Append(Remaining(list, wk.sel), wk.new)
      /\ wk' = [wk EXCEPT !.pc = "remove", !.left = wk.sel]
  BY Zenon DEF ApplyList
<1>2. /\ wk'.pc = "remove" /\ wk'.latest = wk.latest /\ wk'.batch = wk.batch
      /\ wk'.calm = wk.calm
  BY <1>1, <1>t DEF WorkerStates
<1>3. Range(list') = (Range(list) \ Range(wk.sel)) \cup {wk.new}
  <2>1. PICK r \in Seq(Nat) : r = Remaining(list, wk.sel)
    BY <1>t, RemainingExact, Zenon
  <2>2. Range(r) = Range(list) \ Range(wk.sel)
    BY <1>t, <2>1, RemainingExact, Zenon
  <2>3. Range(Append(r, wk.new)) = Range(r) \cup {wk.new}
    BY <2>1, AppendElements, Zenon
  <2> QED
    BY <1>1, <2>1, <2>2, <2>3, Zenon
<1>4. wk'.pc \notin Selected /\ wk'.pc \notin {"sync", "index", "batch"}
  BY <1>2 DEF Selected
<1>c. ScanOK /\ wk.batch = {} /\ \A k \in wk.calm : Found(k) /\ Collected(k)
  BY <1>1 DEF CompactOK, ScanOK
<1>5. ScanOK' /\ Written'
  BY <1>2, <1>4, <1>c, Zenon DEF ScanOK, Written
<1>6. ASSUME NEW k \in wk.calm PROVE Found(k)'
  <2>1. Found(k) /\ idx[k].seg \notin Range(wk.sel)
    BY <1>1, <1>c, <1>6 DEF Collected
  <2>2. idx[k] # NoEntry => Listed(idx[k].seg)'
    <3>1. idx[k] # NoEntry => Listed(idx[k].seg) \/ idx[k].seg = wk.new
      BY <2>1, Zenon DEF Found
    <3>2. Listed(idx[k].seg) \/ idx[k].seg = wk.new
          => (idx[k].seg = active /\ ~Rotating) \/ idx[k].seg \in Range(list')
      BY <1>3, <2>1 DEF Listed
    <3> QED
      BY <1>1, <3>1, <3>2, Zenon DEF Listed, Rotating
  <2>3. ~Writing(k)' /\ Indexed(k)'
    BY <1>1, <2>1, Zenon DEF Found, Writing, Indexed, At
  <2> QED
    BY <1>1, <2>2, <2>3, Zenon DEF Found
<1>7. ASSUME NEW k \in wk.calm PROVE Newest(k)' /\ Seen(k)' /\ Collected(k)'
  BY <1>2, <1>4 DEF Newest, Seen, Collected, Selected
<1> QED
  BY <1>2, <1>5, <1>6, <1>7, Zenon DEF CompactOK

\* The compacted segments are removed.
LEMMA RemoveCompactOK ==
    ASSUME IndexInv, CompactOK, ApplyRemove
    PROVE  CompactOK'
<1> USE DEF segVars, engVars
<1>t. wk \in WorkerStates /\ wk.calm \subseteq Keys
  BY DEF IndexInv, TypeOK, WorkerStates
<1>1. wk.pc = "remove" /\ UNCHANGED <<idx, list>> /\ compactionWorker
  BY Zenon DEF ApplyRemove, compactionWorker, applyCompaction
<1>2. PICK p \in {"release", "remove"} : wk' = [wk EXCEPT !.left = Tail(@), !.pc = p]
  BY Zenon DEF ApplyRemove
<1>3. /\ wk'.pc = p /\ wk'.latest = wk.latest /\ wk'.batch = wk.batch /\ wk'.calm = wk.calm
  BY <1>2, <1>t DEF WorkerStates
<1>4. /\ wk'.pc \notin Selected /\ wk'.pc \notin {"index", "batch", "list"}
      /\ wk'.pc \notin {"sync", "index", "batch"}
  BY <1>2, <1>3 DEF Selected
<1>c. ScanOK /\ wk.batch = {} /\ \A k \in wk.calm : Found(k)
  <2>1. ScanOK /\ \A k \in wk.calm : Found(k)
    BY Zenon DEF CompactOK
  <2>2. wk.batch = {}
    BY <1>1, <2>1 DEF ScanOK
  <2> QED
    BY <2>1, <2>2
<1>5. ScanOK' /\ Written'
  BY <1>3, <1>4, <1>c, Zenon DEF ScanOK, Written
<1>6. ASSUME NEW k \in wk.calm PROVE Found(k)' /\ Newest(k)' /\ Seen(k)' /\ Collected(k)'
  <2>1. k \in Keys /\ idx'[k] = idx[k] /\ Range(list) \subseteq Range(list') /\ Found(k)
    BY <1>1, <1>c, <1>t
  <2>2. Found(k)'
    <3>1. wk.pc \notin {"batch", "list"}
      BY <1>1
    <3> QED
      BY <1>1, <2>1, <3>1, WorkerKeeps, Zenon
  <2>3. Newest(k)' /\ Seen(k)' /\ Collected(k)'
    BY <1>4 DEF Newest, Seen, Collected, Selected
  <2> QED
    BY <2>2, <2>3
<1> QED
  BY <1>3, <1>5, <1>6, Zenon DEF CompactOK

\* The latest values of an idle worker.
LEMMA IdleWorkerRests ==
    /\ IdleWorker.pc \in Resting /\ IdleWorker.calm = {} /\ IdleWorker.batch = {}
    /\ \A j \in Keys : IdleWorker.latest[j] = Torn \/ IdleWorker.latest[j].key = j
<1>1. /\ IdleWorker.pc = "wait" /\ IdleWorker.calm = {} /\ IdleWorker.batch = {}
      /\ IdleWorker.latest = NoValue
  BY DEF IdleWorker
<1>2. \A j \in Keys : NoValue[j] = Torn
  BY Zenon DEF NoValue
<1>3. "wait" \in Resting
  BY DEF Resting
<1> QED
  BY <1>1, <1>2, <1>3, Zenon

\* Every step of the worker.
LEMMA WorkerCompactOK ==
    ASSUME IndexInv, CompactOK, compactionWorker, cnt'.cerr = 0
    PROVE  CompactOK'
<1> USE DEF segVars, engVars
<1>t. wk \in WorkerStates /\ cnt \in Counts
  BY DEF IndexInv, TypeOK
<1>1. CASE WorkerReceive \/ WorkerStop
  <2>1. wk.pc = "wait" /\ \E p \in {"select", "done"} : wk' = [wk EXCEPT !.pc = p]
    BY <1>1, Zenon DEF WorkerReceive, WorkerStop
  <2>2. PICK p \in {"select", "done"} : wk' = [wk EXCEPT !.pc = p]
    BY <2>1
  <2>3. wk'.pc = p /\ wk'.calm = wk.calm /\ wk'.batch = wk.batch /\ wk'.latest = wk.latest
    BY <1>t, <2>2 DEF WorkerStates
  <2>4. wk.calm = {} /\ wk'.pc \in Resting
    BY <2>1, <2>3 DEF IndexInv, WorkerOK, Resting
  <2>5. wk.batch = {} /\ \A j \in Keys : wk.latest[j] = Torn \/ wk.latest[j].key = j
    BY <2>1 DEF CompactOK, ScanOK
  <2> QED
    BY <2>3, <2>4, <2>5, RestCompactOK, Zenon
<1>2. CASE WorkerRelease
  <2>1. wk' = IdleWorker
    BY <1>2, Zenon DEF WorkerRelease
  <2> QED
    BY <2>1, IdleWorkerRests, RestCompactOK, Zenon
<1>3. ~CompactFails
  BY <1>t DEF CompactFails, Counts
<1> QED
  BY <1>1, <1>2, <1>3, SelectCompactOK, ScanCompactOK, CreateCompactOK, WriteCompactOK,
     CollectCompactOK, BatchCompactOK, ListCompactOK, RemoveCompactOK, Zenon
     DEF compactionWorker, compactSegments, applyCompaction

\* The inductive invariant behind CompactionPreserves.
LEMMA CompactInvStep == SegmentInv /\ CompactInv /\ [Next]_vars => CompactInv'
<1> SUFFICES ASSUME SegmentInv, CompactInv, [Next]_vars, cnt'.cerr = 0 PROVE CompactOK'
  BY Zenon DEF CompactInv
<1>1. IndexInv /\ TypeOK
  BY Zenon DEF SegmentInv, IndexInv
<1>2. CASE Step
  <2>1. CompactOK
    BY <1>1, <1>2, NoError, Zenon DEF CompactInv
  <2> QED
    BY <1>1, <1>2, <2>1, OthersCompactOK, WorkerCompactOK, Zenon DEF Step
<1>3. CASE Crash \/ Restart
  <2>1. wk' = IdleWorker
    BY <1>3, Zenon DEF Crash, Restart, recover
  <2> QED
    BY <2>1, IdleWorkerRests, RestCompactOK, Zenon
<1> QED
  BY <1>2, <1>3, NextSteps, Zenon

\* The worker of a new engine waits.
LEMMA InitCompactInv == Init => CompactInv
<1> SUFFICES ASSUME Init PROVE CompactOK
  BY Zenon DEF CompactInv
<1>1. wk = IdleWorker
  BY Zenon DEF Init
<1>2. wk.pc \notin Selected /\ wk.pc \notin {"sync", "index", "batch"}
  BY <1>1, IdleWorkerFields DEF Selected
<1> QED
  BY <1>1, <1>2, IdleWorkerRests, Zenon DEF CompactOK, ScanOK, Written

\* A compaction does not change what a key reads as: as long as no file operation of a
\* rotation or a compaction has failed, a key that was calm when the segments were selected and that no
\* Put has touched since reads as the value last put, before the index is updated and
\* after the list is, for any number of keys, writers, readers and segments, whatever
\* is put to other keys, rotated, read and closed meanwhile.
THEOREM CompactionsPreserve == Spec => []CompactionPreserves
<1>1. SegmentInv /\ CompactInv => CompactionPreserves
  <2> SUFFICES ASSUME SegmentInv, CompactOK, cnt.cerr = 0, wk.pc \notin {"batch", "list"},
                      NEW k \in wk.calm
               PROVE  Lookup(k) = cur[k]
    BY Zenon DEF CompactInv, CompactionPreserves
  <2>t. /\ TypeOK /\ WorkerOK /\ CloseOK /\ OpenHeld /\ RefsExact /\ k \in Keys
        /\ idx[k] = NoEntry \/ EntryOK(k, idx[k])
    <3>1. IndexInv /\ CloseOK /\ OpenHeld /\ RefsExact
      BY Zenon DEF SegmentInv
    <3>2. TypeOK /\ WorkerOK /\ IndexPointsToRecord
      BY <3>1, Zenon DEF IndexInv
    <3>3. k \in Keys
      BY <3>2 DEF TypeOK, WorkerStates
    <3> QED
      BY <3>1, <3>2, <3>3, Zenon DEF IndexPointsToRecord
  <2>1. Found(k)
    BY Zenon DEF CompactOK
  <2>2. CASE idx[k] = NoEntry
    BY <2>1, <2>2, Zenon DEF Found, Indexed, Lookup
  <2>3. CASE idx[k] # NoEntry
    <3>1. Listed(idx[k].seg) /\ idx[k].seg \in Segs
      BY <2>1, <2>3, <2>t, Zenon DEF Found, EntryOK
    <3>2. idx[k].seg \in {active} \cup Range(list)
      BY <3>1, Zenon DEF Listed
    <3>3. wk.pc # "done" /\ cl \in {"open", "wait"}
      BY <2>t DEF WorkerOK, Resting, CloseOK, TypeOK
    <3>4. refs[idx[k].seg] > 0
      <4>1. Owned(idx[k].seg)
        BY <3>1, Zenon DEF Listed, Owned, Rotating
      <4>2. refs[idx[k].seg] = One(Owned(idx[k].seg)) + One(idx[k].seg \in Range(wk.sel))
        BY <2>t, <3>1, <3>3, Zenon DEF RefsExact
      <4>3. PICK n \in {0, 1} : n = One(idx[k].seg \in Range(wk.sel))
        BY Zenon DEF One
      <4>4. One(Owned(idx[k].seg)) = 1
        BY <4>1, Zenon DEF One
      <4>5. refs[idx[k].seg] = 1 + n
        BY <4>2, <4>3, <4>4, Zenon
      <4> QED
        BY <4>3, <4>5
    <3>5. idx[k].seg \in open
      BY <2>t, <3>1, <3>4, Zenon DEF OpenHeld
    <3> QED
      BY <2>1, <2>3, <3>2, <3>5, Zenon DEF Lookup, Found, Indexed, At
  <2> QED
    BY <2>2, <2>3
<1>2. Spec => []CompactInv
  BY SegmentInvariant, InitCompactInv, CompactInvStep, PTL DEF Spec
<1> QED
  BY <1>1, <1>2, SegmentInvariant, PTL
=============================================================================
