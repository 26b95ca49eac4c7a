-------------------------- MODULE HashIndex_proofs --------------------------
(***************************************************************************)
(* Proofs about module HashIndex, for any keys, goroutines, segment sizes   *)
(* and numbers of calls, compactions, crashes and restarts.                 *)
(***************************************************************************)
EXTENDS HashIndex, DataLemmas

\* The time each leaf is given, in seconds; a second attempt follows a failed one.
USE SMTT(30), SMTT(40)

\* Readable, what recover and compactSegments read of a file, ends before the
\* first torn record.
LEMMA ReadableExact ==
    ASSUME NEW S, NEW f \in Seq(S)
    PROVE  /\ Readable(f) \in 0..Len(f)
           /\ \A i \in 1..Readable(f) : f[i] # Torn
           /\ Readable(f) < Len(f) => f[Readable(f) + 1] = Torn
<1> DEFINE T == {i \in 1..Len(f) : f[i] = Torn}
           OK(n) == /\ \A i \in 1..n : f[i] # Torn
                    /\ n < Len(f) => f[n + 1] = Torn
<1>1. \E n \in 0..Len(f) : OK(n)
  <2>1. CASE T = {}
    <3>1. OK(Len(f))
      BY <2>1
    <3> QED
      BY <3>1
  <2>2. CASE T # {}
    <3>1. T \subseteq Nat
      OBVIOUS
    <3>2. PICK m \in T : \A x \in T : m <= x
      <4> HIDE DEF T
      <4> QED
        BY <2>2, <3>1, LeastNat, Zenon
    <3>3. m - 1 \in 0..Len(f) /\ OK(m - 1)
      BY <3>2
    <3> QED
      BY <3>3, Zenon
  <2> QED
    BY <2>1, <2>2
<1> QED
  BY <1>1 DEF Readable

\* applyCompaction's filter keeps the segments of the list that were not
\* compacted, each as often as it was there.
LEMMA RemainingExact ==
    ASSUME NEW l \in Seq(Nat), NEW sel \in Seq(Nat)
    PROVE  /\ Remaining(l, sel) \in Seq(Nat)
           /\ Range(Remaining(l, sel)) = Range(l) \ Range(sel)
           /\ Injective(l) => Injective(Remaining(l, sel))
<1> DEFINE Step(g, i) == IF i = 0 THEN <<>>
                         ELSE IF l[i] \in Range(sel) THEN g[i - 1]
                         ELSE Append(g[i - 1], l[i])
           Steps(g, n) == g = [i \in 0..n |-> Step(g, i)]
           Bad == {n \in 0..Len(l) : ~\E g : Steps(g, n)}
           kept == CHOOSE g : Steps(g, Len(l))
<1>1. \E g : Steps(g, Len(l))
  <2>1. ASSUME NEW g, NEW h, NEW i, g[i - 1] = h[i - 1] PROVE Step(g, i) = Step(h, i)
    BY <2>1, Zenon
  <2>2. ASSUME NEW g PROVE Step(g, 0) = <<>>
    OBVIOUS
  <2> HIDE DEF Step
  <2>3. SUFFICES ASSUME Bad # {} PROVE FALSE
    OBVIOUS
  <2>4. Bad \subseteq Nat
    OBVIOUS
  <2>5. PICK m \in Bad : \A x \in Bad : m <= x
    <3> HIDE DEF Bad
    <3> QED
      BY <2>3, <2>4, LeastNat, Zenon
  <2>6. m \in 0..Len(l) /\ ~\E g : Steps(g, m)
    OBVIOUS
  <2>7. m # 0
    <3> DEFINE z == [i \in 0..0 |-> <<>>]
    <3>1. Steps(z, 0)
      BY <2>2
    <3> HIDE DEF Steps, z
    <3> QED
      BY <2>6, <3>1, Zenon
  <2>8. m - 1 \in 0..Len(l) /\ m - 1 \notin Bad
    <3> HIDE DEF Bad
    <3> QED
      BY <2>4, <2>5, <2>6, <2>7
  <2>9. PICK h : Steps(h, m - 1)
    BY <2>8, Zenon
  <2> DEFINE g == [i \in 0..m |-> IF i < m THEN h[i] ELSE Step(h, m)]
  <2>10. \A i \in 0..(m - 1) : h[i] = Step(h, i)
    BY <2>9, Zenon
  <2>11. ASSUME NEW i \in 0..m PROVE g[i] = Step(g, i)
    <3>1. CASE i = 0
      BY <2>2, <2>6, <2>7, <2>10, <3>1
    <3>2. CASE i # 0
      <4>1. g[i] = Step(h, i)
        BY <2>6, <2>10
      <4>2. g[i - 1] = h[i - 1]
        BY <2>6, <3>2
      <4>3. Step(g, i) = Step(h, i)
        BY <2>1, <4>2
      <4> QED
        BY <4>1, <4>3, Zenon
    <3> QED
      BY <3>1, <3>2
  <2>12. Steps(g, m)
    BY <2>11, Zenon
  <2> QED
    BY <2>6, <2>12, Zenon
<1>2. Steps(kept, Len(l))
  BY <1>1, Zenon
<1> HIDE DEF kept
<1>3. Remaining(l, sel) = kept[Len(l)]
  BY DEF Remaining, kept
<1>4. kept[0] = <<>>
  BY <1>2
<1>5. ASSUME NEW i \in 1..Len(l)
      PROVE  kept[i] = IF l[i] \in Range(sel) THEN kept[i - 1]
                                              ELSE Append(kept[i - 1], l[i])
  <2>1. i \in 0..Len(l) /\ i # 0
    OBVIOUS
  <2>2. kept[i] = Step(kept, i)
    BY <1>2, <2>1, Zenon
  <2> QED
    BY <2>1, <2>2, Zenon
<1> HIDE DEF Steps
<1> DEFINE gone == Range(sel)
<1>6. ASSUME NEW i \in 1..Len(l)
      PROVE  kept[i] = IF l[i] \in gone THEN kept[i - 1] ELSE Append(kept[i - 1], l[i])
  BY <1>5, Zenon
<1> HIDE DEF gone
<1> DEFINE Good(i) ==
             /\ kept[i] \in Seq(Nat)
             /\ \A x \in 1..Len(kept[i]) : \E j \in 1..i : kept[i][x] = l[j] /\ l[j] \notin gone
             /\ \A j \in 1..i : l[j] \notin gone => \E x \in 1..Len(kept[i]) : kept[i][x] = l[j]
             /\ Injective(l) => Injective(kept[i])
           Worse == {i \in 0..Len(l) : ~Good(i)}
<1>7. ASSUME NEW i \in 1..Len(l), Good(i - 1) PROVE Good(i)
  <2>1. PICK k : k = kept[i - 1]
    OBVIOUS
  <2>2. PICK q : q = kept[i]
    OBVIOUS
  <2>3. /\ k \in Seq(Nat)
        /\ \A x \in 1..Len(k) : \E j \in 1..(i - 1) : k[x] = l[j] /\ l[j] \notin gone
        /\ \A j \in 1..(i - 1) : l[j] \notin gone => \E x \in 1..Len(k) : k[x] = l[j]
        /\ Injective(l) => Injective(k)
    BY <1>7, <2>1
  <2>4. CASE l[i] \in gone
    <3>1. q = k
      BY <1>6, <2>1, <2>2, <2>4, Zenon
    <3>2. \A x \in 1..Len(k) : \E j \in 1..i : k[x] = l[j] /\ l[j] \notin gone
      BY <2>3
    <3>3. \A j \in 1..i : l[j] \notin gone => j \in 1..(i - 1)
      BY <2>4
    <3>4. \A j \in 1..i : l[j] \notin gone => \E x \in 1..Len(k) : k[x] = l[j]
      BY <2>3, <3>3, Zenon
    <3>5. k = kept[i]
      BY <2>2, <3>1
    <3> QED
      BY <2>3, <3>2, <3>4, <3>5
  <2>5. CASE l[i] \notin gone
    <3>1. q = Append(k, l[i])
      BY <1>6, <2>1, <2>2, <2>5, Zenon
    <3>k. k \in Seq(Nat) /\ Len(k) \in Nat
      BY <2>3
    <3>2. /\ q \in Seq(Nat) /\ Len(q) = Len(k) + 1 /\ q[Len(k) + 1] = l[i]
          /\ \A x \in 1..Len(k) : q[x] = k[x]
      BY <3>k, <3>1
    <3>3. ASSUME NEW x \in 1..Len(q)
          PROVE  \E j \in 1..i : q[x] = l[j] /\ l[j] \notin gone
      <4>1. CASE x = Len(k) + 1
        BY <2>5, <3>2, <4>1
      <4>2. CASE x # Len(k) + 1
        <5>0. x \in 1..Len(k)
          BY <3>k, <3>2, <4>2
        <5>1. x \in 1..Len(k) /\ q[x] = k[x]
          BY <3>2, <5>0, Zenon
        <5>2. PICK j \in 1..(i - 1) : k[x] = l[j] /\ l[j] \notin gone
          BY <2>3, <5>1
        <5> QED
          BY <5>1, <5>2
      <4> QED
        BY <4>1, <4>2
    <3>4. ASSUME NEW j \in 1..i, l[j] \notin gone
          PROVE  \E x \in 1..Len(q) : q[x] = l[j]
      <4>1. CASE j = i
        <5>1. Len(k) + 1 \in 1..Len(q)
          BY <3>k, <3>2
        <5> QED
          BY <3>2, <4>1, <5>1, Zenon
      <4>2. CASE j # i
        <5>1. PICK x \in 1..Len(k) : k[x] = l[j]
          BY <2>3, <3>4, <4>2
        <5>2. x \in 1..Len(q) /\ q[x] = k[x]
          BY <2>3, <3>2
        <5> QED
          BY <5>1, <5>2
      <4> QED
        BY <4>1, <4>2
    <3>5. Injective(l) => Injective(q)
      <4>1. SUFFICES ASSUME Injective(l), NEW x \in 1..Len(q), NEW y \in 1..Len(q),
                            q[x] = q[y], x < y
                     PROVE  FALSE
        BY <3>2 DEF Injective
      <4>2. x \in 1..Len(k) /\ q[x] = k[x]
        <5>1. x \in 1..Len(k)
          BY <3>k, <3>2, <4>1
        <5> QED
          BY <3>2, <5>1, Zenon
      <4>3. CASE y = Len(k) + 1
        <5>1. PICK j \in 1..(i - 1) : k[x] = l[j]
          BY <2>3, <4>2, Zenon
        <5> QED
          <6>1. l[j] = l[i]
            BY <3>2, <4>1, <4>2, <4>3, <5>1, Zenon
          <6> QED
            BY <4>1, <6>1 DEF Injective
      <4>4. CASE y # Len(k) + 1
        <5>1. y \in 1..Len(k) /\ q[y] = k[y]
          <6>1. y \in 1..Len(k)
            BY <3>k, <3>2, <4>4
          <6> QED
            BY <3>2, <6>1, Zenon
        <5> QED
          <6>1. k[x] = k[y] /\ Injective(k)
            BY <2>3, <4>1, <4>2, <5>1, Zenon
          <6>2. x \in DOMAIN k /\ y \in DOMAIN k
            BY <3>k, <4>2, <5>1
          <6>3. x = y
            BY <6>1, <6>2, Zenon DEF Injective
          <6> QED
            BY <4>1, <6>3
      <4> QED
        BY <4>3, <4>4
    <3> QED
      BY <2>2, <3>2, <3>3, <3>4, <3>5, Zenon
  <2> QED
    BY <2>4, <2>5, Zenon
<1>8. Worse = {}
  <2> SUFFICES ASSUME Worse # {} PROVE FALSE
    OBVIOUS
  <2>1. Worse \subseteq Nat
    OBVIOUS
  <2>2. PICK m \in Worse : \A x \in Worse : m <= x
    <3> HIDE DEF Worse
    <3> QED
      BY <2>1, LeastNat, Zenon
  <2>3. Good(0)
    BY <1>4 DEF Injective
  <2> HIDE DEF Good
  <2> QED
    BY <1>7, <2>2, <2>3
<1>9. Good(Len(l))
  <2> HIDE DEF Good
  <2> QED
    BY <1>8
<1>10. PICK r : r = kept[Len(l)]
  OBVIOUS
<1>11. /\ r \in Seq(Nat)
       /\ Injective(l) => Injective(r)
       /\ \A x \in 1..Len(r) : \E j \in 1..Len(l) : r[x] = l[j] /\ l[j] \notin gone
       /\ \A j \in 1..Len(l) : l[j] \notin gone => \E x \in 1..Len(r) : r[x] = l[j]
  BY <1>9, <1>10, Zenon
<1>12. Range(r) = Range(l) \ gone
  <2>1. ASSUME NEW v \in Range(r) PROVE v \in Range(l) \ gone
    <3>1. PICK x \in 1..Len(r) : v = r[x]
      BY <1>11 DEF Range
    <3>2. PICK j \in 1..Len(l) : r[x] = l[j] /\ l[j] \notin gone
      BY <1>11, <3>1
    <3> QED
      BY <3>1, <3>2 DEF Range
  <2>2. ASSUME NEW v \in Range(l) \ gone PROVE v \in Range(r)
    <3>1. PICK j \in 1..Len(l) : v = l[j]
      BY <2>2 DEF Range
    <3>2. PICK x \in 1..Len(r) : r[x] = l[j]
      BY <1>11, <2>2, <3>1
    <3>3. x \in DOMAIN r /\ v = r[x]
      BY <1>11, <3>1, <3>2
    <3> QED
      BY <3>3, Zenon DEF Range
  <2> QED
    BY <2>1, <2>2
<1> QED
  BY <1>3, <1>10, <1>11, <1>12, Zenon DEF gone

----------------------------------------------------------------------------
Records == [key : Keys \cup {NoKey}, num : Nat, del : BOOLEAN]
Entries == [seg : Nat, off : Nat]
WriterStates ==
    [pc : {"idle", "append", "index", "sync", "end", "lock", "rotate", "create"},
     path : {"fast", "locked", "rotated"}, key : Keys \cup {NoKey}, num : Nat,
     del : BOOLEAN, seg : Nat, off : Nat]
ReaderStates ==
    [pc : {"idle", "active", "list", "read"}, key : Keys \cup {NoKey}, ent : Entries,
     win : SUBSET Nat, got : Int]
WorkerStates ==
    [pc : {"wait", "done", "select", "scan", "create", "write", "sync", "index", "batch",
           "list", "remove", "release"},
     sel : Seq(Nat), left : Seq(Nat), latest : [Keys -> Records], new : Nat,
     todo : SUBSET Keys, batch : SUBSET Keys, calm : SUBSET Keys]
PutStates == [key : Keys, del : BOOLEAN, done : BOOLEAN, safe : BOOLEAN, after : SUBSET Nat]
Counts == [sync : Nat, compact : Nat, close : Nat, crash : Nat, cerr : Nat, runs : Nat]

FilesOK ==
    /\ file \in Seq(Seq(Records)) /\ synced \in Seq(Nat) /\ refs \in Seq(Int)
    /\ Len(synced) = Len(file) /\ Len(refs) = Len(file)
    /\ open \in SUBSET Segs /\ disk \in SUBSET Segs

TypeOK ==
    /\ FilesOK
    /\ idx \in [Keys -> Entries] /\ active \in Segs /\ list \in Seq(Nat)
    /\ segMu \in Writers \cup {NoWriter}
    /\ wr \in [Writers -> WriterStates] /\ rd \in [Readers -> ReaderStates]
    /\ cl \in {"open", "wait", "list", "closed"} /\ wk \in WorkerStates
    /\ puts \in Seq(PutStates) /\ cur \in [Keys -> Nat] /\ cnt \in Counts

\* A segment that is created is a new one: what refers to a segment refers to one
\* that exists.
SegsOK ==
    /\ Range(list) \subseteq Segs
    /\ \A c \in Writers : wr[c].pc # "idle" => wr[c].key \in Keys /\ wr[c].seg \in Segs

\* segmentMu is held from PutLock to the end of the Put.
Holds(c) == \/ wr[c].pc \in {"rotate", "create"}
            \/ wr[c].pc \in {"append", "index", "sync", "end"} /\ wr[c].path # "fast"
MuExact == \A c \in Writers : Holds(c) => segMu = c

\* The record of a Put that is about to enter the index.
Appended ==
    \A c \in Writers : wr[c].pc = "index" =>
        /\ wr[c].off \in DOMAIN file[wr[c].seg]
        /\ file[wr[c].seg][wr[c].off]
             = [key |-> wr[c].key, num |-> wr[c].num, del |-> wr[c].del]

Resting == {"wait", "select", "done"}
Selected == {"scan", "create", "write", "sync", "index", "batch", "list"}
Created == {"write", "sync", "index", "batch", "list"}

\* The worker's segments: what it compacts is in the list until applyCompaction
\* takes it out, and nobody else knows the segment it writes.
WorkerOK ==
    /\ wk.pc \in Resting => wk.sel = <<>> /\ wk.left = <<>> /\ wk.calm = {}
    /\ wk.pc \in Selected => wk.sel # <<>> /\ Range(wk.sel) \subseteq Range(list)
    /\ wk.pc \in {"scan", "remove"} => wk.left # <<>>
    /\ wk.pc \in Created \cup {"remove"} =>
          /\ wk.new \in disk /\ wk.new \notin Range(wk.sel)
    /\ wk.pc \in Created =>
          /\ wk.new # active /\ wk.new \notin Range(list)
          /\ \A c \in Writers : wr[c].pc # "idle" => wr[c].seg # wk.new
    /\ wk.pc = "write" => file[wk.new] = <<>>
    /\ wk.pc \in {"write", "sync"} => disk \ {wk.new} # {}
    /\ Range(wk.left) \subseteq Range(wk.sel) /\ Range(wk.sel) \subseteq Segs
    /\ disk # {}

Rotating == \E c \in Writers : wr[c].pc = "create"

\* As long as no creation of a file has failed no segment is listed twice, and the
\* active one only in the middle of a rotation.
ListOK ==
    /\ Injective(list) /\ Injective(wk.sel) /\ Injective(wk.left)
    /\ active \in Range(list) \cup Range(wk.sel) => Rotating
    /\ Rotating => list # <<>>
    /\ wk.pc = "remove" => Range(wk.left) \cap Range(list) = {}

\* A segment with a reference is open.
OpenHeld == \A s \in Segs : refs[s] > 0 => s \in open

\* Close gives up the segments when the worker has stopped.
CloseOK == /\ closed <=> cl # "open"
           /\ cl \in {"list", "closed"} => wk.pc = "done"

IndexInv == TypeOK /\ SegsOK /\ MuExact /\ Appended /\ WorkerOK /\ IndexPointsToRecord
SegmentInv == /\ IndexInv /\ CloseOK /\ OpenHeld /\ DiskExact /\ RefsExact
              /\ cnt.cerr = 0 => ListOK

----------------------------------------------------------------------------
\* A new segment keeps the types of the files.
LEMMA CreateType ==
    ASSUME FilesOK, createSegment
    PROVE  FilesOK' /\ Segs' = Segs \cup {Len(file) + 1} /\ Len(file) + 1 \in Segs'
BY DEF FilesOK, createSegment, Segs

\* What the files hold are records.
LEMMA FileTypes ==
    ASSUME FilesOK
    PROVE  /\ Len(file) \in Nat /\ Segs = 1..Len(file)
           /\ \A s \in Segs : file[s] \in Seq(Records) /\ synced[s] \in Nat /\ refs[s] \in Int
           /\ \A s \in Segs : \A o \in DOMAIN file[s] : file[s][o] \in Records
<1>1. Len(file) \in Nat /\ Segs = 1..Len(file)
  BY DEF FilesOK, Segs
<1>2. \A s \in Segs : file[s] \in Seq(Records) /\ synced[s] \in Nat /\ refs[s] \in Int
  BY DEF FilesOK, Segs
<1>3. \A s \in Segs : \A o \in DOMAIN file[s] : file[s][o] \in Records
  BY <1>2
<1> QED
  BY <1>1, <1>2, <1>3

\* The worker at rest.
LEMMA IdleWorkerType == IdleWorker \in WorkerStates
BY DEF IdleWorker, WorkerStates, NoValue, Torn, Records

\* The counters of what has happened count on.
LEMMA CountsType ==
    ASSUME cnt \in Counts
    PROVE  /\ [cnt EXCEPT !.runs = @ + 1] \in Counts
           /\ [cnt EXCEPT !.cerr = @ + 1] \in Counts
BY DEF Counts

\* The new engine has the types.
LEMMA InitTypeOK == Init => TypeOK
BY NamesAssumption DEF Init, TypeOK, FilesOK, Segs, Entries, NoEntry, WriterStates,
   ReaderStates, WorkerStates, Counts, IdleWriter, IdleReader, IdleWorker, NoCalls, NoValue,
   Torn, Records

\* Nor does a write to a file or the sync of one change them.
LEMMA FileType ==
    ASSUME FilesOK, NEW s, NEW f \in Seq(Records), file' = [file EXCEPT ![s] = f],
           UNCHANGED <<synced, refs, open, disk>>
    PROVE  FilesOK' /\ Segs' = Segs
<1>1. file \in Seq(Seq(Records))
  BY DEF FilesOK
<1>2. [file EXCEPT ![s] = f] \in Seq(Seq(Records))
  BY <1>1, SeqUpdate
<1>3. Len([file EXCEPT ![s] = f]) = Len(file)
  BY <1>1, SeqUpdate
<1>4. file' \in Seq(Seq(Records)) /\ Len(file') = Len(file)
  BY <1>2, <1>3, Zenon
<1> QED
  BY <1>1, <1>4, Zenon DEF FilesOK, Segs

\* segment.sync keeps the type of what is synced.
LEMMA SyncType ==
    ASSUME FilesOK, NEW s \in Segs, SyncSeg(s)
    PROVE  synced' \in Seq(Nat) /\ Len(synced') = Len(file)
<1>1. Len(file[s]) \in Nat
  BY DEF FilesOK, Segs
<1> QED
  BY <1>1 DEF FilesOK, Segs, SyncSeg

\* A goroutine outside Put is a writer's state.
LEMMA IdleWriterType == IdleWriter \in WriterStates
BY DEF IdleWriter, WriterStates

\* The state of a Put that goes on with another segment or has its offset.
LEMMA WriterUpdate ==
    ASSUME NEW w \in WriterStates, NEW n \in Nat
    PROVE  /\ [w EXCEPT !.pc = "index", !.off = n] \in WriterStates
           /\ \A p \in {"append", "rotate"} :
                 [w EXCEPT !.pc = p, !.path = "locked", !.seg = n] \in WriterStates
           /\ [w EXCEPT !.pc = "append", !.path = "rotated", !.seg = n] \in WriterStates
<1>1. [w EXCEPT !.pc = "index", !.off = n] \in WriterStates
  BY Zenon DEF WriterStates
<1>2. ASSUME NEW p \in {"append", "rotate"}
      PROVE  [w EXCEPT !.pc = p, !.path = "locked", !.seg = n] \in WriterStates
  BY Zenon DEF WriterStates
<1>3. [w EXCEPT !.pc = "append", !.path = "rotated", !.seg = n] \in WriterStates
  BY Zenon DEF WriterStates
<1> QED
  BY <1>1, <1>2, <1>3, Zenon

\* Puts keep the types.
LEMMA PutTypeOK ==
    ASSUME TypeOK, NEW c \in Writers, Put(c)
    PROVE  TypeOK'
<1> USE DEF segVars, engVars
<1>w. wr \in [Writers -> WriterStates]
  BY DEF TypeOK
<1>f. FilesOK /\ active \in Segs
  BY DEF TypeOK
<1>a. active \in Nat
  BY <1>f DEF FilesOK, Segs
<1>p. puts \in Seq(PutStates) /\ wk \in WorkerStates /\ cnt \in Counts /\ list \in Seq(Nat)
  BY DEF TypeOK
<1>1. CASE PutBegin(c)
  <2>1. PICK k \in Keys, d \in BOOLEAN : 
          /\ wr' = [wr EXCEPT ![c] =
                      [pc |-> IF Size(active) < SegmentSizeBytes THEN "append"
                                                                 ELSE "lock",
                       path |-> "fast", key |-> k, num |-> Len(puts) + 1,
                       del |-> d, seg |-> active, off |-> 0]]
          /\ puts' = Append(puts,
                [key |-> k, del |-> d, done |-> FALSE, safe |-> FALSE,
                 after |-> {n \in DOMAIN puts : puts[n].key = k /\ puts[n].done}])
          /\ wk' = [wk EXCEPT !.calm = @ \ {k}]
    BY <1>1, Zenon DEF PutBegin
  <2>2. Len(puts) + 1 \in Nat /\ active \in Nat
    BY DEF TypeOK, FilesOK, Segs
  <2>3. wr' \in [Writers -> WriterStates] 
    BY <2>1, <2>2 DEF TypeOK, WriterStates
  <2>4. wk' \in WorkerStates
    BY <1>p, <2>1, Zenon DEF WorkerStates
  <2>5. puts' \in Seq(PutStates)
    BY <1>p, <2>1 DEF PutStates
  <2> QED BY <1>1, <2>3, <2>4, <2>5, Zenon DEF PutBegin, TypeOK, FilesOK, Segs
<1>2. CASE PutAppend(c)
  <2>1. wr' \in [Writers -> WriterStates]
    <3>1. wr[c].seg \in open => Len(file[wr[c].seg]) + 1 \in Nat
      BY DEF TypeOK, FilesOK, Segs
    <3> QED
      <4>1. \/ /\ wr' = [wr EXCEPT ![c] = [@ EXCEPT !.pc = "index", !.off = Len(file[wr[c].seg]) + 1]]
               /\ wr[c].seg \in open
            \/ wr' = [wr EXCEPT ![c].pc = "lock"]
            \/ wr' = [wr EXCEPT ![c] = IdleWriter]
        BY <1>2, Zenon DEF PutAppend
      <4>2. ASSUME wr' = [wr EXCEPT ![c] = [@ EXCEPT !.pc = "index", !.off = Len(file[wr[c].seg]) + 1]],
                   wr[c].seg \in open
            PROVE  wr' \in [Writers -> WriterStates]
        BY <1>w, <3>1, <4>2, WriterUpdate, Zenon
      <4>3. ASSUME wr' = [wr EXCEPT ![c].pc = "lock"]
            PROVE  wr' \in [Writers -> WriterStates]
        BY <1>w, <4>3 DEF WriterStates
      <4>4. ASSUME wr' = [wr EXCEPT ![c] = IdleWriter]
            PROVE  wr' \in [Writers -> WriterStates]
        BY <1>w, <4>4, IdleWriterType
      <4> QED
        BY <4>1, <4>2, <4>3, <4>4
  <2>2. FilesOK' /\ Segs' = Segs
    <3>1. [key |-> wr[c].key, num |-> wr[c].num, del |-> wr[c].del] \in Records
      BY DEF TypeOK, WriterStates, Records
    <3> QED
      <4>1. CASE wr[c].seg \in open
        <5> DEFINE r == [key |-> wr[c].key, num |-> wr[c].num, del |-> wr[c].del]
        <5>1. Append(file[wr[c].seg], r) \in Seq(Records)
          BY <1>f, <3>1, <4>1 DEF FilesOK, Segs
        <5>2. /\ file' = [file EXCEPT ![wr[c].seg] = Append(file[wr[c].seg], r)]
              /\ UNCHANGED <<synced, refs, open, disk>>
          BY <1>2, <4>1, Zenon DEF PutAppend
        <5> QED
          BY <1>f, <5>1, <5>2, FileType, Zenon
      <4>2. CASE wr[c].seg \notin open
        BY <1>f, <1>2, <4>2 DEF PutAppend, FilesOK, Segs
      <4> QED
        BY <4>1, <4>2
  <2> QED
    BY <1>2, <2>1, <2>2 DEF PutAppend, TypeOK
<1>3. CASE PutIndex(c)
  <2>0. wr' \in [Writers -> WriterStates]
    BY <1>w, <1>3 DEF PutIndex, WriterStates
  <2>1. wr' \in [Writers -> WriterStates] /\ idx' \in [Keys -> Entries]
    BY <1>3, <2>0, Zenon DEF PutIndex, TypeOK, WriterStates, Entries
  <2>2. Visible(wr[c]) \in Nat
    BY DEF TypeOK, WriterStates, Visible
  <2>3. cur' \in [Keys -> Nat] /\ rd' \in [Readers -> ReaderStates]
    BY <1>3, <2>2, Zenon DEF PutIndex, TypeOK, ReaderStates
  <2> QED
    BY <1>3, <2>1, <2>3, Zenon DEF PutIndex, TypeOK, FilesOK, Segs
<1>4. CASE PutSync(c)
  <2>1. wr' \in [Writers -> WriterStates]
    BY <1>w, <1>4 DEF PutSync, WriterStates
  <2>2. FilesOK' /\ Segs' = Segs
    BY <1>4, SyncType, Zenon DEF PutSync, TypeOK, FilesOK, Segs
  <2> QED
    BY <1>4, <2>1, <2>2 DEF PutSync, TypeOK
<1>5. CASE PutEnd(c)
  <2>1. wr' \in [Writers -> WriterStates]
    BY <1>5 DEF PutEnd, TypeOK, WriterStates, IdleWriter
  <2>2. puts' \in Seq(PutStates)
    <3>1. ASSUME NEW p \in PutStates
          PROVE  [p EXCEPT !.done = TRUE, !.safe = SyncOnWrite \/ ~PowerLoss] \in PutStates
      BY Zenon DEF PutStates
    <3> HIDE DEF PutStates
    <3> QED 
      <4>1. puts' = [puts EXCEPT ![wr[c].num] =
                    [@ EXCEPT !.done = TRUE, !.safe = SyncOnWrite \/ ~PowerLoss]]
        BY <1>5 DEF PutEnd
      <4>2. wr[c].num \in DOMAIN puts => puts[wr[c].num] \in PutStates
        BY <1>p
      <4> QED
        BY <1>p, <3>1, <4>1, <4>2, SeqUpdate, Zenon
  <2> QED
    BY <1>5, <2>1, <2>2, Zenon DEF PutEnd, TypeOK, FilesOK, Segs
<1>6. CASE PutLock(c)
  <2>1. wr' \in [Writers -> WriterStates]
    <3>1. PICK p \in {"append", "rotate"} :
              wr' = [wr EXCEPT ![c] = [@ EXCEPT !.pc = p, !.path = "locked", !.seg = active]]
      BY <1>6, Zenon DEF PutLock
    <3> QED
      BY <1>w, <1>a, <3>1, WriterUpdate, Zenon
  <2> QED
    BY <1>6, <2>1 DEF PutLock, TypeOK, FilesOK, Segs
<1>7. CASE RotateList(c)
  <2>1. wr' \in [Writers -> WriterStates]
    <3>1. wr' = [wr EXCEPT ![c].pc = "create"] \/ wr' = [wr EXCEPT ![c] = IdleWriter]
      BY <1>7 DEF RotateList
    <3> QED
      BY <1>w, <3>1, IdleWriterType DEF WriterStates
  <2>2. FilesOK' /\ Segs' = Segs
    BY <1>7, SyncType, Zenon DEF RotateList, TypeOK, FilesOK, Segs
  <2>3. list' \in Seq(Nat)
    <3>1. list' = Append(list, active) \/ list' = list
      BY <1>7 DEF RotateList
    <3> QED
      BY <1>p, <1>a, <3>1
  <2> QED
    BY <1>7, <2>1, <2>2, <2>3 DEF RotateList, TypeOK
<1>8. CASE RotateCreate(c)
  <2>1. Len(file) + 1 \in Nat
    BY DEF TypeOK, FilesOK
  <2>2. wr' \in [Writers -> WriterStates]
    <3>1. \/ wr' = [wr EXCEPT ![c] = [@ EXCEPT !.pc = "append", !.path = "rotated",
                                               !.seg = Len(file) + 1]]
          \/ wr' = [wr EXCEPT ![c] = IdleWriter]
      BY <1>8 DEF RotateCreate
    <3>2. ASSUME wr' = [wr EXCEPT ![c] = [@ EXCEPT !.pc = "append", !.path = "rotated",
                                               !.seg = Len(file) + 1]]
          PROVE  wr' \in [Writers -> WriterStates]
      BY <1>w, <2>1, <3>2, WriterUpdate, Zenon
    <3>3. ASSUME wr' = [wr EXCEPT ![c] = IdleWriter]
          PROVE  wr' \in [Writers -> WriterStates]
      BY <1>w, <3>3, IdleWriterType
    <3> QED
      BY <3>1, <3>2, <3>3
  <2>3. FilesOK' /\ active' \in Segs'
    BY <1>8, CreateType, Zenon DEF RotateCreate, TypeOK, FilesOK, Segs
  <2>4. cnt' \in Counts
    BY <1>p, <1>8 DEF RotateCreate, Counts
  <2> QED
    BY <1>8, <2>2, <2>3, <2>4 DEF RotateCreate, TypeOK
<1> QED
  BY <1>1, <1>2, <1>3, <1>4, <1>5, <1>6, <1>7, <1>8 DEF Put

\* So do Gets, ...
LEMMA GetTypeOK ==
    ASSUME TypeOK, IndexPointsToRecord, NEW r \in Readers, Get(r)
    PROVE  TypeOK'
<1> USE DEF segVars, engVars
<1>1. /\ UNCHANGED <<file, synced, refs, open, disk, idx, active, list, segMu, wr, cl, wk,
                     puts, cur, cnt>>
  BY DEF Get, GetBegin, GetActive, GetList, GetRead
<1>2. rd \in [Readers -> ReaderStates] /\ idx \in [Keys -> Entries] /\ cur \in [Keys -> Nat]
  BY DEF TypeOK
<1>3. ASSUME NEW v \in Int, Answer(r, v) PROVE rd' \in [Readers -> ReaderStates]
  BY <1>2, <1>3, ZenonT(40) DEF Answer, ReaderStates, Entries, NoEntry
<1>4. CASE GetBegin(r)
  <2>1. PICK k \in Keys, p \in {"idle", "active"} :
           rd' = [rd EXCEPT ![r] =
                   [pc |-> p, key |-> k, ent |-> idx[k], win |-> {cur[k]}, got |-> 0]]
    BY <1>4, Zenon DEF GetBegin
  <2>2. rd' \in [Readers -> ReaderStates]
    BY <1>2, <2>1 DEF ReaderStates
  <2> QED
    BY <1>1, <2>2 DEF TypeOK, FilesOK, Segs
<1>5. CASE GetActive(r)
  <2>1. rd' \in [Readers -> ReaderStates]
    BY <1>2, <1>5 DEF GetActive, ReaderStates
  <2> QED
    BY <1>1, <2>1, Zenon DEF TypeOK, FilesOK, Segs
<1>6. CASE GetList(r)
  <2>1. rd' = [rd EXCEPT ![r].pc = "read"] \/ Answer(r, -1)
    BY <1>6 DEF GetList, GetError
  <2>2. rd' = [rd EXCEPT ![r].pc = "read"] => rd' \in [Readers -> ReaderStates]
    BY <1>2 DEF ReaderStates
  <2>3. rd' \in [Readers -> ReaderStates]
    BY <1>3, <2>1, <2>2
  <2> QED
    BY <1>1, <2>3 DEF TypeOK, FilesOK, Segs
<1>7. CASE GetRead(r)
  <2>1. PICK v : /\ Answer(r, v)
                 /\ v = IF rd[r].ent.seg \in open
                        THEN Visible(file[rd[r].ent.seg][rd[r].ent.off]) ELSE GetError
    BY <1>7, Zenon DEF GetRead
  <2>2. v \in Int
    <3>1. EntryOK(rd[r].key, rd[r].ent)
      BY <1>7, Zenon DEF GetRead, IndexPointsToRecord
    <3>2. file[rd[r].ent.seg][rd[r].ent.off] \in Records
      BY <3>1, FileTypes, Zenon DEF EntryOK, TypeOK
    <3>3. ASSUME NEW x \in Records PROVE Visible(x) \in Int
      BY DEF Visible, Records
    <3>4. GetError \in Int
      BY DEF GetError
    <3> QED
      BY <2>1, <3>2, <3>3, <3>4, Zenon
  <2>3. rd' \in [Readers -> ReaderStates]
    BY <1>3, <2>1, <2>2, Zenon
  <2> QED
    BY <1>1, <2>3, Zenon DEF TypeOK, FilesOK, Segs
<1> QED
  BY <1>4, <1>5, <1>6, <1>7 DEF Get

\* ... Sync, Compact, CloseHandle and Close.
LEMMA OtherTypeOK ==
    ASSUME TypeOK, SyncBegin \/ SyncEnd \/ Compact \/ CloseHandle \/ Close
    PROVE  TypeOK'
<1> USE DEF segVars, engVars
<1>1. FilesOK /\ active \in Segs /\ cnt \in Counts /\ puts \in Seq(PutStates)
  BY DEF TypeOK
<1>2. CASE SyncBegin
  <2>1. cnt' \in Counts
    BY <1>1, <1>2 DEF SyncBegin, Counts
  <2> QED
    BY <1>2, <2>1, Zenon DEF SyncBegin, TypeOK, FilesOK, Segs
<1>3. CASE SyncEnd
  <2>1. FilesOK' /\ Segs' = Segs
    BY <1>1, <1>3, SyncType DEF SyncEnd, FilesOK, Segs
  <2>2. CASE puts' = puts
    BY <1>3, <2>1, <2>2 DEF SyncEnd, TypeOK
  <2>3. CASE puts' # puts
    <3>1. puts' = [n \in DOMAIN puts |-> [puts[n] EXCEPT !.safe = @ \/ n \in sy.snap]]
      BY <1>3, <2>3 DEF SyncEnd
    <3>a. ASSUME NEW p \in PutStates, NEW n
          PROVE  [p EXCEPT !.safe = @ \/ n \in sy.snap] \in PutStates
      BY Zenon DEF PutStates
    <3>2. puts' \in [1..Len(puts) -> PutStates]
      <4>1. \A n \in 1..Len(puts) : puts[n] \in PutStates
        BY <1>1
      <4>2. \A n \in 1..Len(puts) : [puts[n] EXCEPT !.safe = @ \/ n \in sy.snap] \in PutStates
        BY <3>a, <4>1, Zenon
      <4>3. DOMAIN puts = 1..Len(puts)
        BY <1>1
      <4> QED
        BY <3>1, <4>2, <4>3
    <3>3. puts' \in Seq(PutStates)
      BY <1>1, <3>2, FunctionIsSeq
    <3> QED
      BY <1>3, <2>1, <3>3 DEF SyncEnd, TypeOK
  <2> QED
    BY <2>2, <2>3
<1>4. CASE Compact
  <2>1. cnt' \in Counts
    BY <1>1, <1>4 DEF Compact, Counts
  <2> QED
    BY <1>4, <2>1 DEF Compact, TypeOK, FilesOK, Segs
<1>5. CASE CloseHandle
  BY <1>1, <1>5, Zenon DEF CloseHandle, TypeOK, FilesOK, Segs
<1>6. CASE CloseBegin
  <2>1. cnt' \in Counts
    BY <1>1, <1>6 DEF CloseBegin, Counts
  <2> QED
    BY <1>6, <2>1, Zenon DEF CloseBegin, TypeOK, FilesOK, Segs
<1>7. CASE CloseActive
  <2>1. refs' \in Seq(Int) /\ Len(refs') = Len(file)
    BY <1>1, <1>7 DEF CloseActive, FilesOK, Segs
  <2> QED
    BY <1>1, <1>7, <2>1, Zenon DEF CloseActive, TypeOK, FilesOK, Segs
<1>8. CASE CloseList
  <2> DEFINE at(s) == {i \in DOMAIN list : list[i] = s}
  <2>1. \A s \in Segs : Cardinality(at(s)) \in Nat
    <3>1. IsFiniteSet(DOMAIN list)
      BY FS_Interval DEF TypeOK
    <3>2. \A s \in Segs : IsFiniteSet(at(s))
      BY <3>1, FS_Subset
    <3> HIDE DEF at
    <3> QED
      BY <3>2, FS_CardinalityType
  <2> HIDE DEF at
  <2>2. refs' = [s \in Segs |-> refs[s] - Cardinality(at(s))]
    BY <1>8 DEF CloseList, at
  <2>a. refs' \in [1..Len(file) -> Int] /\ Len(file) \in Nat
    BY <1>1, <2>1, <2>2, FileTypes
  <2>3. refs' \in Seq(Int) /\ Len(refs') = Len(file)
    BY <2>a, FunctionIsSeq
  <2> QED
    BY <1>1, <1>8, <2>3, Zenon DEF CloseList, TypeOK, FilesOK, Segs
<1> QED
  BY <1>2, <1>3, <1>4, <1>5, <1>6, <1>7, <1>8 DEF Close

\* doCompact selects a prefix of the list.
LEMMA SelectType ==
    ASSUME list \in Seq(Nat)
    PROVE  /\ numToCompact \in 0..Len(list)
           /\ SubSeq(list, 1, numToCompact) \in Seq(Nat)
           /\ Len(SubSeq(list, 1, numToCompact)) = numToCompact
           /\ \A i \in 1..numToCompact : SubSeq(list, 1, numToCompact)[i] = list[i]
<1>1. numToCompact \in 0..Len(list)
  BY DEF numToCompact
<1> QED
  BY <1>1

\* The references a selection takes.
LEMMA SelectRefs ==
    ASSUME FilesOK, NEW H, refs' = [s \in Segs |-> IF s \in H THEN refs[s] + 1 ELSE refs[s]],
           UNCHANGED <<file, synced, open, disk>>
    PROVE  FilesOK' /\ Segs' = Segs
<1>1. refs' \in [1..Len(file) -> Int] /\ Len(file) \in Nat
  BY FileTypes
<1>2. refs' \in Seq(Int) /\ Len(refs') = Len(file)
  BY <1>1, FunctionIsSeq
<1> QED
  BY <1>2 DEF FilesOK, Segs

\* A segment that is given up.
LEMMA GiveUpType ==
    ASSUME FilesOK, NEW s, refs' = [refs EXCEPT ![s] = @ - 1], disk' \in SUBSET disk,
           UNCHANGED <<file, synced, open>>
    PROVE  FilesOK' /\ Segs' = Segs
<1>1. refs \in Seq(Int)
  BY DEF FilesOK
<1>2. s \in DOMAIN refs => refs[s] - 1 \in Int
  BY <1>1
<1>3. [refs EXCEPT ![s] = refs[s] - 1] \in Seq(Int)
  BY <1>1, <1>2, SeqUpdate, Zenon
<1>4. Len([refs EXCEPT ![s] = refs[s] - 1]) = Len(refs)
  BY <1>1, <1>2, SeqUpdate
<1>5. refs' \in Seq(Int) /\ Len(refs') = Len(refs)
  BY <1>3, <1>4, Zenon
<1> QED
  BY <1>5 DEF FilesOK, Segs

\* What the scan of a segment finds are records.
LEMMA ScanType ==
    ASSUME FilesOK, NEW s \in Segs, NEW k
    PROVE  LET last == {i \in 1..Readable(file[s]) : file[s][i].key = k}
           IN  /\ last # {} => /\ Max(last) \in last /\ file[s][Max(last)] \in Records
                               /\ \A i \in last : i <= Max(last)
               /\ last \subseteq DOMAIN file[s]
<1> DEFINE n == Readable(file[s])
           last == {i \in 1..n : file[s][i].key = k}
<1>1. file[s] \in Seq(Records)
  BY FileTypes
<1>2. n \in 0..Len(file[s]) /\ n \in Nat
  BY <1>1, ReadableExact
<1>3. last \subseteq DOMAIN file[s] /\ last \subseteq Nat /\ \A x \in last : x <= n
  BY <1>1, <1>2
<1>4. last # {} => Max(last) \in last /\ \A i \in last : i <= Max(last)
  <2> HIDE DEF last, n
  <2> QED
    BY <1>2, <1>3, MaxIn, Zenon
<1>5. ASSUME last # {} PROVE file[s][Max(last)] \in Records
  <2>1. PICK m : m = Max(last)
    OBVIOUS
  <2>2. m \in DOMAIN file[s]
    <3> HIDE DEF last
    <3> QED
      BY <1>3, <1>4, <1>5, <2>1, Zenon
  <2>3. file[s][m] \in Records
    BY <1>1, <2>2
  <2> HIDE DEF last
  <2> QED
    BY <2>1, <2>3
<1> QED
  BY <1>3, <1>4, <1>5, Zenon

\* The compacted segment holds records.
LEMMA WriteType ==
    ASSUME wk \in WorkerStates,
           NEW f \in Orders({wk.latest[k] : k \in {j \in Keys : ~wk.latest[j].del}})
    PROVE  f \in Seq(Records)
<1> DEFINE K == {j \in Keys : ~wk.latest[j].del}
           V == {wk.latest[k] : k \in K}
<1>1. IsFiniteSet(K)
  BY NamesAssumption, FS_Subset
<1>2. IsFiniteSet(V)
  <2> DEFINE g == [k \in K |-> wk.latest[k]]
  <2>1. g \in Surjection(K, V)
    BY Zenon DEF Surjection
  <2> HIDE DEF K, V, g
  <2> QED
    BY <1>1, <2>1, FS_Surjection, Zenon
<1>3. V \subseteq Records
  BY DEF WorkerStates
<1>4. f \in Orders(V)
  OBVIOUS
<1>5. f \in Seq(V)
  <2> HIDE DEF V
  <2> QED
    BY <1>2, <1>4, BijectionListsOnce DEF Orders
<1> HIDE DEF V
<1> QED
  BY <1>3, <1>5

\* An entry of newIndex locates a record of its key in the new segment.
LEMMA NewIndexOK ==
    ASSUME FilesOK, wk.new \in Segs, NEW k \in Keys
    PROVE  /\ newIndex(k) \in Entries
           /\ newIndex(k) # NoEntry => newIndex(k).seg = wk.new /\ EntryOK(k, newIndex(k))
<1> DEFINE at == {i \in DOMAIN file[wk.new] : file[wk.new][i].key = k}
<1>1. Len(file[wk.new]) \in Nat /\ DOMAIN file[wk.new] = 1..Len(file[wk.new]) /\ wk.new \in Nat
  BY FileTypes
<1>2. at # {} => Max(at) \in at
  <2>1. at \subseteq Nat /\ \A x \in at : x <= Len(file[wk.new])
    BY <1>1
  <2> HIDE DEF at
  <2> QED
    BY <1>1, <2>1, MaxIn, Zenon
<1>3. CASE at = {}
  <2>1. newIndex(k) = NoEntry
    BY <1>3, Zenon DEF newIndex
  <2> QED
    BY <2>1 DEF NoEntry, Entries
<1>4. CASE at # {}
  <2>1. newIndex(k) = [seg |-> wk.new, off |-> Max(at)]
    BY <1>4, Zenon DEF newIndex
  <2>2. PICK m \in at : m = Max(at)
    BY <1>2, <1>4, Zenon
  <2>3. newIndex(k) = [seg |-> wk.new, off |-> m] /\ m \in DOMAIN file[wk.new]
        /\ file[wk.new][m].key = k
    BY <2>1, <2>2, Zenon
  <2> QED
    BY <1>1, <2>3 DEF EntryOK, Entries
<1> QED
  BY <1>3, <1>4, Zenon

\* The worker keeps the types.
LEMMA WorkerTypeOK ==
    ASSUME TypeOK, WorkerOK, compactionWorker
    PROVE  TypeOK'
<1> USE DEF segVars, engVars
<1>t. wk \in WorkerStates /\ FilesOK /\ list \in Seq(Nat) /\ cnt \in Counts /\ active \in Segs
  BY DEF TypeOK
<1>i. IdleWorker \in WorkerStates
  BY IdleWorkerType
<1>1. CASE WorkerReceive
  <2>1. wk' \in WorkerStates
    BY <1>t, <1>1, Zenon DEF WorkerReceive, WorkerStates
  <2> QED
    BY <1>1, <2>1 DEF WorkerReceive, TypeOK, FilesOK, Segs
<1>2. CASE WorkerStop
  <2>1. wk' \in WorkerStates
    BY <1>t, <1>2, Zenon DEF WorkerStop, WorkerStates
  <2> QED
    BY <1>2, <2>1 DEF WorkerStop, TypeOK, FilesOK, Segs
<1>3. CASE WorkerSelect
  <2> DEFINE sel == SubSeq(list, 1, numToCompact)
  <2>1. FilesOK' /\ Segs' = Segs
    <3>1. \/ refs' = refs
          \/ \E H : refs' = [s \in Segs |-> IF s \in H THEN refs[s] + 1 ELSE refs[s]]
      BY <1>3, Zenon DEF WorkerSelect
    <3>2. UNCHANGED <<file, synced, open, disk>>
      BY <1>3 DEF WorkerSelect
    <3>3. CASE refs' = refs
      BY <1>t, <3>2, <3>3, Zenon DEF FilesOK, Segs
    <3> QED
      BY <1>t, <3>1, <3>2, <3>3, SelectRefs, Zenon
  <2>2. wk' \in WorkerStates
    <3>1. \/ wk' = IdleWorker
          \/ \E K \in SUBSET Keys :
                wk' = [wk EXCEPT !.pc = "scan", !.sel = sel, !.left = sel, !.calm = K]
      BY <1>3, Zenon DEF WorkerSelect
    <3>2. sel \in Seq(Nat)
      BY <1>t, SelectType, Zenon
    <3> HIDE DEF sel
    <3>3. ASSUME NEW K \in SUBSET Keys,
                 wk' = [wk EXCEPT !.pc = "scan", !.sel = sel, !.left = sel, !.calm = K]
          PROVE  wk' \in WorkerStates
      BY <1>t, <3>2, <3>3, Zenon DEF WorkerStates
    <3> QED
      BY <1>i, <3>1, <3>3, Zenon
  <2>3. cnt' \in Counts
    <3>1. cnt' = cnt \/ cnt' = [cnt EXCEPT !.runs = @ + 1]
      BY <1>3, Zenon DEF WorkerSelect
    <3> QED
      BY <1>t, <3>1, CountsType, Zenon
  <2> QED
    BY <1>3, <2>1, <2>2, <2>3 DEF WorkerSelect, TypeOK
<1>4. CASE ScanSegment
  <2>1. wk' \in WorkerStates
    <3> DEFINE s == Head(wk.left)
               last(k) == {i \in 1..Readable(file[s]) : file[s][i].key = k}
               seen == [k \in Keys |-> IF last(k) = {} THEN wk.latest[k]
                                                       ELSE file[s][Max(last(k))]]
    <3>1. CASE wk' = [wk EXCEPT !.pc = "release"]
      BY <1>t, <3>1 DEF WorkerStates
    <3>2. CASE wk' # [wk EXCEPT !.pc = "release"]
      <4>1. PICK p \in {"create", "scan"} :
                wk' = [wk EXCEPT !.latest = seen, !.left = Tail(@), !.pc = p]
        BY <1>4, <3>2, Zenon DEF ScanSegment
      <4>2. s \in Segs
        BY <1>t, <1>4, <3>2, Zenon DEF ScanSegment, FilesOK
      <4>3. wk.left # <<>>
        BY <1>4, Zenon DEF ScanSegment, WorkerOK
      <4>4. Tail(wk.left) \in Seq(Nat)
        BY <1>t, <4>3 DEF WorkerStates
      <4>5. \A k \in Keys : last(k) # {} => file[s][Max(last(k))] \in Records
        BY <1>t, <4>2, ScanType, Zenon
      <4>6. seen \in [Keys -> Records]
        <5> HIDE DEF last
        <5> QED
          BY <1>t, <4>5 DEF WorkerStates
      <4> HIDE DEF seen
      <4> QED
        BY <1>t, <4>1, <4>4, <4>6, Zenon DEF WorkerStates
    <3> QED
      BY <3>1, <3>2
  <2> QED
    BY <1>4, <2>1, Zenon DEF ScanSegment, TypeOK, FilesOK, Segs
<1>5. CASE CompactCreate
  <2>1. Len(file) + 1 \in Nat
    BY <1>t, FileTypes
  <2>2. wk' \in WorkerStates
    <3>1. \/ wk' = [wk EXCEPT !.pc = "write", !.new = Len(file) + 1]
          \/ wk' = [wk EXCEPT !.pc = "release"]
      BY <1>5 DEF CompactCreate
    <3> QED
      BY <1>t, <2>1, <3>1, Zenon DEF WorkerStates
  <2>3. FilesOK' /\ active \in Segs'
    BY <1>t, <1>5, CreateType, Zenon DEF CompactCreate, FilesOK, Segs
  <2>4. cnt' \in Counts
    <3>1. cnt' = cnt \/ cnt' = [cnt EXCEPT !.cerr = @ + 1]
      BY <1>5, Zenon DEF CompactCreate
    <3> QED
      BY <1>t, <3>1, CountsType, Zenon
  <2> QED
    BY <1>5, <2>2, <2>3, <2>4 DEF CompactCreate, TypeOK
<1>6. CASE CompactWrite
  <2>1. wk' \in WorkerStates
    BY <1>t, <1>6, Zenon DEF CompactWrite, WorkerStates
  <2>2. PICK f \in Orders({wk.latest[k] : k \in {j \in Keys : ~wk.latest[j].del}}) :
          file' = [file EXCEPT ![wk.new] = f]
    BY <1>6, Zenon DEF CompactWrite
  <2>3. f \in Seq(Records)
    BY <1>t, WriteType, Zenon
  <2>4. FilesOK' /\ Segs' = Segs
    BY <1>t, <1>6, <2>2, <2>3, FileType, Zenon DEF CompactWrite
  <2> QED
    BY <1>6, <2>1, <2>4 DEF CompactWrite, TypeOK
<1>7. CASE CompactSync
  <2>1. wk' \in WorkerStates
    BY <1>t, <1>7, Zenon DEF CompactSync, WorkerStates
  <2>2. FilesOK' /\ Segs' = Segs
    <3>1. wk.new \in Segs
      BY <1>t, <1>7 DEF CompactSync, WorkerOK, Created, FilesOK
    <3> QED
      BY <1>t, <1>7, <3>1, SyncType, Zenon DEF CompactSync, FilesOK, Segs
  <2> QED
    BY <1>7, <2>1, <2>2 DEF CompactSync, TypeOK
<1>8. CASE CompactFails
  <2>1. wk' \in WorkerStates
    BY <1>t, <1>8, Zenon DEF CompactFails, WorkerStates
  <2>2. FilesOK' /\ Segs' = Segs
    BY <1>t, <1>8, GiveUpType, Zenon DEF CompactFails, FilesOK
  <2>3. cnt' \in Counts
    <3>1. cnt' = [cnt EXCEPT !.cerr = @ + 1]
      BY <1>8, Zenon DEF CompactFails
    <3> QED
      BY <1>t, <3>1, CountsType, Zenon
  <2> QED
    BY <1>8, <2>1, <2>2, <2>3 DEF CompactFails, TypeOK
<1>9. CASE ApplyCollect
  <2>1. wk' \in WorkerStates
    <3>1. PICK k \in wk.todo :
            wk' = [wk EXCEPT
                   !.todo = @ \ {k},
                   !.batch = @ \cup (IF idx[k].seg \in Range(wk.sel) THEN {k} ELSE {}),
                   !.pc = IF wk.todo = {k} THEN "batch" ELSE "index"]
      BY <1>9, Zenon DEF ApplyCollect
    <3>2. PICK B, p : /\ B = {} \/ B = {k}
                      /\ p \in {"batch", "index"}
                      /\ wk' = [wk EXCEPT !.todo = @ \ {k}, !.batch = @ \cup B, !.pc = p]
      BY <3>1, Zenon
    <3> QED
      <4>1. k \in Keys /\ wk.batch \cup B \subseteq Keys
        BY <1>t, <3>2 DEF WorkerStates
      <4> QED
        BY <1>t, <3>2, <4>1, Zenon DEF WorkerStates
  <2> QED
    BY <1>9, <2>1 DEF ApplyCollect, TypeOK, FilesOK, Segs
<1>10. CASE ApplyBatch
  <2>1. wk' \in WorkerStates
    <3>1. (\E k \in wk.batch : wk' = [wk EXCEPT !.batch = @ \ {k}])
            \/ wk' = [wk EXCEPT !.pc = "list"]
      BY <1>10, Zenon DEF ApplyBatch
    <3>2. ASSUME NEW k, wk' = [wk EXCEPT !.batch = @ \ {k}] PROVE wk' \in WorkerStates
      <4>1. PICK B \in SUBSET Keys : wk' = [wk EXCEPT !.batch = B]
        BY <1>t, <3>2, Zenon DEF WorkerStates
      <4> QED
        BY <1>t, <4>1, Zenon DEF WorkerStates
    <3>3. ASSUME wk' = [wk EXCEPT !.pc = "list"] PROVE wk' \in WorkerStates
      BY <1>t, <3>3 DEF WorkerStates
    <3> QED
      BY <3>1, <3>2, <3>3, Zenon
  <2>2. idx' \in [Keys -> Entries]
    <3>1. wk.new \in Segs /\ idx \in [Keys -> Entries] /\ wk.batch \subseteq Keys
      BY <1>10, Zenon DEF ApplyBatch, WorkerOK, Created, TypeOK, FilesOK, WorkerStates
    <3>2. idx' = idx \/ \E k \in wk.batch : idx' = [idx EXCEPT ![k] = newIndex(k)]
      BY <1>10 DEF ApplyBatch
    <3> QED
      BY <1>t, <3>1, <3>2, NewIndexOK
  <2> QED
    BY <1>10, <2>1, <2>2 DEF ApplyBatch, TypeOK, FilesOK, Segs
<1>11. CASE ApplyList
  <2>1. wk' \in WorkerStates
    BY <1>t, <1>11, Zenon DEF ApplyList, WorkerStates
  <2>2. wk.sel \in Seq(Nat) /\ wk.new \in Nat
    BY <1>t DEF WorkerStates
  <2>3. Remaining(list, wk.sel) \in Seq(Nat)
    BY <1>t, <2>2, RemainingExact
  <2>4. list' \in Seq(Nat)
    BY <1>11, <2>2, <2>3 DEF ApplyList
  <2> QED
    BY <1>11, <2>1, <2>4, Zenon DEF ApplyList, TypeOK, FilesOK, Segs
<1>12. CASE ApplyRemove
  <2>2. FilesOK' /\ Segs' = Segs
    BY <1>t, <1>12, GiveUpType, Zenon DEF ApplyRemove, FilesOK
  <2>3. wk' \in WorkerStates
    <3>1. PICK p \in {"release", "remove"} : wk' = [wk EXCEPT !.left = Tail(@), !.pc = p]
      BY <1>12, Zenon DEF ApplyRemove
    <3>2. Tail(wk.left) \in Seq(Nat)
      BY <1>t, <1>12 DEF ApplyRemove, WorkerOK, WorkerStates
    <3> QED
      BY <1>t, <3>1, <3>2, Zenon DEF WorkerStates
  <2> QED
    BY <1>12, <2>2, <2>3 DEF ApplyRemove, TypeOK
<1>13. CASE WorkerRelease
  <2>1. refs' \in [1..Len(file) -> Int] /\ Len(file) \in Nat
    BY <1>t, <1>13, FileTypes DEF WorkerRelease
  <2>2. refs' \in Seq(Int) /\ Len(refs') = Len(file)
    BY <2>1, FunctionIsSeq
  <2> QED
    BY <1>i, <1>t, <1>13, <2>2, Zenon DEF WorkerRelease, TypeOK, FilesOK, Segs
<1> QED
  BY <1>1, <1>2, <1>3, <1>4, <1>5, <1>6, <1>7, <1>8, <1>9, <1>10, <1>11, <1>12, <1>13
  DEF compactionWorker, compactSegments, applyCompaction

\* An entry that recover puts into the index locates a record of its key in a
\* file of the directory.
LEMMA LastRecordOK ==
    ASSUME NEW files \in Seq(Seq(Records)), disk \subseteq DOMAIN files, NEW k \in Keys,
           LastRecord(files, k) # NoEntry
    PROVE  LET e == LastRecord(files, k)
           IN  /\ e \in Entries /\ e.seg \in disk
               /\ e.off \in DOMAIN files[e.seg] /\ files[e.seg][e.off].key = k
<1> DEFINE at(s) == {o \in 1..Readable(files[s]) : files[s][o].key = k}
           having == {s \in disk : at(s) # {}}
           m == Max(having)
           n == Max(at(m))
<1>1. having # {} /\ LastRecord(files, k) = [seg |-> m, off |-> n]
  BY Zenon DEF LastRecord
<1>2. having \subseteq Nat /\ Len(files) \in Nat /\ \A x \in having : x <= Len(files)
  OBVIOUS
<1>3. m \in having
  <2> HIDE DEF having
  <2> QED
    BY <1>1, <1>2, MaxIn, Zenon
<1>4. m \in disk /\ at(m) # {} /\ m \in Nat
  <2>1. \A s \in having : s \in disk /\ at(s) # {} /\ s \in Nat
    OBVIOUS
  <2> HIDE DEF m, having
  <2> QED
    BY <1>3, <2>1, Zenon
<1>5. PICK s : s = m
  BY Zenon
<1>6. files[s] \in Seq(Records) /\ s \in disk /\ s \in Nat /\ at(s) # {}
  <2> HIDE DEF m, at
  <2> QED
    BY <1>4, <1>5
<1>7. Readable(files[s]) \in 0..Len(files[s])
  BY <1>6, ReadableExact
<1>8. at(s) \subseteq DOMAIN files[s] /\ at(s) \subseteq Nat /\ Len(files[s]) \in Nat
      /\ \A x \in at(s) : x <= Len(files[s]) /\ files[s][x].key = k
  BY <1>6, <1>7
<1>9. Max(at(s)) \in at(s)
  <2> HIDE DEF at
  <2> QED
    BY <1>6, <1>8, MaxIn, Zenon
<1>10. PICK o \in at(s) : o = n
  <2> HIDE DEF at, m
  <2> QED
    BY <1>5, <1>9
<1>11. LastRecord(files, k) = [seg |-> s, off |-> o]
  <2> HIDE DEF m, n, having, at
  <2> QED
    BY <1>1, <1>5, <1>10, Zenon
<1>12. o \in DOMAIN files[s] /\ o \in Nat /\ files[s][o].key = k
  BY <1>8, <1>10, Zenon
<1> HIDE DEF at
<1> QED
  BY <1>6, <1>11, <1>12 DEF Entries

\* recover leaves a well-typed engine with the newest segment active and the
\* others listed.
LEMMA RecoverType ==
    ASSUME TypeOK, disk # {}, cnt' \in Counts, NEW files \in Seq(Seq(Records)),
           Len(files) = Len(file), recover(files)
    PROVE  /\ TypeOK' /\ Segs' = Segs /\ Max(disk) \in disk
           /\ Injective(list') /\ Range(list') = disk \ {Max(disk)}
<1> DEFINE m == Max(disk)
<1>1. FilesOK /\ disk \subseteq Segs /\ Segs = 1..Len(file) /\ Len(file) \in Nat
  BY FileTypes, Zenon DEF TypeOK, FilesOK
<1>2. m \in disk
  <2>1. disk \subseteq Nat /\ \A x \in disk : x <= Len(file)
    BY <1>1
  <2> QED
    BY <1>1, <2>1, MaxIn, Zenon
<1>3. Segs' = Segs
  BY <1>1 DEF recover, Segs
<1>4. synced' \in Seq(Nat) /\ Len(synced') = Len(file) /\ refs' \in Seq(Int) /\ Len(refs') = Len(file)
  <2>1. synced' \in [1..Len(file) -> Nat]
    BY <1>1 DEF recover
  <2>2. refs' \in [1..Len(file) -> Int]
    BY <1>1 DEF recover
  <2> QED
    BY <1>1, <2>1, <2>2, FunctionIsSeq, Zenon
<1>5. FilesOK'
  <2>1. file' = files /\ open' = disk /\ disk' = disk
    BY Zenon DEF recover
  <2> QED
    BY <1>1, <1>3, <1>4, <2>1, Zenon DEF FilesOK
<1>6. list' \in Seq(Nat) /\ Injective(list') /\ Range(list') = disk \ {m}
  <2>1. IsFiniteSet(disk \ {m})
    <3>1. IsFiniteSet(1..Len(file))
      BY <1>1, FS_Interval
    <3>2. disk \ {m} \in SUBSET (1..Len(file))
      BY <1>1, Zenon
    <3> QED
      BY <3>1, <3>2, FS_Subset
  <2>2. list' \in Orders(disk \ {m})
    BY Zenon DEF recover
  <2>3. /\ list' \in Seq(disk \ {m})
        /\ \A i, j \in DOMAIN list' : list'[i] = list'[j] => i = j
        /\ \A x \in disk \ {m} : \E i \in DOMAIN list' : list'[i] = x
    <3> HIDE DEF m
    <3> QED
      BY <2>1, <2>2, BijectionListsOnce, Zenon DEF Orders
  <2> HIDE DEF m
  <2>4. \A x \in disk \ {m} : x \in Nat
    BY <1>1
  <2> QED
    BY <2>3, <2>4 DEF Injective, Range
<1>7. idx' \in [Keys -> Entries] /\ cur' \in [Keys -> Nat]
  <2>1. disk \subseteq DOMAIN files
    BY <1>1
  <2>2. ASSUME NEW k \in Keys PROVE LastRecord(files, k) \in Entries
    BY <2>1, LastRecordOK DEF Entries, NoEntry
  <2>3. ASSUME NEW k \in Keys, LastRecord(files, k) # NoEntry
        PROVE  Visible(files[LastRecord(files, k).seg][LastRecord(files, k).off]) \in Nat
    <3>1. PICK e : e = LastRecord(files, k)
      OBVIOUS
    <3>2. e.seg \in disk /\ e.off \in DOMAIN files[e.seg]
      BY <2>1, <2>3, <3>1, LastRecordOK, Zenon
    <3>3. files[e.seg][e.off] \in Records
      <4>1. files[e.seg] \in Seq(Records)
        BY <2>1, <3>2
      <4> QED
        BY <3>2, <4>1
    <3> QED
      BY <3>1, <3>3, Zenon DEF Visible, Records
  <2>4. idx' = [k \in Keys |-> LastRecord(files, k)]
    BY Zenon DEF recover
  <2>5. cur' = [k \in Keys |-> LET e == LastRecord(files, k) IN
                                IF e = NoEntry THEN 0 ELSE Visible(files[e.seg][e.off])]
    BY Zenon DEF recover
  <2> QED
    BY <2>2, <2>3, <2>4, <2>5, Zenon
<1>8. wr' \in [Writers -> WriterStates]
  BY IdleWriterType, Zenon DEF recover
<1>9. rd' \in [Readers -> ReaderStates]
  <2>1. IdleReader \in ReaderStates
    BY DEF IdleReader, ReaderStates, Entries, NoEntry
  <2> QED
    BY <2>1, Zenon DEF recover
<1>10. wk' \in WorkerStates
  <2>1. wk' = IdleWorker
    BY Zenon DEF recover
  <2> QED
    BY <2>1, IdleWorkerType, Zenon
<1>11. active' \in Segs' /\ segMu' = NoWriter /\ cl' = "open" /\ puts' = puts
  BY <1>1, <1>2, <1>3, Zenon DEF recover
<1> QED
  BY <1>2, <1>3, <1>5, <1>6, <1>7, <1>8, <1>9, <1>10, <1>11 DEF TypeOK

\* What recover reads after a crash are records.
LEMMA CrashFiles ==
    ASSUME TypeOK, Crash
    PROVE  /\ cnt' \in Counts /\ cnt'.cerr = cnt.cerr /\ cnt'.runs = cnt.runs
           /\ \E files \in Seq(Seq(Records)) : Len(files) = Len(file) /\ recover(files)
<1>1. FilesOK /\ cnt \in Counts
  BY DEF TypeOK
<1>2. cnt' \in Counts /\ cnt'.cerr = cnt.cerr /\ cnt'.runs = cnt.runs
  BY <1>1 DEF Crash, Counts
<1> DEFINE left(s) == UNION {Scanned(f) : f \in Survivors(s)}
           torn == {s \in disk : left(s) # {file[s]}}
<1>3. PICK fs \in [torn -> UNION {left(s) : s \in torn}] :
        /\ \A s \in torn : fs[s] \in left(s)
        /\ recover([s \in Segs |-> IF s \in torn THEN fs[s] ELSE file[s]])
  BY Zenon DEF Crash
<1> DEFINE files == [s \in Segs |-> IF s \in torn THEN fs[s] ELSE file[s]]
<1>4. ASSUME NEW s \in Segs, NEW f \in left(s) PROVE f \in Seq(Records)
  <2>1. file[s] \in Seq(Records) /\ synced[s] \in Nat
    BY <1>1, FileTypes, Zenon
  <2>2. PICK g \in Survivors(s) : f \in Scanned(g)
    OBVIOUS
  <2>3. g \in Seq(Records)
    <3>1. Torn \in Records
      BY Zenon DEF Torn, Records
    <3>2. ASSUME NEW n \in 0..Len(file[s]) PROVE SubSeq(file[s], 1, n) \in Seq(Records)
      BY <2>1, PrefixElements
    <3>3. PICK n \in 0..Len(file[s]) : \/ g = SubSeq(file[s], 1, n)
                                       \/ g = Append(SubSeq(file[s], 1, n), Torn)
      <4> DEFINE kept == IF PowerLoss THEN synced[s]..Len(file[s]) ELSE {Len(file[s])}
      <4>1. kept \subseteq 0..Len(file[s])
        BY <2>1
      <4>2. \E n \in kept : \/ g = SubSeq(file[s], 1, n)
                            \/ g = Append(SubSeq(file[s], 1, n), Torn)
        BY Zenon DEF Survivors
      <4> HIDE DEF kept
      <4> QED
        BY <4>1, <4>2, Zenon
    <3>4. ASSUME NEW h \in Seq(Records), NEW x \in Records PROVE Append(h, x) \in Seq(Records)
      OBVIOUS
    <3> QED
      BY <3>1, <3>2, <3>3, <3>4, Zenon
  <2>4. Readable(g) \in 0..Len(g)
    BY <2>3, ReadableExact, Zenon
  <2>5. f = g \/ f = SubSeq(g, 1, Readable(g))
    BY <2>2 DEF Scanned
  <2>6. ASSUME NEW n \in 0..Len(g) PROVE SubSeq(g, 1, n) \in Seq(Records)
    BY <2>3, PrefixElements
  <2> QED
    BY <2>3, <2>4, <2>5, <2>6, Zenon
<1>5. files \in [1..Len(file) -> Seq(Records)] /\ Len(file) \in Nat
  <2> HIDE DEF left
  <2>1. \A s \in Segs : files[s] \in Seq(Records)
    BY <1>1, <1>3, <1>4, FileTypes
  <2> HIDE DEF torn
  <2> QED
    BY <1>1, <2>1, FileTypes, Zenon
<1> HIDE DEF torn
<1>6. files \in Seq(Seq(Records)) /\ Len(files) = Len(file)
  <2> HIDE DEF files
  <2> QED
    BY <1>5, FunctionIsSeq
<1> QED
  BY <1>2, <1>3, <1>6, Zenon

----------------------------------------------------------------------------
\* The steps of a running engine: those of Put are looked at one by one, those of
\* the other callers and of Close leave most of the state alone.
CallStep == (\E r \in Readers : Get(r)) \/ SyncBegin \/ SyncEnd \/ Compact \/ UNCHANGED vars
HandleStep == CloseHandle \/ Close
Step == (\E c \in Writers : Put(c)) \/ CallStep \/ compactionWorker \/ HandleStep

\* A step is one of a running engine, or a crash or the end of a closed engine's process followed by New.
LEMMA NextSteps == [Next]_vars => Step \/ Crash \/ Restart
BY DEF Next, Step, CallStep, HandleStep

\* Get, Sync and Compact leave the files, the index, the list and the worker alone.
LEMMA CallFrame ==
    ASSUME TypeOK, CallStep
    PROVE  /\ UNCHANGED <<file, refs, open, disk, idx, active, list, closed, segMu, wr, cl, wk, cur>>
           /\ cnt'.cerr = cnt.cerr /\ cnt'.runs = cnt.runs
<1> USE DEF segVars, engVars
<1>1. CASE \E r \in Readers : Get(r)
  BY <1>1, Zenon DEF Get, GetBegin, GetActive, GetList, GetRead
<1>2. CASE SyncBegin
  BY <1>2 DEF SyncBegin, TypeOK, Counts
<1>3. CASE SyncEnd
  BY <1>3 DEF SyncEnd
<1>4. CASE Compact
  BY <1>4 DEF Compact, TypeOK, Counts
<1>5. CASE UNCHANGED vars
  BY <1>5 DEF vars
<1> QED
  BY <1>1, <1>2, <1>3, <1>4, <1>5, Zenon DEF CallStep

\* Close and the closing of a handle change references, handles and flags only.
LEMMA HandleFrame ==
    ASSUME TypeOK, HandleStep
    PROVE  /\ UNCHANGED <<file, disk, idx, active, list, segMu, wr, rd, wk, cur>>
           /\ cnt'.cerr = cnt.cerr /\ cnt'.runs = cnt.runs
<1> USE DEF segVars, engVars
<1>1. CASE CloseHandle
  BY <1>1 DEF CloseHandle
<1>2. CASE CloseBegin
  BY <1>2 DEF CloseBegin, TypeOK, Counts
<1>3. CASE CloseActive
  BY <1>3 DEF CloseActive
<1>4. CASE CloseList
  BY <1>4, Zenon DEF CloseList
<1> QED
  BY <1>1, <1>2, <1>3, <1>4, Zenon DEF HandleStep, Close

\* The worker does not touch the active segment or the calls in progress.
LEMMA WorkerFrame ==
    ASSUME compactionWorker
    PROVE  UNCHANGED <<active, closed, segMu, wr, rd, cl, cur>>
<1> USE DEF segVars, engVars
<1>1. CASE WorkerReceive \/ WorkerStop \/ WorkerSelect \/ WorkerRelease
  BY <1>1, Zenon DEF WorkerReceive, WorkerStop, WorkerSelect, WorkerRelease
<1>2. CASE compactSegments
  BY <1>2, Zenon DEF compactSegments, ScanSegment, CompactCreate, CompactWrite, CompactSync, CompactFails
<1>3. CASE applyCompaction
  BY <1>3, Zenon DEF applyCompaction, ApplyCollect, ApplyBatch, ApplyList, ApplyRemove
<1> QED
  BY <1>1, <1>2, <1>3 DEF compactionWorker

\* What an append does: the record gets to the end of the file, or the file was
\* closed and the Put goes on with putWithRotation or gives up.
LEMMA AppendEffect ==
    ASSUME TypeOK, NEW c \in Writers, PutAppend(c)
    PROVE  /\ wr[c].pc = "append"
           /\ \A d \in Writers \ {c} : wr'[d] = wr[d]
           /\ \/ /\ wr[c].seg \in open /\ segMu' = segMu
                 /\ file' = [file EXCEPT ![wr[c].seg] = Append(@,
                        [key |-> wr[c].key, num |-> wr[c].num, del |-> wr[c].del])]
                 /\ wr'[c].pc = "index" /\ wr'[c].path = wr[c].path
                 /\ wr'[c].key = wr[c].key /\ wr'[c].seg = wr[c].seg
                 /\ wr'[c].num = wr[c].num /\ wr'[c].del = wr[c].del
                 /\ wr'[c].off = Len(file[wr[c].seg]) + 1
              \/ /\ file' = file /\ segMu' = segMu
                 /\ wr'[c].pc = "lock" /\ wr'[c].key = wr[c].key /\ wr'[c].seg = wr[c].seg
              \/ /\ file' = file /\ wr[c].path # "fast"
                 /\ wr'[c] = IdleWriter /\ wr'[c].pc = "idle"
<1>1. wr \in [Writers -> WriterStates]
  BY DEF TypeOK
<1>2. wr[c].pc = "append"
  BY DEF PutAppend
<1>3. ASSUME wr' = [wr EXCEPT ![c] = [@ EXCEPT !.pc = "index", !.off = Len(file[wr[c].seg]) + 1]]
      PROVE  /\ \A d \in Writers \ {c} : wr'[d] = wr[d]
             /\ wr'[c].pc = "index" /\ wr'[c].path = wr[c].path
             /\ wr'[c].key = wr[c].key /\ wr'[c].seg = wr[c].seg
             /\ wr'[c].num = wr[c].num /\ wr'[c].del = wr[c].del
             /\ wr'[c].off = Len(file[wr[c].seg]) + 1
  BY <1>1, <1>3 DEF WriterStates
<1>4. ASSUME wr' = [wr EXCEPT ![c].pc = "lock"]
      PROVE  /\ \A d \in Writers \ {c} : wr'[d] = wr[d]
             /\ wr'[c].pc = "lock" /\ wr'[c].key = wr[c].key /\ wr'[c].seg = wr[c].seg
  BY <1>1, <1>4 DEF WriterStates
<1>5. ASSUME wr' = [wr EXCEPT ![c] = IdleWriter]
      PROVE  /\ \A d \in Writers \ {c} : wr'[d] = wr[d]
             /\ wr'[c] = IdleWriter /\ wr'[c].pc = "idle"
  BY <1>1, <1>5, Zenon DEF IdleWriter
<1> QED
  BY <1>2, <1>3, <1>4, <1>5, Zenon DEF PutAppend

\* No two Puts are behind segmentMu.
LEMMA StepMuExact ==
    ASSUME TypeOK, MuExact, Step
    PROVE  MuExact'
<1> USE DEF segVars, engVars
<1>1. CASE UNCHANGED <<wr, segMu>>
  BY <1>1 DEF MuExact, Holds
<1>2. ASSUME NEW c \in Writers, Put(c) PROVE MuExact'
  <2>w. wr \in [Writers -> WriterStates]
    BY DEF TypeOK
  <2>u. \A d \in Writers : Holds(c) /\ Holds(d) => c = d
    BY DEF MuExact
  <2>1. CASE PutBegin(c)
    <3>1. wr'[c].path = "fast" /\ wr'[c].pc \in {"append", "lock"} /\ segMu' = segMu
      BY <2>w, <2>1 DEF PutBegin, WriterStates
    <3>2. \A d \in Writers \ {c} : wr'[d] = wr[d]
      BY <2>w, <2>1 DEF PutBegin
    <3> QED
      BY <3>1, <3>2 DEF MuExact, Holds
  <2>2. CASE PutAppend(c)
    <3>1. /\ wr[c].pc = "append"
          /\ \A d \in Writers \ {c} : wr'[d] = wr[d]
          /\ \/ wr'[c].pc = "index" /\ wr'[c].path = wr[c].path /\ segMu' = segMu
             \/ wr'[c].pc = "lock" /\ segMu' = segMu
             \/ wr'[c].pc = "idle" /\ wr[c].path # "fast"
      BY <2>2, AppendEffect, Zenon
    <3> QED
      BY <2>u, <3>1, Zenon DEF MuExact, Holds
  <2>3. CASE PutIndex(c) \/ PutSync(c)
    <3>1. \A d \in Writers \ {c} : wr'[d] = wr[d]
      BY <2>w, <2>3 DEF PutIndex, PutSync
    <3>2. /\ wr'[c].pc \in {"sync", "end"} /\ wr'[c].path = wr[c].path /\ segMu' = segMu
          /\ wr[c].pc \in {"index", "sync"}
      BY <2>w, <2>3 DEF PutIndex, PutSync, WriterStates
    <3> QED
      BY <3>1, <3>2 DEF MuExact, Holds
  <2>4. CASE PutEnd(c)
    <3>1. \A d \in Writers \ {c} : wr'[d] = wr[d]
      BY <2>w, <2>4 DEF PutEnd
    <3>2. /\ wr'[c].pc = "idle" /\ wr[c].pc = "end"
          /\ segMu' = IF wr[c].path = "fast" THEN segMu ELSE NoWriter
      BY <2>w, <2>4 DEF PutEnd, IdleWriter
    <3> QED
      BY <2>u, <3>1, <3>2, Zenon DEF MuExact, Holds
  <2>5. CASE PutLock(c)
    <3>1. \A d \in Writers \ {c} : wr'[d] = wr[d]
      BY <2>w, <2>5 DEF PutLock
    <3>2. segMu' = c /\ segMu = NoWriter
      BY <2>5 DEF PutLock
    <3> QED
      BY <3>1, <3>2, NamesAssumption, Zenon DEF MuExact, Holds
  <2>6. CASE RotateList(c) \/ RotateCreate(c)
    <3>1. \A d \in Writers \ {c} : wr'[d] = wr[d]
      BY <2>w, <2>6 DEF RotateList, RotateCreate
    <3>2. wr[c].pc \in {"rotate", "create"} /\ (segMu' = segMu \/ wr'[c].pc = "idle")
      BY <2>w, <2>6 DEF RotateList, RotateCreate, IdleWriter
    <3> QED
      BY <2>u, <3>1, <3>2, Zenon DEF MuExact, Holds
  <2> QED
    BY <1>2, <2>1, <2>2, <2>3, <2>4, <2>5, <2>6 DEF Put
<1> QED
  BY <1>1, <1>2, CallFrame, HandleFrame, WorkerFrame, Zenon DEF Step
=============================================================================
