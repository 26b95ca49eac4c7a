------------------------------- MODULE Pager -------------------------------
(***************************************************************************)
(* btree/pager.go and wal.go with the calls btree.go, split.go and         *)
(* merge.go make of them: the page cache with its LRU list and dirty set,  *)
(* the database file, the log of page images, Sync, Close, the crash of    *)
(* the process at any point and the recovery of New.                       *)
(*                                                                         *)
(* What a page holds is reduced to its type and a version that grows with  *)
(* every change (BTree has the cells).  A call of the tree is the sequence *)
(* of operations it makes on pages, one step each: calls that write        *)
(* exclude each other (b.mu), but iterators take no lock and load pages    *)
(* between any two steps.  The tree has one or two levels.                 *)
(*                                                                         *)
(* A crash is one of the process: what was written to a file stays.  The   *)
(* write it interrupts may leave a torn record at the end of the log.      *)
(***************************************************************************)
EXTENDS Integers, Sequences, FiniteSets, FiniteSetsExt, SequencesExt, TLC

CONSTANTS CacheSize,
          MaxPageID,
          MaxCalls, MaxReads, MaxSyncs, MaxCrashes

VARIABLES p,                \* the Pager, the database file and the log
          call,             \* what the call in progress has still to do
          written,          \* history: each page as the calls have left it
          stored,           \* history: each page as a recovery would find it
          orphaned,         \* history: a call went on with a page object after its eviction
          n                 \* how many calls, reads, syncs, crashes there were
vars == <<p, call, written, stored, orphaned, n>>

PageIDs == 1..MaxPageID

Zero == [type |-> "none", v |-> 0]
Freed == [type |-> "free", v |-> 0]
Blank(type) == [type |-> type, v |-> 0]

----------------------------------------------------------------------------
\* pager.go.  A cached page has its bytes and, apart from them, Page.pageType.

writePage(s, id) ==
    [s EXCEPT !.disk = [i \in DOMAIN @ \cup {id} |->
                          IF i = id THEN s.cache[id].data ELSE @[i]]]

\* WriteAt beyond the end leaves a hole that reads as zeros.
readable(s, id) == id < s.num /\ id <= Max(DOMAIN s.disk)
readPage(s, id) == IF id \in DOMAIN s.disk THEN s.disk[id] ELSE Zero

LoadPage(data) == [data |-> data, pageType |-> data.type]

uncache(s, id) ==
    [s EXCEPT !.cache = [i \in DOMAIN @ \ {id} |-> @[i]],
              !.lru = SelectSeq(@, LAMBDA i : i # id),
              !.dirty = @ \ {id}]

\* Mutant: a dirty page is dropped.
evictLRU_Drop(s) == uncache(s, Last(s.lru))

evictLRU(s) ==
    LET id == Last(s.lru)
    IN  uncache(IF id \in s.dirty THEN writePage(s, id) ELSE s, id)

addToCache(s, id, page) ==
    LET t == IF Len(s.lru) >= CacheSize THEN evictLRU(s) ELSE s
    IN  [t EXCEPT !.cache = [i \in DOMAIN @ \cup {id} |-> IF i = id THEN page ELSE @[i]],
                  !.lru = <<id>> \o @]

\* For a page that is cached or readable.
GetPage(s, id) ==
    IF id \notin DOMAIN s.cache THEN addToCache(s, id, LoadPage(readPage(s, id)))
    ELSE IF Contains(s.lru, id)
    THEN [s EXCEPT !.lru = <<id>> \o SelectSeq(@, LAMBDA i : i # id)]
    ELSE s

NewPage(s, type) ==
    LET t == addToCache(s, s.num, [data |-> Blank(type), pageType |-> type])
    IN  [t EXCEPT !.dirty = @ \cup {s.num}, !.num = @ + 1]

Image(id, data) == [kind |-> "page", id |-> id, data |-> data]

\* Mutant: a page that is dirty already is not logged again.
MarkDirty_Once(s, id) ==
    IF id \notin DOMAIN s.cache \/ id \in s.dirty THEN s
    ELSE [s EXCEPT !.wal = Append(@, Image(id, s.cache[id].data)), !.dirty = @ \cup {id}]

\* Nothing is done for a page that is not cached.
MarkDirty(s, id) ==
    IF id \notin DOMAIN s.cache THEN s
    ELSE [s EXCEPT !.wal = Append(@, Image(id, s.cache[id].data)), !.dirty = @ \cup {id}]

FreePage(s, id) == uncache(s, id)

writeMetadata(s) == [s EXCEPT !.meta = [root |-> s.root, num |-> s.num]]

SetRootPageID(s, id) == writeMetadata([s EXCEPT !.root = id])

----------------------------------------------------------------------------
\* wal.go

Checkpoint == [kind |-> "checkpoint"]
Torn == [kind |-> "torn"]

\* The records up to and with a checkpoint, or up to what is left of an interrupted
\* write.
ReadAll(wal) ==
    LET stops == {i \in DOMAIN wal : wal[i].kind # "page"}
        stop == Min(stops)
    IN  IF stops = {} THEN wal
        ELSE SubSeq(wal, 1, IF wal[stop] = Torn THEN stop - 1 ELSE stop)

\* btree.go, recoverFromWAL.  A page that cannot be read becomes an empty leaf,
\* in the cache without being in the LRU list, before its bytes are replaced.
replay(s, r) ==
    IF r = Checkpoint THEN s ELSE
    LET t == IF r.id \in DOMAIN s.cache \/ readable(s, r.id) THEN GetPage(s, r.id)
             ELSE [s EXCEPT !.cache = (r.id :> LoadPage(Blank("leaf"))) @@ @]
    IN  [t EXCEPT !.cache[r.id].data = r.data, !.dirty = @ \cup {r.id}]

raiseNumPages(s) == [s EXCEPT !.num = Max(DOMAIN s.cache \cup {@}) + 1]

\* NewPager: nothing is cached, the metadata comes from the file.
opened(s) == [s EXCEPT !.cache = <<>>, !.lru = <<>>, !.dirty = {},
                       !.root = s.meta.root, !.num = s.meta.num]

\* What recovery would make of each page.
Recovered(s) ==
    LET records == ReadAll(s.wal)
        images(id) == {i \in DOMAIN records : records[i].kind = "page" /\ records[i].id = id}
    IN  [id \in PageIDs |-> IF images(id) = {} THEN readPage(s, id)
                            ELSE records[Max(images(id))].data]

----------------------------------------------------------------------------
\* The operations of the calls on pages

op(name, id) == <<name, id>>

\* The way down to leaf.
descend(leaf) == IF p.root = leaf THEN <<op("get", leaf)>>
                 ELSE <<op("get", p.root), op("get", leaf)>>

\* insertAndSplit of a leaf with room; the first half of deleteFromLeaf.
insertOps(leaf) == descend(leaf) \o <<op("set", leaf), op("mark", leaf)>>

\* Mutant: the metadata names the new root before the page is marked dirty.
splitOps_RootFirst(leaf) ==
    descend(leaf)
      \o <<op("leaf", p.num), op("set", leaf), op("set", p.num),
           op("mark", leaf), op("mark", p.num)>>
      \o (IF p.root # leaf THEN <<op("set", p.root), op("mark", p.root)>>
          ELSE LET r == p.num + 1
               IN  <<op("internal", r), op("set", r), op("root", r), op("mark", r)>>)

\* splitLeaf, and the separator in the parent or handleRootSplit.
splitOps(leaf) ==
    descend(leaf)
      \o <<op("leaf", p.num), op("set", leaf), op("set", p.num),
           op("mark", leaf), op("mark", p.num)>>
      \o (IF p.root # leaf THEN <<op("set", p.root), op("mark", p.root)>>
          ELSE LET r == p.num + 1
               IN  <<op("internal", r), op("set", r), op("mark", r), op("root", r)>>)

\* deleteFromLeaf with mergeOrRedistribute.
rebalanceOps(leaf, sibling, merge) ==
    insertOps(leaf)
      \o <<op("get", leaf), op("get", p.root), op("get", sibling), op("set", leaf)>>
      \o (IF merge
          THEN <<op("set", p.root), op("free", sibling)>>
          ELSE <<op("set", sibling)>>)
      \o <<op("mark", leaf)>>
      \o (IF merge THEN <<>> ELSE <<op("mark", sibling)>>)
      \o <<op("mark", p.root)>>

syncOps == <<op("flush", 0), op("meta", 0), op("checkpoint", 0), op("truncate", 0)>>
closeOps == <<op("flush", 0), op("meta", 0), op("checkpoint", 0), op("close", 0)>>
recoverOps == <<op("flush", 0), op("meta", 0), op("truncate", 0)>>

\* held: the pages the call has got and whose object is still the cached one.
Idle == [ops |-> <<>>, held |-> {}, touched |-> {}, up |-> TRUE]
Down == [Idle EXCEPT !.up = FALSE]

touches(ops) == {ops[i][2] : i \in {j \in DOMAIN ops : ops[j][1] \in {"set", "free"}}}
Call(ops) == [ops |-> ops, held |-> {}, touched |-> touches(ops), up |-> TRUE]

----------------------------------------------------------------------------

\* What createPager makes: page 1 is an empty leaf and the root.
Fresh == 1 :> [type |-> "leaf", v |-> 1]

\* What Close leaves of a tree with three leaves.
Grown == [id \in 1..4 |-> [type |-> IF id = 3 THEN "internal" ELSE "leaf", v |-> 1]]

Init ==
    \E disk \in {Fresh, Grown} :
        LET meta == IF disk = Fresh THEN [root |-> 1, num |-> 2] ELSE [root |-> 3, num |-> 5]
        IN  /\ p = [cache |-> <<>>, lru |-> <<>>, dirty |-> {}, root |-> meta.root,
                    num |-> meta.num, disk |-> disk, meta |-> meta, wal |-> <<>>]
            /\ call = Idle
            /\ written = [id \in PageIDs |-> IF id \in DOMAIN disk THEN disk[id] ELSE Zero]
            /\ stored = written /\ orphaned = FALSE
            /\ n = [calls |-> 0, reads |-> 0, syncs |-> 0, crashes |-> 0]

Busy == call.ops # <<>>

Count(what) == n' = [n EXCEPT ![what] = @ + 1]

\* No call is followed on a page that recovery has left with the wrong type, nor
\* while the log begins with a torn record.
WellTyped == \A id \in DOMAIN p.cache : p.cache[id].pageType = p.cache[id].data.type
Followed == WellTyped /\ \A i \in DOMAIN p.wal : p.wal[i] # Torn

Leaves == {id \in PageIDs : written[id].type = "leaf"}
Targets == IF p.root \in Leaves THEN {p.root} ELSE Leaves

\* Put and Delete.
Start(ops) ==
    /\ call.up /\ ~Busy /\ Followed /\ n.calls < MaxCalls
    /\ call' = Call(ops)
    /\ Count("calls") /\ UNCHANGED <<p, written, orphaned>>

Insert == \E leaf \in Targets : Start(insertOps(leaf))
Split == \E leaf \in Targets : p.num + (IF p.root = leaf THEN 1 ELSE 0) <= MaxPageID /\ Start(splitOps(leaf))
Rebalance ==
    \E leaf \in Targets, merge \in BOOLEAN :
        LET siblings == Targets \ {leaf}
        IN  siblings # {} /\ Start(rebalanceOps(leaf, Min(siblings), merge))

Sync ==
    /\ call.up /\ ~Busy /\ n.syncs < MaxSyncs
    /\ call' = Call(syncOps)
    /\ Count("syncs") /\ UNCHANGED <<p, written, orphaned>>

Close ==
    /\ call.up /\ ~Busy /\ n.syncs < MaxSyncs
    /\ call' = Call(closeOps)
    /\ Count("syncs") /\ UNCHANGED <<p, written, orphaned>>

At(name) == Busy /\ call.ops[1][1] = name
Arg == call.ops[1][2]

\* The page a call changes or marks was evicted since the call got it: nothing will
\* write the bytes of the object it holds.
Orphans == (At("set") \/ At("mark")) /\ Arg \notin call.held

\* The call goes on with its next operation on the pager s.
Continue(s, got) ==
    /\ p' = s
    /\ call' = [call EXCEPT !.ops = Tail(@),
                            !.touched = IF Len(call.ops) = 1 THEN {} ELSE @,
                            !.held = IF Len(call.ops) = 1 THEN {}
                                     ELSE (@ \cap DOMAIN s.cache) \cup got]
    /\ orphaned' = (orphaned \/ Orphans)
    /\ UNCHANGED n

Get == At("get") /\ Continue(GetPage(p, Arg), {Arg}) /\ UNCHANGED written

Allocate ==
    \E type \in {"leaf", "internal"} :
        At(type) /\ Continue(NewPage(p, type), {Arg})
                 /\ written' = [written EXCEPT ![Arg] = Blank(type)]

\* The bytes change in the object the call holds.
Change ==
    /\ At("set")
    /\ Continue(IF Arg \in call.held THEN [p EXCEPT !.cache[Arg].data.v = @ + 1] ELSE p, {})
    /\ written' = [written EXCEPT ![Arg].v = @ + 1]

Mark == At("mark") /\ Continue(MarkDirty(p, Arg), {}) /\ UNCHANGED written

Free == At("free") /\ Continue(FreePage(p, Arg), {})
                   /\ written' = [written EXCEPT ![Arg] = Freed]

SetRoot == At("root") /\ Continue(SetRootPageID(p, Arg), {}) /\ UNCHANGED written

\* Flush writes the dirty pages in the order of a map.
FlushPage ==
    /\ At("flush")
    /\ \E id \in p.dirty : p' = [writePage(p, id) EXCEPT !.dirty = @ \ {id}]
    /\ UNCHANGED <<call, written, orphaned, n>>

Flushed == At("flush") /\ p.dirty = {} /\ Continue(p, {}) /\ UNCHANGED written

WriteMetadata == At("meta") /\ Continue(writeMetadata(p), {}) /\ UNCHANGED written

LogCheckpoint ==
    /\ At("checkpoint")
    /\ Continue([p EXCEPT !.wal = Append(@, Checkpoint)], {}) /\ UNCHANGED written

Truncate == At("truncate") /\ Continue([p EXCEPT !.wal = <<>>], {}) /\ UNCHANGED written

Closed == At("close") /\ call' = Down /\ UNCHANGED <<p, written, orphaned, n>>

\* GetPage of an iterator, or of a Get while nobody writes.
Read(id) ==
    /\ call.up /\ n.reads < MaxReads
    /\ id \in DOMAIN p.cache \/ readable(p, id)
    /\ p' = GetPage(p, id) /\ p' # p
    /\ call' = [call EXCEPT !.held = @ \cap DOMAIN p'.cache]
    /\ Count("reads") /\ UNCHANGED <<written, orphaned>>

\* The call that was interrupted is not acknowledged: its pages count as recovered.
Crash ==
    /\ call.up /\ n.crashes < MaxCrashes
    /\ \/ UNCHANGED p
       \/ (At("mark") \/ At("checkpoint")) /\ p' = [p EXCEPT !.wal = Append(@, Torn)]
    /\ call' = Down
    /\ written' = [id \in PageIDs |-> IF id \in call.touched THEN stored[id] ELSE written[id]]
    /\ Count("crashes") /\ UNCHANGED orphaned

New ==
    /\ ~call.up
    /\ LET records == ReadAll(p.wal)
           s == opened(p)
       IN  IF records = <<>> THEN p' = s /\ call' = Idle
           ELSE /\ p' = raiseNumPages(FoldLeft(replay, s, records))
                /\ call' = Call(recoverOps)
    /\ UNCHANGED <<written, orphaned, n>>

Step ==
    \/ Insert \/ Split \/ Rebalance \/ Sync \/ Close
    \/ Get \/ Allocate \/ Change \/ Mark \/ Free \/ SetRoot
    \/ FlushPage \/ Flushed \/ WriteMetadata \/ LogCheckpoint \/ Truncate \/ Closed
    \/ \E id \in PageIDs : Read(id)
    \/ Crash \/ New

\* Nothing is followed after a change was lost.
Next ==
    /\ ~orphaned /\ Step
    /\ stored' = IF p'.wal = p.wal /\ p'.disk = p.disk THEN stored ELSE Recovered(p')

Spec == Init /\ [][Next]_vars

----------------------------------------------------------------------------
\* Properties

\* Whenever the process stops, a page that no call in progress is changing can be
\* recovered, from the log or from the file, as the last call left it.  The cache
\* may evict any page but one that the call in progress has still to change or mark:
\* then the change is lost although the call succeeds.
AckedStored ==
    ~orphaned => \A id \in PageIDs : id \in call.touched \/ written[id].v = 0 \/ stored[id] = written[id]

\* While the tree is open, GetPage returns that page, cached or read from the file.
ReadsLatest ==
    call.up /\ ~orphaned => \A id \in PageIDs :
        \/ id \in call.touched \/ written[id].v = 0
        \/ id \in DOMAIN p.cache /\ p.cache[id].data = written[id]
        \/ id \notin DOMAIN p.cache /\ readable(p, id) /\ readPage(p, id) = written[id]

Store == INSTANCE PageStore
            WITH pages <- [id \in PageIDs |-> IF written[id] = Freed THEN 0 ELSE stored[id].v],
                 root <- p.meta.root

\* The pages as recovery would find them, and the root in the file, are a page store: a
\* page only ever goes to a newer version, one page in a step, the root is
\* stored before the metadata names it, and evictions, flushes, checkpoints,
\* truncations and recoveries change nothing, nor does a crash (which may bring back
\* the page that an interrupted merge has freed).  This holds up to the first change
\* that is lost by an eviction.
ImplementsPageStore == Store!Init /\ [][orphaned' \/ Store!Next]_(Store!vars)
=============================================================================
