----------------------------- MODULE BTreeLatch -----------------------------
(***************************************************************************)
(* btree/latch.go: ConcurrentGet and ConcurrentPut, which use latches on   *)
(* pages in place of b.mu.  A Get latches for reading and keeps the page   *)
(* above the one it is on; a Put latches the root for writing, nothing     *)
(* below it.  Both load the number of the root before they latch it, and   *)
(* go on with that page although it may not be the root any more by then:  *)
(* such a call is stale, and lost records that a stale Put has written.    *)
(* lost is also set by the splits that BTree's properties exclude.         *)
(* Reading, changing and splitting one page are one step each.             *)
(***************************************************************************)
EXTENDS PageCells

CONSTANTS Readers, Writers, \* goroutines that call ConcurrentGet, ConcurrentPut
          NoProc, Keys,
          First,            \* the value of the initial keys
          InitialKeys,      \* sets of keys the one leaf may hold at the start
          MaxCalls

VARIABLES pages, root, num, \* the tree; all pages are cached
          latch,            \* of each page: who reads, who writes or waits to write
          proc,             \* the call of each process
          store,            \* history: each key's value as the leaves were changed
          calls, lost
Procs == Readers \cup Writers
vars == <<pages, root, num, latch, proc, store, calls, lost>>

None == "none"
NoLatch == [readers |-> {}, writer |-> NoProc]

\* held: LatchCoupling's list.  seen (history): what a Get may return.
Quiet == [pc |-> "idle", key |-> 0, val |-> None, page |-> 0, top |-> 0,
          held |-> <<>>, path |-> <<>>, new |-> 0, sep |-> 0, stale |-> FALSE, seen |-> {}, got |-> None]

Init ==
    \E ks \in InitialKeys :
        /\ pages = 1 :> [NewPage(TRUE) EXCEPT !.cells = [k \in ks |-> First],
                            !.free = @ - Cardinality(ks) * cellSize(NewPage(TRUE), First)]
        /\ root = 1 /\ num = 2
        /\ latch = 1 :> NoLatch
        /\ proc = [pr \in Procs |-> Quiet]
        /\ store = [k \in Keys |-> IF k \in ks THEN First ELSE None]
        /\ calls = 0 /\ lost = FALSE

----------------------------------------------------------------------------
\* The latches, sync.RWMutex: a writer that waits keeps new readers out.

AcquireRead(pr, id) ==
    /\ latch[id].writer = NoProc
    /\ latch' = [latch EXCEPT ![id].readers = @ \cup {pr}]

Announce(pr, id) ==
    /\ latch[id].writer = NoProc
    /\ latch' = [latch EXCEPT ![id].writer = pr]

MayWrite(pr, id) == latch[id].writer = pr /\ latch[id].readers = {}

\* Mutant: latches taken for writing are not released.
Released_ReadersOnly(pr, held) ==
    [id \in DOMAIN latch |->
        IF ~Contains(held, id) THEN latch[id]
        ELSE [latch[id] EXCEPT !.readers = @ \ {pr}]]

\* The latches without those of pr on the pages of held.
Released(pr, held) ==
    [id \in DOMAIN latch |->
        IF ~Contains(held, id) THEN latch[id]
        ELSE [readers |-> latch[id].readers \ {pr},
              writer |-> IF latch[id].writer = pr THEN NoProc ELSE latch[id].writer]]

\* Mutant: nothing stays latched until the child is.
ReleaseParent_All(held) == [free |-> held, keep |-> <<>>]

\* ReleaseParent, called before the child is latched: all but the last.
ReleaseParent(held) ==
    IF Len(held) < 2 THEN [free |-> <<>>, keep |-> held]
    ELSE [free |-> Front(held), keep |-> <<Last(held)>>]

----------------------------------------------------------------------------

Pc(pr, pc) == proc[pr].pc = pc
Become(pr, s) == proc' = [proc EXCEPT ![pr] = s]

Tree == <<pages, root, num, store, lost>>

BeginGet(pr, k) ==
    /\ Pc(pr, "idle") /\ calls < MaxCalls
    /\ Become(pr, [Quiet EXCEPT !.pc = "getroot", !.key = k, !.seen = {store[k]}])
    /\ calls' = calls + 1 /\ UNCHANGED <<Tree, latch>>

BeginPut(pr, k, v) ==
    /\ Pc(pr, "idle") /\ calls < MaxCalls
    /\ Become(pr, [Quiet EXCEPT !.pc = "putroot", !.key = k, !.val = v])
    /\ calls' = calls + 1 /\ UNCHANGED <<Tree, latch>>

\* RootPageID.
LoadRoot(pr) ==
    /\ \/ Pc(pr, "getroot") /\ Become(pr, [proc[pr] EXCEPT !.pc = "latch", !.page = root, !.top = root])
       \/ Pc(pr, "putroot") /\ Become(pr, [proc[pr] EXCEPT !.pc = "lock", !.page = root, !.top = root])
    /\ UNCHANGED <<Tree, latch, calls>>

LatchPage(pr) ==
    LET s == proc[pr] IN
    /\ Pc(pr, "latch") /\ AcquireRead(pr, s.page)
    /\ Become(pr, [s EXCEPT !.pc = "read", !.held = Append(@, s.page),
                            !.stale = @ \/ s.top # root])
    /\ UNCHANGED <<Tree, calls>>

ReadInternal(pr) ==
    LET s == proc[pr]
        r == ReleaseParent(s.held)
    IN  /\ Pc(pr, "read") /\ ~pages[s.page].leaf
        /\ latch' = Released(pr, r.free)
        /\ Become(pr, [s EXCEPT !.pc = "latch", !.held = r.keep,
                                !.page = GetChildPageID(pages[s.page], s.key)])
        /\ UNCHANGED <<Tree, calls>>

ReadLeaf(pr) ==
    LET s == proc[pr]
        page == pages[s.page]
    IN  /\ Pc(pr, "read") /\ page.leaf
        /\ latch' = Released(pr, s.held)
        /\ Become(pr, [s EXCEPT !.pc = "got", !.held = <<>>,
                                !.got = IF s.key \in DOMAIN page.cells
                                        THEN page.cells[s.key] ELSE None])
        /\ UNCHANGED <<Tree, calls>>

\* The value is returned.
EndGet(pr) ==
    /\ Pc(pr, "got")
    /\ Become(pr, Quiet) /\ UNCHANGED <<Tree, latch, calls>>

LockRoot(pr) ==
    /\ Pc(pr, "lock") /\ Announce(pr, proc[pr].top)
    /\ Become(pr, [proc[pr] EXCEPT !.pc = "locking", !.held = <<proc[pr].top>>])
    /\ UNCHANGED <<Tree, calls>>

LockedRoot(pr) ==
    /\ Pc(pr, "locking") /\ MayWrite(pr, proc[pr].top)
    /\ Become(pr, [proc[pr] EXCEPT !.pc = "insert", !.stale = proc[pr].top # root])
    /\ UNCHANGED <<Tree, latch, calls>>

\* insertAndSplit on an internal page.
Descend(pr) ==
    LET s == proc[pr] IN
    /\ Pc(pr, "insert") /\ ~pages[s.page].leaf
    /\ Become(pr, [s EXCEPT !.page = GetChildPageID(pages[s.page], s.key),
                            !.path = Append(@, s.page)])
    /\ UNCHANGED <<Tree, latch, calls>>

\* The separator of a split page goes to the page above it, or to a new root.
Ascend(s, new, sep) ==
    IF s.path = <<>> THEN [s EXCEPT !.pc = "newroot", !.new = new, !.sep = sep]
    ELSE [s EXCEPT !.pc = "parent", !.new = new, !.sep = sep,
                   !.page = Last(s.path), !.path = Front(@)]

SetHalves(id, h) ==
    /\ pages' = [i \in DOMAIN pages \cup {num} |->
                    IF i = id THEN h.left ELSE IF i = num THEN h.right ELSE pages[i]]
    /\ latch' = latch @@ num :> NoLatch
    /\ num' = num + 1

\* A leaf changes: the key has its value for the Gets in progress too.
Applied(pr, s, departs) ==
    LET k == proc[pr].key
        v == proc[pr].val
    IN  /\ store' = [store EXCEPT ![k] = v]
        /\ lost' = (lost \/ proc[pr].stale \/ departs)
        /\ proc' = [q \in Procs |-> IF q = pr THEN s
                                    ELSE IF proc[q].key = k /\ proc[q].pc \in {"getroot", "latch", "read"}
                                    THEN [proc[q] EXCEPT !.seen = @ \cup {v}] ELSE proc[q]]

InsertLeaf(pr) ==
    LET s == proc[pr]
        page == pages[s.page]
    IN  /\ Pc(pr, "insert") /\ page.leaf /\ ~IsFull(page, s.val)
        /\ pages' = [pages EXCEPT ![s.page] = InsertCell(page, s.key, s.val)]
        /\ Applied(pr, [s EXCEPT !.pc = "unlock"], FALSE)
        /\ UNCHANGED <<root, num, latch, calls>>

SplitLeaf(pr) ==
    LET s == proc[pr]
        page == pages[s.page]
    IN  /\ Pc(pr, "insert") /\ page.leaf /\ IsFull(page, s.val)
        /\ \E h \in {LeafHalves(page, num, WithCell(page, s.key, s.val))} :
              /\ SetHalves(s.page, h)
              /\ Applied(pr, Ascend(s, num, h.key),
                         s.key \in DOMAIN h.left.cells \cap DOMAIN h.right.cells)
        /\ UNCHANGED <<root, calls>>

InsertSeparator(pr) ==
    LET s == proc[pr] IN
    /\ Pc(pr, "parent") /\ ~IsFull(pages[s.page], s.new)
    /\ pages' = [pages EXCEPT ![s.page] = InsertCell(@, s.sep, s.new)]
    /\ Become(pr, [s EXCEPT !.pc = "unlock"])
    /\ UNCHANGED <<root, num, latch, store, calls, lost>>

SplitInternal(pr) ==
    LET s == proc[pr]
        page == pages[s.page]
    IN  /\ Pc(pr, "parent") /\ IsFull(page, s.new)
        /\ \E h \in {InternalHalves(page, WithCell(page, s.sep, s.new))} :
              /\ SetHalves(s.page, h)
              /\ Become(pr, Ascend(s, num, h.key))
        /\ lost' = TRUE
        /\ UNCHANGED <<root, store, calls>>

\* Mutant: the number of the new root is not recorded.
NewRoot_Unrecorded(pr) ==
    LET s == proc[pr]
        page == [InsertCell(NewPage(FALSE), s.sep, s.new) EXCEPT !.right = s.top]
    IN  /\ Pc(pr, "newroot")
        /\ pages' = pages @@ num :> page
        /\ latch' = latch @@ num :> NoLatch
        /\ num' = num + 1
        /\ Become(pr, [s EXCEPT !.pc = "unlock"])
        /\ UNCHANGED <<root, store, calls, lost>>

\* handleRootSplit, with b.mu locked.
NewRoot(pr) ==
    LET s == proc[pr]
        page == [InsertCell(NewPage(FALSE), s.sep, s.new) EXCEPT !.right = s.top]
    IN  /\ Pc(pr, "newroot")
        /\ pages' = pages @@ num :> page
        /\ latch' = latch @@ num :> NoLatch
        /\ root' = num /\ num' = num + 1
        /\ Become(pr, [s EXCEPT !.pc = "unlock"])
        /\ UNCHANGED <<store, calls, lost>>

ReleaseAll(pr) ==
    /\ Pc(pr, "unlock")
    /\ latch' = Released(pr, proc[pr].held)
    /\ Become(pr, Quiet) /\ UNCHANGED <<Tree, calls>>

\* What a call does once it has begun.
Step(pr) ==
    \/ LoadRoot(pr) \/ LatchPage(pr) \/ ReadInternal(pr) \/ ReadLeaf(pr) \/ EndGet(pr)
    \/ LockRoot(pr) \/ LockedRoot(pr) \/ Descend(pr) \/ InsertLeaf(pr) \/ SplitLeaf(pr)
    \/ InsertSeparator(pr) \/ SplitInternal(pr) \/ NewRoot(pr) \/ ReleaseAll(pr)

Next ==
    \/ \E pr \in Readers, k \in Keys : BeginGet(pr, k)
    \/ \E pr \in Writers, k \in Keys, v \in Values \ {First} : BeginPut(pr, k, v)
    \/ \E pr \in Procs : Step(pr)

Spec == Init /\ [][Next]_vars

\* As long as some goroutine in a call can run, one does.
FairSpec == Spec /\ WF_proc(\E pr \in Procs : Step(pr))

----------------------------------------------------------------------------
\* Properties

\* A latched Get returns a value that the key had at some moment of the call, however
\* many Puts and splits run beside it, unless the root was split under a call that
\* had loaded its number already, or a split has left the key twice or three levels.
GetLinearizable ==
    ~lost => \A pr \in Procs :
        Pc(pr, "got") /\ ~proc[pr].stale => proc[pr].got \in proc[pr].seen

Uses(pr) == IF proc[pr].pc \in {"read", "insert", "parent", "newroot"} THEN {proc[pr].page} ELSE {}

\* While a Put is on a page no other call reads or changes it: the latch of the root
\* covers the leaves, although no Put latches one.
NoRace ==
    (~lost /\ \A pr \in Procs : ~proc[pr].stale) =>
        \A pr, q \in Procs :
            pr # q /\ proc[pr].pc \in {"insert", "parent", "newroot"} => Uses(pr) \cap Uses(q) = {}

\* The calls in progress return: no latch is kept and no two calls wait for each
\* other, stale calls included.
CallsReturn == (\E pr \in Procs : ~Pc(pr, "idle")) ~> (\A pr \in Procs : Pc(pr, "idle"))
=============================================================================
