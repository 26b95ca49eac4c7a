------------------------------- MODULE BTree -------------------------------
(***************************************************************************)
(* btree/btree.go, split.go, merge.go and iterator.go: Put with its        *)
(* splits, Delete with its rebalancing, Get and Scan over one tree.  Put   *)
(* and Delete hold b.mu and are one step; an iterator takes no lock, and   *)
(* the caller's Puts and Deletes come between its calls of Next.  All      *)
(* pages stay in the cache (Pager models eviction, flushing and recovery), *)
(* so reading a page that was freed fails.                                 *)
(*                                                                         *)
(* The code leaves the shape its lookups rely on in a few places.  They    *)
(* are recorded in tree.dep, and each property says which it tolerates.    *)
(* After one that loses pages, no further call is followed.                *)
(*   internal   an internal page was split                                 *)
(*   overflow   a split failed half way, Put returned an error             *)
(*   twice      an update split its page between old and new cell          *)
(*   rebalance  a leaf was merged, or its cells redistributed              *)
(*   empty      a leaf other than the root has no cell left                *)
(*   panic      a nil cell was dereferenced, the process is gone           *)
(***************************************************************************)
EXTENDS PageCells

CONSTANTS Keys,             \* a set of numbers, in the order of the strings
          MinCells,         \* uint16(MaxCellsPerPage * MinFillFactor)
          ScanRanges,       \* start and end keys of iterators
          MaxPuts, MaxDeletes, MaxScans

VARIABLES tree,             \* pages by number, root, NumPages; dep (history)
          store,            \* history: what the calls that succeeded have stored
          it,               \* the iterator
          calls             \* how many calls of each kind were made
vars == <<tree, store, it, calls>>

NotFound == [found |-> FALSE]

----------------------------------------------------------------------------
\* btree.go, Get

RECURSIVE Leaf(_, _, _)
\* The leaf that a descent from page id for key k ends at; 0: a page cannot be read.
Leaf(t, id, k) ==
    IF id \notin DOMAIN t.pages THEN 0
    ELSE IF t.pages[id].leaf THEN id
    ELSE Leaf(t, GetChildPageID(t.pages[id], k), k)

Get(t, k) ==
    LET leaf == Leaf(t, t.root, k)
    IN  IF leaf # 0 /\ k \in DOMAIN t.pages[leaf].cells
        THEN [found |-> TRUE, value |-> t.pages[leaf].cells[k]] ELSE NotFound

----------------------------------------------------------------------------
\* split.go

\* A call that ends without a split, or with a split that put a cell into the parent.
Done(t) == [tree |-> t, ok |-> TRUE, new |-> 0]
Failed(t) == [tree |-> t, ok |-> FALSE, new |-> 0]

\* The pages after the split of page id, whose second half is the next page number.
SetHalves(t, id, h, deps) ==
    [t EXCEPT !.pages = [i \in DOMAIN @ \cup {t.num} |->
                            IF i = id THEN h.left ELSE IF i = t.num THEN h.right ELSE @[i]],
              !.num = @ + 1, !.dep = @ \cup deps]

\* A page whose bytes were used up by deleted cells may be split with no cell in it.
LeafDepartures(h, k) ==
    (IF k \in DOMAIN h.left.cells \cap DOMAIN h.right.cells THEN {"twice"} ELSE {})
      \cup (IF NumCells(h.left) = 0 THEN {"empty"} ELSE {})

splitLeaf(t, id, k, v) ==
    LET page == t.pages[id]
        h == LeafHalves(page, t.num, WithCell(page, k, v))
    IN  IF ~h.ok THEN Failed(SetHalves(t, id, h, {"overflow"}))
        ELSE [tree |-> SetHalves(t, id, h, LeafDepartures(h, k)),
              ok |-> TRUE, new |-> t.num, key |-> h.key]

splitInternal(t, id, k, child) ==
    LET page == t.pages[id]
        h == InternalHalves(page, WithCell(page, k, child))
    IN  [tree |-> SetHalves(t, id, h, {"internal"}), ok |-> TRUE, new |-> t.num, key |-> h.key]

\* The separator of a split child goes into page id.
insertSeparator(t, id, k, child) ==
    LET page == t.pages[id]
    IN  IF IsFull(page, child) THEN splitInternal(t, id, k, child)
        ELSE Done([t EXCEPT !.pages[id] = InsertCell(page, k, child)])

RECURSIVE insertAndSplit(_, _, _, _)
insertAndSplit(t, id, k, v) ==
    LET page == t.pages[id] IN
    IF page.leaf
    THEN IF IsFull(page, v) THEN splitLeaf(t, id, k, v)
         ELSE Done([t EXCEPT !.pages[id] = InsertCell(page, k, v)])
    ELSE LET r == insertAndSplit(t, GetChildPageID(page, k), k, v)
         IN  IF r.new = 0 THEN r ELSE insertSeparator(r.tree, id, r.key, r.new)

handleRootSplit(r) ==
    LET t == r.tree
        page == [InsertCell(NewPage(FALSE), r.key, r.new) EXCEPT !.right = t.root]
    IN  Done([t EXCEPT !.pages = [i \in DOMAIN @ \cup {t.num} |-> IF i = t.num THEN page ELSE @[i]],
                       !.root = t.num, !.num = @ + 1])

PutResult(t, k, v) ==
    LET r == insertAndSplit(t, t.root, k, v)
    IN  IF r.new = 0 THEN r ELSE handleRootSplit(r)

----------------------------------------------------------------------------
\* merge.go

shouldMerge(t, id) == id # t.root /\ NumCells(t.pages[id]) < MinCells

RECURSIVE Parent(_, _, _, _)
\* The last internal page on the way from page id to page leaf.
Parent(t, id, leaf, k) ==
    LET child == GetChildPageID(t.pages[id], k)
    IN  IF child = leaf THEN id ELSE Parent(t, child, leaf, k)

\* An index that uint16 wraps around to: no cell has it.
NoIndex == 65535

\* findSibling: indices count from 0, and -1 is the right pointer.  The second
\* test is true of -1 too, so that the last one of the code is never reached.
findSibling(t, leaf, k) ==
    LET id == Parent(t, t.root, leaf, k)
        cs == CellSeq(t.pages[id])
        at == {i \in DOMAIN cs : cs[i].c = leaf}
        childIdx == IF at = {} THEN -1 ELSE Min(at) - 1
    IN  IF childIdx > 0
        THEN [found |-> TRUE, parent |-> id, sibling |-> cs[childIdx].c, sep |-> childIdx - 1]
        ELSE IF childIdx < Len(cs) - 1
        THEN [found |-> TRUE, parent |-> id, sibling |-> cs[childIdx + 2].c,
              sep |-> IF childIdx = -1 THEN NoIndex ELSE childIdx]
        ELSE NotFound

canRedistribute(page, sibling) ==
    /\ NumCells(page) + NumCells(sibling) >= 2 * MinCells
    /\ NumCells(sibling) > MinCells

\* The cells of both pages, those of the page with the smaller first key first.
AllCells(page, sibling) ==
    IF Min(DOMAIN page.cells) < Min(DOMAIN sibling.cells)
    THEN CellSeq(page) \o CellSeq(sibling) ELSE CellSeq(sibling) \o CellSeq(page)

Depart(t, d) == [t EXCEPT !.dep = @ \cup {d}]

\* The separator is changed in a copy of the parent's cell only.
redistributeLeaf(t, id, s) ==
    LET page == t.pages[id]
        sibling == t.pages[s.sibling]
        all == AllCells(page, sibling)
        target == Len(all) \div 2
        t1 == [t EXCEPT !.pages[id] = FillSome(Clear(page), SubSeq(all, 1, target)),
                        !.pages[s.sibling] =
                            FillSome(Clear(sibling), SubSeq(all, target + 1, Len(all)))]
    IN  Depart(t1, IF s.sep = NoIndex THEN "panic" ELSE "rebalance")

\* DeleteCell fails for NoIndex: the cells are then in both pages.  Otherwise
\* the sibling is freed.
mergeLeafPages(t, id, s) ==
    LET page == t.pages[id]
        sibling == t.pages[s.sibling]
        parent == t.pages[s.parent]
        merged == [FillSome(Clear(page), AllCells(page, sibling)) EXCEPT !.right = sibling.right]
        t1 == Depart([t EXCEPT !.pages[id] = merged], "rebalance")
    IN  IF s.sep = NoIndex THEN t1
        ELSE [t1 EXCEPT !.pages = [i \in DOMAIN @ \ {s.sibling} |->
                                     IF i = s.parent
                                     THEN DeleteCell(parent, CellSeq(parent)[s.sep + 1].key)
                                     ELSE @[i]]]

mergeOrRedistribute(t, id, k) ==
    IF ~shouldMerge(t, id) THEN t
    ELSE LET s == findSibling(t, id, k) IN
         IF ~s.found THEN t
         ELSE LET page == t.pages[id]
                  sibling == t.pages[s.sibling]
              IN  IF NumCells(page) = 0 \/ NumCells(sibling) = 0 THEN Depart(t, "panic")
                  ELSE IF canRedistribute(page, sibling) THEN redistributeLeaf(t, id, s)
                  ELSE mergeLeafPages(t, id, s)

\* Delete of a key that leaf holds.
deleteFromLeaf(t, leaf, k) ==
    LET page == DeleteCell(t.pages[leaf], k)
        t1 == [t EXCEPT !.pages[leaf] = page,
                        !.dep = IF leaf # t.root /\ NumCells(page) = 0 THEN @ \cup {"empty"} ELSE @]
    IN  mergeOrRedistribute(t1, leaf, k)

----------------------------------------------------------------------------
\* iterator.go.  0 stands for the empty start key and for no end key.

RECURSIVE FirstLeaf(_, _)
\* The way seek takes for the empty key: always the first cell's child; 0 when an
\* internal page has no cell.
FirstLeaf(t, id) ==
    IF t.pages[id].leaf THEN id
    ELSE IF NumCells(t.pages[id]) = 0 THEN 0
    ELSE FirstLeaf(t, CellSeq(t.pages[id])[1].c)

NoIterator == [page |-> 0, idx |-> 0, first |-> FALSE, to |-> 0, key |-> 0, end |-> "none",
               must |-> {}]

\* Mutant: the start key itself is skipped.
seek_Past(t, from, to) ==
    LET leaf == IF from = 0 THEN FirstLeaf(t, t.root) ELSE Leaf(t, t.root, from)
    IN  IF leaf = 0 THEN [NoIterator EXCEPT !.end = IF from = 0 THEN "done" ELSE "error"]
        ELSE [NoIterator EXCEPT !.page = leaf, !.to = to, !.first = TRUE, !.end = "open",
                !.idx = Cardinality({k \in DOMAIN t.pages[leaf].cells : k <= from})]

\* seek to the first key of the leaf that is not below from.
seek(t, from, to) ==
    LET leaf == IF from = 0 THEN FirstLeaf(t, t.root) ELSE Leaf(t, t.root, from)
    IN  IF leaf = 0 THEN [NoIterator EXCEPT !.end = IF from = 0 THEN "done" ELSE "error"]
        ELSE [NoIterator EXCEPT !.page = leaf, !.to = to, !.first = TRUE, !.end = "open",
                !.idx = Cardinality({k \in DOMAIN t.pages[leaf].cells : k < from})]

\* Mutant: an index that is more than one beyond the page's cells ends the scan.
IterNext_Shrunk(t, i) ==
    LET here == t.pages[i.page]
        idx == IF i.first THEN i.idx ELSE i.idx + 1
        over == idx >= NumCells(here)
        page == IF over THEN t.pages[here.right] ELSE here
        at == IF over THEN 0 ELSE idx
        close(why) == [NoIterator EXCEPT !.end = why, !.must = i.must]
    IN  IF over /\ (here.right = 0 \/ idx > NumCells(here)) THEN close("done")
        ELSE IF at >= NumCells(page) THEN close("error")
        ELSE LET k == CellSeq(page)[at + 1].key
             IN  IF i.to # 0 /\ k >= i.to THEN close("done")
                 ELSE [i EXCEPT !.page = IF over THEN here.right ELSE @, !.idx = at,
                                !.first = FALSE, !.key = k, !.must = @ \ {k}]

\* One call of Next, and of Key when it returned true.  In a leaf without cells
\* Key finds no cell and sets the error.
IterNext(t, i) ==
    LET here == t.pages[i.page]
        idx == IF i.first THEN i.idx ELSE i.idx + 1
        over == idx >= NumCells(here)
        page == IF over THEN t.pages[here.right] ELSE here
        at == IF over THEN 0 ELSE idx
        close(why) == [NoIterator EXCEPT !.end = why, !.must = i.must]
    IN  IF over /\ here.right = 0 THEN close("done")
        ELSE IF at >= NumCells(page) THEN close("error")
        ELSE LET k == CellSeq(page)[at + 1].key
             IN  IF i.to # 0 /\ k >= i.to THEN close("done")
                 ELSE [i EXCEPT !.page = IF over THEN here.right ELSE @, !.idx = at,
                                !.first = FALSE, !.key = k, !.must = @ \ {k}]

----------------------------------------------------------------------------

Init ==
    /\ tree = [pages |-> 1 :> NewPage(TRUE), root |-> 1, num |-> 2, dep |-> {}]
    /\ store = <<>> /\ it = NoIterator
    /\ calls = [put |-> 0, delete |-> 0, scan |-> 0]

Loses == {"overflow", "rebalance", "panic"}

Followed == tree.dep \cap Loses = {}

InRange(from, to) == {k \in DOMAIN store : k >= from /\ (to = 0 \/ k < to)}

Put(k, v) ==
    /\ Followed /\ calls.put < MaxPuts
    /\ LET r == PutResult(tree, k, v) IN
        /\ tree' = r.tree
        /\ store' = IF r.ok THEN [j \in DOMAIN store \cup {k} |-> IF j = k THEN v ELSE store[j]]
                    ELSE store
    /\ calls' = [calls EXCEPT !.put = @ + 1] /\ UNCHANGED it

\* Without the key Delete returns ErrKeyNotFound and changes nothing.
Delete(k) ==
    /\ Followed /\ calls.delete < MaxDeletes
    /\ Get(tree, k).found
    /\ tree' = deleteFromLeaf(tree, Leaf(tree, tree.root, k), k)
    /\ store' = [j \in DOMAIN store \ {k} |-> store[j]]
    /\ it' = [it EXCEPT !.must = {}]
    /\ calls' = [calls EXCEPT !.delete = @ + 1]

\* must (history): what is stored now and has to be returned.
Scan(from, to) ==
    /\ Followed /\ calls.scan < MaxScans /\ it.end # "open"
    /\ it' = [seek(tree, from, to) EXCEPT !.must = InRange(from, to)]
    /\ calls' = [calls EXCEPT !.scan = @ + 1] /\ UNCHANGED <<tree, store>>

NextKey ==
    /\ Followed /\ it.end = "open"
    /\ it' = IterNext(tree, it) /\ UNCHANGED <<tree, store, calls>>

CloseIterator ==
    /\ it.end = "open"
    /\ it' = NoIterator /\ UNCHANGED <<tree, store, calls>>

Next ==
    \/ \E k \in Keys : (\E v \in Values : Put(k, v)) \/ Delete(k)
    \/ \E r \in ScanRanges : Scan(r[1], r[2])
    \/ NextKey \/ CloseIterator

Spec == Init /\ [][Next]_vars

----------------------------------------------------------------------------
\* Properties

Stored(k) == IF k \in DOMAIN store THEN [found |-> TRUE, value |-> store[k]] ELSE NotFound

\* Get of any key returns what the last successful Put of it stored, and nothing
\* after a Delete, as long as the tree has not departed: leaf splits, a first
\* root, updates in place, and deletes that leave a leaf empty are covered.
GetExact == tree.dep \subseteq {"empty"} => \A k \in Keys : Get(tree, k) = Stored(k)

\* The same after the split of an internal page too: "Cell(K, P) means P contains keys
\* >= K; RightPtr contains keys < first cell's key" (GetChildPageID).
PutsReadable == tree.dep \subseteq {"internal"} => \A k \in Keys : Get(tree, k) = Stored(k)

RECURSIVE ChainFrom(_, _)
ChainFrom(t, id) == IF id = 0 THEN <<>> ELSE <<id>> \o ChainFrom(t, t.pages[id].right)

\* The leaves in the order in which an iterator goes through them.
Chain == ChainFrom(tree, 1)

\* No split takes a stored pair out of the leaves: even when an internal split has cut
\* it off from lookups, it is in a leaf that the chain of right pointers reaches.
ChainHolds ==
    tree.dep \cap Loses = {} =>
        \A k \in DOMAIN store : \E i \in DOMAIN Chain :
            LET page == tree.pages[Chain[i]]
            IN  page.leaf /\ k \in DOMAIN page.cells /\ page.cells[k] = store[k]

Children(page) == IF page.leaf THEN {} ELSE {page.right} \cup {page.cells[k] : k \in DOMAIN page.cells}

RECURSIVE Depths(_, _)
Depths(t, id) == IF t.pages[id].leaf THEN {0}
                 ELSE UNION {{d + 1 : d \in Depths(t, c)} : c \in Children(t.pages[id])}

\* Puts keep the tree a tree: leaves at one depth, and every page but the root
\* in exactly one place of one parent, internal splits included.
TreeShape ==
    tree.dep \subseteq {"internal"} =>
        /\ Cardinality(Depths(tree, tree.root)) = 1
        /\ \A id \in DOMAIN tree.pages \ {tree.root} :
              Cardinality({p \in DOMAIN tree.pages : id \in Children(tree.pages[p])}) = 1
        /\ \A p \in DOMAIN tree.pages : ~tree.pages[p].leaf =>
              Cardinality(Children(tree.pages[p])) = NumCells(tree.pages[p]) + 1

RECURSIVE Scanned(_, _)
\* What an iterator returns from here on when no write comes between.
Scanned(t, i) ==
    LET j == IterNext(t, i)
    IN  IF j.end = "open" THEN <<j.key>> \o Scanned(t, j)
        ELSE IF j.end = "error" THEN <<0>> ELSE <<>>

\* A scan that no write interrupts gives the stored keys from its start key up to its
\* end key, each once and in order, and ends without an error.  Without a start
\* key this holds of a tree of one leaf only: seek enters at the first cell.
ScanExact ==
    tree.dep = {} => \A from, to \in Keys \cup {0} :
        from # 0 \/ tree.root = 1 =>
            Scanned(tree, seek(tree, from, to)) =
                SetToSortSeq(InRange(from, to), <)

\* An iterator skips nothing because of Puts between its calls of Next: when it
\* comes to its end it has returned every key of its range that was stored when it
\* was opened, although splits move cells away from under it.  A Delete may make it
\* skip a key; keys may come twice.
ScanComplete == tree.dep \subseteq {"twice"} /\ it.end # "open" => it.must = {}
=============================================================================
