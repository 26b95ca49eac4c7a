----------------------------- MODULE PageCells -----------------------------
(***************************************************************************)
(* A page of btree/page.go as the tree sees it: the cells it holds by key, *)
(* the right pointer, and the byte at which the next cell would end.  Only *)
(* sizes decide whether a cell fits, so a value is a name with a size.     *)
(* That the directory of offsets behaves like this map is PageLayout's     *)
(* business.                                                               *)
(***************************************************************************)
EXTENDS Integers, Sequences, FiniteSets, FiniteSetsExt, SequencesExt, TLC

CONSTANTS PageSize,         \* 4096
          KeySize,          \* len(key), the same for every key
          Values,           \* what Put stores
          ValueSize         \* the length of each value

ASSUME PageAssumption ==
    /\ PageSize \in Nat /\ KeySize \in Nat \ {0} /\ ValueSize \in [Values -> Nat]

HeaderSize == 10
CellDirEntrySize == 2

\* The cells of an internal page hold page numbers, those of a leaf values.
NewPage(leaf) == [leaf |-> leaf, cells |-> <<>>, right |-> 0, free |-> PageSize]

NumCells(page) == Cardinality(DOMAIN page.cells)

varintSize16(x) == IF x < 128 THEN 1 ELSE IF x < 16384 THEN 2 ELSE 3

cellSize(page, c) ==
    IF page.leaf
    THEN varintSize16(KeySize) + varintSize16(ValueSize[c]) + KeySize + ValueSize[c]
    ELSE varintSize16(KeySize) + 4 + KeySize

cellDirOffset(n) == HeaderSize + n * CellDirEntrySize

IsFull(page, c) == page.free - cellDirOffset(NumCells(page) + 1) < cellSize(page, c)

\* A cell of the same key is deleted first, and its bytes are not reclaimed.
InsertCell(page, k, c) ==
    [page EXCEPT !.cells = [j \in DOMAIN @ \cup {k} |-> IF j = k THEN c ELSE @[j]],
                 !.free = @ - cellSize(page, c)]

DeleteCell(page, k) == [page EXCEPT !.cells = [j \in DOMAIN @ \ {k} |-> @[j]]]

Clear(page) == [page EXCEPT !.cells = <<>>, !.free = PageSize]

\* The cells in the order of the directory.
CellSeq(page) ==
    LET ks == DOMAIN page.cells
        at(i) == CHOOSE k \in ks : Cardinality({j \in ks : j < k}) = i - 1
    IN  [i \in 1..Cardinality(ks) |-> [key |-> at(i), c |-> page.cells[at(i)]]]

\* The cells cs are inserted one after the other, up to the first that does not fit.
Fill(page, cs) ==
    FoldLeft(LAMBDA r, x : IF ~r.ok \/ IsFull(r.page, x.c) THEN [r EXCEPT !.ok = FALSE]
                           ELSE [r EXCEPT !.page = InsertCell(@, x.key, x.c)],
             [page |-> page, ok |-> TRUE], cs)

\* The same without looking at the error: a cell that does not fit is dropped.
FillSome(page, cs) ==
    FoldLeft(LAMBDA p, x : IF IsFull(p, x.c) THEN p ELSE InsertCell(p, x.key, x.c), page, cs)

----------------------------------------------------------------------------
\* node.go and the parts of split.go that concern one page

\* Mutant: a key equal to the separator goes to the left.
GetChildPageID_Strict(page, k) ==
    LET below == {s \in DOMAIN page.cells : s < k}
    IN  IF below = {} THEN page.right ELSE page.cells[Max(below)]

\* GetChildPageID, and findChild of btree.go: the last cell whose key is not
\* above k, the right pointer when there is none.
GetChildPageID(page, k) ==
    LET below == {s \in DOMAIN page.cells : s <= k}
    IN  IF below = {} THEN page.right ELSE page.cells[Max(below)]

\* The cells of a full page with the new one, behind a cell of the same key.
WithCell(page, k, c) ==
    LET cs == CellSeq(page)
    IN  SelectSeq(cs, LAMBDA x : x.key <= k) \o <<[key |-> k, c |-> c]>>
          \o SelectSeq(cs, LAMBDA x : x.key > k)

\* Mutant: the new page does not take over the old right pointer.
LinkLeaves_Cut(left, right, new) ==
    [left |-> [left EXCEPT !.right = new], right |-> right]

\* The new page, number new, comes behind the one that was split.
LinkLeaves(left, right, new) ==
    [left |-> [left EXCEPT !.right = new], right |-> [right EXCEPT !.right = left.right]]

\* The two pages after splitLeaf of page into itself and page number new.  A
\* cell that does not fit ends the split where it is.
LeafHalves(page, new, cs) ==
    LET mid == Len(cs) \div 2
        left == Fill(Clear(page), SubSeq(cs, 1, mid))
        right == IF left.ok THEN Fill(NewPage(TRUE), SubSeq(cs, mid + 1, Len(cs)))
                 ELSE [page |-> NewPage(TRUE), ok |-> FALSE]
    IN  IF right.ok THEN [ok |-> TRUE, key |-> cs[mid + 1].key]
                           @@ LinkLeaves(left.page, right.page, new)
        ELSE [ok |-> FALSE, left |-> left.page, right |-> right.page]

\* Mutant: the middle cell goes up and stays in the left page too.
InternalHalves_KeepMiddle(page, cs) ==
    LET mid == Len(cs) \div 2 + 1
        left == Fill(Clear(page), SubSeq(cs, 1, mid)).page
        right == Fill(NewPage(FALSE), SubSeq(cs, mid + 1, Len(cs))).page
    IN  [key |-> cs[mid].key, left |-> [left EXCEPT !.right = cs[mid].c],
         right |-> [right EXCEPT !.right = page.right]]

\* The two pages after splitInternal; the middle cell goes up.
InternalHalves(page, cs) ==
    LET mid == Len(cs) \div 2 + 1
        left == Fill(Clear(page), SubSeq(cs, 1, mid - 1)).page
        right == Fill(NewPage(FALSE), SubSeq(cs, mid + 1, Len(cs))).page
    IN  [key |-> cs[mid].key, left |-> [left EXCEPT !.right = cs[mid].c],
         right |-> [right EXCEPT !.right = page.right]]
=============================================================================
