---------------------------- MODULE PageLayout ----------------------------
(***************************************************************************)
(* btree/page.go and varint.go: the bytes of a page.  A header of ten      *)
(* bytes, a directory of two-byte offsets that grows up, sorted by key,    *)
(* and cells that grow down from the end; sizes are varints.  map is the   *)
(* same page as PageCells describes it, to which the operations of the     *)
(* tree on that page are applied side by side.  Pages of the old format    *)
(* (V1) are left out: NewPage makes none.                                  *)
(***************************************************************************)
EXTENDS PageCells

CONSTANTS Keys,             \* bytes; a key repeats its byte
          Byte,             \* the byte a value repeats
          Children,         \* page numbers
          MaxOps

VARIABLES data,             \* Page.data
          map, ops
vars == <<data, map, ops>>

----------------------------------------------------------------------------
\* encoding/binary and varint.go

put(d, off, bytes) ==
    [i \in DOMAIN d |-> IF off <= i /\ i < off + Len(bytes) THEN bytes[i - off + 1] ELSE d[i]]
read(d, off, n) == [i \in 1..n |-> d[off + i - 1]]

bigEndian16(x) == <<x \div 256, x % 256>>
bigEndian32(x) == bigEndian16(x \div 65536) \o bigEndian16(x % 65536)
uint16(d, off) == d[off] * 256 + d[off + 1]
uint32(d, off) == uint16(d, off) * 65536 + uint16(d, off + 2)

RECURSIVE putUvarint(_)
putUvarint(x) == IF x < 128 THEN <<x>> ELSE <<(x % 128) + 128>> \o putUvarint(x \div 128)

RECURSIVE uvarint(_, _)
\* The number at off and how many bytes it takes.
uvarint(d, off) ==
    IF d[off] < 128 THEN [x |-> d[off], n |-> 1]
    ELSE LET rest == uvarint(d, off + 1) IN [x |-> (d[off] % 128) + 128 * rest.x, n |-> rest.n + 1]

----------------------------------------------------------------------------
\* page.go

isLeaf(d) == d[0] = 2
numCells(d) == uint16(d, 1)
setNumCells(d, x) == put(d, 1, bigEndian16(x))
rightPtr(d) == uint32(d, 3)
freePtr(d) == uint16(d, 7)
setFreePtr(d, x) == put(d, 7, bigEndian16(x))

getCellOffset(d, n) == uint16(d, cellDirOffset(n))
setCellOffset(d, n, off) == put(d, cellDirOffset(n), bigEndian16(off))

emptyPage(leaf) ==
    LET zeros == [i \in 0..PageSize - 1 |-> 0]
        d == put(zeros, 0, <<IF leaf THEN 2 ELSE 1>>)
    IN  put(setFreePtr(d, PageSize), 9, <<2>>)

keyBytes(k) == [i \in 1..KeySize |-> k]
valueBytes(v) == [i \in 1..ValueSize[v] |-> Byte[v]]

\* writeLeafCell, writeInternalCell
cellBytes(leaf, k, c) ==
    IF leaf THEN putUvarint(KeySize) \o putUvarint(ValueSize[c]) \o keyBytes(k) \o valueBytes(c)
    ELSE putUvarint(KeySize) \o bigEndian32(c) \o keyBytes(k)

\* parseLeafCell, parseInternalCell
CellAt(d, index) ==
    LET off == getCellOffset(d, index)
        keySize == uvarint(d, off)
        valueSize == uvarint(d, off + keySize.n)
        header == keySize.n + IF isLeaf(d) THEN valueSize.n ELSE 4
    IN  [key |-> read(d, off + header, keySize.x),
         c |-> IF isLeaf(d) THEN read(d, off + header + keySize.x, valueSize.x)
               ELSE uint32(d, off + keySize.n)]

\* Binary search: the index of the key and whether it is there.
searchCell(d, k) ==
    LET n == numCells(d)
        search[left \in 0..n, right \in 0..n] ==
            LET mid == (left + right) \div 2
                key == CellAt(d, mid).key
            IN  IF left >= right THEN [at |-> left, found |-> FALSE]
                ELSE IF key = keyBytes(k) THEN [at |-> mid, found |-> TRUE]
                ELSE IF k < key[1] THEN search[left, mid] ELSE search[mid + 1, right]
    IN  search[0, n]

deleteCell(d, index) ==
    LET n == numCells(d)
        shifted == [j \in 0..n - 1 |-> IF j < index \/ j = n - 1 THEN getCellOffset(d, j)
                                       ELSE getCellOffset(d, j + 1)]
        dir == FoldLeft(LAMBDA e, j : setCellOffset(e, j, shifted[j]), d, [i \in 1..n |-> i - 1])
    IN  setNumCells(dir, n - 1)

\* Mutant: the directory entry of the new cell is not counted.
isFull_NoEntry(d, c) == freePtr(d) - cellDirOffset(numCells(d)) < cellSize([leaf |-> isLeaf(d)], c)

isFull(d, c) == freePtr(d) - cellDirOffset(numCells(d) + 1) < cellSize([leaf |-> isLeaf(d)], c)

\* For a page with room; the cell of the same key was deleted.
insertNew(d, k, c) ==
    LET n == numCells(d)
        at == searchCell(d, k).at
        off == freePtr(d) - cellSize([leaf |-> isLeaf(d)], c)
        cell == put(d, off, cellBytes(isLeaf(d), k, c))
        shifted == [j \in 0..n |-> IF j < at THEN getCellOffset(cell, j)
                                   ELSE IF j = at THEN off ELSE getCellOffset(cell, j - 1)]
        dir == FoldLeft(LAMBDA e, j : setCellOffset(e, j, shifted[j]), cell, [i \in 1..n + 1 |-> i - 1])
    IN  setFreePtr(setNumCells(dir, n + 1), off)

insertCell(d, k, c) ==
    LET s == searchCell(d, k)
    IN  insertNew(IF s.found THEN deleteCell(d, s.at) ELSE d, k, c)

----------------------------------------------------------------------------

Init ==
    \E leaf \in BOOLEAN :
        data = emptyPage(leaf) /\ map = NewPage(leaf) /\ ops = 0

Cells == IF map.leaf THEN Values ELSE Children

\* A full page: ErrPageFull, nothing changes.
InsertStep(k, c) ==
    /\ ops < MaxOps
    /\ ~isFull(data, c)
    /\ data' = insertCell(data, k, c)
    /\ map' = InsertCell(map, k, c)
    /\ ops' = ops + 1

DeleteStep(k) ==
    LET s == searchCell(data, k) IN
    /\ ops < MaxOps
    /\ s.found
    /\ data' = deleteCell(data, s.at)
    /\ map' = DeleteCell(map, k)
    /\ ops' = ops + 1

SetRightPtr(ptr) ==
    /\ ops < MaxOps
    /\ data' = put(data, 3, bigEndian32(ptr))
    /\ map' = [map EXCEPT !.right = ptr]
    /\ ops' = ops + 1

\* What a split does before it fills the page again.
Reset ==
    /\ ops < MaxOps
    /\ data' = setFreePtr(setNumCells(data, 0), PageSize)
    /\ map' = Clear(map)
    /\ ops' = ops + 1

Next ==
    \/ \E k \in Keys : DeleteStep(k) \/ \E c \in Cells : InsertStep(k, c)
    \/ \E ptr \in Children : SetRightPtr(ptr)
    \/ Reset
    \/ ops = MaxOps /\ UNCHANGED vars

Spec == Init /\ [][Next]_vars

----------------------------------------------------------------------------
\* Properties

Decoded(c) == IF map.leaf THEN valueBytes(c) ELSE c

\* The bytes always say what the map of PageCells says: the directory is sorted and has
\* one entry per key, each cell reads back as it was written although cells and
\* directory share the page, and binary search finds every key and no other.
BytesMatchMap ==
    LET cs == CellSeq(map) IN
    /\ isLeaf(data) = map.leaf /\ rightPtr(data) = map.right /\ freePtr(data) = map.free
    /\ numCells(data) = Len(cs)
    /\ \A i \in DOMAIN cs :
          CellAt(data, i - 1) = [key |-> keyBytes(cs[i].key), c |-> Decoded(cs[i].c)]
    /\ \A k \in Keys : searchCell(data, k).found = (k \in DOMAIN map.cells)
=============================================================================
