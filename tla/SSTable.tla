------------------------------ MODULE SSTable ------------------------------
(***************************************************************************)
(* lsm/sstable_builder.go, lsm/sstable.go, lsm/bloom.go and the table      *)
(* iterator of lsm/compaction.go: how entries are packed into blocks of a  *)
(* fixed size, indexed by the first key of each block, and found again.    *)
(* Sizes are kept; bytes are not: an entry is its key, the number of its   *)
(* value, its tombstone flag and the size of key and value.  Behind the    *)
(* blocks the file is a sequence of sections; OpenSSTable finds a section  *)
(* when the offset and the length it computes are those of the section.    *)
(***************************************************************************)
EXTENDS Integers, Sequences, FiniteSets, FiniteSetsExt, SequencesExt

CONSTANTS Keys,                  \* a set of numbers, in the order of the strings
          BlockSize,             \* 4096 in the code
          BlockHeader,           \* 4: the number of entries
          EntryHeader,           \* 9: two lengths and the tombstone flag
          DataSizes,             \* sizes of key and value together
          KeySize,               \* len(key)
          FooterSize,            \* 28: three offsets and the magic number
          NumBits, NumHashes,    \* of the filter
          Hash1, Hash2           \* FNV-1a and FNV-1 of the keys

SSTableAssumption ==
    /\ Keys \subseteq Nat \ {0} /\ DataSizes \subseteq Nat
    /\ {BlockSize, EntryHeader, NumBits, NumHashes, FooterSize} \subseteq Nat \ {0}
    /\ {BlockHeader, KeySize} \subseteq Nat
    /\ Hash1 \in [Keys -> Nat] /\ Hash2 \in [Keys -> Nat]

VARIABLES added,         \* the entries given to Add (history)
          currentBlock, blockOffset,
          blocks,        \* the blocks in the file
          sections,      \* what the file holds behind them
          index, bits, minKey, maxKey,
          phase          \* building, or the section that Finish writes next, or done
vars == <<added, currentBlock, blockOffset, blocks, sections, index, bits, minKey,
          maxKey, phase>>

Absent == 0              \* Get found nothing
ReadError == -1          \* Get returned "block truncated"

Init ==
    /\ added = <<>> /\ currentBlock = <<>> /\ blocks = <<>> /\ index = <<>>
    /\ blockOffset = 0 /\ bits = {} /\ minKey = 0 /\ maxKey = 0
    /\ sections = <<>> /\ phase = "building"

----------------------------------------------------------------------------
\* BloomFilter

getHashes(k) == {(Hash1[k] + i * Hash2[k]) % NumBits : i \in 0..NumHashes - 1}

MayContain(filter, k) == getHashes(k) \subseteq filter

\* Encode: two numbers and the bit array in whole bytes.
EncodedFilter == [len |-> 12 + (NumBits + 7) \div 8, val |-> bits]

----------------------------------------------------------------------------
\* SSTableBuilder

entrySize(e) == EntryHeader + e.data
SizeOf(entries) == FoldLeft(LAMBDA n, e : n + entrySize(e), BlockHeader, entries)

\* flushBlock: an empty block is not written; a block below BlockSize is
\* padded, one above is not.
flushBlock(cur) ==
    IF cur = <<>> THEN UNCHANGED <<blocks, index, blockOffset>>
    ELSE /\ blocks' = Append(blocks, [off |-> blockOffset, entries |-> cur])
         /\ index' = Append(index, [key |-> cur[1].key, off |-> blockOffset])
         /\ blockOffset' = blockOffset + Max({SizeOf(cur), BlockSize})

\* Mutant: the comparison leaves the block header out.
Exceeds_NoHeader(cur, e) == SizeOf(cur) - BlockHeader + entrySize(e) > BlockSize

Exceeds(cur, e) == SizeOf(cur) + entrySize(e) > BlockSize

\* Add, called in the order of the keys.
Add(e) ==
    /\ phase = "building" /\ maxKey < e.key
    /\ added' = Append(added, e)
    /\ minKey' = IF added = <<>> THEN e.key ELSE minKey
    /\ maxKey' = e.key
    /\ bits' = bits \cup getHashes(e.key)
    /\ IF Exceeds(currentBlock, e)
       THEN flushBlock(currentBlock) /\ currentBlock' = <<e>>
       ELSE UNCHANGED <<blocks, index, blockOffset>> /\ currentBlock' = Append(currentBlock, e)
    /\ UNCHANGED <<sections, phase>>

encodeIndex == [len |-> 4 + Len(index) * (12 + KeySize), val |-> index]

encodeMetadata == [len |-> 8 + 2 * KeySize, val |-> <<minKey, maxKey>>]

FileSize == IF sections = <<>> THEN blockOffset ELSE Last(sections).off + Last(sections).len

Write(name, data) ==
    sections' = Append(sections, [name |-> name, off |-> FileSize, len |-> data.len,
                                  val |-> data.val])

\* Mutant: the filter is said to begin where the metadata does.
Footer_NoMetadata ==
    LET metadata == blockOffset + encodeIndex.len IN
    [len |-> FooterSize,
     val |-> [index |-> blockOffset, metadata |-> metadata, bloom |-> metadata]]

\* The offsets are computed from the lengths, not asked of the file.
Footer ==
    LET metadata == blockOffset + encodeIndex.len IN
    [len |-> FooterSize,
     val |-> [index |-> blockOffset, metadata |-> metadata,
              bloom |-> metadata + encodeMetadata.len]]

\* Finish flushes the last block and writes section by section; a failed write
\* or a crash leaves the file as it is then.  Flush and compaction finish no
\* table without entries.
FinishBlock ==
    /\ phase = "building" /\ added # <<>>
    /\ flushBlock(currentBlock)
    /\ currentBlock' = <<>>
    /\ phase' = "index"
    /\ UNCHANGED <<added, sections, bits, minKey, maxKey>>

FinishSection(name, data, next) ==
    /\ phase = name
    /\ Write(name, data)
    /\ phase' = next
    /\ UNCHANGED <<added, currentBlock, blockOffset, blocks, index, bits, minKey, maxKey>>

Finish == \/ FinishBlock
          \/ FinishSection("index", encodeIndex, "metadata")
          \/ FinishSection("metadata", encodeMetadata, "bloom")
          \/ FinishSection("bloom", EncodedFilter, "footer")
          \/ FinishSection("footer", Footer, "done")

----------------------------------------------------------------------------
\* SSTable

\* The sections that ReadAt of len bytes at off yields: one, or none when the
\* bytes are not those of a section and do not decode.
ReadSection(off, len) ==
    {sections[i].val : i \in {j \in DOMAIN sections : /\ sections[j].off = off
                                                     /\ sections[j].len = len}}

\* OpenSSTable; the magic number stands in the footer and nowhere else.
Refused == [ok |-> FALSE]
OpenSSTable ==
    IF FileSize < FooterSize \/ sections = <<>> THEN Refused
    ELSE IF Last(sections).name # "footer" THEN Refused
    ELSE LET f == Last(sections).val
             metadata == ReadSection(f.metadata, f.bloom - f.metadata)
             indexes == ReadSection(f.index, f.metadata - f.index)
             filters == ReadSection(f.bloom, FileSize - f.bloom - FooterSize)
         IN  IF metadata = {} \/ indexes = {} \/ filters = {} THEN Refused
             ELSE [ok |-> TRUE, keys |-> CHOOSE m \in metadata : TRUE,
                   index |-> CHOOSE x \in indexes : TRUE,
                   filter |-> CHOOSE b \in filters : TRUE]

\* The bytes readBlock returns end before entry i does.
Cut(entries, i) == SizeOf(SubSeq(entries, 1, i)) > BlockSize

\* searchBlock
searchBlock(entries, k) ==
    LET stop == {i \in DOMAIN entries : Cut(entries, i) \/ entries[i].key >= k}
        i == Min(stop)
    IN  IF stop = {} THEN Absent
        ELSE IF Cut(entries, i) THEN ReadError
        ELSE IF entries[i].key = k /\ ~entries[i].del THEN entries[i].num ELSE Absent

\* Get of the opened table; sort.Search finds the first block whose first key is
\* greater.
Get(sst, k) ==
    LET blockIdx == Cardinality({i \in DOMAIN sst.index : sst.index[i].key <= k})
        at == {i \in DOMAIN blocks : blocks[i].off = sst.index[blockIdx].off}
    IN  IF ~MayContain(sst.filter, k) \/ blockIdx = 0 THEN Absent
        ELSE searchBlock(blocks[CHOOSE i \in at : TRUE].entries, k)

\* SSTableIterator: loadBlock keeps the entries before the first one cut, and
\* Next ends at a block, other than the first, that yields none.
loadBlock(entries) ==
    LET cut == {i \in DOMAIN entries : Cut(entries, i)} IN
    IF cut = {} THEN entries ELSE SubSeq(entries, 1, Min(cut) - 1)

Iterated ==
    LET empty == {i \in DOMAIN blocks : i > 1 /\ loadBlock(blocks[i].entries) = <<>>}
        end == IF empty = {} THEN Len(blocks) ELSE Min(empty) - 1
    IN  FlattenSeq([i \in 1..end |-> loadBlock(blocks[i].entries)])

----------------------------------------------------------------------------
Next ==
    \/ \E k \in Keys, s \in DataSizes, d \in BOOLEAN :
          Add([key |-> k, num |-> k, del |-> d, data |-> s])
    \/ Finish
    \/ phase = "done" /\ UNCHANGED vars

Spec == Init /\ [][Next]_vars

----------------------------------------------------------------------------
\* Every entry fits a block of its own.
EntriesFit == \A i \in DOMAIN added : BlockHeader + entrySize(added[i]) <= BlockSize

\* A finished table whose entries fit a block answers for every key what was
\* added under it: filter, index and block search together never miss an
\* entry, never fail and never answer for a tombstone.  The iterator of the merge
\* sees every entry, tombstones included, in order.
ReadsExact ==
    phase = "done" /\ EntriesFit =>
        /\ \A k \in Keys :
              LET mine == {i \in DOMAIN added : added[i].key = k /\ ~added[i].del}
              IN  Get(OpenSSTable, k) = IF mine = {} THEN Absent ELSE k
        /\ Iterated = added

\* A table opens exactly when Finish has written all of it, and then with the
\* index, the filter and the key range of its entries: whatever a crash or a
\* failed write leaves is refused, so that New skips it.
OpensAsBuilt ==
    OpenSSTable = IF phase # "done" THEN Refused
                  ELSE [ok |-> TRUE, keys |-> <<added[1].key, Last(added).key>>,
                        index |-> index, filter |-> bits]
=============================================================================
