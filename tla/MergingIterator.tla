-------------------------- MODULE MergingIterator --------------------------
(***************************************************************************)
(* lsm/iterator.go: Scan, which merges the iterators of the active and of  *)
(* the immutable memtable, and the caller's loop over it.  A memtable is   *)
(* the sorted sequence of its entries, which NewMemTableIterator copies    *)
(* under lsm.mu, so that later writes do not matter.  A value is named by  *)
(* the memtable it comes from.                                             *)
(***************************************************************************)
EXTENDS Integers, Sequences, FiniteSets, FiniteSetsExt, SequencesExt

CONSTANTS Keys      \* a set of numbers, in the order of the strings

Empty == 0          \* the key ""
KeysAssumption == Keys \subseteq Nat

Sources == 1..2     \* active, immutable; the number is the priority

VARIABLES entries,       \* per source: what GetAllEntries returned
          index,         \* per source: MemTableIterator.index
          heap,          \* one entry at most per source
          currentKey, currentValue,
          seen           \* history: what the caller has been given
vars == <<entries, index, heap, currentKey, currentValue, seen>>

----------------------------------------------------------------------------
\* MemTableIterator

Valid(s, i) == i \in DOMAIN entries[s] /\ ~entries[s][i].del

\* The index after MemTableIterator.Next.
After(s, i) ==
    Min({j \in DOMAIN entries[s] : j > i /\ ~entries[s][j].del} \cup {Len(entries[s]) + 1})

\* The entries pushed for the sources S, whose iterators stand at at.
Pushed(S, at) == {[key |-> entries[s][at[s]].key, src |-> s] : s \in {t \in S : Valid(t, at[t])}}

----------------------------------------------------------------------------
\* MergingIterator.  Key and priority order the heap completely, so that Pop
\* gives the one least entry.

Less(a, b) == a.key < b.key \/ (a.key = b.key /\ a.src < b.src)

\* Mutant: the other entries of the key stay on the heap.
Popped_One(h, e) == {e}

\* The entry that Next pops and the duplicates it pops after it: every source
\* has a key once, so what it pushes in between is no duplicate.
Popped(h, e) == {d \in h : d.key = e.key}

\* Next on heap h, with the iterators at at.
NextFrom(h, at) ==
    IF h = {} THEN /\ currentKey' = Empty /\ currentValue' = 0
                   /\ heap' = {} /\ index' = at
    ELSE LET e == CHOOSE e \in h : \A d \in h \ {e} : Less(e, d)
             from == {d.src : d \in Popped(h, e)}
             moved == [s \in Sources |-> IF s \in from THEN After(s, at[s]) ELSE at[s]]
         IN  /\ currentKey' = e.key /\ currentValue' = e.src
             /\ heap' = (h \ Popped(h, e)) \cup Pushed(from, moved)
             /\ index' = moved

\* Scan has not begun to seek.
NotBegun == 0

Memtables == UNION {{SetToSortSeq({[key |-> k, del |-> k \in dels] : k \in ks},
                                  LAMBDA a, b : a.key < b.key) : dels \in SUBSET ks} :
                       ks \in SUBSET Keys}

\* Scan of any two memtables; without an immutable one its source has no entry.
\* The arguments start and end of Scan are not used by the code.
Init ==
    /\ entries \in [Sources -> Memtables]
    /\ index = [s \in Sources |-> NotBegun] /\ heap = {}
    /\ currentKey = Empty /\ currentValue = 0 /\ seen = <<>>

SeekToFirst ==
    LET first == [s \in Sources |-> 1] IN
    /\ index[1] = NotBegun
    /\ NextFrom(Pushed(Sources, first), first)
    /\ UNCHANGED <<entries, seen>>

\* The caller's loop: while Valid, it takes Key and Value and calls Next.
Next ==
    /\ currentKey # Empty
    /\ seen' = Append(seen, [key |-> currentKey, src |-> currentValue])
    /\ NextFrom(heap, index)
    /\ UNCHANGED entries

Ended == index[1] # NotBegun /\ currentKey = Empty

Scan == SeekToFirst \/ Next \/ (Ended /\ UNCHANGED vars)

Spec == Init /\ [][Scan]_vars

----------------------------------------------------------------------------
Has(s, k, d) == \E i \in DOMAIN entries[s] : entries[s][i] = [key |-> k, del |-> d]

\* The sources Scan reads: SeekToFirst pushes those that begin with a value.
Read == {s \in Sources : Valid(s, 1)}

\* What Scan ought to give for the sources it reads.
Expected ==
    LET from(k) == {s \in Read : Has(s, k, FALSE)}
        ks == {k \in Keys : from(k) # {}}
    IN  IF Empty \in ks THEN <<>>
        ELSE SetToSortSeq({[key |-> k, src |-> Min(from(k))] : k \in ks},
                          LAMBDA a, b : a.key < b.key)

\* The loop gives each key that the sources read have a value for once, in order,
\* with the value of the newer memtable: no key is lost or repeated where the
\* iterators meet, run out, or skip tombstones.  The key "" ends the loop.
ScanExact ==
    /\ IsPrefix(seen, Expected)
    /\ Ended => seen = Expected

=============================================================================
