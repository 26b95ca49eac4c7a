------------------------------- MODULE MCLSM -------------------------------
(* Four instances of the LSM engine in one run: writers whose flushes fill     *)
(* level 0 every time, with a compaction behind each, one that deletes, a      *)
(* reader beside a writer, with a flush that fails, and a writer whose many    *)
(* flushes fall between the two halves of the merge's nextFileNum++.           *)
EXTENDS Integers, TLC

CONSTANTS w1, w2

VARIABLES calls,     \* which of them
          active, imm, sequence, nextFileNum, wal, walFile, handles, levels, disk,
          flushChan, compactionChan, up, mu, wr, rd, fl, cp, last, acked, cnt
vars == <<calls, active, imm, sequence, nextFileNum, wal, walFile, handles, levels, disk,
          flushChan, compactionChan, up, mu, wr, rd, fl, cp, last, acked, cnt>>

Writing == INSTANCE LSM
    WITH Keys <- {1, 2}, Deletable <- {}, Writers <- {w1, w2}, Readers <- {},
         MemTableSize <- 1, KeyCost <- 1, ValueSize <- 1, MaxL0Files <- 1,
         MaxLevelFiles <- 2, LastLevel <- 2, MaxEntriesPerFile <- 1, MaxPuts <- 3,
         MaxCrashes <- 0, MaxCloses <- 0, MaxFaults <- 0, Faults <- {}

Deleting == INSTANCE LSM
    WITH Keys <- {1, 2}, Deletable <- {2}, Writers <- {"w"}, Readers <- {},
         MemTableSize <- 1, KeyCost <- 1, ValueSize <- 1, MaxL0Files <- 1,
         MaxLevelFiles <- 2, LastLevel <- 2, MaxEntriesPerFile <- 1, MaxPuts <- 3,
         MaxCrashes <- 0, MaxCloses <- 0, MaxFaults <- 0, Faults <- {}

Reading == INSTANCE LSM
    WITH Keys <- {1, 2}, Deletable <- {}, Writers <- {"w"}, Readers <- {"r"},
         MemTableSize <- 1, KeyCost <- 1, ValueSize <- 1, MaxL0Files <- 2,
         MaxLevelFiles <- 2, LastLevel <- 2, MaxEntriesPerFile <- 1, MaxPuts <- 3,
         MaxCrashes <- 0, MaxCloses <- 0, MaxFaults <- 1, Faults <- {"flush"}

Numbering == INSTANCE LSM
    WITH Keys <- {1}, Deletable <- {}, Writers <- {"w"}, Readers <- {},
         MemTableSize <- 1, KeyCost <- 1, ValueSize <- 1, MaxL0Files <- 1,
         MaxLevelFiles <- 2, LastLevel <- 2, MaxEntriesPerFile <- 1, MaxPuts <- 5,
         MaxCrashes <- 0, MaxCloses <- 0, MaxFaults <- 0, Faults <- {}

Sym == Permutations({w1, w2})

Init == \/ calls = "writing" /\ Writing!Init
        \/ calls = "deleting" /\ Deleting!Init
        \/ calls = "reading" /\ Reading!Init
        \/ calls = "numbering" /\ Numbering!Init

Next == /\ \/ calls = "writing" /\ Writing!Next
           \/ calls = "deleting" /\ Deleting!Next
           \/ calls = "reading" /\ Reading!Next
           \/ calls = "numbering" /\ Numbering!Next
        /\ UNCHANGED calls

Spec == Init /\ [][Next]_vars

----------------------------------------------------------------------------
\* Each property as LSM states it, of each instance.

\* The newest version of a key above level 1 is the write last applied to it,
\* however writers, freezes, flushes and compactions interleave.
NewestKept == /\ calls = "writing" => Writing!NewestKept
              /\ calls = "deleting" => Deleting!NewestKept
              /\ calls = "reading" => Reading!NewestKept
              /\ calls = "numbering" => Numbering!NewestKept

\* A key that was acknowledged and never deleted is found, except while a
\* compaction exchanges the lists.
KeyFound == /\ calls = "writing" => Writing!KeyFound
            /\ calls = "deleting" => Deleting!KeyFound
            /\ calls = "reading" => Reading!KeyFound
            /\ calls = "numbering" => Numbering!KeyFound

\* Above level 0 the files of a level are sorted and do not overlap.
LevelsDisjoint == /\ calls = "writing" => Writing!LevelsDisjoint
                  /\ calls = "deleting" => Deleting!LevelsDisjoint
                  /\ calls = "reading" => Reading!LevelsDisjoint
                  /\ calls = "numbering" => Numbering!LevelsDisjoint

\* A listed table has its file.
LevelsOnDisk == /\ calls = "writing" => Writing!LevelsOnDisk
                /\ calls = "deleting" => Deleting!LevelsOnDisk
                /\ calls = "reading" => Reading!LevelsOnDisk
                /\ calls = "numbering" => Numbering!LevelsOnDisk

\* A Get that begins after a write of its key was acknowledged finds the key,
\* unless it overlaps the moment at which a compaction exchanges the lists.
GetFindsKey == calls = "reading" => Reading!GetFindsKey
=============================================================================
