------------------------------ MODULE Segment ------------------------------
(***************************************************************************)
(* One segment file of the hash index (hashindex/segment.go): its          *)
(* reference count, its closed flag, its file handle, the RWMutex around    *)
(* file operations, and the bytes that concurrent calls of append, read,    *)
(* sync, acquire/release and close put into or take out of the file.        *)
(*                                                                         *)
(* A process is one goroutine calling the methods of the segment.  Every    *)
(* atomic load, atomic add, lock operation and write system call of the     *)
(* code is one step.  A record is three chunks, as append writes it:        *)
(* header, key, value; offsets and sizes count chunks.                      *)
(***************************************************************************)
EXTENDS Integers, Sequences, FiniteSets

CONSTANTS Procs,           \* goroutines that call methods of the segment
          NoProc,          \* nobody holds the mutex for writing
          MaxAppends,      \* bound: number of append calls that reach the file
          MaxWriteErrors   \* bound: number of failing write system calls

ASSUME ProcsAssumption == IsFiniteSet(Procs) /\ NoProc \notin Procs

ASSUME BoundsAssumption == MaxAppends \in Nat /\ MaxWriteErrors \in Nat

VARIABLES refCount,  \* segment.refCount
          closed,    \* segment.closed
          fileOpen,  \* segment.file holds an open *os.File (FALSE: nil)
          muW, muR,  \* segment.mu: the writer or NoProc, and the readers
          data,      \* chunks of the file in file order
          size,      \* segment.size
          ownerRef,  \* the engine still owns the reference newSegment counted
          pc,        \* where each goroutine is
          arg,       \* what a call is about: a read's offset, an append's record
          res,       \* result of the goroutine's last finished call
          nextRec,   \* names the record of the next append call
          acks,      \* <<record, offset>> of each append that returned nil
          werrs      \* failed writes so far

lifeVars == <<refCount, closed, fileOpen>>
logVars == <<data, size, nextRec, acks, werrs>>
vars == <<refCount, closed, fileOpen, muW, muR, data, size, ownerRef, pc, arg,
          res, nextRec, acks, werrs>>

Chunks == <<"header", "key", "value">>

\* The chunks of record r sit, whole and in order, at offset o: the CRC that
\* read and readRecord recompute matches exactly then.
RecordAt(r, o) ==
    \A i \in 1..3 : /\ o + i \in DOMAIN data
                    /\ data[o + i] = <<r, Chunks[i]>>

\* Program points at which a goroutine has added 1 to refCount and has not
\* subtracted it yet.
Holding == {"r_lock", "r_load", "r_io", "r_unlock", "held", "rel"}
\* ... holds segment.mu for reading.
ReadLocked == {"r_load", "r_io", "r_unlock", "s_load", "s_unlock"}
\* ... holds segment.mu for writing.
WriteLocked == {"a_load", "a_write1", "a_write2", "a_write3", "a_size",
                "a_unlock", "c_close"}
\* ... uses the *os.File it loaded.
UsingFile == {"r_io", "a_write1", "a_write2", "a_write3"}

Points == {"idle", "found", "r_add", "h_add", "swap", "c_lock", "a_lock", "s_lock"}
              \cup Holding \cup ReadLocked \cup WriteLocked

Results == {"none", "ok", "segment_closed", "file_closed", "crc_mismatch",
            "write_error"}

Init ==
    /\ refCount = 1 /\ closed = FALSE /\ fileOpen = TRUE
    /\ muW = NoProc /\ muR = {}
    /\ data = <<>> /\ size = 0
    /\ ownerRef = TRUE
    /\ pc = [p \in Procs |-> "idle"]
    /\ arg = [p \in Procs |-> 0]
    /\ res = [p \in Procs |-> "none"]
    /\ nextRec = 1 /\ acks = {} /\ werrs = 0

Goto(p, from, to) == pc[p] = from /\ pc' = [pc EXCEPT ![p] = to]
Return(p, r) == res' = [res EXCEPT ![p] = r]

----------------------------------------------------------------------------
\* A caller loads a pointer to the segment from activeSegment or from the
\* segment list, which hold one only as long as the engine owns its reference
\* (applyCompaction stores the new list before it calls close; after Close the
\* closed flag of the engine turns callers away).  It may use it much later.
Find(p) ==
    /\ ownerRef
    /\ Goto(p, "idle", "found")
    /\ UNCHANGED <<lifeVars, muW, muR, logVars, ownerRef, arg, res>>

\* acquire: the load of closed and the add to refCount are two steps.

AcquireCheck(p, to) ==
    /\ \/ closed /\ Goto(p, "found", "idle") /\ Return(p, "segment_closed")
       \/ ~closed /\ Goto(p, "found", to) /\ UNCHANGED res
    /\ UNCHANGED <<lifeVars, muW, muR, logVars, ownerRef>>

\* read(offset) of an offset the index holds.
ReadBegin(p) ==
    \E a \in acks : arg' = [arg EXCEPT ![p] = a[2]] /\ AcquireCheck(p, "r_add")

\* acquire by the compaction worker, which keeps the reference across calls.
HoldBegin(p) == AcquireCheck(p, "h_add") /\ UNCHANGED arg

AcquireAdd(p) ==
    /\ Goto(p, "r_add", "r_lock") \/ Goto(p, "h_add", "held")
    /\ refCount' = refCount + 1
    /\ UNCHANGED <<closed, fileOpen, muW, muR, logVars, ownerRef, arg, res>>

\* The holder is done with the segment: its deferred release comes next.
HoldEnd(p) ==
    /\ Goto(p, "held", "rel")
    /\ UNCHANGED <<lifeVars, muW, muR, logVars, ownerRef, arg, res>>

\* Mutant: release compares with the wrong count.
Release_OffByOne(p) ==
    /\ refCount' = refCount - 1
    /\ Goto(p, "rel", IF refCount - 1 <= 1 THEN "swap" ELSE "idle")
    /\ UNCHANGED <<closed, fileOpen, muW, muR, logVars, ownerRef, arg, res>>

\* release: the add of -1; the caller that reaches zero goes on to closeFile.
Release(p) ==
    /\ refCount' = refCount - 1
    /\ Goto(p, "rel", IF refCount - 1 <= 0 THEN "swap" ELSE "idle")
    /\ UNCHANGED <<closed, fileOpen, muW, muR, logVars, ownerRef, arg, res>>

\* Mutant: close drops the reference and leaves the file to the readers.
Close_NoCloseFile(p) ==
    /\ ownerRef
    /\ ownerRef' = FALSE
    /\ refCount' = refCount - 1
    /\ Goto(p, "idle", "idle")
    /\ UNCHANGED <<closed, fileOpen, muW, muR, logVars, arg, res>>

\* close: the engine gives up the reference counted by newSegment.
Close(p) ==
    /\ ownerRef
    /\ ownerRef' = FALSE
    /\ refCount' = refCount - 1
    /\ Goto(p, "idle", IF refCount - 1 <= 0 THEN "swap" ELSE "idle")
    /\ UNCHANGED <<closed, fileOpen, muW, muR, logVars, arg, res>>

----------------------------------------------------------------------------
\* closeFile: only the goroutine whose Swap saw FALSE closes the file.

\* Mutant: the goroutine that lost the Swap tries again.
CloseSwap_Retries(p) ==
    /\ Goto(p, "swap", IF closed THEN "swap" ELSE "c_lock")
    /\ closed' = TRUE
    /\ UNCHANGED <<refCount, fileOpen, muW, muR, logVars, ownerRef, arg, res>>

CloseSwap(p) ==
    /\ Goto(p, "swap", IF closed THEN "idle" ELSE "c_lock")
    /\ closed' = TRUE
    /\ UNCHANGED <<refCount, fileOpen, muW, muR, logVars, ownerRef, arg, res>>

CloseFile(p) ==
    /\ Goto(p, "c_close", "idle")
    /\ fileOpen' = FALSE
    /\ muW' = NoProc
    /\ UNCHANGED <<refCount, closed, muR, logVars, ownerRef, arg, res>>

----------------------------------------------------------------------------
\* segment.mu

LockPoint == [a_lock |-> "a_load", c_lock |-> "c_close"]
RLockPoint == [r_lock |-> "r_load", s_lock |-> "s_load"]

\* Mutant: the lock does not wait for the readers.
Lock_PassesReaders(p) ==
    /\ muW = NoProc
    /\ \E from \in DOMAIN LockPoint : Goto(p, from, LockPoint[from])
    /\ muW' = p
    /\ UNCHANGED <<lifeVars, muR, logVars, ownerRef, arg, res>>

Lock(p) ==
    /\ muW = NoProc /\ muR = {}
    /\ \E from \in DOMAIN LockPoint : Goto(p, from, LockPoint[from])
    /\ muW' = p
    /\ UNCHANGED <<lifeVars, muR, logVars, ownerRef, arg, res>>

RLock(p) ==
    /\ muW = NoProc
    /\ \E from \in DOMAIN RLockPoint : Goto(p, from, RLockPoint[from])
    /\ muR' = muR \cup {p}
    /\ UNCHANGED <<lifeVars, muW, logVars, ownerRef, arg, res>>

\* Mutant: read has no deferred release.
RUnlock_NoRelease(p) ==
    /\ Goto(p, "r_unlock", "idle") \/ Goto(p, "s_unlock", "idle")
    /\ muR' = muR \ {p}
    /\ UNCHANGED <<lifeVars, muW, logVars, ownerRef, arg, res>>

\* The deferred RUnlock runs before the deferred release of read.
RUnlock(p) ==
    /\ Goto(p, "r_unlock", "rel") \/ Goto(p, "s_unlock", "idle")
    /\ muR' = muR \ {p}
    /\ UNCHANGED <<lifeVars, muW, logVars, ownerRef, arg, res>>

----------------------------------------------------------------------------
\* read and readRecord, under the read lock.

ReadLoad(p) ==
    /\ \/ fileOpen /\ Goto(p, "r_load", "r_io") /\ UNCHANGED res
       \/ ~fileOpen /\ Goto(p, "r_load", "r_unlock") /\ Return(p, "file_closed")
    /\ UNCHANGED <<lifeVars, muW, muR, logVars, ownerRef, arg>>

ReadAt(p) ==
    /\ Goto(p, "r_io", "r_unlock")
    /\ Return(p, IF \E a \in acks : a[2] = arg[p] /\ RecordAt(a[1], arg[p])
                 THEN "ok" ELSE "crc_mismatch")
    /\ UNCHANGED <<lifeVars, muW, muR, logVars, ownerRef, arg>>

\* sync takes the read lock but no reference.
SyncBegin(p) ==
    /\ Goto(p, "found", "s_lock")
    /\ UNCHANGED <<lifeVars, muW, muR, logVars, ownerRef, arg, res>>

Sync(p) ==
    /\ Goto(p, "s_load", "s_unlock")
    /\ Return(p, IF fileOpen THEN "ok" ELSE "file_closed")
    /\ UNCHANGED <<lifeVars, muW, muR, logVars, ownerRef, arg>>

----------------------------------------------------------------------------
\* append, under the write lock: three writes, then the new size.

AppendBegin(p) ==
    /\ \/ /\ closed
          /\ Goto(p, "found", "idle")
          /\ Return(p, "segment_closed")
          /\ UNCHANGED <<arg, nextRec>>
       \/ /\ ~closed /\ nextRec <= MaxAppends
          /\ Goto(p, "found", "a_lock")
          /\ arg' = [arg EXCEPT ![p] = nextRec]
          /\ nextRec' = nextRec + 1
          /\ UNCHANGED res
    /\ UNCHANGED <<lifeVars, muW, muR, data, size, acks, werrs, ownerRef>>

AppendLoad(p) ==
    /\ \/ fileOpen /\ Goto(p, "a_load", "a_write1") /\ UNCHANGED res
       \/ ~fileOpen /\ Goto(p, "a_load", "a_unlock") /\ Return(p, "file_closed")
    /\ UNCHANGED <<lifeVars, muW, muR, logVars, ownerRef, arg>>

\* One write system call; the file is opened O_APPEND, so the chunk lands at
\* the end of the file whatever segment.size says.
WriteStep == [a_write1 |-> "a_write2", a_write2 |-> "a_write3",
              a_write3 |-> "a_size"]
WriteIndex == [a_write1 |-> 1, a_write2 |-> 2, a_write3 |-> 3]

AppendWrite(p) ==
    /\ pc[p] \in DOMAIN WriteStep
    /\ Goto(p, pc[p], WriteStep[pc[p]])
    /\ data' = Append(data, <<arg[p], Chunks[WriteIndex[pc[p]]]>>)
    /\ UNCHANGED <<lifeVars, muW, muR, size, ownerRef, arg, res, nextRec, acks,
                   werrs>>

\* A write fails: append returns the error and leaves the chunks it wrote.
AppendWriteFails(p) ==
    /\ werrs < MaxWriteErrors
    /\ pc[p] \in DOMAIN WriteStep
    /\ Goto(p, pc[p], "a_unlock")
    /\ Return(p, "write_error")
    /\ werrs' = werrs + 1
    /\ UNCHANGED <<lifeVars, muW, muR, data, size, nextRec, acks, ownerRef, arg>>

\* Mutant: the size leaves out the header.
AppendSize_NoHeader(p) ==
    /\ Goto(p, "a_size", "a_unlock")
    /\ size' = size + 2
    /\ acks' = acks \cup {<<arg[p], size>>}
    /\ Return(p, "ok")
    /\ UNCHANGED <<lifeVars, muW, muR, data, nextRec, ownerRef, arg, werrs>>

\* Mutant: the offset is taken relative to the end of the record.
AppendSize_FromEnd(p) ==
    /\ Goto(p, "a_size", "a_unlock")
    /\ size' = size + 3
    /\ acks' = acks \cup {<<arg[p], size - 3>>}
    /\ Return(p, "ok")
    /\ UNCHANGED <<lifeVars, muW, muR, data, nextRec, ownerRef, arg, werrs>>

AppendSize(p) ==
    /\ Goto(p, "a_size", "a_unlock")
    /\ size' = size + 3
    /\ acks' = acks \cup {<<arg[p], size>>}
    /\ Return(p, "ok")
    /\ UNCHANGED <<lifeVars, muW, muR, data, nextRec, ownerRef, arg, werrs>>

AppendUnlock(p) ==
    /\ Goto(p, "a_unlock", "idle")
    /\ muW' = NoProc
    /\ UNCHANGED <<lifeVars, muR, logVars, ownerRef, arg, res>>

----------------------------------------------------------------------------
ReadStep(p) == Find(p) \/ ReadBegin(p) \/ ReadLoad(p) \/ ReadAt(p)
RefStep(p) == HoldBegin(p) \/ AcquireAdd(p) \/ HoldEnd(p) \/ Release(p)
CloseStep(p) == Close(p) \/ CloseSwap(p) \/ CloseFile(p)
LockStep(p) == Lock(p) \/ RLock(p) \/ RUnlock(p)
SyncStep(p) == SyncBegin(p) \/ Sync(p)
AppendStep(p) == \/ AppendBegin(p) \/ AppendLoad(p) \/ AppendWrite(p)
                 \/ AppendWriteFails(p) \/ AppendSize(p) \/ AppendUnlock(p)

Step(p) == \/ ReadStep(p) \/ RefStep(p) \/ CloseStep(p)
           \/ LockStep(p) \/ SyncStep(p) \/ AppendStep(p)

\* The engine has given the segment up and nobody is left in a call on it.
Gone ==
    /\ ~ownerRef
    /\ \A p \in Procs : pc[p] = "idle"
    /\ UNCHANGED vars

Next == (\E p \in Procs : Step(p)) \/ Gone

Spec == Init /\ [][Next]_vars

\* A goroutine that is inside a call keeps running, the compaction worker's
\* deferred release included.  A blocked Lock or RLock of a Go RWMutex is not
\* passed over for ever: a waiting writer bars new readers.
Inside(p) == \/ HoldBegin(p) \/ AcquireAdd(p) \/ HoldEnd(p) \/ Release(p)
             \/ CloseSwap(p) \/ CloseFile(p) \/ RUnlock(p)
             \/ ReadLoad(p) \/ ReadAt(p) \/ Sync(p)
             \/ AppendLoad(p) \/ AppendWrite(p) \/ AppendSize(p) \/ AppendUnlock(p)

FairSpec == Spec /\ \A p \in Procs : /\ WF_vars(Inside(p))
                                     /\ SF_vars(Lock(p)) /\ SF_vars(RLock(p))

----------------------------------------------------------------------------
FileChunks == Nat \X {"header", "key", "value"}
Locations == Nat \X Nat

\* What the segment's fields and the goroutines' program points range over.
TypeOK ==
    /\ refCount \in Int /\ closed \in BOOLEAN /\ fileOpen \in BOOLEAN
    /\ muW \in Procs \cup {NoProc} /\ muR \in SUBSET Procs
    /\ data \in Seq(FileChunks) /\ size \in Nat
    /\ ownerRef \in BOOLEAN
    /\ pc \in [Procs -> Points]
    /\ arg \in [Procs -> Nat]
    /\ res \in [Procs -> Results]
    /\ nextRec \in Nat /\ acks \in SUBSET Locations /\ werrs \in Nat

\* The reference count is exact: one for the engine until it calls close, and
\* one for every goroutine between its acquire and its release.
RefCountExact ==
    refCount = Cardinality({p \in Procs : pc[p] \in Holding})
                   + (IF ownerRef THEN 1 ELSE 0)

\* While the engine keeps its reference (the segment is active or in the
\* segment list) no release by a reader or by compaction closes the segment.
OwnedStaysOpen == ownerRef => ~closed /\ fileOpen

\* No goroutine reads from or writes to a handle that closeFile has closed:
\* the handle it loaded stays open until it unlocks segment.mu.
NoUseAfterClose == \A p \in Procs : pc[p] \in UsingFile => fileOpen

\* Every append that returned nil returned the offset of its whole record, and
\* later appends and concurrent ones leave it there, until a write fails: what
\* a failed append leaves in the file is not counted in segment.size.
AckedReadable == werrs = 0 => \A a \in acks : RecordAt(a[1], a[2])

\* A segment the engine has given up has its file handle closed in the end:
\* no interleaving of the last releases leaks it.
HandleReleased == ~ownerRef ~> ~fileOpen

\* Every call on the segment returns: no interleaving of readers, appenders
\* and closers leaves one blocked on segment.mu.
CallsReturn == \A p \in Procs : pc[p] # "idle" ~> pc[p] = "idle"
=============================================================================
