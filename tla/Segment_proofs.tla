--------------------------- MODULE Segment_proofs ---------------------------
(***************************************************************************)
(* Proofs about module Segment, for any number of goroutines and calls: the *)
(* reference count is exact, an owned segment stays open, no goroutine uses *)
(* a closed handle, and (until a write fails) acknowledged records stay     *)
(* where append said they are.                                              *)
(***************************************************************************)
EXTENDS Segment, FiniteSetTheorems, TLAPS

\* The provers each leaf is given to, with the time in seconds.
USE SMTT(10), ZenonT(20), SMTT(30)

Holders == {p \in Procs : pc[p] \in Holding}

\* segment.mu is held by exactly the goroutines inside its critical sections.
MutexExact ==
    /\ \A p \in Procs : pc[p] \in WriteLocked <=> muW = p
    /\ \A p \in Procs : pc[p] \in ReadLocked <=> p \in muR
    /\ muW # NoProc => muR = {}

\* Only a segment the engine has given up is being closed or is closed.
ClosedDisowned ==
    /\ ownerRef => ~closed /\ fileOpen
    /\ \A p \in Procs : pc[p] \in {"swap", "c_lock", "c_close"} => ~ownerRef

IInv == TypeOK /\ MutexExact /\ RefCountExact /\ ClosedDisowned /\ NoUseAfterClose

\* Points between append's Lock and its update of the size, and how many chunks
\* of its record the goroutine has written there.
Writing == {"a_load", "a_write1", "a_write2", "a_write3", "a_size"}
Written(p) == CASE pc[p] = "a_write2" -> 1 [] pc[p] = "a_write3" -> 2
                [] pc[p] = "a_size" -> 3 [] OTHER -> 0

\* Until a write fails segment.size is the end of the last whole record, and
\* behind it stand the chunks the writing goroutine has written so far.
LogExact ==
    /\ \A p \in Procs : pc[p] \in Writing =>
          /\ Len(data) = size + Written(p)
          /\ \A i \in 1..Written(p) : data[size + i] = <<arg[p], Chunks[i]>>
    /\ (\A p \in Procs : pc[p] \notin Writing) => Len(data) = size

LogInv == IInv /\ (werrs = 0 => LogExact) /\ AckedReadable

-----------------------------------------------------------------------------
\* TypeOK in two parts: SMT is no help with Boolean constants, Zenon none with
\* numbers.
FlagsOK == closed \in BOOLEAN /\ fileOpen \in BOOLEAN /\ ownerRef \in BOOLEAN
DataOK ==
    /\ refCount \in Int
    /\ muW \in Procs \cup {NoProc} /\ muR \in SUBSET Procs
    /\ data \in Seq(FileChunks) /\ size \in Nat
    /\ pc \in [Procs -> Points]
    /\ arg \in [Procs -> Nat]
    /\ res \in [Procs -> Results]
    /\ nextRec \in Nat /\ acks \in SUBSET Locations /\ werrs \in Nat

\* The Boolean variables and the others have their types separately.
LEMMA TypeParts == TypeOK <=> FlagsOK /\ DataOK
  BY Zenon DEF TypeOK, FlagsOK, DataOK

\* Init establishes the invariant: one reference, the engine's.
LEMMA InitIInv == Init => IInv
  <1> SUFFICES ASSUME Init PROVE IInv OBVIOUS
  <1>1. TypeOK
    <2>1. FlagsOK BY Zenon DEF Init, FlagsOK
    <2>2. DataOK BY DEF Init, DataOK, Points, Results
    <2> QED BY <2>1, <2>2, TypeParts
  <1>2. MutexExact
    BY ProcsAssumption DEF Init, MutexExact, WriteLocked, ReadLocked
  <1>3. RefCountExact
    <2>1. {p \in Procs : pc[p] \in Holding} = {}
      BY DEF Init, Holding
    <2> QED BY <2>1, FS_EmptySet DEF Init, RefCountExact
  <1>4. ClosedDisowned /\ NoUseAfterClose
    BY DEF Init, ClosedDisowned, NoUseAfterClose, UsingFile
  <1> QED BY <1>1, <1>2, <1>3, <1>4 DEF IInv

\* The flags are assigned by the two closing steps and close only.
LEMMA NextFlagsOK == FlagsOK /\ [Next]_vars => FlagsOK'
  <1> SUFFICES ASSUME FlagsOK, [Next]_vars PROVE FlagsOK' OBVIOUS
  <1>1. ASSUME NEW p \in Procs, CloseStep(p) PROVE FlagsOK'
    BY <1>1, Zenon DEF FlagsOK, CloseStep, Close, CloseSwap, CloseFile
  <1>2. ASSUME NEW p \in Procs, ReadStep(p) \/ RefStep(p) \/ LockStep(p)
        PROVE  UNCHANGED <<closed, fileOpen, ownerRef>>
    BY <1>2, Zenon DEF ReadStep, RefStep, LockStep, Find, ReadBegin, AcquireCheck,
       ReadLoad, ReadAt, HoldBegin, AcquireAdd, HoldEnd, Release, Lock, RLock, RUnlock,
       lifeVars
  <1>3. ASSUME NEW p \in Procs, SyncStep(p) \/ AppendStep(p)
        PROVE  UNCHANGED <<closed, fileOpen, ownerRef>>
    BY <1>3, Zenon DEF SyncStep, AppendStep, SyncBegin, Sync, AppendBegin, AppendLoad,
       AppendWrite, AppendWriteFails, AppendSize, AppendUnlock, lifeVars
  <1>4. CASE UNCHANGED vars \/ Gone
    BY <1>4, Zenon DEF FlagsOK, Gone, vars
  <1>5. CASE UNCHANGED <<closed, fileOpen, ownerRef>>
    BY <1>5, Zenon DEF FlagsOK
  <1> QED BY <1>1, <1>2, <1>3, <1>4, <1>5 DEF Next, Step

\* Types are preserved by every step.
LEMMA NextDataOK == DataOK /\ [Next]_vars => DataOK'
  <1> SUFFICES ASSUME DataOK, [Next]_vars PROVE DataOK' OBVIOUS
  <1> USE DEF DataOK, Goto, Return, lifeVars, logVars, Points, Holding, ReadLocked,
              WriteLocked, Results
  <1>1. ASSUME NEW p \in Procs, ReadStep(p) PROVE DataOK'
    <2>1. CASE Find(p) BY <2>1 DEF Find
    <2>2. CASE ReadBegin(p)
      <3>1. \A a \in acks : a[2] \in Nat BY DEF Locations
      <3> QED BY <2>2, <3>1 DEF ReadBegin, AcquireCheck
    <2>3. CASE ReadLoad(p) BY <2>3 DEF ReadLoad
    <2>4. CASE ReadAt(p) BY <2>4 DEF ReadAt
    <2> QED BY <1>1, <2>1, <2>2, <2>3, <2>4 DEF ReadStep
  <1>2. ASSUME NEW p \in Procs, RefStep(p) PROVE DataOK'
    <2>1. CASE HoldBegin(p) BY <2>1 DEF HoldBegin, AcquireCheck
    <2>2. CASE AcquireAdd(p) BY <2>2 DEF AcquireAdd
    <2>3. CASE HoldEnd(p) BY <2>3 DEF HoldEnd
    <2>4. CASE Release(p) BY <2>4 DEF Release
    <2> QED BY <1>2, <2>1, <2>2, <2>3, <2>4 DEF RefStep
  <1>3. ASSUME NEW p \in Procs, CloseStep(p) PROVE DataOK'
    <2>1. CASE Close(p) BY <2>1 DEF Close
    <2>2. CASE CloseSwap(p) BY <2>2 DEF CloseSwap
    <2>3. CASE CloseFile(p) BY <2>3 DEF CloseFile
    <2> QED BY <1>3, <2>1, <2>2, <2>3 DEF CloseStep
  <1>4. ASSUME NEW p \in Procs, LockStep(p) PROVE DataOK'
    <2>1. CASE Lock(p) BY <2>1 DEF Lock, LockPoint
    <2>2. CASE RLock(p) BY <2>2 DEF RLock, RLockPoint
    <2>3. CASE RUnlock(p) BY <2>3 DEF RUnlock
    <2> QED BY <1>4, <2>1, <2>2, <2>3 DEF LockStep
  <1>5. ASSUME NEW p \in Procs, SyncStep(p) PROVE DataOK'
    BY <1>5 DEF SyncStep, SyncBegin, Sync
  <1>6. ASSUME NEW p \in Procs, AppendStep(p) PROVE DataOK'
    <2>1. CASE AppendBegin(p)
      <3>1. /\ UNCHANGED <<refCount, muW, muR, data, size, acks, werrs>>
            /\ \/ UNCHANGED <<arg, nextRec>> /\ Return(p, "segment_closed")
                 /\ pc' = [pc EXCEPT ![p] = "idle"]
               \/ /\ arg' = [arg EXCEPT ![p] = nextRec] /\ nextRec' = nextRec + 1
                  /\ pc' = [pc EXCEPT ![p] = "a_lock"] /\ UNCHANGED res
        BY <2>1 DEF AppendBegin
      <3>2. arg' \in [Procs -> Nat] /\ nextRec' \in Nat BY <3>1
      <3>3. pc' \in [Procs -> Points] /\ res' \in [Procs -> Results] BY <3>1
      <3> QED BY <3>1, <3>2, <3>3
    <2>2. CASE AppendLoad(p) BY <2>2 DEF AppendLoad
    <2>3. CASE AppendWrite(p)
      <3>1. <<arg[p], Chunks[WriteIndex[pc[p]]]>> \in FileChunks
        BY <2>3 DEF AppendWrite, WriteStep, WriteIndex, Chunks, FileChunks
      <3>2. data' \in Seq(FileChunks)
        BY <3>1, <2>3 DEF AppendWrite
      <3>3. pc' \in [Procs -> Points]
        BY <2>3 DEF AppendWrite, WriteStep
      <3> QED BY <2>3, <3>2, <3>3 DEF AppendWrite
    <2>4. CASE AppendWriteFails(p) BY <2>4 DEF AppendWriteFails
    <2>5. CASE AppendSize(p) BY <2>5 DEF AppendSize, Locations
    <2>6. CASE AppendUnlock(p) BY <2>6 DEF AppendUnlock
    <2> QED BY <1>6, <2>1, <2>2, <2>3, <2>4, <2>5, <2>6 DEF AppendStep
  <1>7. CASE UNCHANGED vars BY <1>7 DEF vars
  <1>8. CASE Gone BY <1>8 DEF Gone, vars
  <1> QED BY <1>1, <1>2, <1>3, <1>4, <1>5, <1>6, <1>7, <1>8 DEF Next, Step

\* A step inside a critical section keeps the lock; entering and leaving one
\* are the steps that assign muW and muR.
LEMMA NextMutexExact == DataOK /\ MutexExact /\ [Next]_vars => MutexExact'
  <1> SUFFICES ASSUME DataOK, MutexExact, [Next]_vars PROVE MutexExact' OBVIOUS
  <1> USE ProcsAssumption DEF DataOK, MutexExact, Goto, Points, Holding, ReadLocked,
          WriteLocked
  <1>1. ASSUME NEW p \in Procs, ReadStep(p) PROVE MutexExact'
    <2>1. CASE Find(p) BY <2>1 DEF Find
    <2>2. CASE ReadBegin(p) BY <2>2 DEF ReadBegin, AcquireCheck
    <2>3. CASE ReadLoad(p) BY <2>3 DEF ReadLoad
    <2>4. CASE ReadAt(p) BY <2>4 DEF ReadAt
    <2> QED BY <1>1, <2>1, <2>2, <2>3, <2>4 DEF ReadStep
  <1>2. ASSUME NEW p \in Procs, RefStep(p) PROVE MutexExact'
    <2>1. CASE HoldBegin(p) BY <2>1 DEF HoldBegin, AcquireCheck
    <2>2. CASE AcquireAdd(p) BY <2>2 DEF AcquireAdd
    <2>3. CASE HoldEnd(p) BY <2>3 DEF HoldEnd
    <2>4. CASE Release(p) BY <2>4 DEF Release
    <2> QED BY <1>2, <2>1, <2>2, <2>3, <2>4 DEF RefStep
  <1>3. ASSUME NEW p \in Procs, CloseStep(p) PROVE MutexExact'
    <2>1. CASE Close(p) BY <2>1 DEF Close
    <2>2. CASE CloseSwap(p) BY <2>2 DEF CloseSwap
    <2>3. CASE CloseFile(p) BY <2>3 DEF CloseFile
    <2> QED BY <1>3, <2>1, <2>2, <2>3 DEF CloseStep
  <1>4. ASSUME NEW p \in Procs, LockStep(p) PROVE MutexExact'
    <2>1. CASE Lock(p) BY <2>1 DEF Lock, LockPoint
    <2>2. CASE RLock(p) BY <2>2 DEF RLock, RLockPoint
    <2>3. CASE RUnlock(p) BY <2>3 DEF RUnlock
    <2> QED BY <1>4, <2>1, <2>2, <2>3 DEF LockStep
  <1>5. ASSUME NEW p \in Procs, SyncStep(p) PROVE MutexExact'
    BY <1>5 DEF SyncStep, SyncBegin, Sync
  <1>6. ASSUME NEW p \in Procs, AppendStep(p) PROVE MutexExact'
    <2>1. CASE AppendBegin(p) BY <2>1 DEF AppendBegin
    <2>2. CASE AppendLoad(p) BY <2>2 DEF AppendLoad
    <2>3. CASE AppendWrite(p) BY <2>3 DEF AppendWrite, WriteStep
    <2>4. CASE AppendWriteFails(p) BY <2>4 DEF AppendWriteFails, WriteStep
    <2>5. CASE AppendSize(p) BY <2>5 DEF AppendSize
    <2>6. CASE AppendUnlock(p) BY <2>6 DEF AppendUnlock
    <2> QED BY <1>6, <2>1, <2>2, <2>3, <2>4, <2>5, <2>6 DEF AppendStep
  <1>7. CASE UNCHANGED vars \/ Gone BY <1>7 DEF vars, Gone
  <1> QED BY <1>1, <1>2, <1>3, <1>4, <1>5, <1>6, <1>7 DEF Next, Step

\* The count moves with the set of holders: AcquireAdd adds the goroutine to
\* both, Release takes it from both, Close gives up the engine's share.
LEMMA NextRefCountExact == DataOK /\ RefCountExact /\ [Next]_vars => RefCountExact'
  <1> SUFFICES ASSUME DataOK, RefCountExact, [Next]_vars PROVE RefCountExact' OBVIOUS
  <1>0. IsFiniteSet(Holders) /\ Cardinality(Holders) \in Nat
    BY ProcsAssumption, FS_Subset, FS_CardinalityType DEF Holders
  <1>a. RefCountExact <=> refCount = Cardinality(Holders) + (IF ownerRef THEN 1 ELSE 0)
    BY DEF RefCountExact, Holders
  <1>b. RefCountExact' <=>
          refCount' = Cardinality(Holders') + (IF ownerRef' THEN 1 ELSE 0)
    BY DEF RefCountExact, Holders
  <1> USE DEF DataOK, Goto, Points, Holding, ReadLocked, WriteLocked
  <1>1. ASSUME NEW p \in Procs, AcquireAdd(p) PROVE RefCountExact'
    <2>1. Holders' = Holders \cup {p} /\ p \notin Holders
      BY <1>1 DEF AcquireAdd, Holders
    <2>2. Cardinality(Holders') = Cardinality(Holders) + 1
      BY <2>1, <1>0, FS_AddElement
    <2> QED BY <1>0, <1>1, <1>a, <1>b, <2>2 DEF AcquireAdd
  <1>2. ASSUME NEW p \in Procs, Release(p) PROVE RefCountExact'
    <2>1. Holders' = Holders \ {p} /\ p \in Holders
      BY <1>2 DEF Release, Holders
    <2>2. Cardinality(Holders') = Cardinality(Holders) - 1
      BY <2>1, <1>0, FS_RemoveElement
    <2> QED BY <1>0, <1>2, <1>a, <1>b, <2>2 DEF Release
  <1>3. ASSUME NEW p \in Procs, Close(p) PROVE RefCountExact'
    <2>1. Holders' = Holders BY <1>3 DEF Close, Holders
    <2> QED BY <1>0, <1>3, <1>a, <1>b, <2>1 DEF Close
  <1>4. ASSUME Holders' = Holders, UNCHANGED <<refCount, ownerRef>> PROVE RefCountExact'
    BY <1>4, <1>a, <1>b
  <1>5. ASSUME NEW p \in Procs, ReadStep(p) \/ SyncStep(p)
        PROVE  Holders' = Holders /\ UNCHANGED <<refCount, ownerRef>>
    BY <1>5 DEF ReadStep, Find, ReadBegin, AcquireCheck, ReadLoad, ReadAt, SyncStep,
       SyncBegin, Sync, Holders, lifeVars
  <1>6. ASSUME NEW p \in Procs, HoldBegin(p) \/ HoldEnd(p) \/ CloseSwap(p) \/ CloseFile(p)
        PROVE  Holders' = Holders /\ UNCHANGED <<refCount, ownerRef>>
    BY <1>6 DEF HoldBegin, AcquireCheck, HoldEnd, CloseSwap, CloseFile, Holders, lifeVars
  <1>7. ASSUME NEW p \in Procs, LockStep(p)
        PROVE  Holders' = Holders /\ UNCHANGED <<refCount, ownerRef>>
    BY <1>7 DEF LockStep, Lock, RLock, RUnlock, LockPoint, RLockPoint, Holders, lifeVars
  <1>8. ASSUME NEW p \in Procs, AppendStep(p)
        PROVE  Holders' = Holders /\ UNCHANGED <<refCount, ownerRef>>
    BY <1>8 DEF AppendStep, AppendBegin, AppendLoad, AppendWrite, AppendWriteFails,
       AppendSize, AppendUnlock, WriteStep, Holders, lifeVars
  <1>9. CASE UNCHANGED vars \/ Gone
    BY <1>9, <1>4 DEF vars, Gone, Holders
  <1> QED
    BY <1>1, <1>2, <1>3, <1>4, <1>5, <1>6, <1>7, <1>8, <1>9
       DEF Next, Step, RefStep, CloseStep

\* While the engine owns a reference the count of a releasing goroutine's step
\* stays above zero, so nobody enters closeFile.
LEMMA NextClosedDisowned ==
    DataOK /\ RefCountExact /\ ClosedDisowned /\ [Next]_vars => ClosedDisowned'
  <1> SUFFICES ASSUME DataOK, RefCountExact, ClosedDisowned, [Next]_vars
               PROVE  ClosedDisowned'
    OBVIOUS
  <1> USE DEF DataOK, ClosedDisowned, Goto, lifeVars
  <1>1. ASSUME NEW p \in Procs, Release(p) PROVE ClosedDisowned'
    <2>1. IsFiniteSet(Holders) /\ p \in Holders
      BY <1>1, ProcsAssumption, FS_Subset DEF Holders, Release, Holding
    <2>2. Cardinality(Holders) >= 1
      BY <2>1, FS_EmptySet, FS_CardinalityType
    <2>3. ownerRef => refCount - 1 > 0
      BY <2>1, <2>2, FS_CardinalityType DEF RefCountExact, Holders
    <2> QED BY <1>1, <2>3 DEF Release
  <1>2. ASSUME NEW p \in Procs, CloseStep(p) PROVE ClosedDisowned'
    BY <1>2 DEF CloseStep, Close, CloseSwap, CloseFile
  <1>3. ASSUME NEW p \in Procs, ReadStep(p) \/ SyncStep(p) PROVE ClosedDisowned'
    BY <1>3 DEF ReadStep, Find, ReadBegin, AcquireCheck, ReadLoad, ReadAt, SyncStep,
       SyncBegin, Sync
  <1>4. ASSUME NEW p \in Procs, HoldBegin(p) \/ AcquireAdd(p) \/ HoldEnd(p)
        PROVE  ClosedDisowned'
    BY <1>4 DEF HoldBegin, AcquireCheck, AcquireAdd, HoldEnd
  <1>5. ASSUME NEW p \in Procs, LockStep(p) PROVE ClosedDisowned'
    BY <1>5 DEF LockStep, Lock, RLock, RUnlock, LockPoint, RLockPoint
  <1>6. ASSUME NEW p \in Procs, AppendStep(p) PROVE ClosedDisowned'
    BY <1>6 DEF AppendStep, AppendBegin, AppendLoad, AppendWrite, AppendWriteFails,
       AppendSize, AppendUnlock, WriteStep
  <1>7. CASE UNCHANGED vars \/ Gone BY <1>7 DEF vars, Gone
  <1> QED BY <1>1, <1>2, <1>3, <1>4, <1>5, <1>6, <1>7 DEF Next, Step, RefStep

\* Only CloseFile closes the handle, alone in the critical section.
LEMMA NextNoUseAfterClose ==
    DataOK /\ MutexExact /\ NoUseAfterClose /\ [Next]_vars => NoUseAfterClose'
  <1> SUFFICES ASSUME DataOK, MutexExact, NoUseAfterClose, [Next]_vars
               PROVE  NoUseAfterClose'
    OBVIOUS
  <1> USE DEF DataOK, NoUseAfterClose, Goto, lifeVars, UsingFile
  <1>1. ASSUME NEW p \in Procs, CloseFile(p) PROVE NoUseAfterClose'
    <2>1. muW = p /\ muR = {}
      BY <1>1, ProcsAssumption DEF CloseFile, MutexExact, WriteLocked
    <2>2. \A q \in Procs : q # p => pc[q] \notin UsingFile
      BY <2>1 DEF MutexExact, WriteLocked, ReadLocked
    <2> QED BY <1>1, <2>2 DEF CloseFile
  <1>2. ASSUME NEW p \in Procs, Close(p) \/ CloseSwap(p) PROVE NoUseAfterClose'
    BY <1>2 DEF Close, CloseSwap
  <1>3. ASSUME NEW p \in Procs, ReadStep(p) \/ SyncStep(p) PROVE NoUseAfterClose'
    BY <1>3 DEF ReadStep, Find, ReadBegin, AcquireCheck, ReadLoad, ReadAt, SyncStep,
       SyncBegin, Sync
  <1>4. ASSUME NEW p \in Procs, RefStep(p) PROVE NoUseAfterClose'
    BY <1>4 DEF RefStep, HoldBegin, AcquireCheck, AcquireAdd, HoldEnd, Release
  <1>5. ASSUME NEW p \in Procs, LockStep(p) PROVE NoUseAfterClose'
    BY <1>5 DEF LockStep, Lock, RLock, RUnlock, LockPoint, RLockPoint
  <1>6. ASSUME NEW p \in Procs, AppendStep(p) PROVE NoUseAfterClose'
    BY <1>6 DEF AppendStep, AppendBegin, AppendLoad, AppendWrite, AppendWriteFails,
       AppendSize, AppendUnlock, WriteStep
  <1>7. CASE UNCHANGED vars \/ Gone BY <1>7 DEF vars, Gone
  <1> QED BY <1>1, <1>2, <1>3, <1>4, <1>5, <1>6, <1>7 DEF Next, Step, CloseStep

\* Every step preserves the inductive invariant.
LEMMA NextIInv == IInv /\ [Next]_vars => IInv'
  <1> SUFFICES ASSUME IInv, [Next]_vars PROVE IInv' OBVIOUS
  <1>1. FlagsOK /\ DataOK /\ TypeOK'
    <2>1. FlagsOK /\ DataOK BY TypeParts DEF IInv
    <2>2. FlagsOK' /\ DataOK' BY <2>1, NextFlagsOK, NextDataOK
    <2>3. TypeOK' <=> FlagsOK' /\ DataOK' BY Zenon DEF TypeOK, FlagsOK, DataOK
    <2> QED BY <2>1, <2>2, <2>3
  <1> QED
    BY <1>1, NextMutexExact, NextRefCountExact, NextClosedDisowned, NextNoUseAfterClose
       DEF IInv

\* The inductive invariant holds in every reachable state.
THEOREM Invariant == Spec => []IInv
  BY InitIInv, NextIInv, PTL DEF Spec

\* Every variable of the segment keeps its type.
THEOREM TypeCorrect == Spec => []TypeOK
  <1>1. IInv => TypeOK BY DEF IInv
  <1> QED BY <1>1, Invariant, PTL

\* acquire, release and close keep refCount equal to the number of goroutines
\* that hold a reference, plus one for the engine.
THEOREM CountsReferences == Spec => []RefCountExact
  <1>1. IInv => RefCountExact BY DEF IInv
  <1> QED BY <1>1, Invariant, PTL

\* No release by a reader or by compaction closes a segment the engine owns.
THEOREM OwnedSegmentOpen == Spec => []OwnedStaysOpen
  <1>1. IInv => OwnedStaysOpen BY DEF IInv, ClosedDisowned, OwnedStaysOpen
  <1> QED BY <1>1, Invariant, PTL

\* The handle a read or an append has loaded is open until it unlocks.
THEOREM HandleOpenInUse == Spec => []NoUseAfterClose
  <1>1. IInv => NoUseAfterClose BY DEF IInv
  <1> QED BY <1>1, Invariant, PTL

-----------------------------------------------------------------------------
\* One goroutine at a time is between append's Lock and its Unlock.
LEMMA OneWriter ==
    ASSUME DataOK, MutexExact, NEW p \in Procs, NEW q \in Procs,
           pc[p] \in Writing, pc[q] \in WriteLocked
    PROVE  p = q
  BY DEF MutexExact, Writing, WriteLocked

\* Steps that neither start nor are part of the writing of a record.
LEMMA QuietLogExact ==
    ASSUME DataOK, LogExact, NEW p \in Procs, UNCHANGED <<data, size>>,
           pc[p] \notin Writing, pc'[p] \notin Writing,
           \A q \in Procs : q # p => pc'[q] = pc[q] /\ arg'[q] = arg[q]
    PROVE  LogExact'
  BY DEF LogExact, Written, Writing

\* Where Lock and RLock take a goroutine.
LEMMA LockTargets ==
    /\ \A f \in DOMAIN LockPoint : LockPoint[f] \in {"a_load", "c_close"}
    /\ \A f \in DOMAIN RLockPoint : f \in {"r_lock", "s_lock"}
                                    /\ RLockPoint[f] \in {"r_load", "s_load"}
  BY DEF LockPoint, RLockPoint

\* The count of failed writes only grows.
LEMMA NextWerrs == DataOK /\ [Next]_vars => werrs' = werrs \/ werrs' = werrs + 1
  <1> SUFFICES ASSUME DataOK, [Next]_vars PROVE werrs' = werrs \/ werrs' = werrs + 1 OBVIOUS
  <1> USE DEF lifeVars, logVars
  <1>1. ASSUME NEW p \in Procs, ReadStep(p) \/ RefStep(p) \/ CloseStep(p) \/ LockStep(p)
                                \/ SyncStep(p)
        PROVE  werrs' = werrs
    BY <1>1 DEF ReadStep, Find, ReadBegin, AcquireCheck, ReadLoad, ReadAt, RefStep,
       HoldBegin, AcquireAdd, HoldEnd, Release, CloseStep, Close, CloseSwap, CloseFile,
       LockStep, Lock, RLock, RUnlock, SyncStep, SyncBegin, Sync
  <1>2. ASSUME NEW p \in Procs, AppendStep(p)
        PROVE  werrs' = werrs \/ werrs' = werrs + 1
    BY <1>2 DEF AppendStep, AppendBegin, AppendLoad, AppendWrite, AppendWriteFails,
       AppendSize, AppendUnlock
  <1>3. CASE UNCHANGED vars \/ Gone BY <1>3 DEF vars, Gone
  <1> QED BY <1>1, <1>2, <1>3 DEF Next, Step

\* What the file holds beyond size is what the one goroutine inside append has
\* written of its record.
LEMMA NextLogExact ==
    ASSUME DataOK, MutexExact, LogExact, [Next]_vars, werrs' = werrs
    PROVE  LogExact'
  <1> USE DEF DataOK, Goto, lifeVars, logVars
  <1>1. ASSUME NEW p \in Procs, ReadStep(p) \/ SyncStep(p) PROVE LogExact'
    BY <1>1, QuietLogExact DEF ReadStep, Find, ReadBegin, AcquireCheck, ReadLoad, ReadAt,
       SyncStep, SyncBegin, Sync, Writing
  <1>2. ASSUME NEW p \in Procs, RefStep(p) PROVE LogExact'
    BY <1>2, QuietLogExact DEF RefStep, HoldBegin, AcquireCheck, AcquireAdd, HoldEnd,
       Release, Writing
  <1>3. ASSUME NEW p \in Procs, CloseStep(p) PROVE LogExact'
    BY <1>3, QuietLogExact DEF CloseStep, Close, CloseSwap, CloseFile, Writing
  <1>4. ASSUME NEW p \in Procs, RLock(p) \/ RUnlock(p) PROVE LogExact'
    <2>1. CASE RLock(p)
      <3>1. PICK f \in DOMAIN RLockPoint : Goto(p, f, RLockPoint[f])
        BY <2>1 DEF RLock
      <3>2. /\ pc[p] \in {"r_lock", "s_lock"}
            /\ \E t \in {"r_load", "s_load"} : pc' = [pc EXCEPT ![p] = t]
            /\ UNCHANGED <<data, size, arg>>
        BY <2>1, <3>1, LockTargets DEF RLock
      <3> QED BY <3>2, QuietLogExact DEF Writing
    <2>2. CASE RUnlock(p) BY <2>2, QuietLogExact DEF RUnlock, Writing
    <2> QED BY <1>4, <2>1, <2>2
  <1>5. ASSUME NEW p \in Procs, Lock(p) PROVE LogExact'
    <2>1. \A q \in Procs : pc[q] \notin Writing
      BY <1>5, ProcsAssumption DEF Lock, MutexExact, Writing, WriteLocked
    <2>2. Len(data) = size BY <2>1 DEF LogExact
    <2>3. pc' = [pc EXCEPT ![p] = "a_load"] \/ pc' = [pc EXCEPT ![p] = "c_close"]
      BY <1>5, LockTargets DEF Lock
    <2> QED BY <1>5, <2>1, <2>2, <2>3 DEF Lock, LogExact, Written, Writing
  <1>6. ASSUME NEW p \in Procs, AppendBegin(p) \/ AppendUnlock(p) PROVE LogExact'
    <2>1. CASE AppendBegin(p)
      <3>1. /\ UNCHANGED <<data, size>>
            /\ pc[p] = "found"
            /\ \/ pc' = [pc EXCEPT ![p] = "idle"] /\ UNCHANGED arg
               \/ /\ pc' = [pc EXCEPT ![p] = "a_lock"]
                  /\ arg' = [arg EXCEPT ![p] = nextRec]
        BY <2>1 DEF AppendBegin
      <3> QED BY <3>1, QuietLogExact DEF Writing
    <2>2. CASE AppendUnlock(p) BY <2>2, QuietLogExact DEF AppendUnlock, Writing
    <2> QED BY <1>6, <2>1, <2>2
  <1>7. ASSUME NEW p \in Procs, AppendLoad(p) PROVE LogExact'
    <2>1. pc[p] = "a_load" /\ UNCHANGED <<data, size, arg>>
          /\ \/ pc' = [pc EXCEPT ![p] = "a_write1"]
             \/ pc' = [pc EXCEPT ![p] = "a_unlock"]
      BY <1>7 DEF AppendLoad
    <2>2. Len(data) = size BY <2>1 DEF LogExact, Writing, Written
    <2> QED BY <2>1, <2>2 DEF LogExact, Written, Writing
  <1>8. ASSUME NEW p \in Procs, AppendWrite(p) PROVE LogExact'
    <2>1. /\ pc[p] \in {"a_write1", "a_write2", "a_write3"}
          /\ pc' = [pc EXCEPT ![p] = WriteStep[pc[p]]]
          /\ data' = Append(data, <<arg[p], Chunks[WriteIndex[pc[p]]]>>)
          /\ UNCHANGED <<size, arg>>
      BY <1>8 DEF AppendWrite, WriteStep
    <2>2. /\ WriteIndex[pc[p]] = Written(p) + 1 /\ Written(p)' = Written(p) + 1
          /\ Written(p) \in 0..2 /\ pc'[p] \in Writing
      BY <2>1 DEF Written, WriteIndex, WriteStep, Writing
    <2>3. /\ Len(data) = size + Written(p)
          /\ \A i \in 1..Written(p) : data[size + i] = <<arg[p], Chunks[i]>>
      BY <2>1 DEF LogExact, Writing
    <2>4. \A q \in Procs : q # p => pc'[q] = pc[q] /\ pc[q] \notin Writing
      BY <2>1, OneWriter DEF Writing, WriteLocked
    <2>5. Len(data') = size' + Written(p)'
      BY <2>1, <2>2, <2>3
    <2>6. \A i \in 1..Written(p)' : data'[size' + i] = <<arg'[p], Chunks[i]>>
      BY <2>1, <2>2, <2>3
    <2> QED BY <2>2, <2>4, <2>5, <2>6 DEF LogExact
  <1>9. ASSUME NEW p \in Procs, AppendWriteFails(p) PROVE LogExact'
    BY <1>9 DEF AppendWriteFails
  <1>10. ASSUME NEW p \in Procs, AppendSize(p) PROVE LogExact'
    <2>1. pc[p] = "a_size" /\ size' = size + 3 /\ UNCHANGED data
          /\ pc' = [pc EXCEPT ![p] = "a_unlock"]
      BY <1>10 DEF AppendSize
    <2>2. Len(data) = size + 3 BY <2>1 DEF LogExact, Writing, Written
    <2>3. \A q \in Procs : pc'[q] \notin Writing
      BY <2>1, OneWriter DEF Writing, WriteLocked
    <2> QED BY <2>1, <2>2, <2>3 DEF LogExact
  <1>11. CASE UNCHANGED vars \/ Gone BY <1>11 DEF vars, Gone, LogExact, Written, Writing
  <1> QED
    BY <1>1, <1>2, <1>3, <1>4, <1>5, <1>6, <1>7, <1>8, <1>9, <1>10, <1>11
       DEF Next, Step, LockStep, AppendStep

\* The file only grows, and AppendSize acknowledges a record that is whole.
LEMMA NextAckedReadable ==
    ASSUME DataOK, LogExact, AckedReadable, [Next]_vars, werrs = 0
    PROVE  AckedReadable'
  <1> USE DEF DataOK, Goto, lifeVars, logVars
  <1>1. ASSUME UNCHANGED <<data, acks>> PROVE AckedReadable'
    BY <1>1 DEF AckedReadable, RecordAt
  <1>2. ASSUME NEW p \in Procs, AppendWrite(p) PROVE AckedReadable'
    <2>1. /\ \E c : data' = Append(data, c)
          /\ UNCHANGED acks
      BY <1>2 DEF AppendWrite
    <2>2. \A i \in DOMAIN data : i \in DOMAIN data' /\ data'[i] = data[i]
      BY <2>1
    <2> QED BY <2>1, <2>2 DEF AckedReadable, RecordAt
  <1>3. ASSUME NEW p \in Procs, AppendSize(p) PROVE AckedReadable'
    <2>1. pc[p] = "a_size" /\ UNCHANGED data /\ acks' = acks \cup {<<arg[p], size>>}
      BY <1>3 DEF AppendSize
    <2>2. /\ Len(data) = size + 3
          /\ \A i \in 1..3 : data[size + i] = <<arg[p], Chunks[i]>>
      BY <2>1 DEF LogExact, Writing, Written
    <2>3. RecordAt(arg[p], size) BY <2>2 DEF RecordAt
    <2>4. ASSUME NEW r, NEW o, RecordAt(r, o) PROVE RecordAt(r, o)'
      BY <2>1, <2>4 DEF RecordAt
    <2>5. RecordAt(<<arg[p], size>>[1], <<arg[p], size>>[2])
      BY <2>3
    <2>6. ASSUME NEW a \in acks' PROVE a \in acks \/ a = <<arg[p], size>>
      BY <2>1
    <2> QED BY <2>4, <2>5, <2>6, Zenon DEF AckedReadable
  <1>4. ASSUME NEW p \in Procs, ReadStep(p) \/ RefStep(p) \/ CloseStep(p) \/ LockStep(p)
                                \/ SyncStep(p)
        PROVE  UNCHANGED <<data, acks>>
    BY <1>4 DEF ReadStep, Find, ReadBegin, AcquireCheck, ReadLoad, ReadAt, RefStep,
       HoldBegin, AcquireAdd, HoldEnd, Release, CloseStep, Close, CloseSwap, CloseFile,
       LockStep, Lock, RLock, RUnlock, SyncStep, SyncBegin, Sync
  <1>5. ASSUME NEW p \in Procs, AppendBegin(p) \/ AppendLoad(p) \/ AppendWriteFails(p)
                                \/ AppendUnlock(p)
        PROVE  UNCHANGED <<data, acks>>
    BY <1>5 DEF AppendBegin, AppendLoad, AppendWriteFails, AppendUnlock
  <1>6. CASE UNCHANGED vars \/ Gone BY <1>6, <1>1 DEF vars, Gone
  <1> QED BY <1>1, <1>2, <1>3, <1>4, <1>5, <1>6 DEF Next, Step, AppendStep

\* Until a write fails, an append that returned nil has put its whole record at
\* the offset it returned, and no later append, read or close changes that.
THEOREM AckedStaysReadable == Spec => []AckedReadable
  <1>1. Init => LogInv
    <2>1. Init => LogExact /\ AckedReadable
      BY DEF Init, LogExact, Writing, AckedReadable
    <2> QED BY <2>1, InitIInv DEF LogInv
  <1>2. LogInv /\ [Next]_vars => LogInv'
    <2> SUFFICES ASSUME LogInv, [Next]_vars PROVE LogInv' OBVIOUS
    <2>1. IInv' BY NextIInv DEF LogInv
    <2>2. DataOK /\ MutexExact BY TypeParts DEF LogInv, IInv
    <2>3. werrs' = 0 => werrs = 0 BY <2>2, NextWerrs DEF DataOK
    <2>4. ASSUME werrs' = 0 PROVE LogExact'
      BY <2>2, <2>3, <2>4, NextLogExact DEF LogInv
    <2>5. ASSUME werrs' = 0 PROVE AckedReadable'
      BY <2>2, <2>3, <2>5, NextAckedReadable DEF LogInv
    <2>6. AckedReadable' BY <2>5 DEF AckedReadable
    <2> QED BY <2>1, <2>4, <2>6 DEF LogInv
  <1>3. LogInv => AckedReadable BY DEF LogInv
  <1> QED BY <1>1, <1>2, <1>3, PTL DEF Spec
=============================================================================
