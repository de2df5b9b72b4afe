------------------------- MODULE RAMDirectoryProofs -------------------------
(***************************************************************************)
(* Proofs about the in-memory directory, for every value of the constants *)
(* allowed by ConstAssumption.                                             *)
(***************************************************************************)
EXTENDS RAMDirectory, FiniteSetTheorems, TLAPS

(* The number of entries deleteSegment(s) erases is a natural number: the *)
(* matching names are a subset of the finite set of names.                *)
LEMMA HitCardinality ==
    ASSUME NEW s \in Segments, NEW H \in SUBSET SegmentMembers[s]
    PROVE  Cardinality(H) \in Nat
<1>1. IsFiniteSet(SegmentMembers[s])
    BY ConstAssumption, FS_Subset
<1>2. IsFiniteSet(H)
    BY <1>1, FS_Subset
<1>3. QED
    BY <1>2, FS_CardinalityType

-----------------------------------------------------------------------------
(* One step of the directory keeps every variable in its type.            *)
LEMMA TypeStep == TypeOK /\ [Next]_vars => TypeOK'
<1> SUFFICES ASSUME TypeOK, [Next]_vars PROVE TypeOK'
    OBVIOUS
<1>1. ASSUME NEW n \in Names, NEW f \in FileIds, CreateOutput(n, f)
      PROVE  TypeOK'
    BY <1>1 DEF CreateOutput, FileStates, TypeOK
<1>2. ASSUME NEW f \in FileIds, Write(f) PROVE TypeOK'
    BY <1>2 DEF Write, FileStates, TypeOK
<1>3. ASSUME NEW f \in FileIds, CloseOutput(f) PROVE TypeOK'
    BY <1>3 DEF CloseOutput, Abort, Faults, FileStates, TypeOK
<1>4. ASSUME NEW n \in Names, OpenInput(n) PROVE TypeOK'
    BY <1>4 DEF OpenInput, Abort, Faults, FileStates, TypeOK
<1>5. ASSUME NEW f \in FileIds, CloseInput(f) PROVE TypeOK'
    BY <1>5 DEF CloseInput, Unref, FileStates, TypeOK
<1>6. ASSUME NEW f \in FileIds, FreeFile(f) PROVE TypeOK'
    BY <1>6 DEF FreeFile, FileStates, TypeOK
<1>7. ASSUME NEW n \in Names, DeleteFile(n) PROVE TypeOK'
    BY <1>7 DEF DeleteFile, Unref, Abort, Faults, FileStates, TypeOK
<1>8. ASSUME NEW src \in Names, NEW dst \in Names, Rename(src, dst)
      PROVE  TypeOK'
    BY <1>8 DEF Rename, FileStates, TypeOK
<1>9. ASSUME NEW n \in Names, ObtainLock(n) PROVE TypeOK'
    BY <1>9 DEF ObtainLock, FileStates, TypeOK
<1>10. ASSUME NEW n \in Names, ReleaseLock(n) PROVE TypeOK'
    BY <1>10 DEF ReleaseLock, Abort, Faults, FileStates, TypeOK
<1>11. ASSUME NEW s \in Segments, DeleteSegment(s) PROVE TypeOK'
    <2> DEFINE hit == {n \in SegmentMembers[s] : files[n] # Absent}
    <2>1. Cardinality(hit) \in Nat
        BY HitCardinality
    <2>2. QED
        BY <1>11, <2>1 DEF DeleteSegment, Abort, Faults, FileStates, TypeOK
<1>12. CASE Halted
    BY <1>12 DEF Halted, vars, FileStates, TypeOK
<1>13. CASE UNCHANGED vars
    BY <1>13 DEF vars, FileStates, TypeOK
<1>14. QED
    BY <1>1, <1>2, <1>3, <1>4, <1>5, <1>6, <1>7, <1>8, <1>9, <1>10,
       <1>11, <1>12, <1>13 DEF Next

(* Every variable keeps its type: in particular no reader count goes       *)
(* below zero, since only a live RAMFileIndexInput's destructor decrements *)
(* it.                                                                     *)
THEOREM TypeCorrect == Spec => []TypeOK
<1>1. Init => TypeOK
    BY DEF Init, FileStates, TypeOK
<1>2. QED
    BY <1>1, TypeStep, PTL DEF Spec

-----------------------------------------------------------------------------
(***************************************************************************)
(* The memory-safety invariants.  RefCountSound is not inductive alone: a  *)
(* step of openInput or deleteFile must know that a file found in the      *)
(* table is committed, and CloseOutput that the file it installs has no    *)
(* reader and no other entry.  IInv adds those facts, and ties the set of  *)
(* files a thread is about to delete to the count reaching zero.           *)
(***************************************************************************)
Unique ==
    \A n, m \in Names : files[n] = files[m] /\ files[n] \in FileIds => n = m
TableShared ==
    \A n \in Names : files[n] \in FileIds => fstate[files[n]] = "shared"
ReadersShared ==
    \A f \in FileIds : readers[f] > 0 => fstate[f] = "shared"
Counts ==
    \A f \in FileIds :
        fstate[f] = "shared" =>
            refs[f] = readers[f] + (IF InTable(f) THEN 1 ELSE 0)
PendingExact ==
    \A f \in FileIds : f \in pendingFree <=> (fstate[f] = "shared" /\ refs[f] = 0)

WritingNamed ==
    \A f \in FileIds : fstate[f] = "writing" => fname[f] \in Names

IInv == /\ TypeOK /\ Unique /\ TableShared /\ ReadersShared /\ Counts
        /\ PendingExact /\ WritingNamed

LEMMA InitIInv == Init => IInv
    BY ConstAssumption DEF WritingNamed, Init, IInv, TypeOK, FileStates, Unique, TableShared, ReadersShared,
           Counts, PendingExact, InTable

LEMMA NextIInv == IInv /\ [Next]_vars => IInv'
<1> SUFFICES ASSUME IInv, [Next]_vars PROVE IInv'
    OBVIOUS
<1>0. TypeOK'
    BY TypeStep DEF IInv
<1> USE ConstAssumption DEF IInv, TypeOK, FileStates
<1>1. ASSUME NEW n \in Names, NEW f \in FileIds, CreateOutput(n, f)
      PROVE  IInv'
    BY <1>0, <1>1 DEF CreateOutput, Unique, TableShared, ReadersShared, Counts,
                      PendingExact, WritingNamed, InTable
<1>2. ASSUME NEW f \in FileIds, Write(f) PROVE IInv'
    BY <1>0, <1>2 DEF Write, Unique, TableShared, ReadersShared, Counts,
                      PendingExact, WritingNamed, InTable
<1>3. ASSUME NEW f \in FileIds, CloseOutput(f) PROVE IInv'
    <2>1. CASE files[fname[f]] # Dummy /\ Abort("commit")
        BY <1>0, <2>1 DEF Abort, Unique, TableShared, ReadersShared, Counts,
                          PendingExact, WritingNamed, InTable
    <2>2. CASE /\ fstate[f] = "writing"
               /\ files[fname[f]] = Dummy
               /\ files' = [files EXCEPT ![fname[f]] = f]
               /\ refs' = [refs EXCEPT ![f] = 1]
               /\ fstate' = [fstate EXCEPT ![f] = "shared"]
               /\ UNCHANGED <<fname, empty, dummyRefs, readers, pendingFree,
                              locks, fault>>
        <3> DEFINE k == fname[f]
        <3>1. k \in Names
            BY <2>2 DEF WritingNamed
        <3>2. ~InTable(f) /\ readers[f] = 0 /\ f \notin pendingFree
            BY <2>2 DEF TableShared, ReadersShared, PendingExact, InTable
        <3>3. InTable(f)'
            BY <2>2, <3>1 DEF InTable
        <3>4. \A g \in FileIds \ {f} : InTable(g)' <=> InTable(g)
            BY <2>2, <3>1 DEF InTable
        <3>5. Unique'
            BY <2>2, <3>1, <3>2 DEF Unique, InTable
        <3>6. TableShared'
            BY <2>2, <3>1 DEF TableShared
        <3>7. Counts'
            BY <2>2, <3>2, <3>3, <3>4 DEF Counts
        <3>8. QED
            BY <1>0, <2>2, <3>2, <3>5, <3>6, <3>7
               DEF ReadersShared, PendingExact, WritingNamed
    <2>3. QED
        BY <1>3, <2>1, <2>2 DEF CloseOutput
<1>4. ASSUME NEW n \in Names, OpenInput(n) PROVE IInv'
    BY <1>0, <1>4 DEF OpenInput, Abort, Unique, TableShared, ReadersShared,
                      Counts, PendingExact, WritingNamed, InTable
<1>5. ASSUME NEW f \in FileIds, CloseInput(f) PROVE IInv'
    BY <1>0, <1>5 DEF CloseInput, Unref, Unique, TableShared, ReadersShared,
                      Counts, PendingExact, WritingNamed, InTable
<1>6. ASSUME NEW f \in FileIds, FreeFile(f) PROVE IInv'
    BY <1>0, <1>6 DEF FreeFile, Unique, TableShared, ReadersShared, Counts,
                      PendingExact, WritingNamed, InTable
<1>7. ASSUME NEW n \in Names, DeleteFile(n) PROVE IInv'
    BY <1>0, <1>7 DEF DeleteFile, Unref, Abort, Unique, TableShared,
                      ReadersShared, Counts, PendingExact, WritingNamed, InTable
<1>8. ASSUME NEW src \in Names, NEW dst \in Names, Rename(src, dst)
      PROVE  IInv'
    BY <1>0, <1>8 DEF Rename, Unique, TableShared, ReadersShared, Counts,
                      PendingExact, WritingNamed, InTable
<1>9. ASSUME NEW n \in Names, ObtainLock(n) PROVE IInv'
    BY <1>0, <1>9 DEF ObtainLock, Unique, TableShared, ReadersShared, Counts,
                      PendingExact, WritingNamed, InTable
<1>10. ASSUME NEW n \in Names, ReleaseLock(n) PROVE IInv'
    BY <1>0, <1>10 DEF ReleaseLock, Abort, Unique, TableShared, ReadersShared,
                       Counts, PendingExact, WritingNamed, InTable
<1>11. ASSUME NEW s \in Segments, DeleteSegment(s) PROVE IInv'
    BY <1>0, <1>11 DEF DeleteSegment, Abort, Unique, TableShared,
                       ReadersShared, Counts, PendingExact, WritingNamed, InTable
<1>12. CASE Halted
    BY <1>12 DEF Halted, vars, Unique, TableShared, ReadersShared, Counts,
                 PendingExact, WritingNamed, InTable
<1>13. CASE UNCHANGED vars
    BY <1>13 DEF vars, Unique, TableShared, ReadersShared, Counts,
                 PendingExact, WritingNamed, InTable
<1>14. QED
    BY <1>1, <1>2, <1>3, <1>4, <1>5, <1>6, <1>7, <1>8, <1>9, <1>10, <1>11,
       <1>12, <1>13 DEF Next

LEMMA IInvSafe == IInv => RefCountSound /\ NoUseAfterFree /\ NoLeak
<1> SUFFICES ASSUME IInv PROVE RefCountSound /\ NoUseAfterFree /\ NoLeak
    OBVIOUS
<1> USE DEF IInv, TypeOK
<1>1. RefCountSound
    BY DEF RefCountSound, Unique, Counts
<1>2. NoUseAfterFree
    BY DEF NoUseAfterFree, FileStates, TableShared, ReadersShared, Counts,
           PendingExact, InTable
<1>3. NoLeak
    BY DEF NoLeak, Counts, PendingExact
<1>4. QED
    BY <1>1, <1>2, <1>3

(* The reference counts kept by hand across openInput, unrefReader,        *)
(* deleteFile, commit and rename are exact and no RAMFile is under two     *)
(* names, in every reachable state, with callers unrestricted.             *)
THEOREM RefCountCorrect == Spec => []RefCountSound
<1>1. IInv => RefCountSound
    BY IInvSafe
<1>2. QED
    BY InitIInv, NextIInv, <1>1, PTL DEF Spec

(* A RAMFile that is deleted, or about to be deleted by a thread that has  *)
(* released the mutex, is referenced neither by the table nor by a reader. *)
THEOREM NoUseAfterFreeCorrect == Spec => []NoUseAfterFree
<1>1. IInv => NoUseAfterFree
    BY IInvSafe
<1>2. QED
    BY InitIInv, NextIInv, <1>1, PTL DEF Spec

(* A committed RAMFile with no entry and no reader is always being deleted.*)
THEOREM NoLeakCorrect == Spec => []NoLeak
<1>1. IInv => NoLeak
    BY IInvSafe
<1>2. QED
    BY InitIInv, NextIInv, <1>1, PTL DEF Spec


-----------------------------------------------------------------------------
(***************************************************************************)
(* Reservations.  ReservationIntegrity counts the writers of a name, a set *)
(* that need not be finite when FileIds is not; Reserved says instead that *)
(* each name is in one of three states: free of any reservation, held by  *)
(* one lock handle, or held by one output.  With IInv it is inductive      *)
(* when callers keep the contract and never call deleteSegment().          *)
(***************************************************************************)
ReservedAt(n) ==
    \/ Writers(n) = {} /\ locks[n] = 0 /\ files[n] # Dummy
    \/ Writers(n) = {} /\ locks[n] = 1 /\ files[n] = Dummy
    \/ \E f \in FileIds : Writers(n) = {f} /\ locks[n] = 0 /\ files[n] = Dummy

Reserved == \A n \in Names : ReservedAt(n)

RInv == IInv /\ Reserved


(* Callers that keep the contract and never call deleteSegment().         *)
ContractOnly == Contract = TRUE /\ Segments = {}

LEMMA InitReserved == Init => Reserved
    BY ConstAssumption DEF Init, Reserved, ReservedAt, Writers

(* A step that leaves the table, the writers and the lock handles of a    *)
(* name alone keeps its reservation.                                       *)
LEMMA ReservedFrame ==
    ASSUME NEW n \in Names, ReservedAt(n),
           files'[n] = files[n], locks'[n] = locks[n], Writers(n)' = Writers(n)
    PROVE  ReservedAt(n)'
    BY DEF ReservedAt

LEMMA NextReserved ==
    ASSUME ContractOnly, RInv, [Next]_vars
    PROVE  Reserved'
<1> SUFFICES ASSUME NEW n \in Names PROVE ReservedAt(n)'
    BY DEF Reserved
<1> USE ConstAssumption DEF ContractOnly, RInv, IInv, TypeOK, FileStates
<1>0. ReservedAt(n)
    BY DEF Reserved
<1>1. ASSUME NEW m \in Names, NEW f \in FileIds, CreateOutput(m, f)
      PROVE  ReservedAt(n)'
    <2>1. f \notin Writers(n)
        BY <1>1 DEF CreateOutput, Writers
    <2>2. CASE m = n
        <3>1. Writers(n) = {} /\ locks[n] = 0
            BY <1>0, <1>1, <2>2 DEF CreateOutput, ReservedAt
        <3>2. Writers(n)' = {f}
            BY <1>1, <2>2, <3>1 DEF CreateOutput, Writers
        <3>3. QED
            BY <1>1, <2>2, <3>1, <3>2 DEF CreateOutput, ReservedAt
    <2>3. CASE m # n
        <3>1. Writers(n)' = Writers(n)
            BY <1>1, <2>1, <2>3 DEF CreateOutput, Writers
        <3>2. QED
            BY <1>0, <1>1, <2>3, <3>1, ReservedFrame DEF CreateOutput
    <2>4. QED
        BY <2>2, <2>3
<1>2. ASSUME NEW f \in FileIds, Write(f) PROVE ReservedAt(n)'
    BY <1>0, <1>2, ReservedFrame DEF Write, Writers
<1>3. ASSUME NEW f \in FileIds, CloseOutput(f) PROVE ReservedAt(n)'
    <2>1. CASE files[fname[f]] # Dummy /\ Abort("commit")
        BY <1>0, <2>1, ReservedFrame DEF Abort, Writers
    <2>2. CASE /\ fstate[f] = "writing"
               /\ files[fname[f]] = Dummy
               /\ files' = [files EXCEPT ![fname[f]] = f]
               /\ fstate' = [fstate EXCEPT ![f] = "shared"]
               /\ UNCHANGED <<fname, locks>>
        <3>1. fname[f] \in Names
            BY <2>2 DEF WritingNamed
        <3>2. Writers(n)' = Writers(n) \ {f}
            BY <2>2 DEF Writers
        <3>3. CASE fname[f] = n
            <4>1. f \in Writers(n)
                BY <2>2, <3>3 DEF Writers
            <4>2. Writers(n) = {f} /\ locks[n] = 0
                BY <1>0, <4>1 DEF ReservedAt
            <4>3. QED
                BY <2>2, <3>1, <3>2, <3>3, <4>2 DEF ReservedAt
        <3>4. CASE fname[f] # n
            <4>1. f \notin Writers(n)
                BY <3>4 DEF Writers
            <4>2. files'[n] = files[n] /\ locks'[n] = locks[n]
                  /\ Writers(n)' = Writers(n)
                BY <2>2, <3>1, <3>2, <3>4, <4>1
            <4>3. QED
                BY <1>0, <4>2, ReservedFrame
        <3>5. QED
            BY <3>3, <3>4
    <2>3. QED
        BY <1>3, <2>1, <2>2 DEF CloseOutput
<1>4. ASSUME NEW m \in Names, OpenInput(m) PROVE ReservedAt(n)'
    <2>1. UNCHANGED <<files, fstate, fname, locks>>
        BY <1>4 DEF OpenInput, Abort
    <2>2. Writers(n)' = Writers(n)
        BY <2>1 DEF Writers
    <2>3. QED
        BY <1>0, <2>1, <2>2, ReservedFrame
<1>5. ASSUME NEW f \in FileIds, CloseInput(f) PROVE ReservedAt(n)'
    BY <1>0, <1>5, ReservedFrame DEF CloseInput, Unref, Writers
<1>6. ASSUME NEW f \in FileIds, FreeFile(f) PROVE ReservedAt(n)'
    <2>1. fstate[f] = "shared"
        BY <1>6 DEF FreeFile, PendingExact
    <2>2. Writers(n)' = Writers(n)
        BY <1>6, <2>1 DEF FreeFile, Writers
    <2>3. QED
        BY <1>0, <1>6, <2>2, ReservedFrame DEF FreeFile
<1>7. ASSUME NEW m \in Names, DeleteFile(m) PROVE ReservedAt(n)'
    <2>1. files[m] \in FileIds /\ files' = [files EXCEPT ![m] = Absent]
          /\ UNCHANGED <<fstate, fname, locks>>
        BY <1>7 DEF DeleteFile, Abort
    <2>2. CASE m = n
        BY <1>0, <2>1, <2>2 DEF ReservedAt, Writers
    <2>3. CASE m # n
        BY <1>0, <2>1, <2>3, ReservedFrame DEF Writers
    <2>4. QED
        BY <2>2, <2>3
<1>8. ASSUME NEW src \in Names, NEW dst \in Names, Rename(src, dst)
      PROVE  ReservedAt(n)'
    <2>1. files[src] \in FileIds /\ files[dst] = Absent /\ src # dst
          /\ files' = [files EXCEPT ![dst] = files[src], ![src] = Absent]
          /\ UNCHANGED <<fstate, fname, locks>>
        BY <1>8 DEF Rename
    <2>2. Writers(n)' = Writers(n)
        BY <2>1 DEF Writers
    <2>3. CASE n \in {src, dst}
        BY <1>0, <2>1, <2>2, <2>3 DEF ReservedAt
    <2>4. CASE n \notin {src, dst}
        BY <1>0, <2>1, <2>2, <2>4, ReservedFrame
    <2>5. QED
        BY <2>3, <2>4
<1>9. ASSUME NEW m \in Names, ObtainLock(m) PROVE ReservedAt(n)'
    <2>1. Writers(n)' = Writers(n)
        BY <1>9 DEF ObtainLock, Writers
    <2>2. CASE m = n
        BY <1>0, <1>9, <2>1, <2>2 DEF ObtainLock, ReservedAt
    <2>3. CASE m # n
        BY <1>0, <1>9, <2>1, <2>3, ReservedFrame DEF ObtainLock
    <2>4. QED
        BY <2>2, <2>3
<1>10. ASSUME NEW m \in Names, ReleaseLock(m) PROVE ReservedAt(n)'
    <2>1. Writers(n)' = Writers(n)
        BY <1>10 DEF ReleaseLock, Abort, Writers
    <2>2. CASE m = n
        <3>1. Writers(n) = {} /\ locks[n] = 1 /\ files[n] = Dummy
            BY <1>0, <1>10, <2>2 DEF ReleaseLock, ReservedAt
        <3>2. QED
            BY <1>10, <2>1, <2>2, <3>1 DEF ReleaseLock, Abort, ReservedAt
    <2>3. CASE m # n
        BY <1>0, <1>10, <2>1, <2>3, ReservedFrame DEF ReleaseLock, Abort
    <2>4. QED
        BY <2>2, <2>3
<1>11. ASSUME NEW s \in Segments, DeleteSegment(s) PROVE ReservedAt(n)'
    BY <1>11
<1>12. CASE Halted
    BY <1>0, <1>12, ReservedFrame DEF Halted, vars, Writers
<1>13. CASE UNCHANGED vars
    BY <1>0, <1>13, ReservedFrame DEF vars, Writers
<1>14. QED
    BY <1>1, <1>2, <1>3, <1>4, <1>5, <1>6, <1>7, <1>8, <1>9, <1>10, <1>11,
       <1>12, <1>13 DEF Next

(* Reserved gives the count ReservationIntegrity states: the writers of a *)
(* name are empty or a singleton, whose cardinalities are 0 and 1.        *)
LEMMA ReservedIntegrity == Reserved => ReservationIntegrity
<1> SUFFICES ASSUME Reserved, NEW n \in Names
             PROVE  Cardinality(Writers(n)) + locks[n]
                        = IF files[n] = Dummy THEN 1 ELSE 0
    BY DEF ReservationIntegrity
<1>1. CASE Writers(n) = {} /\ locks[n] = 0 /\ files[n] # Dummy
    BY <1>1, FS_EmptySet
<1>2. CASE Writers(n) = {} /\ locks[n] = 1 /\ files[n] = Dummy
    BY <1>2, FS_EmptySet
<1>3. ASSUME NEW f \in FileIds, Writers(n) = {f} /\ locks[n] = 0 /\ files[n] = Dummy
      PROVE  Cardinality(Writers(n)) + locks[n] = IF files[n] = Dummy THEN 1 ELSE 0
    <2>1. Cardinality({f}) = 1
        BY FS_Singleton
    <2>2. QED
        BY <1>3, <2>1
<1>4. QED
    BY <1>1, <1>2, <1>3 DEF Reserved, ReservedAt

(* When callers keep the documented preconditions and never call          *)
(* deleteSegment(), each placeholder in the table belongs to exactly one  *)
(* live RAMFileIndexOutput or RAMDirectoryLockFile and each of those has   *)
(* its placeholder: commit() and releaseLock() always find their own      *)
(* reservation.  This holds for any number of names and RAMFiles.         *)
THEOREM ReservationCorrect ==
    ASSUME ContractOnly
    PROVE  Spec => []ReservationIntegrity
<1>1. Init => RInv
    BY InitIInv, InitReserved DEF RInv
<1>2. RInv /\ [Next]_vars => RInv'
    BY NextIInv, NextReserved DEF RInv
<1>3. RInv => ReservationIntegrity
    BY ReservedIntegrity DEF RInv
<1>4. QED
    BY <1>1, <1>2, <1>3, PTL DEF Spec


(* Without deleteSegment() and with callers keeping the contract,          *)
(* obtainLock() never hands out a second handle for a name while the first *)
(* is alive.  Both assumptions are needed: deleteSegment() erasing a lock's *)
(* placeholder breaks exclusion (run dir_lock_segment), and so does, with  *)
(* the contract off, rename() moving the placeholder away before the next  *)
(* obtainLock() on that name.                                              *)
THEOREM LockExclusionCorrect ==
    ASSUME ContractOnly
    PROVE  Spec => []LockExclusion
<1>1. RInv => LockExclusion
    BY DEF RInv, Reserved, ReservedAt, LockExclusion
<1>2. QED
    BY <1>1, InitIInv, InitReserved, NextIInv, NextReserved, PTL DEF RInv, Spec

=============================================================================
