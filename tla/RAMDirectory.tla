---------------------------- MODULE RAMDirectory ----------------------------
(***************************************************************************)
(* The in-memory directory of lucanthrope: the name table `files` of       *)
(* RAMDirectory guarded by its one mutex, the RAMFile objects it owns      *)
(* through manual reference counts, and the stream and lock objects whose  *)
(* constructors and destructors call back into it (RAMFileIndexOutput,    *)
(* RAMFileIndexInput, RAMDirectoryLockFile).                               *)
(*                                                                         *)
(* Every public method runs its whole body under `mu_`, so each is one     *)
(* atomic action.  The one step taken outside the mutex is the `delete     *)
(* file` that deleteFile() and unrefReader() run after unlocking: it is    *)
(* the separate action FreeFile.  The bytes of a file are abstracted to    *)
(* whether its length is zero, the only fact about them the directory      *)
(* tests (the assertion of the RAMFileIndexInput constructor).             *)
(*                                                                         *)
(* The build modelled is the one the tests use, with assertions on: a      *)
(* failed assert() ends the process, recorded in `fault`, after which      *)
(* nothing happens.                                                        *)
(***************************************************************************)
EXTENDS Integers, FiniteSets

CONSTANTS
    Names,          \* the file names clients pass to the directory
    FileIds,        \* the RAMFile objects createOutput() may allocate
    Segments,       \* the prefixes clients pass to deleteSegment()
    SegmentMembers, \* SegmentMembers[s]: the names that start with prefix s
    MaxReaders,     \* bound: live RAMFileIndexInput objects on one file
    MaxLocks,       \* bound: live RAMDirectoryLockFile objects for one name
    MaxDummyUnrefs, \* bound: decrements of dummy_file.refs_ by deleteSegment()
    Contract,       \* TRUE: callers open, delete and rename committed files only
    Absent,         \* the name has no entry in the files map
    Dummy           \* &dummy_file, the placeholder of outputs and locks

ASSUME ConstAssumption ==
    /\ IsFiniteSet(Names)
    /\ SegmentMembers \in [Segments -> SUBSET Names]
    /\ MaxReaders \in Nat
    /\ MaxLocks \in Nat
    /\ MaxDummyUnrefs \in Nat
    /\ Contract \in BOOLEAN
    /\ Absent \notin FileIds
    /\ Dummy \notin FileIds
    /\ Absent # Dummy

(* Life of a RAMFile object: not yet allocated, owned by its               *)
(* RAMFileIndexOutput, committed (shared through refs_), deallocated.      *)
FileStates == {"unalloc", "writing", "shared", "freed"}

(* The assertions of the source that can fail, and the undefined           *)
(* behaviour of erasing from the map deleteSegment() iterates over.        *)
NoFault == "none"
Faults == {"commit", "openInput", "emptyFile", "deleteFile",
           "releaseLock", "deleteSegment", "iterator"}

VARIABLES
    files,        \* RAMDirectory::files: name -> Absent, Dummy or a RAMFile
    fstate,       \* life-cycle state of each RAMFile object
    fname,        \* RAMFile::name, fixed by the RAMFileIndexOutput constructor
    empty,        \* RAMFile::length = 0
    refs,         \* RAMFile::refs_
    dummyRefs,    \* dummy_file.refs_
    readers,      \* live RAMFileIndexInput objects on each RAMFile
    pendingFree,  \* files whose last reference a thread dropped, not yet deleted
    locks,        \* live RAMDirectoryLockFile objects for each name
    fault         \* NoFault, or the assertion that aborted the process

vars == <<files, fstate, fname, empty, refs, dummyRefs, readers, pendingFree,
          locks, fault>>

InTable(f) == \E n \in Names : files[n] = f

-----------------------------------------------------------------------------

TypeOK ==
    /\ files \in [Names -> FileIds \cup {Absent, Dummy}]
    /\ fstate \in [FileIds -> FileStates]
    /\ fname \in [FileIds -> Names \cup {Absent}]
    /\ empty \in [FileIds -> BOOLEAN]
    /\ refs \in [FileIds -> Int]
    /\ dummyRefs \in Int
    /\ readers \in [FileIds -> Nat]
    /\ pendingFree \subseteq FileIds
    /\ locks \in [Names -> Nat]
    /\ fault \in Faults \cup {NoFault}

Init ==
    /\ files = [n \in Names |-> Absent]
    /\ fstate = [f \in FileIds |-> "unalloc"]
    /\ fname = [f \in FileIds |-> Absent]
    /\ empty = [f \in FileIds |-> TRUE]
    /\ refs = [f \in FileIds |-> 0]
    /\ dummyRefs = 0
    /\ readers = [f \in FileIds |-> 0]
    /\ pendingFree = {}
    /\ locks = [n \in Names |-> 0]
    /\ fault = NoFault

(* A failed assert(): the process stops with nothing else changed.         *)
Abort(reason) ==
    /\ fault' = reason
    /\ UNCHANGED <<files, fstate, fname, empty, refs, dummyRefs, readers,
                   pendingFree, locks>>

(* Mutant: the delete decision taken one reference too early.             *)
Unref_early(f) ==
    /\ refs' = [refs EXCEPT ![f] = @ - 1]
    /\ pendingFree' = IF refs[f] - 1 <= 1 THEN pendingFree \cup {f}
                                          ELSE pendingFree

(* The reference count after a decrement, and the thread's decision, taken *)
(* from that local copy, to delete the file once it has unlocked.          *)
Unref(f) ==
    /\ refs' = [refs EXCEPT ![f] = @ - 1]
    /\ pendingFree' = IF refs[f] - 1 = 0 THEN pendingFree \cup {f}
                                         ELSE pendingFree

-----------------------------------------------------------------------------
(* Mutant: createOutput() without the check that the name is free.        *)
CreateOutput_noguard(n, f) ==
    /\ fstate[f] = "unalloc"
    /\ files' = [files EXCEPT ![n] = Dummy]
    /\ fstate' = [fstate EXCEPT ![f] = "writing"]
    /\ fname' = [fname EXCEPT ![f] = n]
    /\ UNCHANGED <<empty, refs, dummyRefs, readers, pendingFree, locks, fault>>

(* createOutput(n): fails if the name is taken; otherwise allocates the    *)
(* output and its RAMFile f, then reserves the name with the placeholder.  *)
CreateOutput(n, f) ==
    /\ files[n] = Absent
    /\ fstate[f] = "unalloc"
    /\ files' = [files EXCEPT ![n] = Dummy]
    /\ fstate' = [fstate EXCEPT ![f] = "writing"]
    /\ fname' = [fname EXCEPT ![f] = n]
    /\ UNCHANGED <<empty, refs, dummyRefs, readers, pendingFree, locks, fault>>

(* Writes through the output make the still private file non-empty; which  *)
(* bytes, and where the buffer stands, the directory never looks at.       *)
Write(f) ==
    /\ fstate[f] = "writing"
    /\ empty[f]
    /\ empty' = [empty EXCEPT ![f] = FALSE]
    /\ UNCHANGED <<files, fstate, fname, refs, dummyRefs, readers, pendingFree,
                   locks, fault>>

(* ~RAMFileIndexOutput: finish_writing() calls commit(), which asserts the *)
(* name still holds the placeholder, then installs f with refs_ = 1.       *)
CloseOutput(f) ==
    /\ fstate[f] = "writing"
    /\ \/ /\ files[fname[f]] = Dummy
          /\ files' = [files EXCEPT ![fname[f]] = f]
          /\ refs' = [refs EXCEPT ![f] = 1]
          /\ fstate' = [fstate EXCEPT ![f] = "shared"]
          /\ UNCHANGED <<fname, empty, dummyRefs, readers, pendingFree, locks,
                         fault>>
       \/ /\ files[fname[f]] # Dummy
          /\ Abort("commit")

(* openInput(n): FileNotFound if absent; asserts the entry is committed,   *)
(* the RAMFileIndexInput constructor asserts it is not empty; then refs_++.*)
OpenInput(n) ==
    /\ files[n] # Absent
    /\ Contract => files[n] \in FileIds
    /\ \/ /\ files[n] = Dummy
          /\ Abort("openInput")
       \/ /\ files[n] \in FileIds
          /\ empty[files[n]]
          /\ Abort("emptyFile")
       \/ /\ files[n] \in FileIds
          /\ ~empty[files[n]]
          /\ readers[files[n]] < MaxReaders
          /\ refs' = [refs EXCEPT ![files[n]] = @ + 1]
          /\ readers' = [readers EXCEPT ![files[n]] = @ + 1]
          /\ UNCHANGED <<files, fstate, fname, empty, dummyRefs, pendingFree,
                         locks, fault>>

(* Mutant: a reader closed twice (no live reader required).                *)
CloseInput_noguard(f) ==
    /\ readers' = [readers EXCEPT ![f] = @ - 1]
    /\ Unref(f)
    /\ UNCHANGED <<files, fstate, fname, empty, dummyRefs, locks, fault>>

(* ~RAMFileIndexInput: finish_reading() calls unrefReader(), which         *)
(* decrements refs_ under the mutex and keeps the result in a local.       *)
CloseInput(f) ==
    /\ readers[f] > 0
    /\ readers' = [readers EXCEPT ![f] = @ - 1]
    /\ Unref(f)
    /\ UNCHANGED <<files, fstate, fname, empty, dummyRefs, locks, fault>>

(* `delete file` after the mutex is released; ~RAMFile asserts refs_ = 0. *)
FreeFile(f) ==
    /\ f \in pendingFree
    /\ pendingFree' = pendingFree \ {f}
    /\ fstate' = [fstate EXCEPT ![f] = "freed"]
    /\ UNCHANGED <<files, fname, empty, refs, dummyRefs, readers, locks, fault>>

(* Mutant: deleteFile() that drops the reference but never deletes.       *)
DeleteFile_nofree(n) ==
    /\ files[n] # Absent
    /\ Contract => files[n] \in FileIds
    /\ \/ /\ files[n] = Dummy
          /\ Abort("deleteFile")
       \/ /\ files[n] \in FileIds
          /\ files' = [files EXCEPT ![n] = Absent]
          /\ refs' = [refs EXCEPT ![files[n]] = @ - 1]
          /\ UNCHANGED <<fstate, fname, empty, dummyRefs, readers, pendingFree,
                         locks, fault>>

(* deleteFile(n): FileNotFound if absent; asserts the entry is committed,  *)
(* erases it and decrements refs_ under the mutex.                         *)
DeleteFile(n) ==
    /\ files[n] # Absent
    /\ Contract => files[n] \in FileIds
    /\ \/ /\ files[n] = Dummy
          /\ Abort("deleteFile")
       \/ /\ files[n] \in FileIds
          /\ files' = [files EXCEPT ![n] = Absent]
          /\ Unref(files[n])
          /\ UNCHANGED <<fstate, fname, empty, dummyRefs, readers, locks, fault>>

(* Mutant: rename() without the FileAlreadyExists check, so that         *)
(* files[target] = ... overwrites the entry the target held.               *)
Rename_overwrite(src, dst) ==
    /\ files[src] # Absent
    /\ src # dst
    /\ Contract => files[src] \in FileIds
    /\ files' = [files EXCEPT ![dst] = files[src], ![src] = Absent]
    /\ UNCHANGED <<fstate, fname, empty, refs, dummyRefs, readers, pendingFree,
                   locks, fault>>

(* rename(src, dst): FileNotFound, FileAlreadyExists, else moves the entry *)
(* whatever it holds, placeholder included.                                *)
Rename(src, dst) ==
    /\ files[src] # Absent
    /\ files[dst] = Absent
    /\ Contract => files[src] \in FileIds
    /\ files' = [files EXCEPT ![dst] = files[src], ![src] = Absent]
    /\ UNCHANGED <<fstate, fname, empty, refs, dummyRefs, readers, pendingFree,
                   locks, fault>>

(* obtainLock(n): no handle if the name is taken, else a handle and the    *)
(* placeholder.                                                            *)
ObtainLock(n) ==
    /\ files[n] = Absent
    /\ locks[n] < MaxLocks
    /\ locks' = [locks EXCEPT ![n] = @ + 1]
    /\ files' = [files EXCEPT ![n] = Dummy]
    /\ UNCHANGED <<fstate, fname, empty, refs, dummyRefs, readers, pendingFree,
                   fault>>

(* ~RAMDirectoryLockFile: releaseLock() warns and returns if the name is   *)
(* gone, asserts the entry is the placeholder, and erases it.              *)
ReleaseLock(n) ==
    /\ locks[n] > 0
    /\ \/ /\ files[n] = Absent
          /\ locks' = [locks EXCEPT ![n] = @ - 1]
          /\ UNCHANGED <<files, fstate, fname, empty, refs, dummyRefs, readers,
                         pendingFree, fault>>
       \/ /\ files[n] = Dummy
          /\ locks' = [locks EXCEPT ![n] = @ - 1]
          /\ files' = [files EXCEPT ![n] = Absent]
          /\ UNCHANGED <<fstate, fname, empty, refs, dummyRefs, readers,
                         pendingFree, fault>>
       \/ /\ files[n] \in FileIds
          /\ Abort("releaseLock")

(* deleteSegment(s): for every entry whose name starts with s, asserts it  *)
(* IS the placeholder (sic), erases it and decrements dummy_file.refs_.    *)
(* The erase invalidates the iterator of the enclosing range-for: its next *)
(* increment is undefined, modelled as either outcome, the loop carrying   *)
(* on or the process crashing.                                             *)
DeleteSegment(s) ==
    LET hit == {n \in SegmentMembers[s] : files[n] # Absent}
    IN  /\ hit # {}
        /\ \/ /\ \E n \in hit : files[n] \in FileIds
              /\ Abort("deleteSegment")
           \/ /\ \A n \in hit : files[n] = Dummy
              /\ Cardinality(hit) - dummyRefs <= MaxDummyUnrefs
              /\ files' = [n \in Names |-> IF n \in hit THEN Absent
                                                         ELSE files[n]]
              /\ dummyRefs' = dummyRefs - Cardinality(hit)
              /\ UNCHANGED <<fstate, fname, empty, refs, readers, pendingFree,
                             locks, fault>>
           \/ /\ \A n \in hit : files[n] = Dummy
              /\ Abort("iterator")

(* After an abort nothing runs.                                            *)
Halted ==
    /\ fault # NoFault
    /\ UNCHANGED vars

Next ==
    \/ /\ fault = NoFault
       /\ \/ \E n \in Names, f \in FileIds : CreateOutput(n, f)
          \/ \E f \in FileIds : Write(f) \/ CloseOutput(f)
          \/ \E n \in Names : OpenInput(n)
          \/ \E f \in FileIds : CloseInput(f) \/ FreeFile(f)
          \/ \E n \in Names : DeleteFile(n)
          \/ \E src, dst \in Names : Rename(src, dst)
          \/ \E n \in Names : ObtainLock(n) \/ ReleaseLock(n)
          \/ \E s \in Segments : DeleteSegment(s)
    \/ Halted

Spec == Init /\ [][Next]_vars

-----------------------------------------------------------------------------
(***************************************************************************)
(* Properties.                                                             *)
(***************************************************************************)

(* The reference count of every committed RAMFile equals its open readers  *)
(* plus one for its table entry, and no RAMFile sits under two names: the  *)
(* count that openInput(), unrefReader(), deleteFile(), commit() and       *)
(* rename() keep between them by hand.                                     *)
RefCountSound ==
    /\ \A n, m \in Names : files[n] = files[m] /\ files[n] \in FileIds => n = m
    /\ \A f \in FileIds :
          fstate[f] = "shared" =>
              refs[f] = readers[f] + (IF InTable(f) THEN 1 ELSE 0)

(* A RAMFile that is deleted, or that a thread is about to delete after    *)
(* unlocking, is reachable neither from the table nor from a live reader:  *)
(* deleteFile() racing the last reader's unrefReader() frees it once.      *)
NoUseAfterFree ==
    \A f \in FileIds :
        (fstate[f] = "freed" \/ f \in pendingFree) =>
            /\ readers[f] = 0
            /\ ~InTable(f)

(* A committed RAMFile that has left the table and has no reader is being  *)
(* deleted: the thread that dropped the last reference always frees it.    *)
NoLeak ==
    \A f \in FileIds :
        (fstate[f] = "shared" /\ readers[f] = 0 /\ ~InTable(f)) =>
            f \in pendingFree

(* The writers of each name, for the reservation property below.           *)
Writers(n) == {f \in FileIds : fstate[f] = "writing" /\ fname[f] = n}

(* Every placeholder in the table belongs to exactly one live output or    *)
(* lock handle, and every live output or lock handle has its placeholder:  *)
(* only the object that reserved a name releases or commits it.            *)
ReservationIntegrity ==
    \A n \in Names :
        Cardinality(Writers(n)) + locks[n] = IF files[n] = Dummy THEN 1 ELSE 0

(* obtainLock() never hands out a second handle for a name while the      *)
(* first is alive.                                                         *)
LockExclusion == \A n \in Names : locks[n] <= 1

(* No assertion of the directory or its streams fails.                     *)
NoAbort == fault = NoFault

=============================================================================
