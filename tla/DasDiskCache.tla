---------------------------- MODULE DasDiskCache ----------------------------
(***************************************************************************)
(* One DAS cache file and the BES processes that use it, at the level of   *)
(* the system calls of hdf5_build_das, read_das_from_disk_cache and        *)
(* write_das_to_disk_cache.                                                *)
(*                                                                         *)
(* Each step of a process is one call that others can observe: access,     *)
(* fopen (which truncates, for a writer), fcntl, stat, fread, the flush of *)
(* the stdio buffer by fwrite or fclose.  The processes serve requests for *)
(* the same HDF5 file, so they all write the same DAS; it is cut into      *)
(* blocks, the pieces in which stdio brings it to the file.                *)
(***************************************************************************)
EXTENDS Naturals, FiniteSets

CONSTANTS
    Process,       \* the BES processes that share the cache directory
    Blocks,        \* the length of the serialised DAS
    MaxMishaps     \* bound: processes killed and writes that fail

ASSUME BlocksAssumption == Blocks \in Nat \ {0}
ASSUME MaxMishapsAssumption == MaxMishaps \in Nat

Pos == 1 .. Blocks

VARIABLES
    created,    \* whether the file exists; nothing ever removes it
    disk,       \* its content: a block, a hole of zeros, or past its end
    reader,     \* the processes with a read lock on it
    writer,     \* the processes with the write lock on it
    pc,         \* the next call of each process
    size,       \* the size a reader got from stat
    printed,    \* how many blocks a writer has given to fwrite
    flushed,    \* how many of them have left its buffer: its file offset
    result,     \* the DAS of the last request of each process
    mishaps     \* how many kills and failed writes there have been

file    == <<created, disk>>
locks   == <<reader, writer>>
offsets == <<size, printed, flushed>>
vars    == <<file, locks, pc, offsets, result, mishaps>>

\* Where a process has the file open, for writing and for reading.
WriteSteps == {"lock_write", "write", "unlock_write", "close_write"}
ReadSteps  == {"lock_read", "stat", "fread", "unlock_read"}

Init ==
    /\ created = FALSE
    /\ disk = [i \in Pos |-> "eof"]
    /\ reader = {} /\ writer = {}
    /\ pc = [p \in Process |-> "access"]
    /\ size = [p \in Process |-> 0]
    /\ printed = [p \in Process |-> 0]
    /\ flushed = [p \in Process |-> 0]
    /\ result = [p \in Process |-> "none"]
    /\ mishaps = 0

Goto(p, step) == pc' = [pc EXCEPT ![p] = step]

\* The file has its first n blocks, or what is in their places.
Size == Cardinality({i \in Pos : disk[i] # "eof"})

Complete == created /\ \A i \in Pos : disk[i] = "block"

\* write() of the blocks lo .. hi at the file offset lo - 1: if another
\* process has truncated the file meanwhile, zeros fill the space before it.
Flush(lo, hi) ==
    disk' = [i \in Pos |-> IF i \in lo .. hi THEN "block"
                           ELSE IF i < lo /\ lo <= hi /\ disk[i] = "eof" THEN "hole"
                           ELSE disk[i]]

-----------------------------------------------------------------------------
(***************************************************************************)
(* hdf5_build_das                                                          *)
(***************************************************************************)

\* access(das_cache_fname, F_OK) decides between reading and building.
Access(p) ==
    /\ pc[p] = "access"
    /\ Goto(p, IF created THEN "open_read" ELSE "build")
    /\ result' = [result EXCEPT ![p] = "none"]
    /\ UNCHANGED <<file, locks, offsets, mishaps>>

\* read_cfdas or depth_first; the memory copy is the result.
Build(p) ==
    /\ pc[p] = "build"
    /\ Goto(p, "open_write")
    /\ result' = [result EXCEPT ![p] = "whole"]
    /\ UNCHANGED <<file, locks, offsets, mishaps>>

(***************************************************************************)
(* read_das_from_disk_cache                                                *)
(***************************************************************************)

\* fopen(..., "rb").
OpenRead(p) ==
    /\ pc[p] = "open_read"
    /\ Goto(p, "lock_read")
    /\ UNCHANGED <<file, locks, offsets, result, mishaps>>

\* fcntl(F_SETLKW) with F_RDLCK waits for the writer.
MutantLockRead(p) ==
    /\ pc[p] = "lock_read"
    /\ reader = {} /\ writer = {}
    /\ reader' = reader \cup {p}
    /\ Goto(p, "stat")
    /\ UNCHANGED <<file, writer, offsets, result, mishaps>>

LockRead(p) ==
    /\ pc[p] = "lock_read"
    /\ writer = {}
    /\ reader' = reader \cup {p}
    /\ Goto(p, "stat")
    /\ UNCHANGED <<file, writer, offsets, result, mishaps>>

Stat(p) ==
    /\ pc[p] = "stat"
    /\ size' = [size EXCEPT ![p] = Size]
    /\ Goto(p, "fread")
    /\ UNCHANGED <<file, locks, printed, flushed, result, mishaps>>

MutantFread(p) ==
    /\ pc[p] = "fread"
    /\ \E r \in {"whole", "garbled", "failed"} :
         /\ Size < size[p] => r = "failed"
         /\ r = "whole" <=> size[p] = Blocks /\ Size = Blocks
         /\ result' = [result EXCEPT ![p] = r]
    /\ size' = [size EXCEPT ![p] = 0]
    /\ Goto(p, "unlock_read")
    /\ UNCHANGED <<file, locks, printed, flushed, mishaps>>

\* fread of the size found, and the parser.  A shorter file is an error; the
\* parser stops at the end flag, the last block, and otherwise fails, or runs
\* past its buffer and returns anything.
Fread(p) ==
    /\ pc[p] = "fread"
    /\ \E r \in {"whole", "garbled", "failed"} :
         /\ Size < size[p] => r = "failed"
         /\ r = "whole" <=> size[p] = Blocks /\ Complete
         /\ result' = [result EXCEPT ![p] = r]
    /\ size' = [size EXCEPT ![p] = 0]
    /\ Goto(p, "unlock_read")
    /\ UNCHANGED <<file, locks, printed, flushed, mishaps>>

\* fcntl(F_UNLCK) and fclose, on the normal path and in the catch clause.
UnlockRead(p) ==
    /\ pc[p] = "unlock_read"
    /\ reader' = reader \ {p}
    /\ Goto(p, "access")
    /\ UNCHANGED <<file, writer, offsets, result, mishaps>>

(***************************************************************************)
(* write_das_to_disk_cache                                                 *)
(***************************************************************************)

\* fopen(..., "wb") truncates the file before any lock is asked for.
OpenWrite(p) ==
    /\ pc[p] = "open_write"
    /\ created' = TRUE
    /\ disk' = [i \in Pos |-> "eof"]
    /\ Goto(p, "lock_write")
    /\ UNCHANGED <<locks, offsets, result, mishaps>>

\* fcntl(F_SETLKW) with F_WRLCK waits for all other locks.
MutantLockWrite(p) ==
    /\ pc[p] = "lock_write"
    /\ reader = {} /\ writer = {}
    /\ writer' = {p}
    /\ Goto(p, IF Size > 0 THEN "unlock_write" ELSE "write")
    /\ UNCHANGED <<file, reader, offsets, result, mishaps>>

LockWrite(p) ==
    /\ pc[p] = "lock_write"
    /\ reader = {} /\ writer = {}
    /\ writer' = {p}
    /\ Goto(p, "write")
    /\ UNCHANGED <<file, reader, offsets, result, mishaps>>

\* write_das_to_file: fwrite copies the next block to the buffer and may bring
\* any part of what is there to the file.
Write(p) ==
    /\ pc[p] = "write"
    /\ printed[p] < Blocks
    /\ printed' = [printed EXCEPT ![p] = @ + 1]
    /\ \E n \in flushed[p] .. printed[p] + 1 :
         /\ Flush(flushed[p] + 1, n)
         /\ flushed' = [flushed EXCEPT ![p] = n]
    /\ Goto(p, IF printed[p] + 1 = Blocks THEN "unlock_write" ELSE "write")
    /\ UNCHANGED <<created, locks, size, result, mishaps>>

\* The file system refuses a write: fwrite is short and write_das_attr_info
\* throws, or the end flag is lost, whose fwrite nobody checks.  What had left
\* the buffer stays.
WriteFails(p) ==
    /\ pc[p] = "write"
    /\ mishaps < MaxMishaps
    /\ mishaps' = mishaps + 1
    /\ Goto(p, "unlock_write")
    /\ result' = [result EXCEPT ![p] = IF printed[p] + 1 < Blocks THEN "failed" ELSE @]
    /\ UNCHANGED <<file, locks, offsets>>

\* fcntl(F_UNLCK), while the end of the DAS may still be in the buffer.
MutantUnlockWrite(p) ==
    /\ pc[p] = "unlock_write"
    /\ Goto(p, "close_write")
    /\ UNCHANGED <<file, locks, offsets, result, mishaps>>

UnlockWrite(p) ==
    /\ pc[p] = "unlock_write"
    /\ writer' = writer \ {p}
    /\ Goto(p, "close_write")
    /\ UNCHANGED <<file, reader, offsets, result, mishaps>>

\* The FILE object of p is gone.
Closed(p) ==
    /\ printed' = [printed EXCEPT ![p] = 0]
    /\ flushed' = [flushed EXCEPT ![p] = 0]

\* fclose flushes the rest.
Close(p) ==
    /\ pc[p] = "close_write"
    /\ Flush(flushed[p] + 1, printed[p])
    /\ Closed(p)
    /\ Goto(p, "access")
    /\ UNCHANGED <<created, locks, size, result, mishaps>>

\* The flush of fclose fails, which nobody checks.
CloseFails(p) ==
    /\ pc[p] = "close_write"
    /\ flushed[p] < printed[p]
    /\ mishaps < MaxMishaps
    /\ mishaps' = mishaps + 1
    /\ Closed(p)
    /\ Goto(p, "access")
    /\ UNCHANGED <<file, locks, size, result>>

-----------------------------------------------------------------------------
\* A process is killed, anywhere: its locks go, its buffer is lost, and a new
\* process takes its place.
Kill(p) ==
    /\ mishaps < MaxMishaps
    /\ mishaps' = mishaps + 1
    /\ reader' = reader \ {p}
    /\ writer' = writer \ {p}
    /\ pc' = [pc EXCEPT ![p] = "access"]
    /\ result' = [result EXCEPT ![p] = "none"]
    /\ size' = [size EXCEPT ![p] = 0]
    /\ Closed(p)
    /\ UNCHANGED file

\* The calls of one process in one request.
Step(p) ==
    \/ Access(p) \/ Build(p)
    \/ OpenRead(p) \/ LockRead(p) \/ Stat(p) \/ Fread(p) \/ UnlockRead(p)
    \/ OpenWrite(p) \/ LockWrite(p) \/ Write(p) \/ WriteFails(p)
    \/ UnlockWrite(p) \/ Close(p) \/ CloseFails(p)

Next == \E p \in Process : Step(p) \/ Kill(p)

Spec == Init /\ [][Next]_vars

\* A process that can go on does: only LockRead and LockWrite wait.
FairSpec == Spec /\ \A p \in Process : WF_vars(Step(p))

-----------------------------------------------------------------------------
(***************************************************************************)
(* Properties                                                              *)
(***************************************************************************)

\* The variables keep to their types, and a process has the lock that its
\* place in the code says it has.
TypeOK ==
    /\ created \in BOOLEAN
    /\ disk \in [Pos -> {"block", "hole", "eof"}]
    /\ pc \in [Process -> {"access", "build", "open_read", "open_write"}
                             \cup ReadSteps \cup WriteSteps]
    /\ reader = {p \in Process : pc[p] \in ReadSteps \ {"lock_read"}}
    /\ writer = {p \in Process : pc[p] \in {"write", "unlock_write"}}
    /\ size \in [Process -> 0 .. Blocks]
    /\ printed \in [Process -> 0 .. Blocks]
    /\ flushed \in [Process -> 0 .. Blocks]
    /\ result \in [Process -> {"none", "whole", "garbled", "failed"}]
    /\ mishaps \in 0 .. MaxMishaps

\* When no process has the cache file open for writing, and none has been
\* killed or had a write fail, the file holds the whole DAS: the truncations
\* and late flushes of concurrent writers, in whatever order, leave no hole
\* and lose no block in the end.
QuiescentComplete ==
    created /\ mishaps = 0 /\ (\A p \in Process : pc[p] \notin WriteSteps) => Complete

\* A reader that waits for the lock gets it, although more readers may come
\* all the time: writers open the file only while it is not there, so they
\* come to an end.
ReaderProceeds == \A p \in Process : pc[p] = "lock_read" ~> pc[p] # "lock_read"

-----------------------------------------------------------------------------
\* A FILE object starts at offset zero and flushes only what it was given.
Offsets ==
    \A p \in Process :
      /\ flushed[p] <= printed[p]
      /\ pc[p] \notin {"write", "unlock_write", "close_write"} => printed[p] = 0
      /\ pc[p] = "write" => printed[p] < Blocks

\* The invariant behind QuiescentComplete: every block that is not in the file
\* is still to be brought there by a process that has it open for writing.
\* Such a process past its writing has given every block to fwrite.
Pending ==
    mishaps = 0 =>
      /\ created => \A i \in Pos : disk[i] = "block" \/
                      \E p \in Process : pc[p] \in WriteSteps /\ flushed[p] < i
      /\ \A p \in Process : pc[p] \in {"unlock_write", "close_write"} => printed[p] = Blocks

-----------------------------------------------------------------------------
(***************************************************************************)
(* What this implements.                                                   *)
(***************************************************************************)

\* A process that has the file open for writing has created it.
WriterCreated == \A p \in Process : pc[p] \in WriteSteps => created

Content == IF ~created THEN "absent" ELSE IF Complete THEN "whole" ELSE "partial"

PhaseOf(step) ==
    CASE step = "access" -> "idle"
      [] step = "build" -> "building"
      [] step = "open_write" -> "built"
      [] step \in WriteSteps -> "writing"
      [] step = "fread" -> "looked"
      [] step = "unlock_read" -> "answered"
      [] OTHER -> "reading"

Phase == [p \in Process |-> PhaseOf(pc[p])]

Seen == [p \in Process |-> IF pc[p] # "fread" THEN "none"
                           ELSE IF size[p] = Blocks THEN "all" ELSE "less"]

Promise == INSTANCE CacheFile
    WITH content <- Content,
         phase   <- Phase,
         seen    <- Seen,
         answer  <- result,
         spoiled <- mishaps # 0

\* The calls of write_das_to_disk_cache and read_das_from_disk_cache keep the
\* promise of the cache file: only a process that found no file changes it, the
\* last of several writers leaves it whole, and a reader that finds it whole
\* gets the DAS.
Implements == Promise!Spec
=============================================================================
