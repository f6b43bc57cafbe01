------------------------- MODULE DasDiskCacheProofs -------------------------
(***************************************************************************)
(* Theorems about DasDiskCache, for any set of processes, any length of    *)
(* the DAS and any number of mishaps.                                      *)
(***************************************************************************)
EXTENDS DasDiskCache, FiniteSetTheorems, TLAPS

\* The size of the file lies between zero and the length of the DAS.
LEMMA SizeType == Size \in 0 .. Blocks
<1>1. IsFiniteSet(1 .. Blocks) /\ Cardinality(1 .. Blocks) = Blocks
  BY BlocksAssumption, FS_Interval
<1>2. {i \in Pos : disk[i] # "eof"} \subseteq 1 .. Blocks
  BY DEF Pos
<1>3. /\ IsFiniteSet({i \in Pos : disk[i] # "eof"})
      /\ Cardinality({i \in Pos : disk[i] # "eof"}) <= Cardinality(1 .. Blocks)
  BY <1>1, <1>2, FS_Subset
<1>4. Cardinality({i \in Pos : disk[i] # "eof"}) \in Nat
  BY <1>3, FS_CardinalityType
<1> QED BY <1>1, <1>3, <1>4, BlocksAssumption DEF Size

\* A flush leaves blocks, holes and ends.
LEMMA FlushType ==
    ASSUME disk \in [Pos -> {"block", "hole", "eof"}], NEW lo, NEW hi, Flush(lo, hi)
    PROVE  disk' \in [Pos -> {"block", "hole", "eof"}]
  BY DEF Flush

-----------------------------------------------------------------------------
\* The variables keep to their types, and the locks are with the processes
\* whose place in the code says so.
THEOREM TypeCorrect == Spec => []TypeOK
<1> USE BlocksAssumption, MaxMishapsAssumption DEF TypeOK, ReadSteps, WriteSteps
<1>1. Init => TypeOK
  <2> SUFFICES ASSUME Init PROVE TypeOK
    OBVIOUS
  <2>1. \A p \in Process : pc[p] = "access"
    BY DEF Init
  <2>2. /\ reader = {p \in Process : pc[p] \in ReadSteps \ {"lock_read"}}
        /\ writer = {p \in Process : pc[p] \in {"write", "unlock_write"}}
    BY <2>1 DEF Init
  <2>3. pc \in [Process -> {"access", "build", "open_read", "open_write"}
                             \cup ReadSteps \cup WriteSteps]
    BY DEF Init
  <2>4. /\ size \in [Process -> 0 .. Blocks]
        /\ printed \in [Process -> 0 .. Blocks]
        /\ flushed \in [Process -> 0 .. Blocks]
        /\ mishaps \in 0 .. MaxMishaps
    BY DEF Init
  <2>5. /\ created \in BOOLEAN
        /\ disk \in [Pos -> {"block", "hole", "eof"}]
        /\ result \in [Process -> {"none", "whole", "garbled", "failed"}]
    BY DEF Init
  <2> QED BY <2>2, <2>3, <2>4, <2>5
<1>2. TypeOK /\ [Next]_vars => TypeOK'
  <2> SUFFICES ASSUME TypeOK, [Next]_vars PROVE TypeOK'
    OBVIOUS
  <2> USE DEF file, locks, offsets, Goto
  <2>1. ASSUME NEW p \in Process, Access(p) PROVE TypeOK'
    BY <2>1 DEF Access
  <2>2. ASSUME NEW p \in Process, Build(p) PROVE TypeOK'
    BY <2>2 DEF Build
  <2>3. ASSUME NEW p \in Process, OpenRead(p) PROVE TypeOK'
    BY <2>3 DEF OpenRead
  <2>4. ASSUME NEW p \in Process, LockRead(p) PROVE TypeOK'
    BY <2>4 DEF LockRead
  <2>5. ASSUME NEW p \in Process, Stat(p) PROVE TypeOK'
    BY <2>5, SizeType DEF Stat
  <2>6. ASSUME NEW p \in Process, Fread(p) PROVE TypeOK'
    BY <2>6 DEF Fread
  <2>7. ASSUME NEW p \in Process, UnlockRead(p) PROVE TypeOK'
    BY <2>7 DEF UnlockRead
  <2>8. ASSUME NEW p \in Process, OpenWrite(p) PROVE TypeOK'
    BY <2>8 DEF OpenWrite
  <2>9. ASSUME NEW p \in Process, LockWrite(p) PROVE TypeOK'
    BY <2>9 DEF LockWrite
  <2>10. ASSUME NEW p \in Process, Write(p) PROVE TypeOK'
    BY <2>10, FlushType DEF Write
  <2>11. ASSUME NEW p \in Process, WriteFails(p) PROVE TypeOK'
    BY <2>11 DEF WriteFails
  <2>12. ASSUME NEW p \in Process, UnlockWrite(p) PROVE TypeOK'
    BY <2>12 DEF UnlockWrite
  <2>13. ASSUME NEW p \in Process, Close(p) PROVE TypeOK'
    BY <2>13, FlushType DEF Close, Closed
  <2>14. ASSUME NEW p \in Process, CloseFails(p) PROVE TypeOK'
    BY <2>14 DEF CloseFails, Closed
  <2>15. ASSUME NEW p \in Process, Kill(p) PROVE TypeOK'
    BY <2>15 DEF Kill, Closed
  <2>16. CASE UNCHANGED vars
    BY <2>16 DEF vars
  <2> QED BY <2>1, <2>2, <2>3, <2>4, <2>5, <2>6, <2>7, <2>8, <2>9, <2>10, <2>11, <2>12,
             <2>13, <2>14, <2>15, <2>16 DEF Next, Step
<1> QED BY <1>1, <1>2, PTL DEF Spec

-----------------------------------------------------------------------------
\* What a FILE object has been given and has flushed.
LEMMA OffsetsInvariant == Spec => []Offsets
<1> USE BlocksAssumption
<1>1. Init => Offsets
  BY DEF Init, Offsets
<1>2. TypeOK /\ Offsets /\ [Next]_vars => Offsets'
  <2> SUFFICES ASSUME TypeOK, Offsets, [Next]_vars, NEW q \in Process
               PROVE  /\ flushed'[q] <= printed'[q]
                      /\ pc'[q] \notin {"write", "unlock_write", "close_write"} => printed'[q] = 0
                      /\ pc'[q] = "write" => printed'[q] < Blocks
    BY DEF Offsets
  <2> DEFINE Goal == /\ flushed'[q] <= printed'[q]
                     /\ pc'[q] \notin {"write", "unlock_write", "close_write"} => printed'[q] = 0
                     /\ pc'[q] = "write" => printed'[q] < Blocks
  <2>0. /\ flushed[q] \in 0 .. Blocks /\ printed[q] \in 0 .. Blocks
        /\ flushed[q] <= printed[q]
        /\ pc[q] \notin {"write", "unlock_write", "close_write"} => printed[q] = 0
        /\ pc[q] = "write" => printed[q] < Blocks
    BY DEF TypeOK, Offsets
  <2> USE DEF offsets, Goto
  <2>1. ASSUME NEW p \in Process,
               \/ Access(p) \/ Build(p) \/ OpenRead(p) \/ LockRead(p) \/ Stat(p) \/ Fread(p)
               \/ UnlockRead(p) \/ OpenWrite(p)
        PROVE  Goal
    BY <2>0, <2>1 DEF Access, Build, OpenRead, LockRead, Stat, Fread, UnlockRead, OpenWrite, TypeOK
  <2>2. ASSUME NEW p \in Process, LockWrite(p) PROVE Goal
    BY <2>0, <2>2 DEF LockWrite, TypeOK
  <2>3. ASSUME NEW p \in Process, Write(p) PROVE Goal
    <3>1. PICK n \in flushed[p] .. printed[p] + 1 : flushed' = [flushed EXCEPT ![p] = n]
      BY <2>3 DEF Write
    <3>2. CASE q = p
      BY <2>0, <2>3, <3>1, <3>2 DEF Write, TypeOK
    <3>3. CASE q # p
      BY <2>0, <2>3, <3>1, <3>3 DEF Write, TypeOK
    <3> QED BY <3>2, <3>3
  <2>4. ASSUME NEW p \in Process, WriteFails(p) \/ UnlockWrite(p) PROVE Goal
    BY <2>0, <2>4 DEF WriteFails, UnlockWrite, TypeOK
  <2>5. ASSUME NEW p \in Process, Close(p) \/ CloseFails(p) \/ Kill(p) PROVE Goal
    BY <2>0, <2>5 DEF Close, CloseFails, Kill, Closed, TypeOK
  <2>6. CASE UNCHANGED vars
    BY <2>0, <2>6 DEF vars
  <2> QED BY <2>1, <2>2, <2>3, <2>4, <2>5, <2>6 DEF Next, Step
<1> QED BY <1>1, <1>2, TypeCorrect, PTL DEF Spec

\* A flush of the blocks after the file offset of p leaves every block that is
\* still pending with its process.
LEMMA FlushPending ==
    ASSUME TypeOK, Pending, mishaps = 0, created, NEW p \in Process, pc[p] \in WriteSteps,
           NEW n \in Nat, flushed[p] <= n, Flush(flushed[p] + 1, n), NEW i \in Pos
    PROVE  \/ disk'[i] = "block"
           \/ n < i
           \/ \E q \in Process \ {p} : pc[q] \in WriteSteps /\ flushed[q] < i
<1>1. flushed[p] \in Nat /\ i \in Nat
  BY BlocksAssumption DEF TypeOK, Pos
<1>2. CASE disk[i] = "block"
  BY <1>2, <1>1 DEF Flush
<1>3. CASE disk[i] # "block"
  <2>1. PICK q \in Process : pc[q] \in WriteSteps /\ flushed[q] < i
    BY <1>3 DEF Pending
  <2>2. CASE q = p /\ i <= n
    BY <1>1, <2>1, <2>2 DEF Flush
  <2> QED BY <1>1, <2>1, <2>2
<1> QED BY <1>2, <1>3

\* With no process killed and no write failed, every block that is not in the
\* file is still to be brought there.
LEMMA PendingInvariant == Spec => []Pending
<1> USE BlocksAssumption, MaxMishapsAssumption
<1>1. Init => Pending
  BY DEF Init, Pending
<1>2. TypeOK /\ Offsets /\ Pending /\ [Next]_vars => Pending'
  <2> SUFFICES ASSUME TypeOK, Offsets, Pending, [Next]_vars PROVE Pending'
    OBVIOUS
  <2> USE DEF file, locks, offsets, Goto
  <2>1. ASSUME NEW p \in Process,
               Access(p) \/ Build(p) \/ OpenRead(p) \/ LockRead(p) \/ Stat(p) \/ Fread(p)
                 \/ UnlockRead(p)
        PROVE  Pending'
    <3>1. /\ UNCHANGED <<created, disk, printed, flushed, mishaps>>
          /\ pc[p] \notin WriteSteps
          /\ pc'[p] \notin {"unlock_write", "close_write"}
          /\ \A q \in Process \ {p} : pc'[q] = pc[q]
      BY <2>1 DEF Access, Build, OpenRead, LockRead, Stat, Fread, UnlockRead, TypeOK, WriteSteps
    <3> QED BY <3>1 DEF Pending
  <2>2. ASSUME NEW p \in Process, OpenWrite(p) PROVE Pending'
    <3>1. /\ pc'[p] = "lock_write" /\ flushed'[p] = 0
          /\ \A q \in Process \ {p} : pc'[q] = pc[q]
          /\ UNCHANGED <<printed, mishaps>>
      BY <2>2 DEF OpenWrite, TypeOK, Offsets
    <3>2. \A i \in Pos : pc'[p] \in WriteSteps /\ flushed'[p] < i
      BY <3>1 DEF WriteSteps, Pos
    <3> QED BY <3>1, <3>2 DEF Pending
  <2>3. ASSUME NEW p \in Process, LockWrite(p) PROVE Pending'
    <3>1. /\ UNCHANGED <<created, disk, printed, flushed, mishaps>>
          /\ pc'[p] = "write" /\ \A q \in Process \ {p} : pc'[q] = pc[q]
      BY <2>3 DEF LockWrite, TypeOK
    <3> QED BY <3>1 DEF Pending, WriteSteps
  <2>4. ASSUME NEW p \in Process, UnlockWrite(p) PROVE Pending'
    <3>1. /\ UNCHANGED <<created, disk, printed, flushed, mishaps>>
          /\ pc[p] = "unlock_write" /\ pc'[p] = "close_write"
          /\ \A q \in Process \ {p} : pc'[q] = pc[q]
      BY <2>4 DEF UnlockWrite, TypeOK
    <3> QED BY <3>1 DEF Pending, WriteSteps
  <2>5. ASSUME NEW p \in Process, Write(p) PROVE Pending'
    <3>0. SUFFICES ASSUME mishaps = 0 PROVE Pending'
      BY <2>5 DEF Write, Pending
    <3>1. PICK n \in flushed[p] .. printed[p] + 1 :
             Flush(flushed[p] + 1, n) /\ flushed' = [flushed EXCEPT ![p] = n]
      BY <2>5 DEF Write
    <3>2. /\ pc[p] \in WriteSteps /\ pc'[p] \in {"write", "unlock_write"}
          /\ pc'[p] = "unlock_write" => printed'[p] = Blocks
          /\ \A q \in Process \ {p} : pc'[q] = pc[q] /\ printed'[q] = printed[q]
          /\ UNCHANGED <<created, mishaps>>
      BY <2>5 DEF Write, TypeOK, WriteSteps
    <3>3. /\ flushed'[p] = n /\ n \in Nat /\ flushed[p] <= n
          /\ \A q \in Process \ {p} : flushed'[q] = flushed[q]
      BY <3>1 DEF TypeOK
    <3>4. ASSUME created, NEW i \in Pos
          PROVE  disk'[i] = "block" \/ \E q \in Process : pc'[q] \in WriteSteps /\ flushed'[q] < i
      BY <3>0, <3>1, <3>2, <3>3, <3>4, FlushPending DEF WriteSteps
    <3> QED BY <3>0, <3>2, <3>4 DEF Pending
  <2>6. ASSUME NEW p \in Process, Close(p) PROVE Pending'
    <3>0. SUFFICES ASSUME mishaps = 0 PROVE Pending'
      BY <2>6 DEF Close, Pending
    <3>1. /\ pc[p] = "close_write" /\ Flush(flushed[p] + 1, printed[p])
          /\ printed[p] = Blocks /\ flushed[p] <= Blocks
      BY <2>6, <3>0 DEF Close, Pending, Offsets
    <3>2. /\ pc'[p] = "access"
          /\ \A q \in Process \ {p} : /\ pc'[q] = pc[q] /\ printed'[q] = printed[q]
                                      /\ flushed'[q] = flushed[q]
          /\ UNCHANGED <<created, mishaps>>
      BY <2>6 DEF Close, Closed, TypeOK
    <3>3. ASSUME created, NEW i \in Pos
          PROVE  disk'[i] = "block" \/ \E q \in Process : pc'[q] \in WriteSteps /\ flushed'[q] < i
      <4>1. ~(Blocks < i)
        BY DEF Pos
      <4> QED BY <3>0, <3>1, <3>2, <3>3, <4>1, FlushPending DEF WriteSteps
    <3> QED BY <3>0, <3>2, <3>3 DEF Pending
  <2>7. ASSUME NEW p \in Process, WriteFails(p) \/ CloseFails(p) \/ Kill(p) PROVE Pending'
    <3>1. mishaps' # 0
      BY <2>7 DEF WriteFails, CloseFails, Kill, TypeOK
    <3> QED BY <3>1 DEF Pending
  <2>8. CASE UNCHANGED vars
    BY <2>8 DEF vars, Pending
  <2> QED BY <2>1, <2>2, <2>3, <2>4, <2>5, <2>6, <2>7, <2>8 DEF Next, Step
<1> QED BY <1>1, <1>2, TypeCorrect, OffsetsInvariant, PTL DEF Spec

\* Once every writer has closed the file, with no process killed and no write
\* failed, it holds the whole DAS, however the truncations, locks and flushes
\* of the writers were interleaved.
THEOREM Quiescent == Spec => []QuiescentComplete
<1>1. Pending => QuiescentComplete
  BY DEF Pending, QuiescentComplete, Complete
<1> QED BY <1>1, PendingInvariant, PTL

-----------------------------------------------------------------------------
(***************************************************************************)
(* The refinement of CacheFile.                                            *)
(***************************************************************************)

\* fopen creates the file before a process is anywhere in its writing.
LEMMA WriterCreatedInvariant == Spec => []WriterCreated
<1>1. Init => WriterCreated
  BY DEF Init, WriterCreated, WriteSteps
<1>2. TypeOK /\ WriterCreated /\ [Next]_vars => WriterCreated'
  <2> SUFFICES ASSUME TypeOK, WriterCreated, [Next]_vars, NEW q \in Process, pc'[q] \in WriteSteps
               PROVE  created'
    BY DEF WriterCreated
  <2> USE DEF WriterCreated, WriteSteps, TypeOK, Goto, file, locks, offsets
  <2>1. ASSUME NEW p \in Process,
               \/ Access(p) \/ Build(p) \/ OpenRead(p) \/ LockRead(p) \/ Stat(p) \/ Fread(p)
               \/ UnlockRead(p) \/ Kill(p)
        PROVE  created'
    BY <2>1 DEF Access, Build, OpenRead, LockRead, Stat, Fread, UnlockRead, Kill, Closed
  <2>2. ASSUME NEW p \in Process, OpenWrite(p) PROVE created'
    BY <2>2 DEF OpenWrite
  <2>3. ASSUME NEW p \in Process,
               LockWrite(p) \/ Write(p) \/ WriteFails(p) \/ UnlockWrite(p) \/ Close(p) \/ CloseFails(p)
        PROVE  created'
    BY <2>3 DEF LockWrite, Write, WriteFails, UnlockWrite, Close, CloseFails, Closed
  <2>4. CASE UNCHANGED vars
    BY <2>4 DEF vars
  <2> QED BY <2>1, <2>2, <2>3, <2>4 DEF Next, Step
<1> QED BY <1>1, <1>2, TypeCorrect, PTL DEF Spec

\* A step of one process changes only its phase.
LEMMA PhaseStep ==
    ASSUME TypeOK, NEW p \in Process, NEW step, Goto(p, step)
    PROVE  Phase' = [Phase EXCEPT ![p] = PhaseOf(step)] /\ Phase[p] = PhaseOf(pc[p])
  BY DEF TypeOK, Goto, Phase

\* A process that comes or goes elsewhere than fread has seen nothing.
LEMMA SeenStep ==
    ASSUME TypeOK, NEW p \in Process, NEW step, Goto(p, step), pc[p] # "fread", step # "fread",
           \A q \in Process \ {p} : size'[q] = size[q]
    PROVE  Seen' = Seen
  BY DEF TypeOK, Goto, Seen

\* A file that exists is partial or whole.
LEMMA ContentWritten == created' => Content' \in {"partial", "whole"}
  BY DEF Content

\* The calls that writers, readers and the kernel make are steps of the cache
\* file as CacheFile promises it, or change nothing there.
THEOREM Implementation == Spec => Implements
<1> USE BlocksAssumption, MaxMishapsAssumption
<1>1. Init => Promise!Init
  <2> SUFFICES ASSUME Init PROVE Promise!Init
    OBVIOUS
  <2>1. Content = "absent"
    BY DEF Init, Content
  <2>2. Phase = [p \in Process |-> "idle"]
    <3>1. PhaseOf("access") = "idle"
      BY DEF PhaseOf, WriteSteps
    <3>2. pc = [p \in Process |-> "access"]
      BY DEF Init
    <3>3. \A p \in Process : pc[p] = "access"
      BY <3>2
    <3> QED BY <3>1, <3>3 DEF Phase
  <2>3. Seen = [p \in Process |-> "none"]
    BY DEF Init, Seen
  <2>4. (mishaps # 0) = FALSE
    BY DEF Init
  <2>5. result = [p \in Process |-> "none"]
    BY DEF Init
  <2> QED BY <2>1, <2>2, <2>3, <2>4, <2>5 DEF Promise!Init
<1>2. TypeOK /\ WriterCreated /\ Pending' /\ [Next]_vars => [Promise!Next]_(Promise!vars)
  <2> SUFFICES ASSUME TypeOK, WriterCreated, Pending', [Next]_vars
               PROVE  Promise!Next \/ UNCHANGED <<Content, Phase, Seen, result, mishaps # 0>>
    BY DEF Promise!vars
  <2> USE DEF Promise!Becomes
  <2>1. ASSUME NEW p \in Process, Access(p) PROVE Promise!Start(p)
    <3>1. Goto(p, IF created THEN "open_read" ELSE "build") /\ pc[p] = "access"
      BY <2>1 DEF Access
    <3>2. Phase' = [Phase EXCEPT ![p] = IF created THEN "reading" ELSE "building"] /\ Phase[p] = "idle"
      BY <3>1, PhaseStep DEF PhaseOf, WriteSteps
    <3>3. Seen' = Seen
      BY <2>1, <3>1, SeenStep DEF Access, offsets
    <3> QED BY <2>1, <3>2, <3>3 DEF Access, Promise!Start, Content, Complete, file
  <2>2. ASSUME NEW p \in Process, Build(p) PROVE Promise!Build(p)
    <3>1. Goto(p, "open_write") /\ pc[p] = "build"
      BY <2>2 DEF Build
    <3>2. Phase' = [Phase EXCEPT ![p] = "built"] /\ Phase[p] = "building" /\ Seen' = Seen
      BY <2>2, <3>1, PhaseStep, SeenStep DEF PhaseOf, WriteSteps, Build, offsets
    <3> QED BY <2>2, <3>2 DEF Build, Promise!Build, Content, Complete, file
  <2>3. ASSUME NEW p \in Process, OpenRead(p) \/ LockRead(p)
        PROVE  UNCHANGED <<Content, Phase, Seen, result, mishaps # 0>>
    <3>1. PICK step \in {"lock_read", "stat"} : Goto(p, step) /\ pc[p] \in {"open_read", "lock_read"}
      BY <2>3 DEF OpenRead, LockRead
    <3>2. Phase' = [Phase EXCEPT ![p] = Phase[p]] /\ Seen' = Seen
      BY <2>3, <3>1, PhaseStep, SeenStep DEF PhaseOf, WriteSteps, OpenRead, LockRead, offsets
    <3>3. Phase' = Phase
      BY <3>2 DEF Phase
    <3> QED BY <2>3, <3>2, <3>3 DEF OpenRead, LockRead, Content, Complete, file
  <2>4. ASSUME NEW p \in Process, Stat(p) PROVE Promise!Look(p)
    <3>1. Goto(p, "fread") /\ pc[p] = "stat"
      BY <2>4 DEF Stat
    <3>2. Phase' = [Phase EXCEPT ![p] = "looked"] /\ Phase[p] = "reading"
      BY <3>1, PhaseStep DEF PhaseOf, WriteSteps
    <3>3. Seen' = [Seen EXCEPT ![p] = IF Size = Blocks THEN "all" ELSE "less"]
      BY <2>4 DEF Stat, Seen, Goto, TypeOK
    <3>4. Content = "whole" => Size = Blocks
      <4>1. Complete => {i \in Pos : disk[i] # "eof"} = 1 .. Blocks
        BY DEF Complete, Pos
      <4>2. Cardinality(1 .. Blocks) = Blocks
        BY FS_Interval
      <4>3. Content = "whole" => Complete
        BY DEF Content
      <4> QED BY <4>1, <4>2, <4>3 DEF Size
    <3> QED BY <2>4, <3>2, <3>3, <3>4 DEF Stat, Promise!Look, Content, Complete, file
  <2>5. ASSUME NEW p \in Process, Fread(p) PROVE Promise!Take(p)
    <3>1. Goto(p, "unlock_read") /\ pc[p] = "fread"
      BY <2>5 DEF Fread
    <3>2. Phase' = [Phase EXCEPT ![p] = "answered"] /\ Phase[p] = "looked"
      BY <3>1, PhaseStep DEF PhaseOf, WriteSteps
    <3>3. Seen' = [Seen EXCEPT ![p] = "none"] /\ (Seen[p] = "all" <=> size[p] = Blocks)
      BY <2>5 DEF Fread, Seen, Goto, TypeOK
    <3>4. Complete <=> Content = "whole"
      BY DEF Content, Complete
    <3>5. PICK r \in {"whole", "garbled", "failed"} :
            /\ r = "whole" <=> size[p] = Blocks /\ Complete
            /\ result' = [result EXCEPT ![p] = r]
      BY <2>5 DEF Fread
    <3>6. UNCHANGED <<Content, mishaps # 0>>
      BY <2>5 DEF Fread, Content, Complete, file
    <3> QED BY <3>2, <3>3, <3>4, <3>5, <3>6 DEF Promise!Take
  <2>6. ASSUME NEW p \in Process, UnlockRead(p) PROVE Promise!Finish(p)
    <3>1. Goto(p, "access") /\ pc[p] = "unlock_read"
      BY <2>6 DEF UnlockRead
    <3>2. Phase' = [Phase EXCEPT ![p] = "idle"] /\ Phase[p] = "answered" /\ Seen' = Seen
      BY <2>6, <3>1, PhaseStep, SeenStep DEF PhaseOf, WriteSteps, UnlockRead, offsets
    <3> QED BY <2>6, <3>2 DEF UnlockRead, Promise!Finish, Content, Complete, file
  <2>7. ASSUME NEW p \in Process, OpenWrite(p) PROVE Promise!Open(p)
    <3>1. Goto(p, "lock_write") /\ pc[p] = "open_write"
      BY <2>7 DEF OpenWrite
    <3>2. Phase' = [Phase EXCEPT ![p] = "writing"] /\ Phase[p] = "built" /\ Seen' = Seen
      BY <2>7, <3>1, PhaseStep, SeenStep DEF PhaseOf, WriteSteps, OpenWrite, offsets
    <3>3. created' /\ ~Complete'
      BY <2>7 DEF OpenWrite, Complete, Pos
    <3> QED BY <2>7, <3>2, <3>3 DEF OpenWrite, Promise!Open, Content
  <2>8. ASSUME NEW p \in Process, LockWrite(p) \/ UnlockWrite(p)
        PROVE  UNCHANGED <<Content, Phase, Seen, result, mishaps # 0>>
    <3>1. PICK step \in {"write", "close_write"} : Goto(p, step) /\ pc[p] \in {"lock_write", "unlock_write"}
      BY <2>8 DEF LockWrite, UnlockWrite
    <3>2. Phase' = [Phase EXCEPT ![p] = Phase[p]] /\ Seen' = Seen
      BY <2>8, <3>1, PhaseStep, SeenStep DEF PhaseOf, WriteSteps, LockWrite, UnlockWrite, offsets
    <3>3. Phase' = Phase
      BY <3>2 DEF Phase
    <3> QED BY <2>8, <3>2, <3>3 DEF LockWrite, UnlockWrite, Content, Complete, file
  <2>9. ASSUME NEW p \in Process, Write(p) PROVE Promise!Change(p)
    <3>1. PICK step \in {"write", "unlock_write"} : Goto(p, step) /\ pc[p] = "write"
      BY <2>9 DEF Write
    <3>2. Phase' = [Phase EXCEPT ![p] = Phase[p]] /\ Phase[p] = "writing" /\ Seen' = Seen
      BY <2>9, <3>1, PhaseStep, SeenStep DEF PhaseOf, WriteSteps, Write
    <3>3. Phase' = Phase
      BY <3>2 DEF Phase
    <3>4. created'
      BY <2>9 DEF Write, WriterCreated, WriteSteps
    <3> QED BY <2>9, <3>2, <3>3, <3>4, ContentWritten DEF Write, Promise!Change
  <2>10. ASSUME NEW p \in Process, WriteFails(p) PROVE Promise!WriteFails(p)
    <3>1. Goto(p, "unlock_write") /\ pc[p] = "write"
      BY <2>10 DEF WriteFails
    <3>2. Phase' = [Phase EXCEPT ![p] = Phase[p]] /\ Phase[p] = "writing" /\ Seen' = Seen
      BY <2>10, <3>1, PhaseStep, SeenStep DEF PhaseOf, WriteSteps, WriteFails, offsets
    <3>3. Phase' = Phase
      BY <3>2 DEF Phase
    <3>4. (mishaps # 0)' = TRUE
      BY <2>10 DEF WriteFails, TypeOK
    <3>5. result' \in {result, [result EXCEPT ![p] = "failed"]}
      BY <2>10 DEF WriteFails, TypeOK
    <3>6. UNCHANGED Content
      BY <2>10 DEF WriteFails, Content, Complete, file
    <3> QED BY <3>2, <3>3, <3>4, <3>5, <3>6 DEF Promise!WriteFails
  <2>11. ASSUME NEW p \in Process, Close(p) PROVE Promise!Close(p)
    <3>1. Goto(p, "access") /\ pc[p] = "close_write" /\ UNCHANGED <<created, size, result, mishaps>>
      BY <2>11 DEF Close
    <3>2. Phase' = [Phase EXCEPT ![p] = "idle"] /\ Phase[p] = "writing" /\ Seen' = Seen
      BY <3>1, PhaseStep, SeenStep DEF PhaseOf, WriteSteps
    <3>3. created'
      BY <3>1 DEF WriterCreated, WriteSteps
    <3>4. ASSUME \A q \in Process \ {p} : Phase[q] # "writing", ~(mishaps # 0)
          PROVE  Content' = "whole"
      <4>1. \A q \in Process \ {p} : pc[q] \notin WriteSteps /\ pc'[q] = pc[q]
        BY <3>1, <3>4 DEF Phase, PhaseOf, WriteSteps, TypeOK, Goto
      <4>2. pc'[p] \notin WriteSteps
        BY <3>1 DEF Goto, TypeOK, WriteSteps
      <4>3. Complete'
        BY <3>1, <3>3, <3>4, <4>1, <4>2 DEF Pending, Complete
      <4> QED BY <3>3, <4>3 DEF Content
    <3> QED BY <3>1, <3>2, <3>3, <3>4, ContentWritten DEF Promise!Close
  <2>12. ASSUME NEW p \in Process, CloseFails(p) PROVE Promise!WriteFails(p)
    <3>1. Goto(p, "access") /\ pc[p] = "close_write" /\ UNCHANGED <<size, result>>
      BY <2>12 DEF CloseFails
    <3>2. Phase' = [Phase EXCEPT ![p] = "idle"] /\ Phase[p] = "writing" /\ Seen' = Seen
      BY <3>1, PhaseStep, SeenStep DEF PhaseOf, WriteSteps
    <3>3. (mishaps # 0)' = TRUE /\ UNCHANGED Content
      BY <2>12 DEF CloseFails, TypeOK, Content, Complete, file
    <3> QED BY <3>1, <3>2, <3>3 DEF Promise!WriteFails
  <2>13. ASSUME NEW p \in Process, Kill(p) PROVE Promise!Kill(p)
    <3>1. Goto(p, "access")
      BY <2>13 DEF Kill, Goto
    <3>2. Phase' = [Phase EXCEPT ![p] = "idle"]
      BY <3>1, PhaseStep DEF PhaseOf, WriteSteps
    <3>3. Seen' = [Seen EXCEPT ![p] = "none"]
      BY <2>13 DEF Kill, Seen, TypeOK
    <3>4. (mishaps # 0)' = TRUE /\ UNCHANGED Content
      BY <2>13 DEF Kill, TypeOK, Content, Complete, file
    <3> QED BY <2>13, <3>2, <3>3, <3>4 DEF Kill, Promise!Kill
  <2>14. CASE UNCHANGED vars
    BY <2>14 DEF vars, file, locks, offsets, Content, Complete, Phase, Seen
  <2> QED BY <2>1, <2>2, <2>3, <2>4, <2>5, <2>6, <2>7, <2>8, <2>9, <2>10, <2>11, <2>12,
             <2>13, <2>14 DEF Next, Step, Promise!Next
<1> QED BY <1>1, <1>2, TypeCorrect, WriterCreatedInvariant, PendingInvariant, PTL
           DEF Spec, Implements, Promise!Spec
=============================================================================
