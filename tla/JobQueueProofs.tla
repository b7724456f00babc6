--------------------------- MODULE JobQueueProofs ---------------------------
(* Theorems about JobQueue, for every number of runs, repos and slots.     *)
EXTENDS JobQueue, FiniteSetTheorems, TLAPS

-----------------------------------------------------------------------------
(* Types                                                                   *)

LEMMA InitTypeOK == Init => TypeOK
BY JobQueueAssumption
   DEF Init, TypeOK, Server, Alive, Status, ActiveStatus, TerminalStatus,
       Position, Ended

\* Moving one goroutine to a position past "new" keeps pc well-typed.
LEMMA GotoTyped ==
  ASSUME TypeOK, NEW r \in Runs, NEW there \in Position, Goto(r, there)
  PROVE  /\ pc' \in [Runs -> Position]
         /\ pc'[r] = there
         /\ \A o \in Runs : o # r => pc'[o] = pc[o]
BY DEF TypeOK, Goto

LEMMA PositionNames ==
  /\ {"admitted", "reserved", "abortPending", "abortSlot", "abortDir",
      "spawned", "lockWait", "slotWait", "marking", "opening", "exec",
      "finishOk", "finishFail", "failLock", "failSlot", "failRun", "relSlot",
      "panicSlot", "relLock", "panicLock", "recover", "relPending",
      "new", "refused", "done", "gone"} \subseteq Position
  /\ {"absent", "stillborn", "queued", "running", "succeeded", "failed",
      "interrupted", "removed"} \subseteq Status
  /\ {"up", "closing", "draining", "stopped", "down", "booting"} = Server
BY DEF Position, Submitting, Working, InMutex, InWindow, Ended,
       Status, ActiveStatus, TerminalStatus, Server, Alive

LEMMA SubmitTypeOK ==
  ASSUME TypeOK, NEW r \in Runs, Submit(r)
  PROVE  TypeOK'
<1> USE JobQueueAssumption, PositionNames, GotoTyped
        DEF TypeOK, WriteFails, Unreserve
<1>1. ASSUME NEW g \in Repos, AcquireAdmission(r, g) PROVE TypeOK'
  BY <1>1 DEF AcquireAdmission
<1>2. CASE ReservePending(r)
  BY <1>2 DEF ReservePending
<1>3. CASE RefusePending(r)
  BY <1>3 DEF RefusePending
<1>4. CASE CreateRun(r)
  BY <1>4 DEF CreateRun
<1>5. CASE CreateFails(r)
  BY <1>5 DEF CreateFails
<1>6. CASE AbortPending(r)
  BY <1>6 DEF AbortPending
<1>7. CASE AbortSlot(r)
  BY <1>7 DEF AbortSlot
<1>8. CASE AbortDir(r)
  BY <1>8 DEF AbortDir
<1> QED
  BY Submit(r), <1>1, <1>2, <1>3, <1>4, <1>5, <1>6, <1>7, <1>8 DEF Submit

LEMMA WorkTypeOK ==
  ASSUME TypeOK, NEW r \in Runs,
         Wait(r) \/ Execute(r) \/ Panic(r) \/ Unwind(r) \/ Helper(r)
  PROVE  TypeOK'
<1> USE JobQueueAssumption, PositionNames, GotoTyped
        DEF TypeOK, WriteFails, Record, Unreserve
<1>1. CASE Wait(r)
  <2>1. CASE HandBackSlot(r)
    BY <2>1 DEF HandBackSlot
  <2>2. CASE AcquireWin(r)
    BY <2>2 DEF AcquireWin
  <2>3. CASE AcquireTimeout(r)
    BY <2>3 DEF AcquireTimeout
  <2>4. CASE TakeSlot(r)
    BY <2>4 DEF TakeSlot
  <2>5. CASE SlotTimeout(r)
    BY <2>5 DEF SlotTimeout
  <2> QED
    BY <1>1, <2>1, <2>2, <2>3, <2>4, <2>5 DEF Wait
<1>2. CASE Execute(r)
  <2>1. CASE MarkRunning(r)
    BY <2>1 DEF MarkRunning
  <2>2. CASE OpenOutput(r)
    BY <2>2 DEF OpenOutput
  <2>3. CASE TofuExit(r)
    BY <2>3 DEF TofuExit
  <2>4. CASE Finish(r)
    BY <2>4 DEF Finish
  <2>5. CASE Fail(r)
    BY <2>5 DEF Fail
  <2> QED
    BY <1>2, <2>1, <2>2, <2>3, <2>4, <2>5 DEF Execute
<1>3. CASE Panic(r)
  BY <1>3 DEF Panic
<1>4. CASE Unwind(r)
  <2>1. CASE ReleaseSlot(r)
    BY <2>1 DEF ReleaseSlot
  <2>2. CASE Unlock(r)
    BY <2>2 DEF Unlock
  <2>3. CASE Recover(r)
    BY <2>3 DEF Recover
  <2>4. CASE ReleasePending(r)
    BY <2>4 DEF ReleasePending
  <2> QED
    BY <1>4, <2>1, <2>2, <2>3, <2>4 DEF Unwind
<1>5. CASE Helper(r)
  BY <1>5 DEF Helper, HelperLock, HandOff
<1> QED
  BY <1>1, <1>2, <1>3, <1>4, <1>5

LEMMA ContainerTypeOK ==
  ASSUME TypeOK, Container
  PROVE  TypeOK'
<1> USE JobQueueAssumption, PositionNames
        DEF TypeOK, WriteFails, Record, inMemory, Forget
<1>1. CASE Sigterm
  BY <1>1 DEF Sigterm
<1>2. CASE HttpDrained
  BY <1>2 DEF HttpDrained
<1>3. CASE Drained
  BY <1>3 DEF Drained
<1>4. CASE Lose
  BY <1>4 DEF Lose, Alive
<1>5. CASE Boot \/ Listen
  BY <1>5 DEF Boot, Listen
<1>6. ASSUME NEW r \in Runs, SweepInterrupted(r) PROVE TypeOK'
  BY <1>6 DEF SweepInterrupted
<1>7. ASSUME NEW r \in Runs, Rotate(r) PROVE TypeOK'
  BY <1>7 DEF Rotate
<1> QED
  BY Container, <1>1, <1>2, <1>3, <1>4, <1>5, <1>6, <1>7 DEF Container

\* Every variable keeps its type, in every instance: the semaphore stays
\* within the channel's capacity and no counter goes below zero.
THEOREM TypeCorrect == Spec => []TypeOK
<1>1. TypeOK /\ [Next]_vars => TypeOK'
  <2> SUFFICES ASSUME TypeOK, [Next]_vars PROVE TypeOK'
    OBVIOUS
  <2>1. CASE UNCHANGED vars
    BY <2>1 DEF TypeOK, vars
  <2> QED
    BY <2>1, SubmitTypeOK, WorkTypeOK, ContainerTypeOK DEF Next
<1> QED
  BY <1>1, InitTypeOK, PTL DEF Spec

-----------------------------------------------------------------------------
(* The repo mutexes                                                        *)

\* What RepoExclusive needs to be inductive: who is inside the critical
\* section, or has a lock signalled to it, is the recorded owner; and a
\* locking goroutine outlives only a job that no longer enters the section.
LockDiscipline ==
  \A r \in Runs :
    /\ pc[r] \in InMutex => owner[repoOf[r]] = r /\ helper[r] = "idle"
    /\ helper[r] = "signalled" => owner[repoOf[r]] = r
    /\ helper[r] # "idle" => pc[r] \in {"lockWait", "failLock", "recover",
                                        "relPending", "done"}

MutexInv == TypeOK /\ LockDiscipline /\ MutexHasReleaser

LEMMA InitMutex == Init => MutexInv
BY InitTypeOK DEF Init, MutexInv, LockDiscipline, MutexHasReleaser, InMutex,
                  InWindow

\* A move that neither enters nor leaves the critical section.
LEMMA QuietMove ==
  ASSUME MutexInv, TypeOK', NEW r \in Runs, NEW there \in Position,
         Goto(r, there), UNCHANGED <<helper, owner, repoOf>>,
         pc[r] \in InMutex <=> there \in InMutex,
         \/ helper[r] = "idle"
         \/ there \in {"lockWait", "failLock", "recover", "relPending", "done"}
  PROVE  MutexInv'
<1>1. /\ pc'[r] = there
      /\ \A o \in Runs : o # r => pc'[o] = pc[o]
  BY GotoTyped DEF MutexInv
<1>2. LockDiscipline'
  BY <1>1 DEF MutexInv, LockDiscipline
<1>3. MutexHasReleaser'
  BY <1>1 DEF MutexInv, MutexHasReleaser, TypeOK
<1> QED
  BY <1>2, <1>3 DEF MutexInv

\* Which named positions are inside the critical section.
LEMMA Sections ==
  /\ {"slotWait", "failSlot", "marking", "opening", "exec", "finishOk",
      "finishFail", "failRun", "relSlot", "panicSlot", "relLock",
      "panicLock"} = InMutex
  /\ {"marking", "opening", "exec", "finishOk", "finishFail", "failRun",
      "relSlot", "panicSlot"} = InWindow
BY DEF InMutex, InWindow

LEMMA SubmitMutex ==
  ASSUME MutexInv, NEW r \in Runs, Submit(r)
  PROVE  MutexInv'
<1>1. TypeOK'
  BY SubmitTypeOK DEF MutexInv
<1>2. helper[r] = "idle" \/ pc[r] \in {"lockWait", "failLock", "recover", "relPending", "done"}
  BY DEF MutexInv, LockDiscipline, TypeOK
<1>3. ASSUME NEW g \in Repos, AcquireAdmission(r, g) PROVE MutexInv'
  <2>1. /\ pc[r] = "new" /\ pc'[r] = "admitted" /\ helper[r] = "idle"
        /\ UNCHANGED <<helper, owner>>
        /\ \A o \in Runs : o # r => pc'[o] = pc[o] /\ repoOf'[o] = repoOf[o]
    BY <1>2, <1>3 DEF AcquireAdmission, Goto, MutexInv, TypeOK
  <2>2. \A h \in Repos : owner[h] # r
    BY <2>1, Sections, JobQueueAssumption DEF MutexInv, MutexHasReleaser
  <2>3. LockDiscipline'
    BY <2>1, Sections DEF MutexInv, LockDiscipline
  <2>4. MutexHasReleaser'
    BY <2>1, <2>2 DEF MutexInv, MutexHasReleaser, TypeOK
  <2> QED
    BY <1>1, <2>3, <2>4 DEF MutexInv
<1> USE <1>1, <1>2, QuietMove, Sections, PositionNames
<1>4. CASE ReservePending(r)
  BY <1>4 DEF ReservePending
<1>5. CASE RefusePending(r)
  BY <1>5 DEF RefusePending
<1>6. CASE CreateRun(r) \/ CreateFails(r)
  BY <1>6 DEF CreateRun, CreateFails
<1>7. CASE AbortPending(r)
  BY <1>7 DEF AbortPending
<1>8. CASE AbortSlot(r)
  BY <1>8 DEF AbortSlot
<1>9. CASE AbortDir(r)
  BY <1>9 DEF AbortDir
<1> QED
  BY Submit(r), <1>3, <1>4, <1>5, <1>6, <1>7, <1>8, <1>9 DEF Submit

LEMMA WorkMutex ==
  ASSUME MutexInv, NEW r \in Runs,
         Wait(r) \/ Execute(r) \/ Panic(r) \/ Unwind(r) \/ Helper(r)
  PROVE  MutexInv'
<1>1. TypeOK'
  BY WorkTypeOK DEF MutexInv
<1>2. /\ pc[r] \in InMutex => owner[repoOf[r]] = r /\ helper[r] = "idle"
      /\ helper[r] = "signalled" => owner[repoOf[r]] = r
      /\ helper[r] # "idle" => pc[r] \in {"lockWait", "failLock",
                                          "recover", "relPending", "done"}
  BY DEF MutexInv, LockDiscipline
<1>3. CASE Wait(r)
  <2>1. CASE HandBackSlot(r)
    <3>1. /\ pc[r] = "spawned" /\ pc'[r] = "lockWait"
          /\ helper[r] = "idle" /\ helper'[r] = "locking"
          /\ UNCHANGED <<owner, repoOf>>
          /\ \A o \in Runs : o # r => pc'[o] = pc[o] /\ helper'[o] = helper[o]
      BY <2>1, <1>2 DEF HandBackSlot, Goto, MutexInv, TypeOK
    <3>2. LockDiscipline'
      BY <3>1, Sections DEF MutexInv, LockDiscipline
    <3>3. \A h \in Repos : owner[h] # r
      BY <3>1, Sections, JobQueueAssumption DEF MutexInv, MutexHasReleaser
    <3>4. MutexHasReleaser'
      BY <3>1, <3>3 DEF MutexInv, MutexHasReleaser, TypeOK
    <3> QED
      BY <1>1, <3>2, <3>4 DEF MutexInv
  <2>2. CASE AcquireWin(r)
    <3>1. /\ pc[r] = "lockWait" /\ pc'[r] = "slotWait"
          /\ helper[r] = "signalled" /\ helper'[r] = "idle"
          /\ UNCHANGED <<owner, repoOf>>
          /\ \A o \in Runs : o # r => pc'[o] = pc[o] /\ helper'[o] = helper[o]
      BY <2>2 DEF AcquireWin, Goto, MutexInv, TypeOK
    <3>2. LockDiscipline'
      BY <3>1, Sections DEF MutexInv, LockDiscipline
    <3>3. MutexHasReleaser'
      BY <3>1, Sections DEF MutexInv, MutexHasReleaser, TypeOK
    <3> QED
      BY <1>1, <3>2, <3>3 DEF MutexInv
  <2>3. CASE AcquireTimeout(r) \/ TakeSlot(r) \/ SlotTimeout(r)
    BY <2>3, <1>1, <1>2, QuietMove, Sections, PositionNames
       DEF AcquireTimeout, TakeSlot, SlotTimeout
  <2> QED
    BY <1>3, <2>1, <2>2, <2>3 DEF Wait
<1>4. CASE Execute(r)
  <2> USE <1>1, <1>2, QuietMove, Sections, PositionNames
  <2>1. CASE MarkRunning(r) \/ OpenOutput(r) \/ TofuExit(r) \/ Finish(r)
    BY <2>1 DEF MarkRunning, OpenOutput, TofuExit, Finish
  <2>2. CASE Fail(r)
    BY <2>2 DEF Fail
  <2> QED
    BY <1>4, <2>1, <2>2 DEF Execute
<1>5. CASE Panic(r)
  BY <1>5, <1>1, <1>2, QuietMove, Sections, PositionNames DEF Panic
<1>6. CASE Unwind(r)
  <2>1. CASE Unlock(r)
    <3>1. /\ pc[r] \in InMutex
          /\ pc'[r] \notin InMutex
          /\ UNCHANGED <<helper, repoOf>>
          /\ \A o \in Runs : o # r => pc'[o] = pc[o]
          /\ repoOf[r] \in Repos
          /\ owner'[repoOf[r]] = NoRun
          /\ \A h \in Repos : h # repoOf[r] => owner'[h] = owner[h]
      BY <2>1, Sections DEF Unlock, Goto, MutexInv, TypeOK
    <3>2. ASSUME NEW o \in Runs, o # r, pc[o] # "new",
                 owner[repoOf[o]] = o
          PROVE  owner'[repoOf[o]] = o
      BY <3>1, <3>2, <1>2 DEF MutexInv, TypeOK
    <3>3. LockDiscipline'
      BY <3>1, <3>2, <1>2, Sections DEF MutexInv, LockDiscipline
    <3>4. MutexHasReleaser'
      BY <3>1, <1>2, JobQueueAssumption
         DEF MutexInv, MutexHasReleaser, TypeOK
    <3> QED
      BY <1>1, <3>3, <3>4 DEF MutexInv
  <2>2. CASE ReleaseSlot(r) \/ Recover(r) \/ ReleasePending(r)
    BY <2>2, <1>1, <1>2, QuietMove, Sections, PositionNames
       DEF ReleaseSlot, Recover, ReleasePending
  <2> QED
    BY <1>6, <2>1, <2>2 DEF Unwind
<1>7. CASE Helper(r)
  <2>1. CASE HelperLock(r)
    <3>1. /\ helper[r] = "locking" /\ helper'[r] = "signalled"
          /\ UNCHANGED <<pc, repoOf>>
          /\ pc[r] \notin InMutex
          /\ repoOf[r] \in Repos
          /\ owner[repoOf[r]] = NoRun
          /\ owner'[repoOf[r]] = r
          /\ \A o \in Runs : o # r => helper'[o] = helper[o]
          /\ \A h \in Repos : h # repoOf[r] => owner'[h] = owner[h]
      BY <2>1, <1>2, Sections DEF HelperLock, MutexInv, TypeOK
    <3>2. LockDiscipline'
      BY <3>1, <1>2, Sections, JobQueueAssumption
         DEF MutexInv, LockDiscipline, TypeOK
    <3>3. MutexHasReleaser'
      BY <3>1 DEF MutexInv, MutexHasReleaser, TypeOK
    <3> QED
      BY <1>1, <3>2, <3>3 DEF MutexInv
  <2>2. CASE HandOff(r)
    <3>1. /\ helper[r] = "signalled" /\ helper'[r] = "idle"
          /\ UNCHANGED <<pc, repoOf>>
          /\ pc[r] \notin InMutex /\ pc[r] # "new"
          /\ repoOf[r] \in Repos
          /\ owner[repoOf[r]] = r
          /\ owner'[repoOf[r]] = NoRun
          /\ \A o \in Runs : o # r => helper'[o] = helper[o]
          /\ \A h \in Repos : h # repoOf[r] => owner'[h] = owner[h]
      BY <2>2, <1>2, Sections DEF HandOff, MutexInv, TypeOK
    <3>2. LockDiscipline'
      BY <3>1, <1>2, Sections DEF MutexInv, LockDiscipline, TypeOK
    <3>3. MutexHasReleaser'
      BY <3>1 DEF MutexInv, MutexHasReleaser, TypeOK
    <3> QED
      BY <1>1, <3>2, <3>3 DEF MutexInv
  <2> QED
    BY <1>7, <2>1, <2>2 DEF Helper
<1> QED
  BY <1>3, <1>4, <1>5, <1>6, <1>7

\* Forgetting the memory of the process leaves every mutex free.
LEMMA ContainerMutex ==
  ASSUME MutexInv, Container
  PROVE  MutexInv'
<1>1. TypeOK'
  BY ContainerTypeOK DEF MutexInv
<1>2. CASE Forget
  BY <1>1, <1>2, Sections
     DEF Forget, MutexInv, LockDiscipline, MutexHasReleaser
<1>3. CASE UNCHANGED inMemory
  BY <1>1, <1>3 DEF inMemory, MutexInv, LockDiscipline, MutexHasReleaser
<1> QED
  BY Container, <1>2, <1>3
     DEF Container, Sigterm, HttpDrained, Drained, Lose, Boot, Listen,
         SweepInterrupted, Rotate

LEMMA MutexInvariant == Spec => []MutexInv
<1>1. MutexInv /\ [Next]_vars => MutexInv'
  <2> SUFFICES ASSUME MutexInv, [Next]_vars PROVE MutexInv'
    OBVIOUS
  <2>1. CASE UNCHANGED vars
    BY <2>1 DEF vars, MutexInv, TypeOK, LockDiscipline, MutexHasReleaser
  <2> QED
    BY <2>1, SubmitMutex, WorkMutex, ContainerMutex DEF Next
<1> QED
  BY <1>1, InitMutex, PTL DEF Spec

\* Two jobs of one repo are never between lock and unlock together, for any
\* number of submissions, timers and losses of the container.
THEOREM MutualExclusion == Spec => []RepoExclusive
<1>1. MutexInv => RepoExclusive
  BY DEF MutexInv, LockDiscipline, RepoExclusive
<1> QED
  BY <1>1, MutexInvariant, PTL

\* A held mutex has a goroutine that will release it: acquire's hand-off
\* leaves no orphan.
THEOREM NoOrphanMutex == Spec => []MutexHasReleaser
<1>1. MutexInv => MutexHasReleaser
  BY DEF MutexInv
<1> QED
  BY <1>1, MutexInvariant, PTL

-----------------------------------------------------------------------------
(* The two admission gates                                                 *)

\* Which named positions owe a token to q.sem.
LEMMA SlotPositions ==
  /\ SlotPC = {"marking", "opening", "exec", "finishOk", "finishFail",
               "failRun", "relSlot", "panicSlot", "admitted", "reserved",
               "abortPending", "abortSlot", "spawned"}
BY DEF SlotPC, InWindow

\* How the number of slot holders changes when one goroutine moves.
LEMMA SlotMove ==
  ASSUME TypeOK, NEW r \in Runs, NEW there \in Position, Goto(r, there)
  PROVE  /\ Cardinality(SlotHolders) \in Nat
         /\ (pc[r] \in SlotPC <=> there \in SlotPC)
              => Cardinality(SlotHolders)' = Cardinality(SlotHolders)
         /\ pc[r] \notin SlotPC /\ there \in SlotPC
              => Cardinality(SlotHolders)' = Cardinality(SlotHolders) + 1
         /\ pc[r] \in SlotPC /\ there \notin SlotPC
              => Cardinality(SlotHolders)' = Cardinality(SlotHolders) - 1
<1>1. pc'[r] = there /\ \A o \in Runs : o # r => pc'[o] = pc[o]
  BY GotoTyped
<1>2. IsFiniteSet(SlotHolders)
  BY FS_Subset, JobQueueAssumption DEF SlotHolders
<1>3. (pc[r] \in SlotPC <=> there \in SlotPC) => SlotHolders' = SlotHolders
  BY <1>1 DEF SlotHolders
<1>4. pc[r] \notin SlotPC /\ there \in SlotPC
        => SlotHolders' = SlotHolders \cup {r} /\ r \notin SlotHolders
  BY <1>1 DEF SlotHolders
<1>5. pc[r] \in SlotPC /\ there \notin SlotPC
        => SlotHolders' = SlotHolders \ {r} /\ r \in SlotHolders
  BY <1>1 DEF SlotHolders
<1>6. Cardinality(SlotHolders) \in Nat
  BY <1>2, FS_CardinalityType
<1>7. r \notin SlotHolders
        => Cardinality(SlotHolders \cup {r}) = Cardinality(SlotHolders) + 1
  BY <1>2, FS_AddElement
<1>8. r \in SlotHolders
        => Cardinality(SlotHolders \ {r}) = Cardinality(SlotHolders) - 1
  BY <1>2, FS_RemoveElement
<1> QED
  BY <1>3, <1>4, <1>5, <1>6, <1>7, <1>8

LEMMA InitSlots == Init => SlotsAccounted
<1> SUFFICES ASSUME Init PROVE SlotsAccounted
  OBVIOUS
<1>1. SlotHolders = {}
  BY SlotPositions DEF Init, SlotHolders
<1> QED
  BY <1>1, FS_EmptySet DEF Init, SlotsAccounted

LEMMA StepSlots ==
  ASSUME TypeOK, SlotsAccounted, NEW r \in Runs,
         Submit(r) \/ Wait(r) \/ Execute(r) \/ Panic(r) \/ Unwind(r) \/ Helper(r)
  PROVE  SlotsAccounted'
<1> USE SlotMove, SlotPositions, PositionNames DEF SlotsAccounted
<1>1. CASE Submit(r)
  <2>1. ASSUME NEW g \in Repos, AcquireAdmission(r, g) PROVE SlotsAccounted'
    BY <2>1 DEF AcquireAdmission
  <2>2. CASE ReservePending(r) \/ CreateRun(r) \/ CreateFails(r)
               \/ AbortPending(r) \/ AbortDir(r)
    BY <2>2 DEF ReservePending, CreateRun, CreateFails, AbortPending, AbortDir
  <2>3. CASE RefusePending(r) \/ AbortSlot(r)
    BY <2>3 DEF RefusePending, AbortSlot
  <2> QED
    BY <1>1, <2>1, <2>2, <2>3 DEF Submit
<1>2. CASE Wait(r)
  BY <1>2 DEF Wait, HandBackSlot, AcquireWin, AcquireTimeout, TakeSlot,
              SlotTimeout
<1>3. CASE Execute(r)
  BY <1>3 DEF Execute, MarkRunning, OpenOutput, TofuExit, Finish, Fail
<1>4. CASE Panic(r)
  BY <1>4 DEF Panic
<1>5. CASE Unwind(r)
  BY <1>5 DEF Unwind, ReleaseSlot, Unlock, Recover, ReleasePending
<1>6. CASE Helper(r)
  BY <1>6 DEF Helper, HelperLock, HandOff, SlotHolders
<1> QED
  BY <1>1, <1>2, <1>3, <1>4, <1>5, <1>6

LEMMA ContainerSlots ==
  ASSUME TypeOK, SlotsAccounted, Container
  PROVE  SlotsAccounted'
<1>1. CASE Forget
  <2>1. SlotHolders' = {}
    BY <1>1, SlotPositions DEF Forget, SlotHolders
  <2> QED
    BY <1>1, <2>1, FS_EmptySet DEF Forget, SlotsAccounted
<1>2. CASE UNCHANGED inMemory
  BY <1>2 DEF inMemory, SlotsAccounted, SlotHolders
<1> QED
  BY Container, <1>1, <1>2
     DEF Container, Sigterm, HttpDrained, Drained, Lose, Boot, Listen,
         SweepInterrupted, Rotate

\* The tokens in q.sem are exactly the goroutines that owe one back, so no
\* deferred receive ever blocks and no capacity leaks.
THEOREM SlotAccounting == Spec => []SlotsAccounted
<1>1. TypeOK /\ SlotsAccounted /\ [Next]_vars => SlotsAccounted'
  <2> SUFFICES ASSUME TypeOK, SlotsAccounted, [Next]_vars
               PROVE  SlotsAccounted'
    OBVIOUS
  <2>1. CASE UNCHANGED vars
    BY <2>1 DEF vars, SlotsAccounted, SlotHolders
  <2> QED
    BY <2>1, StepSlots, ContainerSlots DEF Next
<1> QED
  BY <1>1, InitSlots, TypeCorrect, PTL DEF Spec

\* Which named positions owe a reservation to q.pending.
LEMMA PendingPositions ==
  /\ PendingPC = Working \cup {"reserved", "abortPending"}
  /\ Working = {"slotWait", "failSlot", "marking", "opening", "exec",
                "finishOk", "finishFail", "failRun", "relSlot", "panicSlot",
                "relLock", "panicLock", "spawned", "lockWait", "failLock",
                "recover", "relPending"}
BY DEF PendingPC, Working, InMutex, InWindow

\* How the reservations of a repo change when one goroutine moves, taking or
\* keeping its repository.
LEMMA PendingMove ==
  ASSUME TypeOK, NEW r \in Runs, NEW there \in Position, Goto(r, there),
         NEW g \in Repos,
         \A o \in Runs : o # r => repoOf'[o] = repoOf[o],
         pc[r] \in PendingPC => repoOf'[r] = repoOf[r]
  PROVE  /\ Cardinality(PendingHolders(g)) \in Nat
         /\ (\/ repoOf'[r] # g
             \/ pc[r] \in PendingPC <=> there \in PendingPC)
              => Cardinality(PendingHolders(g))' = Cardinality(PendingHolders(g))
         /\ repoOf'[r] = g /\ pc[r] \notin PendingPC /\ there \in PendingPC
              => Cardinality(PendingHolders(g))'
                   = Cardinality(PendingHolders(g)) + 1
         /\ repoOf'[r] = g /\ pc[r] \in PendingPC /\ there \notin PendingPC
              => /\ Cardinality(PendingHolders(g))'
                      = Cardinality(PendingHolders(g)) - 1
<1> DEFINE S == PendingHolders(g)
<1>1. pc'[r] = there /\ \A o \in Runs : o # r => pc'[o] = pc[o]
  BY GotoTyped
<1>2. IsFiniteSet(S)
  BY FS_Subset, JobQueueAssumption DEF PendingHolders
<1>3. (\/ repoOf'[r] # g
       \/ pc[r] \in PendingPC <=> there \in PendingPC) => S' = S
  BY <1>1 DEF PendingHolders
<1>4. repoOf'[r] = g /\ pc[r] \notin PendingPC /\ there \in PendingPC
        => S' = S \cup {r} /\ r \notin S
  BY <1>1 DEF PendingHolders
<1>5. repoOf'[r] = g /\ pc[r] \in PendingPC /\ there \notin PendingPC
        => S' = S \ {r} /\ r \in S
  BY <1>1 DEF PendingHolders
<1>6. Cardinality(S) \in Nat
  BY <1>2, FS_CardinalityType
<1>7. r \notin S => Cardinality(S \cup {r}) = Cardinality(S) + 1
  BY <1>2, FS_AddElement
<1>8. r \in S => Cardinality(S \ {r}) = Cardinality(S) - 1
  BY <1>2, FS_RemoveElement
<1> HIDE DEF S
<1>9. /\ Cardinality(S) \in Nat
      /\ (\/ repoOf'[r] # g
          \/ pc[r] \in PendingPC <=> there \in PendingPC)
           => Cardinality(S') = Cardinality(S)
      /\ repoOf'[r] = g /\ pc[r] \notin PendingPC /\ there \in PendingPC
           => Cardinality(S') = Cardinality(S) + 1
      /\ repoOf'[r] = g /\ pc[r] \in PendingPC /\ there \notin PendingPC
           => Cardinality(S') = Cardinality(S) - 1
  BY <1>3, <1>4, <1>5, <1>6, <1>7, <1>8
<1> QED
  BY <1>9 DEF S

LEMMA InitPending == Init => PendingAccounted
<1> SUFFICES ASSUME Init, NEW g \in Repos
             PROVE  pending[g] = Cardinality(PendingHolders(g))
  BY DEF PendingAccounted
<1>1. PendingHolders(g) = {}
  BY PendingPositions DEF Init, PendingHolders
<1> QED
  BY <1>1, FS_EmptySet DEF Init

\* A step of one goroutine that leaves pending alone and neither takes nor
\* gives back a reservation.
LEMMA PendingKept ==
  ASSUME TypeOK, PendingAccounted, NEW r \in Runs, NEW there \in Position,
         Goto(r, there), UNCHANGED <<repoOf, pending>>,
         pc[r] \in PendingPC <=> there \in PendingPC
  PROVE  PendingAccounted'
BY PendingMove DEF PendingAccounted

\* releasePending by a goroutine that holds a reservation.
LEMMA PendingGivenBack ==
  ASSUME TypeOK, PendingAccounted, NEW r \in Runs, NEW there \in Position,
         Goto(r, there), UNCHANGED repoOf, Unreserve(repoOf[r]),
         pc[r] \in PendingPC, there \notin PendingPC, pc[r] # "new"
  PROVE  PendingAccounted'
<1> SUFFICES ASSUME NEW g \in Repos
             PROVE  pending'[g] = Cardinality(PendingHolders(g))'
  BY DEF PendingAccounted
<1>1. /\ pending[g] = Cardinality(PendingHolders(g))
      /\ Cardinality(PendingHolders(g)) \in Nat
      /\ Cardinality(PendingHolders(g))' \in Nat
  <2>1. IsFiniteSet(PendingHolders(g)) /\ IsFiniteSet(PendingHolders(g)')
    BY FS_Subset, JobQueueAssumption DEF PendingHolders
  <2> QED
    BY <2>1, FS_CardinalityType DEF PendingAccounted
<1>2. CASE g = repoOf[r]
  <2>1. Cardinality(PendingHolders(g))' = Cardinality(PendingHolders(g)) - 1
    BY <1>2, PendingMove
  <2>2. pending[g] >= 1
    BY <1>1, <2>1
  <2>3. pending'[g] = pending[g] - 1
    BY <1>1, <1>2, <2>2 DEF Unreserve, TypeOK
  <2> QED
    BY <1>1, <2>1, <2>3
<1>3. CASE g # repoOf[r]
  <2>1. Cardinality(PendingHolders(g))' = Cardinality(PendingHolders(g))
    BY <1>3, PendingMove
  <2>2. pending'[g] = pending[g]
    BY <1>3 DEF Unreserve, TypeOK
  <2> QED
    BY <1>1, <2>1, <2>2
<1> QED
  BY <1>2, <1>3

LEMMA StepPending ==
  ASSUME TypeOK, PendingAccounted, NEW r \in Runs,
         Submit(r) \/ Wait(r) \/ Execute(r) \/ Panic(r) \/ Unwind(r) \/ Helper(r)
  PROVE  PendingAccounted'
<1> USE PendingKept, PendingPositions, PositionNames
<1>1. CASE Submit(r)
  <2>1. ASSUME NEW g \in Repos, AcquireAdmission(r, g) PROVE PendingAccounted'
    <3> SUFFICES ASSUME NEW h \in Repos
                 PROVE  pending'[h] = Cardinality(PendingHolders(h))'
      BY DEF PendingAccounted
    <3>1. /\ pc[r] = "new" /\ Goto(r, "admitted")
          /\ pending' = pending
          /\ \A o \in Runs : o # r => repoOf'[o] = repoOf[o]
      BY <2>1 DEF AcquireAdmission, TypeOK
    <3>2. Cardinality(PendingHolders(h))' = Cardinality(PendingHolders(h))
      BY <3>1, PendingMove
    <3> QED
      BY <3>1, <3>2 DEF PendingAccounted
  <2>2. CASE ReservePending(r)
    <3> SUFFICES ASSUME NEW h \in Repos
                 PROVE  pending'[h] = Cardinality(PendingHolders(h))'
      BY DEF PendingAccounted
    <3>1. /\ pc[r] = "admitted" /\ Goto(r, "reserved") /\ UNCHANGED repoOf
          /\ repoOf[r] \in Repos
          /\ pending' = [pending EXCEPT ![repoOf[r]] = @ + 1]
      BY <2>2 DEF ReservePending, TypeOK
    <3>2. /\ h = repoOf[r] => Cardinality(PendingHolders(h))'
                                = Cardinality(PendingHolders(h)) + 1
          /\ h # repoOf[r] => Cardinality(PendingHolders(h))'
                                = Cardinality(PendingHolders(h))
      BY <3>1, PendingMove
    <3> QED
      BY <3>1, <3>2 DEF PendingAccounted, TypeOK
  <2>3. CASE RefusePending(r) \/ CreateRun(r) \/ CreateFails(r)
               \/ AbortSlot(r) \/ AbortDir(r)
    BY <2>3 DEF RefusePending, CreateRun, CreateFails, AbortSlot, AbortDir
  <2>4. CASE AbortPending(r)
    BY <2>4, PendingGivenBack DEF AbortPending
  <2> QED
    BY <1>1, <2>1, <2>2, <2>3, <2>4 DEF Submit
<1>2. CASE Wait(r)
  BY <1>2 DEF Wait, HandBackSlot, AcquireWin, AcquireTimeout, TakeSlot,
              SlotTimeout
<1>3. CASE Execute(r)
  BY <1>3 DEF Execute, MarkRunning, OpenOutput, TofuExit, Finish, Fail
<1>4. CASE Panic(r)
  BY <1>4 DEF Panic
<1>5. CASE Unwind(r)
  BY <1>5, PendingGivenBack
     DEF Unwind, ReleaseSlot, Unlock, Recover, ReleasePending
<1>6. CASE Helper(r)
  BY <1>6 DEF Helper, HelperLock, HandOff, PendingHolders, PendingAccounted
<1> QED
  BY <1>1, <1>2, <1>3, <1>4, <1>5, <1>6

LEMMA ContainerPending ==
  ASSUME TypeOK, PendingAccounted, Container
  PROVE  PendingAccounted'
<1>1. CASE Forget
  <2> SUFFICES ASSUME NEW g \in Repos
               PROVE  pending'[g] = Cardinality(PendingHolders(g))'
    BY DEF PendingAccounted
  <2>1. PendingHolders(g)' = {}
    BY <1>1, PendingPositions DEF Forget, PendingHolders
  <2> QED
    BY <1>1, <2>1, FS_EmptySet DEF Forget
<1>2. CASE UNCHANGED inMemory
  BY <1>2 DEF inMemory, PendingAccounted, PendingHolders
<1> QED
  BY Container, <1>1, <1>2
     DEF Container, Sigterm, HttpDrained, Drained, Lose, Boot, Listen,
         SweepInterrupted, Rotate

\* q.pending counts the admitted jobs of each repo that have not left work.
THEOREM PendingAccounting == Spec => []PendingAccounted
<1>1. TypeOK /\ PendingAccounted /\ [Next]_vars => PendingAccounted'
  <2> SUFFICES ASSUME TypeOK, PendingAccounted, [Next]_vars
               PROVE  PendingAccounted'
    OBVIOUS
  <2>1. CASE UNCHANGED vars
    BY <2>1 DEF vars, PendingAccounted, PendingHolders
  <2> QED
    BY <2>1, StepPending, ContainerPending DEF Next
<1> QED
  BY <1>1, InitPending, TypeCorrect, PTL DEF Spec

-----------------------------------------------------------------------------
(* The statuses a client reads                                             *)

\* What the position of a run's goroutine says about the status on disk, and
\* that a dead process has no goroutines.
StatusDiscipline ==
  \A r \in Runs :
    /\ pc[r] \in {"new", "admitted", "reserved"} => status[r] = "absent"
    /\ pc[r] \in {"abortPending", "abortSlot", "abortDir"}
         => status[r] \in {"absent", "stillborn"}
    /\ pc[r] \in {"spawned", "lockWait", "slotWait", "marking", "failLock",
                  "failSlot"}
         => status[r] = "queued"
    /\ pc[r] \in {"opening", "exec", "finishOk", "finishFail"}
         => status[r] = "running"
    /\ pc[r] \in {"failRun", "panicSlot", "panicLock", "recover"}
         => status[r] \in ActiveStatus
    /\ server \notin Alive => pc[r] \in {"new", "gone"}

StatusInv == TypeOK /\ StatusDiscipline /\ ActiveHasWorker /\ DrainedIsQuiet

LEMMA StatusNames ==
  /\ ActiveStatus = {"queued", "running"}
  /\ TerminalStatus = {"succeeded", "failed", "interrupted"}
  /\ Alive = {"up", "closing", "draining"}
  /\ Submitting = {"admitted", "reserved", "abortPending", "abortSlot",
                   "abortDir"}
  /\ Unconcluded = {"spawned", "lockWait", "slotWait", "marking", "opening",
                    "exec", "finishOk", "finishFail", "failLock", "failSlot",
                    "failRun", "panicSlot", "panicLock", "recover"}
BY DEF ActiveStatus, TerminalStatus, Alive, Submitting, Unconcluded

LEMMA InitStatus == Init => StatusInv
BY InitTypeOK, StatusNames
   DEF Init, StatusInv, StatusDiscipline, ActiveHasWorker, DrainedIsQuiet

\* What one goroutine's step has to respect: the status it leaves behind
\* fits the position it goes to, or the write was lost.
LEMMA GoroutineStatus ==
  ASSUME StatusInv, TypeOK', NEW r \in Runs, NEW there \in Position,
         Goto(r, there), there # "new", UNCHANGED server, pc[r] # "gone",
         lost \subseteq lost',
         \A o \in Runs : o # r => status'[o] = status[o],
         server \in Alive,
         there \in {"admitted", "reserved"} => status'[r] = "absent",
         there \in {"abortPending", "abortSlot", "abortDir"}
           => status'[r] \in {"absent", "stillborn"},
         there \in {"spawned", "lockWait", "slotWait", "marking", "failLock",
                    "failSlot"}
           => status'[r] = "queued",
         there \in {"opening", "exec", "finishOk", "finishFail"}
           => status'[r] = "running",
         there \in {"failRun", "panicSlot", "panicLock", "recover"}
           => status'[r] \in ActiveStatus,
         \/ there \in Unconcluded
         \/ r \in lost'
         \/ status'[r] \notin ActiveStatus
  PROVE  StatusInv'
<1>1. pc'[r] = there /\ \A o \in Runs : o # r => pc'[o] = pc[o]
  BY GotoTyped DEF StatusInv
<1>2. StatusDiscipline'
  BY <1>1 DEF StatusInv, StatusDiscipline
<1>3. ActiveHasWorker' /\ DrainedIsQuiet'
  BY <1>1, StatusNames DEF StatusInv, ActiveHasWorker, DrainedIsQuiet
<1> QED
  BY <1>2, <1>3 DEF StatusInv

\* A goroutine past its submission lives in a live process.
LEMMA LiveProcess ==
  ASSUME StatusInv, NEW r \in Runs, pc[r] \notin {"new", "gone"}
  PROVE  server \in Alive
BY DEF StatusInv, StatusDiscipline

\* A position from which the status is settled, one way or the other, is not
\* owed a conclusion.
LEMMA StepStatus ==
  ASSUME StatusInv, NEW r \in Runs,
         Submit(r) \/ Wait(r) \/ Execute(r) \/ Panic(r) \/ Unwind(r) \/ Helper(r)
  PROVE  StatusInv'
<1>1. TypeOK'
  BY SubmitTypeOK, WorkTypeOK DEF StatusInv
<1>2. /\ pc[r] \in {"new", "admitted", "reserved"} => status[r] = "absent"
      /\ pc[r] \in {"abortPending", "abortSlot", "abortDir"}
           => status[r] \in {"absent", "stillborn"}
      /\ pc[r] \in {"spawned", "lockWait", "slotWait", "marking", "failLock",
                    "failSlot"}
           => status[r] = "queued"
      /\ pc[r] \in {"opening", "exec", "finishOk", "finishFail"}
           => status[r] = "running"
      /\ pc[r] \in {"failRun", "panicSlot", "panicLock", "recover"}
           => status[r] \in ActiveStatus
      /\ server \in Alive /\ status[r] \in ActiveStatus /\ r \notin lost
           => pc[r] \in Unconcluded
      /\ status \in [Runs -> Status]
  BY DEF StatusInv, StatusDiscipline, ActiveHasWorker, TypeOK
<1>3. pc[r] \notin {"new", "gone"} => server \in Alive
  BY LiveProcess
<1> USE <1>1, <1>2, <1>3, GoroutineStatus, StatusNames, PositionNames
        DEF WriteFails, Record
<1>4. CASE Submit(r)
  <2>1. ASSUME NEW g \in Repos, AcquireAdmission(r, g) PROVE StatusInv'
    BY <2>1 DEF AcquireAdmission
  <2>2. CASE ReservePending(r)
    BY <2>2 DEF ReservePending
  <2>3. CASE RefusePending(r)
    BY <2>3 DEF RefusePending
  <2>4. CASE CreateRun(r)
    BY <2>4 DEF CreateRun
  <2>5. CASE CreateFails(r)
    BY <2>5 DEF CreateFails
  <2>6. CASE AbortPending(r)
    BY <2>6 DEF AbortPending
  <2>7. CASE AbortSlot(r)
    BY <2>7 DEF AbortSlot
  <2>8. CASE AbortDir(r)
    BY <2>8 DEF AbortDir
  <2> QED
    BY <1>4, <2>1, <2>2, <2>3, <2>4, <2>5, <2>6, <2>7, <2>8 DEF Submit
<1>5. CASE Wait(r)
  <2>1. CASE HandBackSlot(r) \/ AcquireWin(r) \/ AcquireTimeout(r)
    BY <2>1 DEF HandBackSlot, AcquireWin, AcquireTimeout
  <2>2. CASE TakeSlot(r) \/ SlotTimeout(r)
    BY <2>2 DEF TakeSlot, SlotTimeout
  <2> QED
    BY <1>5, <2>1, <2>2 DEF Wait
<1>6. CASE Execute(r)
  <2>1. CASE MarkRunning(r)
    BY <2>1 DEF MarkRunning
  <2>2. CASE OpenOutput(r)
    BY <2>2 DEF OpenOutput
  <2>3. CASE TofuExit(r)
    BY <2>3 DEF TofuExit
  <2>4. CASE Finish(r)
    BY <2>4 DEF Finish
  <2>5. CASE Fail(r)
    BY <2>5 DEF Fail
  <2> QED
    BY <1>6, <2>1, <2>2, <2>3, <2>4, <2>5 DEF Execute
<1>7. CASE Panic(r)
  BY <1>7 DEF Panic
<1>8. CASE Unwind(r)
  <2>1. CASE ReleaseSlot(r)
    BY <2>1 DEF ReleaseSlot
  <2>2. CASE Unlock(r)
    BY <2>2 DEF Unlock
  <2>3. CASE Recover(r)
    BY <2>3 DEF Recover
  <2>4. CASE ReleasePending(r)
    BY <2>4 DEF ReleasePending
  <2> QED
    BY <1>8, <2>1, <2>2, <2>3, <2>4 DEF Unwind
<1>9. CASE Helper(r)
  BY <1>9 DEF Helper, HelperLock, HandOff, StatusInv, StatusDiscipline,
              ActiveHasWorker, DrainedIsQuiet
<1> QED
  BY <1>4, <1>5, <1>6, <1>7, <1>8, <1>9

LEMMA ContainerStatus ==
  ASSUME StatusInv, Container
  PROVE  StatusInv'
<1>1. TypeOK'
  BY ContainerTypeOK DEF StatusInv
<1> USE <1>1, StatusNames
        DEF StatusInv, StatusDiscipline, ActiveHasWorker, DrainedIsQuiet
<1>2. CASE Sigterm \/ HttpDrained
  BY <1>2 DEF Sigterm, HttpDrained, inMemory
<1>3. CASE Drained
  BY <1>3, PendingPositions DEF Drained, Forget
<1>4. CASE Lose
  BY <1>4 DEF Lose, Forget
<1>5. CASE Boot \/ Listen
  BY <1>5 DEF Boot, Listen, inMemory
<1>6. ASSUME NEW r \in Runs, SweepInterrupted(r) PROVE StatusInv'
  BY <1>6 DEF SweepInterrupted, Record, WriteFails, inMemory, TypeOK
<1>7. ASSUME NEW r \in Runs, Rotate(r) PROVE StatusInv'
  BY <1>7 DEF Rotate, inMemory, TypeOK
<1> QED
  BY Container, <1>2, <1>3, <1>4, <1>5, <1>6, <1>7 DEF Container

LEMMA StatusInvariant == Spec => []StatusInv
<1>1. StatusInv /\ [Next]_vars => StatusInv'
  <2> SUFFICES ASSUME StatusInv, [Next]_vars PROVE StatusInv'
    OBVIOUS
  <2>1. CASE UNCHANGED vars
    BY <2>1 DEF vars, StatusInv, TypeOK, StatusDiscipline, ActiveHasWorker,
                DrainedIsQuiet
  <2> QED
    BY <2>1, StepStatus, ContainerStatus DEF Next
<1> QED
  BY <1>1, InitStatus, PTL DEF Spec

\* A run that reads queued or running has a worker that will conclude it.
THEOREM NoAbandonedRun == Spec => []ActiveHasWorker
<1>1. StatusInv => ActiveHasWorker
  BY DEF StatusInv
<1> QED
  BY <1>1, StatusInvariant, PTL

\* An orderly stop leaves no run queued or running on disk.
THEOREM OrderlyStop == Spec => []DrainedIsQuiet
<1>1. StatusInv => DrainedIsQuiet
  BY DEF StatusInv
<1> QED
  BY <1>1, StatusInvariant, PTL

\* No two runs of a repo read running, but for a panic under recovery.
THEOREM OneRunningPerRepo == Spec => []RunningExclusive
<1>1. StatusInv /\ MutexInv => RunningExclusive
  <2> SUFFICES ASSUME StatusInv, MutexInv, NEW r \in Runs \ lost,
                      server \in Alive, status[r] = "running",
                      pc[r] # "recover"
               PROVE  owner[repoOf[r]] = r
    BY DEF RunningExclusive
  <2>1. pc[r] \in InMutex
    BY StatusNames, Sections DEF StatusInv, StatusDiscipline, ActiveHasWorker
  <2> QED
    BY <2>1 DEF MutexInv, LockDiscipline
<1> QED
  BY <1>1, StatusInvariant, MutexInvariant, PTL

-----------------------------------------------------------------------------
(* JobQueue implements RunService                                          *)

IInv == MutexInv /\ StatusInv /\ SlotsAccounted

LEMMA StepInvariant == Spec => []IInv
BY MutexInvariant, StatusInvariant, SlotAccounting, PTL DEF IInv

LEMMA InitRefines == Init => RS!Init
BY DEF Init, RS!Init, ShownStatus, ShownRepo, Tofu

\* A step that changes neither what clients see nor the set of processes.
LEMMA Invisible ==
  ASSUME IInv, NEW r \in Runs, NEW there \in Position, Goto(r, there),
         pc[r] # "exec", there # "exec", UNCHANGED repoOf,
         \/ UNCHANGED status
         \/ /\ status[r] \in {"absent", "stillborn"}
            /\ \E s \in {"absent", "stillborn"} :
                 status' = [status EXCEPT ![r] = s]
  PROVE  UNCHANGED RS!vars
<1>1. pc'[r] = there /\ \A o \in Runs : o # r => pc'[o] = pc[o]
  BY GotoTyped DEF IInv, StatusInv
<1>2. Tofu' = Tofu
  BY <1>1 DEF Tofu
<1>3. ShownStatus' = ShownStatus /\ ShownRepo' = ShownRepo
  BY DEF ShownStatus, ShownRepo, IInv, StatusInv, TypeOK
<1> QED
  BY <1>2, <1>3 DEF RS!vars

\* How many processes there can be before one more is launched.
LEMMA RoomForOne ==
  ASSUME IInv, NEW r \in Runs, pc[r] = "opening"
  PROVE  Cardinality(Tofu) < MaxParallel
<1>1. IsFiniteSet(SlotHolders) /\ IsFiniteSet(Tofu) /\ r \notin Tofu
  BY FS_Subset, JobQueueAssumption DEF SlotHolders, Tofu
<1>2. Tofu \cup {r} \subseteq SlotHolders
  BY SlotPositions DEF SlotHolders, Tofu
<1>3. Cardinality(Tofu \cup {r}) <= Cardinality(SlotHolders)
  BY <1>1, <1>2, FS_Subset
<1>4. Cardinality(Tofu \cup {r}) = Cardinality(Tofu) + 1
  BY <1>1, FS_AddElement
<1>5. Cardinality(SlotHolders) <= MaxParallel
  BY JobQueueAssumption DEF IInv, SlotsAccounted, MutexInv, TypeOK
<1>6. Cardinality(Tofu) \in Nat /\ Cardinality(SlotHolders) \in Nat
  BY <1>1, FS_CardinalityType
<1> QED
  BY <1>3, <1>4, <1>5, <1>6, JobQueueAssumption

\* RunService reaches Cardinality through an instance of its own.
LEMMA SameCardinality ==
  ASSUME NEW S
  PROVE  RS!Cardinality(S) = Cardinality(S)
BY DEF RS!Cardinality, Cardinality

LEMMA LaunchStep ==
  ASSUME IInv, NEW r \in Runs, OpenOutput(r)
  PROVE  RS!Launch(r) \/ UNCHANGED RS!vars
<1>1. CASE pc' = [pc EXCEPT ![r] = "exec"]
  <2>1. pc[r] = "opening" /\ status[r] = "running"
    BY DEF OpenOutput, IInv, StatusInv, StatusDiscipline
  <2>2. Tofu' = Tofu \cup {r} /\ r \notin Tofu
    BY <1>1, <2>1 DEF Tofu, IInv, StatusInv, TypeOK
  <2>3. ShownStatus' = ShownStatus /\ ShownRepo' = ShownRepo
    BY DEF OpenOutput, ShownStatus, ShownRepo
  <2>4. \A other \in Tofu : ShownRepo[other] # ShownRepo[r]
    <3> SUFFICES ASSUME NEW other \in Tofu PROVE ShownRepo[other] # ShownRepo[r]
      OBVIOUS
    <3>1. other \in Runs /\ pc[other] = "exec" /\ status[other] = "running"
      BY DEF Tofu, IInv, StatusInv, StatusDiscipline
    <3>2. owner[repoOf[r]] = r /\ owner[repoOf[other]] = other
      BY <2>1, <3>1, Sections DEF IInv, MutexInv, LockDiscipline
    <3>3. other # r
      BY <2>1, <3>1
    <3> QED
      BY <2>1, <3>1, <3>2, <3>3 DEF ShownRepo
  <2>5. ShownStatus[r] = "running"
    BY <2>1 DEF ShownStatus
  <2> QED
    BY <2>1, <2>2, <2>3, <2>4, <2>5, RoomForOne, SameCardinality
       DEF RS!Launch
<1>2. CASE Goto(r, "failRun")
  BY <1>2, Invisible, PositionNames DEF OpenOutput
<1> QED
  BY <1>1, <1>2 DEF OpenOutput, Goto

\* Store.Update of a terminal status by the goroutine that leaves `running`
\* or `queued` behind, or its failure.
LEMMA ConcludeStep ==
  ASSUME IInv, NEW r \in Runs, NEW there \in Position, Goto(r, there),
         pc[r] # "exec", there # "exec", UNCHANGED repoOf,
         status[r] \in ActiveStatus,
         \/ Record(r, "failed")
         \/ Record(r, "succeeded") /\ status[r] = "running"
  PROVE  RS!Conclude(r) \/ UNCHANGED RS!vars
<1>1. r \notin Tofu /\ Tofu' = Tofu
  BY GotoTyped DEF Tofu, IInv, StatusInv
<1>2. CASE UNCHANGED status
  BY <1>2, Invisible
<1>3. ASSUME NEW s \in {"failed", "succeeded"},
             status' = [status EXCEPT ![r] = s],
             s = "succeeded" => status[r] = "running"
      PROVE  RS!Conclude(r)
  <2>1. ShownStatus[r] = status[r]
    BY StatusNames DEF ShownStatus
  <2>2. ShownStatus' = [ShownStatus EXCEPT ![r] = s]
    BY <1>3 DEF ShownStatus, IInv, StatusInv, TypeOK
  <2>3. ShownRepo' = ShownRepo
    BY <1>3, StatusNames DEF ShownRepo, IInv, StatusInv, TypeOK
  <2> QED
    BY <1>1, <1>3, <2>1, <2>2, <2>3 DEF RS!Conclude, RS!ActiveStatus,
       ActiveStatus
<1> QED
  BY <1>2, <1>3 DEF Record

LEMMA QuitStep ==
  ASSUME IInv, NEW r \in Runs, NEW there \in Position, Goto(r, there),
         pc[r] = "exec", there # "exec", UNCHANGED <<repoOf, status>>
  PROVE  RS!Quit(r)
<1>1. r \in Tofu /\ Tofu' = Tofu \ {r}
  BY GotoTyped DEF Tofu, IInv, StatusInv
<1>2. ShownStatus' = ShownStatus /\ ShownRepo' = ShownRepo
  BY DEF ShownStatus, ShownRepo
<1> QED
  BY <1>1, <1>2 DEF RS!Quit

LEMMA SubmitRefines ==
  ASSUME IInv, NEW r \in Runs, Submit(r)
  PROVE  (\E g \in Repos : RS!Accept(r, g)) \/ UNCHANGED RS!vars
<1> USE PositionNames
<1>1. /\ pc[r] \in {"new", "admitted", "reserved"} => status[r] = "absent"
      /\ pc[r] \in {"abortPending", "abortSlot", "abortDir"}
           => status[r] \in {"absent", "stillborn"}
      /\ pc[r] # "new" => repoOf[r] \in Repos
  BY DEF IInv, StatusInv, StatusDiscipline, TypeOK
<1>2. ASSUME NEW g \in Repos, AcquireAdmission(r, g)
      PROVE  UNCHANGED RS!vars
  <2>1. pc[r] = "new" /\ UNCHANGED status /\ Goto(r, "admitted")
        /\ \A o \in Runs : o # r => repoOf'[o] = repoOf[o]
    BY <1>2 DEF AcquireAdmission, IInv, StatusInv, TypeOK
  <2>2. Tofu' = Tofu
    BY <2>1, GotoTyped DEF Tofu, IInv, StatusInv
  <2>3. ShownStatus' = ShownStatus
    BY <2>1 DEF ShownStatus
  <2>4. ShownRepo' = ShownRepo
    BY <2>1, <1>1 DEF ShownRepo
  <2> QED
    BY <2>2, <2>3, <2>4 DEF RS!vars
<1>3. CASE CreateRun(r)
  <2>1. /\ pc[r] = "reserved" /\ Goto(r, "spawned") /\ UNCHANGED repoOf
        /\ status[r] = "absent" /\ status' = [status EXCEPT ![r] = "queued"]
        /\ repoOf[r] \in Repos
    BY <1>1, <1>3 DEF CreateRun
  <2>2. Tofu' = Tofu
    BY <2>1, GotoTyped DEF Tofu, IInv, StatusInv
  <2>3. /\ ShownStatus[r] = "absent"
        /\ ShownStatus' = [ShownStatus EXCEPT ![r] = "queued"]
    BY <2>1 DEF ShownStatus, IInv, StatusInv, TypeOK
  <2>4. ShownRepo' = [ShownRepo EXCEPT ![r] = repoOf[r]]
    BY <2>1 DEF ShownRepo, IInv, StatusInv, TypeOK
  <2> QED
    BY <2>1, <2>2, <2>3, <2>4 DEF RS!Accept
<1>4. CASE CreateFails(r)
  BY <1>1, <1>4, Invisible DEF CreateFails
<1>5. CASE ReservePending(r) \/ RefusePending(r) \/ AbortPending(r)
             \/ AbortSlot(r)
  BY <1>5, Invisible DEF ReservePending, RefusePending, AbortPending, AbortSlot
<1>6. CASE AbortDir(r)
  BY <1>1, <1>6, Invisible DEF AbortDir
<1> QED
  BY Submit(r), <1>2, <1>3, <1>4, <1>5, <1>6 DEF Submit

LEMMA WorkRefines ==
  ASSUME IInv, NEW r \in Runs,
         Wait(r) \/ Execute(r) \/ Panic(r) \/ Unwind(r) \/ Helper(r)
  PROVE  \/ RS!Begin(r) \/ RS!Launch(r) \/ RS!Quit(r) \/ RS!Conclude(r)
         \/ UNCHANGED RS!vars
<1> USE PositionNames
<1>1. /\ pc[r] \in {"marking", "failLock", "failSlot"} => status[r] = "queued"
      /\ pc[r] \in {"finishOk", "finishFail"} => status[r] = "running"
      /\ pc[r] \in {"failRun", "recover"} => status[r] \in ActiveStatus
  BY DEF IInv, StatusInv, StatusDiscipline
<1>2. CASE Wait(r)
  BY <1>2, Invisible DEF Wait, HandBackSlot, AcquireWin, AcquireTimeout,
                         TakeSlot, SlotTimeout
<1>3. CASE MarkRunning(r)
  <2>1. CASE UNCHANGED status
    BY <1>3, <2>1, Invisible DEF MarkRunning
  <2>2. CASE status' = [status EXCEPT ![r] = "running"]
    <3>1. /\ pc[r] = "marking" /\ status[r] = "queued" /\ UNCHANGED repoOf
          /\ \E there \in Position : Goto(r, there) /\ there # "exec"
      BY <1>1, <1>3 DEF MarkRunning
    <3>2. Tofu' = Tofu
      BY <3>1, GotoTyped DEF Tofu, IInv, StatusInv
    <3>3. /\ ShownStatus[r] = "queued"
          /\ ShownStatus' = [ShownStatus EXCEPT ![r] = "running"]
      BY <2>2, <3>1 DEF ShownStatus, IInv, StatusInv, TypeOK
    <3>4. ShownRepo' = ShownRepo
      BY <2>2, <3>1 DEF ShownRepo, IInv, StatusInv, TypeOK
    <3> QED
      BY <3>2, <3>3, <3>4 DEF RS!Begin
  <2> QED
    BY <1>3, <2>1, <2>2 DEF MarkRunning
<1>4. CASE TofuExit(r)
  BY <1>4, QuitStep DEF TofuExit
<1>5. CASE Finish(r)
  BY <1>1, <1>5, ConcludeStep, StatusNames DEF Finish
<1>6. CASE Fail(r)
  BY <1>1, <1>6, ConcludeStep, StatusNames DEF Fail
<1>7. CASE Panic(r)
  BY <1>7, QuitStep, Invisible DEF Panic
<1>8. CASE ReleaseSlot(r) \/ Unlock(r) \/ ReleasePending(r)
  BY <1>8, Invisible DEF ReleaseSlot, Unlock, ReleasePending
<1>9. CASE Recover(r)
  BY <1>1, <1>9, ConcludeStep DEF Recover
<1>10. CASE Helper(r)
  BY <1>10 DEF Helper, HelperLock, HandOff, RS!vars, ShownStatus, ShownRepo,
               Tofu
<1> QED
  BY LaunchStep, <1>2, <1>3, <1>4, <1>5, <1>6, <1>7, <1>8, <1>9, <1>10
     DEF Execute, Unwind

LEMMA ContainerRefines ==
  ASSUME IInv, Container
  PROVE  \/ RS!LoseAll
         \/ \E r \in Runs : RS!Interrupt(r) \/ RS!Reclaim(r)
         \/ UNCHANGED RS!vars
<1>1. CASE Forget /\ UNCHANGED status
  BY <1>1 DEF Forget, RS!LoseAll, Tofu, ShownStatus, ShownRepo
<1>2. ASSUME UNCHANGED status, UNCHANGED inMemory
      PROVE  UNCHANGED RS!vars
  BY <1>2 DEF inMemory, RS!vars, Tofu, ShownStatus, ShownRepo
<1>3. ASSUME NEW r \in Runs, SweepInterrupted(r)
      PROVE  RS!Interrupt(r) \/ UNCHANGED RS!vars
  <2>1. CASE UNCHANGED status
    <3>1. UNCHANGED inMemory
      BY <1>3 DEF SweepInterrupted
    <3> QED
      BY <1>2, <2>1, <3>1
  <2>2. CASE status' = [status EXCEPT ![r] = "interrupted"]
    <3>1. Tofu = {} /\ Tofu' = {}
      BY <1>3, StatusNames DEF SweepInterrupted, inMemory, Tofu, IInv,
         StatusInv, StatusDiscipline
    <3>2. /\ ShownStatus[r] \in ActiveStatus
          /\ ShownStatus' = [ShownStatus EXCEPT ![r] = "interrupted"]
          /\ ShownRepo' = ShownRepo
      BY <1>3, <2>2, StatusNames DEF SweepInterrupted, inMemory, ShownStatus,
         ShownRepo, IInv, StatusInv, TypeOK
    <3> QED
      BY <3>1, <3>2 DEF RS!Interrupt, RS!ActiveStatus, ActiveStatus
  <2> QED
    BY <1>3, <2>1, <2>2 DEF SweepInterrupted, Record
<1>4. ASSUME NEW r \in Runs, Rotate(r)
      PROVE  RS!Reclaim(r) \/ UNCHANGED RS!vars
  <2>1. Tofu' = Tofu
    BY <1>4 DEF Rotate, inMemory, Tofu
  <2>2. CASE status[r] \in TerminalStatus
    <3>1. /\ ShownStatus[r] \in TerminalStatus
          /\ ShownStatus' = [ShownStatus EXCEPT ![r] = "removed"]
          /\ ShownRepo' = ShownRepo
      BY <1>4, <2>2, StatusNames DEF Rotate, inMemory, ShownStatus, ShownRepo,
         IInv, StatusInv, TypeOK
    <3> QED
      BY <2>1, <3>1 DEF RS!Reclaim, RS!FinishedStatus, TerminalStatus
  <2>3. CASE status[r] = "stillborn"
    <3>1. ShownStatus' = ShownStatus /\ ShownRepo' = ShownRepo
      BY <1>4, <2>3, StatusNames DEF Rotate, inMemory, ShownStatus, ShownRepo,
         IInv, StatusInv, TypeOK
    <3> QED
      BY <2>1, <3>1 DEF RS!vars
  <2> QED
    BY <1>4, <2>2, <2>3 DEF Rotate
<1> QED
  BY Container, <1>1, <1>2, <1>3, <1>4
     DEF Container, Sigterm, HttpDrained, Drained, Lose, Boot, Listen

\* The queue of goroutines, channel tokens and mutexes implements the service
\* that clients are promised.
THEOREM Implements == Spec => KeepsPromises
<1>1. IInv /\ [Next]_vars => [RS!Next]_(RS!vars)
  <2> SUFFICES ASSUME IInv, [Next]_vars PROVE RS!Next \/ UNCHANGED RS!vars
    OBVIOUS
  <2>1. CASE UNCHANGED vars
    BY <2>1 DEF vars, RS!vars, ShownStatus, ShownRepo, Tofu
  <2>2. ASSUME NEW r \in Runs, Submit(r) PROVE RS!Next \/ UNCHANGED RS!vars
    BY <2>2, SubmitRefines DEF RS!Next
  <2>3. ASSUME NEW r \in Runs,
               Wait(r) \/ Execute(r) \/ Panic(r) \/ Unwind(r) \/ Helper(r)
        PROVE  RS!Next \/ UNCHANGED RS!vars
    BY <2>3, WorkRefines DEF RS!Next
  <2>4. CASE Container
    BY <2>4, ContainerRefines DEF RS!Next
  <2> QED
    BY <2>1, <2>2, <2>3, <2>4 DEF Next
<1> QED
  BY <1>1, InitRefines, StepInvariant, PTL DEF Spec, RS!Spec, KeepsPromises
=============================================================================
