------------------------------ MODULE JobQueue ------------------------------
(***************************************************************************)
(* iac-runner's job queue (internal/jobq/queue.go) together with the       *)
(* status field of each run's meta.json (internal/runs), the shutdown      *)
(* sequence of cmd/runner/signals.go and the boot sweep and retention of   *)
(* internal/runs/retention.go.                                             *)
(*                                                                         *)
(* One element of Runs is one call of Submit that passed the argument      *)
(* checks; pc[r] is the position of that call, and afterwards of the       *)
(* goroutine work that it starts.  The admission checks before the first   *)
(* shared object (unknown repo, bad dir, missing clone, no tofu) return    *)
(* without changing anything and are not actions.                          *)
(*                                                                         *)
(* The semaphore is the Go channel it is: a counter of anonymous tokens,   *)
(* so that nothing but the code's discipline ties a token to its holder.   *)
(***************************************************************************)
EXTENDS Integers, FiniteSets

CONSTANTS
  Runs,          \* submissions, each with a run id of its own
  Repos,         \* names in the `repos` option
  NoRepo, NoRun, \* "none" values
  MaxParallel,   \* Deps.MaxParallel after New's defaulting and capping
  MaxStops,      \* bound: SIGTERMs and losses of the container
  MaxDiskFaults  \* bound: runs that meet a failing metadata write

ASSUME JobQueueAssumption ==
  /\ IsFiniteSet(Runs)
  /\ NoRun \notin Runs
  /\ NoRepo \notin Repos
  /\ MaxParallel \in 1..32
  /\ MaxStops \in Nat
  /\ MaxDiskFaults \in Nat

VARIABLES
  server,   \* life cycle of the container's main process
  status,   \* status in meta.json, per run ("stillborn": a dir with no meta)
  repoOf,   \* repository a run was submitted for
  pc,       \* position of Submit / work, per run
  helper,   \* acquire's locking goroutine, per run
  owner,    \* who holds each repo mutex
  sem,      \* tokens in the channel q.sem
  pending,  \* q.pending, per repo
  stops,    \* stops so far (bounded by MaxStops)
  lost      \* runs of which a metadata write has failed

vars == <<server, status, repoOf, pc, helper, owner, sem, pending, stops, lost>>
inMemory == <<repoOf, pc, helper, owner, sem, pending>>

-----------------------------------------------------------------------------
(* Positions, grouped by what a goroutine at the position still has to     *)
(* give back.                                                              *)

Submitting  == {"admitted", "reserved", "abortPending", "abortSlot", "abortDir"}
\* between the second slot acquire (387) and its deferred release (392)
InWindow    == {"marking", "opening", "exec", "finishOk", "finishFail",
                "failRun", "relSlot", "panicSlot"}
\* between winning the repo mutex (377) and its deferred Unlock (382)
InMutex     == InWindow \cup {"slotWait", "failSlot", "relLock", "panicLock"}
\* from `go q.work` to wg.Done
Working     == InMutex \cup {"spawned", "lockWait", "failLock", "recover",
                             "relPending"}
SlotPC      == InWindow \cup {"admitted", "reserved", "abortPending",
                              "abortSlot", "spawned"}
PendingPC   == Working \cup {"reserved", "abortPending"}
\* a worker here has not written its terminal status yet
Unconcluded == {"spawned", "lockWait", "slotWait", "marking", "opening", "exec",
                "finishOk", "finishFail", "failLock", "failSlot", "failRun",
                "panicSlot", "panicLock", "recover"}
Ended       == {"new", "refused", "done", "gone"}
Position    == Submitting \cup Working \cup Ended

ActiveStatus   == {"queued", "running"}
TerminalStatus == {"succeeded", "failed", "interrupted"}
Status         == ActiveStatus \cup TerminalStatus
                    \cup {"absent", "stillborn", "removed"}
Alive          == {"up", "closing", "draining"}
Server         == Alive \cup {"stopped", "down", "booting"}

SlotHolders       == {r \in Runs : pc[r] \in SlotPC}
PendingHolders(g) == {r \in Runs : pc[r] \in PendingPC /\ repoOf[r] = g}
Tofu              == {r \in Runs : pc[r] = "exec"}

-----------------------------------------------------------------------------

Init ==
  /\ server = "up"
  /\ status  = [r \in Runs |-> "absent"]
  /\ repoOf  = [r \in Runs |-> NoRepo]
  /\ pc      = [r \in Runs |-> "new"]
  /\ helper  = [r \in Runs |-> "idle"]
  /\ owner   = [g \in Repos |-> NoRun]
  /\ sem     = 0
  /\ pending = [g \in Repos |-> 0]
  /\ stops   = 0
  /\ lost    = {}

Goto(r, there) == pc' = [pc EXCEPT ![r] = there]

\* Store.Update and Store.Create return an error: once the disk fails a run,
\* it may go on failing it.
WriteFails(r) ==
  /\ r \in lost \/ Cardinality(lost) < MaxDiskFaults
  /\ lost' = lost \cup {r}

\* Store.Update either records s in meta.json or fails and leaves it alone.
Record(r, s) ==
  \/ status' = [status EXCEPT ![r] = s] /\ UNCHANGED lost
  \/ WriteFails(r) /\ UNCHANGED status

-----------------------------------------------------------------------------
(* Submit                                                                  *)

\* Mutant of AcquireAdmission: the channel is sent to without looking.
AdmitUnbounded(r, g) ==
  /\ server \in {"up", "closing"}
  /\ pc[r] = "new"
  /\ sem' = sem + 1
  /\ repoOf' = [repoOf EXCEPT ![r] = g]
  /\ Goto(r, "admitted")
  /\ UNCHANGED <<server, status, helper, owner, pending, stops, lost>>

\* The non-blocking send; a full channel answers 503 and changes nothing.
AcquireAdmission(r, g) ==
  /\ server \in {"up", "closing"}
  /\ pc[r] = "new"
  /\ sem < MaxParallel
  /\ sem' = sem + 1
  /\ repoOf' = [repoOf EXCEPT ![r] = g]
  /\ Goto(r, "admitted")
  /\ UNCHANGED <<server, status, helper, owner, pending, stops, lost>>

ReservePending(r) ==
  /\ pc[r] = "admitted"
  /\ pending[repoOf[r]] < MaxParallel
  /\ pending' = [pending EXCEPT ![repoOf[r]] = @ + 1]
  /\ Goto(r, "reserved")
  /\ UNCHANGED <<server, status, repoOf, helper, owner, sem, stops, lost>>

\* Mutant of RefusePending: the refusal forgets to give the slot back.
RefuseKeepingSlot(r) ==
  /\ pc[r] = "admitted"
  /\ pending[repoOf[r]] >= MaxParallel
  /\ Goto(r, "refused")
  /\ UNCHANGED <<server, status, repoOf, helper, owner, sem, pending, stops, lost>>

RefusePending(r) ==
  /\ pc[r] = "admitted"
  /\ pending[repoOf[r]] >= MaxParallel
  /\ sem > 0
  /\ sem' = sem - 1
  /\ Goto(r, "refused")
  /\ UNCHANGED <<server, status, repoOf, helper, owner, pending, stops, lost>>

\* store.Create succeeds; wg.Add and `go q.work` follow with nothing between.
CreateRun(r) ==
  /\ pc[r] = "reserved"
  /\ status' = [status EXCEPT ![r] = "queued"]
  /\ Goto(r, "spawned")
  /\ UNCHANGED <<server, repoOf, helper, owner, sem, pending, stops, lost>>

\* store.Create fails, in MkdirAll or in writeMeta after it.
CreateFails(r) ==
  /\ pc[r] = "reserved"
  /\ WriteFails(r)
  /\ \/ UNCHANGED status
     \/ status' = [status EXCEPT ![r] = "stillborn"]
  /\ Goto(r, "abortPending")
  /\ UNCHANGED <<server, repoOf, helper, owner, sem, pending, stops>>

\* releasePending; the map entry is deleted at zero, which reads as zero.
Unreserve(g) == pending' = [pending EXCEPT ![g] = IF @ <= 1 THEN 0 ELSE @ - 1]

\* Mutant of AbortPending: a failed Create leaks its reservation.
AbortKeepingReservation(r) ==
  /\ pc[r] = "abortPending"
  /\ Goto(r, "abortSlot")
  /\ UNCHANGED <<server, status, repoOf, helper, owner, sem, pending, stops, lost>>

AbortPending(r) ==
  /\ pc[r] = "abortPending"
  /\ Unreserve(repoOf[r])
  /\ Goto(r, "abortSlot")
  /\ UNCHANGED <<server, status, repoOf, helper, owner, sem, stops, lost>>

AbortSlot(r) ==
  /\ pc[r] = "abortSlot"
  /\ sem > 0
  /\ sem' = sem - 1
  /\ Goto(r, "abortDir")
  /\ UNCHANGED <<server, status, repoOf, helper, owner, pending, stops, lost>>

\* RemoveAll of the stillborn directory; its failure is only logged.
AbortDir(r) ==
  /\ pc[r] = "abortDir"
  /\ \/ status' = [status EXCEPT ![r] = "absent"]
     \/ UNCHANGED status
  /\ Goto(r, "refused")
  /\ UNCHANGED <<server, repoOf, helper, owner, sem, pending, stops, lost>>

-----------------------------------------------------------------------------
(* work: waiting                                                           *)

\* Mutant of HandBackSlot: the admission slot is kept across the wait.
WaitHoldingSlot(r) ==
  /\ pc[r] = "spawned"
  /\ helper' = [helper EXCEPT ![r] = "locking"]
  /\ Goto(r, "lockWait")
  /\ UNCHANGED <<server, status, repoOf, owner, sem, pending, stops, lost>>

\* `<-q.sem`, lockFor, and acquire's goroutine sets out to Lock.
HandBackSlot(r) ==
  /\ pc[r] = "spawned"
  /\ sem > 0
  /\ sem' = sem - 1
  /\ helper' = [helper EXCEPT ![r] = "locking"]
  /\ Goto(r, "lockWait")
  /\ UNCHANGED <<server, status, repoOf, owner, pending, stops, lost>>

\* Mutant of HelperLock: two lockFor calls created two mutexes for one repo.
LockSecondMutex(r) ==
  /\ helper[r] = "locking"
  /\ owner' = [owner EXCEPT ![repoOf[r]] = r]
  /\ helper' = [helper EXCEPT ![r] = "signalled"]
  /\ UNCHANGED <<server, status, repoOf, pc, sem, pending, stops, lost>>

HelperLock(r) ==
  /\ helper[r] = "locking"
  /\ owner[repoOf[r]] = NoRun
  /\ owner' = [owner EXCEPT ![repoOf[r]] = r]
  /\ helper' = [helper EXCEPT ![r] = "signalled"]
  /\ UNCHANGED <<server, status, repoOf, pc, sem, pending, stops, lost>>

AcquireWin(r) ==
  /\ pc[r] = "lockWait"
  /\ helper[r] = "signalled"
  /\ helper' = [helper EXCEPT ![r] = "idle"]
  /\ Goto(r, "slotWait")
  /\ UNCHANGED <<server, status, repoOf, owner, sem, pending, stops, lost>>

\* The timer branch of acquire's select: it may win even when the lock has
\* already been signalled, because select picks among ready cases at random.
AcquireTimeout(r) ==
  /\ pc[r] = "lockWait"
  /\ Goto(r, "failLock")
  /\ UNCHANGED <<server, status, repoOf, helper, owner, sem, pending, stops,
                 lost>>

\* Mutant of HandOff: a timed-out acquire leaves nobody behind to unlock.
NoHandOff(r) == FALSE

\* The goroutine that a timed-out acquire leaves behind.
HandOff(r) ==
  /\ pc[r] # "lockWait"
  /\ helper[r] = "signalled"
  /\ helper' = [helper EXCEPT ![r] = "idle"]
  /\ owner' = [owner EXCEPT ![repoOf[r]] = NoRun]
  /\ UNCHANGED <<server, status, repoOf, pc, sem, pending, stops, lost>>

TakeSlot(r) ==
  /\ pc[r] = "slotWait"
  /\ sem < MaxParallel
  /\ sem' = sem + 1
  /\ Goto(r, "marking")
  /\ UNCHANGED <<server, status, repoOf, helper, owner, pending, stops, lost>>

SlotTimeout(r) ==
  /\ pc[r] = "slotWait"
  /\ Goto(r, "failSlot")
  /\ UNCHANGED <<server, status, repoOf, helper, owner, sem, pending, stops,
                 lost>>

-----------------------------------------------------------------------------
(* work: the execution window                                              *)

MarkRunning(r) ==
  /\ pc[r] = "marking"
  /\ \/ /\ status' = [status EXCEPT ![r] = "running"]
        /\ Goto(r, "opening")
        /\ UNCHANGED lost
     \/ /\ WriteFails(r)
        /\ Goto(r, "failRun")
        /\ UNCHANGED status
  /\ UNCHANGED <<server, repoOf, helper, owner, sem, pending, stops>>

OpenOutput(r) ==
  /\ pc[r] = "opening"
  /\ \/ Goto(r, "exec") /\ UNCHANGED lost
     \/ WriteFails(r) /\ Goto(r, "failRun")
  /\ UNCHANGED <<server, status, repoOf, helper, owner, sem, pending, stops>>

\* runJob returns: exit status 0, or a non-zero one, a timeout or no start.
TofuExit(r) ==
  /\ pc[r] = "exec"
  /\ \E there \in {"finishOk", "finishFail"} : Goto(r, there)
  /\ UNCHANGED <<server, status, repoOf, helper, owner, sem, pending, stops,
                 lost>>

\* A panic in the store or in exec starts unwinding the deferred calls that
\* have been registered so far.
Panic(r) ==
  /\ \/ /\ pc[r] \in {"marking", "opening", "exec", "finishOk", "finishFail",
                      "failRun"}
        /\ Goto(r, "panicSlot")
     \/ pc[r] = "failSlot" /\ Goto(r, "panicLock")
     \/ pc[r] = "failLock" /\ Goto(r, "recover")
  /\ UNCHANGED <<server, status, repoOf, helper, owner, sem, pending, stops,
                 lost>>

\* Mutant of Finish: a run that did not succeed is left as it was.
FinishOnlySuccess(r) ==
  /\ pc[r] \in {"finishOk", "finishFail"}
  /\ IF pc[r] = "finishOk" THEN Record(r, "succeeded")
                           ELSE UNCHANGED <<status, lost>>
  /\ Goto(r, "relSlot")
  /\ UNCHANGED <<server, repoOf, helper, owner, sem, pending, stops>>

Finish(r) ==
  /\ pc[r] \in {"finishOk", "finishFail"}
  /\ Record(r, IF pc[r] = "finishOk" THEN "succeeded" ELSE "failed")
  /\ Goto(r, "relSlot")
  /\ UNCHANGED <<server, repoOf, helper, owner, sem, pending, stops>>

\* Mutant of Fail: the slot timeout returns before Unlock is deferred.
FailStillLocked(r) ==
  /\ \/ pc[r] \in {"failLock", "failSlot"} /\ Goto(r, "relPending")
     \/ pc[r] = "failRun" /\ Goto(r, "relSlot")
  /\ Record(r, "failed")
  /\ UNCHANGED <<server, repoOf, helper, owner, sem, pending, stops>>

Fail(r) ==
  /\ \/ pc[r] = "failLock" /\ Goto(r, "relPending")
     \/ pc[r] = "failSlot" /\ Goto(r, "relLock")
     \/ pc[r] = "failRun"  /\ Goto(r, "relSlot")
  /\ Record(r, "failed")
  /\ UNCHANGED <<server, repoOf, helper, owner, sem, pending, stops>>

-----------------------------------------------------------------------------
(* work: the deferred calls, last registered first                         *)

ReleaseSlot(r) ==
  /\ sem > 0
  /\ sem' = sem - 1
  /\ \/ pc[r] = "relSlot"   /\ Goto(r, "relLock")
     \/ pc[r] = "panicSlot" /\ Goto(r, "panicLock")
  /\ UNCHANGED <<server, status, repoOf, helper, owner, pending, stops, lost>>

Unlock(r) ==
  /\ \/ pc[r] = "relLock"   /\ Goto(r, "relPending")
     \/ pc[r] = "panicLock" /\ Goto(r, "recover")
  /\ owner' = [owner EXCEPT ![repoOf[r]] = NoRun]
  /\ UNCHANGED <<server, status, repoOf, helper, sem, pending, stops, lost>>

\* The recover handler was deferred first, so it runs after Unlock.
Recover(r) ==
  /\ pc[r] = "recover"
  /\ Record(r, "failed")
  /\ Goto(r, "relPending")
  /\ UNCHANGED <<server, repoOf, helper, owner, sem, pending, stops>>

ReleasePending(r) ==
  /\ pc[r] = "relPending"
  /\ Unreserve(repoOf[r])
  /\ Goto(r, "done")
  /\ UNCHANGED <<server, status, repoOf, helper, owner, sem, stops, lost>>

-----------------------------------------------------------------------------
(* The container: shutdown, loss, boot, retention                          *)

Sigterm ==
  /\ server = "up"
  /\ stops < MaxStops
  /\ server' = "closing"
  /\ stops' = stops + 1
  /\ UNCHANGED <<status, inMemory, lost>>

\* http.Server.Shutdown returns nil: no handler is running any more.
HttpDrained ==
  /\ server = "closing"
  /\ \A r \in Runs : pc[r] \notin Submitting
  /\ server' = "draining"
  /\ UNCHANGED <<status, inMemory, stops, lost>>

Forget ==
  /\ pc' = [r \in Runs |-> IF pc[r] = "new" THEN "new" ELSE "gone"]
  /\ helper' = [r \in Runs |-> "idle"]
  /\ owner' = [g \in Repos |-> NoRun]
  /\ sem' = 0
  /\ pending' = [g \in Repos |-> 0]
  /\ UNCHANGED repoOf

\* Mutant of Drained: a job joins the wait group only once it is executing.
DrainedTooEarly ==
  /\ server = "draining"
  /\ \A r \in Runs : pc[r] \notin InWindow
  /\ server' = "stopped"
  /\ Forget
  /\ UNCHANGED <<status, stops, lost>>

\* Drain returns nil: wg reached zero, and main returns.
Drained ==
  /\ server = "draining"
  /\ \A r \in Runs : pc[r] \notin Working
  /\ server' = "stopped"
  /\ Forget
  /\ UNCHANGED <<status, stops, lost>>

\* A budget of the shutdown expires, a second SIGTERM arrives, or the
\* container dies.
Lose ==
  /\ server \in Alive \cup {"booting"}
  /\ server \in {"up", "booting"} => stops < MaxStops
  /\ stops' = IF server \in {"up", "booting"} THEN stops + 1 ELSE stops
  /\ server' = "down"
  /\ Forget
  /\ UNCHANGED <<status, lost>>

Boot ==
  /\ server \in {"down", "stopped"}
  /\ server' = "booting"
  /\ UNCHANGED <<status, inMemory, stops, lost>>

SweepInterrupted(r) ==
  /\ server = "booting"
  /\ status[r] \in ActiveStatus
  /\ Record(r, "interrupted")
  /\ UNCHANGED <<server, inMemory, stops>>

\* Mutant of Listen: the listener starts beside the sweep.
ListenBeforeSweep ==
  /\ server = "booting"
  /\ server' = "up"
  /\ UNCHANGED <<status, inMemory, stops, lost>>

\* The listener starts once the sweep has tried every run.
Listen ==
  /\ server = "booting"
  /\ \A r \in Runs : status[r] \in ActiveStatus => r \in lost
  /\ server' = "up"
  /\ UNCHANGED <<status, inMemory, stops, lost>>

\* Mutant of Rotate: age alone decides, whatever the status.
RotateByAge(r) ==
  /\ server \in Alive \cup {"booting"}
  /\ status[r] \in ActiveStatus \cup TerminalStatus
  /\ status' = [status EXCEPT ![r] = "removed"]
  /\ UNCHANGED <<server, inMemory, stops, lost>>

\* Rotate finds the run over-age; a directory without meta.json is judged by
\* its mtime, which is fresh while its Submit is still running.
Rotate(r) ==
  /\ server \in Alive \cup {"booting"}
  /\ \/ /\ status[r] \in TerminalStatus
        /\ status' = [status EXCEPT ![r] = "removed"]
     \/ /\ status[r] = "stillborn"
        /\ pc[r] \notin Submitting
        /\ status' = [status EXCEPT ![r] = "absent"]
  /\ UNCHANGED <<server, inMemory, stops, lost>>

-----------------------------------------------------------------------------

Submit(r) ==
  \/ \E g \in Repos : AcquireAdmission(r, g)
  \/ ReservePending(r) \/ RefusePending(r) \/ CreateRun(r) \/ CreateFails(r)
  \/ AbortPending(r) \/ AbortSlot(r) \/ AbortDir(r)

Wait(r) ==
  \/ HandBackSlot(r) \/ AcquireWin(r) \/ AcquireTimeout(r)
  \/ TakeSlot(r) \/ SlotTimeout(r)

Execute(r) ==
  \/ MarkRunning(r) \/ OpenOutput(r) \/ TofuExit(r) \/ Finish(r) \/ Fail(r)

Unwind(r) == ReleaseSlot(r) \/ Unlock(r) \/ Recover(r) \/ ReleasePending(r)

Helper(r) == HelperLock(r) \/ HandOff(r)

Container ==
  \/ Sigterm \/ HttpDrained \/ Drained \/ Lose \/ Boot \/ Listen
  \/ \E r \in Runs : SweepInterrupted(r) \/ Rotate(r)

Next ==
  \/ \E r \in Runs : \/ Submit(r) \/ Wait(r) \/ Execute(r) \/ Panic(r)
                     \/ Unwind(r) \/ Helper(r)
  \/ Container

Spec == Init /\ [][Next]_vars

\* The steps of one submission that no other goroutine can hold up.
Proceed(r) ==
  \/ ReservePending(r) \/ RefusePending(r) \/ CreateRun(r)
  \/ AbortPending(r) \/ AbortSlot(r) \/ AbortDir(r)
  \/ HandBackSlot(r) \/ AcquireWin(r) \/ Execute(r) \/ Unwind(r)
  \/ HandOff(r) \/ SweepInterrupted(r)

\* Every goroutine that can take a step eventually does; sync.Mutex (in its
\* starvation mode) and a channel's queue of blocked senders are first-come
\* first-served, hence the strong fairness of the two contended steps.  A
\* tofu process ends because runJob's deadline kills it.  A draining process
\* exits at the latest when its budget is spent, and the Supervisor restarts
\* the container.  Nothing is assumed of the timers of the two waits, of new
\* submissions, panics, signals, losses or retention.
Fairness ==
  /\ \A r \in Runs : WF_vars(Proceed(r)) /\ SF_vars(HelperLock(r))
                       /\ SF_vars(TakeSlot(r))
  /\ WF_vars(\/ HttpDrained \/ Drained \/ Boot \/ Listen
             \/ server = "draining" /\ Lose)

FairSpec == Spec /\ Fairness

-----------------------------------------------------------------------------
(* Properties                                                              *)

\* The values the variables may take.
TypeOK ==
  /\ server \in Server
  /\ status \in [Runs -> Status]
  /\ repoOf \in [Runs -> Repos \cup {NoRepo}]
  /\ pc \in [Runs -> Position]
  /\ \A r \in Runs : pc[r] # "new" => repoOf[r] \in Repos
  /\ helper \in [Runs -> {"idle", "locking", "signalled"}]
  /\ owner \in [Repos -> Runs \cup {NoRun}]
  /\ sem \in 0 .. MaxParallel
  /\ pending \in [Repos -> 0 .. MaxParallel]
  /\ stops \in 0 .. MaxStops
  /\ lost \subseteq Runs

\* The tokens in q.sem are exactly the goroutines that owe one back, over
\* every exit path of Submit and work.  One token too few and some deferred
\* `<-q.sem` blocks for ever; one too many and capacity is gone until restart.
SlotsAccounted == sem = Cardinality(SlotHolders)

\* q.pending[repo] counts the jobs of the repo that have been admitted and
\* have not left work: neither a leaked reservation, which refuses the repo
\* for ever, nor a double release, which lifts the bound.
PendingAccounted ==
  \A g \in Repos : pending[g] = Cardinality(PendingHolders(g))

\* A held repo mutex always has a goroutine that will unlock it: the worker
\* inside its critical section, or the goroutine of an acquire that has just
\* locked and that the worker or its hand-off will answer for.
MutexHasReleaser ==
  \A g \in Repos : owner[g] # NoRun =>
    /\ repoOf[owner[g]] = g
    /\ \/ helper[owner[g]] = "signalled" /\ pc[owner[g]] \notin InMutex
       \/ helper[owner[g]] = "idle" /\ pc[owner[g]] \in InMutex

\* Two jobs of one repo are never between lock and unlock together, so two
\* tofu processes never share a working tree.
RepoExclusive ==
  \A r1, r2 \in Runs :
    /\ pc[r1] \in InMutex /\ pc[r2] \in InMutex
    /\ repoOf[r1] = repoOf[r2]
    => r1 = r2

\* While the service answers requests, a run that reads `queued` or
\* `running` has a worker that is going to conclude it, unless the disk
\* refused one of its writes: no run hangs after a panic, a timeout or a
\* restart.
ActiveHasWorker ==
  \A r \in Runs \ lost :
    server \in Alive /\ status[r] \in ActiveStatus => pc[r] \in Unconcluded

\* A client never reads `running` for two runs of one repo, except while a
\* panic is being recovered (the mutex is released before the recovery
\* writes `failed`) or after a failed write.
RunningExclusive ==
  \A r1, r2 \in Runs \ lost :
    /\ server \in Alive
    /\ status[r1] = "running" /\ status[r2] = "running"
    /\ pc[r1] # "recover" /\ pc[r2] # "recover"
    /\ repoOf[r1] = repoOf[r2]
    => r1 = r2

\* When Drain reports that the queue is empty, every accepted run has its
\* terminal status on disk: the boot sweep then has nothing to interrupt.
DrainedIsQuiet ==
  \A r \in Runs \ lost : server = "stopped" => status[r] \notin ActiveStatus

\* What a client sees: a directory without meta.json is not a run.
ShownStatus == [r \in Runs |-> IF status[r] = "stillborn" THEN "absent"
                                                          ELSE status[r]]
ShownRepo   == [r \in Runs |-> IF status[r] \in {"absent", "stillborn"}
                               THEN NoRepo ELSE repoOf[r]]

RS == INSTANCE RunService WITH st <- ShownStatus, repo <- ShownRepo,
                               tofu <- Tofu

\* The queue keeps the promises of RunService: statuses only move forward and
\* are final once terminal, the tofu processes alive are at most MaxParallel
\* and on different repos, a run concludes when its process is gone, only a
\* boot interrupts, and only finished runs are reclaimed.
KeepsPromises == RS!Spec

\* Every accepted run reaches a terminal status, even if no timer ever fires:
\* the order "repo mutex first, execution slot second" cannot deadlock.
EveryRunConcludes ==
  \A r \in Runs : status[r] = "queued" ~>
                    \/ status[r] \in TerminalStatus \cup {"removed"}
                    \/ r \in lost

\* No repo is wedged: a repo mutex that is held is released again, also when
\* the acquire that locked it had given up.
RepoNeverWedged ==
  \A g \in Repos : owner[g] # NoRun ~> owner[g] = NoRun
=============================================================================
