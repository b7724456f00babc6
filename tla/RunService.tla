----------------------------- MODULE RunService -----------------------------
(***************************************************************************)
(* What iac-runner promises a client of /v1/plan, /v1/apply and /v1/runs,  *)
(* with no mention of semaphores, mutexes or goroutines:                   *)
(*                                                                         *)
(*   - a run is accepted once, and moves only forward through              *)
(*     queued, running and one terminal status;                            *)
(*   - the tofu processes alive at any instant work on pairwise different  *)
(*     repositories and there are never more than MaxParallel of them;     *)
(*   - a run concludes only when its own tofu process is gone;             *)
(*   - "interrupted" is written only when no process of the service is     *)
(*     alive, that is by the boot that follows the loss of a container;    *)
(*   - only a run with a terminal status is ever reclaimed.                *)
(*                                                                         *)
(* JobQueue implements this specification.                                 *)
(***************************************************************************)
EXTENDS Integers, FiniteSets

CONSTANTS
  Runs,         \* run identifiers, one per submission
  Repos,        \* names in the `repos` option
  NoRepo,       \* "no repository yet"
  MaxParallel   \* the option max_parallel_jobs

VARIABLES
  st,     \* status a client reads for each run
  repo,   \* repository of each accepted run
  tofu    \* runs whose tofu process is alive

vars == <<st, repo, tofu>>

ActiveStatus   == {"queued", "running"}
FinishedStatus == {"succeeded", "failed", "interrupted"}

Init ==
  /\ st   = [r \in Runs |-> "absent"]
  /\ repo = [r \in Runs |-> NoRepo]
  /\ tofu = {}

Accept(r, g) ==
  /\ st[r] = "absent"
  /\ st' = [st EXCEPT ![r] = "queued"]
  /\ repo' = [repo EXCEPT ![r] = g]
  /\ UNCHANGED tofu

Begin(r) ==
  /\ st[r] = "queued"
  /\ st' = [st EXCEPT ![r] = "running"]
  /\ UNCHANGED <<repo, tofu>>

Launch(r) ==
  /\ st[r] = "running"
  /\ r \notin tofu
  /\ \A other \in tofu : repo[other] # repo[r]
  /\ Cardinality(tofu) < MaxParallel
  /\ tofu' = tofu \cup {r}
  /\ UNCHANGED <<st, repo>>

Quit(r) ==
  /\ r \in tofu
  /\ tofu' = tofu \ {r}
  /\ UNCHANGED <<st, repo>>

Conclude(r) ==
  /\ r \notin tofu
  /\ \/ /\ st[r] = "running"
        /\ st' = [st EXCEPT ![r] = "succeeded"]
     \/ /\ st[r] \in ActiveStatus
        /\ st' = [st EXCEPT ![r] = "failed"]
  /\ UNCHANGED <<repo, tofu>>

LoseAll ==
  /\ tofu' = {}
  /\ UNCHANGED <<st, repo>>

Interrupt(r) ==
  /\ tofu = {}
  /\ st[r] \in ActiveStatus
  /\ st' = [st EXCEPT ![r] = "interrupted"]
  /\ UNCHANGED <<repo, tofu>>

Reclaim(r) ==
  /\ st[r] \in FinishedStatus
  /\ st' = [st EXCEPT ![r] = "removed"]
  /\ UNCHANGED <<repo, tofu>>

Next ==
  \/ \E r \in Runs, g \in Repos : Accept(r, g)
  \/ \E r \in Runs : \/ Begin(r) \/ Launch(r) \/ Quit(r) \/ Conclude(r)
                     \/ Interrupt(r) \/ Reclaim(r)
  \/ LoseAll

Spec == Init /\ [][Next]_vars
=============================================================================
