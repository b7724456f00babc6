---------------------------- MODULE PlanArtifacts ----------------------------
(***************************************************************************)
(* The saved plans of iac-runner: a `plan` run leaves tfplan in its run    *)
(* directory, and a later `apply` of the same repository and directory     *)
(* hands that file to tofu instead of planning again (internal/jobq/       *)
(* exec.go: runJob, recordPlanHead, priorPlanFile, consumePlanArtifact).   *)
(*                                                                         *)
(* The module is about one repository.  JobQueue shows that its runs hold  *)
(* the repository's mutex one after the other, and work refreshes          *)
(* StartedAt inside the mutex, so runs are numbered in the order of        *)
(* StartedAt and only the last one executes.  Two things take no mutex and *)
(* interleave with the run: a pull (internal/git/manager.go) and retention *)
(* (internal/runs/retention.go).                                           *)
(***************************************************************************)
EXTENDS Integers, FiniteSets

CONSTANTS
  Dirs,        \* directories of the repository that requests name
  NoDir,       \* "no run yet"
  Pinned,      \* `ref` is set: a pull may land on any commit, also an old one
  MaxRuns,     \* bound: runs executed
  MaxCommit,   \* bound: commits of the repository
  MaxMishaps   \* bound: failing cleanup steps and metadata writes, losses of
               \* the container and runs that retention reclaims, together

ASSUME PlanAssumption ==
  /\ Pinned \in BOOLEAN
  /\ MaxRuns \in Nat \ {0}
  /\ MaxCommit \in Nat \ {0}
  /\ MaxMishaps \in Nat

VARIABLES
  head,     \* commit that git rev-parse HEAD names
  tree,     \* commit the files are of, Unclean while a pull rewrites them
  target,   \* commit a pull in progress is landing on
  pc,       \* position of the executing run in runJob
  last,     \* the run that executes, or executed last
  cand,     \* plan that the apply found in the store
  prior,    \* plan that the apply is going to hand to tofu
  meta,     \* meta.json of each run
  disk,     \* runs whose tfplan is on disk
  built,    \* content of tfplan: the tree it was computed from
  handed,   \* <<apply, plan>>: tofu was started on the saved plan (history)
  overlap,  \* the executing run and the plans on disk, if a pull was in
            \* progress while they executed (history)
  lost,     \* <<run, step>>: cleanup steps and metadata writes that failed
  stops     \* losses so far

vars == <<head, tree, target, pc, last, cand, prior, meta, disk, built, handed,
          overlap, lost, stops>>
worktree == <<head, tree, target>>
lookup   == <<cand, prior>>
history  == <<handed, overlap>>

Runs    == 1 .. MaxRuns
Commits == 1 .. MaxCommit
NoRun   == 0
Unknown == 0        \* HeadSHA that was never recorded
Unclean == 0
NoPull  == 0

Finished == {"succeeded", "failed", "interrupted"}
Position == {"idle", "init", "record", "planning", "list", "check", "start",
             "applying", "remove", "clear", "finishOk", "finishFail"}
Blank == [kind |-> "none", dir |-> NoDir, status |-> "absent",
          headSHA |-> Unknown, planFile |-> FALSE]

-----------------------------------------------------------------------------

Init ==
  /\ head = 1 /\ tree = 1 /\ target = NoPull
  /\ pc = "idle" /\ last = 0
  /\ cand = NoRun /\ prior = NoRun
  /\ meta = [r \in Runs |-> Blank]
  /\ disk = {}
  /\ built = [r \in Runs |-> Unclean]
  /\ handed = {} /\ overlap = {}
  /\ lost = {} /\ stops = 0

Rotated == {r \in Runs : meta[r].status = "removed"}
Mishaps == Cardinality(lost) + Cardinality(Rotated) + stops

Fault(r, step) ==
  /\ Mishaps < MaxMishaps
  /\ lost' = lost \cup {<<r, step>>}

Unlink(r) ==
  /\ disk' = disk \ {r}
  /\ built' = [built EXCEPT ![r] = Unclean]
  /\ overlap' = overlap \ {r}

-----------------------------------------------------------------------------
(* runJob, under the repository's mutex                                    *)

\* work marks the next run running.
StartRun(kind, dir) ==
  /\ pc = "idle"
  /\ last < MaxRuns
  /\ last' = last + 1
  /\ meta' = [meta EXCEPT ![last + 1] =
                [Blank EXCEPT !.kind = kind, !.dir = dir, !.status = "running"]]
  /\ overlap' = IF target = NoPull THEN overlap ELSE overlap \cup {last + 1}
  /\ pc' = "init"
  /\ UNCHANGED <<worktree, lookup, disk, built, handed, lost, stops>>

\* A failed init short-circuits.
TofuInit ==
  /\ pc = "init"
  /\ pc' \in {"finishFail", IF meta[last].kind = "plan" THEN "record" ELSE "list"}
  /\ UNCHANGED <<worktree, last, lookup, meta, disk, built, history, lost, stops>>

\* HEAD cannot be read, or the write fails: the plan runs all the same.
RecordPlanHead ==
  /\ pc = "record"
  /\ \/ meta' = [meta EXCEPT ![last].headSHA = head] /\ UNCHANGED lost
     \/ Fault(last, "head") /\ UNCHANGED meta
  /\ pc' = "planning"
  /\ UNCHANGED <<worktree, last, lookup, disk, built, history, stops>>

TofuPlan ==
  /\ pc = "planning"
  /\ \/ /\ disk' = disk \cup {last}
        /\ built' = [built EXCEPT ![last] = tree]
        /\ pc' = "finishOk"
     \/ /\ pc' = "finishFail"
        /\ UNCHANGED <<disk, built>>
  /\ UNCHANGED <<worktree, last, lookup, meta, history, lost, stops>>

\* List: succeeded plans of the directory, newest first, at most one.
Listed == {p \in Runs : /\ meta[p].kind = "plan"
                        /\ meta[p].status = "succeeded"
                        /\ meta[p].dir = meta[last].dir}

\* Mutant of FindPlan: the sort puts the oldest match first.
FindOldestPlan ==
  /\ pc = "list"
  /\ cand' \in IF Listed = {} THEN {NoRun}
               ELSE {p \in Listed : \A q \in Listed : p <= q}
  /\ pc' = "check"
  /\ UNCHANGED <<worktree, last, prior, meta, disk, built, history, lost, stops>>

FindPlan ==
  /\ pc = "list"
  /\ cand' \in IF Listed = {} THEN {NoRun}
               ELSE {p \in Listed : \A q \in Listed : q <= p}
  /\ pc' = "check"
  /\ UNCHANGED <<worktree, last, prior, meta, disk, built, history, lost, stops>>

\* Mutant of Usable: plan_file is trusted, the file is not looked for.
UsableUnchecked(p) == p # NoRun /\ meta[p].planFile

Usable(p) == p # NoRun /\ meta[p].planFile /\ p \in disk

\* Mutant of CheckPlan: the commits are not compared.
CheckOnlyExistence ==
  /\ pc = "check"
  /\ \/ Usable(cand) /\ prior' = cand
     \/ prior' = NoRun
  /\ pc' = "start"
  /\ UNCHANGED <<worktree, last, cand, meta, disk, built, history, lost, stops>>

\* The freshness gate, then the file must be there.  Anything else, also a
\* HEAD that cannot be read, means an inline apply.
CheckPlan ==
  /\ pc = "check"
  /\ \/ Usable(cand) /\ meta[cand].headSHA = head /\ prior' = cand
     \/ prior' = NoRun
  /\ pc' = "start"
  /\ UNCHANGED <<worktree, last, cand, meta, disk, built, history, lost, stops>>

\* tofu apply starts; a saved plan that is gone by now makes it exit at once.
StartApply ==
  /\ pc = "start"
  /\ handed' = IF prior = NoRun THEN handed ELSE handed \cup {<<last, prior>>}
  /\ pc' = IF prior = NoRun \/ prior \in disk THEN "applying" ELSE "finishFail"
  /\ UNCHANGED <<worktree, last, lookup, meta, disk, built, overlap, lost, stops>>

\* Exit status 0 within the deadline, or anything else.
ExitApply ==
  /\ pc = "applying"
  /\ pc' \in {"finishFail", IF prior = NoRun THEN "finishOk" ELSE "remove"}
  /\ UNCHANGED <<worktree, last, lookup, meta, disk, built, history, lost, stops>>

\* consumePlanArtifact: neither failure keeps the other step from running.
RemoveArtifact ==
  /\ pc = "remove"
  /\ \/ Unlink(prior) /\ UNCHANGED lost
     \/ Fault(prior, "remove") /\ UNCHANGED <<disk, built, overlap>>
  /\ pc' = "clear"
  /\ UNCHANGED <<worktree, last, lookup, meta, handed, stops>>

ClearPlanFile ==
  /\ pc = "clear"
  /\ \/ /\ meta[prior].status # "removed"
        /\ meta' = [meta EXCEPT ![prior].planFile = FALSE]
        /\ UNCHANGED lost
     \/ /\ meta[prior].status = "removed"
        /\ UNCHANGED <<meta, lost>>
     \/ Fault(prior, "clear") /\ UNCHANGED meta
  /\ pc' = "finishOk"
  /\ UNCHANGED <<worktree, last, lookup, disk, built, history, stops>>

\* Queue.finish; a lost write leaves the run `running` for the next sweep.
Finish ==
  /\ pc \in {"finishOk", "finishFail"}
  /\ \/ /\ meta' = [meta EXCEPT
             ![last].status = IF pc = "finishOk" THEN "succeeded" ELSE "failed",
             ![last].planFile = pc = "finishOk" /\ meta[last].kind = "plan"]
        /\ UNCHANGED lost
     \/ Fault(last, "finish") /\ UNCHANGED meta
  /\ pc' = "idle"
  /\ cand' = NoRun /\ prior' = NoRun
  /\ overlap' = overlap \cap disk
  /\ UNCHANGED <<worktree, last, disk, built, handed, stops>>

-----------------------------------------------------------------------------
(* What takes no mutex                                                     *)

\* git refuses to start over an unclean tree or beside another pull.
StartPull(c) ==
  /\ target = NoPull
  /\ tree # Unclean
  /\ c # head
  /\ c > head \/ Pinned
  /\ target' = c
  /\ tree' = Unclean
  /\ overlap' = IF pc = "idle" THEN overlap ELSE overlap \cup {last}
  /\ UNCHANGED <<head, pc, last, lookup, meta, disk, built, handed, lost, stops>>

EndPull ==
  /\ target # NoPull
  /\ head' = target
  /\ tree' = target
  /\ target' = NoPull
  /\ UNCHANGED <<pc, last, lookup, meta, disk, built, history, lost, stops>>

\* The handler's two minutes are over and git is killed halfway.
KillPull ==
  /\ target # NoPull
  /\ target' = NoPull
  /\ UNCHANGED <<head, tree, pc, last, lookup, meta, disk, built, history, lost,
                 stops>>

\* Rotate's RemoveAll of a finished run, file by file in either order.
RotateArtifact(r) ==
  /\ \/ meta[r].status = "removed"
     \/ Mishaps < MaxMishaps /\ meta[r].status \in Finished
  /\ r \in disk
  /\ Unlink(r)
  /\ UNCHANGED <<worktree, pc, last, lookup, meta, handed, lost, stops>>

RotateMeta(r) ==
  /\ Mishaps < MaxMishaps
  /\ meta[r].status \in Finished
  /\ meta' = [meta EXCEPT ![r].status = "removed"]
  /\ UNCHANGED <<worktree, pc, last, lookup, disk, built, history, lost, stops>>

\* The container is lost with its processes, and the next one sweeps.  The
\* clone is there, so boot leaves the working tree as it is.
Restart ==
  /\ Mishaps < MaxMishaps
  /\ stops' = stops + 1
  /\ pc' = "idle"
  /\ cand' = NoRun /\ prior' = NoRun
  /\ target' = NoPull
  /\ overlap' = overlap \cap disk
  /\ meta' = [r \in Runs |->
                IF meta[r].status = "running"
                THEN [meta[r] EXCEPT !.status = "interrupted"] ELSE meta[r]]
  /\ UNCHANGED <<head, tree, last, disk, built, handed, lost>>

-----------------------------------------------------------------------------

RunJob ==
  \/ \E kind \in {"plan", "apply"}, d \in Dirs : StartRun(kind, d)
  \/ TofuInit \/ RecordPlanHead \/ TofuPlan
  \/ FindPlan \/ CheckPlan \/ StartApply \/ ExitApply
  \/ RemoveArtifact \/ ClearPlanFile \/ Finish

Pull == EndPull \/ KillPull \/ \E c \in Commits : StartPull(c)

Next ==
  \/ RunJob
  \/ Pull
  \/ \E r \in Runs : RotateArtifact(r) \/ RotateMeta(r)
  \/ Restart

Spec == Init /\ [][Next]_vars

-----------------------------------------------------------------------------
(* Properties                                                              *)

Metadata == [kind : {"none", "plan", "apply"}, dir : Dirs \cup {NoDir},
             status : {"absent", "running", "removed"} \cup Finished,
             headSHA : Commits \cup {Unknown}, planFile : BOOLEAN]

\* The values the variables may take.
TypeOK ==
  /\ head \in Commits
  /\ tree \in Commits \cup {Unclean}
  /\ target \in Commits \cup {NoPull}
  /\ pc \in Position
  /\ last \in 0 .. MaxRuns
  /\ cand \in Runs \cup {NoRun}
  /\ prior \in Runs \cup {NoRun}
  /\ meta \in [Runs -> Metadata]
  /\ pc # "idle" => last \in Runs /\ meta[last].status = "running"
  /\ disk \subseteq Runs
  /\ built \in [Runs -> Commits \cup {Unclean}]
  /\ handed \subseteq Runs \X Runs
  /\ overlap \subseteq Runs

\* The freshness gate does its work: tofu is started on a saved plan that was
\* computed from the commit the repository is on now, whatever pulls (of a
\* moving ref, back and forth), restarts and failed writes came between the
\* plan and the apply, as long as no pull ran during either of the two.  Once
\* a killed pull has left the tree in pieces, the plan may be of the pieces.
FreshWithoutPull ==
  [][\A a, p \in Runs :
       /\ <<a, p>> \in handed' \ handed
       /\ p \in disk
       /\ {a, p} \cap overlap = {}
       => built[p] \in {head, tree}]_vars

\* A plan whose apply is reported `succeeded` is never handed to tofu again,
\* even if the file could not be removed or plan_file could not be cleared:
\* it takes the failure of both steps to see the plan twice.
ConsumedNotReused ==
  [][\A p \in Runs :
       /\ \E a \in Runs : <<a, p>> \in handed /\ meta[a].status = "succeeded"
       /\ ~ {<<p, "remove">>, <<p, "clear">>} \subseteq lost
       => \A b \in Runs : <<b, p>> \in handed' => <<b, p>> \in handed]_vars

\* An apply is never handed a plan behind which the client has seen a newer
\* plan of the same directory succeed: neither a consumed nor a stale nor a
\* swept newer plan makes the older one come back.
SupersededNotHanded ==
  [][\A a, p \in Runs : <<a, p>> \in handed' \ handed =>
       ~ \E q \in Runs : /\ q > p
                         /\ meta[q].kind = "plan"
                         /\ meta[q].status = "succeeded"
                         /\ meta[q].dir = meta[a].dir]_vars

\* store.go: plan_file "is CLEARED once an apply has consumed the artifact,
\* so the same saved plan is never handed to tofu twice".
PlanHandedOnce ==
  \A a, b, p \in Runs : <<a, p>> \in handed /\ <<b, p>> \in handed => a = b

\* store.go: "an apply must refuse an artifact whose HeadSHA no longer
\* matches the working tree".
StalePlanRefused ==
  [][\A a, p \in Runs : <<a, p>> \in handed' \ handed => meta[p].headSHA = head]_vars
=============================================================================
