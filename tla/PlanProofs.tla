----------------------------- MODULE PlanProofs -----------------------------
(***************************************************************************)
(* Theorems about PlanArtifacts, for every number of runs, commits and     *)
(* directories, and for any number of mishaps.                             *)
(***************************************************************************)
EXTENDS PlanArtifacts, TLAPS

-----------------------------------------------------------------------------
(* The inductive invariant                                                 *)

\* Runs that have not begun have no metadata, artifact or apply.
Numbered ==
  /\ \A r \in Runs : r > last => meta[r] = Blank /\ r \notin disk
  /\ \A r \in Runs : meta[r].kind = "plan" \/ r \notin disk
  /\ pc # "idle" => meta[last].dir \in Dirs /\ meta[last].kind # "none"
  /\ pc \in {"record", "planning"} => meta[last].kind = "plan" /\ last \notin disk
  /\ pc = "init" => last \notin disk
  /\ pc \in {"init", "record"} => meta[last].headSHA = Unknown
  /\ pc \in {"list", "check", "start", "applying", "remove", "clear"} =>
       meta[last].kind = "apply"
  /\ pc \in {"idle", "init", "record", "planning", "list"} => cand = NoRun
  /\ pc \in {"idle", "init", "record", "planning", "list", "check"} => prior = NoRun

\* The files and HEAD part only while a pull is under way or after it was killed,
\* and a run that no pull has touched sees no pull.
Pulls ==
  /\ target # NoPull => tree = Unclean
  /\ tree \in {head, Unclean}
  /\ pc # "idle" /\ last \notin overlap => target = NoPull

\* A plan on disk that no pull has touched is of the commit it was recorded with,
\* or of the pieces that a killed pull left for good.
Recorded ==
  /\ pc \in {"planning"} /\ last \notin overlap => meta[last].headSHA \in {head, Unknown}
  /\ \A p \in disk \ overlap :
       \/ meta[p].headSHA \in {built[p], Unknown}
       \/ built[p] = Unclean /\ tree = Unclean /\ target = NoPull

\* What the executing apply has found: the newest succeeded plan of its directory.
Newest(p) ==
  /\ p \in Runs /\ p < last /\ meta[p].kind = "plan"
  /\ \A q \in Runs : q > p /\ meta[q].kind = "plan" /\ meta[q].dir = meta[last].dir
                     => meta[q].status # "succeeded"

Looked ==
  /\ pc = "check" /\ cand # NoRun => Newest(cand)
  /\ pc = "start" /\ prior # NoRun =>
       Newest(prior) /\ (last \notin overlap => meta[prior].headSHA = head)
  /\ prior # NoRun => prior < last

\* Only the executing run has an apply under way, and it is of `prior`.
Handed ==
  \A a, p \in Runs : <<a, p>> \in handed =>
    /\ p < a /\ a <= last
    /\ pc # "idle" /\ a = last =>
         p = prior /\ pc \in {"applying", "remove", "clear", "finishOk", "finishFail"}

Lost(p) == {<<p, "remove">>, <<p, "clear">>} \subseteq lost

\* Nobody can use p as a saved plan.
Spent(p) == p \notin disk \/ ~meta[p].planFile \/ Lost(p)

\* A plan consumed by a successful apply is spent, or its metadata is gone.
Consumed ==
  /\ \A a, p \in Runs : <<a, p>> \in handed /\ meta[a].status = "succeeded" =>
       /\ Spent(p) \/ meta[p].status = "removed"
       /\ pc = "check" /\ cand = p => Spent(p)
       /\ pc = "start" /\ prior = p => Lost(p)
  /\ pc = "clear" => prior \notin disk \/ <<prior, "remove">> \in lost
  /\ pc = "finishOk" /\ prior # NoRun => Spent(prior) \/ meta[prior].status = "removed"
  /\ pc \in {"remove", "clear"} => prior # NoRun

PlanInv ==
  Numbered /\ Pulls /\ Recorded /\ Looked /\ Handed /\ Consumed

-----------------------------------------------------------------------------
(* Types                                                                   *)

LEMMA Names ==
  /\ Position = {"idle", "init", "record", "planning", "list", "check", "start",
                 "applying", "remove", "clear", "finishOk", "finishFail"}
  /\ Finished = {"succeeded", "failed", "interrupted"}
  /\ 0 = NoRun /\ 0 = Unknown /\ 0 = Unclean /\ 0 = NoPull
BY DEF Position, Finished, NoRun, Unknown, Unclean, NoPull

LEMMA MetadataTyped ==
  /\ Blank \in Metadata
  /\ \A m \in Metadata :
       /\ \A c \in Commits : [m EXCEPT !.headSHA = c] \in Metadata
       /\ \A b \in BOOLEAN : [m EXCEPT !.planFile = b] \in Metadata
       /\ \A t \in {"running", "removed"} \cup Finished : [m EXCEPT !.status = t] \in Metadata
       /\ \A t \in Finished, b \in BOOLEAN :
            [m EXCEPT !.status = t, !.planFile = b] \in Metadata
  /\ \A k \in {"plan", "apply"}, d \in Dirs :
       [Blank EXCEPT !.kind = k, !.dir = d, !.status = "running"] \in Metadata
BY DEF Metadata, Blank

LEMMA InitInv == Init => TypeOK /\ PlanInv
BY PlanAssumption, Names
   DEF Init, TypeOK, Metadata, PlanInv, Numbered, Pulls, Recorded, Looked, Newest, Handed, Consumed,
       Spent, Lost, Blank, Runs, Commits

LEMMA RunTypeOK ==
  ASSUME TypeOK, RunJob
  PROVE  TypeOK'
<1> USE PlanAssumption, Names DEF TypeOK, Runs, Commits, Fault, Unlink, worktree, lookup, history
<1>1. ASSUME NEW kind \in {"plan", "apply"}, NEW dir \in Dirs, StartRun(kind, dir) PROVE TypeOK'
  <2>1. last + 1 \in Runs
    BY <1>1 DEF StartRun
  <2> DEFINE m == [Blank EXCEPT !.kind = kind, !.dir = dir, !.status = "running"]
  <2>2. m \in Metadata /\ m.status = "running"
    BY MetadataTyped DEF Blank
  <2>3. last' = last + 1 /\ meta' = [meta EXCEPT ![last + 1] = m]
    BY <1>1 DEF StartRun
  <2>4. meta' \in [Runs -> Metadata] /\ meta'[last'].status = "running"
    BY <2>1, <2>2, <2>3
  <2> QED
    BY <1>1, <2>1, <2>3, <2>4 DEF StartRun
<1>2. CASE TofuInit
  BY <1>2 DEF TofuInit
<1>3. CASE RecordPlanHead
  <2>1. meta' \in [Runs -> Metadata] /\ meta'[last].status = "running"
    <3> DEFINE m == [meta[last] EXCEPT !.headSHA = head]
    <3>1. last \in Runs /\ m \in Metadata
      BY <1>3, MetadataTyped DEF RecordPlanHead
    <3>2. meta' = meta \/ meta' = [meta EXCEPT ![last] = m]
      BY <1>3 DEF RecordPlanHead
    <3>3. m.status = meta[last].status
      BY <3>1 DEF Metadata
    <3> QED
      BY <1>3, <3>1, <3>2, <3>3 DEF RecordPlanHead
  <2> QED
    BY <1>3, <2>1 DEF RecordPlanHead
<1>4. CASE TofuPlan
  BY <1>4 DEF TofuPlan
<1>5. CASE FindPlan
  BY <1>5 DEF FindPlan, Listed
<1>6. CASE CheckPlan
  BY <1>6 DEF CheckPlan, Usable
<1>7. CASE StartApply
  BY <1>7 DEF StartApply
<1>8. CASE ExitApply
  BY <1>8 DEF ExitApply
<1>9. CASE RemoveArtifact
  BY <1>9 DEF RemoveArtifact
<1>10. CASE ClearPlanFile
  <2>1. meta' \in [Runs -> Metadata] /\ meta'[last].status = meta[last].status
    <3> DEFINE m == [meta[prior] EXCEPT !.planFile = FALSE]
    <3>1. prior \in Runs => m \in Metadata
      BY MetadataTyped
    <3>2. meta' = meta \/ meta' = [meta EXCEPT ![prior] = m]
      BY <1>10 DEF ClearPlanFile
    <3>3. m.status = meta[prior].status \/ prior \notin Runs
      BY DEF Metadata
    <3> QED
      BY <1>10, <3>1, <3>2, <3>3 DEF ClearPlanFile
  <2> QED
    BY <1>10, <2>1 DEF ClearPlanFile
<1>11. CASE Finish
  <2>1. meta' \in [Runs -> Metadata]
    <3> DEFINE ok == pc = "finishOk"
               m  == [meta[last] EXCEPT !.status = IF ok THEN "succeeded" ELSE "failed",
                                        !.planFile = ok /\ meta[last].kind = "plan"]
    <3>1. last \in Runs /\ m \in Metadata
      BY <1>11, MetadataTyped DEF Finish
    <3>2. meta' = meta \/ meta' = [meta EXCEPT ![last] = m]
      BY <1>11 DEF Finish
    <3> QED
      BY <3>1, <3>2
  <2> QED
    BY <1>11, <2>1 DEF Finish
<1> QED
  BY <1>1, <1>2, <1>3, <1>4, <1>5, <1>6, <1>7, <1>8, <1>9, <1>10, <1>11 DEF RunJob

LEMMA OutsideTypeOK ==
  ASSUME TypeOK, Pull \/ Restart \/ \E r \in Runs : RotateArtifact(r) \/ RotateMeta(r)
  PROVE  TypeOK'
<1> USE PlanAssumption, Names DEF TypeOK, Runs, Commits, Unlink, worktree, lookup, history
<1>1. CASE Pull
  BY <1>1 DEF Pull, EndPull, KillPull, StartPull
<1>2. CASE Restart
  <2>1. meta' \in [Runs -> Metadata]
    BY <1>2, MetadataTyped DEF Restart
  <2> QED
    BY <1>2, <2>1 DEF Restart
<1>3. ASSUME NEW r \in Runs, RotateArtifact(r) PROVE TypeOK'
  BY <1>3 DEF RotateArtifact
<1>4. ASSUME NEW r \in Runs, RotateMeta(r) PROVE TypeOK'
  <2>1. meta' \in [Runs -> Metadata] /\ \A o \in Runs \ {r} : meta'[o] = meta[o]
    BY <1>4, MetadataTyped DEF RotateMeta
  <2>2. meta[r].status # "running"
    BY <1>4 DEF RotateMeta
  <2> QED
    BY <1>4, <2>1, <2>2 DEF RotateMeta
<1> QED
  BY <1>1, <1>2, <1>3, <1>4

-----------------------------------------------------------------------------
(* The steps preserve the invariant                                        *)

\* What the three steps that rewrite meta.json of an existing run change.
LEMMA RecordFields ==
  ASSUME TypeOK, RecordPlanHead
  PROVE  /\ last \in Runs
         /\ \A r \in Runs \ {last} : meta'[r] = meta[r]
         /\ meta'[last].kind = meta[last].kind /\ meta'[last].dir = meta[last].dir
         /\ meta'[last].headSHA \in {meta[last].headSHA, head}
<1> DEFINE m == [meta[last] EXCEPT !.headSHA = head]
<1>1. last \in Runs /\ (meta' = meta \/ meta' = [meta EXCEPT ![last] = m])
  BY Names DEF RecordPlanHead, TypeOK
<1>2. m.kind = meta[last].kind /\ m.dir = meta[last].dir /\ m.headSHA = head
  BY <1>1 DEF TypeOK, Metadata
<1> QED
  BY <1>1, <1>2 DEF TypeOK

LEMMA ClearFields ==
  ASSUME TypeOK, ClearPlanFile, prior \in Runs
  PROVE  /\ \A r \in Runs \ {prior} : meta'[r] = meta[r]
         /\ meta'[prior].kind = meta[prior].kind /\ meta'[prior].dir = meta[prior].dir
         /\ meta'[prior].headSHA = meta[prior].headSHA
         /\ meta'[prior].status = meta[prior].status
         /\ \/ ~meta'[prior].planFile
            \/ meta[prior].status = "removed" \/ <<prior, "clear">> \in lost'
<1> DEFINE m == [meta[prior] EXCEPT !.planFile = FALSE]
<1>1. \/ meta' = [meta EXCEPT ![prior] = m]
      \/ meta' = meta /\ (meta[prior].status = "removed" \/ <<prior, "clear">> \in lost')
  BY DEF ClearPlanFile, Fault
<1>2. /\ m.kind = meta[prior].kind /\ m.dir = meta[prior].dir
      /\ m.headSHA = meta[prior].headSHA /\ m.status = meta[prior].status
      /\ ~m.planFile
  BY DEF TypeOK, Metadata
<1> QED
  BY <1>1, <1>2 DEF TypeOK

LEMMA FinishFields ==
  ASSUME TypeOK, Finish
  PROVE  /\ last \in Runs
         /\ \A r \in Runs \ {last} : meta'[r] = meta[r]
         /\ meta'[last].kind = meta[last].kind /\ meta'[last].dir = meta[last].dir
         /\ meta'[last].headSHA = meta[last].headSHA
         /\ meta'[last].status = "succeeded" => pc = "finishOk"
<1> DEFINE m == [meta[last] EXCEPT !.status = IF pc = "finishOk" THEN "succeeded" ELSE "failed",
                                   !.planFile = pc = "finishOk" /\ meta[last].kind = "plan"]
<1>1. /\ last \in Runs /\ meta[last].status = "running"
      /\ meta' = meta \/ meta' = [meta EXCEPT ![last] = m]
  BY Names DEF Finish, TypeOK
<1>2. /\ m.kind = meta[last].kind /\ m.dir = meta[last].dir
      /\ m.headSHA = meta[last].headSHA /\ (m.status = "succeeded" => pc = "finishOk")
  BY <1>1 DEF TypeOK, Metadata
<1> QED
  BY <1>1, <1>2 DEF TypeOK

LEMMA RunKeepsNumbered ==
  ASSUME TypeOK, PlanInv, RunJob
  PROVE  Numbered'
<1> USE PlanAssumption, Names
        DEF TypeOK, PlanInv, Numbered, Runs, Fault, Unlink, worktree, lookup, history
<1>1. ASSUME NEW kind \in {"plan", "apply"}, NEW dir \in Dirs, StartRun(kind, dir)
      PROVE  Numbered'
  <2> DEFINE m == [Blank EXCEPT !.kind = kind, !.dir = dir, !.status = "running"]
  <2>1. m.kind = kind /\ m.dir = dir /\ m.headSHA = Unknown
    BY DEF Blank
  <2>2. last' = last + 1 /\ last + 1 \in Runs /\ meta' = [meta EXCEPT ![last + 1] = m]
    BY <1>1 DEF StartRun
  <2>3. meta'[last'] = m /\ last + 1 \notin disk /\ disk' = disk
    BY <1>1, <2>2 DEF StartRun
  <2>4. \A r \in Runs \ {last + 1} : meta'[r] = meta[r]
    BY <2>2
  <2> QED
    BY <1>1, <2>1, <2>2, <2>3, <2>4 DEF StartRun
<1>2. CASE TofuInit
  <2>1. meta[last].kind \in {"plan", "apply"}
    BY <1>2 DEF TofuInit, Metadata
  <2> QED
    BY <1>2, <2>1 DEF TofuInit
<1>3. CASE RecordPlanHead
  BY <1>3, RecordFields DEF RecordPlanHead
<1>4. CASE TofuPlan
  BY <1>4 DEF TofuPlan
<1>5. CASE FindPlan
  BY SMTT(30), <1>5 DEF FindPlan
<1>6. CASE CheckPlan
  BY SMTT(30), <1>6 DEF CheckPlan
<1>7. CASE StartApply \/ ExitApply
  BY <1>7 DEF StartApply, ExitApply
<1>8. CASE RemoveArtifact
  BY <1>8 DEF RemoveArtifact
<1>9. CASE ClearPlanFile
  <2>1. prior \in Runs /\ prior < last
    BY <1>9 DEF ClearPlanFile, Consumed, Looked
  <2>2. /\ \A r \in Runs : meta'[r].kind = meta[r].kind /\ (r >= last => meta'[r] = meta[r])
        /\ last \in Runs
    BY <1>9, <2>1, ClearFields DEF ClearPlanFile
  <2>3. /\ UNCHANGED <<last, disk, prior, cand>>
        /\ pc = "clear" /\ pc' = "finishOk"
    BY <1>9 DEF ClearPlanFile
  <2> QED
    BY SMTT(30), <2>2, <2>3
<1>10. CASE Finish
  BY <1>10, FinishFields DEF Finish
<1> QED
  BY <1>1, <1>2, <1>3, <1>4, <1>5, <1>6, <1>7, <1>8, <1>9, <1>10 DEF RunJob

LEMMA RunKeepsPulls ==
  ASSUME TypeOK, PlanInv, RunJob
  PROVE  Pulls'
<1> USE PlanAssumption, Names
        DEF TypeOK, PlanInv, Pulls, Looked, Runs, Fault, Unlink, worktree, lookup, history
<1>1. ASSUME NEW kind \in {"plan", "apply"}, NEW dir \in Dirs, StartRun(kind, dir)
      PROVE  Pulls'
  BY <1>1 DEF StartRun
<1>2. CASE TofuInit \/ RecordPlanHead \/ TofuPlan \/ FindPlan \/ CheckPlan
  BY <1>2 DEF TofuInit, RecordPlanHead, TofuPlan, FindPlan, CheckPlan
<1>3. CASE StartApply \/ ExitApply \/ RemoveArtifact \/ ClearPlanFile \/ Finish
  BY <1>3 DEF StartApply, ExitApply, RemoveArtifact, ClearPlanFile, Finish, Consumed
<1> QED
  BY <1>1, <1>2, <1>3 DEF RunJob

LEMMA RunKeepsRecorded ==
  ASSUME TypeOK, PlanInv, RunJob
  PROVE  Recorded'
<1> USE PlanAssumption, Names
        DEF TypeOK, PlanInv, Recorded, Runs, Fault, Unlink, worktree, lookup, history
<1>1. ASSUME NEW kind \in {"plan", "apply"}, NEW dir \in Dirs, StartRun(kind, dir)
      PROVE  Recorded'
  BY <1>1 DEF StartRun, Numbered
<1>2. CASE TofuInit
  BY <1>2 DEF TofuInit
<1>3. CASE RecordPlanHead
  BY <1>3, RecordFields DEF RecordPlanHead, Numbered
<1>4. CASE TofuPlan
  BY ZenonT(60), <1>4 DEF TofuPlan, Pulls, Numbered
<1>5. CASE FindPlan \/ CheckPlan \/ StartApply \/ ExitApply
  BY <1>5 DEF FindPlan, CheckPlan, StartApply, ExitApply
<1>6. CASE RemoveArtifact
  BY <1>6 DEF RemoveArtifact
<1>7. CASE ClearPlanFile
  <2>1. prior \in Runs
    BY <1>7 DEF ClearPlanFile, Consumed
  <2> QED
    BY <1>7, <2>1, ClearFields DEF ClearPlanFile
<1>8. CASE Finish
  BY <1>8, FinishFields DEF Finish
<1> QED
  BY <1>1, <1>2, <1>3, <1>4, <1>5, <1>6, <1>7, <1>8 DEF RunJob

LEMMA RunKeepsLooked ==
  ASSUME TypeOK, PlanInv, RunJob
  PROVE  Looked'
<1> USE PlanAssumption, Names
        DEF TypeOK, PlanInv, Looked, Newest, Runs, Fault, Unlink, worktree, lookup, history
<1>1. ASSUME NEW kind \in {"plan", "apply"}, NEW dir \in Dirs, StartRun(kind, dir)
      PROVE  Looked'
  BY <1>1 DEF StartRun, Numbered
<1>2. CASE TofuInit \/ RecordPlanHead \/ TofuPlan
  BY <1>2 DEF TofuInit, RecordPlanHead, TofuPlan, Numbered
<1>3. CASE FindPlan
  BY <1>3 DEF FindPlan, Listed, Numbered, Blank
<1>4. CASE CheckPlan
  BY <1>4 DEF CheckPlan, Usable
<1>5. CASE StartApply \/ ExitApply \/ RemoveArtifact \/ ClearPlanFile \/ Finish
  BY <1>5 DEF StartApply, ExitApply, RemoveArtifact, ClearPlanFile, Finish
<1> QED
  BY <1>1, <1>2, <1>3, <1>4, <1>5 DEF RunJob

LEMMA RunKeepsHanded ==
  ASSUME TypeOK, PlanInv, RunJob
  PROVE  Handed'
<1> USE PlanAssumption, Names
        DEF TypeOK, PlanInv, Handed, Runs, Fault, Unlink, worktree, lookup, history
<1>1. ASSUME NEW kind \in {"plan", "apply"}, NEW dir \in Dirs, StartRun(kind, dir)
      PROVE  Handed'
  BY <1>1 DEF StartRun
<1>2. CASE TofuInit \/ RecordPlanHead \/ TofuPlan \/ FindPlan \/ CheckPlan
  BY <1>2 DEF TofuInit, RecordPlanHead, TofuPlan, FindPlan, CheckPlan
<1>3. CASE StartApply
  BY <1>3 DEF StartApply, Looked
<1>4. CASE ExitApply \/ RemoveArtifact \/ ClearPlanFile \/ Finish
  BY <1>4 DEF ExitApply, RemoveArtifact, ClearPlanFile, Finish
<1> QED
  BY <1>1, <1>2, <1>3, <1>4 DEF RunJob

LEMMA RunKeepsConsumed ==
  ASSUME TypeOK, PlanInv, RunJob
  PROVE  Consumed'
<1> USE PlanAssumption, Names
        DEF TypeOK, PlanInv, Consumed, Handed, Spent, Lost, Runs, Fault, Unlink,
            worktree, lookup, history
<1>1. ASSUME NEW kind \in {"plan", "apply"}, NEW dir \in Dirs, StartRun(kind, dir)
      PROVE  Consumed'
  <2> DEFINE m == [Blank EXCEPT !.kind = kind, !.dir = dir, !.status = "running"]
  <2>1. m.status = "running"
    BY DEF Blank
  <2>2. last' = last + 1 /\ last + 1 \in Runs /\ meta'[last + 1] = m
    BY <1>1 DEF StartRun
  <2>3. \A r \in Runs \ {last + 1} : meta'[r] = meta[r]
    BY <1>1 DEF StartRun
  <2>4. UNCHANGED <<disk, lost, handed, cand, prior>> /\ pc' = "init" /\ pc = "idle"
    BY <1>1 DEF StartRun
  <2>5. \A a, p \in Runs : <<a, p>> \in handed => meta'[a] = meta[a] /\ meta'[p] = meta[p]
    BY <2>3
  <2>6. \A a, p \in Runs : <<a, p>> \in handed' /\ meta'[a].status = "succeeded" =>
          Spent(p)' \/ meta'[p].status = "removed"
    BY <2>4, <2>5
  <2> QED
    BY <2>4, <2>6
<1>2. CASE TofuInit
  BY <1>2 DEF TofuInit, Numbered
<1>3. CASE RecordPlanHead
  <2>1. \A r \in Runs : meta'[r].status = meta[r].status /\ meta'[r].planFile = meta[r].planFile
    <3> DEFINE m == [meta[last] EXCEPT !.headSHA = head]
    <3>1. m.status = meta[last].status /\ m.planFile = meta[last].planFile
      BY <1>3 DEF RecordPlanHead, Metadata
    <3> QED
      BY <1>3, <3>1 DEF RecordPlanHead
  <2> QED
    BY <1>3, <2>1 DEF RecordPlanHead
<1>4. CASE TofuPlan
  BY <1>4 DEF TofuPlan, Numbered
<1>5. CASE FindPlan
  BY <1>5 DEF FindPlan, Listed
<1>6. CASE CheckPlan
  BY <1>6 DEF CheckPlan, Usable
<1>7. CASE StartApply
  BY <1>7 DEF StartApply
<1>8. CASE ExitApply
  BY <1>8 DEF ExitApply
<1>9. CASE RemoveArtifact
  BY <1>9 DEF RemoveArtifact
<1>10. CASE ClearPlanFile
  <2>1. prior \in Runs
    BY <1>10 DEF ClearPlanFile
  <2>2. UNCHANGED <<disk, handed, prior, cand, last>> /\ pc = "clear" /\ pc' = "finishOk"
    BY <1>10 DEF ClearPlanFile
  <2>3. lost \subseteq lost'
    BY <1>10 DEF ClearPlanFile
  <2>4. \A r \in Runs : /\ meta'[r].status = meta[r].status
                        /\ meta'[r].planFile => meta[r].planFile
    <3> DEFINE m == [meta[prior] EXCEPT !.planFile = FALSE]
    <3>1. ~m.planFile
      BY <2>1 DEF Metadata
    <3>2. meta' \in {meta, [meta EXCEPT ![prior] = m]}
      BY <1>10 DEF ClearPlanFile
    <3> QED
      BY <1>10, <2>1, <3>1, <3>2, ClearFields
  <2>5. Spent(prior)' \/ meta'[prior].status = "removed"
    BY <1>10, <2>1, <2>2, <2>3, ClearFields
  <2> QED
    BY <2>2, <2>3, <2>4, <2>5
<1>11. CASE Finish
  <2>1. /\ UNCHANGED <<disk, handed, last>> /\ lost \subseteq lost' /\ pc' = "idle"
        /\ pc \in {"finishOk", "finishFail"}
    BY <1>11 DEF Finish
  <2>2. \A a, p \in Runs : <<a, p>> \in handed =>
          /\ p # last /\ meta'[p] = meta[p]
          /\ a # last => meta'[a] = meta[a]
          /\ a = last => p = prior /\ (meta'[a].status = "succeeded" => pc = "finishOk")
    BY <1>11, FinishFields, <2>1
  <2>3. \A a, p \in Runs : <<a, p>> \in handed' /\ meta'[a].status = "succeeded" =>
          Spent(p)' \/ meta'[p].status = "removed"
    <3> SUFFICES ASSUME NEW a \in Runs, NEW p \in Runs, <<a, p>> \in handed,
                        meta'[a].status = "succeeded"
                 PROVE  Spent(p)' \/ meta'[p].status = "removed"
      BY <2>1
    <3>1. CASE a = last
      <4>1. p = prior /\ prior # NoRun /\ pc = "finishOk"
        BY <2>2, <3>1
      <4> QED
        BY <2>1, <2>2, <4>1
    <3>2. CASE a # last
      <4>1. Spent(p) \/ meta[p].status = "removed"
        BY <2>2, <3>2
      <4> QED
        BY <2>1, <2>2, <4>1
    <3> QED
      BY <3>1, <3>2
  <2> QED
    BY <2>1, <2>3
<1> QED
  BY <1>1, <1>2, <1>3, <1>4, <1>5, <1>6, <1>7, <1>8, <1>9, <1>10, <1>11 DEF RunJob

LEMMA OutsideKeepsPlanInv ==
  ASSUME TypeOK, PlanInv, Pull \/ Restart \/ \E r \in Runs : RotateArtifact(r) \/ RotateMeta(r)
  PROVE  PlanInv'
<1> USE PlanAssumption, Names
        DEF TypeOK, PlanInv, Newest, Spent, Lost, Runs, Commits, Unlink, worktree, lookup, history
<1>1. CASE Pull
  <2>1. UNCHANGED <<pc, last, cand, prior, meta, disk, built, handed, lost>>
    BY <1>1 DEF Pull, EndPull, KillPull, StartPull
  <2>2. Numbered'
    BY <2>1 DEF Numbered
  <2>3. Pulls'
    BY <1>1, <2>1 DEF Pulls, Pull, EndPull, KillPull, StartPull
  <2>4. Recorded'
    BY <1>1, <2>1 DEF Recorded, Pulls, Pull, EndPull, KillPull, StartPull
  <2>5. Looked'
    BY <1>1, <2>1 DEF Looked, Pulls, Pull, EndPull, KillPull, StartPull
  <2>6. Handed' /\ Consumed'
    BY <2>1 DEF Handed, Consumed
  <2> QED
    BY <2>2, <2>3, <2>4, <2>5, <2>6
<1>2. CASE Restart
  <2>1. \A r \in Runs :
          /\ meta'[r].kind = meta[r].kind /\ meta'[r].dir = meta[r].dir
          /\ meta'[r].headSHA = meta[r].headSHA /\ meta'[r].planFile = meta[r].planFile
          /\ meta'[r].status \in {meta[r].status, "interrupted"}
          /\ meta'[r].status # meta[r].status => meta[r].status = "running"
          /\ meta[r].status # "running" => meta'[r] = meta[r]
    BY <1>2 DEF Restart, Metadata
  <2>2. Numbered'
    <3>1. Blank.status = "absent"
      BY DEF Blank
    <3>2. UNCHANGED <<last, disk>> /\ pc' = "idle" /\ cand' = NoRun /\ prior' = NoRun
      BY <1>2 DEF Restart
    <3> QED
      BY <2>1, <3>1, <3>2 DEF Numbered
  <2>3. Pulls' /\ Recorded'
    BY <1>2, <2>1 DEF Restart, Pulls, Recorded
  <2>4. Looked' /\ Handed' /\ Consumed'
    BY <1>2, <2>1 DEF Restart, Looked, Handed, Consumed
  <2> QED
    BY <2>2, <2>3, <2>4
<1>3. ASSUME NEW r \in Runs, RotateArtifact(r) PROVE PlanInv'
  <2>1. pc # "idle" => r # last
    BY <1>3 DEF RotateArtifact
  <2>2. Numbered' /\ Pulls' /\ Handed'
    BY <1>3, <2>1 DEF RotateArtifact, Numbered, Pulls, Handed
  <2>3. Recorded' /\ Looked' /\ Consumed'
    BY <1>3, <2>1 DEF RotateArtifact, Recorded, Looked, Consumed
  <2> QED
    BY <2>2, <2>3
<1>4. ASSUME NEW r \in Runs, RotateMeta(r) PROVE PlanInv'
  <2>1. /\ UNCHANGED <<pc, last, cand, prior, disk, built, handed, lost, head, tree, target, overlap>>
        /\ \A o \in Runs \ {r} : meta'[o] = meta[o]
        /\ meta[r].status \in {"succeeded", "failed", "interrupted"}
        /\ pc # "idle" => r # last
    BY <1>4 DEF RotateMeta
  <2>2. /\ meta'[r].kind = meta[r].kind /\ meta'[r].dir = meta[r].dir
        /\ meta'[r].headSHA = meta[r].headSHA /\ meta'[r].planFile = meta[r].planFile
        /\ meta'[r].status = "removed"
    BY <1>4 DEF RotateMeta, Metadata
  <2>3. Numbered'
    <3>1. Blank.status = "absent"
      BY DEF Blank
    <3>2. r > last => meta[r] = Blank
      BY DEF Numbered
    <3>3. r <= last
      <4>1. ~(r > last)
        BY <2>1, <3>1, <3>2
      <4> QED
        BY <4>1
    <3> QED
      BY <2>1, <2>2, <3>3 DEF Numbered
  <2>4. Pulls' /\ Recorded' /\ Handed'
    BY <2>1, <2>2 DEF Pulls, Recorded, Handed
  <2>5. Looked'
    BY <2>1, <2>2 DEF Looked
  <2>6. \A p \in Runs :
          /\ Spent(p) => Spent(p)'
          /\ meta[p].status = "removed" => meta'[p].status = "removed"
          /\ meta'[p].status = "succeeded" => meta[p].status = "succeeded"
    BY <2>1, <2>2
  <2>7. Consumed'
    BY ZenonT(60), <2>1, <2>6 DEF Consumed
  <2> QED
    BY <2>3, <2>4, <2>5, <2>7
<1> QED
  BY <1>1, <1>2, <1>3, <1>4

\* Types and the strengthening of the three properties hold in every reachable
\* state: what meta.json records about a plan agrees with the run that wrote it,
\* and what priorPlanFile has looked up stays true while it is being used.
THEOREM PlanInvariant == Spec => [](TypeOK /\ PlanInv)
<1>1. TypeOK /\ PlanInv /\ [Next]_vars => (TypeOK /\ PlanInv)'
  <2> SUFFICES ASSUME TypeOK, PlanInv, [Next]_vars PROVE TypeOK' /\ PlanInv'
    OBVIOUS
  <2>1. CASE RunJob
    BY <2>1, RunTypeOK, RunKeepsNumbered, RunKeepsPulls, RunKeepsRecorded, RunKeepsLooked,
       RunKeepsHanded, RunKeepsConsumed DEF PlanInv
  <2>2. CASE Pull \/ Restart \/ \E r \in Runs : RotateArtifact(r) \/ RotateMeta(r)
    BY <2>2, OutsideTypeOK, OutsideKeepsPlanInv
  <2>3. CASE UNCHANGED vars
    BY <2>3 DEF TypeOK, PlanInv, Numbered, Pulls, Recorded, Looked, Newest, Handed,
                Consumed, Spent, Lost, vars, worktree, lookup, history
  <2> QED
    BY <2>1, <2>2, <2>3 DEF Next
<1> QED
  BY <1>1, InitInv, PTL DEF Spec

-----------------------------------------------------------------------------
(* What a start of tofu on a saved plan may be                             *)

\* handed only grows, and only StartApply adds to it: the executing apply and
\* the plan it settled on.
LEMMA HandedBy ==
  ASSUME TypeOK, PlanInv, [Next]_vars
  PROVE  \/ UNCHANGED handed
         \/ StartApply /\ prior \in Runs /\ handed' = handed \cup {<<last, prior>>}
<1> USE DEF vars, worktree, lookup, history
<1>1. CASE RunJob
  BY <1>1, Names DEF RunJob, StartRun, TofuInit, RecordPlanHead, TofuPlan, FindPlan, CheckPlan,
     StartApply, ExitApply, RemoveArtifact, ClearPlanFile, Finish, TypeOK
<1>2. CASE Pull
  BY <1>2 DEF Pull, EndPull, KillPull, StartPull
<1>3. CASE Restart \/ \E r \in Runs : RotateArtifact(r) \/ RotateMeta(r)
  BY <1>3 DEF Restart, RotateArtifact, RotateMeta
<1> QED
  BY <1>1, <1>2, <1>3 DEF Next

\* For every number of runs: an older plan is never handed out past a newer one.
THEOREM NewestHanded == Spec => SupersededNotHanded
<1>1. TypeOK /\ PlanInv /\ [Next]_vars =>
        [\A a, p \in Runs : <<a, p>> \in handed' \ handed =>
           ~ \E q \in Runs : /\ q > p
                             /\ meta[q].kind = "plan"
                             /\ meta[q].status = "succeeded"
                             /\ meta[q].dir = meta[a].dir]_vars
  <2> SUFFICES ASSUME TypeOK, PlanInv, [Next]_vars,
                      NEW a \in Runs, NEW p \in Runs, <<a, p>> \in handed' \ handed,
                      NEW q \in Runs, q > p, meta[q].kind = "plan",
                      meta[q].status = "succeeded", meta[q].dir = meta[a].dir
               PROVE  FALSE
    OBVIOUS
  <2>1. pc = "start" /\ a = last /\ p = prior /\ prior # NoRun
    BY HandedBy, Names DEF StartApply, Runs
  <2> QED
    BY <2>1 DEF PlanInv, Looked, Newest
<1> QED
  BY <1>1, PlanInvariant, PTL DEF Spec, SupersededNotHanded

\* For any number of mishaps: only the loss of both clean-up steps brings back a
\* plan that was consumed.
THEOREM ConsumedOnce == Spec => ConsumedNotReused
<1>1. TypeOK /\ PlanInv /\ [Next]_vars =>
        [\A p \in Runs :
           /\ \E a \in Runs : <<a, p>> \in handed /\ meta[a].status = "succeeded"
           /\ ~ {<<p, "remove">>, <<p, "clear">>} \subseteq lost
           => \A b \in Runs : <<b, p>> \in handed' => <<b, p>> \in handed]_vars
  <2> SUFFICES ASSUME TypeOK, PlanInv, [Next]_vars, NEW p \in Runs,
                      NEW a \in Runs, <<a, p>> \in handed, meta[a].status = "succeeded",
                      ~ {<<p, "remove">>, <<p, "clear">>} \subseteq lost,
                      NEW b \in Runs, <<b, p>> \in handed', <<b, p>> \notin handed
               PROVE  FALSE
    OBVIOUS
  <2>1. pc = "start" /\ p = prior
    BY HandedBy DEF StartApply
  <2> QED
    BY <2>1 DEF PlanInv, Consumed, Lost
<1> QED
  BY <1>1, PlanInvariant, PTL DEF Spec, ConsumedNotReused

\* Whatever pulls, restarts and lost writes came in between: a plan that tofu is
\* started on is of the commit the repository is on.
THEOREM FreshHanded == Spec => FreshWithoutPull
<1>1. TypeOK /\ PlanInv /\ [Next]_vars =>
        [\A a, p \in Runs :
           /\ <<a, p>> \in handed' \ handed
           /\ p \in disk
           /\ {a, p} \cap overlap = {}
           => built[p] \in {head, tree}]_vars
  <2> SUFFICES ASSUME TypeOK, PlanInv, [Next]_vars,
                      NEW a \in Runs, NEW p \in Runs, <<a, p>> \in handed' \ handed,
                      p \in disk, {a, p} \cap overlap = {}
               PROVE  built[p] \in {head, tree}
    OBVIOUS
  <2>1. pc = "start" /\ a = last /\ p = prior /\ prior # NoRun
    BY HandedBy, Names DEF StartApply, Runs
  <2>2. meta[p].headSHA = head
    BY <2>1 DEF PlanInv, Looked
  <2>3. head # Unknown
    BY Names DEF TypeOK, Commits
  <2> QED
    BY <2>1, <2>2, <2>3 DEF PlanInv, Recorded
<1> QED
  BY <1>1, PlanInvariant, PTL DEF Spec, FreshWithoutPull
=============================================================================
