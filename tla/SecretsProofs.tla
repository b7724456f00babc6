---------------------------- MODULE SecretsProofs ----------------------------
(***************************************************************************)
(* What SecretsSync guarantees for every set of providers, snapshots, user's *)
(* files and synthetic keys, and any number of changes, triggers, failures   *)
(* and restarts.                                                            *)
(***************************************************************************)
EXTENDS SecretsSync, FiniteSetTheorems, NaturalsInduction, TLAPS

-----------------------------------------------------------------------------
(* What merge returns                                                      *)

\* The snapshots a merge may see: one the source had, or the empty one.
Nothing == [secrets |-> NoFiles, files |-> NoFiles]
Mergeable(snap) == \A p \in Providers : snap[p] \in Revisions[p] \cup {Nothing}

LEMMA WinnerHolds ==
  ASSUME NEW part, NEW x, \E p \in Providers : x \in DOMAIN part[p]
  PROVE  Winner(part, x) \in Providers /\ x \in DOMAIN part[Winner(part, x)]
<1> DEFINE having == {p \in Providers : x \in DOMAIN part[p]}
           ranks  == {Rank[p] : p \in having}
<1>1. ranks \subseteq Nat /\ ranks # {}
  BY ProvidersAssumption
<1>2. PICK n \in ranks : \A m \in ranks : ~(<<m, n>> \in OpToRel(<, Nat))
  <2> HIDE DEF ranks
  <2> QED
    BY <1>1, NatLessThanWellFounded, WFMin
<1>3. ASSUME NEW m \in ranks PROVE n <= m
  <2>1. m \in Nat /\ n \in Nat
    BY <1>1
  <2>2. m < n => <<m, n>> \in OpToRel(<, Nat)
    BY <2>1 DEF OpToRel
  <2>3. ~(m < n)
    <3> HIDE DEF ranks
    <3> QED
      BY <1>2, <2>2, Zenon
  <2> QED
    BY <2>1, <2>3
<1>4. \E p \in Providers : /\ x \in DOMAIN part[p]
                           /\ \A q \in Providers : x \in DOMAIN part[q] => Rank[p] <= Rank[q]
  BY <1>3
<1> QED
  BY <1>4 DEF Winner

LEMMA UnionHolds ==
  ASSUME NEW part
  PROVE  /\ DOMAIN Union(part) = UNION {DOMAIN part[p] : p \in Providers}
         /\ \A x \in DOMAIN Union(part) : \E p \in Providers :
              x \in DOMAIN part[p] /\ Union(part)[x] = part[p][x]
         /\ Union(part) = [x \in DOMAIN Union(part) |-> Union(part)[x]]
<1>1. ASSUME NEW x \in UNION {DOMAIN part[p] : p \in Providers}
      PROVE  \E p \in Providers : x \in DOMAIN part[p] /\ Union(part)[x] = part[p][x]
  <2>1. Winner(part, x) \in Providers /\ x \in DOMAIN part[Winner(part, x)]
    BY WinnerHolds
  <2>2. Union(part)[x] = part[Winner(part, x)][x]
    BY DEF Union
  <2> QED
    BY <2>1, <2>2
<1> QED
  BY <1>1 DEF Union

LEMMA MergeSecrets ==
  ASSUME NEW snap, Mergeable(snap)
  PROVE  /\ Merge(snap).secrets \in Secrets
         /\ \A p \in Providers : DOMAIN snap[p].secrets \subseteq DOMAIN Merge(snap).secrets
<1> DEFINE part == SecretsOf(snap)
           u    == Union(part)
           D    == DOMAIN u \cup {n \in DOMAIN Synthetic : Synthetic[n] \in DOMAIN u}
           m    == [k \in D |-> IF k \in DOMAIN u THEN u[k] ELSE u[Synthetic[k]]]
<1>1. Merge(snap).secrets = m
  BY DEF Merge, Rendered
<1>2. \A p \in Providers : part[p] = snap[p].secrets
  BY DEF SecretsOf
<1>3. DOMAIN u = UNION {DOMAIN part[p] : p \in Providers}
  BY UnionHolds
<1>4. ASSUME NEW k \in DOMAIN u PROVE k \in AllKeys /\ u[k] \in Values
  <2>1. PICK p \in Providers : k \in DOMAIN part[p] /\ u[k] = part[p][k]
    BY UnionHolds
  <2>2. snap[p] \in Revisions[p]
    BY <1>2, <2>1 DEF Mergeable, Nothing, NoFiles
  <2>3. snap[p] \in Snapshots
    BY <2>2 DEF Snapshots
  <2> QED
    BY <1>2, <2>1, <2>3 DEF AllKeys, Values
<1> HIDE DEF u
<1>5. D \subseteq AllKeys /\ \A k \in D : m[k] \in Values
  BY <1>4 DEF AllKeys
<1>6. m \in Secrets
  <2> HIDE DEF D
  <2> QED
    BY <1>5 DEF Secrets, Partial
<1> QED
  BY <1>1, <1>2, <1>3, <1>6

LEMMA MergeFiles ==
  ASSUME NEW snap, Mergeable(snap)
  PROVE  LET m == Merge(snap).files IN
         /\ m \in Partial(AllFiles, Contents)
         /\ m = [f \in DOMAIN m |-> m[f]]
         /\ \A f \in DOMAIN m : \A v \in UserFiles : f \in DOMAIN v => m[f] # v[f]
<1> DEFINE part == FilesOf(snap)
           m    == Union(part)
<1>1. Merge(snap).files = m
  BY DEF Merge
<1>2. \A p \in Providers : part[p] = snap[p].files
  BY DEF FilesOf
<1>3. ASSUME NEW f \in DOMAIN m
      PROVE  /\ f \in AllFiles /\ m[f] \in Contents
             /\ \A v \in UserFiles : f \in DOMAIN v => m[f] # v[f]
  <2>1. PICK p \in Providers : f \in DOMAIN part[p] /\ m[f] = part[p][f]
    BY UnionHolds
  <2>2. snap[p] \in Revisions[p]
    BY <1>2, <2>1 DEF Mergeable, Nothing, NoFiles
  <2>3. snap[p] \in Snapshots
    BY <2>2 DEF Snapshots
  <2> DEFINE r == snap[p]
  <2>4. f \in DOMAIN r.files /\ m[f] = r.files[f]
    BY <1>2, <2>1
  <2> HIDE DEF m, r
  <2>5. f \in AllFiles
    BY <2>3, <2>4 DEF AllFiles, r
  <2>6. {r.files[g] : g \in DOMAIN r.files} \in {{q.files[g] : g \in DOMAIN q.files} : q \in Snapshots}
    BY <2>3 DEF r
  <2>7. m[f] \in Contents
    BY <2>4, <2>6 DEF Contents
  <2> USE DEF m, r
  <2> QED
    BY <2>2, <2>4, <2>5, <2>7, UserFilesAssumption
<1>4. m = [f \in DOMAIN m |-> m[f]]
  BY UnionHolds
<1> HIDE DEF m
<1>5. DOMAIN m \subseteq AllFiles /\ m \in [DOMAIN m -> Contents]
  BY <1>3, <1>4
<1> QED
  BY <1>1, <1>3, <1>4, <1>5 DEF Partial

-----------------------------------------------------------------------------
(* The invariant                                                           *)

\* The snapshots held are of their providers, and a provider that answered in
\* this cycle has one.
Held ==
  /\ \A p \in Providers :
       /\ source[p] \in Revisions[p]
       /\ lastGood[p] \in Revisions[p] \cup {None}
       /\ outcome[p] = "ok" => lastGood[p] # None
  /\ pc \notin {"loop", "begin", "reject", "sleep", "fetch"} =>
       \A p \in Providers : outcome[p] # "todo"

Written(f) == f \in DOMAIN filesDir /\ filesDir[f] = merged.files[f]

\* While a cycle writes, `merged` is the merge of the snapshots held, and what it
\* has written so far is on disk.
Writing ==
  /\ pc \in {"files", "manifest", "secrets", "replaced", "record", "succeed"} =>
       merged = Merge(Contribution) /\ ~Blocked
  /\ pc \in {"loop", "begin", "reject", "sleep", "fetch", "decide"} => todo = {} /\ skipped = {}
  /\ pc \in {"files", "manifest"} =>
       /\ todo \subseteq DOMAIN merged.files
       /\ pc = "manifest" => todo = {}
       /\ \A f \in DOMAIN merged.files : f \in todo \/ f \in skipped \/ Written(f)
  /\ pc \in {"secrets", "replaced", "record", "succeed"} =>
       /\ manifest = Without(merged.files, skipped)
       /\ \A f \in DOMAIN manifest : Written(f)
  /\ pc \in {"replaced", "record", "succeed"} => secretsFile = merged.secrets

\* Nothing that is listed in the manifest holds what a user's file held.
ManifestIsOurs ==
  \A f \in DOMAIN manifest : \A u \in UserFiles :
    f \in DOMAIN u /\ f \in DOMAIN filesDir => filesDir[f] # u[f]

CycleInv == Held /\ Writing /\ ManifestIsOurs

-----------------------------------------------------------------------------
(* Types                                                                   *)

LEMMA Counted ==
  /\ 0 \in Counts
  /\ \A s \in Secrets : DOMAIN s \subseteq AllKeys /\ Cardinality(DOMAIN s) \in Counts
<1>1. \A s \in Secrets : DOMAIN s \subseteq AllKeys
  BY DEF Secrets, Partial
<1>2. ASSUME NEW s \in Secrets PROVE Cardinality(DOMAIN s) \in Counts
  <2>1. DOMAIN s \in SUBSET AllKeys
    BY <1>1
  <2>2. IsFiniteSet(DOMAIN s) /\ Cardinality(DOMAIN s) <= Cardinality(AllKeys)
    BY <2>1, FS_Subset, FiniteAssumption
  <2> QED
    BY <2>2, FS_CardinalityType, FiniteAssumption DEF Counts
<1>3. 0 \in Counts
  BY FS_CardinalityType, FiniteAssumption DEF Counts
<1> QED
  BY <1>1, <1>2, <1>3

LEMMA PartialFunctions ==
  ASSUME NEW S, NEW T, NEW f \in Partial(S, T)
  PROVE  /\ DOMAIN f \subseteq S
         /\ \A x \in S, v \in T : Put(f, x, v) \in Partial(S, T)
         /\ \A D : Without(f, D) \in Partial(S, T)
<1>1. PICK E \in SUBSET S : f \in [E -> T]
  BY DEF Partial
<1>2. ASSUME NEW x \in S, NEW v \in T PROVE Put(f, x, v) \in Partial(S, T)
  <2>1. Put(f, x, v) \in [E \cup {x} -> T] /\ E \cup {x} \in SUBSET S
    BY <1>1 DEF Put
  <2> QED
    BY <2>1 DEF Partial
<1>3. ASSUME NEW D PROVE Without(f, D) \in Partial(S, T)
  <2>1. Without(f, D) \in [E \ D -> T] /\ E \ D \in SUBSET S
    BY <1>1 DEF Without
  <2> QED
    BY <2>1 DEF Partial
<1> QED
  BY <1>1, <1>2, <1>3

LEMMA UsersFilesTyped == UserFiles \subseteq Partial(AllFiles, Contents)
<1> SUFFICES ASSUME NEW u \in UserFiles PROVE u \in Partial(AllFiles, Contents)
  OBVIOUS
<1>1. DOMAIN u \in {DOMAIN v : v \in UserFiles}
  OBVIOUS
<1>2. {u[f] : f \in DOMAIN u} \in {{v[f] : f \in DOMAIN v} : v \in UserFiles}
  OBVIOUS
<1>3. DOMAIN u \subseteq AllFiles
  BY <1>1 DEF AllFiles
<1>4. \A f \in DOMAIN u : u[f] \in Contents
  BY <1>2 DEF Contents
<1>5. u \in [DOMAIN u -> Contents]
  BY <1>4, UserFilesAssumption
<1> QED
  BY <1>3, <1>5 DEF Partial

LEMMA ContributionMerges ==
  ASSUME Held
  PROVE  Mergeable(Contribution)
BY DEF Held, Mergeable, Contribution, Nothing

LEMMA InitInv == Init => TypeOK /\ CycleInv
<1> SUFFICES ASSUME Init PROVE TypeOK /\ CycleInv
  OBVIOUS
<1>1. TypeOK
  <2>1. filesDir \in Partial(AllFiles, Contents)
    BY UsersFilesTyped DEF Init
  <2>2. manifest \in Partial(AllFiles, Contents)
    <3>1. NoFiles \in [{} -> Contents]
      BY DEF NoFiles
    <3> QED
      BY <3>1 DEF Init, Partial
  <2> QED
    BY <2>1, <2>2, Counted DEF Init, TypeOK, Fresh
<1>2. CycleInv
  BY DEF Init, CycleInv, Held, Writing, ManifestIsOurs, Fresh, NoFiles
<1> QED
  BY <1>1, <1>2

-----------------------------------------------------------------------------
(* The steps preserve the types                                            *)

LEMMA ThreadTypeOK ==
  ASSUME TypeOK, TakeForce \/ BeginCycle \/ Sleep
  PROVE  TypeOK'
<1> USE DEF TypeOK, world, disk, ha, flags, memory, report, work, counters, Mishap
<1>1. ASSUME TakeForce PROVE TypeOK'
  BY ZenonT(60), <1>1 DEF TakeForce
<1>2. ASSUME BeginCycle PROVE TypeOK'
  BY ZenonT(60), <1>2 DEF BeginCycle
<1> USE DEF Asleep
<1>3. ASSUME Due PROVE TypeOK'
  BY <1>3 DEF Due
<1>4. ASSUME Woken PROVE TypeOK'
  BY ZenonT(60), <1>4 DEF Woken
<1>5. ASSUME RetryReload PROVE TypeOK'
  <2>1. Names(secretsFile) \subseteq AllKeys
    BY Counted DEF Names
  <2> QED
    BY ZenonT(60), <1>5, <2>1 DEF RetryReload, HaRereads
<1>6. ASSUME Heartbeat PROVE TypeOK'
  BY <1>6 DEF Heartbeat
<1>7. ASSUME NEW answering \in SUBSET Checkable, Probe(answering) PROVE TypeOK'
  <2>1. tokens' \in [Providers -> Snapshots \cup {None}]
    BY <1>7 DEF Probe
  <2>2. {running, pending, force, wake, previewing, cycleForce}' \subseteq BOOLEAN
    BY <1>7 DEF Probe, Accept
  <2>3. stateFile' \in [success : BOOLEAN, items : Counts]
    BY <1>7 DEF Probe
  <2> QED
    BY <1>7, <2>1, <2>2, <2>3 DEF Probe
<1> QED
  BY <1>1, <1>2, <1>3, <1>4, <1>5, <1>6, <1>7 DEF Sleep

LEMMA OutsideTypeOK ==
  ASSUME TypeOK, Held, Web \/ World
  PROVE  TypeOK'
<1> USE DEF TypeOK, world, disk, ha, flags, memory, report, work, counters, Mishap
<1>1. ASSUME NEW forced \in BOOLEAN, TriggerSync(forced) PROVE TypeOK'
  BY <1>1 DEF TriggerSync, Accept
<1>2. ASSUME BeginPreview \/ EndPreview PROVE TypeOK'
  BY ZenonT(60), <1>2 DEF BeginPreview, EndPreview
<1>3. ASSUME NEW p \in Providers, SourceChanges(p) PROVE TypeOK'
  <2>1. Revisions[p] \subseteq Snapshots
    BY DEF Snapshots
  <2> QED
    BY <1>3, <2>1 DEF SourceChanges
<1>4. ASSUME ThrottleEnds PROVE TypeOK'
  <2>1. throttled' \in BOOLEAN
    BY <1>4 DEF ThrottleEnds
  <2>2. UNCHANGED <<source, options, secretsFile, filesDir, manifest, stateFile, haKeys,
                    pc, running, pending, force, wake, previewing, lastGood, tokens,
                    lastItems, lastWritten, retryReload, status, success, items, failing,
                    cycleForce, outcome, merged, todo, skipped, previous>>
    BY <1>4 DEF ThrottleEnds
  <2> QED
    BY <2>1, <2>2 DEF TypeOK
<1>5. ASSUME Restart PROVE TypeOK'
  <2>1. Names(secretsFile) \subseteq AllKeys
    BY Counted DEF Names
  <2>2. stateFile.success \in BOOLEAN /\ stateFile.items \in Counts
    OBVIOUS
  <2> QED
    BY <1>5, <2>1, <2>2 DEF Restart, Boot, Fresh
<1> QED
  BY <1>1, <1>2, <1>3, <1>4, <1>5 DEF Web, World

LEMMA FinishTyped ==
  ASSUME TypeOK, NEW st \in {"ok", "degraded", "error"}, NEW written \in BOOLEAN,
         written => merged.secrets \in Secrets,
         Finish(st, written)
  PROVE  /\ pc' = "sleep" /\ status' = st
         /\ {running, pending, force, wake, previewing, cycleForce}' \subseteq BOOLEAN
         /\ {failing, success}' \subseteq BOOLEAN
         /\ items' \in Counts
         /\ outcome' \in [Providers -> {"todo", "ok", "failed", "collision"}]
         /\ merged' = None /\ todo' = {} /\ skipped' = {} /\ previous' = None
         /\ Saved => stateFile' \in [success : BOOLEAN, items : Counts]
<1>1. items' \in Counts /\ success' \in BOOLEAN
  <2>1. CASE written
    BY <2>1, Counted DEF Finish
  <2>2. CASE ~written
    BY <2>2 DEF Finish, TypeOK
  <2> QED
    BY <2>1, <2>2
<1>2. Saved => stateFile' \in [success : BOOLEAN, items : Counts]
  BY <1>1 DEF Saved
<1> QED
  BY <1>1, <1>2 DEF Finish, TypeOK, Fresh

LEMMA CycleTypeOK ==
  ASSUME TypeOK, CycleInv, Cycle
  PROVE  TypeOK'
<1> USE DEF world, disk, ha, flags, memory, report, work, counters, Mishap
<1>1. ASSUME RejectOptions \/ InternalError \/ Refuse \/ WriteError PROVE TypeOK'
  <2>1. PICK st \in {"ok", "degraded", "error"} : Finish(st, FALSE) /\ Saved
    BY <1>1 DEF RejectOptions, InternalError, Refuse, WriteError, Fail
  <2>2. UNCHANGED <<world, disk, ha, memory, retryReload>>
    BY <1>1 DEF RejectOptions, InternalError, Refuse, WriteError
  <2> QED
    BY <2>1, <2>2, FinishTyped DEF TypeOK
<1>2. ASSUME Succeed PROVE TypeOK'
  <2>1. merged.secrets \in Secrets
    BY <1>2, ContributionMerges, MergeSecrets DEF CycleInv, Writing, Succeed
  <2>2. PICK st \in {"ok", "degraded", "error"} : Finish(st, TRUE)
    BY <1>2 DEF Succeed
  <2> QED
    BY <1>2, <2>1, <2>2, FinishTyped DEF TypeOK, Succeed
<1> USE DEF TypeOK
<1>3. ASSUME NEW p \in Providers, FetchOk(p) \/ FetchFailed(p) PROVE TypeOK'
  BY <1>3 DEF FetchOk, FetchFailed, AfterFetch, Turn
<1>4. ASSUME Proceed PROVE TypeOK'
  <2>1. /\ Merge(Contribution).secrets \in Secrets
        /\ DOMAIN Merge(Contribution).files \subseteq AllFiles
    <3>1. Mergeable(Contribution)
      BY ContributionMerges DEF CycleInv
    <3>2. Merge(Contribution).files \in Partial(AllFiles, Contents)
      BY <3>1, MergeFiles
    <3> QED
      BY <3>1, <3>2, MergeSecrets, PartialFunctions
  <2> QED
    BY <1>4, <2>1 DEF Proceed
<1>5. ASSUME NEW f \in todo, WriteFile(f) PROVE TypeOK'
  <2>1. merged.files \in Partial(AllFiles, Contents) /\ f \in DOMAIN merged.files
    BY <1>5, ContributionMerges, MergeFiles DEF WriteFile, CycleInv, Writing
  <2>4. merged.files[f] \in Contents
    BY <2>1 DEF Partial
  <2>2. filesDir' \in Partial(AllFiles, Contents)
    BY <1>5, <2>4, PartialFunctions DEF WriteFile
  <2> QED
    BY <1>5, <2>2 DEF WriteFile
<1>6. ASSUME RemoveStale PROVE TypeOK'
  <2>1. filesDir' \in Partial(AllFiles, Contents)
    BY <1>6, PartialFunctions DEF RemoveStale
  <2> QED
    BY <1>6, <2>1 DEF RemoveStale
<1>7. ASSUME SaveManifest PROVE TypeOK'
  <2>1. merged.files \in Partial(AllFiles, Contents)
    BY <1>7, ContributionMerges, MergeFiles DEF SaveManifest, CycleInv, Writing
  <2>2. manifest' \in Partial(AllFiles, Contents)
    BY <1>7, <2>1, PartialFunctions DEF SaveManifest
  <2> QED
    BY <1>7, <2>2 DEF SaveManifest
<1>8. ASSUME SameSecrets \/ Synced PROVE TypeOK'
  BY <1>8 DEF SameSecrets, Synced
<1>9. ASSUME ReplaceSecrets PROVE TypeOK'
  <2>1. merged.secrets \in Secrets
    BY <1>9, ContributionMerges, MergeSecrets DEF CycleInv, Writing, ReplaceSecrets
  <2>2. previous' \subseteq AllKeys
    BY <1>9, Counted DEF ReplaceSecrets, Names
  <2> QED
    BY <1>9, <2>1, <2>2 DEF ReplaceSecrets
<1>10. ASSUME Record PROVE TypeOK'
  <2>1. merged.secrets \in Secrets
    BY <1>10, ContributionMerges, MergeSecrets DEF CycleInv, Writing, Record
  <2>2. Names(secretsFile) \subseteq AllKeys /\ Cardinality(DOMAIN merged.secrets) \in Counts
    BY <2>1, Counted DEF Names
  <2> QED
    BY ZenonT(60), <1>10, <2>1, <2>2 DEF Record, HaRereads
<1> QED
  BY <1>1, <1>2, <1>3, <1>4, <1>5, <1>6, <1>7, <1>8, <1>9, <1>10 DEF Cycle

-----------------------------------------------------------------------------
(* The steps preserve the invariant                                        *)

\* Only these four steps touch secrets.yaml, the provider files and the manifest.
LEMMA DiskSteps ==
  ASSUME Next
  PROVE  \/ \E f \in todo : WriteFile(f)
         \/ RemoveStale \/ SaveManifest \/ ReplaceSecrets
         \/ UNCHANGED disk
<1> USE DEF disk, Asleep
<1>1. ASSUME TakeForce \/ BeginCycle \/ Sleep PROVE UNCHANGED disk
  BY <1>1 DEF TakeForce, BeginCycle, Sleep, Due, Woken, RetryReload, Probe, Heartbeat
<1>2. ASSUME Web \/ World PROVE UNCHANGED disk
  BY <1>2 DEF Web, World, TriggerSync, BeginPreview, EndPreview, SourceChanges, ThrottleEnds, Restart
<1>3. ASSUME Cycle
      PROVE  \/ \E f \in todo : WriteFile(f)
             \/ RemoveStale \/ SaveManifest \/ ReplaceSecrets
             \/ UNCHANGED disk
  BY <1>3 DEF Cycle, RejectOptions, InternalError, FetchOk, FetchFailed, Refuse, Proceed, WriteError,
              SameSecrets, Synced, Record, Succeed
<1> QED
  BY <1>1, <1>2, <1>3 DEF Next

\* Where a cycle ends.
LEMMA FinishClears ==
  ASSUME NEW st, NEW written, Finish(st, written)
  PROVE  /\ pc' = "sleep" /\ status' = st
         /\ outcome' = [p \in Providers |-> "todo"]
         /\ todo' = {} /\ skipped' = {}
BY DEF Finish, Fresh

LEMMA HeldKept ==
  ASSUME TypeOK, Held, Next
  PROVE  Held'
<1> USE DEF Held, world, disk, flags, memory, report, work, Mishap
<1>1. ASSUME TakeForce \/ BeginCycle \/ Sleep PROVE Held'
  BY <1>1 DEF TakeForce, BeginCycle, Sleep, Asleep, Due, Woken, RetryReload, Probe, Heartbeat, Accept
<1>2. ASSUME Web PROVE Held'
  BY <1>2 DEF Web, TriggerSync, BeginPreview, EndPreview, Accept
<1>3. ASSUME World PROVE Held'
  BY <1>3 DEF World, SourceChanges, ThrottleEnds, Restart, Boot, Fresh, TypeOK
<1>4. ASSUME RejectOptions \/ InternalError \/ Refuse \/ WriteError \/ Succeed PROVE Held'
  <2>1. PICK st, written : Finish(st, written)
    BY <1>4 DEF RejectOptions, InternalError, Refuse, WriteError, Succeed, Fail
  <2>2. UNCHANGED <<source, lastGood>>
    BY <1>4 DEF RejectOptions, InternalError, Refuse, WriteError, Succeed
  <2> QED
    BY <2>1, <2>2, FinishClears
<1>5. ASSUME NEW p \in Providers, FetchOk(p) PROVE Held'
  BY <1>5, ProvidersAssumption DEF FetchOk, AfterFetch, Turn, TypeOK
<1>6. ASSUME NEW p \in Providers, FetchFailed(p) PROVE Held'
  BY <1>6 DEF FetchFailed, AfterFetch, Turn, TypeOK
<1>7. ASSUME \/ Proceed \/ RemoveStale \/ SaveManifest \/ SameSecrets \/ ReplaceSecrets
             \/ Synced \/ Record \/ \E f \in todo : WriteFile(f)
      PROVE  Held'
  BY <1>7 DEF Proceed, RemoveStale, SaveManifest, SameSecrets, ReplaceSecrets, Synced, Record,
              WriteFile
<1> QED
  BY <1>1, <1>2, <1>3, <1>4, <1>5, <1>6, <1>7 DEF Next, Cycle

\* Steps outside the phase in which a cycle writes.
LEMMA Elsewhere ==
  ASSUME Writing,
         \/ UNCHANGED <<pc, disk, lastGood, outcome, merged, todo, skipped>>
         \/ /\ pc' \in {"loop", "begin", "reject", "sleep", "fetch", "decide"}
            /\ todo' = {} /\ skipped' = {}
  PROVE  Writing'
<1>1. CASE UNCHANGED <<pc, disk, lastGood, outcome, merged, todo, skipped>>
  <2>1. Contribution' = Contribution /\ (Blocked <=> Blocked')
    BY <1>1 DEF Contribution, Blocked
  <2> QED
    BY <1>1, <2>1 DEF Writing, Written, disk
<1>2. CASE /\ pc' \in {"loop", "begin", "reject", "sleep", "fetch", "decide"}
           /\ todo' = {} /\ skipped' = {}
  BY <1>2 DEF Writing
<1> QED
  BY <1>1, <1>2

LEMMA WritingKept ==
  ASSUME TypeOK, Held, Writing, Next
  PROVE  Writing'
<1> USE DEF world, disk, flags, memory, report, work, Mishap
<1>1. ASSUME TakeForce \/ BeginCycle \/ Sleep PROVE Writing'
  <2>1. /\ pc \in {"loop", "begin", "sleep"}
        /\ pc' \in {"loop", "begin", "sleep", "fetch", "reject"}
        /\ UNCHANGED <<todo, skipped>>
    BY <1>1 DEF TakeForce, BeginCycle, Sleep, Asleep, Due, Woken, RetryReload, Probe, Heartbeat
  <2>2. todo' = {} /\ skipped' = {}
    BY <2>1 DEF Writing
  <2> QED
    BY <2>1, <2>2, Elsewhere
<1>2. ASSUME Web PROVE Writing'
  BY <1>2, Elsewhere DEF Web, TriggerSync, BeginPreview, EndPreview
<1>3. ASSUME World PROVE Writing'
  BY <1>3, Elsewhere DEF World, SourceChanges, ThrottleEnds, Restart, Boot
<1>4. ASSUME RejectOptions \/ InternalError \/ Refuse \/ WriteError \/ Succeed PROVE Writing'
  <2>1. PICK st, written : Finish(st, written)
    BY <1>4 DEF RejectOptions, InternalError, Refuse, WriteError, Succeed, Fail
  <2> QED
    BY <2>1, FinishClears, Elsewhere
<1>5. ASSUME NEW p \in Providers, FetchOk(p) \/ FetchFailed(p) PROVE Writing'
  <2>1. pc = "fetch" /\ pc' \in {"fetch", "decide"} /\ UNCHANGED <<todo, skipped>>
    BY <1>5 DEF FetchOk, FetchFailed, AfterFetch, Turn
  <2>2. todo' = {} /\ skipped' = {}
    BY <2>1 DEF Writing
  <2> QED
    BY <2>1, <2>2, Elsewhere
<1>6. ASSUME UNCHANGED <<lastGood, outcome>> PROVE Contribution' = Contribution /\ (Blocked' <=> Blocked)
  BY <1>6 DEF Contribution, Blocked
<1>7. ASSUME Proceed PROVE Writing'
  <2>1. Contribution' = Contribution /\ ~Blocked'
    BY <1>6, <1>7 DEF Proceed, CycleFails
  <2> QED
    BY <1>7, <2>1 DEF Proceed, Writing, Merge
<1>8. ASSUME NEW f \in todo, WriteFile(f) PROVE Writing'
  <2>1. Contribution' = Contribution /\ (Blocked' <=> Blocked)
    BY <1>6, <1>8 DEF WriteFile
  <2>2. \A g \in DOMAIN merged.files : g \in todo' \/ g \in skipped' \/ Written(g)'
    BY <1>8 DEF WriteFile, Writing, Written, Put
  <2> QED
    BY <1>8, <2>1, <2>2 DEF WriteFile, Writing
<1>9. ASSUME RemoveStale PROVE Writing'
  <2>1. Contribution' = Contribution /\ (Blocked' <=> Blocked)
    BY <1>6, <1>9 DEF RemoveStale
  <2>2. \A g \in DOMAIN merged.files : g \in todo' \/ g \in skipped' \/ Written(g)'
    BY <1>9 DEF RemoveStale, Writing, Written, Without, Stale
  <2> QED
    BY <1>9, <2>1, <2>2 DEF RemoveStale, Writing
<1>10. ASSUME SaveManifest PROVE Writing'
  <2>1. Contribution' = Contribution /\ (Blocked' <=> Blocked)
    BY <1>6, <1>10 DEF SaveManifest
  <2>2. \A g \in DOMAIN manifest' : Written(g)'
    BY <1>10 DEF SaveManifest, Writing, Written, Without
  <2> QED
    BY <1>10, <2>1, <2>2 DEF SaveManifest, Writing, Without
<1>11. ASSUME SameSecrets \/ ReplaceSecrets \/ Synced \/ Record PROVE Writing'
  <2>1. Contribution' = Contribution /\ (Blocked' <=> Blocked)
    BY <1>6, <1>11 DEF SameSecrets, ReplaceSecrets, Synced, Record
  <2> QED
    BY <1>11, <2>1 DEF SameSecrets, ReplaceSecrets, Synced, Record, Writing, Written, Without
<1> QED
  BY <1>1, <1>2, <1>3, <1>4, <1>5, <1>7, <1>8, <1>9, <1>10, <1>11 DEF Next, Cycle

LEMMA OursKept ==
  ASSUME Held, Writing, ManifestIsOurs, Next
  PROVE  ManifestIsOurs'
<1>1. pc \in {"files", "manifest"} =>
        \A f \in DOMAIN merged.files : \A u \in UserFiles :
          f \in DOMAIN u => merged.files[f] # u[f]
  <2>1. \A f \in DOMAIN Merge(Contribution).files : \A u \in UserFiles :
          f \in DOMAIN u => Merge(Contribution).files[f] # u[f]
    <3>1. Mergeable(Contribution)
      BY ContributionMerges
    <3> QED
      BY <3>1, MergeFiles
  <2> QED
    BY <2>1 DEF Writing
<1>2. CASE \E f \in todo : WriteFile(f)
  BY <1>1, <1>2 DEF WriteFile, Writing, ManifestIsOurs, Put
<1>3. CASE RemoveStale
  BY <1>3 DEF RemoveStale, ManifestIsOurs, Without
<1>4. CASE SaveManifest
  BY <1>1, <1>4 DEF SaveManifest, Writing, Written, ManifestIsOurs, Without
<1>5. CASE ReplaceSecrets \/ UNCHANGED disk
  BY <1>5 DEF ReplaceSecrets, disk, ManifestIsOurs
<1> QED
  BY <1>2, <1>3, <1>4, <1>5, DiskSteps

\* What the status says, and what every secrets.yaml has.
Promises == OkMeansWritten /\ StableKeysKept

LEMMA StableKeysMerged ==
  ASSUME Held, ~Blocked, \A p \in Providers : outcome[p] # "todo",
         \A p \in Providers : outcome[p] \in {"todo", "ok", "failed", "collision"}
  PROVE  /\ StableKeys \subseteq DOMAIN Merge(Contribution).secrets
         /\ \A p \in Providers : lastGood[p] # None
<1>1. \A p \in Providers : lastGood[p] # None /\ lastGood[p] \in Revisions[p]
  BY DEF Held, Blocked
<1>2. \A p \in Providers : Contribution[p] \in Revisions[p]
  BY <1>1 DEF Contribution
<1>3. \A p \in Providers : DOMAIN Contribution[p].secrets \subseteq DOMAIN Merge(Contribution).secrets
  BY ContributionMerges, MergeSecrets
<1> QED
  BY <1>1, <1>2, <1>3 DEF StableKeys

LEMMA PromisesKept ==
  ASSUME TypeOK, Held, Writing, Promises, Next
  PROVE  Promises'
<1> USE DEF Promises, world, disk, flags, memory, report, work, Mishap
<1>1. ASSUME ReplaceSecrets PROVE Promises'
  <2>1. StableKeys \subseteq DOMAIN merged.secrets
    BY <1>1, StableKeysMerged DEF ReplaceSecrets, Held, Writing, TypeOK
  <2> QED
    BY <1>1, <2>1 DEF ReplaceSecrets, OkMeansWritten, StableKeysKept, Idle
<1>2. ASSUME \/ \E f \in todo : WriteFile(f)
             \/ RemoveStale \/ SaveManifest
      PROVE  Promises'
  BY <1>2 DEF WriteFile, RemoveStale, SaveManifest, OkMeansWritten, StableKeysKept, Idle
<1>3. ASSUME UNCHANGED disk PROVE StableKeysKept'
  BY <1>3 DEF StableKeysKept
<1>4. ASSUME RejectOptions \/ InternalError \/ Refuse \/ WriteError PROVE OkMeansWritten'
  <2>1. status' # "ok"
    BY <1>4 DEF RejectOptions, InternalError, Refuse, WriteError, Fail, Finish
  <2> QED
    BY <2>1 DEF OkMeansWritten
<1>5. ASSUME Succeed PROVE OkMeansWritten'
  <2>1. SUFFICES ASSUME status' = "ok" PROVE OkMeansWritten'
    BY DEF OkMeansWritten
  <2>2. skipped = {} /\ \A p \in Providers : outcome[p] = "ok"
    BY <1>5, <2>1 DEF Succeed, Finish
  <2>3. \A p \in Providers : lastGood[p] # None
    BY <2>2 DEF Held
  <2>4. Contribution = lastGood
    BY <2>3 DEF Contribution, TypeOK
  <2>5. merged.files = [f \in DOMAIN merged.files |-> merged.files[f]]
    BY <1>5, ContributionMerges, MergeFiles DEF Succeed, Writing
  <2>6. manifest = merged.files
    BY <1>5, <2>2, <2>5 DEF Succeed, Writing, Without
  <2>7. /\ secretsFile = Merge(lastGood).secrets
        /\ manifest = Merge(lastGood).files
        /\ \A f \in DOMAIN manifest : f \in DOMAIN filesDir /\ filesDir[f] = manifest[f]
    BY <1>5, <2>4, <2>6 DEF Succeed, Writing, Written
  <2>8. UNCHANGED <<disk, lastGood>>
    BY <1>5 DEF Succeed
  <2> QED
    BY <2>7, <2>8 DEF OkMeansWritten
<1>6. ASSUME NEW p \in Providers, FetchOk(p) \/ FetchFailed(p) PROVE OkMeansWritten'
  BY <1>6 DEF FetchOk, FetchFailed, AfterFetch, OkMeansWritten, Idle
<1>7. ASSUME Proceed \/ SameSecrets \/ Synced \/ Record PROVE OkMeansWritten'
  BY <1>7 DEF Proceed, SameSecrets, Synced, Record, OkMeansWritten, Idle
<1>8. ASSUME TakeForce \/ BeginCycle \/ Sleep \/ Web \/ World PROVE OkMeansWritten'
  <2>1. CASE UNCHANGED <<status, disk, lastGood>> /\ (Idle' => Idle)
    <3>1. \/ UNCHANGED <<status, secretsFile, manifest, filesDir, lastGood>> /\ ~Idle'
          \/ UNCHANGED <<status, secretsFile, manifest, filesDir, lastGood>> /\ Idle
      BY <2>1
    <3> QED
      BY <3>1 DEF OkMeansWritten
  <2>2. CASE status' = "starting"
    BY <2>2 DEF OkMeansWritten
  <2>3. \/ UNCHANGED <<status, disk, lastGood>> /\ (Idle' => Idle)
        \/ status' = "starting"
    BY <1>8 DEF TakeForce, BeginCycle, Sleep, Asleep, Due, Woken, RetryReload, Probe, Heartbeat,
                Web, TriggerSync, BeginPreview, EndPreview, World, SourceChanges, ThrottleEnds,
                Restart, Boot, Idle
  <2> QED
    BY <2>1, <2>2, <2>3
<1> QED
  BY <1>1, <1>2, <1>3, <1>4, <1>5, <1>6, <1>7, <1>8, DiskSteps DEF Next, Cycle

SecretsInv == TypeOK /\ CycleInv /\ Promises

\* The state of the supervisor thread, of the disk and of what it reports always
\* fit together, through failing calls and restarts.
THEOREM SecretsInvariant == Spec => []SecretsInv
<1>1. Init => SecretsInv
  BY InitInv DEF Init, SecretsInv, Promises, OkMeansWritten, StableKeysKept
<1>2. SecretsInv /\ [Next]_vars => SecretsInv'
  <2> SUFFICES ASSUME SecretsInv, [Next]_vars PROVE SecretsInv'
    OBVIOUS
  <2>1. CASE Next
    <3>1. TypeOK'
      BY <2>1, ThreadTypeOK, OutsideTypeOK, CycleTypeOK DEF SecretsInv, CycleInv, Next
    <3>2. CycleInv'
      BY <2>1, HeldKept, WritingKept, OursKept DEF SecretsInv, CycleInv
    <3>3. Promises'
      BY <2>1, PromisesKept DEF SecretsInv, CycleInv
    <3> QED
      BY <3>1, <3>2, <3>3 DEF SecretsInv
  <2>2. CASE UNCHANGED vars
    <3> USE DEF vars, world, disk, ha, flags, memory, report, work, counters
    <3>1. TypeOK'
      BY <2>2 DEF SecretsInv, TypeOK
    <3>2. Held' /\ ManifestIsOurs'
      BY <2>2 DEF SecretsInv, CycleInv, Held, ManifestIsOurs
    <3>3. Writing'
      BY <2>2, Elsewhere DEF SecretsInv, CycleInv
    <3>4. Promises'
      BY <2>2 DEF SecretsInv, Promises, OkMeansWritten, StableKeysKept, Idle
    <3> QED
      BY <3>1, <3>2, <3>3, <3>4 DEF SecretsInv, CycleInv
  <2> QED
    BY <2>1, <2>2
<1> QED
  BY <1>1, <1>2, PTL DEF Spec

-----------------------------------------------------------------------------
(* The theorems                                                            *)

\* For every set of providers, snapshots and synthetic keys: the status "ok" means
\* that everything is on disk, and a key that its source never drops is in every
\* secrets.yaml that is written.
THEOREM WhatIsWrittenIsWhole == Spec => []WrittenIsWhole
<1>1. SecretsInv => WrittenIsWhole
  BY DEF SecretsInv, Promises, WrittenIsWhole
<1> QED
  BY <1>1, SecretsInvariant, PTL

\* No cycle and no crash makes the add-on overwrite or remove a user's file.
THEOREM UsersFilesSurvive == Spec => UserFilesKept
<1> DEFINE Kept == \A u \in UserFiles : \A f \in DOMAIN u :
                     f \in DOMAIN filesDir /\ filesDir[f] = u[f] =>
                       f \in DOMAIN filesDir' /\ filesDir'[f] = u[f]
<1>1. SecretsInv /\ [Next]_vars => Kept
  <2> SUFFICES ASSUME SecretsInv, [Next]_vars PROVE Kept
    OBVIOUS
  <2>1. CASE UNCHANGED filesDir
    BY <2>1
  <2>2. ASSUME NEW g \in todo, WriteFile(g) PROVE Kept
    <3>1. g \in DOMAIN merged.files /\ \A u \in UserFiles : g \in DOMAIN u => merged.files[g] # u[g]
      <4>1. Mergeable(Contribution)
        BY ContributionMerges DEF SecretsInv, CycleInv
      <4>2. \A u \in UserFiles : g \in DOMAIN Merge(Contribution).files /\ g \in DOMAIN u =>
              Merge(Contribution).files[g] # u[g]
        BY <4>1, MergeFiles
      <4> QED
        BY <2>2, <4>2 DEF WriteFile, SecretsInv, CycleInv, Writing
    <3>2. CASE Unmanaged(g)
      BY <2>2, <3>2 DEF WriteFile
    <3>3. CASE ~Unmanaged(g)
      <4>1. \A u \in UserFiles : g \in DOMAIN u /\ g \in DOMAIN filesDir => filesDir[g] # u[g]
        BY <3>1, <3>3 DEF Unmanaged, SecretsInv, CycleInv, ManifestIsOurs
      <4>2. filesDir' = Put(filesDir, g, merged.files[g])
        BY <2>2, <3>3 DEF WriteFile
      <4> QED
        BY <4>1, <4>2 DEF Put
    <3> QED
      BY <3>2, <3>3
  <2>3. CASE RemoveStale
    BY <2>3 DEF RemoveStale, Stale, Without, SecretsInv, CycleInv, ManifestIsOurs
  <2> QED
    BY <2>1, <2>2, <2>3, DiskSteps DEF vars, disk, SaveManifest, ReplaceSecrets
<1> QED
  BY <1>1, SecretsInvariant, PTL DEF Spec, UserFilesKept

\* The force flag and the forced cycle that has not begun are each covered by a
\* forced trigger of their own.
ForceInv ==
  /\ credit \in Int
  /\ force \in BOOLEAN /\ cycleForce \in BOOLEAN
  /\ credit >= 0
  /\ force = TRUE => credit >= 1
  /\ cycleForce = TRUE /\ pc = "begin" => credit >= 1 /\ (force = TRUE => credit >= 2)

\* However triggers, previews, probes and cycles interleave, there are no more
\* forced cycles than forced triggers.
THEOREM ForceLiftsOnce == Spec => []ForceUsedOnce
<1>1. Init => ForceInv
  <2>1. Init => credit = 0 /\ force = FALSE /\ cycleForce = FALSE
    BY DEF Init
  <2>2. Init => force \in BOOLEAN /\ cycleForce \in BOOLEAN /\ force # TRUE /\ cycleForce # TRUE
    BY <2>1, Zenon
  <2>3. Init => credit \in Int /\ credit >= 0
    BY <2>1
  <2> QED
    BY <2>2, <2>3, Zenon DEF ForceInv
<1>2. ForceInv /\ [Next]_vars => ForceInv'
  <2> SUFFICES ASSUME ForceInv, [Next]_vars PROVE ForceInv'
    OBVIOUS
  <2> USE DEF ForceInv, flags, work
  <2>1. CASE TakeForce
    BY <2>1 DEF TakeForce
  <2>2. CASE BeginCycle
    BY <2>2 DEF BeginCycle
  <2>3. CASE Cycle
    <3>1. /\ UNCHANGED <<credit, force>> /\ pc' # "begin"
          /\ cycleForce' = cycleForce \/ cycleForce' = FALSE
      BY <2>3 DEF Cycle, RejectOptions, InternalError, InCycle, FetchOk, FetchFailed, AfterFetch,
         Turn, Refuse, Proceed, WriteFile, RemoveStale, SaveManifest, WriteError, SameSecrets,
         ReplaceSecrets, Synced, Record, Succeed, Fail, Finish
    <3> QED
      BY <3>1
  <2>4. CASE Sleep
    <3>1. /\ credit' = credit /\ cycleForce' = cycleForce /\ pc' # "begin"
          /\ force' = force \/ force' = FALSE
      BY <2>4 DEF Sleep, Asleep, Due, Woken, RetryReload, Heartbeat, Probe, Accept
    <3> QED
      BY <3>1
  <2>5. CASE Web
    <3>1. CASE BeginPreview \/ EndPreview
      BY <3>1 DEF BeginPreview, EndPreview
    <3>2. ASSUME NEW forced \in BOOLEAN, TriggerSync(forced) PROVE ForceInv'
      <4>1. CASE forced = TRUE
        <5>1. credit' = credit + 1 /\ force' = TRUE /\ UNCHANGED <<pc, cycleForce>>
          BY <3>2, <4>1 DEF TriggerSync, Accept
        <5> QED
          BY <5>1
      <4>2. CASE forced = FALSE
        <5>1. credit' = credit /\ force' = FALSE /\ UNCHANGED <<pc, cycleForce>>
          BY <3>2, <4>2 DEF TriggerSync, Accept
        <5> QED
          BY <5>1
      <4> QED
        BY <4>1, <4>2
    <3> QED
      BY <2>5, <3>1, <3>2 DEF Web
  <2>6. CASE World
    <3>1. CASE Restart
      <4>1. credit' = 0 /\ force' = FALSE /\ cycleForce' = FALSE
        BY <3>1 DEF Restart, Boot
      <4>2. force' \in BOOLEAN /\ cycleForce' \in BOOLEAN /\ force' # TRUE /\ cycleForce' # TRUE
        BY <4>1, Zenon
      <4>3. credit' \in Int /\ credit' >= 0
        BY <4>1
      <4> QED
        BY <4>2, <4>3, Zenon
    <3>2. CASE ThrottleEnds \/ \E p \in Providers : SourceChanges(p)
      BY <3>2 DEF SourceChanges, ThrottleEnds
    <3> QED
      BY <2>6, <3>1, <3>2 DEF World
  <2>7. CASE UNCHANGED vars
    BY <2>7 DEF vars
  <2> QED
    BY <2>1, <2>2, <2>3, <2>4, <2>5, <2>6, <2>7 DEF Next
<1>3. ForceInv => ForceUsedOnce
  BY DEF ForceInv, ForceUsedOnce
<1> QED
  BY <1>1, <1>2, <1>3, PTL DEF Spec

\* Until something fails, the number the guard compares with is that of the items
\* in secrets.yaml, and a cycle that writes has passed the guard.
GuardInv ==
  /\ mishaps \in Nat
  /\ pc \in {"files", "manifest", "secrets"} =>
       ~Shrinks(Cardinality(DOMAIN merged.secrets), lastItems, cycleForce)
  /\ mishaps = 0 /\ pc \notin {"replaced", "record"} =>
       secretsFile = None \/ lastItems = Cardinality(DOMAIN secretsFile)

LEMMA GuardKept ==
  ASSUME SecretsInv, GuardInv, [Next]_vars
  PROVE  GuardInv'
<1> USE DEF GuardInv, flags, work, disk, memory, counters, Mishap
<1>1. CASE TakeForce \/ BeginCycle \/ Sleep \/ Web
  BY <1>1 DEF TakeForce, BeginCycle, Sleep, Asleep, Due, Woken, RetryReload, Heartbeat, Probe, Accept,
     Web, TriggerSync, BeginPreview, EndPreview
<1>2. CASE World
  BY <1>2 DEF World, SourceChanges, ThrottleEnds, Restart, Boot
<1>3. CASE Cycle
  <2>1. ASSUME Proceed PROVE GuardInv'
    BY <2>1 DEF Proceed, CycleFails
  <2>2. ASSUME NEW f \in todo, WriteFile(f) PROVE GuardInv'
    BY <2>2 DEF WriteFile
  <2>3. ASSUME RemoveStale \/ SaveManifest PROVE GuardInv'
    BY <2>3 DEF RemoveStale, SaveManifest
  <2>4. ASSUME SameSecrets \/ ReplaceSecrets \/ Synced PROVE GuardInv'
    BY <2>4 DEF SameSecrets, ReplaceSecrets, Synced
  <2>5. ASSUME Record PROVE GuardInv'
    BY <2>5 DEF Record, SecretsInv, CycleInv, Writing
  <2>6. ASSUME Succeed \/ Refuse \/ RejectOptions PROVE GuardInv'
    BY <2>6 DEF Succeed, Refuse, RejectOptions, Fail, Finish
  <2>7. ASSUME WriteError \/ InternalError PROVE GuardInv'
    BY <2>7 DEF WriteError, InternalError, Fail, Finish
  <2>8. ASSUME NEW p \in Providers, FetchOk(p) \/ FetchFailed(p) PROVE GuardInv'
    BY <2>8 DEF FetchOk, FetchFailed, AfterFetch, Turn
  <2> QED
    BY <1>3, <2>1, <2>2, <2>3, <2>4, <2>5, <2>6, <2>7, <2>8 DEF Cycle
<1>4. CASE UNCHANGED vars
  BY <1>4 DEF vars
<1> QED
  BY <1>1, <1>2, <1>3, <1>4 DEF Next

\* For every share the guard may be set to: an unforced replacement never drops more
\* of what secrets.yaml holds, until a write could not be recorded.
THEOREM GuardHolds == Spec => GuardAgainstLastWrite
<1> DEFINE Guarded ==
             \/ mishaps > 0
             \/ secretsFile = None
             \/ secretsFile' = secretsFile
             \/ cycleForce
             \/ 100 * Cardinality(DOMAIN secretsFile')
                  >= (100 - Percent) * Cardinality(DOMAIN secretsFile)
<1>1. Init => GuardInv
  BY DEF Init, GuardInv
<1>2. SecretsInv /\ GuardInv /\ [Next]_vars => GuardInv'
  BY GuardKept
<1>3. SecretsInv /\ GuardInv /\ [Next]_vars => Guarded
  <2> SUFFICES ASSUME SecretsInv, GuardInv, Next,
                      mishaps = 0, secretsFile # None, secretsFile' # secretsFile, ~cycleForce
               PROVE  100 * Cardinality(DOMAIN secretsFile')
                        >= (100 - Percent) * Cardinality(DOMAIN secretsFile)
    BY DEF vars, disk, GuardInv
  <2>1. ReplaceSecrets
    BY DiskSteps DEF WriteFile, RemoveStale, SaveManifest, disk
  <2> DEFINE n == Cardinality(DOMAIN secretsFile')
             m == Cardinality(DOMAIN secretsFile)
  <2>2. secretsFile \in Secrets /\ secretsFile' \in Secrets
    BY <2>1, ContributionMerges, MergeSecrets
       DEF ReplaceSecrets, SecretsInv, TypeOK, CycleInv, Writing
  <2>3. n \in Nat /\ m \in Nat
    BY <2>2, Counted DEF Counts
  <2>4. lastItems = m /\ ~Shrinks(n, m, cycleForce)
    BY <2>1 DEF GuardInv, ReplaceSecrets
  <2> HIDE DEF n, m
  <2>5. m = 0 \/ ~(100 * n < m * (100 - Percent))
    BY <2>3, <2>4, ProvidersAssumption DEF Shrinks
  <2>6. 100 * n >= (100 - Percent) * m
    BY <2>3, <2>5, PercentAssumption
  <2> QED
    BY <2>6 DEF n, m
<1> QED
  BY <1>1, <1>2, <1>3, SecretsInvariant, PTL DEF Spec, GuardAgainstLastWrite
=============================================================================
