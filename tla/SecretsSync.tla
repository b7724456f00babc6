---------------------------- MODULE SecretsSync ----------------------------
(***************************************************************************)
(* The secrets-sync add-on (src/secrets-sync/app): the supervisor thread    *)
(* that fetches every provider, merges the snapshots and replaces          *)
(* secrets.yaml and the provider files; the web threads that trigger it    *)
(* and preview; the container that may vanish between any two steps; and   *)
(* Home Assistant's own copy of the key names.                             *)
(*                                                                         *)
(* A snapshot is a partial function from keys to values and one from files *)
(* to contents; it stands for its own check token.  The clock is left out: *)
(* "due", "throttled" and the manual gap are choices, bounded only by the  *)
(* order the delays of the code give them.                                 *)
(***************************************************************************)
EXTENDS Integers, FiniteSets

CONSTANTS
  Providers,    \* cfg.providers
  Rank,         \* their order in the option, 1 first
  Revisions,    \* the snapshots each provider's source may hold
  Checkable,    \* the providers with a change probe
  Synthetic,    \* synthetic key |-> the real key its template reads
  UserFiles,    \* what the files directory may hold before the first start
  Percent,      \* cfg.shrink_guard_percent
  None,         \* Python's None
  MaxChanges,   \* bound on revisions of the sources
  MaxRequests,  \* bound on accepted triggers and previews
  MaxMishaps    \* bound on failing calls and restarts

ASSUME BoundAssumption ==
  MaxChanges \in Nat /\ MaxRequests \in Nat /\ MaxMishaps \in Nat
ASSUME PercentAssumption == Percent \in 1..100
ASSUME ProvidersAssumption ==
  /\ Rank \in [Providers -> Nat]
  /\ None \notin Nat
  /\ \A p \in Providers : None \notin Revisions[p]
\* The user's files are told apart from the providers' by their content.
ASSUME UserFilesAssumption ==
  \A u \in UserFiles :
    /\ u = [f \in DOMAIN u |-> u[f]]
    /\ \A f \in DOMAIN u : \A p \in Providers : \A r \in Revisions[p] :
         f \in DOMAIN r.files => r.files[f] # u[f]

VARIABLES
  source,       \* what each provider's source holds now
  options,      \* the add-on options: usable, and the collision policy
  secretsFile,  \* secrets.yaml: key |-> value, or None
  filesDir,     \* the files directory: file |-> content
  manifest,     \* files.manifest.json: file |-> digest of the content
  stateFile,    \* the fields of state.json that a restart reads back
  haKeys,       \* key names in Home Assistant's copy of secrets.yaml
  throttled,    \* Home Assistant re-read it less than 60 s ago
  pc,           \* where the supervisor thread is
  running, pending, force, wake,       \* _running, _pending, _force, _wake
  previewing,   \* a web thread holds _cycle_lock for a preview
  lastGood,     \* _last_good
  tokens,       \* _tokens
  failing,      \* _fails > 0
  lastItems,    \* _last_items
  lastWritten,  \* _last_written
  retryReload,  \* _reload_retry_at is not None
  status, success, items,              \* state.status, last_success_at, items
  cycleForce,   \* the force argument of the cycle under way
  outcome,      \* what this cycle's fetch of each provider gave
  merged,       \* its Merged, or None
  todo,         \* files write_files has still to look at
  skipped,      \* FilesResult.skipped
  previous,     \* key names before the replacement, or None if nothing was written
  credit,       \* history: forced triggers accepted less forced cycles begun
  changes, requests, mishaps   \* counters of the bounds

world    == <<source, options>>
disk     == <<secretsFile, filesDir, manifest>>
ha       == <<haKeys, throttled>>
flags    == <<running, pending, force, wake>>
memory   == <<lastGood, tokens, lastItems, lastWritten>>
report   == <<status, success, items, failing, stateFile>>
work     == <<cycleForce, outcome, merged, todo, skipped, previous>>
counters == <<changes, requests, mishaps>>
vars == <<world, disk, ha, pc, flags, previewing, memory, retryReload, report,
          work, credit, counters>>

Names(f) == IF f = None THEN {} ELSE DOMAIN f
Put(f, x, v) == [y \in DOMAIN f \cup {x} |-> IF y = x THEN v ELSE f[y]]
Without(f, S) == [y \in DOMAIN f \ S |-> f[y]]
NoFiles == [f \in {} |-> 0]

-----------------------------------------------------------------------------
(* merge, synthetic.apply and check_shrink *)

Snapshots == UNION {Revisions[p] : p \in Providers}

\* The part of a merge over one field of the snapshots.
SecretsOf(snap) == [p \in Providers |-> snap[p].secrets]
FilesOf(snap)   == [p \in Providers |-> snap[p].files]

Shared(part) ==
  \E p, q \in Providers : p # q /\ DOMAIN part[p] \cap DOMAIN part[q] # {}

\* The first provider of the option that has x.
Winner(part, x) ==
  CHOOSE p \in Providers :
    /\ x \in DOMAIN part[p]
    /\ \A q \in Providers : x \in DOMAIN part[q] => Rank[p] <= Rank[q]

Union(part) ==
  [x \in UNION {DOMAIN part[p] : p \in Providers} |-> part[Winner(part, x)][x]]

\* A synthetic key may not hide a real one, and its template must resolve.
SyntheticFails(secrets) ==
  \E n \in DOMAIN Synthetic :
    n \in DOMAIN secrets \/ Synthetic[n] \notin DOMAIN secrets

Rendered(secrets) ==
  [k \in DOMAIN secrets \cup {n \in DOMAIN Synthetic : Synthetic[n] \in DOMAIN secrets} |->
     IF k \in DOMAIN secrets THEN secrets[k] ELSE secrets[Synthetic[k]]]

MergeFails(snap) ==
  \/ options.policy = "error" /\ (Shared(SecretsOf(snap)) \/ Shared(FilesOf(snap)))
  \/ SyntheticFails(Union(SecretsOf(snap)))

Merge(snap) ==
  [secrets |-> Rendered(Union(SecretsOf(snap))), files |-> Union(FilesOf(snap))]

\* Mutant of Shrinks: the share that must stay is taken for the share that may go.
ShrinksByRest(n, last, forced) ==
  n = 0 \/ (~forced /\ last # None /\ last > 0 /\ 100 * n < last * Percent)

Shrinks(n, last, forced) ==
  \/ n = 0
  \/ /\ ~forced
     /\ last # None
     /\ last > 0
     /\ 100 * n < last * (100 - Percent)

-----------------------------------------------------------------------------
Fresh == [p \in Providers |-> "todo"]

\* Memory of a process that has just started on what state.json holds.
Boot ==
  /\ pc' = "loop"
  /\ running' = FALSE /\ pending' = FALSE /\ force' = FALSE /\ wake' = FALSE
  /\ previewing' = FALSE
  /\ lastGood' = [p \in Providers |-> None]
  /\ tokens' = [p \in Providers |-> None]
  /\ failing' = FALSE
  /\ lastItems' = IF stateFile.success THEN stateFile.items ELSE None
  /\ lastWritten' = None
  /\ retryReload' = FALSE
  /\ status' = "starting"
  /\ success' = stateFile.success
  /\ items' = stateFile.items
  /\ cycleForce' = FALSE /\ outcome' = Fresh /\ merged' = None
  /\ todo' = {} /\ skipped' = {} /\ previous' = None

Init ==
  /\ source \in [Providers -> Snapshots]
  /\ \A p \in Providers : source[p] \in Revisions[p]
  /\ options \in [valid : BOOLEAN, policy : {"error", "priority"}]
  /\ secretsFile = None
  /\ filesDir \in UserFiles
  /\ manifest = NoFiles
  /\ stateFile = [success |-> FALSE, items |-> 0]
  /\ haKeys = {} /\ throttled = FALSE
  /\ pc = "loop"
  /\ running = FALSE /\ pending = FALSE /\ force = FALSE /\ wake = FALSE
  /\ previewing = FALSE
  /\ lastGood = [p \in Providers |-> None]
  /\ tokens = [p \in Providers |-> None]
  /\ failing = FALSE /\ lastItems = None /\ lastWritten = None
  /\ retryReload = FALSE
  /\ status = "starting" /\ success = FALSE /\ items = 0
  /\ cycleForce = FALSE /\ outcome = Fresh /\ merged = None
  /\ todo = {} /\ skipped = {} /\ previous = None
  /\ credit = 0
  /\ changes = 0 /\ requests = 0 /\ mishaps = 0

\* A failing call of the environment, or a kill; the other counters stay.
Mishap ==
  /\ mishaps < MaxMishaps
  /\ mishaps' = mishaps + 1
  /\ UNCHANGED <<changes, requests>>

-----------------------------------------------------------------------------
(* The world outside the process *)

SourceChanges(p) ==
  /\ changes < MaxChanges
  /\ changes' = changes + 1
  /\ \E r \in Revisions[p] \ {source[p]} : source' = [source EXCEPT ![p] = r]
  /\ UNCHANGED <<options, disk, ha, pc, flags, previewing, memory, retryReload,
                 report, work, credit, requests, mishaps>>

\* Home Assistant may re-read secrets.yaml again.
ThrottleEnds ==
  /\ throttled
  /\ throttled' = FALSE
  /\ UNCHANGED <<world, disk, haKeys, pc, flags, previewing, memory, retryReload,
                 report, work, credit, counters>>

\* The process is killed, whatever it was doing, and started again.  Home
\* Assistant re-reads secrets.yaml when it starts the add-on.
Restart ==
  /\ Mishap
  /\ Boot
  /\ credit' = 0
  /\ haKeys' = IF throttled THEN haKeys ELSE Names(secretsFile)
  /\ throttled' = TRUE
  /\ UNCHANGED <<world, disk, stateFile>>

-----------------------------------------------------------------------------
(* Web threads *)

\* An accepted trigger_sync; a refused one changes nothing.
Accept(forced) ==
  /\ ~running /\ ~pending
  /\ pending' = TRUE
  /\ force' = forced

TriggerSync(forced) ==
  /\ requests < MaxRequests
  /\ requests' = requests + 1
  /\ Accept(forced)
  /\ wake' = TRUE
  /\ credit' = IF forced THEN credit + 1 ELSE credit
  /\ UNCHANGED <<world, disk, ha, pc, running, previewing, memory, retryReload,
                 report, work, changes, mishaps>>

\* preview fetches and merges under _cycle_lock and writes nothing.
BeginPreview ==
  /\ pc \in {"loop", "begin", "sleep"}
  /\ ~previewing
  /\ requests < MaxRequests
  /\ requests' = requests + 1
  /\ previewing' = TRUE
  /\ UNCHANGED <<world, disk, ha, pc, flags, memory, retryReload, report, work,
                 credit, changes, mishaps>>

\* Mutant of EndPreview: the early return after a merge error keeps the lock.
EndPreviewLeaks ==
  /\ previewing
  /\ ~MergeFails(source)
  /\ previewing' = FALSE
  /\ UNCHANGED <<world, disk, ha, pc, flags, memory, retryReload, report, work,
                 credit, counters>>

EndPreview ==
  /\ previewing
  /\ previewing' = FALSE
  /\ UNCHANGED <<world, disk, ha, pc, flags, memory, retryReload, report, work,
                 credit, counters>>

-----------------------------------------------------------------------------
(* run_forever and run_once *)

\* Mutant of TakeForce: the flag stays set for the next cycle.
TakeForceAgain ==
  /\ pc = "loop"
  /\ pc' = "begin"
  /\ cycleForce' = force
  /\ UNCHANGED <<world, disk, ha, flags, previewing, memory, retryReload, report,
                 outcome, merged, todo, skipped, previous, credit, counters>>

TakeForce ==
  /\ pc = "loop"
  /\ pc' = "begin"
  /\ cycleForce' = force
  /\ force' = FALSE
  /\ UNCHANGED <<world, disk, ha, running, pending, wake, previewing, memory,
                 retryReload, report, outcome, merged, todo, skipped, previous,
                 credit, counters>>

\* run_once has _cycle_lock.
BeginCycle ==
  /\ pc = "begin"
  /\ ~previewing
  /\ pc' = IF options.valid THEN "fetch" ELSE "reject"
  /\ running' = TRUE
  /\ pending' = FALSE
  /\ credit' = IF cycleForce THEN credit - 1 ELSE credit
  /\ UNCHANGED <<world, disk, ha, force, wake, previewing, memory, retryReload,
                 report, work, counters>>

\* _finish and the end of run_once.
Finish(st, written) ==
  /\ pc' = "sleep"
  /\ running' = FALSE
  /\ status' = st
  /\ failing' = (st # "ok")
  /\ IF written THEN success' = TRUE /\ items' = Cardinality(DOMAIN merged.secrets)
                ELSE UNCHANGED <<success, items>>
  /\ cycleForce' = FALSE /\ outcome' = Fresh /\ merged' = None
  /\ todo' = {} /\ skipped' = {} /\ previous' = None
  /\ UNCHANGED <<pending, force, wake, previewing>>

Saved == stateFile' = [success |-> success', items |-> items']

Fail == Finish(IF success THEN "degraded" ELSE "error", FALSE) /\ Saved

RejectOptions ==
  /\ pc = "reject"
  /\ Finish("error", FALSE)
  /\ Saved
  /\ UNCHANGED <<world, disk, ha, memory, retryReload, credit, counters>>

InCycle == pc \in {"fetch", "decide", "files", "manifest", "secrets", "replaced",
                   "record", "succeed"}

\* Any other exception out of _cycle.
InternalError ==
  /\ InCycle
  /\ Mishap
  /\ Fail
  /\ UNCHANGED <<world, disk, ha, memory, retryReload, credit>>

-----------------------------------------------------------------------------
(* _cycle *)

\* The next provider in the order of the option.
Turn(p) ==
  /\ pc = "fetch"
  /\ outcome[p] = "todo"
  /\ \A q \in Providers : outcome[q] = "todo" => Rank[p] <= Rank[q]

AfterFetch == pc' = IF \E q \in Providers : outcome'[q] = "todo" THEN "fetch" ELSE "decide"

\* Mutant of FetchOk: a snapshot that is held is not replaced.
FetchKeepsHeld(p) ==
  /\ Turn(p)
  /\ outcome' = [outcome EXCEPT ![p] = "ok"]
  /\ lastGood' = IF lastGood[p] = None THEN [lastGood EXCEPT ![p] = source[p]] ELSE lastGood
  /\ tokens' = IF p \in Checkable THEN [tokens EXCEPT ![p] = source[p]] ELSE tokens
  /\ AfterFetch
  /\ UNCHANGED <<world, disk, ha, flags, previewing, lastItems, lastWritten,
                 retryReload, report, cycleForce, merged, todo, skipped, previous,
                 credit, counters>>

FetchOk(p) ==
  /\ Turn(p)
  /\ outcome' = [outcome EXCEPT ![p] = "ok"]
  /\ lastGood' = [lastGood EXCEPT ![p] = source[p]]
  /\ tokens' = IF p \in Checkable THEN [tokens EXCEPT ![p] = source[p]] ELSE tokens
  /\ AfterFetch
  /\ UNCHANGED <<world, disk, ha, flags, previewing, lastItems, lastWritten,
                 retryReload, report, cycleForce, merged, todo, skipped, previous,
                 credit, counters>>

\* No provider, a blocking problem or an error; a collision inside the source
\* is told apart.
FetchFailed(p) ==
  /\ Turn(p)
  /\ Mishap
  /\ \E kind \in {"failed", "collision"} : outcome' = [outcome EXCEPT ![p] = kind]
  /\ AfterFetch
  /\ UNCHANGED <<world, disk, ha, flags, previewing, memory, retryReload, report,
                 cycleForce, merged, todo, skipped, previous, credit>>

Blocked ==
  \/ \E p \in Providers : outcome[p] = "collision"
  \/ \E p \in Providers : outcome[p] = "failed" /\ lastGood[p] = None

\* What the cycle would write: the fetched snapshots and, for a provider that
\* failed, the one held.
Contribution == [p \in Providers |->
  IF lastGood[p] = None THEN [secrets |-> NoFiles, files |-> NoFiles] ELSE lastGood[p]]

CycleFails ==
  \/ Blocked
  \/ MergeFails(Contribution)
  \/ Shrinks(Cardinality(DOMAIN Merge(Contribution).secrets), lastItems, cycleForce)

Refuse ==
  /\ pc = "decide"
  /\ CycleFails
  /\ Fail
  /\ UNCHANGED <<world, disk, ha, memory, retryReload, credit, counters>>

Proceed ==
  /\ pc = "decide"
  /\ ~CycleFails
  /\ pc' = "files"
  /\ merged' = Merge(Contribution)
  /\ todo' = DOMAIN Merge(Contribution).files
  /\ UNCHANGED <<world, disk, ha, flags, previewing, memory, retryReload, report,
                 cycleForce, outcome, skipped, previous, credit, counters>>

-----------------------------------------------------------------------------
(* write_files and write_secrets *)

\* A file that is there with other content and is not in the manifest.
Unmanaged(f) ==
  /\ f \in DOMAIN filesDir
  /\ filesDir[f] # merged.files[f]
  /\ f \notin DOMAIN manifest

WriteFile(f) ==
  /\ pc = "files"
  /\ f \in todo
  /\ todo' = todo \ {f}
  /\ IF Unmanaged(f)
     THEN skipped' = skipped \cup {f} /\ UNCHANGED filesDir
     ELSE filesDir' = Put(filesDir, f, merged.files[f]) /\ UNCHANGED skipped
  /\ UNCHANGED <<world, secretsFile, manifest, ha, pc, flags, previewing, memory,
                 retryReload, report, cycleForce, outcome, merged, previous,
                 credit, counters>>

Stale == DOMAIN manifest \ DOMAIN merged.files

RemoveStale ==
  /\ pc = "files"
  /\ todo = {}
  /\ pc' = "manifest"
  /\ filesDir' = Without(filesDir, Stale)
  /\ UNCHANGED <<world, secretsFile, manifest, ha, flags, previewing, memory,
                 retryReload, report, work, credit, counters>>

\* Mutant of SaveManifest: files left alone are listed as well.
SaveManifestOfAll ==
  /\ pc = "manifest"
  /\ pc' = "secrets"
  /\ manifest' = merged.files
  /\ UNCHANGED <<world, secretsFile, filesDir, ha, flags, previewing, memory,
                 retryReload, report, work, credit, counters>>

SaveManifest ==
  /\ pc = "manifest"
  /\ pc' = "secrets"
  /\ manifest' = Without(merged.files, skipped)
  /\ UNCHANGED <<world, secretsFile, filesDir, ha, flags, previewing, memory,
                 retryReload, report, work, credit, counters>>

\* An OSError on the way, or after os.replace: a WriteError ends the cycle.
WriteError ==
  /\ pc \in {"files", "manifest", "secrets", "replaced"}
  /\ Mishap
  /\ Fail
  /\ UNCHANGED <<world, disk, ha, memory, retryReload, credit>>

\* write_secrets finds the file byte-identical.
SameSecrets ==
  /\ pc = "secrets"
  /\ secretsFile = merged.secrets
  /\ pc' = "record"
  /\ UNCHANGED <<world, disk, ha, flags, previewing, memory, retryReload, report,
                 work, credit, counters>>

\* os.replace of the staged and verified file.
ReplaceSecrets ==
  /\ pc = "secrets"
  /\ secretsFile # merged.secrets
  /\ pc' = "replaced"
  /\ previous' = IF lastWritten # None THEN DOMAIN lastWritten ELSE Names(secretsFile)
  /\ secretsFile' = merged.secrets
  /\ UNCHANGED <<world, filesDir, manifest, ha, flags, previewing, memory,
                 retryReload, report, cycleForce, outcome, merged, todo, skipped,
                 credit, counters>>

Synced ==
  /\ pc = "replaced"
  /\ pc' = "record"
  /\ UNCHANGED <<world, disk, ha, flags, previewing, memory, retryReload, report,
                 work, credit, counters>>

-----------------------------------------------------------------------------
(* _after_write, the reload of Home Assistant's copy, and the end of _cycle *)

\* Home Assistant answers 200 and re-reads the file unless it just did.
HaRereads ==
  /\ haKeys' = IF throttled THEN haKeys ELSE Names(secretsFile)
  /\ throttled' = TRUE

NamesChanged == previous # None /\ previous # DOMAIN merged.secrets

\* Mutant of Record: the second call is not scheduled.
RecordWithoutRetry ==
  /\ pc = "record"
  /\ pc' = "succeed"
  /\ lastWritten' = merged.secrets
  /\ lastItems' = Cardinality(DOMAIN merged.secrets)
  /\ IF NamesChanged THEN HaRereads /\ UNCHANGED retryReload
                     ELSE UNCHANGED <<ha, retryReload>>
  /\ UNCHANGED <<world, disk, flags, previewing, lastGood, tokens, report, work,
                 credit, counters>>

Record ==
  /\ pc = "record"
  /\ pc' = "succeed"
  /\ lastWritten' = merged.secrets
  /\ lastItems' = Cardinality(DOMAIN merged.secrets)
  /\ \/ /\ NamesChanged
        /\ HaRereads
        /\ retryReload' = TRUE
        /\ UNCHANGED counters
     \/ /\ NamesChanged
        /\ Mishap
        /\ retryReload' = FALSE
        /\ UNCHANGED ha
     \/ /\ ~NamesChanged
        /\ UNCHANGED <<ha, retryReload, counters>>
  /\ UNCHANGED <<world, disk, flags, previewing, lastGood, tokens, report, work,
                 credit>>

\* Mutant of Succeed: a file left alone does not degrade the result.
SucceedAnyway ==
  /\ pc = "succeed"
  /\ Finish(IF \E p \in Providers : outcome[p] # "ok" THEN "degraded" ELSE "ok", TRUE)
  /\ Saved
  /\ UNCHANGED <<world, disk, ha, memory, retryReload, credit, counters>>

\* state.save may fail, which is only logged.
Succeed ==
  /\ pc = "succeed"
  /\ Finish(IF (\E p \in Providers : outcome[p] # "ok") \/ skipped # {}
            THEN "degraded" ELSE "ok", TRUE)
  /\ \/ Saved /\ UNCHANGED counters
     \/ Mishap /\ UNCHANGED stateFile
  /\ UNCHANGED <<world, disk, ha, memory, retryReload, credit>>

-----------------------------------------------------------------------------
(* _sleep *)

Asleep == /\ pc = "sleep"
          /\ UNCHANGED <<world, disk, running, previewing, lastGood, lastItems,
                         lastWritten, status, success, items, failing, work>>

\* The next cycle is due.
Due ==
  /\ Asleep
  /\ pc' = "loop"
  /\ UNCHANGED <<ha, pending, force, wake, tokens, retryReload, stateFile, credit,
                 counters>>

\* _wake was set.
Woken ==
  /\ Asleep
  /\ wake
  /\ wake' = FALSE
  /\ pc' = "loop"
  /\ UNCHANGED <<ha, pending, force, tokens, retryReload, stateFile, credit, counters>>

\* RETRY_AFTER is longer than the throttle, so the second call is not throttled.
RetryReload ==
  /\ Asleep
  /\ retryReload
  /\ ~throttled
  /\ retryReload' = FALSE
  /\ \/ HaRereads /\ UNCHANGED counters
     \/ Mishap /\ UNCHANGED ha
  /\ UNCHANGED <<pc, pending, force, wake, tokens, stateFile, credit>>

\* run_check: compare the sources with the tokens of the last fetch; a changed
\* one triggers a cycle unless the last cycle failed or the gap is too short.
Probe(answering) ==
  LET changed == {p \in answering : tokens[p] \notin {None, source[p]}} IN
  /\ Asleep
  /\ tokens' = [p \in Providers |->
                  IF p \in answering /\ tokens[p] = None THEN source[p] ELSE tokens[p]]
  /\ \/ changed # {} /\ ~failing /\ Accept(FALSE)
     \/ UNCHANGED <<pending, force>>
  /\ IF pending' THEN pc' = "loop" /\ wake' = FALSE ELSE UNCHANGED <<pc, wake>>
  /\ stateFile' = [success |-> success, items |-> items]
  /\ IF answering = Checkable THEN UNCHANGED counters ELSE Mishap
  /\ UNCHANGED <<ha, retryReload, credit>>

Heartbeat ==
  /\ Asleep
  /\ stateFile' = [success |-> success, items |-> items]
  /\ UNCHANGED <<ha, pc, pending, force, wake, tokens, retryReload, credit, counters>>

-----------------------------------------------------------------------------
Cycle ==
  \/ RejectOptions \/ InternalError
  \/ \E p \in Providers : FetchOk(p) \/ FetchFailed(p)
  \/ Refuse \/ Proceed
  \/ \E f \in todo : WriteFile(f)
  \/ RemoveStale \/ SaveManifest \/ WriteError
  \/ SameSecrets \/ ReplaceSecrets \/ Synced
  \/ Record \/ Succeed

Sleep ==
  \/ Due \/ Woken \/ RetryReload \/ Heartbeat
  \/ \E answering \in SUBSET Checkable : Probe(answering)

Web ==
  \/ \E forced \in BOOLEAN : TriggerSync(forced)
  \/ BeginPreview \/ EndPreview

World ==
  \/ \E p \in Providers : SourceChanges(p)
  \/ ThrottleEnds \/ Restart

Next == TakeForce \/ BeginCycle \/ Cycle \/ Sleep \/ Web \/ World

Spec == Init /\ [][Next]_vars

\* The thread goes on, every timed wait of _sleep ends, a preview returns (its
\* calls have timeouts) and the throttle runs out.  Every _sleep begins with
\* _retry_reload, so a second call that stays due is made: strong fairness.
Fairness ==
  /\ WF_vars(TakeForce) /\ WF_vars(BeginCycle) /\ WF_vars(Cycle)
  /\ WF_vars(Due) /\ WF_vars(Woken) /\ SF_vars(RetryReload)
  /\ WF_vars(EndPreview) /\ WF_vars(ThrottleEnds)

FairSpec == Spec /\ Fairness

-----------------------------------------------------------------------------
(* Properties *)

Partial(S, T) == UNION {[D -> T] : D \in SUBSET S}
AllKeys  == (UNION {DOMAIN r.secrets : r \in Snapshots}) \cup DOMAIN Synthetic
AllFiles == UNION ({DOMAIN r.files : r \in Snapshots} \cup {DOMAIN u : u \in UserFiles})
Values   == UNION {{r.secrets[k] : k \in DOMAIN r.secrets} : r \in Snapshots}
Contents == UNION ({{r.files[f] : f \in DOMAIN r.files} : r \in Snapshots}
                   \cup {{u[f] : f \in DOMAIN u} : u \in UserFiles})
Secrets  == Partial(AllKeys, Values)
Counts   == 0..Cardinality(AllKeys)

ASSUME FiniteAssumption == IsFiniteSet(AllKeys)

\* Every variable holds what the code may put there.
TypeOK ==
  /\ source \in [Providers -> Snapshots]
  /\ options \in [valid : BOOLEAN, policy : {"error", "priority"}]
  /\ secretsFile \in Secrets \cup {None}
  /\ filesDir \in Partial(AllFiles, Contents)
  /\ manifest \in Partial(AllFiles, Contents)
  /\ stateFile \in [success : BOOLEAN, items : Counts]
  /\ haKeys \subseteq AllKeys /\ throttled \in BOOLEAN
  /\ pc \in {"loop", "begin", "reject", "fetch", "decide", "files", "manifest",
             "secrets", "replaced", "record", "succeed", "sleep"}
  /\ {running, pending, force, wake, previewing, cycleForce} \subseteq BOOLEAN
  /\ lastGood \in [Providers -> Snapshots \cup {None}]
  /\ tokens \in [Providers -> Snapshots \cup {None}]
  /\ lastItems \in Counts \cup {None}
  /\ lastWritten \in Secrets \cup {None}
  /\ {retryReload, failing, success} \subseteq BOOLEAN
  /\ status \in {"starting", "ok", "degraded", "error"} /\ items \in Counts
  /\ outcome \in [Providers -> {"todo", "ok", "failed", "collision"}]
  /\ merged # None => merged.secrets \in Secrets /\ DOMAIN merged.files \subseteq AllFiles
  /\ todo \subseteq AllFiles /\ skipped \subseteq AllFiles
  /\ previous # None => previous \subseteq AllKeys

Idle == pc \in {"loop", "begin", "sleep"}

\* Status ok between two cycles means that secrets.yaml is the merge of the
\* snapshots held and that every provider file has been written and is in the
\* manifest (docs/SPEC.md:106, "ok all providers ok and written").
OkMeansWritten ==
  Idle /\ status = "ok" =>
    /\ secretsFile = Merge(lastGood).secrets
    /\ manifest = Merge(lastGood).files
    /\ \A f \in DOMAIN manifest : f \in DOMAIN filesDir /\ filesDir[f] = manifest[f]

\* A forced trigger lifts the shrink guard for one cycle only: forced cycles are
\* never more than forced triggers accepted (controller.py:16).
ForceUsedOnce == credit >= 0

\* A file of the user is never overwritten or removed: neither by a cycle nor
\* after a crash between the files and the manifest (docs/SPEC.md:168).
UserFilesKept ==
  [][\A u \in UserFiles : \A f \in DOMAIN u :
       f \in DOMAIN filesDir /\ filesDir[f] = u[f] =>
         f \in DOMAIN filesDir' /\ filesDir'[f] = u[f]]_vars

\* The keys that every revision of some source has.
StableKeys ==
  {k \in AllKeys : \E p \in Providers : \A r \in Revisions[p] : k \in DOMAIN r.secrets}

\* A key that its source never dropped is in every secrets.yaml written, through
\* outages, collisions, forced cycles and restarts: no partial merge is written.
StableKeysKept == secretsFile # None => StableKeys \subseteq DOMAIN secretsFile

\* What has been written is whole (docs/SPEC.md:92-106): both of the above, in a well-typed state.
WrittenIsWhole == TypeOK /\ OkMeansWritten /\ StableKeysKept

\* The guard of docs/SPEC.md:99: without force, a replacement never drops more
\* than the configured share of the items secrets.yaml holds, as long as every
\* write so far could be recorded (the process remembers what it last recorded,
\* state.json what it last saved, and neither is read from the file itself).
GuardAgainstLastWrite ==
  [][\/ mishaps > 0
     \/ secretsFile = None
     \/ secretsFile' = secretsFile
     \/ cycleForce
     \/ 100 * Cardinality(DOMAIN secretsFile')
          >= (100 - Percent) * Cardinality(DOMAIN secretsFile)]_vars

\* An accepted trigger starts a cycle: the thread cannot sleep through it.
TriggerStartsCycle == pending ~> running

Forbidden(m) ==
  \/ ~options.valid
  \/ MergeFails(source)
  \/ m = [k \in {} |-> 0]
  \/ lastItems # None /\ 100 * Cardinality(DOMAIN m) < (100 - Percent) * lastItems

Current ==
  Idle => Forbidden(Merge(source).secrets) \/ secretsFile = Merge(source).secrets

\* When nothing changes or fails any more, secrets.yaml ends up with what the
\* sources hold, unless the options, a collision or the guard forbid it.
SourcesReachFile == <>[]Current

\* If no call failed and the process was not killed, Home Assistant ends up
\* knowing the key names of secrets.yaml, although it throttles re-reading.
KeysReachHomeAssistant == <>(mishaps > 0) \/ <>[](haKeys = Names(secretsFile))
=============================================================================
