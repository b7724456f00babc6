----------------------------- MODULE ReleaseTool -----------------------------
(***************************************************************************)
(* internal/update-version.py and internal/update-base-image.py on the clone *)
(* of one add-on: they write version numbers into config.yaml, build.yaml    *)
(* and README.md (for terraform-bridge also into the provider's build.yaml), *)
(* and update-version.py tags HEAD and pushes the tag.                       *)
(*                                                                         *)
(* A version is [base, kind, n]: X.Y.Z ("plain"), X.Y.Z-N ("sub") or         *)
(* X.Y.Z-rcN ("pre"); X.Y.Z is a number.                                     *)
(***************************************************************************)
EXTENDS ServiceValues, Integers, Sequences

CONSTANTS
  Requests,      \* the versions the tool is asked for
  MaxImage,      \* bound on base image versions
  MaxCommits,    \* bound on commits
  MaxToolRuns    \* bound on runs of the tools

Versions == [base : Nat, kind : {"plain", "sub", "pre"}, n : Nat]

\* A version without a suffix is no different from one with another number in it.
ASSUME RequestAssumption ==
  /\ Requests \subseteq {v \in Versions : v.kind = "plain" => v.n = 0}
  /\ MaxImage \in Nat /\ None \notin Versions

VARIABLES
  bridge,        \* whether the add-on is terraform-bridge
  tree,          \* the working tree: [config, build, image, readme, provider]
  commits,       \* what was committed; HEAD is the last
  localTags, originTags,   \* version |-> number of the commit it names
  lastRun,       \* the last run of update-version.py
  toolRuns

releaseVars == <<bridge, tree, commits, localTags, originTags, lastRun, toolRuns>>

HEAD == Len(commits)
Tagged(tags, v, commit) ==
  [w \in DOMAIN tags \cup {v} |-> IF w = v THEN commit ELSE tags[w]]

\* config.yaml carries a subpatch, -0 where none is asked for ...
ConfigVersion(v) == IF v.kind = "plain" THEN [v EXCEPT !.kind = "sub", !.n = 0] ELSE v

\* ... build.yaml and README.md never do.
BaseVersion(v) == IF v.kind = "sub" THEN [v EXCEPT !.kind = "plain", !.n = 0] ELSE v

\* update_config_yaml, update_build_yaml, update_readme_md: a file in which no
\* version is found stays as it is.
Rewritten(t, v) ==
  [t EXCEPT !.config = IF @ = None THEN None ELSE ConfigVersion(v),
            !.build  = BaseVersion(v),
            !.readme = BaseVersion(v)]

\* The provider's build.yaml: bumped with the bridge; "already there" is failure.
ProviderBumpFails(v) == bridge /\ tree.provider = BaseVersion(v)

WithProvider(t, v) ==
  IF bridge /\ t.provider # None THEN [t EXCEPT !.provider = BaseVersion(v)] ELSE t

\* Mutant of UncommittedChanges: `git status` is not asked.
NeverDirty(t) == FALSE

\* files_have_uncommitted_changes of the version files.
UncommittedChanges(t) == t # commits[HEAD]

\* create_and_push_tag: an existing tag is never moved; a push may fail.
CreateTag(v, push, pushed) ==
  LET known == v \in DOMAIN localTags \cup DOMAIN originTags
      toPush == IF known THEN v \in DOMAIN localTags /\ v \notin DOMAIN originTags ELSE TRUE
      local == IF known THEN localTags ELSE Tagged(localTags, v, HEAD)
  IN /\ localTags' = local
     /\ originTags' = IF push /\ toPush /\ pushed
                      THEN Tagged(originTags, v, local[v]) ELSE originTags
     /\ lastRun' = [version |-> v, push |-> push,
                    exit |-> IF push /\ toPush /\ ~pushed THEN 1 ELSE 0]

NoTag(v, push, code) ==
  /\ lastRun' = [version |-> v, push |-> push, exit |-> code]
  /\ UNCHANGED <<localTags, originTags>>

\* main without --dry-run.  The files are written before anything can refuse.
UpdateVersion(v, tag, push, pushed) ==
  LET written == Rewritten(tree, v)
      new == ConfigVersion(v)
  IN /\ toolRuns < MaxToolRuns /\ toolRuns' = toolRuns + 1
     /\ IF tree.config = None \/ ProviderBumpFails(v)
        THEN tree' = written /\ NoTag(new, push, 1)
        ELSE /\ tree' = WithProvider(written, v)
             /\ IF ~tag \/ UncommittedChanges(tree') THEN NoTag(new, push, 0)
                ELSE CreateTag(new, push, pushed)
     /\ UNCHANGED <<bridge, commits>>

TagIsNewer(candidate, current) == candidate > current

\* A pre-release keeps its version.
IncrementSubpatch(v) == IF v.kind = "sub" THEN [v EXCEPT !.n = @ + 1] ELSE v

\* process_addon: a newer base image gets a new subpatch.
UpdateBaseImage(image) ==
  /\ toolRuns < MaxToolRuns /\ toolRuns' = toolRuns + 1
  /\ TagIsNewer(image, tree.image) /\ tree.config # None
  /\ LET next == IncrementSubpatch(tree.config)
     IN tree' = [tree EXCEPT !.image = image, !.config = next,
                             !.readme = BaseVersion(next)]
  /\ UNCHANGED <<bridge, commits, localTags, originTags, lastRun>>

\* The maintainer: git commit, git checkout of the files, a fresh clone that
\* has not fetched the tags.
CommitFiles ==
  /\ tree # commits[HEAD] /\ HEAD < MaxCommits
  /\ commits' = Append(commits, tree)
  /\ UNCHANGED <<bridge, tree, localTags, originTags, lastRun, toolRuns>>

Discard ==
  /\ tree # commits[HEAD]
  /\ tree' = commits[HEAD]
  /\ UNCHANGED <<bridge, commits, localTags, originTags, lastRun, toolRuns>>

FreshClone ==
  /\ tree = commits[HEAD] /\ localTags # originTags
  /\ localTags' = [v \in {} |-> 0]
  /\ UNCHANGED <<bridge, tree, commits, originTags, lastRun, toolRuns>>

First == [base |-> 1, kind |-> "plain", n |-> 0]

ReleaseInit ==
  /\ bridge \in BOOLEAN
  /\ tree \in [config: {None, ConfigVersion(First)}, build: {First}, image: {1},
               readme: {First}, provider: IF bridge THEN {None, First} ELSE {None}]
  /\ commits = <<tree>>
  /\ localTags = [v \in {} |-> 0] /\ originTags = [v \in {} |-> 0]
  /\ lastRun = None /\ toolRuns = 0

ReleaseNext ==
  \/ \E v \in Requests, tag, push, pushed \in BOOLEAN : UpdateVersion(v, tag, push, pushed)
  \/ \E image \in 1..MaxImage : UpdateBaseImage(image)
  \/ CommitFiles \/ Discard \/ FreshClone

ReleaseSpec == ReleaseInit /\ [][ReleaseNext]_releaseVars

-----------------------------------------------------------------------------
(* Properties *)

\* Whatever was edited, bumped, committed or cloned in between, the commit a tag
\* names holds that version in all the files: no tag lies about its commit
\* (update-version.py:438-449).
TagsNameTheirVersion ==
  \A tags \in {localTags, originTags} : \A v \in DOMAIN tags :
    LET t == commits[tags[v]] IN
      /\ t.config = v
      /\ t.build = BaseVersion(v) /\ t.readme = BaseVersion(v)
      /\ t.provider \in {None, BaseVersion(v)}
=============================================================================
