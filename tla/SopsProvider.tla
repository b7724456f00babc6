---------------------------- MODULE SopsProvider ----------------------------
(***************************************************************************)
(* The sops provider of secrets-sync (providers/sops.py) and its git cache  *)
(* (providers/gitsource.py).  A fetch brings the shallow clone under /data  *)
(* to the branch head, checks the path, decrypts the file and flattens it;  *)
(* the branch moves meanwhile, a git call fails or hangs, the container is  *)
(* killed and leaves the clone half written, options and key file change.   *)
(* Commits are numbered; git and sops (external) do what the code relies on.*)
(***************************************************************************)
EXTENDS ServiceValues, Integers, FiniteSets

CONSTANTS
  Commit,       \* number |-> [path, leaves]: what git_path is, what the file holds
  MaxGitEvents  \* bound on failures, kills and new commits

ASSUME CommitAssumption == 1 \in DOMAIN Commit

VARIABLES
  branch,       \* the commit at the head of the remote branch
  sopsOptions,  \* [url, wellFormed, key, deployKey], see SopsOptions
  clone,        \* [git, head, tree]: none/ok/broken, HEAD, the files' commit
  fetchHead,    \* what git fetch got
  gitAt,        \* next step of the fetch
  error,        \* code of the ProviderError that ended the last fetch, or None
  snap,         \* its Snapshot: [secrets, token], or None
  heads,        \* history: heads of the branch during this fetch
  troubled,     \* history: a call failed during this fetch
  gitEvents

gitVars ==
  <<branch, sopsOptions, clone, fetchHead, gitAt, error, snap, heads, troubled, gitEvents>>

NoClone == [git |-> "none", head |-> 0, tree |-> 0]

-----------------------------------------------------------------------------
(* sops.py: _flatten; a leaf is [name, kind, value], name joined already *)

Unsupported(leaves) == \E l \in leaves : l.kind \in {"list", "null"}

SameName(leaves) == \E l, m \in leaves : l # m /\ l.name = m.name

Flatten(leaves) ==
  [n \in {l.name : l \in leaves} |-> (CHOOSE l \in leaves : l.name = n).value]

-----------------------------------------------------------------------------
(* Options: what kind of URL, whether branch and path are well formed, the age *)
(* key file, whether the deploy key is a private regular file                  *)

Settled == [url |-> "ssh", wellFormed |-> TRUE, key |-> "ok", deployKey |-> TRUE]
SopsOptions ==
  {Settled, [Settled EXCEPT !.wellFormed = FALSE], [Settled EXCEPT !.deployKey = FALSE]}
  \cup {[Settled EXCEPT !.url = u] : u \in {"https", "with credentials", "unknown scheme"}}
  \cup {[Settled EXCEPT !.key = k] : k \in {"missing", "permissions"}}

\* What url_kind names and url_has_credentials does not object to.
UrlAccepted(url) == url \in {"ssh", "https"}

ValidateGit(o) == UrlAccepted(o.url) /\ o.wellFormed

\* _ssh_command raises before git is started.
DeployKeyMissing(o) == o.url = "ssh" /\ ~o.deployKey

-----------------------------------------------------------------------------
SopsInit ==
  /\ branch = 1
  /\ sopsOptions = Settled
  /\ clone = NoClone /\ fetchHead = 0
  /\ gitAt = "idle" /\ error = None /\ snap = None
  /\ heads = {} /\ troubled = FALSE /\ gitEvents = 0

Occurs == gitEvents < MaxGitEvents /\ gitEvents' = gitEvents + 1
Step(s) == gitAt' = s /\ UNCHANGED <<error, snap>>
Fails(code) == gitAt' = "idle" /\ error' = code /\ snap' = None
Untouched == UNCHANGED <<branch, sopsOptions, heads>>

\* _check_key_file and _validate_git come first.
BeginSops ==
  /\ gitAt = "idle"
  /\ heads' = {branch} /\ troubled' = FALSE
  /\ IF sopsOptions.key # "ok" THEN Fails("sops_key")
     ELSE IF ~ValidateGit(sopsOptions) THEN Fails("sops_invalid_config")
     ELSE gitAt' = "fetch" /\ error' = None /\ snap' = None
  /\ UNCHANGED <<branch, sopsOptions, clone, fetchHead, gitEvents>>

\* check(): ls-remote alone.
ProbeHead ==
  /\ gitAt = "idle"
  /\ IF ~ValidateGit(sopsOptions) THEN snap' = None /\ error' = "sops_invalid_config"
     ELSE IF DeployKeyMissing(sopsOptions) THEN snap' = None /\ error' = "git_key_missing"
     ELSE snap' = [secrets |-> None, token |-> branch] /\ error' = None
  /\ UNCHANGED <<branch, sopsOptions, clone, fetchHead, gitAt, heads, troubled, gitEvents>>

\* No .git: clone; otherwise git fetch, which a broken clone refuses.
GitFetch ==
  /\ gitAt = "fetch" /\ ~DeployKeyMissing(sopsOptions)
  /\ IF clone.git = "none" \/ clone.git = "broken"
     THEN Step("clone") /\ UNCHANGED fetchHead
     ELSE Step("reset") /\ fetchHead' = branch
  /\ UNCHANGED <<clone, troubled, gitEvents>> /\ Untouched

\* Mutant of GitReset: the files are left as they were.
GitResetMissing ==
  /\ gitAt = "reset"
  /\ Step("resolve")
  /\ UNCHANGED <<clone, fetchHead, troubled, gitEvents>> /\ Untouched

\* reset --hard FETCH_HEAD, then clean -fdx.
GitReset ==
  /\ gitAt = "reset"
  /\ clone' = [clone EXCEPT !.head = fetchHead, !.tree = fetchHead]
  /\ Step("resolve")
  /\ UNCHANGED <<fetchHead, troubled, gitEvents>> /\ Untouched

\* What is left of a cache is dropped before.
GitClone ==
  /\ gitAt = "clone" /\ ~DeployKeyMissing(sopsOptions)
  /\ clone' = [git |-> "ok", head |-> branch, tree |-> branch]
  /\ Step("resolve")
  /\ UNCHANGED <<fetchHead, troubled, gitEvents>> /\ Untouched

\* Codes that say nothing about the clone.
KeepsClone == {"git_timeout", "git_binary_missing", "git_key_missing", "git_key_permissions"}

\* Mutant of AfterGitError: a failing update is passed over.
UsesOldClone(code) ==
  IF clone.git = "ok" /\ code \notin KeepsClone
  THEN Step("resolve") /\ UNCHANGED clone
  ELSE Fails(code) /\ clone' = IF gitAt = "clone" THEN NoClone ELSE clone

\* A failing update drops the clone and clones once; a failing clone is removed.
AfterGitError(code) ==
  IF gitAt \in {"fetch", "reset"} /\ code \notin KeepsClone
  THEN Step("clone") /\ clone' = NoClone
  ELSE Fails(code) /\ clone' = IF gitAt = "clone" THEN NoClone ELSE clone

GitError ==
  /\ gitAt \in {"fetch", "reset", "clone"}
  /\ IF DeployKeyMissing(sopsOptions)
     THEN AfterGitError("git_key_missing") /\ UNCHANGED <<troubled, gitEvents>>
     ELSE /\ gitAt = "fetch" => clone.git # "none"
          /\ Occurs /\ troubled' = TRUE
          /\ \E code \in {"git_fetch_failed", "git_auth_failed", "git_ref_not_found",
                            "git_timeout"} : AfterGitError(code)
  /\ UNCHANGED fetchHead /\ Untouched

\* rev-parse HEAD, then the path must be a regular file reached without symlinks.
ResolvePath ==
  /\ gitAt = "resolve"
  /\ LET path == Commit[clone.tree].path IN
       IF path = "missing" THEN Fails("git_file_missing")
       ELSE IF path = "symlink" THEN Fails("git_path_invalid")
       ELSE Step("decrypt")
  /\ UNCHANGED <<clone, fetchHead, troubled, gitEvents>> /\ Untouched

Decrypt ==
  /\ gitAt = "decrypt"
  /\ LET leaves == Commit[clone.tree].leaves IN
       IF leaves = {} THEN Fails("sops_not_encrypted")
       ELSE IF Unsupported(leaves) THEN Fails("sops_unsupported_value")
       ELSE IF SameName(leaves) THEN Fails("key_collision")
       ELSE /\ gitAt' = "idle" /\ error' = None
            /\ snap' = [secrets |-> Flatten(leaves), token |-> clone.head]
  /\ UNCHANGED <<clone, fetchHead, troubled, gitEvents>> /\ Untouched

SopsFails ==
  /\ gitAt = "decrypt"
  /\ Occurs /\ troubled' = TRUE
  /\ \E code \in {"sops_timeout", "sops_decrypt_failed"} : Fails(code)
  /\ UNCHANGED <<clone, fetchHead>> /\ Untouched

-----------------------------------------------------------------------------
Push ==
  /\ Occurs
  /\ branch' \in DOMAIN Commit
  /\ heads' = heads \cup {branch'}
  /\ UNCHANGED <<sopsOptions, clone, fetchHead, gitAt, error, snap, troubled>>

\* A killed clone or reset leaves a directory with .git that git cannot use; the
\* files of a killed reset are of either commit.
Kill ==
  /\ Occurs
  /\ gitAt' = "idle" /\ error' = None /\ snap' = None
  /\ heads' = {} /\ troubled' = FALSE
  /\ CASE gitAt = "clone" -> \/ UNCHANGED clone
                             \/ clone' = [NoClone EXCEPT !.git = "broken"]
       [] gitAt = "reset" -> \/ clone' = [clone EXCEPT !.head = fetchHead]
                             \/ clone' = [clone EXCEPT !.tree = fetchHead, !.git = "broken"]
       [] OTHER           -> UNCHANGED clone
  /\ fetchHead' = 0
  /\ UNCHANGED <<branch, sopsOptions>>

OptionsChanged ==
  /\ Occurs
  /\ gitAt = "idle"
  /\ sopsOptions' \in SopsOptions
  /\ snap' = None /\ error' = None
  /\ UNCHANGED <<branch, clone, fetchHead, gitAt, heads, troubled>>

SopsNext ==
  \/ BeginSops \/ ProbeHead \/ GitFetch \/ GitReset \/ GitClone \/ GitError
  \/ ResolvePath \/ Decrypt \/ SopsFails \/ Push \/ Kill \/ OptionsChanged

SopsSpec == SopsInit /\ [][SopsNext]_gitVars

-----------------------------------------------------------------------------
(* Properties *)

Supported(c) ==
  LET leaves == Commit[c].leaves IN
  /\ Commit[c].path = "file" /\ leaves # {}
  /\ ~Unsupported(leaves) /\ ~SameName(leaves)

\* Between two fetches: a snapshot is the whole file of one commit, the one its
\* token names, and the branch had that commit as its head during the fetch,
\* whatever killed fetches left in the cache.  And an undisturbed fetch of a
\* supported file succeeds: no broken cache survives (gitsource.py:197).
SnapshotOfOneCommit ==
  gitAt = "idle" /\ heads # {} =>
    /\ snap # None /\ snap.secrets # None =>
         /\ snap.token \in heads
         /\ snap.secrets = [n \in {l.name : l \in Commit[snap.token].leaves} |->
              (CHOOSE l \in Commit[snap.token].leaves : l.name = n).value]
    /\ error # None /\ ~troubled =>
         \/ sopsOptions.key # "ok" \/ ~ValidateGit(sopsOptions) \/ DeployKeyMissing(sopsOptions)
         \/ \E c \in heads : ~Supported(c)
=============================================================================
