--------------------------- MODULE ProviderProofs ---------------------------
(***************************************************************************)
(* The two providers of secrets-sync, for all vaults, commits and options: a*)
(* snapshot is what the source held while it was fetched.                  *)
(***************************************************************************)
EXTENDS BitwardenProvider, SopsProvider, TLAPS

(* The Bitwarden provider                                                  *)

BwSteps == {"idle", "status", "logout", "config", "login", "unlock", "relogout", "reconfig",
            "relogin", "reunlock", "sync", "list"}
Clients == [server : Servers, loggedIn : BOOLEAN, key : Nat, items : Vaults \cup {{}}]

BwTypeOK ==
  /\ vault \in Vaults /\ password \in Nat
  /\ wantServer \in Servers /\ wantPassword \in Nat
  /\ cli \in Clients
  /\ step \in BwSteps
  /\ attempt \in {1, 2}
  /\ disturbed \in BOOLEAN

\* What the fetch has settled when it is at a step.
FetchSettles ==
  /\ wantPassword <= password
  /\ step # "idle" => result = "none" /\ vault \in current
  /\ step \notin {"idle", "status", "logout", "config"} => cli.server = wantServer
  /\ step = "list" => cli.items \in current

\* Nothing makes an undisturbed fetch with the right password raise: a stale key
\* sends it to a fresh login, once.
Heals ==
  ~disturbed /\ wantPassword = password =>
    /\ step \in {"sync", "list"} => session = live
    /\ step = "reunlock" => cli.key = password
    /\ attempt = 2 => /\ step = "status" => ~cli.loggedIn
                      /\ step \in {"unlock", "sync", "list"} => cli.key = password

BwInv == BwTypeOK /\ FetchSettles /\ SnapshotIsCurrent /\ Heals /\ FetchHeals

\* _build: without a collision every key is of one item.
LEMMA BuildIsSound ==
  ASSUME NEW items, ~Collides(items)
  PROVE  /\ DOMAIN Build(items) = UNION {Keys(i) : i \in items}
         /\ \A k \in DOMAIN Build(items) : {i \in items : k \in Keys(i)} = {Build(items)[k]}
<1>1. DOMAIN Build(items) = UNION {Keys(i) : i \in items}
  BY DEF Build
<1>2. ASSUME NEW k \in UNION {Keys(i) : i \in items}
      PROVE  {i \in items : k \in Keys(i)} = {Build(items)[k]}
  <2>1. PICK j \in items : k \in Keys(j)
    OBVIOUS
  <2>2. ASSUME NEW i \in items, k \in Keys(i) PROVE i = j
    BY <2>1, <2>2 DEF Collides
  <2>3. Build(items)[k] = CHOOSE i \in items : k \in Keys(i)
    BY DEF Build
  <2>4. Build(items)[k] = j
    BY <2>1, <2>2, <2>3
  <2> QED
    BY <2>1, <2>2, <2>4
<1> QED
  BY <1>1, <1>2

\* bitwarden.py at every call of the CLI, whatever the vault, its server and the
\* password do in the meantime.
THEOREM BwInvariant == BwSpec => []BwInv
<1>1. BwInit => BwInv
  <2> SUFFICES ASSUME BwInit PROVE BwInv
    OBVIOUS
  <2>1. cli \in Clients
    <3> DEFINE Out == {FALSE}
    <3>1. cli \in [server : Servers, loggedIn : Out, key : {1}, items : {{}}]
      BY DEF BwInit
    <3>2. Out \subseteq BOOLEAN
      OBVIOUS
    <3> HIDE DEF Out
    <3> QED
      BY <3>1, <3>2 DEF Clients
  <2>2. BwTypeOK
    BY <2>1 DEF BwInit, BwTypeOK, BwSteps
  <2>3. FetchSettles /\ SnapshotIsCurrent /\ FetchHeals
    BY DEF BwInit, FetchSettles, SnapshotIsCurrent, FetchHeals
  <2>4. Heals
    BY DEF BwInit, Heals
  <2> QED
    BY <2>2, <2>3, <2>4 DEF BwInv
<1>2. BwInv /\ [BwNext]_bwVars => BwInv'
  <2> SUFFICES ASSUME BwInv, [BwNext]_bwVars PROVE BwInv'
    OBVIOUS
  <2>1. BwTypeOK /\ FetchSettles /\ SnapshotIsCurrent /\ Heals /\ FetchHeals
    BY DEF BwInv
  <2>2. ASSUME UNCHANGED <<world, current, disturbed>>, step # "idle",
               BwTypeOK', FetchSettles', Heals',
               \/ step' # "idle"
               \/ result' = "key_collision"
               \/ (disturbed \/ wantPassword # password) /\ result' # "ok"
        PROVE  BwInv'
    BY <2>2 DEF FetchSettles, SnapshotIsCurrent, FetchHeals, BwInv, world
  <2>3. CASE BeginFetch
    <3>1. BwTypeOK'
      BY <2>1, <2>3 DEF BeginFetch, BwTypeOK, BwSteps, Clients, world
    <3>2. FetchSettles' /\ SnapshotIsCurrent' /\ FetchHeals'
      BY <2>1, <2>3 DEF BeginFetch, BwTypeOK, FetchSettles, SnapshotIsCurrent, FetchHeals, world
    <3>3. Heals'
      BY <2>1, <2>3 DEF BeginFetch, Heals, world
    <3> QED
      BY <3>1, <3>2, <3>3 DEF BwInv
  <2>4. CASE CheckStatus
    <3>1. BwTypeOK'
      BY <2>1, <2>4 DEF CheckStatus, Goes, Status, AfterStatus, BwTypeOK, BwSteps, Clients, world
    <3>2. FetchSettles'
      BY <2>1, <2>4 DEF CheckStatus, Goes, Status, AfterStatus, BwTypeOK, FetchSettles, world
    <3>3. Heals'
      <4>1. /\ step = "status"
            /\ step' \in {"login", "unlock", "sync", "config", "logout"}
            /\ step' = "sync" => session = live
            /\ step' \in {"unlock", "sync"} => cli.loggedIn
        <5>1. CASE cli.loggedIn /\ session # None /\ session = live
          BY <2>4, <5>1 DEF CheckStatus, Goes, Status, AfterStatus
        <5>2. CASE cli.loggedIn /\ ~(session # None /\ session = live)
          BY <2>4, <5>2 DEF CheckStatus, Goes, Status, AfterStatus
        <5>3. CASE ~cli.loggedIn
          <6>1. Status = "unauthenticated"
            BY <5>3 DEF Status
          <6>2. AfterStatus(Status) = "login"
            BY <6>1 DEF AfterStatus
          <6>3. step' \in {"login", "config"}
            BY <2>4, <6>1, <6>2 DEF CheckStatus, Goes
          <6> QED
            BY <2>4, <6>3 DEF CheckStatus
        <5> QED
          BY <5>1, <5>2, <5>3
      <4>2. UNCHANGED <<world, cli, live, session, attempt, disturbed>>
        BY <2>4 DEF CheckStatus, Goes
      <4> QED
        BY <2>1, <4>1, <4>2 DEF Heals, world
    <3>4. /\ UNCHANGED <<world, current, disturbed>> /\ step # "idle" /\ step' # "idle"
      BY <2>4 DEF CheckStatus, Goes, Status, AfterStatus
    <3> QED
      BY <3>1, <3>2, <3>3, <3>4, <2>2
  <2>5. CASE Logout
    <3>1. BwTypeOK'
      BY <2>1, <2>5 DEF Logout, Goes, BwTypeOK, BwSteps, Clients, world
    <3>2. FetchSettles'
      BY <2>1, <2>5 DEF Logout, Goes, BwTypeOK, FetchSettles, world
    <3>3. Heals'
      BY <2>1, <2>5 DEF Logout, Goes, BwTypeOK, Clients, FetchSettles, Heals, world
    <3>4. /\ UNCHANGED <<world, current, disturbed>> /\ step # "idle" /\ step' # "idle"
      BY <2>5 DEF Logout, Goes
    <3> QED
      BY <3>1, <3>2, <3>3, <3>4, <2>2
  <2>6. CASE ConfigServer
    <3>1. BwTypeOK'
      BY <2>1, <2>6 DEF ConfigServer, Goes, BwTypeOK, BwSteps, Clients, world
    <3>2. FetchSettles'
      BY <2>1, <2>6 DEF ConfigServer, Goes, BwTypeOK, FetchSettles, world
    <3>3. Heals'
      BY <2>1, <2>6 DEF ConfigServer, Goes, BwTypeOK, Clients, FetchSettles, Heals, world
    <3>4. /\ UNCHANGED <<world, current, disturbed>> /\ step # "idle" /\ step' # "idle"
      BY <2>6 DEF ConfigServer, Goes
    <3> QED
      BY <3>1, <3>2, <3>3, <3>4, <2>2
  <2>7. CASE Login
    <3>1. BwTypeOK'
      BY <2>1, <2>7 DEF Login, Goes, BwTypeOK, BwSteps, Clients, world
    <3>2. FetchSettles'
      BY <2>1, <2>7 DEF Login, Goes, BwTypeOK, FetchSettles, world
    <3>3. Heals'
      BY <2>1, <2>7 DEF Login, Goes, BwTypeOK, Clients, FetchSettles, Heals, world
    <3>4. /\ UNCHANGED <<world, current, disturbed>> /\ step # "idle" /\ step' # "idle"
      BY <2>7 DEF Login, Goes
    <3> QED
      BY <3>1, <3>2, <3>3, <3>4, <2>2
  <2>8. CASE Unlock
    <3>1. BwTypeOK'
      BY <2>1, <2>8 DEF Unlock, Goes, Raises, UnlockFails, BwTypeOK, BwSteps, Clients, world
    <3>2. FetchSettles'
      BY <2>1, <2>8 DEF Unlock, Goes, Raises, UnlockFails, BwTypeOK, FetchSettles, world
    <3>3. Heals'
      BY <2>1, <2>8 DEF Unlock, Goes, Raises, UnlockFails, BwTypeOK, Clients, FetchSettles, Heals, world
    <3>4. /\ UNCHANGED <<world, current, disturbed>> /\ step # "idle"
          /\ \/ step' # "idle"
             \/ (disturbed \/ wantPassword # password) /\ result' # "ok"
      BY <2>1, <2>8 DEF Unlock, Goes, Raises, UnlockFails, Heals, BwTypeOK
    <3> QED
      BY <3>1, <3>2, <3>3, <3>4, <2>2
  <2>9. CASE SyncVault
    <3>1. BwTypeOK'
      <4>1. cli' \in Clients
        BY <2>1, <2>9 DEF SyncVault, BwTypeOK, Clients
      <4> QED
        BY <2>1, <2>9, <4>1 DEF SyncVault, Goes, Raises, Expired, BwTypeOK, BwSteps, world
    <3>2. FetchSettles'
      <4>1. cli'.server = cli.server /\ (step' = "list" => cli'.items = vault)
        BY <2>1, <2>9 DEF SyncVault, Goes, Raises, Expired, BwTypeOK, Clients
      <4>2. /\ step = "sync" /\ step' \in {"idle", "status", "list"}
            /\ step' # "idle" => result' = result
            /\ UNCHANGED <<world, current>>
        BY <2>1, <2>9 DEF SyncVault, Goes, Raises, Expired, BwTypeOK
      <4> QED
        BY <2>1, <4>1, <4>2 DEF FetchSettles, world
    <3>3. Heals'
      <4>1. UNCHANGED <<disturbed, wantPassword, password>>
        BY <2>9 DEF SyncVault, world
      <4>2. CASE disturbed \/ wantPassword # password
        BY <2>1, <3>1, <4>1, <4>2 DEF Heals, BwTypeOK
      <4>3. SUFFICES ASSUME ~disturbed, wantPassword = password PROVE Heals'
        BY <4>2
      <4>4. step = "sync" /\ session = live /\ (attempt = 2 => cli.key = password)
        BY <2>1, <2>9, <4>3 DEF SyncVault, Heals
      <4>5. CASE cli.key # password
        <5>1. cli' = [cli EXCEPT !.loggedIn = FALSE] /\ attempt' = 2 /\ step' = "status"
          BY <2>1, <2>9, <4>4, <4>5 DEF SyncVault, Expired, BwTypeOK
        <5>2. ~cli'.loggedIn
          BY <2>1, <5>1 DEF BwTypeOK, Clients
        <5> QED
          BY <5>1, <5>2 DEF Heals
      <4>6. CASE cli.key = password
        <5>1. /\ cli' = [cli EXCEPT !.items = vault] /\ step' = "list"
              /\ UNCHANGED <<session, live, attempt, world, disturbed>>
          BY <2>9, <4>4, <4>6 DEF SyncVault, Goes
        <5>2. cli'.key = cli.key
          BY <2>1, <5>1 DEF BwTypeOK, Clients
        <5> QED
          BY <4>4, <4>6, <5>1, <5>2 DEF Heals, world
      <4> QED
        BY <4>5, <4>6
    <3>4. /\ UNCHANGED <<world, current, disturbed>> /\ step # "idle"
          /\ \/ step' # "idle"
             \/ (disturbed \/ wantPassword # password) /\ result' # "ok"
      BY <2>1, <2>9 DEF SyncVault, Goes, Raises, Expired, Heals, BwTypeOK
    <3> QED
      BY <3>1, <3>2, <3>3, <3>4, <2>2
  <2>10. CASE List
    <3>1. BwTypeOK'
      BY <2>1, <2>10 DEF List, Goes, Raises, Expired, BwTypeOK, BwSteps, Clients, world
    <3>2. FetchSettles'
      BY <2>1, <2>10 DEF List, Goes, Raises, Expired, BwTypeOK, FetchSettles, world
    <3>3. Heals'
      BY <2>1, <2>10 DEF List, Goes, Raises, Expired, BwTypeOK, Clients, FetchSettles, Heals, world
    <3>4. UNCHANGED <<world, current, disturbed, cli>> /\ step = "list"
      BY <2>10 DEF List
    <3>5. CASE session # live \/ Collides(Active(cli.items))
      <4>1. \/ step' # "idle"
            \/ result' = "key_collision"
            \/ (disturbed \/ wantPassword # password) /\ result' # "ok"
        BY <2>1, <2>10, <3>5 DEF List, Raises, Expired, Heals, BwTypeOK
      <4> QED
        BY <3>1, <3>2, <3>3, <3>4, <4>1, <2>2
    <3>6. CASE session = live /\ ~Collides(Active(cli.items))
      <4>1. result' = "ok" /\ snapshot' = Build(Active(cli.items))
        BY <2>10, <3>6 DEF List
      <4>2. cli.server = wantServer /\ cli.items \in current
        BY <2>1, <3>4 DEF FetchSettles
      <4>3. SnapshotIsCurrent'
        BY <3>4, <3>6, <4>1, <4>2, BuildIsSound DEF SnapshotIsCurrent, Active, world
      <4> QED
        BY <3>1, <3>2, <3>3, <4>1, <4>3 DEF BwInv, FetchHeals
    <3> QED
      BY <3>5, <3>6
  <2>11. CASE CommandFails
    <3>1. BwTypeOK'
      BY <2>1, <2>11 DEF CommandFails, Goes, Raises, BwTypeOK, BwSteps, Clients, world
    <3>2. FetchSettles'
      BY <2>1, <2>11 DEF CommandFails, Goes, Raises, BwTypeOK, FetchSettles, world
    <3>3. disturbed' = TRUE /\ result' # "ok"
      BY <2>1, <2>11 DEF CommandFails, Goes, Raises, FetchSettles
    <3> QED
      BY <3>1, <3>2, <3>3 DEF BwInv, SnapshotIsCurrent, Heals, FetchHeals
  <2>12. CASE Expires
    <3>1. BwTypeOK' /\ FetchSettles' /\ SnapshotIsCurrent'
      BY <2>1, <2>12 DEF Expires, BwTypeOK, FetchSettles, SnapshotIsCurrent, world, fetch
    <3>2. Heals' /\ FetchHeals'
      BY <2>1, <2>12 DEF Expires, BwTypeOK, FetchSettles, Heals, FetchHeals, world, fetch
    <3> QED
      BY <3>1, <3>2 DEF BwInv
  <2>13. CASE VaultChanges
    <3>1. BwTypeOK' /\ FetchSettles'
      BY <2>1, <2>13 DEF VaultChanges, BwTypeOK, FetchSettles, fetch
    <3>2. SnapshotIsCurrent'
      BY <2>1, <2>13 DEF VaultChanges, SnapshotIsCurrent, fetch
    <3>3. Heals' /\ FetchHeals'
      BY <2>1, <2>13 DEF VaultChanges, Heals, FetchHeals, fetch
    <3> QED
      BY <3>1, <3>2, <3>3 DEF BwInv
  <2>14. CASE PasswordChanges
    <3>1. BwTypeOK' /\ FetchSettles' /\ SnapshotIsCurrent'
      BY <2>1, <2>14 DEF PasswordChanges, BwTypeOK, FetchSettles, SnapshotIsCurrent, fetch
    <3>2. wantPassword' # password'
      BY <2>1, <2>14 DEF PasswordChanges, BwTypeOK, FetchSettles
    <3> QED
      BY <3>1, <3>2 DEF BwInv, Heals, FetchHeals
  <2>15. CASE OptionsChange
    <3>1. BwTypeOK'
      BY <2>1, <2>15 DEF OptionsChange, BwTypeOK, BwSteps
    <3>2. FetchSettles'
      BY <2>1, <2>15 DEF OptionsChange, BwTypeOK, FetchSettles
    <3>3. SnapshotIsCurrent' /\ Heals' /\ FetchHeals'
      BY <2>15 DEF OptionsChange, SnapshotIsCurrent, Heals, FetchHeals
    <3> QED
      BY <3>1, <3>3, <3>2 DEF BwInv
  <2>16. CASE UNCHANGED bwVars
    BY <2>1, <2>16 DEF bwVars, world, fetch, BwInv, BwTypeOK, FetchSettles, SnapshotIsCurrent,
                       Heals, FetchHeals, Clients
  <2> QED
    BY <2>3, <2>4, <2>5, <2>6, <2>7, <2>8, <2>9, <2>10, <2>11, <2>12, <2>13, <2>14, <2>15, <2>16
       DEF BwNext, Fetch
<1> QED
  BY <1>1, <1>2, PTL DEF BwSpec

\* A snapshot of the Bitwarden provider is what the vault held (bitwarden.py:186-227).
THEOREM BwDelivers == BwSpec => []SnapshotIsCurrent /\ []FetchHeals
<1>1. BwInv => SnapshotIsCurrent /\ FetchHeals
  BY DEF BwInv
<1> QED
  BY <1>1, BwInvariant, PTL

-----------------------------------------------------------------------------
(* The SOPS provider                                                       *)

SopsSteps == {"idle", "fetch", "reset", "clone", "resolve", "decrypt"}
Commits == DOMAIN Commit \cup {0}

SopsTypeOK ==
  /\ branch \in DOMAIN Commit
  /\ clone \in [git : {"none", "ok", "broken"}, head : Commits, tree : Commits]
  /\ fetchHead \in Commits
  /\ gitAt \in SopsSteps
  /\ heads \in SUBSET DOMAIN Commit
  /\ troubled \in BOOLEAN

\* What a fetch has found out when it is at a step.
FetchFits ==
  /\ heads # {} => branch \in heads
  /\ gitAt # "idle" => /\ heads # {} /\ error = None /\ snap = None
                       /\ sopsOptions.key = "ok" /\ ValidateGit(sopsOptions)
  /\ gitAt = "reset" => fetchHead \in heads
  /\ gitAt \in {"resolve", "decrypt"} => clone.head = clone.tree /\ clone.tree \in heads

\* SnapshotOfOneCommit, also before the first fetch and after a kill.
SnapshotFits ==
  gitAt = "idle" =>
    /\ snap # None /\ snap.secrets # None =>
         /\ snap.token \in heads
         /\ snap.secrets = Flatten(Commit[snap.token].leaves)
    /\ error # None /\ ~troubled =>
         \/ sopsOptions.key # "ok" \/ ~ValidateGit(sopsOptions) \/ DeployKeyMissing(sopsOptions)
         \/ \E c \in heads : ~Supported(c)

SopsInv == SopsTypeOK /\ FetchFits /\ SnapshotFits

\* Every step that ends a fetch with an error or goes on keeps the promise, if the
\* error has its cause.
LEMMA NoSnapshot ==
  ASSUME gitAt' # "idle" \/ (snap' = None /\ error' = None)
  PROVE  SnapshotFits'
  BY DEF SnapshotFits

LEMMA ErrorHasCause ==
  ASSUME snap' = None,
         \/ troubled' = TRUE
         \/ sopsOptions'.key # "ok" \/ ~ValidateGit(sopsOptions')
         \/ DeployKeyMissing(sopsOptions')
         \/ \E c \in heads' : ~Supported(c)
  PROVE  SnapshotFits'
  BY DEF SnapshotFits

\* gitsource.py at every git call, with failing calls, kills and new commits between.
THEOREM SopsInvariant == SopsSpec => []SopsInv
<1> USE CommitAssumption
<1>1. SopsInit => SopsInv
  <2> SUFFICES ASSUME SopsInit PROVE SopsInv
    OBVIOUS
  <2>1. SopsTypeOK
    BY DEF SopsInit, SopsTypeOK, SopsSteps, Commits, NoClone
  <2>2. FetchFits /\ SnapshotFits
    BY DEF SopsInit, FetchFits, SnapshotFits
  <2> QED
    BY <2>1, <2>2 DEF SopsInv
<1>2. SopsInv /\ [SopsNext]_gitVars => SopsInv'
  <2> SUFFICES ASSUME SopsInv, [SopsNext]_gitVars PROVE SopsInv'
    OBVIOUS
  <2>1. SopsTypeOK /\ FetchFits /\ SnapshotFits
    BY DEF SopsInv
  <2> USE DEF SopsTypeOK, SopsSteps, Commits, FetchFits
  <2>2. CASE BeginSops
    <3>1. SopsTypeOK' /\ FetchFits'
      BY <2>1, <2>2 DEF BeginSops, Fails
    <3>2. SnapshotFits'
      BY <2>2, NoSnapshot, ErrorHasCause DEF BeginSops, Fails
    <3> QED
      BY <3>1, <3>2 DEF SopsInv
  <2>3. CASE ProbeHead
    <3>1. SopsTypeOK' /\ FetchFits'
      BY <2>1, <2>3 DEF ProbeHead
    <3>2. SnapshotFits'
      <4>1. CASE snap' = [secrets |-> None, token |-> branch] /\ error' = None
        BY <4>1 DEF SnapshotFits
      <4>2. CASE snap' = None
        BY <2>3, <4>2, NoSnapshot, ErrorHasCause DEF ProbeHead
      <4> QED
        BY <2>3, <4>1, <4>2 DEF ProbeHead
    <3> QED
      BY <3>1, <3>2 DEF SopsInv
  <2>4. CASE GitFetch \/ GitClone
    <3>1. SopsTypeOK' /\ FetchFits'
      BY <2>1, <2>4 DEF GitFetch, GitClone, Step, Untouched
    <3>2. gitAt' # "idle"
      BY <2>4 DEF GitFetch, GitClone, Step
    <3> QED
      BY <3>1, <3>2, NoSnapshot DEF SopsInv
  <2>5. CASE GitReset
    <3>1. SopsTypeOK' /\ FetchFits'
      BY <2>1, <2>5 DEF GitReset, Step, Untouched
    <3>2. gitAt' # "idle"
      BY <2>5 DEF GitReset, Step
    <3> QED
      BY <3>1, <3>2, NoSnapshot DEF SopsInv
  <2>6. CASE GitError
    <3>1. PICK code : AfterGitError(code)
      BY <2>6 DEF GitError
    <3>2. /\ gitAt # "idle" /\ UNCHANGED fetchHead /\ Untouched /\ troubled' \in BOOLEAN
          /\ troubled' = TRUE \/ DeployKeyMissing(sopsOptions)
      BY <2>1, <2>6 DEF GitError
    <3>3. /\ clone' \in {clone, NoClone}
          /\ \/ gitAt' = "clone" /\ UNCHANGED <<error, snap>>
             \/ gitAt' = "idle" /\ snap' = None
      BY <3>1 DEF AfterGitError, Step, Fails
    <3>4. SopsTypeOK' /\ FetchFits'
      BY <2>1, <3>2, <3>3 DEF Untouched, NoClone
    <3>5. SnapshotFits'
      BY <3>2, <3>3, NoSnapshot, ErrorHasCause DEF Untouched
    <3> QED
      BY <3>4, <3>5 DEF SopsInv
  <2>7. CASE ResolvePath
    <3>1. SopsTypeOK' /\ FetchFits'
      BY <2>1, <2>7 DEF ResolvePath, Step, Fails, Untouched
    <3>2. gitAt' # "idle" \/ (snap' = None /\ ~Supported(clone.tree) /\ clone.tree \in heads')
      BY <2>1, <2>7 DEF ResolvePath, Step, Fails, Untouched, Supported
    <3>3. SnapshotFits'
      BY <3>2, NoSnapshot, ErrorHasCause
    <3> QED
      BY <3>1, <3>3 DEF SopsInv
  <2>8. CASE Decrypt
    <3> DEFINE leaves == Commit[clone.tree].leaves
    <3>1. SopsTypeOK' /\ FetchFits'
      BY <2>1, <2>8 DEF Decrypt, Fails, Untouched
    <3>2. \/ snap' = None /\ ~Supported(clone.tree)
          \/ snap' = [secrets |-> Flatten(leaves), token |-> clone.head] /\ error' = None
      BY <2>8 DEF Decrypt, Fails, Supported
    <3>3. clone.head = clone.tree /\ clone.tree \in heads'
      BY <2>1, <2>8 DEF Decrypt, Untouched
    <3>4. SnapshotFits'
      <4>1. CASE snap' = None /\ ~Supported(clone.tree)
        BY <3>3, <4>1, ErrorHasCause
      <4>2. CASE snap' = [secrets |-> Flatten(leaves), token |-> clone.head] /\ error' = None
        BY <3>3, <4>2 DEF SnapshotFits
      <4> QED
        BY <3>2, <4>1, <4>2
    <3> QED
      BY <3>1, <3>4 DEF SopsInv
  <2>9. CASE SopsFails
    <3>1. SopsTypeOK' /\ FetchFits'
      BY <2>1, <2>9 DEF SopsFails, Fails, Untouched
    <3>2. SnapshotFits'
      BY <2>9, ErrorHasCause DEF SopsFails, Fails
    <3> QED
      BY <3>1, <3>2 DEF SopsInv
  <2>10. CASE Push
    <3>1. SopsTypeOK' /\ FetchFits'
      BY <2>1, <2>10 DEF Push
    <3>2. SnapshotFits'
      BY <2>1, <2>10 DEF Push, SnapshotFits
    <3> QED
      BY <3>1, <3>2 DEF SopsInv
  <2>11. CASE Kill
    <3>1. clone' \in [git : {"none", "ok", "broken"}, head : Commits, tree : Commits]
      <4>1. CASE clone' = [NoClone EXCEPT !.git = "broken"]
        <5>1. NoClone \in [git : {"none", "ok", "broken"}, head : Commits, tree : Commits]
          BY DEF NoClone
        <5> HIDE DEF NoClone
        <5> QED
          BY <4>1, <5>1
      <4>2. CASE \/ UNCHANGED clone
                 \/ clone' = [clone EXCEPT !.head = fetchHead]
        BY <2>1, <4>2
      <4>3. CASE clone' = [clone EXCEPT !.tree = fetchHead, !.git = "broken"]
        BY <2>1, <4>3
      <4> QED
        BY <2>11, <4>1, <4>2, <4>3 DEF Kill
    <3>2. SopsTypeOK' /\ FetchFits'
      BY <2>1, <2>11, <3>1 DEF Kill
    <3>3. SnapshotFits'
      BY <2>11, NoSnapshot DEF Kill
    <3> QED
      BY <3>2, <3>3 DEF SopsInv
  <2>12. CASE OptionsChanged
    <3>1. SopsTypeOK' /\ FetchFits'
      BY <2>1, <2>12 DEF OptionsChanged
    <3>2. SnapshotFits'
      BY <2>12, NoSnapshot DEF OptionsChanged
    <3> QED
      BY <3>1, <3>2 DEF SopsInv
  <2>13. CASE UNCHANGED gitVars
    BY <2>1, <2>13 DEF gitVars, SnapshotFits, SopsInv
  <2> QED
    BY <2>2, <2>3, <2>4, <2>5, <2>6, <2>7, <2>8, <2>9, <2>10, <2>11, <2>12, <2>13
       DEF SopsNext
<1> QED
  BY <1>1, <1>2, PTL DEF SopsSpec

\* A snapshot of the SOPS provider is one commit's file (gitsource.py:186-209).
THEOREM SopsDelivers == SopsSpec => []SnapshotOfOneCommit
<1>1. SopsInv => SnapshotOfOneCommit
  BY DEF SopsInv, SnapshotFits, SnapshotOfOneCommit, Flatten
<1> QED
  BY <1>1, SopsInvariant, PTL
=============================================================================
