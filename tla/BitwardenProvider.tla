------------------------- MODULE BitwardenProvider -------------------------
(***************************************************************************)
(* The bitwarden provider of secrets-sync (providers/bitwarden.py): one     *)
(* fetch brings the bw command line client to the configured server, logs   *)
(* in, unlocks, syncs, lists and builds the snapshot, while the session may *)
(* expire, a command may fail, the master password may change on the server *)
(* and the vault may change under it.  The client and the server (external) *)
(* are modelled as the code relies on them: "list" reads what the last      *)
(* "sync" or "login" stored, and "unlock" checks the password against the   *)
(* key stored at the last login.                                            *)
(***************************************************************************)
EXTENDS ServiceValues, Integers, FiniteSets

CONSTANTS
  Servers,        \* server URLs
  Vaults,         \* what a vault may hold: sets of items
  Base,           \* item name |-> sanitise(name)
  MaxVaultEvents  \* bound on failures, expiries and changes of the world

VARIABLES
  vault, password,           \* the server: items, master password
  wantServer, wantPassword,  \* the options server_url and master_password
  cli,          \* the client: [server, loggedIn, key, items], items as last stored
  live,         \* the one session key that unlocks the client, or None
  session,      \* Provider._session
  step,         \* next command of the fetch
  attempt,      \* 1 or 2
  result,       \* what the last fetch gave: "none", "ok" or an error code
  snapshot,     \* the Snapshot of a fetch that succeeded: key |-> item
  current,      \* history: the contents the vault had during this fetch
  disturbed,    \* history: something failed or changed during this fetch
  vaultEvents

world == <<vault, password, wantServer, wantPassword>>
fetch == <<step, attempt, result, snapshot>>
bwVars == <<world, cli, live, session, fetch, current, disturbed, vaultEvents>>

-----------------------------------------------------------------------------
(* _build: an item is [name, kind, fields, active, rev] *)

Keys(item) ==
  CASE item.kind = "login"   -> {<<Base[item.name], f>> : f \in item.fields}
    [] item.kind = "note"    -> {<<"file", Base[item.name]>>}
    [] item.kind = "ssh"     -> {<<Base[item.name], f>> :
                                   f \in item.fields \cap {"public_key", "private_key"}}
    [] item.kind = "card"    -> {}

\* Mutant of Active: archived and trashed items are kept.
ActiveAndTrashed(items) == items

\* Archived and trashed items never become secrets.
Active(items) == {i \in items : i.active}

\* Two items that give one key.
Collides(items) ==
  \E i, j \in items : i # j /\ Keys(i) \cap Keys(j) # {}

Build(items) ==
  [k \in UNION {Keys(i) : i \in items} |-> CHOOSE i \in items : k \in Keys(i)]

-----------------------------------------------------------------------------
BwInit ==
  /\ vault \in Vaults /\ password = 1
  /\ wantServer \in Servers /\ wantPassword = 1
  /\ cli \in [server : Servers, loggedIn : {FALSE}, key : {1}, items : {{}}]
  /\ live = None /\ session = None
  /\ step = "idle" /\ attempt = 1 /\ result = "none" /\ snapshot = None
  /\ current = {} /\ disturbed = FALSE /\ vaultEvents = 0

Event == vaultEvents < MaxVaultEvents /\ vaultEvents' = vaultEvents + 1
Goes(s) == step' = s /\ UNCHANGED <<attempt, result, snapshot>>

\* A ProviderError leaves fetch.
Raises(code) == step' = "idle" /\ result' = code /\ UNCHANGED <<attempt, snapshot>>

\* _Expired: the first time the whole fetch starts again without a session.
Expired ==
  /\ session' = None
  /\ IF attempt = 1
     THEN attempt' = 2 /\ step' = "status" /\ UNCHANGED <<result, snapshot>>
     ELSE Raises("bw_auth_failed")

BeginFetch ==
  /\ step = "idle"
  /\ step' = "status" /\ attempt' = 1 /\ result' = "none" /\ snapshot' = None
  /\ current' = {vault} /\ disturbed' = FALSE
  /\ UNCHANGED <<world, cli, live, session, vaultEvents>>

\* What bw status reports for the session in the environment.
Status == IF ~cli.loggedIn THEN "unauthenticated"
          ELSE IF session # None /\ session = live THEN "unlocked" ELSE "locked"

\* Where _ensure_session goes once the server is right and state is s.
AfterStatus(s) ==
  IF s = "unauthenticated" THEN "login"
  ELSE IF s = "locked" \/ session = None THEN "unlock" ELSE "sync"

CheckStatus ==
  /\ step = "status"
  /\ Goes(IF cli.server = wantServer THEN AfterStatus(Status)
          ELSE IF Status = "unauthenticated" THEN "config" ELSE "logout")
  /\ UNCHANGED <<world, cli, live, session, current, disturbed, vaultEvents>>

Logout ==
  /\ step \in {"logout", "relogout"}
  /\ cli' = [cli EXCEPT !.loggedIn = FALSE]
  /\ live' = None /\ session' = None
  /\ Goes(IF step = "logout" THEN "config" ELSE "reconfig")
  /\ UNCHANGED <<world, current, disturbed, vaultEvents>>

ConfigServer ==
  /\ step \in {"config", "reconfig"}
  /\ cli' = [cli EXCEPT !.server = wantServer]
  /\ Goes(IF step = "config" THEN "login" ELSE "relogin")
  /\ UNCHANGED <<world, live, session, current, disturbed, vaultEvents>>

\* login --apikey stores the account's key as it is now.
Login ==
  /\ step \in {"login", "relogin"}
  /\ cli' = [cli EXCEPT !.loggedIn = TRUE, !.key = password, !.items = vault]
  /\ live' = None /\ session' = None
  /\ Goes(IF step = "login" THEN "unlock" ELSE "reunlock")
  /\ UNCHANGED <<world, current, disturbed, vaultEvents>>

\* Mutant of UnlockFails: no fresh login; the stored key is taken for right.
UnlockGivesUp == Raises("bw_unlock_failed")

\* The stored key may be of before a change of the master password.
UnlockFails ==
  IF step = "unlock" THEN Goes("relogout") ELSE Raises("bw_unlock_failed")

Unlock ==
  /\ step \in {"unlock", "reunlock"}
  /\ IF cli.key = wantPassword
     THEN live' = 1 /\ session' = 1 /\ Goes("sync")
     ELSE live' = None /\ session' = None /\ UnlockFails
  /\ UNCHANGED <<world, cli, current, disturbed, vaultEvents>>

\* The server refuses a client whose key is of before the change.
SyncVault ==
  /\ step = "sync"
  /\ IF session # live
     THEN Expired /\ UNCHANGED <<cli, live>>
     ELSE IF cli.key # password
     THEN /\ cli' = [cli EXCEPT !.loggedIn = FALSE]
          /\ live' = None
          /\ Expired
     ELSE /\ cli' = [cli EXCEPT !.items = vault]
          /\ Goes("list") /\ UNCHANGED <<session, live>>
  /\ UNCHANGED <<world, current, disturbed, vaultEvents>>

\* Resolving a filter's display name fails instead of starting again.
List ==
  /\ step = "list"
  /\ IF session # live
     THEN Expired \/ (Raises("bw_list_failed") /\ UNCHANGED session)
     ELSE /\ IF Collides(Active(cli.items))
             THEN Raises("key_collision")
             ELSE /\ step' = "idle" /\ result' = "ok"
                  /\ snapshot' = Build(Active(cli.items))
                  /\ UNCHANGED attempt
          /\ UNCHANGED session
  /\ UNCHANGED <<world, cli, live, current, disturbed, vaultEvents>>

\* A command times out or exits with an error of its own (one code stands for
\* all of them).  The logout before a fresh login may fail unseen; an unlock that
\* fails leads to a fresh login.
CommandFails ==
  /\ step # "idle"
  /\ Event /\ disturbed' = TRUE
  /\ \/ Raises("bw_failed")
     \/ step = "relogout" /\ Goes("reconfig")
     \/ step = "unlock" /\ Goes("relogout")
  /\ session' = IF step \in {"unlock", "relogout"} THEN None ELSE session
  /\ UNCHANGED <<world, cli, live, current>>

\* The session expires, or somebody else locks the client.
Expires ==
  /\ live # None
  /\ Event
  /\ live' = None
  /\ disturbed' = (disturbed \/ step # "idle")
  /\ UNCHANGED <<world, cli, session, fetch, current>>

VaultChanges ==
  /\ Event
  /\ vault' \in Vaults \ {vault}
  /\ current' = current \cup {vault'}
  /\ UNCHANGED <<password, wantServer, wantPassword, cli, live, session, fetch, disturbed>>

PasswordChanges ==
  /\ Event
  /\ password' = password + 1
  /\ disturbed' = (disturbed \/ step # "idle")
  /\ UNCHANGED <<vault, wantServer, wantPassword, cli, live, session, fetch, current>>

\* New options come with a new process; the client's data directory stays.
OptionsChange ==
  /\ Event
  /\ wantServer' \in Servers
  /\ wantPassword' = password
  /\ session' = None
  /\ step' = "idle" /\ attempt' = 1 /\ result' = "none" /\ snapshot' = None
  /\ current' = {} /\ disturbed' = FALSE
  /\ UNCHANGED <<vault, password, cli, live>>

Fetch ==
  \/ BeginFetch \/ CheckStatus \/ Logout \/ ConfigServer \/ Login \/ Unlock
  \/ SyncVault \/ List \/ CommandFails

BwNext ==
  Fetch \/ Expires \/ VaultChanges \/ PasswordChanges \/ OptionsChange

BwSpec == BwInit /\ [][BwNext]_bwVars

-----------------------------------------------------------------------------
(* Properties *)

\* A snapshot is what the configured server's vault held at some moment of this
\* very fetch, archived and trashed items left out, and no key of it comes from
\* two items: never an older copy of the client, never another server's.
SnapshotIsCurrent ==
  result = "ok" =>
    /\ cli.server = wantServer
    /\ \E items \in current :
         LET kept == {i \in items : i.active} IN
         /\ DOMAIN snapshot = UNION {Keys(i) : i \in kept}
         /\ \A k \in DOMAIN snapshot : {i \in kept : k \in Keys(i)} = {snapshot[k]}

\* Whatever state earlier fetches, expiries and changed options left the client
\* in, an undisturbed fetch with the right master password succeeds (or reports
\* a collision): the stale key of bitwarden.py:166 is healed in one fetch.
FetchHeals ==
  (result \notin {"none", "ok", "key_collision"} /\ ~disturbed)
    => wantPassword # password
=============================================================================
