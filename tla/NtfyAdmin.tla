----------------------------- MODULE NtfyAdmin -----------------------------
(***************************************************************************)
(* The ntfy add-on (src/ntfy/app): two processes administer one auth.db     *)
(* through the ntfy CLI and share a sidecar of origins.  The GUI process    *)
(* serves one request at a time (ctx.lock is a lock of that process only);  *)
(* the bootstrap process applies the options at every container start.      *)
(*                                                                         *)
(* A process is the list of steps it has still to make; a step is one CLI   *)
(* call, one transaction of the sidecar, one backup file or one read.       *)
(***************************************************************************)
EXTENDS ServiceValues, Integers, Sequences, FiniteSets

CONSTANTS
  Admin,        \* options.admin_user
  Users,        \* the other user names
  Patterns,     \* topic patterns of rules
  Permissions,  \* a subset of PERMISSIONS
  Baselines,    \* the lists options.baseline_users may be
  Overwrite,    \* options.baseline_overwrite_passwords
  Keep,         \* options.backup_keep, at least 1
  LastTime,     \* bound on the clock
  MaxAdminEvents,  \* bound on requests and restarts
  MaxAdminMishaps  \* bound on failing calls and processes that die

VARIABLES
  accounts,  \* auth.db: name |-> role and password
  rules,     \* auth.db: <<name, pattern>> |-> permission
  tokens,    \* auth.db: <<name, label>>
  cached,    \* cache.db holds messages
  sidecar,   \* origins.json: users, acls, tokens, acl_stash
  backups,   \* backup files: stamp, reason and the content of auth.db
  clock,
  baseline,  \* options.baseline_users of this container start
  todo,      \* the steps each process has still to make
  seen,      \* roles and rules apply_baseline has read, and what it has named
  wiped,     \* history: rules a promotion took away and nothing gave back
  touched,   \* history: rules the GUI wrote since apply_baseline read them
  adminEvents, adminMishaps   \* counters of the bounds

auth == <<accounts, rules, tokens>>
ruleHistory == <<wiped, touched>>
adminBounds == <<adminEvents, adminMishaps>>
adminVars ==
  <<auth, cached, sidecar, backups, clock, baseline, todo, seen, ruleHistory, adminBounds>>

AccountNames == Users \cup {Admin}
Processes == {"gui", "boot"}
NoEntries == [x \in {} |-> 0]
With(f, x, v) == [y \in DOMAIN f \cup {x} |-> IF y = x THEN v ELSE f[y]]
Only(f, S) == [y \in DOMAIN f \cap S |-> f[y]]
Minus(f, S) == [y \in DOMAIN f \ S |-> f[y]]
RulesOf(u) == {k \in DOMAIN rules : k[1] = u}

\* Entries without a record count as gui.
OriginOf(u, p) == IF <<u, p>> \in DOMAIN sidecar.acls THEN sidecar.acls[<<u, p>>] ELSE "gui"

-----------------------------------------------------------------------------
(* What the steps do.  Next steps and failures: *)

Head1(a) == Head(todo[a])
Does(a, what) == todo[a] # <<>> /\ Head1(a).do = what
Continue(a, steps) == todo' = [todo EXCEPT ![a] = steps \o Tail(@)]
Done(a) == Continue(a, <<>>)

\* Where a process goes on when a step raises: apply_options runs the baseline
\* after a failing admin, apply_baseline the next entry after a failing one, the
\* bootstrap its options after a failing backup; a request is answered with the error.
Resumes(a) == {"read", "entry", "orphan"} \cup IF a = "boot" THEN {"apply"} ELSE {}
Rest(a) ==
  LET steps == todo[a]
      points == {i \in 2..Len(steps) : steps[i].do \in Resumes(a)} IN
  IF points = {} THEN <<>>
  ELSE SubSeq(steps, CHOOSE i \in points : \A j \in points : i <= j, Len(steps))

\* _demote puts back into the stash what is not restored yet.
Cleanup(a) ==
  IF Does(a, "restore")
  THEN <<[do |-> "stash", user |-> Head1(a).user, rules |-> Head1(a).rules]>>
  ELSE IF Does(a, "revoke") /\ Head1(a).quiet THEN Tail(todo[a])
  ELSE <<>>

Abort(a, steps) == todo' = [todo EXCEPT ![a] = steps \o Rest(a)]

Spend(n) == adminEvents + n <= MaxAdminEvents /\ adminEvents' = adminEvents + n
AdminMishap ==
  /\ adminMishaps < MaxAdminMishaps
  /\ adminMishaps' = adminMishaps + 1
  /\ UNCHANGED adminEvents

\* A CLI call ends well, or times out with its change made.
Returns(a, steps) ==
  \/ Continue(a, steps) /\ UNCHANGED adminBounds
  \/ Abort(a, Cleanup(a)) /\ AdminMishap

CliSteps == {"add", "delete", "password", "role", "set", "restore", "reset", "resetAll",
             "mint", "revoke"}

\* The call fails (locked after the retries, killed, not found): nothing changed.
CliFails(a) ==
  /\ todo[a] # <<>> /\ Head1(a).do \in CliSteps
  /\ AdminMishap
  /\ Abort(a, Cleanup(a))
  /\ UNCHANGED <<auth, cached, sidecar, backups, clock, baseline, seen, ruleHistory>>

-----------------------------------------------------------------------------
(* CLI calls *)

Cli(a, what) ==
  /\ Does(a, what)
  /\ UNCHANGED <<cached, sidecar, backups, clock, baseline>>

AddUser(a) ==
  LET s == Head1(a) IN
  /\ Cli(a, "add")
  /\ IF s.user \in DOMAIN accounts
     THEN /\ Abort(a, s.otherwise)
          /\ UNCHANGED <<accounts, adminBounds>>
     ELSE /\ accounts' = With(accounts, s.user, [role |-> s.role, password |-> s.password])
          /\ Returns(a, <<>>)
  /\ UNCHANGED <<seen, rules, tokens, ruleHistory>>

\* Removes the account with its rules and tokens, once per name still listed.
DeleteUser(a) ==
  LET s == Head1(a) IN
  /\ Cli(a, "delete")
  /\ \E u \in s.users :
       /\ accounts' = Minus(accounts, {u})
       /\ rules' = Minus(rules, RulesOf(u))
       /\ tokens' = {t \in tokens : t[1] # u}
       /\ wiped' = Minus(wiped, {k \in DOMAIN wiped : k[1] = u})
       /\ Returns(a, IF s.users = {u} THEN <<>> ELSE <<[s EXCEPT !.users = @ \ {u}]>>)
  /\ UNCHANGED <<seen, touched>>

ChangePassword(a) ==
  LET s == Head1(a) IN
  /\ Cli(a, "password")
  /\ s.user \in DOMAIN accounts
  /\ accounts' = [accounts EXCEPT ![s.user].password = s.password]
  /\ Returns(a, <<>>)
  /\ UNCHANGED <<seen, rules, tokens, ruleHistory>>

\* ntfy removes the rules of a user who becomes an admin.
ChangeRole(a) ==
  LET s == Head1(a)
      lost == IF s.role = "admin" THEN RulesOf(s.user) \cap DOMAIN s.known ELSE {} IN
  /\ Cli(a, "role")
  /\ accounts' = [accounts EXCEPT ![s.user].role = s.role]
  /\ rules' = IF s.role = "admin" THEN Minus(rules, RulesOf(s.user)) ELSE rules
  /\ wiped' = [k \in DOMAIN wiped \cup lost |-> IF k \in lost THEN s.known[k] ELSE wiped[k]]
  /\ Returns(a, <<>>)
  /\ UNCHANGED <<seen, tokens, touched>>

SetAccess(a) ==
  LET s == Head1(a)
      k == <<s.user, s.topic>> IN
  /\ Cli(a, "set")
  /\ s.user \in DOMAIN accounts
  /\ rules' = With(rules, k, s.permission)
  /\ wiped' = Minus(wiped, {k})
  /\ touched' = IF a = "gui" THEN touched \cup {k} ELSE touched
  /\ seen' = IF s.learn THEN [seen EXCEPT ![a].rules = With(@, k, s.permission)] ELSE seen
  /\ Returns(a, <<>>)
  /\ UNCHANGED <<accounts, tokens>>

\* The CLI does not know the user any more.
UserGone(a) ==
  /\ todo[a] # <<>> /\ Head1(a).do \in {"set", "password"}
  /\ Head1(a).user \notin DOMAIN accounts
  /\ Abort(a, Cleanup(a))
  /\ UNCHANGED <<auth, cached, sidecar, backups, clock, baseline, seen, ruleHistory, adminBounds>>

\* One rule of the popped stash per call, then its origin.
RestoreAccess(a) ==
  LET s == Head1(a) IN
  /\ Cli(a, "restore")
  /\ \E p \in DOMAIN s.rules :
       LET k == <<s.user, p>>
           own == [do |-> "own", user |-> s.user, topic |-> p, origin |-> s.rules[p].origin] IN
       /\ rules' = With(rules, k, s.rules[p].permission)
       /\ wiped' = Minus(wiped, {k})
       /\ touched' = touched \cup {k}
       /\ Returns(a, IF DOMAIN s.rules = {p} THEN <<own>>
                     ELSE <<own, [s EXCEPT !.rules = Minus(@, {p})]>>)
  /\ UNCHANGED <<seen, accounts, tokens>>

ResetAccess(a) ==
  LET s == Head1(a)
      gone == IF s.do = "resetAll" THEN DOMAIN rules ELSE {<<s.user, s.topic>>} IN
  /\ Cli(a, "reset") \/ Cli(a, "resetAll")
  /\ rules' = Minus(rules, gone)
  /\ Returns(a, <<>>)
  /\ touched' = touched \cup gone
  /\ UNCHANGED <<seen, accounts, tokens, wiped>>

MintToken(a) ==
  /\ Cli(a, "mint")
  /\ Head1(a).user \in DOMAIN accounts
  /\ tokens' = tokens \cup {<<Head1(a).user, Head1(a).label>>}
  /\ Returns(a, <<>>)
  /\ UNCHANGED <<seen, accounts, rules, ruleHistory>>

RevokeToken(a) ==
  /\ Cli(a, "revoke")
  /\ tokens' = tokens \ {<<Head1(a).user, Head1(a).label>>}
  /\ Returns(a, <<>>)
  /\ UNCHANGED <<seen, accounts, rules, ruleHistory>>

-----------------------------------------------------------------------------
(* Transactions of the sidecar, each under its flock *)

Sidecar(a, what) ==
  /\ Does(a, what)
  /\ UNCHANGED <<auth, cached, backups, clock, baseline, seen, ruleHistory, adminBounds>>

SetUserOrigin(a) ==
  LET s == Head1(a) IN
  /\ Sidecar(a, "ownUser")
  /\ sidecar' = [sidecar EXCEPT !.users = With(@, s.user, s.origin)]
  /\ Done(a)

DropUser(a) ==
  LET u == Head1(a).user IN
  /\ Sidecar(a, "forget")
  /\ sidecar' = [users  |-> Minus(sidecar.users, {u}),
                 acls   |-> Minus(sidecar.acls, {k \in DOMAIN sidecar.acls : k[1] = u}),
                 tokens |-> {t \in sidecar.tokens : t[1] # u},
                 stash  |-> Minus(sidecar.stash, {u})]
  /\ Done(a)

\* set_rule looks the rule up first and fails if somebody else has removed it.
SetAclOrigin(a) ==
  LET s == Head1(a) IN
  /\ Sidecar(a, "own")
  /\ sidecar' = [sidecar EXCEPT !.acls = With(@, <<s.user, s.topic>>, s.origin)]
  /\ Done(a)

FindStored(a) ==
  /\ Does(a, "find")
  /\ IF <<Head1(a).user, Head1(a).topic>> \in DOMAIN rules THEN Done(a) ELSE Abort(a, <<>>)
  /\ UNCHANGED <<auth, cached, sidecar, backups, clock, baseline, seen, ruleHistory, adminBounds>>

DropAcl(a) ==
  LET s == Head1(a) IN
  /\ Sidecar(a, "disown")
  /\ \E p \in s.topics :
       /\ sidecar' = [sidecar EXCEPT !.acls = Minus(@, {<<s.user, p>>})]
       /\ Continue(a, IF s.topics = {p} THEN <<>> ELSE <<[s EXCEPT !.topics = @ \ {p}]>>)

\* _promote reads the origins when it stashes; _demote stashes what it popped.
StashRules(a) ==
  LET s == Head1(a) IN
  /\ Sidecar(a, "stash")
  /\ sidecar' = [sidecar EXCEPT !.stash = With(@, s.user,
        [p \in DOMAIN s.rules |->
           [permission |-> s.rules[p].permission,
            origin |-> IF s.rules[p].origin = None THEN OriginOf(s.user, p)
                       ELSE s.rules[p].origin]])]
  /\ Done(a)

PopStash(a) ==
  LET u == Head1(a).user IN
  /\ Sidecar(a, "pop")
  /\ sidecar' = [sidecar EXCEPT !.stash = Minus(@, {u})]
  /\ Continue(a, IF u \in DOMAIN sidecar.stash
                 THEN <<[do |-> "restore", user |-> u, rules |-> sidecar.stash[u]]>> ELSE <<>>)

SetTokenOrigin(a) ==
  LET t == <<Head1(a).user, Head1(a).label>> IN
  /\ Sidecar(a, "ownToken")
  /\ sidecar' = [sidecar EXCEPT !.tokens = IF Head1(a).origin = None THEN @ \ {t} ELSE @ \cup {t}]
  /\ Done(a)

NoOrigins == [users |-> NoEntries, acls |-> NoEntries, tokens |-> {}, stash |-> NoEntries]

ClearOrigins(a) ==
  /\ \/ Sidecar(a, "clearAcls") /\ sidecar' = [sidecar EXCEPT !.acls = NoEntries]
     \/ Sidecar(a, "clearAll") /\ sidecar' = NoOrigins
  /\ Done(a)

ClearCache(a) ==
  /\ Does(a, "clearCache")
  /\ cached' = FALSE
  /\ Done(a)
  /\ UNCHANGED <<auth, sidecar, backups, clock, baseline, seen, ruleHistory, adminBounds>>

-----------------------------------------------------------------------------
(* Backups: the name is the stamp and the reason *)

Reasons == <<"clear-cache", "daily", "manual", "reset-acls", "reset-everything", "role-change",
             "user-delete">>
Place(reason) == CHOOSE i \in DOMAIN Reasons : Reasons[i] = reason
Older(x, y) ==
  x.stamp < y.stamp \/ (x.stamp = y.stamp /\ Place(x.reason) < Place(y.reason))
Taken(stamp, reason) == \E b \in backups : b.stamp = stamp /\ b.reason = reason

Store(a) == UNCHANGED <<auth, cached, sidecar, clock, baseline, seen, ruleHistory, adminBounds>>

SaveBackup(a) ==
  LET reason == Head1(a).reason
      stamp == CHOOSE t \in clock..(clock + Cardinality(backups)) :
                 ~Taken(t, reason) /\ \A s \in clock..(t - 1) : Taken(s, reason)
      copy == [stamp |-> stamp, reason |-> reason, accounts |-> accounts, rules |-> rules] IN
  /\ Does(a, "backup")
  /\ IF reason = "daily" /\ Taken(clock, reason) THEN Done(a) /\ UNCHANGED backups
     ELSE /\ backups' = backups \cup {copy}
          /\ Continue(a, <<[do |-> "rotate", copy |-> copy]>>)
  /\ Store(a)

\* Keeps the newest; create then describes its file, which fails if it is gone.
RotateBackups(a) ==
  /\ Does(a, "rotate")
  /\ backups' = {b \in backups : Cardinality({c \in backups : Older(b, c)}) < Keep}
  /\ IF Head1(a).copy \in backups' THEN Done(a) ELSE Abort(a, <<>>)
  /\ Store(a)

-----------------------------------------------------------------------------
(* Requests of the GUI.  Each checks under ctx.lock and then makes its steps. *)

Backup(reason) == <<[do |-> "backup", reason |-> reason]>>

Costs(n, steps) ==
  /\ todo["gui"] = <<>>
  /\ Spend(n)
  /\ todo' = [todo EXCEPT !["gui"] = steps]
  /\ UNCHANGED <<auth, cached, sidecar, backups, clock, baseline, seen, ruleHistory, adminMishaps>>

\* A request, and one that concerns neither accounts nor rules: it weighs more in
\* the bound, since no property depends on what comes before or after it.
Request(steps) == Costs(1, steps)
Aside(steps) == Costs(2, steps)

Admins == {u \in DOMAIN accounts : accounts[u].role = "admin"}
Protected(u) == u = Admin \/ Admins = {u}

CreateUser(u, role) ==
  /\ u \notin DOMAIN accounts
  /\ Request(<<[do |-> "add", user |-> u, role |-> role, password |-> "gui", otherwise |-> <<>>],
               [do |-> "ownUser", user |-> u, origin |-> "gui"]>>)

ChangeUserPassword(u) ==
  /\ u \in DOMAIN accounts
  /\ Aside(<<[do |-> "password", user |-> u, password |-> "gui"]>>)

\* Mutant of RemoveUser: the backup is made after the user is gone.
RemoveUserThenBackup(u) ==
  /\ u \in DOMAIN accounts /\ ~Protected(u)
  /\ Request(<<[do |-> "delete", users |-> {u}]>> \o Backup("user-delete")
             \o <<[do |-> "forget", user |-> u]>>)

RemoveUser(u) ==
  /\ u \in DOMAIN accounts /\ ~Protected(u)
  /\ Request(Backup("user-delete")
             \o <<[do |-> "delete", users |-> {u}], [do |-> "forget", user |-> u]>>)

\* Mutant of Promote: only the rules of the GUI are stashed.
PromoteForgetsDefaults(u) ==
  LET topics == {k[2] : k \in {r \in RulesOf(u) : OriginOf(r[1], r[2]) = "gui"}}
      role == <<[do |-> "role", user |-> u, role |-> "admin", known |-> Only(rules, RulesOf(u))]>> IN
  /\ u \in DOMAIN accounts /\ accounts[u].role = "user"
  /\ Request(IF topics = {} THEN role
             ELSE role \o <<[do |-> "stash", user |-> u,
                             rules |-> [p \in topics |->
                                          [permission |-> rules[<<u, p>>], origin |-> None]]],
                            [do |-> "disown", user |-> u, topics |-> topics]>>)

Promote(u) ==
  LET topics == {k[2] : k \in RulesOf(u)}
      role == <<[do |-> "role", user |-> u, role |-> "admin", known |-> Only(rules, RulesOf(u))]>> IN
  /\ u \in DOMAIN accounts /\ accounts[u].role = "user"
  /\ Request(IF topics = {} THEN role
             ELSE Backup("role-change") \o role
                  \o <<[do |-> "stash", user |-> u,
                        rules |-> [p \in topics |->
                                     [permission |-> rules[<<u, p>>], origin |-> None]]],
                       [do |-> "disown", user |-> u, topics |-> topics]>>)

Demote(u) ==
  /\ u \in Admins /\ ~Protected(u)
  /\ Request(<<[do |-> "role", user |-> u, role |-> "user", known |-> NoEntries],
               [do |-> "pop", user |-> u]>>)

SetRule(u, p, permission) ==
  /\ u \in DOMAIN accounts /\ accounts[u].role = "user"
  /\ Request(<<[do |-> "set", user |-> u, topic |-> p, permission |-> permission, learn |-> FALSE],
               [do |-> "find", user |-> u, topic |-> p],
               [do |-> "own", user |-> u, topic |-> p, origin |-> "gui"]>>)

RemoveRule(u, p) ==
  /\ <<u, p>> \in DOMAIN rules
  /\ Request(<<[do |-> "reset", user |-> u, topic |-> p],
               [do |-> "disown", user |-> u, topics |-> {p}]>>)

CreateToken(u) ==
  /\ u \in DOMAIN accounts /\ <<u, "own">> \notin tokens
  /\ Request(<<[do |-> "mint", user |-> u, label |-> "own"],
               [do |-> "ownToken", user |-> u, label |-> "own", origin |-> "gui"]>>)

RemoveToken(u) ==
  /\ <<u, "own">> \in tokens
  /\ Request(<<[do |-> "revoke", user |-> u, label |-> "own", quiet |-> FALSE],
               [do |-> "ownToken", user |-> u, label |-> "own", origin |-> None]>>)

PublishTest ==
  /\ Admin \in DOMAIN accounts
  /\ Aside(<<[do |-> "mint", user |-> Admin, label |-> "test"],
               [do |-> "revoke", user |-> Admin, label |-> "test", quiet |-> TRUE]>>)

ResetAcls ==
  Request(Backup("reset-acls") \o <<[do |-> "resetAll"], [do |-> "clearAcls"]>>)

ResetCache == Aside(Backup("clear-cache") \o <<[do |-> "clearCache"]>>)

ResetEverything ==
  Request(Backup("reset-everything")
          \o <<[do |-> "list"], [do |-> "resetAll"],
               [do |-> "clearAll"], [do |-> "apply"]>>)

ManualBackup == Aside(Backup("manual"))

Reads(a) ==
  UNCHANGED <<auth, cached, sidecar, backups, clock, baseline, wiped, adminBounds>>

\* reset_everything lists the users after its backup.
ListUsers(a) ==
  /\ Does(a, "list")
  /\ Continue(a, IF accounts = NoEntries THEN <<>>
                 ELSE <<[do |-> "delete", users |-> DOMAIN accounts]>>)
  /\ Reads(a)
  /\ UNCHANGED <<seen, touched>>

-----------------------------------------------------------------------------
(* apply_options: the admin, then the baseline *)

\* Rules the GUI has changed and whose origin it has still to record.
Unrecorded ==
  {<<todo["gui"][i].user, todo["gui"][i].topic>> :
     i \in {j \in DOMAIN todo["gui"] : todo["gui"][j].do = "own"}}

Unread == [roles |-> NoEntries, rules |-> NoEntries, users |-> {}, keys |-> {}]

ApplyOptions(a) ==
  /\ Does(a, "apply")
  /\ Continue(a, <<[do |-> "add", user |-> Admin, role |-> "admin", password |-> "options",
                    otherwise |-> <<>>],
                   [do |-> "ownUser", user |-> Admin, origin |-> "options"],
                   [do |-> "read"]>>)
  /\ UNCHANGED <<seen, touched>>
  /\ Reads(a)

ReadAuthDb(a) ==
  /\ Does(a, "read")
  /\ seen' = [seen EXCEPT ![a] = [roles |-> [u \in DOMAIN accounts |-> accounts[u].role],
                                  rules |-> rules, users |-> {}, keys |-> {}]]
  /\ touched' = IF a = "boot" THEN Unrecorded ELSE touched
  /\ Continue(a, [i \in 1..Len(baseline) |-> [do |-> "entry", entry |-> baseline[i]]]
                 \o <<[do |-> "orphan"]>>)
  /\ Reads(a)

\* The password and the rule of an entry; an admin gets neither.
Settle(e, role, existed) ==
  IF role = "admin" THEN <<>>
  ELSE (IF existed /\ Overwrite
        THEN <<[do |-> "password", user |-> e.user, password |-> "options"]>> ELSE <<>>)
       \o (IF e.topic = None THEN <<>> ELSE <<[do |-> "rule", entry |-> e]>>)

\* An entry that names the admin is ignored; an account that appears between the
\* reading and the call counts as an existing plain user.
ApplyEntry(a) ==
  LET e == Head1(a).entry
      u == e.user
      known == seen[a].roles IN
  /\ Does(a, "entry")
  /\ IF u = Admin THEN Done(a) /\ UNCHANGED seen
     ELSE /\ seen' = [seen EXCEPT ![a].users = @ \cup {u},
                                  ![a].roles = IF u \in DOMAIN @ THEN @ ELSE With(@, u, "user")]
          /\ Continue(a, IF u \in DOMAIN known THEN Settle(e, known[u], TRUE)
                         ELSE <<[do |-> "add", user |-> u, role |-> "user", password |-> "options",
                                 otherwise |-> Settle(e, "user", TRUE)],
                                [do |-> "ownUser", user |-> u, origin |-> "options"]>>
                              \o Settle(e, "user", FALSE))
  /\ UNCHANGED touched
  /\ Reads(a)

\* Mutant of EntryRule: a rule whose permission differs is synced whoever owns it.
EntryRuleAlwaysSyncs(a) ==
  LET e == Head1(a).entry
      k == <<e.user, e.topic>> IN
  /\ Does(a, "rule")
  /\ seen' = [seen EXCEPT ![a].keys = @ \cup {k}]
  /\ Continue(a, <<[do |-> "set", user |-> e.user, topic |-> e.topic,
                    permission |-> e.permission, learn |-> TRUE],
                   [do |-> "own", user |-> e.user, topic |-> e.topic, origin |-> "options"]>>)
  /\ UNCHANGED touched
  /\ Reads(a)

EntryRule(a) ==
  LET e == Head1(a).entry
      k == <<e.user, e.topic>>
      current == IF k \in DOMAIN seen[a].rules THEN seen[a].rules[k] ELSE None
      set == <<[do |-> "set", user |-> e.user, topic |-> e.topic, permission |-> e.permission,
                learn |-> TRUE]>>
      steps == IF current = None
               THEN set \o <<[do |-> "own", user |-> e.user, topic |-> e.topic,
                              origin |-> "options"]>>
               ELSE IF OriginOf(e.user, e.topic) = "options" /\ current # e.permission
               THEN set ELSE <<>> IN
  /\ Does(a, "rule")
  /\ seen' = [seen EXCEPT ![a].keys = @ \cup {k}]
  /\ Continue(a, steps)
  /\ UNCHANGED touched
  /\ Reads(a)

\* What the options own and no longer name goes to the GUI, in the order of a snapshot.
Orphan(a) ==
  LET users == {u \in DOMAIN sidecar.users :
                  sidecar.users[u] = "options" /\ u # Admin /\ u \notin seen[a].users}
      keys == {k \in DOMAIN sidecar.acls :
                 sidecar.acls[k] = "options" /\ k \notin seen[a].keys} IN
  /\ Does(a, "orphan")
  /\ Continue(a, IF users = {} /\ keys = {} THEN <<>>
                 ELSE <<[do |-> "release", users |-> users, keys |-> keys]>>)
  /\ seen' = [seen EXCEPT ![a] = Unread]
  /\ UNCHANGED touched
  /\ Reads(a)

ReleaseOrigins(a) ==
  LET s == Head1(a)
      next(t) == Continue(a, IF t.users = {} /\ t.keys = {} THEN <<>> ELSE <<t>>) IN
  /\ Sidecar(a, "release")
  /\ IF s.users # {}
     THEN \E u \in s.users :
            /\ sidecar' = [sidecar EXCEPT !.users = With(@, u, "gui")]
            /\ next([s EXCEPT !.users = @ \ {u}])
     ELSE \E k \in s.keys :
            /\ sidecar' = [sidecar EXCEPT !.acls = With(@, k, "gui")]
            /\ next([s EXCEPT !.keys = @ \ {k}])

-----------------------------------------------------------------------------
BootSteps == Backup("daily") \o <<[do |-> "apply"]>>

NtfyInit ==
  /\ accounts = NoEntries /\ rules = NoEntries /\ tokens = {} /\ cached = TRUE
  /\ sidecar = NoOrigins /\ backups = {} /\ clock = 1
  /\ baseline \in Baselines
  /\ todo = [gui |-> <<>>, boot |-> BootSteps]
  /\ seen = [a \in Processes |-> Unread]
  /\ wiped = NoEntries /\ touched = {}
  /\ adminEvents = 0 /\ adminMishaps = 0

\* The GUI process dies and gui_loop starts it again.
GuiRestarts ==
  /\ todo["gui"] # <<>>
  /\ AdminMishap
  /\ todo' = [todo EXCEPT !["gui"] = <<>>]
  /\ seen' = [seen EXCEPT !["gui"] = Unread]
  /\ UNCHANGED <<auth, cached, sidecar, backups, clock, baseline, ruleHistory>>

\* The container starts again, perhaps with other options; in the middle of a
\* step list this is a mishap.
ContainerRestarts ==
  /\ IF \A a \in Processes : todo[a] = <<>> THEN Spend(1) /\ UNCHANGED adminMishaps
     ELSE AdminMishap
  /\ baseline' \in Baselines
  /\ todo' = [gui |-> <<>>, boot |-> BootSteps]
  /\ seen' = [a \in Processes |-> Unread]
  /\ touched' = {}
  /\ UNCHANGED <<auth, cached, sidecar, backups, clock, wiped>>

\* Time passes, or the clock is set back.
ClockMoves ==
  /\ clock' \in (0..LastTime) \ {clock}
  /\ \E a \in Processes : Does(a, "backup")
  /\ Spend(1)
  /\ UNCHANGED <<auth, cached, sidecar, backups, baseline, todo, seen, ruleHistory, adminMishaps>>

NtfyStep(a) ==
  \/ AddUser(a) \/ DeleteUser(a) \/ ChangePassword(a) \/ ChangeRole(a) \/ SetAccess(a)
  \/ UserGone(a) \/ RestoreAccess(a) \/ ResetAccess(a) \/ MintToken(a) \/ RevokeToken(a)
  \/ CliFails(a)
  \/ SetUserOrigin(a) \/ DropUser(a) \/ SetAclOrigin(a) \/ FindStored(a) \/ DropAcl(a)
  \/ StashRules(a) \/ PopStash(a) \/ SetTokenOrigin(a) \/ ClearOrigins(a) \/ ClearCache(a)
  \/ SaveBackup(a) \/ RotateBackups(a)
  \/ ApplyOptions(a) \/ ReadAuthDb(a) \/ ApplyEntry(a) \/ EntryRule(a)
  \/ Orphan(a) \/ ReleaseOrigins(a) \/ ListUsers(a)

NtfyRequest ==
  \/ \E u \in Users, role \in {"user", "admin"} : CreateUser(u, role)
  \/ \E u \in AccountNames : \/ ChangeUserPassword(u) \/ RemoveUser(u) \/ Promote(u) \/ Demote(u)
                             \/ CreateToken(u) \/ RemoveToken(u)
  \/ \E u \in AccountNames, p \in Patterns :
       RemoveRule(u, p) \/ \E permission \in Permissions : SetRule(u, p, permission)
  \/ PublishTest \/ ResetAcls \/ ResetCache \/ ResetEverything \/ ManualBackup

NtfyNext ==
  \/ \E a \in Processes : NtfyStep(a)
  \/ NtfyRequest
  \/ GuiRestarts \/ ContainerRestarts \/ ClockMoves

-----------------------------------------------------------------------------
(* Properties *)

\* The users the options would bring back.
FromOptions == {baseline[i].user : i \in DOMAIN baseline} \cup {Admin}

\* Rules that a promotion took away wait in the stash for the demotion (accounts.py:5,
\* DOCS.md "stashed and restored on demotion"), if no call failed and no process died.
RulesComeBack ==
  adminMishaps = 0 /\ todo["gui"] = <<>> =>
    \A k \in DOMAIN wiped :
      /\ k[1] \in DOMAIN sidecar.stash
      /\ k[2] \in DOMAIN sidecar.stash[k[1]]
      /\ sidecar.stash[k[1]][k[2]].permission = wiped[k]

\* The bootstrap never changes a rule the GUI owns (DOCS.md "is left alone"), unless
\* the GUI was writing the rule while the baseline was being applied.
BaselineLeavesGuiRules ==
  [][\A k \in DOMAIN rules \cap DOMAIN rules' :
       rules'[k] # rules[k] /\ todo'["boot"] # todo["boot"] /\ k \notin touched =>
         OriginOf(k[1], k[2]) = "options"]_adminVars

\* What a request destroys, other than one rule, and the options would not bring
\* back, is in a kept backup at that moment, whatever rotation and clock do.
BackupBeforeLoss ==
  [][~Does("gui", "reset") =>
       /\ \A u \in DOMAIN accounts \ (DOMAIN accounts' \cup FromOptions) :
            \E b \in backups : u \in DOMAIN b.accounts
       /\ \A k \in {r \in DOMAIN rules \ DOMAIN rules' : r[1] \notin FromOptions} :
            \E b \in backups : k \in DOMAIN b.rules /\ b.rules[k] = rules[k]]_adminVars
=============================================================================
