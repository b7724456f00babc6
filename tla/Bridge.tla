------------------------------- MODULE Bridge -------------------------------
(***************************************************************************)
(* terraform-bridge's mutating endpoints (internal/httpapi/handlers) over  *)
(* the nonce manager, the per-slug mutex and the Supervisor client.        *)
(*                                                                         *)
(* One element of Requests is one HTTP request; pc[q] is the position of   *)
(* its handler.  "start" stands for start and stop, which have the same    *)
(* code.  The Supervisor is external: sup[q] is what it does for q, and an *)
(* operation goes on after the Bridge has stopped waiting for its answer.  *)
(* The error codes of MapError are one class, "upstream_error".            *)
(***************************************************************************)
EXTENDS Integers, FiniteSets

CONSTANTS
  Requests, Slugs, Nonces,
  CriticalAddons,       \* option critical_addons
  NoRequest, NoNonce,   \* "none" values
  TTL, Grace,           \* of the nonce manager
  MaxClock,             \* bound: time stops here
  MaxRestarts           \* bound: losses of the Bridge's process

ASSUME BridgeAssumption ==
  /\ CriticalAddons \subseteq Slugs
  /\ NoRequest \notin Requests
  /\ NoNonce \notin Nonces
  /\ TTL \in Nat /\ Grace \in Nat /\ MaxClock \in Nat /\ MaxRestarts \in Nat

VARIABLES
  owner, waiter,          \* SlugMutex
  clock, cache, garbage,  \* NonceManager
  pc,         \* position of the handler
  op, slug,   \* route and path parameter
  nonce,      \* X-Force-Destroy
  arrived,    \* Validate's reading of the clock
  seen,       \* Validate's copy of the cache entry
  path,       \* "apps" (V2) or "addons" (V1) of the current call
  answer,     \* error_code, or "ok"
  sup,        \* the Supervisor's side of the current call
  epoch,      \* restarts so far
  issue,      \* history: when and in which process each nonce was issued
  granted,    \* history: requests whose Validate returned true
  earlier     \* history: granted, as it was when the request arrived

mutexVars == <<owner, waiter>>
nonceVars == <<clock, cache, garbage>>
request   == <<op, slug, nonce, arrived>>
history   == <<issue, granted, earlier>>
vars == <<mutexVars, nonceVars, pc, request, seen, path, answer, sup, epoch,
          history>>

Mutex == INSTANCE SlugMutex WITH Callers <- Requests, NoCaller <- NoRequest
Nonce == INSTANCE NonceManager

Operation   == {"install", "start", "uninstall", "options"}
Destructive == {"uninstall", "options"}
\* between TryAcquire and its deferred release
InMutex     == {"checking", "calling", "polling", "reading"}
Position    == InMutex \cup {"new", "validating", "dropping", "marking",
                             "locking", "answered", "gone"}
Answer      == {"none", "ok", "critical_addon_protected", "nonce_expired",
                "nonce_used", "locked", "invalid", "upstream_error",
                "install_timeout"}
NotIssued   == [at |-> -1, epoch |-> -1]

Init ==
  /\ Mutex!InitMutex
  /\ Nonce!InitNonces
  /\ pc      = [q \in Requests |-> "new"]
  /\ op      = [q \in Requests |-> "start"]
  /\ slug    \in [Requests -> Slugs]
  /\ nonce   = [q \in Requests |-> NoNonce]
  /\ arrived = [q \in Requests |-> 0]
  /\ seen    = [q \in Requests |-> Nonce!NoEntry]
  /\ path    = [q \in Requests |-> "apps"]
  /\ answer  = [q \in Requests |-> "none"]
  /\ sup     = [q \in Requests |-> "idle"]
  /\ epoch   = 0
  /\ issue   = [n \in Nonces |-> NotIssued]
  /\ granted = {}
  /\ earlier = [q \in Requests |-> {}]

Goto(q, there) == pc' = [pc EXCEPT ![q] = there] /\ UNCHANGED answer

Respond(q, code) ==
  /\ pc' = [pc EXCEPT ![q] = "answered"]
  /\ answer' = [answer EXCEPT ![q] = code]

\* Mutant of RespondAndRelease: an error return without the release.
RespondKeepingMutex(q, code) ==
  /\ Respond(q, code)
  /\ UNCHANGED mutexVars

\* A response from inside the mutex: the deferred release runs with it.
RespondAndRelease(q, code) ==
  /\ Respond(q, code)
  /\ Mutex!Release(slug[q])

-----------------------------------------------------------------------------
(* Before the mutex                                                        *)

\* POST /v1/auth/nonce
IssueNonce(n) ==
  /\ issue[n] = NotIssued
  /\ Nonce!Issue(n)
  /\ issue' = [issue EXCEPT ![n] = [at |-> clock, epoch |-> epoch]]
  /\ UNCHANGED <<mutexVars, pc, request, seen, path, answer, sup, epoch,
                 granted, earlier>>

\* The nonces a client can know, and the missing header.
Presentable == {n \in Nonces : issue[n] # NotIssued} \cup {NoNonce}

\* install, start and stop go straight for the mutex.
ArriveGentle(q, o) ==
  /\ pc[q] = "new"
  /\ o \notin Destructive
  /\ op' = [op EXCEPT ![q] = o]
  /\ Mutex!StartWaiter(q)
  /\ Goto(q, "locking")
  /\ UNCHANGED <<nonceVars, slug, nonce, arrived, seen, path, sup, epoch,
                 history>>

\* Mutant of ArriveDestructive: critical_addons is not looked at.
ArriveUnprotected(q, o, n) ==
  /\ pc[q] = "new"
  /\ o \in Destructive
  /\ op' = [op EXCEPT ![q] = o]
  /\ nonce' = [nonce EXCEPT ![q] = n]
  /\ arrived' = [arrived EXCEPT ![q] = clock]
  /\ earlier' = [earlier EXCEPT ![q] = granted]
  /\ IF n = NoNonce THEN Respond(q, "nonce_expired") ELSE Goto(q, "validating")
  /\ UNCHANGED <<mutexVars, nonceVars, slug, seen, path, sup, epoch, issue,
                 granted>>

\* uninstall and options: critical_addons first, then the header.
ArriveDestructive(q, o, n) ==
  /\ pc[q] = "new"
  /\ o \in Destructive
  /\ op' = [op EXCEPT ![q] = o]
  /\ nonce' = [nonce EXCEPT ![q] = n]
  /\ arrived' = [arrived EXCEPT ![q] = clock]
  /\ earlier' = [earlier EXCEPT ![q] = granted]
  /\ \/ /\ slug[q] \in CriticalAddons
        /\ Respond(q, "critical_addon_protected")
     \/ /\ slug[q] \notin CriticalAddons
        /\ n = NoNonce
        /\ Respond(q, "nonce_expired")
     \/ /\ slug[q] \notin CriticalAddons
        /\ n # NoNonce
        /\ Goto(q, "validating")
  /\ UNCHANGED <<mutexVars, nonceVars, slug, seen, path, sup, epoch, issue,
                 granted>>

\* Validate's cache.get and what it decides from the copy.
LookUp(q) ==
  LET e == cache[nonce[q]] IN
  /\ pc[q] = "validating"
  /\ \/ Nonce!Missing(e) /\ Respond(q, "nonce_expired")
     \/ Nonce!Expired(e, arrived[q]) /\ Goto(q, "dropping")
     \/ Nonce!Used(e, arrived[q]) /\ Respond(q, "nonce_used")
     \/ Nonce!Fresh(e, arrived[q]) /\ Goto(q, "marking")
  /\ seen' = [seen EXCEPT ![q] = e]
  /\ UNCHANGED <<mutexVars, nonceVars, request, path, sup, epoch, history>>

DropExpired(q) ==
  /\ pc[q] = "dropping"
  /\ Nonce!DropExpired(nonce[q])
  /\ Respond(q, "nonce_expired")
  /\ UNCHANGED <<mutexVars, request, seen, path, sup, epoch, history>>

\* Validate's cache.set; it returns true, and TryAcquire begins.
MarkUsed(q) ==
  /\ pc[q] = "marking"
  /\ Nonce!MarkUsed(nonce[q], seen[q])
  /\ granted' = granted \cup {q}
  /\ Mutex!StartWaiter(q)
  /\ Goto(q, "locking")
  /\ UNCHANGED <<request, seen, path, sup, epoch, issue, earlier>>

-----------------------------------------------------------------------------
(* The mutex                                                               *)

WaiterRuns(q) ==
  /\ Mutex!WaiterLock(q, slug[q]) \/ Mutex!WaiterSend(q)
  /\ UNCHANGED <<nonceVars, pc, request, seen, path, answer, sup, epoch,
                 history>>

Enter(q) ==
  /\ pc[q] = "locking"
  /\ Mutex!Acquired(q)
  /\ Goto(q, IF op[q] = "options" THEN "checking" ELSE "calling")
  /\ UNCHANGED <<nonceVars, request, seen, path, sup, epoch, history>>

\* Mutant of GiveUp: TryLockTimeout is mounted on the wrong routes.
GiveUpOnlyInstall(q) ==
  /\ pc[q] = "locking" /\ op[q] = "install"
  /\ Mutex!Abandoned(q, slug[q])
  /\ Respond(q, "locked")
  /\ UNCHANGED <<nonceVars, request, seen, path, sup, epoch, history>>

\* The request's context ends: TryLockTimeout's deadline, or for install,
\* which has none, a client that goes away.
GiveUp(q) ==
  /\ pc[q] = "locking"
  /\ Mutex!Abandoned(q, slug[q])
  /\ Respond(q, "locked")
  /\ UNCHANGED <<nonceVars, request, seen, path, sup, epoch, history>>

-----------------------------------------------------------------------------
(* Calls of the Supervisor inside the mutex                                *)

\* options: a body that is no JSON object is refused before any call.
RefuseBody(q) ==
  /\ pc[q] = "checking" /\ sup[q] = "idle"
  /\ RespondAndRelease(q, "invalid")
  /\ UNCHANGED <<nonceVars, request, seen, path, sup, epoch, history>>

\* A POST leaves: validate, uninstall, start, stop, options or install.
Call(q) ==
  /\ pc[q] \in {"checking", "calling"} /\ sup[q] = "idle"
  /\ sup' = [sup EXCEPT ![q] = "running"]
  /\ UNCHANGED <<mutexVars, nonceVars, pc, request, seen, path, answer, epoch,
                 history>>

\* V2 answered something else than 200: the same call is made at V1.
FallBack(q) ==
  /\ pc[q] \in {"checking", "calling"} /\ op[q] # "install"
  /\ sup[q] = "bad" /\ path[q] = "apps"
  /\ path' = [path EXCEPT ![q] = "addons"]
  /\ sup' = [sup EXCEPT ![q] = "running"]
  /\ UNCHANGED <<mutexVars, nonceVars, pc, request, seen, answer, epoch,
                 history>>

\* ValidateOptions hears 200 from V2: the diagnostic is valid or it is not.
HearVerdict(q) ==
  /\ pc[q] = "checking" /\ sup[q] = "ok" /\ path[q] = "apps"
  /\ sup' = [sup EXCEPT ![q] = "idle"]
  /\ \/ Goto(q, "calling") /\ UNCHANGED mutexVars
     \/ RespondAndRelease(q, "invalid")
  /\ UNCHANGED <<nonceVars, request, seen, path, epoch, history>>

\* ValidateOptions hears 200 from V1, and decodes the closed body of V2.
MishearVerdict(q) ==
  /\ pc[q] = "checking" /\ sup[q] = "ok" /\ path[q] = "addons"
  /\ sup' = [sup EXCEPT ![q] = "idle"]
  /\ RespondAndRelease(q, "upstream_error")
  /\ UNCHANGED <<nonceVars, request, seen, path, epoch, history>>

\* The call succeeded; uninstall has nothing to read back.
HearSuccess(q) ==
  /\ pc[q] = "calling" /\ op[q] # "install" /\ sup[q] = "ok"
  /\ IF op[q] = "uninstall" THEN RespondAndRelease(q, "ok")
                            ELSE Goto(q, "reading") /\ UNCHANGED mutexVars
  /\ UNCHANGED <<nonceVars, request, seen, path, sup, epoch, history>>

\* Refused at V2 and at V1, or with nothing to fall back to.
HearRefusal(q) ==
  /\ pc[q] \in {"checking", "calling"} /\ sup[q] = "bad"
  /\ path[q] = "addons" \/ op[q] = "install"
  /\ RespondAndRelease(q, "upstream_error")
  /\ UNCHANGED <<nonceVars, request, seen, path, sup, epoch, history>>

\* Mutant of CallTimeout: an error of the POST is not an error of the call.
TimeoutIgnored(q) ==
  /\ pc[q] = "calling"
  /\ Goto(q, "reading")
  /\ UNCHANGED <<mutexVars, nonceVars, request, seen, path, sup, epoch,
                 history>>

\* The 2 s of the HTTP client or what is left of the context run out, before
\* the POST leaves or while the Supervisor is at it.
CallTimeout(q) ==
  /\ pc[q] \in {"checking", "calling"}
  /\ sup[q] \in {"idle", "running"}
  /\ RespondAndRelease(q, "upstream_error")
  /\ sup' = IF pc[q] = "checking" THEN [sup EXCEPT ![q] = "idle"] ELSE sup
  /\ UNCHANGED <<nonceVars, request, seen, path, epoch, history>>

\* install: the Supervisor hands out a job id and goes on in the background;
\* the job may be over before its id arrives.
JobAccepted(q) ==
  /\ pc[q] = "calling" /\ op[q] = "install" /\ sup[q] # "idle"
  /\ Goto(q, "polling")
  /\ UNCHANGED <<mutexVars, nonceVars, request, seen, path, sup, epoch,
                 history>>

\* install: 409, the add-on is there already and is adopted.
Adopt(q) ==
  /\ pc[q] = "calling" /\ op[q] = "install" /\ sup[q] = "running"
  /\ sup' = [sup EXCEPT ![q] = "idle"]
  /\ Goto(q, "reading")
  /\ UNCHANGED <<mutexVars, nonceVars, request, seen, path, epoch, history>>

\* GET /jobs/{id} says done; the job's result is not looked at.
JobDone(q) ==
  /\ pc[q] = "polling" /\ sup[q] \in {"ok", "bad"}
  /\ Goto(q, "reading")
  /\ UNCHANGED <<mutexVars, nonceVars, request, seen, path, sup, epoch,
                 history>>

\* Mutant of PollTimeout: the outer context bounds single polls only.
PollForEver(q) == FALSE

PollTimeout(q) ==
  /\ pc[q] = "polling"
  /\ RespondAndRelease(q, "install_timeout")
  /\ UNCHANGED <<nonceVars, request, seen, path, sup, epoch, history>>

\* GetAddonInfo, for install with its three attempts.
ReadBack(q) ==
  /\ pc[q] = "reading"
  /\ \E code \in {"ok", "upstream_error"} : RespondAndRelease(q, code)
  /\ UNCHANGED <<nonceVars, request, seen, path, sup, epoch, history>>

-----------------------------------------------------------------------------
(* The environment                                                         *)

SupervisorDone(q) ==
  /\ sup[q] = "running"
  /\ \E result \in {"ok", "bad"} : sup' = [sup EXCEPT ![q] = result]
  /\ UNCHANGED <<mutexVars, nonceVars, pc, request, seen, path, answer, epoch,
                 history>>

PassTime ==
  /\ clock < MaxClock
  /\ Nonce!Tick
  /\ UNCHANGED <<mutexVars, pc, request, seen, path, answer, sup, epoch,
                 history>>

CollectNonces ==
  /\ Nonce!CollectGarbage \/ \E n \in Nonces : Nonce!DropGarbage(n)
  /\ UNCHANGED <<mutexVars, pc, request, seen, path, answer, sup, epoch,
                 history>>

Restart ==
  /\ epoch < MaxRestarts
  /\ epoch' = epoch + 1
  /\ Mutex!ForgetMutex
  /\ Nonce!ForgetNonces
  /\ pc' = [q \in Requests |-> IF pc[q] \in {"new", "answered"} THEN pc[q]
                                                                ELSE "gone"]
  /\ UNCHANGED <<request, seen, path, answer, sup, history>>

-----------------------------------------------------------------------------

Arrive(q) ==
  \/ \E o \in Operation : ArriveGentle(q, o)
  \/ \E o \in Operation, n \in Presentable : ArriveDestructive(q, o, n)

Authorise(q) == LookUp(q) \/ DropExpired(q) \/ MarkUsed(q)

Operate(q) ==
  \/ RefuseBody(q) \/ Call(q) \/ FallBack(q) \/ HearVerdict(q)
  \/ MishearVerdict(q) \/ HearSuccess(q) \/ HearRefusal(q) \/ JobAccepted(q)
  \/ Adopt(q) \/ JobDone(q) \/ ReadBack(q)

Timeouts(q) == CallTimeout(q) \/ PollTimeout(q)

Handle(q) ==
  \/ Authorise(q) \/ WaiterRuns(q) \/ Enter(q) \/ GiveUp(q) \/ Operate(q)
  \/ Timeouts(q)

Next ==
  \/ \E q \in Requests : Arrive(q) \/ Handle(q) \/ SupervisorDone(q)
  \/ \E n \in Nonces : IssueNonce(n)
  \/ PassTime \/ CollectNonces \/ Restart

Spec == Init /\ [][Next]_vars

\* Handlers and their goroutines are scheduled, the mutex is first-come
\* first-served (hence strong fairness), and every context but the one an
\* install waits for the mutex with has a deadline.  The Supervisor may never
\* answer.
Fairness ==
  \A q \in Requests :
    /\ WF_vars(Authorise(q) \/ Enter(q) \/ Operate(q) \/ Timeouts(q))
    /\ WF_vars(op[q] # "install" /\ GiveUp(q))
    /\ SF_vars(WaiterRuns(q))

FairSpec == Spec /\ Fairness

-----------------------------------------------------------------------------
(* Properties                                                              *)

\* The values the variables may take; a goroutine of TryAcquire exists only
\* while its request waits or after it has given up, and Validate looks up a
\* nonce and marks an entry only when there is one.
TypeOK ==
  /\ owner \in [Slugs -> Requests \cup {NoRequest}]
  /\ waiter \in [Requests -> Mutex!WaiterState]
  /\ \A q \in Requests : waiter[q] # "none" => pc[q] \in {"locking", "answered"}
  /\ clock \in 0 .. MaxClock
  /\ cache \in [Nonces -> Nonce!Entry \cup {Nonce!NoEntry}]
  /\ garbage \subseteq Nonces
  /\ pc \in [Requests -> Position]
  /\ op \in [Requests -> Operation]
  /\ slug \in [Requests -> Slugs]
  /\ nonce \in [Requests -> Nonces \cup {NoNonce}]
  /\ \A q \in Requests :
       /\ pc[q] \in {"validating", "dropping", "marking"} => nonce[q] # NoNonce
       /\ pc[q] = "marking" => seen[q] # Nonce!NoEntry
  /\ arrived \in [Requests -> 0 .. MaxClock]
  /\ seen \in [Requests -> Nonce!Entry \cup {Nonce!NoEntry}]
  /\ path \in [Requests -> {"apps", "addons"}]
  /\ answer \in [Requests -> Answer]
  /\ sup \in [Requests -> {"idle", "running", "ok", "bad"}]
  /\ epoch \in 0 .. MaxRestarts
  /\ issue \in [Nonces -> [at : 0 .. MaxClock, epoch : 0 .. MaxRestarts] \cup {NotIssued}]
  /\ granted \subseteq Requests
  /\ earlier \in [Requests -> SUBSET Requests]

\* Two requests for one add-on are never between TryAcquire and its release
\* together, whatever waiters have been abandoned.
SlugExclusive ==
  \A q, o \in Requests :
    pc[q] \in InMutex /\ pc[o] \in InMutex /\ slug[q] = slug[o] => q = o

\* A slug's mutex is held by the request inside, by a waiter about to hand it
\* over, or by the waiter of a request that was answered "locked": no other
\* path leaks it.
HeldOnlyInsideOrAfter423 ==
  \A s \in Slugs : LET q == owner[s] IN q # NoRequest =>
    /\ slug[q] = s
    /\ \/ pc[q] \in InMutex /\ waiter[q] = "none"
       \/ pc[q] = "locking" /\ waiter[q] \in {"locked", "sent"}
       \/ answer[q] = "locked" /\ waiter[q] \in {"locked", "sent"}

\* A nonce that has been accepted is refused to every request that arrives
\* afterwards, also across garbage collection and its own expiry.
NoSequentialReuse ==
  \A q \in granted : \A o \in earlier[q] : nonce[o] # nonce[q]

\* An accepted nonce was issued by this process, at most TTL before the
\* request arrived.
AcceptedWhileAlive ==
  \A q \in granted :
    LET i == issue[nonce[q]] IN
    /\ arrived[q] - i.at <= TTL
    /\ pc[q] \notin {"answered", "gone"} => i.epoch = epoch

\* The Supervisor is asked to uninstall or reconfigure an add-on only when the
\* add-on is not critical and the request's nonce was accepted.
DestructionAuthorised ==
  \A q \in Requests :
    op[q] \in Destructive /\ sup[q] # "idle" =>
      q \in granted /\ slug[q] \notin CriticalAddons

\* A client that reads success can rely on the Supervisor having finished:
\* nothing of a successful request is still going on in the background.
SuccessIsFinished ==
  \A q \in Requests :
    answer[q] = "ok" =>
      IF op[q] = "install" THEN sup[q] # "running" ELSE sup[q] = "ok"

\* Every request but an install is answered, even on a wedged slug and with a
\* Supervisor that never answers.
EveryRequestAnswered ==
  \A q \in Requests :
    pc[q] # "new" /\ op[q] # "install" ~> pc[q] \in {"answered", "gone"}

\* A request that has got the mutex is answered, and gives the mutex back:
\* also an install whose job never ends.
EveryHolderLeaves ==
  \A q \in Requests : pc[q] \in InMutex ~> pc[q] \in {"answered", "gone"}

-----------------------------------------------------------------------------
(* What the code's comments say                                            *)

\* manager.go: "two concurrent Validate calls for the same nonce can't both
\* succeed".
NonceSingleUse ==
  \A q, o \in granted : nonce[q] = nonce[o] => q = o

\* mutex/manager.go: after a timeout "the goroutine WILL call lock.Unlock()
\* eventually".
SlugNeverWedged ==
  \A s \in Slugs : owner[s] # NoRequest ~> owner[s] = NoRequest

\* supervisor/client.go: all methods "fall back to /addons/{slug}/{op} on
\* non-200": a verdict that V1 gives is not turned into an upstream error.
VerdictHeeded ==
  [][\A q \in Requests :
       pc[q] = "checking" /\ sup[q] = "ok" =>
         answer'[q] # "upstream_error"]_vars
=============================================================================
