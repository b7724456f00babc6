---------------------------- MODULE BridgeProofs ----------------------------
(***************************************************************************)
(* Theorems about Bridge, for every number of requests, slugs and nonces.  *)
(***************************************************************************)
EXTENDS Bridge, TLAPS

-----------------------------------------------------------------------------
(* Types                                                                   *)

LEMMA PositionNames ==
  /\ {"checking", "calling", "polling", "reading"} = InMutex
  /\ InMutex \subseteq Position
  /\ {"new", "validating", "dropping", "marking", "locking", "answered", "gone"}
       \subseteq Position
  /\ {"none", "ok", "critical_addon_protected", "nonce_expired", "nonce_used",
      "locked", "invalid", "upstream_error", "install_timeout"} = Answer
  /\ Destructive = {"uninstall", "options"}
  /\ Operation = {"install", "start", "uninstall", "options"}
BY DEF Position, InMutex, Answer, Destructive, Operation

LEMMA InitTypeOK == Init => TypeOK
BY BridgeAssumption, PositionNames
   DEF Init, TypeOK, Mutex!InitMutex, Nonce!InitNonces, Mutex!WaiterState

LEMMA ArriveTypeOK ==
  ASSUME TypeOK, NEW q \in Requests, Arrive(q)
  PROVE  TypeOK'
<1> USE BridgeAssumption, PositionNames
        DEF TypeOK, Mutex!WaiterState, Goto, Respond, Presentable,
            mutexVars, nonceVars, request, history
<1>1. ASSUME NEW o \in Operation, ArriveGentle(q, o) PROVE TypeOK'
  BY <1>1 DEF ArriveGentle, Mutex!StartWaiter
<1>2. ASSUME NEW o \in Operation, NEW n \in Presentable, ArriveDestructive(q, o, n)
      PROVE  TypeOK'
  <2>1. /\ op' = [op EXCEPT ![q] = o] /\ nonce' = [nonce EXCEPT ![q] = n]
        /\ arrived' = [arrived EXCEPT ![q] = clock] /\ earlier' = [earlier EXCEPT ![q] = granted]
        /\ pc[q] = "new"
        /\ UNCHANGED <<owner, waiter, clock, cache, garbage, slug, seen, path, sup, epoch, issue,
                       granted>>
    BY <1>2 DEF ArriveDestructive
  <2>2. /\ pc' \in [Requests -> Position] /\ answer' \in [Requests -> Answer]
        /\ \A r \in Requests \ {q} : pc'[r] = pc[r]
        /\ \/ pc'[q] = "answered"
           \/ pc'[q] = "validating" /\ n # NoNonce
    BY <1>2 DEF ArriveDestructive
  <2>3. /\ op' \in [Requests -> Operation] /\ nonce' \in [Requests -> Nonces \cup {NoNonce}]
        /\ arrived' \in [Requests -> 0 .. MaxClock] /\ earlier' \in [Requests -> SUBSET Requests]
    BY <2>1
  <2>4. \A r \in Requests :
          /\ waiter'[r] # "none" => pc'[r] \in {"locking", "answered"}
          /\ pc'[r] \in {"validating", "dropping", "marking"} => nonce'[r] # NoNonce
          /\ pc'[r] = "marking" => seen'[r] # Nonce!NoEntry
    BY <2>1, <2>2
  <2> QED
    BY <2>1, <2>2, <2>3, <2>4
<1> QED
  BY <1>1, <1>2, Arrive(q) DEF Arrive

LEMMA AuthoriseTypeOK ==
  ASSUME TypeOK, NEW q \in Requests, Authorise(q)
  PROVE  TypeOK'
<1> USE BridgeAssumption, PositionNames
        DEF TypeOK, Mutex!WaiterState, Goto, Respond,
            mutexVars, nonceVars, request, history
<1>1. CASE LookUp(q)
  <2>1. cache[nonce[q]] \in Nonce!Entry \cup {Nonce!NoEntry}
    BY <1>1 DEF LookUp
  <2>2. pc' \in [Requests -> Position] /\ answer' \in [Requests -> Answer]
    BY <1>1 DEF LookUp
  <2>3. pc'[q] = "marking" => seen'[q] # Nonce!NoEntry
    BY <1>1 DEF LookUp, Nonce!Fresh, Nonce!Missing
  <2> QED
    BY <1>1, <2>1, <2>2, <2>3 DEF LookUp
<1>2. CASE DropExpired(q)
  BY <1>2 DEF DropExpired, Nonce!DropExpired, Nonce!Del
<1>3. CASE MarkUsed(q)
  <2>1. [issuedAt |-> seen[q].issuedAt, used |-> TRUE] \in Nonce!Entry
    BY <1>3 DEF MarkUsed, Nonce!Entry
  <2> QED
    BY <1>3, <2>1 DEF MarkUsed, Nonce!MarkUsed, Nonce!Set, Mutex!StartWaiter
<1> QED
  BY <1>1, <1>2, <1>3, Authorise(q) DEF Authorise

LEMMA MutexTypeOK ==
  ASSUME TypeOK, NEW q \in Requests, WaiterRuns(q) \/ Enter(q) \/ GiveUp(q)
  PROVE  TypeOK'
<1> USE BridgeAssumption, PositionNames
        DEF TypeOK, Mutex!WaiterState, Goto, Respond,
            mutexVars, nonceVars, request, history
<1>1. CASE WaiterRuns(q)
  BY <1>1 DEF WaiterRuns, Mutex!WaiterLock, Mutex!WaiterSend
<1>2. CASE Enter(q)
  BY <1>2 DEF Enter, Mutex!Acquired
<1>3. CASE GiveUp(q)
  BY <1>3 DEF GiveUp, Mutex!Abandoned
<1> QED
  BY <1>1, <1>2, <1>3

\* Everything a handler does inside the mutex leaves the cache, the request and
\* the histories alone.
LEMMA OperateTypeOK ==
  ASSUME TypeOK, NEW q \in Requests, Operate(q) \/ Timeouts(q)
  PROVE  TypeOK'
<1> USE BridgeAssumption, PositionNames
        DEF TypeOK, Goto, Respond, RespondAndRelease, Mutex!Release,
            mutexVars, nonceVars, request, history
<1>1. CASE RefuseBody(q)
  BY <1>1 DEF RefuseBody
<1>2. CASE Call(q)
  BY <1>2 DEF Call
<1>3. CASE FallBack(q)
  BY <1>3 DEF FallBack
<1>4. CASE HearVerdict(q)
  BY <1>4 DEF HearVerdict
<1>5. CASE MishearVerdict(q)
  BY <1>5 DEF MishearVerdict
<1>6. CASE HearSuccess(q)
  <2>1. /\ pc' \in [Requests -> Position] /\ answer' \in [Requests -> Answer]
        /\ owner' \in [Slugs -> Requests \cup {NoRequest}]
        /\ pc[q] = "calling" /\ \A r \in Requests \ {q} : pc'[r] = pc[r]
        /\ pc'[q] \in {"reading", "answered"}
    BY <1>6 DEF HearSuccess
  <2>2. UNCHANGED <<waiter, clock, cache, garbage, op, slug, nonce, arrived, earlier, seen, path, sup,
                   epoch, issue, granted>>
    BY <1>6 DEF HearSuccess
  <2> QED
    BY <2>1, <2>2
<1>7. CASE HearRefusal(q)
  BY <1>7 DEF HearRefusal
<1>8. CASE JobAccepted(q)
  BY <1>8 DEF JobAccepted
<1>9. CASE Adopt(q)
  BY <1>9 DEF Adopt
<1>10. CASE JobDone(q)
  BY <1>10 DEF JobDone
<1>11. CASE ReadBack(q)
  BY <1>11 DEF ReadBack
<1>12. CASE CallTimeout(q)
  BY <1>12 DEF CallTimeout
<1>13. CASE PollTimeout(q)
  BY <1>13 DEF PollTimeout
<1> QED
  BY <1>1, <1>2, <1>3, <1>4, <1>5, <1>6, <1>7, <1>8, <1>9, <1>10, <1>11, <1>12,
     <1>13 DEF Operate, Timeouts

LEMMA EnvironmentTypeOK ==
  ASSUME TypeOK,
         \/ \E q \in Requests : SupervisorDone(q)
         \/ \E n \in Nonces : IssueNonce(n)
         \/ PassTime \/ CollectNonces \/ Restart
  PROVE  TypeOK'
<1> USE BridgeAssumption, PositionNames
        DEF TypeOK, mutexVars, nonceVars, request, history
<1>1. ASSUME NEW q \in Requests, SupervisorDone(q) PROVE TypeOK'
  BY <1>1 DEF SupervisorDone
<1>2. ASSUME NEW n \in Nonces, IssueNonce(n) PROVE TypeOK'
  BY <1>2 DEF IssueNonce, Nonce!Issue, Nonce!Set, Nonce!Entry
<1>3. CASE PassTime
  BY <1>3 DEF PassTime, Nonce!Tick
<1>4. CASE CollectNonces
  BY <1>4 DEF CollectNonces, Nonce!CollectGarbage, Nonce!DropGarbage, Nonce!Del
<1>5. CASE Restart
  BY <1>5 DEF Restart, Mutex!ForgetMutex, Nonce!ForgetNonces, Mutex!WaiterState
<1> QED
  BY <1>1, <1>2, <1>3, <1>4, <1>5

\* Type correctness of every handler position, cache entry and history.
THEOREM BridgeTypes == Spec => []TypeOK
<1>1. TypeOK /\ [Next]_vars => TypeOK'
  <2> SUFFICES ASSUME TypeOK, [Next]_vars PROVE TypeOK'
    OBVIOUS
  <2>1. ASSUME NEW q \in Requests, Handle(q) PROVE TypeOK'
    BY <2>1, AuthoriseTypeOK, MutexTypeOK, OperateTypeOK DEF Handle
  <2>2. ASSUME NEW q \in Requests, Arrive(q) PROVE TypeOK'
    BY <2>2, ArriveTypeOK
  <2>3. CASE UNCHANGED vars
    BY <2>3 DEF TypeOK, vars, mutexVars, nonceVars, request, history
  <2> QED
    BY <2>1, <2>2, <2>3, EnvironmentTypeOK DEF Next
<1> QED
  BY <1>1, InitTypeOK, PTL DEF Spec

-----------------------------------------------------------------------------
(* The mutex                                                               *)

\* Who is inside, or about to hand the mutex over, is its owner; a goroutine
\* that outlives its request belongs to one that was answered "locked".
MutexInv ==
  /\ \A q \in Requests :
       /\ pc[q] \in InMutex => owner[slug[q]] = q
       /\ waiter[q] \in {"locked", "sent"} => owner[slug[q]] = q
       /\ waiter[q] # "none" /\ pc[q] = "answered" => answer[q] = "locked"
  /\ HeldOnlyInsideOrAfter423

\* A step that leaves the mutex alone, and moves one handler that does not hold
\* it and does not wait for it to a position outside, or from one position
\* inside to another.
LEMMA ElsewhereKeepsMutexInv ==
  ASSUME TypeOK, MutexInv, NEW q \in Requests, UNCHANGED <<mutexVars, slug>>,
         \A o \in Requests \ {q} : pc'[o] = pc[o] /\ answer'[o] = answer[o],
         \/ pc'[q] = pc[q] /\ answer'[q] = answer[q]
         \/ pc[q] \in InMutex /\ pc'[q] \in InMutex
         \/ pc[q] \notin InMutex \cup {"locking", "answered"} /\ pc'[q] \notin InMutex
  PROVE  MutexInv'
<1> USE BridgeAssumption DEF TypeOK, MutexInv, HeldOnlyInsideOrAfter423, mutexVars
<1>1. \A o \in Requests : pc'[o] \in InMutex => owner'[slug'[o]] = o
  OBVIOUS
<1>2. \A o \in Requests : waiter'[o] \in {"locked", "sent"} => owner'[slug'[o]] = o
  OBVIOUS
<1>3. \A o \in Requests :
        waiter'[o] # "none" /\ pc'[o] = "answered" => answer'[o] = "locked"
  BY DEF InMutex
<1>4. HeldOnlyInsideOrAfter423'
  BY DEF InMutex
<1> QED
  BY <1>1, <1>2, <1>3, <1>4

\* A response from inside gives the mutex back.
LEMMA ReleaseKeepsMutexInv ==
  ASSUME TypeOK, MutexInv, NEW q \in Requests, NEW code, pc[q] \in InMutex,
         RespondAndRelease(q, code), UNCHANGED slug
  PROVE  MutexInv'
BY BridgeAssumption
   DEF TypeOK, MutexInv, HeldOnlyInsideOrAfter423, RespondAndRelease, Respond,
       Mutex!Release, InMutex

LEMMA WaitKeepsMutexInv ==
  ASSUME TypeOK, MutexInv, NEW q \in Requests,
         WaiterRuns(q) \/ Enter(q) \/ GiveUp(q)
  PROVE  MutexInv'
<1> USE BridgeAssumption
        DEF TypeOK, MutexInv, HeldOnlyInsideOrAfter423, InMutex, Goto, Respond, request
<1>1. CASE WaiterRuns(q)
  BY <1>1 DEF WaiterRuns, Mutex!WaiterLock, Mutex!WaiterSend
<1>2. CASE Enter(q)
  BY <1>2 DEF Enter, Mutex!Acquired
<1>3. CASE GiveUp(q)
  BY <1>3 DEF GiveUp, Mutex!Abandoned
<1> QED
  BY <1>1, <1>2, <1>3

\* TryAcquire is called by a handler that has no goroutine yet.
LEMMA BeginKeepsMutexInv ==
  ASSUME TypeOK, MutexInv, NEW q \in Requests, Arrive(q) \/ Authorise(q)
  PROVE  MutexInv'
<1> USE BridgeAssumption DEF TypeOK, Goto, Respond, request, mutexVars
<1>1. ASSUME NEW o \in Operation, ArriveGentle(q, o) PROVE MutexInv'
  BY <1>1 DEF ArriveGentle, Mutex!StartWaiter, MutexInv, HeldOnlyInsideOrAfter423, InMutex
<1>2. ASSUME NEW o \in Operation, NEW n \in Presentable, ArriveDestructive(q, o, n)
      PROVE  MutexInv'
  BY <1>2, ElsewhereKeepsMutexInv DEF ArriveDestructive, InMutex
<1>3. CASE LookUp(q)
  BY <1>3, ElsewhereKeepsMutexInv DEF LookUp, InMutex
<1>4. CASE DropExpired(q)
  BY <1>4, ElsewhereKeepsMutexInv DEF DropExpired, InMutex
<1>5. CASE MarkUsed(q)
  BY <1>5 DEF MarkUsed, Mutex!StartWaiter, MutexInv, HeldOnlyInsideOrAfter423, InMutex
<1> QED
  BY <1>1, <1>2, <1>3, <1>4, <1>5 DEF Arrive, Authorise

LEMMA OperateKeepsMutexInv ==
  ASSUME TypeOK, MutexInv, NEW q \in Requests, Operate(q) \/ Timeouts(q)
  PROVE  MutexInv'
<1> USE DEF TypeOK, Goto, request, InMutex
<1>1. CASE RefuseBody(q)
  BY <1>1, ReleaseKeepsMutexInv DEF RefuseBody
<1>2. CASE Call(q) \/ FallBack(q)
  BY <1>2, ElsewhereKeepsMutexInv DEF Call, FallBack
<1>3. CASE HearVerdict(q)
  BY <1>3, ReleaseKeepsMutexInv, ElsewhereKeepsMutexInv DEF HearVerdict
<1>4. CASE MishearVerdict(q)
  BY <1>4, ReleaseKeepsMutexInv DEF MishearVerdict
<1>5. CASE HearSuccess(q)
  BY <1>5, ReleaseKeepsMutexInv, ElsewhereKeepsMutexInv DEF HearSuccess
<1>6. CASE HearRefusal(q)
  BY <1>6, ReleaseKeepsMutexInv DEF HearRefusal
<1>7. CASE JobAccepted(q) \/ Adopt(q) \/ JobDone(q)
  BY <1>7, ElsewhereKeepsMutexInv DEF JobAccepted, Adopt, JobDone
<1>8. CASE ReadBack(q)
  BY <1>8, ReleaseKeepsMutexInv DEF ReadBack
<1>9. CASE Timeouts(q)
  BY <1>9, ReleaseKeepsMutexInv DEF Timeouts, CallTimeout, PollTimeout
<1> QED
  BY <1>1, <1>2, <1>3, <1>4, <1>5, <1>6, <1>7, <1>8, <1>9 DEF Operate

LEMMA EnvironmentKeepsMutexInv ==
  ASSUME TypeOK, MutexInv,
         \/ \E q \in Requests : SupervisorDone(q)
         \/ \E n \in Nonces : IssueNonce(n)
         \/ PassTime \/ CollectNonces \/ Restart
  PROVE  MutexInv'
<1> USE DEF MutexInv, HeldOnlyInsideOrAfter423, mutexVars, request
<1>1. CASE Restart
  BY <1>1, BridgeAssumption DEF Restart, Mutex!ForgetMutex, TypeOK, InMutex
<1>2. CASE ~Restart
  BY <1>2 DEF SupervisorDone, IssueNonce, PassTime, CollectNonces
<1> QED
  BY <1>1, <1>2

\* Who holds the mutex of a slug, what its TryAcquire goroutine is doing and where
\* the handler is always fit together.
THEOREM BridgeMutex == Spec => []MutexInv
<1>1. Init => MutexInv
  BY BridgeAssumption DEF Init, Mutex!InitMutex, MutexInv, HeldOnlyInsideOrAfter423, InMutex
<1>2. TypeOK /\ MutexInv /\ [Next]_vars => MutexInv'
  <2> SUFFICES ASSUME TypeOK, MutexInv, [Next]_vars PROVE MutexInv'
    OBVIOUS
  <2>1. ASSUME NEW q \in Requests, Arrive(q) \/ Handle(q) PROVE MutexInv'
    BY <2>1, BeginKeepsMutexInv, WaitKeepsMutexInv, OperateKeepsMutexInv DEF Handle
  <2>2. CASE UNCHANGED vars
    BY <2>2 DEF MutexInv, HeldOnlyInsideOrAfter423, vars, mutexVars, request
  <2> QED
    BY <2>1, <2>2, EnvironmentKeepsMutexInv DEF Next
<1> QED
  BY <1>1, <1>2, BridgeTypes, PTL DEF Spec

\* For any number of requests: one at a time inside the mutex of a slug.
THEOREM OneInsideEachSlug == Spec => []SlugExclusive
<1>1. MutexInv => SlugExclusive
  BY DEF MutexInv, SlugExclusive
<1> QED
  BY <1>1, BridgeMutex, PTL

\* For any number of requests: only a request inside, one that is being handed
\* the mutex, or the goroutine of one that was answered "locked" holds it.
THEOREM MutexHolders == Spec => []HeldOnlyInsideOrAfter423
<1>1. MutexInv => HeldOnlyInsideOrAfter423
  BY DEF MutexInv
<1> QED
  BY <1>1, BridgeMutex, PTL

-----------------------------------------------------------------------------
(* The nonces                                                              *)

\* The entry e of nonce n says when it was issued, and by this process.
Truthful(e, n) == e.issuedAt = issue[n].at /\ issue[n].epoch = epoch

\* The cache tells the truth, and so does the copy of a handler that is about
\* to mark it; the entry of an accepted nonce is gone or marked, so that nobody
\* who arrives later finds it fresh.
NonceInv ==
  /\ \A q \in Requests : nonce[q] # NoNonce => issue[nonce[q]] # NotIssued
  /\ \A n \in Nonces : cache[n] # Nonce!NoEntry => Truthful(cache[n], n)
  /\ \A q \in Requests :
       pc[q] = "marking" =>
         /\ Truthful(seen[q], nonce[q])
         /\ arrived[q] - seen[q].issuedAt <= TTL
         /\ \A o \in earlier[q] : nonce[o] # nonce[q]
  /\ \A q \in granted :
       /\ nonce[q] # NoNonce
       /\ pc[q] \notin {"new", "validating", "dropping", "marking"}
       /\ cache[nonce[q]] # Nonce!NoEntry => cache[nonce[q]].used
  /\ \A q \in Requests : earlier[q] \subseteq granted
  /\ NoSequentialReuse
  /\ AcceptedWhileAlive

\* What a step that touches no nonce and no history has to respect.
LEMMA ElsewhereKeepsNonceInv ==
  ASSUME TypeOK, NonceInv,
         UNCHANGED <<cache, nonce, arrived, seen, epoch, history>>,
         \A q \in Requests :
           \/ pc'[q] = pc[q]
           \/ /\ pc[q] # "answered" /\ pc[q] # "gone"
              /\ pc'[q] \notin {"new", "validating", "dropping", "marking"}
           \/ pc[q] \in {"new", "validating"} /\ pc'[q] # "marking"
  PROVE  NonceInv'
<1> USE DEF TypeOK, NonceInv, NoSequentialReuse, AcceptedWhileAlive, Truthful, history
<1>1. \A q \in granted : pc'[q] \notin {"new", "validating", "dropping", "marking"}
  OBVIOUS
<1>2. \A q \in Requests : pc'[q] = "marking" => pc[q] = "marking"
  OBVIOUS
<1>3. \A q \in granted : pc'[q] \notin {"answered", "gone"} => pc[q] \notin {"answered", "gone"}
  OBVIOUS
<1>4. AcceptedWhileAlive'
  BY <1>3
<1> QED
  BY <1>1, <1>2, <1>4

LEMMA ArriveKeepsNonceInv ==
  ASSUME TypeOK, NonceInv, NEW q \in Requests, Arrive(q)
  PROVE  NonceInv'
<1> USE BridgeAssumption, PositionNames DEF TypeOK, Goto, Respond, mutexVars, nonceVars, request
<1>1. ASSUME NEW o \in Operation, ArriveGentle(q, o) PROVE NonceInv'
  BY <1>1, ElsewhereKeepsNonceInv DEF ArriveGentle
<1>2. ASSUME NEW o \in Operation, NEW n \in Presentable, ArriveDestructive(q, o, n)
      PROVE  NonceInv'
  <2> USE DEF NonceInv, NoSequentialReuse, AcceptedWhileAlive, Truthful
  <2>1. /\ q \notin granted
        /\ \A r \in Requests : pc'[r] = "marking" => r # q /\ pc[r] = "marking"
        /\ \A r \in granted : pc'[r] = pc[r] /\ nonce'[r] = nonce[r]
    BY <1>2 DEF ArriveDestructive
  <2>2. \A r \in Requests : nonce'[r] # NoNonce => issue'[nonce'[r]] # NotIssued
    BY <1>2 DEF ArriveDestructive, Presentable
  <2>3. \A r \in Requests : earlier'[r] \subseteq granted'
    BY <1>2 DEF ArriveDestructive
  <2>4. \A r \in Requests \ {q} :
          nonce'[r] = nonce[r] /\ arrived'[r] = arrived[r] /\ earlier'[r] = earlier[r]
    BY <1>2 DEF ArriveDestructive
  <2>5. UNCHANGED <<cache, seen, epoch, issue, granted>>
    BY <1>2 DEF ArriveDestructive
  <2>6. NoSequentialReuse' /\ AcceptedWhileAlive'
    <3>1. NoSequentialReuse'
      BY <2>1, <2>4, <2>5
    <3>2. AcceptedWhileAlive'
      BY <2>1, <2>4, <2>5
    <3> QED
      BY <3>1, <3>2
  <2>7. \A r \in Requests :
          pc'[r] = "marking" => \A e \in earlier'[r] : nonce'[e] # nonce'[r]
    BY <2>1, <2>4
  <2> QED
    BY <2>1, <2>2, <2>3, <2>4, <2>5, <2>6, <2>7
<1> QED
  BY <1>1, <1>2 DEF Arrive

LEMMA AuthoriseKeepsNonceInv ==
  ASSUME TypeOK, NonceInv, NEW q \in Requests, Authorise(q)
  PROVE  NonceInv'
<1> USE BridgeAssumption, PositionNames DEF TypeOK, Goto, Respond, mutexVars, request, history
<1>1. CASE LookUp(q)
  <2> USE DEF NonceInv, NoSequentialReuse, AcceptedWhileAlive, Truthful
  <2>1. /\ UNCHANGED <<cache, nonce, arrived, epoch, issue, granted, earlier>>
        /\ pc[q] = "validating" /\ q \notin granted
        /\ \A r \in Requests \ {q} : pc'[r] = pc[r] /\ seen'[r] = seen[r]
        /\ seen'[q] = cache[nonce[q]]
    BY <1>1 DEF LookUp, nonceVars
  <2>2. nonce[q] \in Nonces
    BY <2>1
  <2>3. ASSUME pc'[q] = "marking"
        PROVE  /\ Truthful(cache[nonce[q]], nonce[q])
               /\ arrived[q] - cache[nonce[q]].issuedAt <= TTL
               /\ \A o \in earlier[q] : nonce[o] # nonce[q]
    <3>1. Nonce!Fresh(cache[nonce[q]], arrived[q])
      BY <1>1, <2>3 DEF LookUp
    <3>2. cache[nonce[q]] # Nonce!NoEntry /\ ~cache[nonce[q]].used
      BY <3>1 DEF Nonce!Fresh, Nonce!Missing
    <3>3. cache[nonce[q]].issuedAt \in Nat
      BY <2>2, <3>2 DEF Nonce!Entry
    <3>4. arrived[q] - cache[nonce[q]].issuedAt <= TTL
      BY <3>1, <3>3 DEF Nonce!Fresh, Nonce!Expired, Nonce!Missing
    <3> QED
      BY <2>2, <3>2, <3>4
  <2>4. \A r \in granted : pc'[r] = pc[r]
    BY <2>1
  <2>5. NoSequentialReuse' /\ AcceptedWhileAlive'
    BY <2>1, <2>4
  <2>6. \A r \in Requests :
          pc'[r] = "marking" =>
            /\ Truthful(seen[r], nonce[r])'
            /\ arrived'[r] - seen'[r].issuedAt <= TTL
            /\ \A o \in earlier'[r] : nonce'[o] # nonce'[r]
    BY <2>1, <2>3
  <2> QED
    BY <2>1, <2>4, <2>5, <2>6
<1>2. CASE DropExpired(q)
  <2> USE DEF NonceInv, NoSequentialReuse, AcceptedWhileAlive, Truthful
  <2>1. /\ UNCHANGED <<nonce, arrived, seen, epoch, issue, granted, earlier>>
        /\ pc[q] = "dropping" /\ q \notin granted /\ pc'[q] = "answered"
        /\ \A r \in Requests \ {q} : pc'[r] = pc[r]
        /\ cache' = [cache EXCEPT ![nonce[q]] = Nonce!NoEntry]
    BY <1>2 DEF DropExpired, Nonce!DropExpired, Nonce!Del
  <2>2. \A n \in Nonces : cache'[n] # Nonce!NoEntry => cache'[n] = cache[n]
    BY <2>1
  <2>3. NoSequentialReuse' /\ AcceptedWhileAlive'
    BY <2>1
  <2> QED
    BY <2>1, <2>2, <2>3
<1>3. CASE MarkUsed(q)
  <2> USE DEF NonceInv, NoSequentialReuse, AcceptedWhileAlive, Truthful
  <2> DEFINE marked == [issuedAt |-> seen[q].issuedAt, used |-> TRUE]
  <2>1. /\ UNCHANGED <<nonce, arrived, seen, epoch, issue, earlier>>
        /\ granted' = granted \cup {q}
        /\ pc[q] = "marking" /\ pc'[q] = "locking"
        /\ \A r \in Requests \ {q} : pc'[r] = pc[r]
        /\ cache' = [cache EXCEPT ![nonce[q]] = marked]
    BY <1>3 DEF MarkUsed, Nonce!MarkUsed, Nonce!Set
  <2>2. nonce[q] \in Nonces /\ seen[q] \in Nonce!Entry
    BY <2>1
  <2>3. \A n \in Nonces : cache'[n] = IF n = nonce[q] THEN marked ELSE cache[n]
    BY <2>1, <2>2
  <2>4. \A n \in Nonces : cache'[n] # Nonce!NoEntry => Truthful(cache[n], n)'
    BY <2>1, <2>3
  <2>5. \A r \in granted' : cache'[nonce'[r]] # Nonce!NoEntry => cache'[nonce'[r]].used
    BY <2>1, <2>2, <2>3
  <2>6. NoSequentialReuse'
    BY <2>1
  <2>7. AcceptedWhileAlive'
    <3>1. /\ seen[q].issuedAt = issue[nonce[q]].at
          /\ issue[nonce[q]].epoch = epoch
          /\ arrived[q] - seen[q].issuedAt <= TTL
      BY <2>1
    <3> QED
      BY <2>1, <3>1
  <2> QED
    BY <2>1, <2>4, <2>5, <2>6, <2>7
<1> QED
  BY <1>1, <1>2, <1>3 DEF Authorise

LEMMA HandleKeepsNonceInv ==
  ASSUME TypeOK, NonceInv, NEW q \in Requests,
         \/ WaiterRuns(q) \/ Enter(q) \/ GiveUp(q) \/ Operate(q) \/ Timeouts(q)
         \/ SupervisorDone(q)
  PROVE  NonceInv'
<1> USE ElsewhereKeepsNonceInv, PositionNames
        DEF TypeOK, Goto, Respond, RespondAndRelease, nonceVars, request
<1>1. CASE WaiterRuns(q) \/ SupervisorDone(q)
  BY <1>1 DEF WaiterRuns, SupervisorDone
<1>2. CASE Enter(q) \/ GiveUp(q)
  BY <1>2 DEF Enter, GiveUp
<1>3. CASE RefuseBody(q) \/ Call(q) \/ FallBack(q) \/ HearVerdict(q)
  BY <1>3 DEF RefuseBody, Call, FallBack, HearVerdict
<1>4. CASE MishearVerdict(q) \/ HearSuccess(q) \/ HearRefusal(q) \/ JobAccepted(q)
  BY <1>4 DEF MishearVerdict, HearSuccess, HearRefusal, JobAccepted
<1>5. CASE Adopt(q) \/ JobDone(q) \/ ReadBack(q) \/ Timeouts(q)
  BY <1>5 DEF Adopt, JobDone, ReadBack, Timeouts, CallTimeout, PollTimeout
<1> QED
  BY <1>1, <1>2, <1>3, <1>4, <1>5 DEF Operate

LEMMA EnvironmentKeepsNonceInv ==
  ASSUME TypeOK, NonceInv,
         (\E n \in Nonces : IssueNonce(n)) \/ PassTime \/ CollectNonces \/ Restart
  PROVE  NonceInv'
<1> USE BridgeAssumption
        DEF TypeOK, NonceInv, NoSequentialReuse, AcceptedWhileAlive, Truthful,
            mutexVars, nonceVars, request, history
<1>1. ASSUME NEW n \in Nonces, IssueNonce(n) PROVE NonceInv'
  <2>1. /\ UNCHANGED <<pc, nonce, arrived, seen, epoch, granted, earlier>>
        /\ issue[n] = NotIssued
        /\ issue' = [issue EXCEPT ![n] = [at |-> clock, epoch |-> epoch]]
        /\ cache' = [cache EXCEPT ![n] = [issuedAt |-> clock, used |-> FALSE]]
    BY <1>1 DEF IssueNonce, Nonce!Issue, Nonce!Set
  <2>2. \A r \in Requests : nonce[r] # n
    BY <2>1
  <2>3. \A m \in Nonces \ {n} : issue'[m] = issue[m] /\ cache'[m] = cache[m]
    BY <2>1
  <2>4. issue'[n] # NotIssued /\ (cache'[n] # Nonce!NoEntry => Truthful(cache[n], n)')
    <3>1. issue'[n] = [at |-> clock, epoch |-> epoch]
      BY <2>1
    <3>2. cache'[n] = [issuedAt |-> clock, used |-> FALSE]
      BY <2>1
    <3>3. clock # -1
      OBVIOUS
    <3> QED
      BY <2>1, <3>1, <3>2, <3>3 DEF NotIssued
  <2>5. \A r \in granted : nonce[r] \in Nonces \ {n}
    BY <2>2
  <2>6. \A r \in Requests : pc[r] = "marking" => nonce[r] \in Nonces \ {n}
    BY <2>2
  <2>7. AcceptedWhileAlive' /\ NoSequentialReuse'
    BY <2>1, <2>3, <2>5
  <2>8. \A m \in Nonces : cache'[m] # Nonce!NoEntry => Truthful(cache[m], m)'
    BY <2>1, <2>3, <2>4
  <2>9. \A r \in Requests : nonce'[r] # NoNonce => issue'[nonce'[r]] # NotIssued
    BY <2>1, <2>2, <2>3
  <2> QED
    BY <2>1, <2>3, <2>5, <2>6, <2>7, <2>8, <2>9
<1>2. CASE PassTime
  BY <1>2 DEF PassTime, Nonce!Tick
<1>3. CASE CollectNonces
  <2>1. /\ UNCHANGED <<pc, nonce, arrived, seen, epoch, issue, granted, earlier>>
        /\ \A n \in Nonces : cache'[n] # Nonce!NoEntry => cache'[n] = cache[n]
    BY <1>3 DEF CollectNonces, Nonce!CollectGarbage, Nonce!DropGarbage, Nonce!Del
  <2>2. AcceptedWhileAlive' /\ NoSequentialReuse'
    BY <2>1
  <2> QED
    BY <2>1, <2>2
<1>4. CASE Restart
  <2>1. /\ UNCHANGED <<nonce, arrived, seen, issue, granted, earlier>>
        /\ cache' = [n \in Nonces |-> Nonce!NoEntry]
        /\ \A r \in Requests : pc'[r] = IF pc[r] \in {"new", "answered"} THEN pc[r] ELSE "gone"
    BY <1>4 DEF Restart, Nonce!ForgetNonces
  <2>2. AcceptedWhileAlive' /\ NoSequentialReuse'
    BY <2>1
  <2> QED
    BY <2>1, <2>2
<1> QED
  BY <1>1, <1>2, <1>3, <1>4

\* The cache of nonces agrees with what was issued and granted, across expiry,
\* garbage collection and restarts.
THEOREM BridgeNonces == Spec => []NonceInv
<1>1. Init => NonceInv
  BY DEF Init, Nonce!InitNonces, NonceInv, NoSequentialReuse, AcceptedWhileAlive
<1>2. TypeOK /\ NonceInv /\ [Next]_vars => NonceInv'
  <2> SUFFICES ASSUME TypeOK, NonceInv, [Next]_vars PROVE NonceInv'
    OBVIOUS
  <2>1. ASSUME NEW q \in Requests, Arrive(q) \/ Handle(q) \/ SupervisorDone(q)
        PROVE  NonceInv'
    BY <2>1, ArriveKeepsNonceInv, AuthoriseKeepsNonceInv, HandleKeepsNonceInv DEF Handle
  <2>2. CASE UNCHANGED vars
    BY <2>2 DEF NonceInv, NoSequentialReuse, AcceptedWhileAlive, Truthful,
                vars, nonceVars, request, history
  <2> QED
    BY <2>1, <2>2, EnvironmentKeepsNonceInv DEF Next
<1> QED
  BY <1>1, <1>2, BridgeTypes, PTL DEF Spec

\* For every lifetime, grace period and number of nonces: an accepted nonce is
\* refused to whoever arrives afterwards.
THEOREM AcceptedOnceInSequence == Spec => []NoSequentialReuse
<1>1. NonceInv => NoSequentialReuse
  BY DEF NonceInv
<1> QED
  BY <1>1, BridgeNonces, PTL

\* An accepted nonce was issued by this process and had not expired.
THEOREM AcceptedWhileItLives == Spec => []AcceptedWhileAlive
<1>1. NonceInv => AcceptedWhileAlive
  BY DEF NonceInv
<1> QED
  BY <1>1, BridgeNonces, PTL

-----------------------------------------------------------------------------
(* The Supervisor                                                          *)

\* No call before the mutex; a destructive request gets past the lookup only
\* for an add-on that is not critical, and to the mutex only once granted.
DestructionInv ==
  /\ \A q \in Requests :
       /\ pc[q] \in {"new", "validating", "dropping", "marking", "locking"} => sup[q] = "idle"
       /\ op[q] \in Destructive =>
            /\ pc[q] \in {"validating", "dropping", "marking", "locking"} \cup InMutex =>
                 slug[q] \notin CriticalAddons
            /\ pc[q] \in {"locking"} \cup InMutex => q \in granted
  /\ DestructionAuthorised

\* What stands between a request and the answer "ok"; only an install is polled.
Finished(q) == IF op[q] = "install" THEN sup[q] # "running" ELSE sup[q] = "ok"

SuccessInv ==
  \A q \in Requests :
    /\ pc[q] = "polling" => op[q] = "install"
    /\ pc[q] = "reading" => Finished(q)
    /\ answer[q] = "ok" => pc[q] = "answered" /\ Finished(q)

CallsInv == DestructionInv /\ SuccessInv

LEMMA BeginKeepsCallsInv ==
  ASSUME TypeOK, CallsInv, NEW q \in Requests,
         Arrive(q) \/ Authorise(q) \/ WaiterRuns(q) \/ Enter(q) \/ GiveUp(q)
  PROVE  CallsInv'
<1> USE PositionNames
        DEF TypeOK, CallsInv, DestructionInv, DestructionAuthorised, SuccessInv, Finished,
            Goto, Respond, request, history
<1>1. ASSUME NEW o \in Operation, ArriveGentle(q, o) PROVE CallsInv'
  BY <1>1 DEF ArriveGentle
<1>2. ASSUME NEW o \in Operation, NEW n \in Presentable, ArriveDestructive(q, o, n)
      PROVE  CallsInv'
  <2>1. /\ UNCHANGED <<slug, sup, granted>>
        /\ op' = [op EXCEPT ![q] = o] /\ pc[q] = "new"
        /\ \A r \in Requests \ {q} : pc'[r] = pc[r] /\ answer'[r] = answer[r]
        /\ answer'[q] # "ok"
        /\ \/ pc'[q] = "answered"
           \/ pc'[q] = "validating" /\ slug[q] \notin CriticalAddons
    BY <1>2 DEF ArriveDestructive
  <2>2. sup[q] = "idle" /\ \A r \in Requests \ {q} : op'[r] = op[r]
    BY <2>1
  <2>3. DestructionInv'
    BY <2>1, <2>2
  <2>4. SuccessInv'
    BY <2>1, <2>2
  <2> QED
    BY <2>3, <2>4
<1>3. CASE LookUp(q)
  <2>1. /\ UNCHANGED <<op, slug, sup, granted>>
        /\ pc[q] = "validating" /\ pc'[q] \in {"dropping", "marking", "answered"}
        /\ \A r \in Requests \ {q} : pc'[r] = pc[r] /\ answer'[r] = answer[r]
        /\ answer'[q] # "ok"
    BY <1>3 DEF LookUp
  <2>2. DestructionInv'
    BY <2>1
  <2>3. SuccessInv'
    BY <2>1
  <2> QED
    BY <2>2, <2>3
<1>4. CASE DropExpired(q)
  BY <1>4 DEF DropExpired
<1>5. CASE MarkUsed(q)
  BY <1>5 DEF MarkUsed
<1>6. CASE WaiterRuns(q)
  BY <1>6 DEF WaiterRuns
<1>7. CASE Enter(q)
  BY <1>7 DEF Enter
<1>8. CASE GiveUp(q)
  BY <1>8 DEF GiveUp
<1> QED
  BY <1>1, <1>2, <1>3, <1>4, <1>5, <1>6, <1>7, <1>8 DEF Arrive, Authorise

LEMMA OperateKeepsCallsInv ==
  ASSUME TypeOK, CallsInv, NEW q \in Requests,
         Operate(q) \/ Timeouts(q) \/ SupervisorDone(q)
  PROVE  CallsInv'
<1> USE PositionNames
        DEF TypeOK, CallsInv, DestructionInv, DestructionAuthorised, SuccessInv, Finished,
            Goto, Respond, RespondAndRelease, request, history
<1>1. CASE RefuseBody(q) \/ Call(q)
  BY <1>1 DEF RefuseBody, Call
<1>2. CASE FallBack(q)
  BY <1>2 DEF FallBack
<1>3. CASE HearVerdict(q) \/ MishearVerdict(q)
  BY <1>3 DEF HearVerdict, MishearVerdict
<1>4. CASE HearSuccess(q)
  BY <1>4 DEF HearSuccess
<1>5. CASE HearRefusal(q) \/ JobAccepted(q)
  BY <1>5 DEF HearRefusal, JobAccepted
<1>6. CASE Adopt(q) \/ JobDone(q)
  BY <1>6 DEF Adopt, JobDone
<1>7. CASE ReadBack(q)
  BY <1>7 DEF ReadBack
<1>8. CASE Timeouts(q)
  BY <1>8 DEF Timeouts, CallTimeout, PollTimeout
<1>9. CASE SupervisorDone(q)
  BY <1>9 DEF SupervisorDone
<1> QED
  BY <1>1, <1>2, <1>3, <1>4, <1>5, <1>6, <1>7, <1>8, <1>9 DEF Operate

\* What the Supervisor was asked for agrees with how far the handler got.
THEOREM BridgeCalls == Spec => []CallsInv
<1>1. Init => CallsInv
  BY PositionNames
     DEF Init, CallsInv, DestructionInv, DestructionAuthorised, SuccessInv, Finished
<1>2. TypeOK /\ CallsInv /\ [Next]_vars => CallsInv'
  <2> SUFFICES ASSUME TypeOK, CallsInv, [Next]_vars PROVE CallsInv'
    OBVIOUS
  <2>1. ASSUME NEW q \in Requests, Arrive(q) \/ Handle(q) \/ SupervisorDone(q)
        PROVE  CallsInv'
    BY <2>1, BeginKeepsCallsInv, OperateKeepsCallsInv DEF Handle
  <2>2. CASE \/ \E n \in Nonces : IssueNonce(n)
             \/ PassTime \/ CollectNonces \/ Restart \/ UNCHANGED vars
    BY <2>2, PositionNames
       DEF IssueNonce, PassTime, CollectNonces, Restart, TypeOK, CallsInv, DestructionInv,
           DestructionAuthorised, SuccessInv, Finished, vars, request, history
  <2> QED
    BY <2>1, <2>2 DEF Next
<1> QED
  BY <1>1, <1>2, BridgeTypes, PTL DEF Spec

\* Whatever the interleaving, the Supervisor is never asked to destroy a critical
\* add-on, nor anything without an accepted nonce.
THEOREM DestructionNeedsNonce == Spec => []DestructionAuthorised
<1>1. CallsInv => DestructionAuthorised
  BY DEF CallsInv, DestructionInv
<1> QED
  BY <1>1, BridgeCalls, PTL

\* Nothing of a request that was answered with success is still going on.
THEOREM SuccessMeansFinished == Spec => []SuccessIsFinished
<1>1. CallsInv => SuccessIsFinished
  BY DEF CallsInv, SuccessInv, SuccessIsFinished, Finished
<1> QED
  BY <1>1, BridgeCalls, PTL
=============================================================================
