---------------------------- MODULE NonceManager ----------------------------
(***************************************************************************)
(* terraform-bridge's single-use destruction nonces (internal/nonce).      *)
(*                                                                         *)
(* cache is the map guarded by the RWMutex of cache.go: get, set and del   *)
(* are atomic one by one, and Validate calls several of them.  Time is     *)
(* counted in units small enough for TTL and Grace to be whole numbers.    *)
(* The journal is forensic and never read, so it is left out.              *)
(***************************************************************************)
EXTENDS Integers

CONSTANTS
  Nonces,   \* values of rand.Read, all different
  TTL,      \* Manager.ttl
  Grace     \* gcGrace

VARIABLES
  clock,    \* time.Now
  cache,    \* nonce -> its entry, or NoEntry
  garbage   \* candidates of the collection in progress

NoEntry == [issuedAt |-> -1, used |-> FALSE]
Entry   == [issuedAt : Nat, used : BOOLEAN]
Cached(n) == cache[n] # NoEntry

Set(n, at, u) == cache' = [cache EXCEPT ![n] = [issuedAt |-> at, used |-> u]]
Del(n)        == cache' = [cache EXCEPT ![n] = NoEntry]

InitNonces ==
  /\ clock = 0
  /\ cache = [n \in Nonces |-> NoEntry]
  /\ garbage = {}

Issue(n) ==
  /\ Set(n, clock, FALSE)
  /\ UNCHANGED <<clock, garbage>>

\* Mutant of Expired: the window is forgotten.
NeverExpired(e, now) == FALSE

\* What Validate concludes from its copy e of the entry, at time now.
Missing(e)      == e = NoEntry
Expired(e, now) == ~Missing(e) /\ now - e.issuedAt > TTL
Used(e, now)    == ~Missing(e) /\ ~Expired(e, now) /\ e.used
Fresh(e, now)   == ~Missing(e) /\ ~Expired(e, now) /\ ~e.used

\* Mutant of MarkUsed: the nonce is not consumed.
MarkNothing(n, e) == UNCHANGED <<cache, clock, garbage>>

\* Validate's cache.set.
MarkUsed(n, e) ==
  /\ Set(n, e.issuedAt, TRUE)
  /\ UNCHANGED <<clock, garbage>>

DropExpired(n) ==
  /\ Del(n)
  /\ UNCHANGED <<clock, garbage>>

\* gcOnce: a snapshot under the read lock, then one deletion after another.
CollectGarbage ==
  /\ garbage = {}
  /\ garbage' = {n \in Nonces : Cached(n)
                                /\ clock - cache[n].issuedAt > TTL + Grace}
  /\ garbage' # {}
  /\ UNCHANGED <<clock, cache>>

DropGarbage(n) ==
  /\ n \in garbage
  /\ Del(n)
  /\ garbage' = garbage \ {n}
  /\ UNCHANGED clock

Tick ==
  /\ clock' = clock + 1
  /\ UNCHANGED <<cache, garbage>>

\* The process is gone; the clock goes on.
ForgetNonces ==
  /\ cache' = [n \in Nonces |-> NoEntry]
  /\ garbage' = {}
  /\ UNCHANGED clock
=============================================================================
