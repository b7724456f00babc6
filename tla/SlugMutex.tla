----------------------------- MODULE SlugMutex -----------------------------
(***************************************************************************)
(* terraform-bridge's per-slug mutex (internal/mutex/manager.go).          *)
(*                                                                         *)
(* A caller of TryAcquire starts a goroutine that locks the slug's         *)
(* sync.Mutex and then sends on a channel of capacity one; the caller      *)
(* waits for that channel or for its context.  waiter[c] is where the      *)
(* goroutine of caller c has got to, and owner[s] the caller whose         *)
(* goroutine locked the mutex of s.                                        *)
(***************************************************************************)
CONSTANTS
  Callers,   \* calls of TryAcquire, one per request
  Slugs,     \* add-on slugs
  NoCaller   \* "unlocked"

VARIABLES
  owner,     \* holder of each slug's sync.Mutex
  waiter     \* "none", or "locking", "locked", "sent" for the goroutine

WaiterState == {"none", "locking", "locked", "sent"}

InitMutex ==
  /\ owner  = [s \in Slugs |-> NoCaller]
  /\ waiter = [c \in Callers |-> "none"]

\* TryAcquire up to its select.
StartWaiter(c) ==
  /\ waiter' = [waiter EXCEPT ![c] = "locking"]
  /\ UNCHANGED owner

\* Mutant of WaiterLock: two getOrCreate calls made two mutexes for the slug.
WaiterLockOwnMutex(c, s) ==
  /\ waiter[c] = "locking"
  /\ owner' = [owner EXCEPT ![s] = c]
  /\ waiter' = [waiter EXCEPT ![c] = "locked"]

\* lock.Lock() returns in the goroutine.
WaiterLock(c, s) ==
  /\ waiter[c] = "locking"
  /\ owner[s] = NoCaller
  /\ owner' = [owner EXCEPT ![s] = c]
  /\ waiter' = [waiter EXCEPT ![c] = "locked"]

\* The goroutine's send, after which it exits.
WaiterSend(c) ==
  /\ waiter[c] = "locked"
  /\ waiter' = [waiter EXCEPT ![c] = "sent"]
  /\ UNCHANGED owner

\* The select takes <-done: the caller has the mutex.
Acquired(c) ==
  /\ waiter[c] = "sent"
  /\ waiter' = [waiter EXCEPT ![c] = "none"]
  /\ UNCHANGED owner

\* The select takes <-ctx.Done(): a value already sent is drained and the
\* mutex unlocked; otherwise the goroutine is left to itself.
Abandoned(c, s) ==
  IF waiter[c] = "sent"
  THEN /\ waiter' = [waiter EXCEPT ![c] = "none"]
       /\ owner' = [owner EXCEPT ![s] = NoCaller]
  ELSE UNCHANGED <<owner, waiter>>

Release(s) ==
  /\ owner' = [owner EXCEPT ![s] = NoCaller]
  /\ UNCHANGED waiter

\* The process is gone.
ForgetMutex ==
  /\ owner'  = [s \in Slugs |-> NoCaller]
  /\ waiter' = [c \in Callers |-> "none"]
=============================================================================
