----------------------------- MODULE TokenStore -----------------------------
(***************************************************************************)
(* The bearer token of iac-runner (internal/auth/token.go; terraform-bridge *)
(* has the same code): its hash and that of its predecessor in memory and   *)
(* in two files under /data, first start, rotation in two renames, restart. *)
(* Tokens are numbered as they are generated; a number stands for its hash. *)
(***************************************************************************)
EXTENDS ServiceValues, Integers

CONSTANTS
  Rotators,       \* concurrent calls of POST /v1/auth/rotate
  Window,         \* GraceWindow in ticks of the clock
  MaxTokens,      \* bound on tokens generated
  LastTick,       \* bound on the clock
  MaxTokenEvents  \* bound on failures and restarts

VARIABLES
  tokenFile, graceFile,  \* /data/iac-runner-token and .grace
  hash, grace,           \* the store in memory
  main,                  \* where main is: "load", "persist", "initial", "serve"
  rotator,               \* call |-> [at, prev, new, until]
  generated,             \* tokens generated
  tick,
  handed,                \* history: what was handed out last, [token, prev, until]
  crowded,               \* history: calls that overlap another one
  settled,               \* history: nothing disturbed the last one, see TokensHonoured
  tokenEvents

tokenFiles == <<tokenFile, graceFile>>
store == <<hash, grace>>
account == <<handed, crowded, settled>>
tokenVars == <<tokenFiles, store, main, rotator, generated, tick, account, tokenEvents>>

Idle == [at |-> "idle", prev |-> None, new |-> None, until |-> 0]
Grace(prev, until) == [prev |-> prev, until |-> until]
Busy == {r \in Rotators : rotator[r].at # "idle"}

Tokens == 1 .. MaxTokens
Times  == 0 .. (LastTick + Window)

\* What is assumed of the constants: the bounds are numbers, and nil is neither a
\* token nor the content of a grace file.
ASSUME TokenAssumption ==
  /\ Window \in Nat /\ MaxTokens \in Nat /\ LastTick \in Nat
  /\ None \notin Tokens
  /\ \A p \in Tokens \cup {None}, t \in Times : Grace(p, t) # None

\* Calls that have replaced the token file and not published the token yet.
Halfway == {r \in Rotators : rotator[r].at \in {"grace file", "publish"}}

TokenInit ==
  /\ tokenFile = None /\ graceFile = None
  /\ hash = None /\ grace = None
  /\ main = "load" /\ rotator = [r \in Rotators |-> Idle]
  /\ generated = 0 /\ tick = 0
  /\ handed = None /\ crowded = {} /\ settled = FALSE
  /\ tokenEvents = 0

TokenEvent == tokenEvents < MaxTokenEvents /\ tokenEvents' = tokenEvents + 1

\* Validate
Accepts(t) ==
  \/ hash # None /\ t = hash
  \/ hash # None /\ grace # None /\ tick < grace.until /\ t = grace.prev

-----------------------------------------------------------------------------
(* main: load, or generate, persist and write the plaintext to a file *)

\* Mutant of LoadedGrace: only the token itself is read.
NoGraceLoaded == None

LoadedGrace == IF tokenFile = None THEN None ELSE graceFile

LoadStore ==
  /\ main = "load"
  /\ hash' = tokenFile /\ grace' = LoadedGrace
  /\ main' = IF tokenFile = None THEN "persist" ELSE "serve"
  /\ UNCHANGED <<tokenFiles, rotator, generated, tick, account, tokenEvents>>

Persist ==
  /\ main = "persist" /\ generated < MaxTokens
  /\ generated' = generated + 1
  /\ tokenFile' = generated' /\ hash' = generated'
  /\ main' = "initial"
  /\ UNCHANGED <<graceFile, grace, rotator, tick, account, tokenEvents>>

\* Only now somebody can know the token.
WriteInitialTokenFile ==
  /\ main = "initial"
  /\ handed' = [token |-> hash, prev |-> None, until |-> 0] /\ settled' = TRUE
  /\ main' = "serve"
  /\ UNCHANGED <<tokenFiles, store, rotator, generated, tick, crowded, tokenEvents>>

-----------------------------------------------------------------------------
(* Rotate: no lock is held from the reading of the hash to the publication *)

BeginRotate(r) ==
  /\ main = "serve" /\ r \notin Busy /\ generated < MaxTokens
  /\ generated' = generated + 1
  /\ rotator' = [rotator EXCEPT ![r] =
                   [at |-> "token file", prev |-> hash, new |-> generated', until |-> 0]]
  /\ crowded' = IF Busy = {} THEN {} ELSE crowded \cup Busy \cup {r}
  /\ UNCHANGED <<tokenFiles, store, main, tick, handed, settled, tokenEvents>>

RenameToken(r) ==
  /\ rotator[r].at = "token file"
  /\ tokenFile' = rotator[r].new
  /\ rotator' = [rotator EXCEPT ![r].at = "grace file", ![r].until = tick + Window]
  /\ UNCHANGED <<graceFile, store, main, generated, tick, account, tokenEvents>>

RenameGrace(r) ==
  /\ rotator[r].at = "grace file"
  /\ graceFile' = Grace(rotator[r].prev, rotator[r].until)
  /\ rotator' = [rotator EXCEPT ![r].at = "publish"]
  /\ UNCHANGED <<tokenFile, store, main, generated, tick, account, tokenEvents>>

\* Memory follows the files, and the answer carries the new token.
Publish(r) ==
  /\ rotator[r].at = "publish"
  /\ hash' = rotator[r].new
  /\ grace' = Grace(rotator[r].prev, rotator[r].until)
  /\ handed' = [token |-> rotator[r].new, prev |-> rotator[r].prev, until |-> rotator[r].until]
  /\ settled' = (r \notin crowded)
  /\ rotator' = [rotator EXCEPT ![r] = Idle]
  /\ UNCHANGED <<tokenFiles, main, generated, tick, crowded, tokenEvents>>

\* Writing or renaming a temporary file fails: 500, and what is renamed stays.
RotateFails(r) ==
  /\ rotator[r].at \in {"token file", "grace file"}
  /\ TokenEvent
  /\ settled' = (settled /\ r \notin Halfway)
  /\ rotator' = [rotator EXCEPT ![r] = Idle]
  /\ UNCHANGED <<tokenFiles, store, main, generated, tick, handed, crowded>>

\* The process ends anywhere and is started again.
TokenRestart ==
  /\ TokenEvent
  /\ settled' = (settled /\ Halfway = {})
  /\ hash' = None /\ grace' = None
  /\ main' = "load" /\ rotator' = [r \in Rotators |-> Idle] /\ crowded' = {}
  /\ UNCHANGED <<tokenFiles, generated, tick, handed>>

TimePasses ==
  /\ tick < LastTick /\ tick' = tick + 1
  /\ UNCHANGED <<tokenFiles, store, main, rotator, generated, account, tokenEvents>>

TokenNext ==
  \/ LoadStore \/ Persist \/ WriteInitialTokenFile
  \/ \E r \in Rotators : BeginRotate(r) \/ RenameToken(r) \/ RenameGrace(r) \/ Publish(r)
                         \/ RotateFails(r)
  \/ TokenRestart \/ TimePasses

TokenSpec == TokenInit /\ [][TokenNext]_tokenVars

-----------------------------------------------------------------------------
(* Properties *)

\* The token handed out last, and the one before it for the rest of its grace,
\* authenticate, also after restarts (DOCS.md:252-254), unless a rotation overlapped
\* another, or one failed or was killed between its two renames.
TokensHonoured ==
  main = "serve" /\ settled =>
    /\ Accepts(handed.token)
    /\ tick < handed.until => Accepts(handed.prev)
=============================================================================
