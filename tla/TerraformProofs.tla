-------------------------- MODULE TerraformProofs ---------------------------
(***************************************************************************)
(* The Terraform side of the bridge.  Of the token store: TokensHonoured for*)
(* every number of concurrent rotations, every grace window and any failures*)
(* and restarts.  Of the provider's add-on resource: ApplyConverges for all*)
(* goals and defaults, whatever fails and whoever interferes.              *)
(***************************************************************************)
EXTENDS TokenStore, AddonResource, TLAPS

-----------------------------------------------------------------------------
(* The invariant                                                           *)

Call == [at : {"idle", "token file", "grace file", "publish"}, prev : Tokens \cup {None},
         new : Tokens \cup {None}, until : Times]

TokenTypes ==
  /\ tokenFile \in Tokens \cup {None} /\ hash \in Tokens \cup {None}
  /\ main \in {"load", "persist", "initial", "serve"}
  /\ rotator \in [Rotators -> Call]
  /\ \A r \in Rotators : rotator[r].at # "idle" => rotator[r].new \in Tokens
  /\ generated \in 0 .. MaxTokens
  /\ tick \in 0 .. LastTick
  /\ settled \in BOOLEAN
  /\ settled => handed \in [token : Tokens, prev : Tokens \cup {None}, until : Times]

\* A call that nobody overlaps finds on disk what it has written.
Alone ==
  /\ main # "serve" => \A r \in Rotators : rotator[r].at = "idle"
  /\ \A r \in Rotators : rotator[r].at # "idle" /\ r \notin crowded =>
       /\ \A q \in Rotators : q # r => rotator[q].at = "idle"
       /\ rotator[r].at \in {"grace file", "publish"} => tokenFile = rotator[r].new
       /\ rotator[r].at = "publish" => graceFile = Grace(rotator[r].prev, rotator[r].until)

Same(token, predecessor) ==
  /\ token = handed.token
  /\ tick < handed.until => predecessor = Grace(handed.prev, handed.until)

\* While nothing was disturbed, memory and, between two renames, the files are what
\* was handed out.
AtRest ==
  /\ main = "initial" => hash \in Tokens /\ tokenFile = hash
  /\ settled =>
       /\ main \in {"load", "serve"}
       /\ main = "serve" => Same(hash, grace)
       /\ (\A r \in Rotators : rotator[r].at \in {"idle", "token file"}) => Same(tokenFile, graceFile)

TokenInv == TokenTypes /\ Alone /\ AtRest

-----------------------------------------------------------------------------
LEMMA Limits ==
  /\ 0 \in Times /\ Times \subseteq Nat /\ Tokens \subseteq Nat
  /\ \A t \in 0 .. LastTick : t \in Nat /\ t + Window \in Times
  /\ \A g \in 0 .. MaxTokens : g < MaxTokens => g + 1 \in Tokens /\ g + 1 \in 0 .. MaxTokens
BY TokenAssumption DEF Times, Tokens

LEMMA IdleCall == Idle \in Call /\ Idle.at = "idle"
BY Limits DEF Idle, Call

LEMMA StartKeepsTokenInv ==
  ASSUME TokenInv, LoadStore \/ Persist \/ WriteInitialTokenFile
  PROVE  TokenInv'
<1> USE Limits DEF TokenInv, tokenFiles, store, account
<1>1. ASSUME LoadStore PROVE TokenInv'
  <2>1. TokenTypes' /\ Alone'
    BY <1>1 DEF LoadStore, TokenTypes, Alone
  <2>2. settled => tokenFile \in Tokens /\ Same(tokenFile, graceFile)
    BY <1>1 DEF LoadStore, TokenTypes, Alone, AtRest, Same
  <2>3. settled => main' = "serve" /\ Same(hash, grace)' /\ Same(tokenFile, graceFile)'
    BY <1>1, <2>2, TokenAssumption DEF LoadStore, LoadedGrace, Same
  <2>4. AtRest'
    BY <1>1, <2>3 DEF LoadStore, AtRest
  <2> QED
    BY <2>1, <2>4
<1>2. ASSUME Persist PROVE TokenInv'
  <2>1. generated' \in Tokens /\ generated' \in 0 .. MaxTokens
    BY <1>2 DEF Persist, TokenTypes
  <2>2. ~settled
    BY <1>2 DEF Persist, AtRest
  <2>3. TokenTypes'
    BY <1>2, <2>1, <2>2 DEF Persist, TokenTypes
  <2>4. Alone' /\ AtRest'
    BY <1>2, <2>1, <2>2 DEF Persist, Alone, AtRest
  <2> QED
    BY <2>3, <2>4
<1>3. ASSUME WriteInitialTokenFile PROVE TokenInv'
  <2>1. handed' \in [token : Tokens, prev : Tokens \cup {None}, until : Times]
    BY <1>3 DEF WriteInitialTokenFile, AtRest
  <2>2. TokenTypes'
    BY <1>3, <2>1 DEF WriteInitialTokenFile, TokenTypes
  <2>4. handed'.token = hash /\ ~(tick < handed'.until) /\ tokenFile = hash
    BY <1>3 DEF WriteInitialTokenFile, TokenTypes, AtRest
  <2>3. AtRest'
    BY <1>3, <2>4 DEF WriteInitialTokenFile, AtRest, Same
  <2> QED
    BY <1>3, <2>2, <2>3 DEF WriteInitialTokenFile, Alone
<1> QED
  BY <1>1, <1>2, <1>3

LEMMA RotateKeepsTokenInv ==
  ASSUME TokenInv, NEW r \in Rotators,
         BeginRotate(r) \/ RenameToken(r) \/ RenameGrace(r) \/ Publish(r) \/ RotateFails(r)
  PROVE  TokenInv'
<1> USE Limits DEF TokenInv, tokenFiles, store, account
<1>0. rotator[r] \in Call
  BY DEF TokenTypes
<1>1. ASSUME BeginRotate(r) PROVE TokenInv'
  <2>1. generated' \in Tokens /\ generated' \in 0 .. MaxTokens
    BY <1>1 DEF BeginRotate, TokenTypes
  <2>2. rotator'[r] = [at |-> "token file", prev |-> hash, new |-> generated', until |-> 0]
    BY <1>1 DEF BeginRotate, TokenTypes
  <2>3. rotator'[r] \in Call /\ \A q \in Rotators : q # r => rotator'[q] = rotator[q]
    BY <1>1, <2>1, <2>2 DEF BeginRotate, TokenTypes, Call
  <2>4. TokenTypes'
    BY <1>1, <2>1, <2>2, <2>3 DEF BeginRotate, TokenTypes
  <2>5. Alone'
    <3>1. rotator'[r].at = "token file"
      <4> DEFINE call == [at |-> "token file", prev |-> hash, new |-> generated', until |-> 0]
      <4>1. rotator'[r] = call
        BY <2>2
      <4>2. call.at = "token file"
        OBVIOUS
      <4> QED
        BY <4>1, <4>2, Zenon
    <3>3. main' = "serve"
      BY <1>1 DEF BeginRotate
    <3>2. ASSUME NEW q \in Rotators, rotator'[q].at # "idle", q \notin crowded'
          PROVE  q = r /\ \A z \in Rotators : z # r => rotator'[z].at = "idle"
      <4>1. q = r \/ q \in Busy
        BY <2>3, <3>2 DEF Busy
      <4>2. Busy = {}
        BY <1>1, <3>2, <4>1 DEF BeginRotate
      <4> QED
        BY <2>3, <4>1, <4>2 DEF Busy
    <3> QED
      BY <3>1, <3>2, <3>3 DEF Alone
  <2>6. AtRest'
    BY <1>1, <2>2, <2>3 DEF BeginRotate, AtRest, Busy, Same
  <2> QED
    BY <2>4, <2>5, <2>6
<1>2. ASSUME RenameToken(r) PROVE TokenInv'
  <2>1. tick + Window \in Times
    BY DEF TokenTypes
  <2>2. rotator'[r] = [rotator[r] EXCEPT !.at = "grace file", !.until = tick + Window]
    BY <1>2 DEF RenameToken, TokenTypes
  <2>3. rotator'[r] \in Call /\ \A q \in Rotators : q # r => rotator'[q] = rotator[q]
    BY <1>0, <1>2, <2>1, <2>2 DEF RenameToken, TokenTypes, Call
  <2>4. rotator'[r].at = "grace file" /\ rotator'[r].new = rotator[r].new /\ rotator[r].new \in Tokens
    BY <1>0, <1>2, <2>2 DEF RenameToken, Call, TokenTypes
  <2>5. TokenTypes'
    BY <1>2, <2>3, <2>4 DEF RenameToken, TokenTypes
  <2>6. Alone'
    BY <1>2, <2>3, <2>4 DEF RenameToken, Alone
  <2>7. AtRest'
    <3>1. main = "serve" /\ rotator'[r].at \notin {"idle", "token file"}
      BY <1>2, <2>4 DEF RenameToken, Alone
    <3>2. UNCHANGED <<main, hash, grace, handed, tick, settled>>
      BY <1>2 DEF RenameToken
    <3> QED
      BY <3>1, <3>2 DEF AtRest, Same
  <2> QED
    BY <2>5, <2>6, <2>7
<1>3. ASSUME RenameGrace(r) PROVE TokenInv'
  <2>1. rotator'[r] = [rotator[r] EXCEPT !.at = "publish"]
    BY <1>3 DEF RenameGrace, TokenTypes
  <2>2. rotator'[r] \in Call /\ \A q \in Rotators : q # r => rotator'[q] = rotator[q]
    BY <1>0, <1>3, <2>1 DEF RenameGrace, TokenTypes, Call
  <2>3. /\ rotator'[r].at = "publish" /\ rotator'[r].new = rotator[r].new
        /\ rotator'[r].prev = rotator[r].prev /\ rotator'[r].until = rotator[r].until
    BY <1>0, <2>1 DEF Call
  <2>4. TokenTypes'
    BY <1>3, <2>2, <2>3 DEF RenameGrace, TokenTypes
  <2>5. Alone'
    BY <1>3, <2>2, <2>3 DEF RenameGrace, Alone
  <2>6. AtRest'
    BY <1>3, <2>2, <2>3 DEF RenameGrace, AtRest, Same
  <2> QED
    BY <2>4, <2>5, <2>6
<1>4. ASSUME Publish(r) PROVE TokenInv'
  <2>1. rotator'[r] = Idle /\ Idle \in Call /\ Idle.at = "idle"
    BY <1>4, IdleCall DEF Publish, TokenTypes
  <2>2. \A q \in Rotators : q # r => rotator'[q] = rotator[q]
    BY <1>4 DEF Publish, TokenTypes
  <2>3. rotator[r].new \in Tokens /\ rotator[r].prev \in Tokens \cup {None} /\ rotator[r].until \in Times
    BY <1>0, <1>4 DEF Publish, TokenTypes, Call
  <2>4. TokenTypes'
    BY <1>4, <2>1, <2>2, <2>3 DEF Publish, TokenTypes
  <2>5. Alone'
    BY <1>4, <2>1, <2>2 DEF Publish, Alone
  <2>6. AtRest'
    BY <1>4, <2>1, <2>2 DEF Publish, Alone, AtRest, Same
  <2> QED
    BY <2>4, <2>5, <2>6
<1>5. ASSUME RotateFails(r) PROVE TokenInv'
  <2>1. rotator'[r] = Idle /\ Idle \in Call /\ Idle.at = "idle"
    BY <1>5, IdleCall DEF RotateFails, TokenTypes
  <2>2. \A q \in Rotators : q # r => rotator'[q] = rotator[q]
    BY <1>5 DEF RotateFails, TokenTypes
  <2>3. TokenTypes'
    BY <1>5, <2>1, <2>2 DEF RotateFails, TokenTypes
  <2>4. Alone' /\ AtRest'
    BY <1>5, <2>1, <2>2 DEF RotateFails, Alone, AtRest, Same, Halfway
  <2> QED
    BY <2>3, <2>4
<1> QED
  BY <1>1, <1>2, <1>3, <1>4, <1>5

LEMMA OutsideKeepsTokenInv ==
  ASSUME TokenInv, TokenRestart \/ TimePasses
  PROVE  TokenInv'
<1> USE Limits DEF TokenInv, tokenFiles, store, account
<1>1. ASSUME TokenRestart PROVE TokenInv'
  <2>1. Idle \in Call /\ Idle.at = "idle"
    BY IdleCall
  <2>2. TokenTypes'
    BY <1>1, <2>1 DEF TokenRestart, TokenTypes
  <2>3. \A r \in Rotators : rotator'[r].at = "idle"
    BY <1>1, <2>1 DEF TokenRestart
  <2>4. Alone'
    BY <1>1, <2>3 DEF TokenRestart, Alone
  <2>5. settled' => settled /\ \A r \in Rotators : rotator[r].at \in {"idle", "token file"}
    BY <1>1 DEF TokenRestart, Halfway, TokenTypes, Call
  <2>6. settled' => Same(tokenFile, graceFile)'
    BY <1>1, <2>5 DEF TokenRestart, AtRest, Same
  <2>7. AtRest'
    BY <1>1, <2>6 DEF TokenRestart, AtRest
  <2> QED
    BY <2>2, <2>4, <2>7
<1>2. ASSUME TimePasses PROVE TokenInv'
  <2>1. TokenTypes'
    <3>1. LastTick \in Nat
      BY TokenAssumption
    <3>2. tick' \in 0 .. LastTick
      BY <1>2, <3>1 DEF TimePasses, TokenTypes
    <3> QED
      BY <1>2, <3>2 DEF TimePasses, TokenTypes
  <2>2. settled /\ tick' < handed.until => tick < handed.until
    <3>1. tick \in Nat /\ tick' = tick + 1
      BY <1>2, TokenAssumption DEF TimePasses, TokenTypes
    <3>2. settled => handed.until \in Nat
      BY DEF TokenTypes
    <3> QED
      BY ONLY <3>1, <3>2
  <2>3. Alone'
    BY <1>2 DEF TimePasses, Alone
  <2>4. AtRest'
    BY <1>2, <2>2 DEF TimePasses, AtRest, Same
  <2> QED
    BY <2>1, <2>3, <2>4
<1> QED
  BY <1>1, <1>2

\* For any number of concurrent rotations, failures and restarts: as long as no
\* rotation overlapped another or stopped between its two renames, the token handed
\* out last authenticates, and its predecessor does for the rest of its grace.
THEOREM TokensStayHonoured == TokenSpec => []TokensHonoured
<1>1. TokenInit => TokenInv
  <2>1. TokenInit => TokenTypes
    <3>1. 0 \in 0 .. MaxTokens /\ 0 \in 0 .. LastTick
      BY TokenAssumption
    <3> QED
      BY <3>1, IdleCall DEF TokenInit, TokenTypes
  <2>2. TokenInit => Alone /\ AtRest
    BY IdleCall DEF TokenInit, Alone, AtRest
  <2> QED
    BY <2>1, <2>2 DEF TokenInv
<1>2. TokenInv /\ [TokenNext]_tokenVars => TokenInv'
  <2> SUFFICES ASSUME TokenInv, [TokenNext]_tokenVars PROVE TokenInv'
    OBVIOUS
  <2>1. CASE TokenNext
    BY <2>1, StartKeepsTokenInv, RotateKeepsTokenInv, OutsideKeepsTokenInv DEF TokenNext
  <2>2. CASE UNCHANGED tokenVars
    BY <2>2 DEF tokenVars, tokenFiles, store, account, TokenInv, TokenTypes, Alone, AtRest, Same
  <2> QED
    BY <2>1, <2>2
<1>3. TokenInv => TokensHonoured
  <2> SUFFICES ASSUME TokenInv, main = "serve", settled
               PROVE  /\ Accepts(handed.token)
                      /\ tick < handed.until => Accepts(handed.prev)
    BY DEF TokensHonoured
  <2>1. hash = handed.token /\ hash # None
    BY TokenAssumption DEF TokenInv, TokenTypes, AtRest, Same
  <2>2. ASSUME tick < handed.until PROVE Accepts(handed.prev)
    <3>1. handed.prev \in Tokens \cup {None} /\ handed.until \in Times
      BY DEF TokenInv, TokenTypes
    <3>2. grace = Grace(handed.prev, handed.until)
      BY <2>2 DEF TokenInv, AtRest, Same
    <3>3. grace # None /\ grace.prev = handed.prev /\ grace.until = handed.until
      BY <3>1, <3>2, TokenAssumption DEF Grace
    <3> QED
      BY <2>1, <2>2, <3>3 DEF Accepts
  <2> QED
    BY <2>1, <2>2 DEF Accepts
<1> QED
  BY <1>1, <1>2, <1>3, PTL DEF TokenSpec

-----------------------------------------------------------------------------
(* The add-on resource                                                     *)

TfSteps == {"idle", "read", "probe", "install", "probe again", "options", "start", "final",
            "nonce", "uninstall", "nonce again", "uninstall again"}

\* What the options are is left open.
AddonShape ==
  addon \in [installed : BOOLEAN, started : BOOLEAN, options : {addon.options}]

TfTypeOK ==
  /\ AddonShape
  /\ tfAt \in TfSteps
  /\ tfError \in BOOLEAN /\ tfTroubled \in BOOLEAN
  /\ changed \in BOOLEAN /\ removed \in BOOLEAN /\ created \in BOOLEAN /\ fresh \in BOOLEAN

\* Which operation may be at which call.
OperationFits ==
  /\ tfAt # "idle" => ~tfError /\ ~tfTroubled
  /\ tfAt = "read" => ~created
  /\ tfAt \in {"probe", "install", "probe again", "start"} => created
  /\ tfAt = "install" => info = None
  /\ tfAt \in {"nonce", "uninstall", "nonce again", "uninstall again"} => goal = None

\* What Terraform has seen is there, unless it was uninstalled behind its back.
SeenIsThere ==
  tfState # None \/ tfAt \in {"read", "options", "start", "final", "probe again"} =>
    addon.installed \/ removed

HasGoalOptions == \A k \in DOMAIN goal.options : addon.options[k] = goal.options[k]

\* How far an operation nobody interferes with has brought the add-on.
OnItsWay ==
  addon.installed /\ ~changed =>
    /\ tfAt = "options" => IF created THEN info = Seen ELSE tfState = Seen
    /\ tfAt \in {"start", "final"} /\ ~fresh => HasGoalOptions
    /\ tfAt = "start" /\ info # None => (info.started <=> addon.started)
    /\ tfAt = "final" /\ created /\ goal.start => addon.started

TfInv == TfTypeOK /\ OperationFits /\ SeenIsThere /\ OnItsWay /\ ApplyConverges

\* The add-on keeps its shape, whichever field a call changes.
LEMMA AddonUpdates ==
  ASSUME AddonShape, NEW o, NEW b \in BOOLEAN
  PROVE  /\ [addon EXCEPT !.options = o]
               = [installed |-> addon.installed, started |-> addon.started, options |-> o]
         /\ [addon EXCEPT !.started = b]
               = [installed |-> addon.installed, started |-> b, options |-> addon.options]
         /\ [addon EXCEPT !.installed = b]
               = [installed |-> b, started |-> addon.started, options |-> addon.options]
         /\ [addon EXCEPT !.installed = FALSE, !.started = FALSE, !.options = o]
               = [installed |-> FALSE, started |-> FALSE, options |-> o]
<1>1. /\ [addon EXCEPT !.options = o]
           = [installed |-> addon.installed, started |-> addon.started, options |-> o]
      /\ [addon EXCEPT !.started = b]
           = [installed |-> addon.installed, started |-> b, options |-> addon.options]
      /\ [addon EXCEPT !.installed = b]
           = [installed |-> b, started |-> addon.started, options |-> addon.options]
  BY DEF AddonShape
<1>2. [addon EXCEPT !.installed = FALSE, !.started = FALSE, !.options = o]
        = [installed |-> FALSE, started |-> FALSE, options |-> o]
  <2> DEFINE a1 == [addon EXCEPT !.installed = FALSE]
             a2 == [a1 EXCEPT !.started = FALSE]
             a3 == [a2 EXCEPT !.options = o]
  <2>1. a1 \in [installed : BOOLEAN, started : BOOLEAN, options : {addon.options}]
        /\ a1.installed = FALSE
    BY DEF AddonShape
  <2>2. a2 \in [installed : BOOLEAN, started : BOOLEAN, options : {addon.options}]
        /\ a2.installed = FALSE /\ a2.started = FALSE
    <3> HIDE DEF a1
    <3> QED  BY <2>1
  <2>3. a3 = [installed |-> FALSE, started |-> FALSE, options |-> o]
    <3> HIDE DEF a2
    <3>1. a3 = [installed |-> a2.installed, started |-> a2.started, options |-> o]
      BY <2>2
    <3>2. a2.installed = FALSE /\ a2.started = FALSE
      BY <2>2
    <3> QED
      BY <3>1, <3>2
  <2> QED
    BY <2>3
<1> QED
  BY <1>1, <1>2

LEMMA AddonSet ==
  ASSUME NEW i \in BOOLEAN, NEW s \in BOOLEAN, NEW o,
         addon' = [installed |-> i, started |-> s, options |-> o]
  PROVE  /\ AddonShape'
         /\ addon'.installed = i /\ addon'.started = s /\ addon'.options = o
  BY DEF AddonShape

\* homeassistant_addon.go at every call, through probes and waits that fail and a
\* Supervisor that changes the add-on in between.
THEOREM TfInvariant == TfSpec => []TfInv
<1>1. TfInit => TfInv
  <2> SUFFICES ASSUME TfInit PROVE TfInv
    OBVIOUS
  <2>1. TfTypeOK
    BY DEF TfInit, TfTypeOK, AddonShape, TfSteps
  <2>2. OperationFits /\ SeenIsThere
    BY DEF TfInit, OperationFits, SeenIsThere
  <2>3. OnItsWay
    BY DEF TfInit, OnItsWay
  <2>4. ApplyConverges
    BY DEF TfInit, ApplyConverges
  <2> QED
    BY <2>1, <2>2, <2>3, <2>4 DEF TfInv
<1>2. TfInv /\ [TfNext]_tfVars => TfInv'
  <2> SUFFICES ASSUME TfInv, [TfNext]_tfVars PROVE TfInv'
    OBVIOUS
  <2> USE DEF TfInv, TfTypeOK, AddonShape, TfSteps, OperationFits, SeenIsThere, OnItsWay,
              ApplyConverges, HasGoalOptions, Seen
  <2>1. CASE Apply \/ Destroy
    BY <2>1 DEF Apply, Destroy, Begin
  <2>2. CASE Refresh
    BY <2>2 DEF Refresh, Next1, Keeps
  <2>3. CASE Probe
    BY <2>3 DEF Probe, Next1, Keeps, Ends
  <2>4. CASE Install
    <3>1. CASE addon.installed
      BY <2>4, <3>1 DEF Install, Next1, Keeps, Ends
    <3>2. CASE ~addon.installed
      <4>1. addon' = [installed |-> TRUE, started |-> FALSE, options |-> Defaults]
        BY <2>4, <3>2 DEF Install
      <4>2. AddonShape' /\ addon'.installed /\ ~addon'.started
        BY <4>1, AddonSet
      <4> HIDE DEF AddonShape
      <4> QED
        BY <2>4, <3>2, <4>2 DEF Install, Next1, Keeps, Ends
    <3> QED
      BY <3>1, <3>2
  <2>5. CASE PushOptions
    <3>1. CASE Baseline = goal.options
      <4>1. TfTypeOK' /\ OperationFits' /\ SeenIsThere'
        BY <2>5, <3>1 DEF PushOptions, Next1, Keeps, Ends, Baseline
      <4>2. OnItsWay'
        BY <2>5, <3>1 DEF PushOptions, Next1, Keeps, Ends, Baseline
      <4>3. ApplyConverges'
        BY <2>5, <3>1 DEF PushOptions, Next1, Keeps, Ends, Baseline
      <4> QED
        BY <4>1, <4>2, <4>3
    <3>2. CASE Baseline # goal.options /\ ~addon.installed
      BY <2>5, <3>2 DEF PushOptions, Next1, Keeps, Ends
    <3>3. CASE Baseline # goal.options /\ addon.installed
      <4> DEFINE merged == Merged(Baseline, goal.options)
      <4>1. \A k \in DOMAIN goal.options : merged[k] = goal.options[k]
        BY DEF Merged
      <4> HIDE DEF merged
      <4>2. addon' = [installed |-> TRUE, started |-> addon.started, options |-> merged]
        BY <2>5, <3>3, AddonUpdates DEF PushOptions, merged
      <4>3. /\ tfAt = "options" /\ tfAt' \in {"start", "final"} /\ (tfAt' = "start" <=> created)
            /\ UNCHANGED <<tfError, tfTroubled, tfState, info, fresh>> /\ Keeps
        BY <2>5, <3>3 DEF PushOptions, Next1
      <4>4. addon.started \in BOOLEAN
        OBVIOUS
      <4>5. AddonShape' /\ addon'.installed /\ addon'.started = addon.started
            /\ addon'.options = merged
        BY <4>2, <4>4, AddonSet
      <4> HIDE DEF AddonShape
      <4>6. TfTypeOK' /\ OperationFits' /\ SeenIsThere'
        BY <4>3, <4>5 DEF Keeps
      <4>7. OnItsWay' /\ ApplyConverges'
        BY <3>3, <4>1, <4>3, <4>5 DEF Keeps
      <4> QED
        BY <4>6, <4>7
    <3> QED
      BY <3>1, <3>2, <3>3
  <2>6. CASE Start
    <3>1. CASE UNCHANGED addon
      BY <2>6, <3>1 DEF Start, Next1, Keeps, Ends
    <3>2. CASE addon.installed /\ addon' = [addon EXCEPT !.started = TRUE]
      <4>1. addon' = [installed |-> TRUE, started |-> TRUE, options |-> addon.options]
        BY <3>2, AddonUpdates
      <4> QED
        BY <2>6, <4>1 DEF Start, Next1, Keeps, Ends
    <3> QED
      BY <2>6, <3>1, <3>2 DEF Start
  <2>7. CASE FinalRead
    BY <2>7 DEF FinalRead, Keeps, Ends, Applied
  <2>8. CASE Nonce
    BY <2>8 DEF Nonce, Next1, Keeps
  <2>9. CASE NonceRefused
    BY <2>9 DEF NonceRefused, Next1
  <2>10. CASE Uninstall
    <3>1. addon' = [installed |-> FALSE, started |-> FALSE, options |-> Defaults]
      BY <2>10, AddonUpdates DEF Uninstall
    <3> QED
      BY <2>10, <3>1 DEF Uninstall, Keeps, Ends
  <2>11. CASE CallFails
    <3>1. AddonShape' /\ (~addon'.installed => ~addon.installed \/ removed')
      <4> DEFINE merged == Merged(Baseline, goal.options)
      <4> HIDE DEF merged
      <4>1. \/ UNCHANGED addon
            \/ addon' = [installed |-> TRUE, started |-> FALSE, options |-> Defaults]
            \/ addon.installed /\ addon' = [addon EXCEPT !.options = merged]
            \/ addon.installed /\ addon' = [addon EXCEPT !.started = TRUE]
            \/ /\ addon' = [addon EXCEPT !.installed = FALSE, !.started = FALSE,
                                        !.options = Defaults]
               /\ ~addon'.installed => removed'
        BY <2>11 DEF CallFails, merged
      <4> QED
        <5>1. CASE addon.installed /\ addon' = [addon EXCEPT !.options = merged]
          BY <5>1, AddonUpdates
        <5>2. CASE addon.installed /\ addon' = [addon EXCEPT !.started = TRUE]
          BY <5>2, AddonUpdates
        <5>3. CASE /\ addon' = [addon EXCEPT !.installed = FALSE, !.started = FALSE,
                                           !.options = Defaults]
                   /\ ~addon'.installed => removed'
          BY <5>3, AddonUpdates
        <5>4. CASE addon' = [installed |-> TRUE, started |-> FALSE, options |-> Defaults]
          BY <5>4, AddonSet
        <5> QED
          BY <4>1, <5>1, <5>2, <5>3, <5>4
    <3>2. /\ tfAt' = "idle" /\ tfError' = TRUE /\ tfTroubled' = TRUE
          /\ UNCHANGED <<tfState, goal, info, fresh, created, changed>>
          /\ removed' \in BOOLEAN /\ (removed => removed')
      BY <2>11 DEF CallFails
    <3> QED
      BY <3>1, <3>2
  <2>12. CASE UserActs
    BY <2>12 DEF UserActs, Happens, operation
  <2>13. CASE UNCHANGED tfVars
    <3>1. TfTypeOK' /\ OperationFits' /\ SeenIsThere'
      BY <2>13 DEF tfVars, operation, marks
    <3>2. OnItsWay' /\ ApplyConverges'
      BY <2>13 DEF tfVars, operation, marks
    <3> QED
      BY <3>1, <3>2
  <2> QED
    BY <2>1, <2>2, <2>3, <2>4, <2>5, <2>6, <2>7, <2>8, <2>11, <2>12, <2>13, <2>10,
       <2>9 DEF TfNext
<1> QED
  BY <1>1, <1>2, PTL DEF TfSpec

\* An apply that nobody interferes with leaves the add-on as configured, and an
\* error has a cause (homeassistant_addon.go:243-330).
THEOREM AppliesConverge == TfSpec => []ApplyConverges
<1>1. TfInv => ApplyConverges
  BY DEF TfInv
<1> QED
  BY <1>1, TfInvariant, PTL
=============================================================================
