--------------------------- MODULE AddonResource ---------------------------
(***************************************************************************)
(* The resource homeassistant_addon of terraform-provider-homeassistant: an *)
(* apply refreshes and then creates or updates, a destroy refreshes and then *)
(* deletes, one Bridge call per step.  A call may fail before or after the  *)
(* Bridge has done its work, and users change the add-on at any time.       *)
(* Terraform keeps the state a Read finds unless the provider removes it.   *)
(***************************************************************************)
EXTENDS ServiceValues, Integers

CONSTANTS
  Goals,       \* configurations: [start, options]
  Defaults,    \* options of a fresh installation
  MaxTfEvents  \* bound on failing calls and on what users do

VARIABLES
  addon,       \* the add-on: [installed, started, options]
  tfState,     \* Terraform's state: [started, options], or None
  goal,        \* the configuration that is applied, None for a destroy
  tfAt,        \* the next call of the operation
  info,        \* what the probe of Create answered, None for 404
  fresh,       \* this Create has installed the add-on
  created,     \* the operation is a Create
  tfError,     \* whether the last operation ended with an error
  tfTroubled,  \* history: a call of this operation has failed
  changed,     \* history: a user has changed the add-on since it began
  removed,     \* history: a user has uninstalled what the state or a Create relies on
  tfEvents

operation == <<goal, tfAt, info, fresh, created>>
marks == <<tfError, tfTroubled, changed, removed>>
tfVars == <<addon, tfState, operation, marks, tfEvents>>

Seen == [started |-> addon.started, options |-> addon.options]
Happens == tfEvents < MaxTfEvents /\ tfEvents' = tfEvents + 1

TfInit ==
  /\ addon = [installed |-> FALSE, started |-> FALSE, options |-> Defaults]
  /\ tfState = None /\ goal = None /\ tfAt = "idle" /\ info = None
  /\ fresh = FALSE /\ created = FALSE
  /\ tfError = FALSE /\ tfTroubled = FALSE /\ changed = FALSE /\ removed = FALSE
  /\ tfEvents = 0

\* applyInfoToState: the answer of /info replaces what was planned.
Applied == Seen

\* The planned options, and the keys of the baseline they leave out.
Merged(baseline, planned) ==
  [k \in DOMAIN baseline \cup DOMAIN planned |->
     IF k \in DOMAIN planned THEN planned[k] ELSE baseline[k]]

-----------------------------------------------------------------------------
(* How a step goes on *)

Next1(step) == tfAt' = step /\ UNCHANGED <<tfError, tfTroubled>>
Ends(failed) == tfAt' = "idle" /\ tfError' = failed /\ UNCHANGED tfTroubled
Keeps == UNCHANGED <<goal, created, changed, removed, tfEvents>>

Begin(g) ==
  /\ tfAt = "idle"
  /\ goal' = g /\ info' = None /\ fresh' = FALSE
  /\ created' = (tfState = None)
  /\ tfAt' = IF tfState = None THEN "probe" ELSE "read"
  /\ tfError' = FALSE /\ tfTroubled' = FALSE /\ changed' = FALSE
  /\ removed' = (removed /\ tfState # None)
  /\ UNCHANGED <<addon, tfState, tfEvents>>

Apply == \E g \in Goals : Begin(g)
Destroy == tfState # None /\ Begin(None)

\* Read: a 404 returns without an error and without removing the state.
Refresh ==
  /\ tfAt = "read"
  /\ tfState' = IF addon.installed THEN Seen ELSE tfState
  /\ Next1(IF goal = None THEN "nonce" ELSE "options")
  /\ UNCHANGED <<addon, info, fresh>> /\ Keeps

-----------------------------------------------------------------------------
(* Create and Update *)

Probe ==
  /\ tfAt \in {"probe", "probe again"}
  /\ info' = IF addon.installed THEN Seen ELSE None
  /\ IF addon.installed THEN Next1("options")
     ELSE IF tfAt = "probe" THEN Next1("install") ELSE Ends(TRUE)
  /\ UNCHANGED <<addon, tfState, fresh>> /\ Keeps

\* Mutant of Install: 409 is an error like any other.
InstallGivesUp ==
  /\ tfAt = "install"
  /\ IF addon.installed THEN Ends(TRUE) /\ UNCHANGED <<addon, fresh>>
     ELSE /\ addon' = [installed |-> TRUE, started |-> FALSE, options |-> Defaults]
          /\ fresh' = TRUE
          /\ Next1("start")
  /\ UNCHANGED <<tfState, info>> /\ Keeps

\* 409 already_installed: somebody was faster, the add-on is adopted.
Install ==
  /\ tfAt = "install"
  /\ IF addon.installed THEN Next1("probe again") /\ UNCHANGED <<addon, fresh>>
     ELSE /\ addon' = [installed |-> TRUE, started |-> FALSE, options |-> Defaults]
          /\ fresh' = TRUE
          /\ Next1("start")
  /\ UNCHANGED <<tfState, info>> /\ Keeps

\* What the planned options are compared with: the probe of a Create, or the state.
Baseline == IF created THEN info.options ELSE tfState.options

\* applyOptionsIfChanged.
PushOptions ==
  /\ tfAt = "options"
  /\ LET then == IF created THEN "start" ELSE "final"
     IN IF Baseline = goal.options THEN Next1(then) /\ UNCHANGED addon
        ELSE IF ~addon.installed THEN Ends(TRUE) /\ UNCHANGED addon
        ELSE /\ addon' = [addon EXCEPT !.options = Merged(Baseline, goal.options)]
             /\ Next1(then)
  /\ UNCHANGED <<tfState, info, fresh>> /\ Keeps

\* Update never starts or stops the add-on.
Start ==
  /\ tfAt = "start"
  /\ IF ~goal.start \/ (info # None /\ info.started) THEN Next1("final") /\ UNCHANGED addon
     ELSE IF ~addon.installed THEN Ends(TRUE) /\ UNCHANGED addon
     ELSE addon' = [addon EXCEPT !.started = TRUE] /\ Next1("final")
  /\ UNCHANGED <<tfState, info, fresh>> /\ Keeps

\* The state is set here only: an error before leaves it as it was.
FinalRead ==
  /\ tfAt = "final"
  /\ IF addon.installed THEN tfState' = Applied /\ Ends(FALSE)
     ELSE Ends(TRUE) /\ UNCHANGED tfState
  /\ UNCHANGED <<addon, info, fresh>> /\ Keeps

-----------------------------------------------------------------------------
(* Delete *)

Nonce ==
  /\ tfAt \in {"nonce", "nonce again"}
  /\ Next1(IF tfAt = "nonce" THEN "uninstall" ELSE "uninstall again")
  /\ UNCHANGED <<addon, tfState, info, fresh>> /\ Keeps

\* 204, and 404 is as good.
Uninstall ==
  /\ tfAt \in {"uninstall", "uninstall again"}
  /\ addon' = [addon EXCEPT !.installed = FALSE, !.started = FALSE, !.options = Defaults]
  /\ tfState' = None
  /\ Ends(FALSE)
  /\ UNCHANGED <<info, fresh>> /\ Keeps

\* nonce_expired or nonce_used: one retry with a fresh nonce.
NonceRefused ==
  /\ tfAt = "uninstall" /\ Happens
  /\ Next1("nonce again")
  /\ UNCHANGED <<addon, tfState, info, fresh, goal, created, changed, removed>>

\* Any other answer or none at all; the Bridge may have done its work.
CallFails ==
  /\ tfAt # "idle" /\ Happens
  /\ tfAt' = "idle" /\ tfError' = TRUE /\ tfTroubled' = TRUE
  /\ \/ UNCHANGED addon
     \/ /\ tfAt = "install" /\ ~addon.installed
        /\ addon' = [installed |-> TRUE, started |-> FALSE, options |-> Defaults]
     \/ /\ tfAt = "options" /\ addon.installed
        /\ addon' = [addon EXCEPT !.options = Merged(Baseline, goal.options)]
     \/ tfAt = "start" /\ addon.installed /\ addon' = [addon EXCEPT !.started = TRUE]
     \/ /\ tfAt \in {"uninstall", "uninstall again"}
        /\ addon' = [addon EXCEPT !.installed = FALSE, !.started = FALSE, !.options = Defaults]
  /\ removed' = (removed \/ (tfAt \in {"uninstall", "uninstall again"} /\ ~addon'.installed))
  /\ UNCHANGED <<tfState, goal, info, fresh, created, changed>>

-----------------------------------------------------------------------------
\* Users of Home Assistant.
UserActs ==
  /\ Happens
  /\ \/ ~addon.installed /\ addon' = [addon EXCEPT !.installed = TRUE]
     \/ /\ addon.installed
        /\ \/ addon' = [addon EXCEPT !.started = ~@]
           \/ \E g \in Goals : addon' = [addon EXCEPT !.options = g.options]
           \/ addon' = [addon EXCEPT !.installed = FALSE, !.started = FALSE, !.options = Defaults]
  /\ changed' = TRUE
  /\ removed' = (removed \/ (addon.installed /\ ~addon'.installed
                             /\ (tfState # None \/ tfAt # "idle")))
  /\ UNCHANGED <<tfState, operation, tfError, tfTroubled>>

TfNext ==
  \/ Apply \/ Destroy \/ Refresh \/ Probe \/ Install \/ PushOptions \/ Start \/ FinalRead
  \/ Nonce \/ Uninstall \/ NonceRefused \/ CallFails \/ UserActs

TfSpec == TfInit /\ [][TfNext]_tfVars

-----------------------------------------------------------------------------
(* Properties *)

\* What an interrupted Create left behind is adopted: an operation ends with an error
\* only if one of its own calls failed, or something it relies on was uninstalled
\* behind Terraform's back.  And one that nobody interfered with leaves the add-on as
\* configured, but for the options of a fresh installation (homeassistant_addon.go:243-260).
ApplyConverges ==
  tfAt = "idle" =>
    /\ tfError => tfTroubled \/ removed
    /\ ~tfError /\ ~changed /\ goal # None =>
         /\ addon.installed /\ tfState = Seen
         /\ created /\ goal.start => addon.started
         /\ ~fresh => \A k \in DOMAIN goal.options : addon.options[k] = goal.options[k]
=============================================================================
