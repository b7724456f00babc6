------------------------------ MODULE Services ------------------------------
(***************************************************************************)
(* The single-container services of the repository, one after the other.    *)
(* They share nothing: each is a container of its own.  `component` names   *)
(* the service that moves in a behaviour; the others stay in one of their   *)
(* initial states.                                                          *)
(***************************************************************************)
EXTENDS CupsWorkers, CupsBoot, NetworkScans, MarkdownRenderer, SopsProvider,
        BitwardenProvider, NtfyAdmin, TokenStore, AddonResource, ReleaseTool, LibrarySync

VARIABLE component

Services == {"cups", "ntfy", "bitwarden", "sops", "network", "renderer", "boot", "release",
             "library", "token", "terraform"}

ServicesInit ==
  /\ component \in Services
  /\ CupsInit /\ NtfyInit /\ BwInit /\ SopsInit /\ NetInit /\ MdInit /\ CupsBootInit
  /\ ReleaseInit /\ LibraryInit /\ TokenInit /\ TfInit

\* The state of a service that does not move stays as it is.
OthersRest ==
  /\ IF component = "cups" THEN TRUE ELSE UNCHANGED cupsVars
  /\ IF component = "ntfy" THEN TRUE ELSE UNCHANGED adminVars
  /\ IF component = "bitwarden" THEN TRUE ELSE UNCHANGED bwVars
  /\ IF component = "sops" THEN TRUE ELSE UNCHANGED gitVars
  /\ IF component = "network" THEN TRUE ELSE UNCHANGED netVars
  /\ IF component = "renderer" THEN TRUE ELSE UNCHANGED mdVars
  /\ IF component = "boot" THEN TRUE ELSE UNCHANGED cupsBootVars
  /\ IF component = "release" THEN TRUE ELSE UNCHANGED releaseVars
  /\ IF component = "library" THEN TRUE ELSE UNCHANGED libraryVars
  /\ IF component = "token" THEN TRUE ELSE UNCHANGED tokenVars
  /\ IF component = "terraform" THEN TRUE ELSE UNCHANGED tfVars

Moves(name) == component = name /\ UNCHANGED component

ServicesNext ==
  \/ Moves("cups") /\ CupsNext /\ OthersRest
  \/ Moves("ntfy") /\ NtfyNext /\ OthersRest
  \/ Moves("bitwarden") /\ BwNext /\ OthersRest
  \/ Moves("sops") /\ SopsNext /\ OthersRest
  \/ Moves("network") /\ NetNext /\ OthersRest
  \/ Moves("renderer") /\ MdNext /\ OthersRest
  \/ Moves("boot") /\ CupsBootNext /\ OthersRest
  \/ Moves("release") /\ ReleaseNext /\ OthersRest
  \/ Moves("library") /\ LibraryNext /\ OthersRest
  \/ Moves("token") /\ TokenNext /\ OthersRest
  \/ Moves("terraform") /\ TfNext /\ OthersRest

servicesVars ==
  <<component, cupsVars, adminVars, bwVars, gitVars, netVars,
    mdVars, cupsBootVars, releaseVars, libraryVars, tokenVars, tfVars>>

ServicesSpec == ServicesInit /\ [][ServicesNext]_servicesVars

-----------------------------------------------------------------------------
(* Properties: each names what its services promise *)

\* What a GUI request takes away can be brought back: the rules a promotion put aside
\* (src/ntfy/app/accounts.py:182-214), and from a backup what a request destroys
\* (src/ntfy/app/maintenance.py:87-107).
CanBeBroughtBack == []RulesComeBack /\ BackupBeforeLoss

\* Files of the user outlive every rerun: the documents of the upload worker
\* (src/cups/upload-worker.py:31-35), and what a synchronised directory held before
\* (src/markdown-renderer/_git_sync.py:141-194).
FilesKept == NothingLost /\ LocalContentKept

\* The deliveries and the history records of the two cups workers are counted:
\* nothing is given up early and nothing is repeated without a mishap
\* (src/cups/upload-worker.py:329-380, src/cups/print-history-poller.py:130-145).
CupsCountsAreRight == AttemptsCounted /\ HistoryCatchesUp

\* A snapshot that a provider returns is one the source really had
\* (src/secrets-sync/app/providers/bitwarden.py:186-227, gitsource.py:186-209).
ProvidersDeliver ==
  SnapshotIsCurrent /\ FetchHeals /\ SnapshotOfOneCommit

\* What the scanners tell Home Assistant across restarts follows what they saw
\* (src/network-tools/arping_scan.py, mdns_scan.py).
NetworkHistory == LossIsDebounced /\ RenamesCounted

\* What a start serves follows from the options of that start, whatever was killed
\* before: the pages of the renderer (src/markdown-renderer/generate_nginx.py:1058-1144)
\* and the listener, scope and queues of cups (src/cups/generate_config.py:1505-1575).
StartsServeTheirOptions ==
  SiteIsWhole /\ ScopeFollowsDetection /\ QueuesKeepIdentity

\* The repository's tools leave it consistent: a release tag names a commit that holds
\* its version (src/internal/update-version.py:220-306), and the admin-ui library
\* reaches its consumers whole (src/internal/sync-admin-ui.py:159-231).
ReleaseHolds ==
  TagsNameTheirVersion /\ ConsumersKept /\ PassedIsIdentical
=============================================================================
