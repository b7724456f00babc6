------------------------------ MODULE CupsBoot ------------------------------
(***************************************************************************)
(* The start of the cups add-on: generate_config.py turns the options into   *)
(* configuration files and scripts, run.sh executes them in a fixed order    *)
(* around two starts of cupsd.  A restarted container keeps its files, /tmp  *)
(* included; a new one starts from the image.                                *)
(*                                                                         *)
(* Values are classes: a name, an address or a URI is what the validation    *)
(* and the properties tell apart.                                            *)
(***************************************************************************)
EXTENDS ServiceValues, Integers, Sequences

CONSTANTS
  CupsOptions,     \* contents of /data/options.json
  Networks,        \* what the host's network looks like at a start
  SystemAccounts,  \* the names with a uid below 1000
  RegisterTries,   \* runs of /tmp/register-printers.sh
  MaxBootEvents    \* bound on restarts and changes

VARIABLES
  bootOptions, network,
  stock, cupsdConf, \* cupsd.conf.stock and cupsd.conf
  registerSh,      \* /tmp/register-printers.sh: place in the options |-> its entry
  fixupSh,         \* /tmp/fixup-printer-uuids.sh: names, or None
  adminSh,         \* /tmp/provision-admin.sh: an account, or None
  bootAccounts,    \* account |-> its password
  printers,        \* printers.conf: name |-> [uri, uuid]
  cupsdUp,
  bootStep,        \* the next step of run.sh
  runs,            \* runs of the registration script in this start
  registered,      \* history: the entries lpadmin took in this start
  bootSeen,        \* history: the network this start found
  bootEvents

files == <<stock, cupsdConf, registerSh, fixupSh, adminSh, bootAccounts, printers>>
inputs == <<bootOptions, network>>
cupsBootVars == <<inputs, files, cupsdUp, bootStep, runs, registered, bootSeen, bootEvents>>

Last(S) == CHOOSE i \in S : \A j \in S : i >= j

\* The stock file binds loopback and admits nobody else.
StockConf == [listen |-> "localhost", aliases |-> {}, root |-> {}, admin |-> {}]
ImageAccounts == [a \in SystemAccounts |-> "locked"]

-----------------------------------------------------------------------------
(* generate_config.py *)

\* compute_subnet_cidr; None where the kernel's values form no network.
Subnet(address) == <<"lan", address>>
Tailnet == <<"tailscale">>
AllowedFrom(net) == {Subnet(net.address)} \cup (IF net.tailscale THEN {Tailnet} ELSE {})

\* The interface of the default route has a valid name, an address and a subnet.
Detected(net) == net.iface = "valid" /\ net.address # None

ValidAliases(tokens) == {t \in tokens : t # "invalid"}

\* Mutant of Template: the file that an earlier start has patched.
TemplateIsLive == cupsdConf

\* Every start patches the pristine copy; without one, the live file becomes it.
Template == IF stock = None THEN cupsdConf ELSE stock

\* build_cupsd_conf: where it gives no text the live file stays as it is.
CupsdConf(net, tokens) ==
  IF ~Detected(net) \/ Template.listen # "localhost" THEN cupsdConf
  ELSE [listen  |-> net.address, aliases |-> ValidAliases(tokens),
        root |-> AllowedFrom(net), admin |-> AllowedFrom(net)]

\* An entry of printers[] that build_printer_registration writes a call for.
Accepted(entry) ==
  /\ entry.kind = "object" /\ entry.enabled
  /\ entry.name # "invalid" /\ entry.scheme = "allowed"
  /\ \/ entry.driver = "generic"
     \/ entry.driver = "brlaser" /\ entry.model = "valid"

AcceptedAt(opts) == {i \in DOMAIN opts.printers : Accepted(opts.printers[i])}

\* build_cups_pdf_registration_snippet: the virtual queue comes last.
PdfQueue(opts) ==
  [kind |-> "object", enabled |-> TRUE, name |-> opts.pdfQueue, scheme |-> "allowed",
   driver |-> "cups-pdf", model |-> "valid", uri |-> "cups-pdf:/"]

\* The calls of the script, each at the place of its entry.
Registration(opts) ==
  LET last == Len(opts.printers) + 1
      virtual == IF opts.pdfQueue \in {None, "invalid"} THEN {} ELSE {last}
  IN [i \in AcceptedAt(opts) \cup virtual |->
        IF i = last THEN PdfQueue(opts) ELSE opts.printers[i]]

NamesOf(calls) == {calls[i].name : i \in DOMAIN calls}

\* Mutant of FixupNames: the virtual queue is not added to registered_names.
FixupNamesOfPrinters(opts) == {opts.printers[i].name : i \in AcceptedAt(opts)}

\* registered_names, the printers whose UUID the fix-up script sets.
FixupNames(opts) == NamesOf(Registration(opts))

\* The printers of the options are a list, a host has a tailnet or not, and None is
\* neither a file nor a list of names.
ASSUME BootAssumption ==
  /\ None # StockConf
  /\ \A net \in Networks : net.tailscale \in BOOLEAN
  /\ \A opts \in CupsOptions :
       /\ Len(opts.printers) \in Nat
       /\ DOMAIN opts.printers = 1 .. Len(opts.printers)
       /\ FixupNames(opts) # None

\* build_admin_provisioning: both set, a valid name, a password fit for chpasswd.
AdminAccount(opts) ==
  IF opts.admin.user \in {"", "invalid"} \/ opts.admin.password \in {"", "invalid"}
  THEN None ELSE opts.admin

\* main: an invalid avahi_hostname ends the start, and nothing is written; a
\* script that is not wanted is not written, one of an earlier start stays.
Generate ==
  /\ bootStep = "generate"
  /\ IF ~bootOptions.hostnameValid
     THEN bootStep' = "off" /\ UNCHANGED <<files, bootSeen>>
     ELSE /\ stock' = Template
          /\ cupsdConf' = CupsdConf(network, bootOptions.aliases)
          /\ registerSh' = Registration(bootOptions)
          /\ fixupSh' = IF FixupNames(bootOptions) = {} THEN fixupSh ELSE FixupNames(bootOptions)
          /\ adminSh' = IF AdminAccount(bootOptions) = None
                        THEN adminSh ELSE AdminAccount(bootOptions)
          /\ bootSeen' = network
          /\ bootStep' = "provision"
          /\ UNCHANGED <<bootAccounts, printers>>
  /\ UNCHANGED <<inputs, cupsdUp, runs, registered, bootEvents>>

-----------------------------------------------------------------------------
(* run.sh *)

\* A system account is left alone; adduser or chpasswd may fail.
ProvisionAdmin ==
  /\ bootStep = "provision"
  /\ \/ /\ adminSh # None /\ adminSh.user \notin SystemAccounts
        /\ bootAccounts' = [a \in DOMAIN bootAccounts \cup {adminSh.user} |->
                          IF a = adminSh.user THEN adminSh.password ELSE bootAccounts[a]]
     \/ UNCHANGED bootAccounts
  /\ bootStep' = "start"
  /\ UNCHANGED <<inputs, stock, cupsdConf, registerSh, fixupSh, adminSh, printers, cupsdUp,
                 runs, registered, bootSeen, bootEvents>>

StartCupsd ==
  /\ bootStep \in {"start", "start_again"}
  /\ cupsdUp' = TRUE
  /\ bootStep' = IF bootStep = "start" THEN "register" ELSE "serving"
  /\ UNCHANGED <<inputs, files, runs, registered, bootSeen, bootEvents>>

\* One run of the script: every entry is tried, whatever became of the others.
\* A PPD that lpinfo does not list exactly once skips its entry without failing.
RunRegistration ==
  /\ bootStep = "register"
  /\ \E result \in [DOMAIN registerSh -> {"registered", "failed", "no_single_PPD"}] :
       LET ok == {i \in DOMAIN registerSh : result[i] = "registered"}
           named(n) == Last({i \in ok : registerSh[i].name = n})
           taken == {registerSh[i].name : i \in ok}
       IN /\ \A i \in DOMAIN registerSh :
               result[i] = "no_single_PPD" => registerSh[i].driver # "generic"
          /\ printers' = [n \in DOMAIN printers \cup taken |->
               IF n \notin taken THEN printers[n]
               ELSE [uri  |-> registerSh[named(n)].uri,
                     uuid |-> IF n \in DOMAIN printers THEN printers[n].uuid ELSE "random"]]
          /\ registered' = registered \cup {registerSh[named(n)] : n \in taken}
          /\ runs' = runs + 1
          /\ bootStep' = IF (\E i \in DOMAIN registerSh : result[i] = "failed")
                            /\ runs' < RegisterTries THEN "register" ELSE "registered"
  /\ UNCHANGED <<inputs, stock, cupsdConf, registerSh, fixupSh, adminSh, bootAccounts, cupsdUp,
                 bootSeen, bootEvents>>

\* printers.conf is edited between two starts of cupsd only.
StopForFixup ==
  /\ bootStep = "registered"
  /\ IF fixupSh = None THEN bootStep' = "serving" /\ UNCHANGED cupsdUp
     ELSE bootStep' = "fixup" /\ cupsdUp' = FALSE
  /\ UNCHANGED <<inputs, files, runs, registered, bootSeen, bootEvents>>

\* Each stanza of a name in the script gets the UUID derived from that name.
FixupUuids ==
  /\ bootStep = "fixup"
  /\ printers' = [n \in DOMAIN printers |->
                    IF n \in fixupSh THEN [uri |-> printers[n].uri, uuid |-> "derived"]
                    ELSE printers[n]]
  /\ bootStep' = "start_again"
  /\ UNCHANGED <<inputs, stock, cupsdConf, registerSh, fixupSh, adminSh, bootAccounts, cupsdUp,
                 runs, registered, bootSeen, bootEvents>>

Boot == ProvisionAdmin \/ StartCupsd \/ RunRegistration \/ StopForFixup \/ FixupUuids

-----------------------------------------------------------------------------
(* The container *)

BootEvent == bootEvents < MaxBootEvents /\ bootEvents' = bootEvents + 1

Down == cupsdUp' = FALSE /\ runs' = 0 /\ registered' = {} /\ bootSeen' = None

\* The container stops at any moment, and starts again as it was ...
Stop ==
  /\ bootStep # "off" /\ BootEvent
  /\ bootStep' = "off" /\ Down
  /\ UNCHANGED <<inputs, files>>

StartContainer ==
  /\ bootStep = "off"
  /\ bootStep' = "generate"
  /\ UNCHANGED <<inputs, files, cupsdUp, runs, registered, bootSeen, bootEvents>>

\* ... or from the image.
Recreate ==
  /\ bootStep = "off" /\ BootEvent
  /\ stock' = StockConf /\ cupsdConf' = StockConf
  /\ registerSh' = <<>> /\ fixupSh' = None /\ adminSh' = None
  /\ bootAccounts' = ImageAccounts /\ printers' = [n \in {} |-> None]
  /\ UNCHANGED <<inputs, cupsdUp, bootStep, runs, registered, bootSeen>>

\* The user saves options, or the host gets another address; both are read at
\* the next start.
Reconfigure ==
  /\ BootEvent
  /\ bootOptions' \in CupsOptions /\ network' \in Networks
  /\ <<bootOptions, network>>' # <<bootOptions, network>>
  /\ UNCHANGED <<files, cupsdUp, bootStep, runs, registered, bootSeen>>

\* An image built before the Dockerfile kept a copy has no stock file.
CupsBootInit ==
  /\ bootOptions \in CupsOptions /\ network \in Networks
  /\ stock \in {None, StockConf} /\ cupsdConf = StockConf
  /\ registerSh = <<>> /\ fixupSh = None /\ adminSh = None
  /\ bootAccounts = ImageAccounts /\ printers = [n \in {} |-> None]
  /\ cupsdUp = FALSE /\ bootStep = "off" /\ runs = 0 /\ registered = {}
  /\ bootSeen = None /\ bootEvents = 0

CupsBootNext ==
  Generate \/ Boot \/ Stop \/ StartContainer \/ Recreate \/ Reconfigure

CupsBootSpec == CupsBootInit /\ [][CupsBootNext]_cupsBootVars

-----------------------------------------------------------------------------
(* Properties *)

\* However often the container was restarted and the host renumbered, cupsd runs
\* with the address this start detected and admits that network's clients, and
\* no others, to the queues and to /admin (generate_config.py:100-107).
ScopeFollowsDetection ==
  cupsdUp /\ Detected(bootSeen) =>
    /\ cupsdConf.listen = bootSeen.address
    /\ cupsdConf.root = cupsdConf.admin
    /\ cupsdConf.root \ {Tailnet} = {Subnet(bootSeen.address)}
    /\ Tailnet \in cupsdConf.root <=> bootSeen.tailscale

\* Once the start is over, every queue lpadmin took in it is served under the
\* identity derived from its name, on the device its entry names.
QueuesKeepIdentity ==
  bootStep = "serving" =>
    \A e \in registered :
      /\ e.name \in DOMAIN printers
      /\ printers[e.name].uuid = "derived"
      /\ \E f \in registered : f.name = e.name /\ f.uri = printers[e.name].uri
=============================================================================
