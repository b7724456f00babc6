---------------------------- MODULE NetworkScans ----------------------------
(***************************************************************************)
(* The two scan loops of the network-tools add-on: arping_scan.py, which    *)
(* debounces the reachability of the configured hosts, and mdns_scan.py,    *)
(* which counts the host name changes of an announced service.  Each run of *)
(* a loop is a new process that reads its state file, probes, saves and     *)
(* publishes retained MQTT topics; run.sh starts the next one when it ends. *)
(* One mDNS monitor is modelled: monitors share nothing but the process.    *)
(***************************************************************************)
EXTENDS ServiceValues, Integers, FiniteSets

CONSTANTS
  Hosts,          \* arping_hosts, with distinct addresses
  WithMac,        \* the hosts with a configured mac
  Threshold,      \* disconnect_threshold
  HostNames,      \* host names the service may be announced with
  MaxStreak,      \* bound on counted failures
  MaxRenames,     \* bound on changes of the announced name
  MaxScanMishaps  \* bound on unreachable brokers, lost topics and kills

Entries == [name : HostNames, count : Nat]

ASSUME ScanAssumption ==
  /\ Threshold \in Nat \ {0} /\ MaxStreak \in Nat /\ Threshold <= MaxStreak
  /\ None \notin Entries

VARIABLES
  topics,       \* retained reachability topics: host |-> "ON", "OFF" or None
  counter,      \* retained hostname_changes topic, or None
  arpFile,      \* arping_state.json: host |-> [fails, reachable]
  mdnsFile,     \* mdns_stability_state.json: [name, count], or None
  arp,          \* step of the arping process
  states,       \* its state dictionary
  probes,       \* raw results of this scan: host |-> BOOLEAN
  mdns,         \* step of the mdns process
  entry,        \* its state entry
  poll,         \* [state, name, count] of this poll
  streak,       \* history: failed scans in a row, host |-> number
  lastName,     \* history: the name the last online poll saw
  renames,      \* history: online polls that saw another name than the one before
  scanMishaps

arpVars  == <<topics, arpFile, arp, states, probes, streak>>
mdnsVars == <<counter, mdnsFile, mdns, entry, poll, lastName, renames>>
netVars  == <<arpVars, mdnsVars, scanMishaps>>

Fallback == [fails |-> 0, reachable |-> TRUE]

\* What avahi-browse and avahi-resolve may show of the service.
Announcements ==
  {s \in [type : BOOLEAN, name : HostNames \cup {None}, resolves : BOOLEAN] :
     (s.name # None => s.type) /\ (s.resolves => s.name # None)}
NoPoll == [state |-> "none", name |-> None, count |-> 0]
Nobody == [h \in {} |-> TRUE]

NetInit ==
  /\ topics = [h \in Hosts |-> None] /\ counter = None
  /\ arpFile = [h \in Hosts |-> Fallback] /\ mdnsFile = None
  /\ arp = "sleep" /\ states = arpFile /\ probes = Nobody
  /\ mdns = "sleep" /\ entry = None /\ poll = NoPoll
  /\ streak = [h \in Hosts |-> 0] /\ lastName = None /\ renames = 0
  /\ scanMishaps = 0

NetMishap == scanMishaps < MaxScanMishaps /\ scanMishaps' = scanMishaps + 1

-----------------------------------------------------------------------------
(* arping_scan.py *)

ArpOnly == UNCHANGED mdnsVars

ArpStart ==
  /\ arp = "sleep"
  /\ states' = arpFile /\ probes' = Nobody
  /\ arp' = "scan"
  /\ UNCHANGED <<topics, arpFile, streak, scanMishaps>> /\ ArpOnly

\* Mutant of Debounced: a success leaves the count of failures.
DebouncedForever(s, answers) ==
  IF answers THEN [s EXCEPT !.reachable = TRUE]
  ELSE [fails |-> IF s.fails < MaxStreak THEN s.fails + 1 ELSE s.fails,
        reachable |-> s.reachable /\ s.fails + 1 < Threshold]

Debounced(s, answers) ==
  IF answers THEN Fallback
  ELSE [fails |-> IF s.fails < MaxStreak THEN s.fails + 1 ELSE s.fails,
        reachable |-> s.reachable /\ s.fails + 1 < Threshold]

\* One arping, answered or not (a timeout counts as no answer).
ArpProbe(h, answers) ==
  /\ arp = "scan" /\ h \notin DOMAIN probes
  /\ probes' = [x \in DOMAIN probes \cup {h} |-> IF x = h THEN answers ELSE probes[x]]
  /\ states' = [states EXCEPT ![h] = Debounced(@, answers)]
  /\ UNCHANGED <<topics, arpFile, arp, streak, scanMishaps>> /\ ArpOnly

\* save_state; the result file comes after it and nothing reads it back.
ArpSave ==
  /\ arp = "scan" /\ DOMAIN probes = Hosts
  /\ arpFile' = states
  /\ streak' = [h \in Hosts |-> IF probes[h] THEN 0
                                ELSE IF streak[h] < MaxStreak THEN streak[h] + 1
                                ELSE streak[h]]
  /\ arp' = "publish"
  /\ UNCHANGED <<topics, states, probes, scanMishaps>> /\ ArpOnly

\* A host without a configured mac is known by the one its answer carries: its
\* topics cannot be named when it is silent.
Published(h) == h \in WithMac \/ probes[h]

\* The availability topic, and for each host its discovery, state and attributes.
ArpPublish ==
  /\ arp = "publish"
  /\ topics' = [h \in Hosts |-> IF ~Published(h) THEN topics[h]
                                ELSE IF states[h].reachable THEN "ON" ELSE "OFF"]
  /\ arp' = "published"
  /\ UNCHANGED <<arpFile, states, probes, streak, scanMishaps>> /\ ArpOnly

\* The broker cannot be reached, or the connection breaks after some topics.
ArpPublishFails ==
  /\ arp = "publish"
  /\ NetMishap
  /\ \E S \in SUBSET {h \in Hosts : Published(h)} :
       topics' = [h \in Hosts |-> IF h \notin S THEN topics[h]
                                  ELSE IF states[h].reachable THEN "ON" ELSE "OFF"]
  /\ arp' = "sleep"
  /\ UNCHANGED <<arpFile, states, probes, streak>> /\ ArpOnly

ArpEnds ==
  /\ arp = "published"
  /\ arp' = "sleep"
  /\ UNCHANGED <<topics, arpFile, states, probes, streak, scanMishaps>> /\ ArpOnly

-----------------------------------------------------------------------------
(* mdns_scan.py *)

MdnsOnly == UNCHANGED arpVars

MdnsStart ==
  /\ mdns = "sleep"
  /\ entry' = mdnsFile /\ poll' = NoPoll
  /\ mdns' = "browse"
  /\ UNCHANGED <<counter, mdnsFile, lastName, renames, scanMishaps>> /\ MdnsOnly

\* run_monitor and classify: a type nobody announces counts as an error.
Classified(service) ==
  IF ~service.type THEN "error"
  ELSE IF service.name = None THEN "not_found"
  ELSE IF ~service.resolves THEN "announced_unresolved" ELSE "online"

\* Mutant of Counts: any poll is compared and becomes the baseline.
CountsAlways(state) == TRUE

\* Only an online poll has a host name to compare.
Counts(state) == state = "online"

\* run_monitor and _apply_hostname_stability.
MdnsBrowse(service) ==
  LET state == Classified(service)
      base  == IF entry = None THEN 0 ELSE entry.count
      count == IF entry # None /\ entry.name # service.name THEN base + 1 ELSE base
  IN
  /\ mdns = "browse"
  /\ IF Counts(state)
     THEN /\ entry' = [name |-> service.name, count |-> count]
          /\ poll' = [state |-> state, name |-> service.name, count |-> count]
     ELSE /\ UNCHANGED entry
          /\ poll' = [state |-> state, name |-> service.name, count |-> base]
  /\ IF state = "online"
     THEN /\ lastName' = service.name
          /\ renames' = IF lastName \in {None, service.name} THEN renames ELSE renames + 1
     ELSE UNCHANGED <<lastName, renames>>
  /\ renames' <= MaxRenames
  /\ mdns' = "publish"
  /\ UNCHANGED <<counter, mdnsFile, scanMishaps>> /\ MdnsOnly

\* A broken publish is caught; the state file is written at the end either way.
MdnsPublish ==
  /\ mdns = "publish"
  /\ \/ counter' = poll.count /\ UNCHANGED scanMishaps
     \/ NetMishap /\ UNCHANGED counter
  /\ mdns' = "save"
  /\ UNCHANGED <<mdnsFile, entry, poll, lastName, renames>> /\ MdnsOnly

MdnsSave ==
  /\ mdns = "save"
  /\ mdnsFile' = entry
  /\ mdns' = "sleep"
  /\ UNCHANGED <<counter, entry, poll, lastName, renames, scanMishaps>> /\ MdnsOnly

-----------------------------------------------------------------------------
\* The container is killed.
NetKill ==
  /\ NetMishap
  /\ arp' = "sleep" /\ mdns' = "sleep"
  /\ UNCHANGED <<topics, counter, arpFile, states, probes, mdnsFile,
                 entry, poll, streak, lastName, renames>>

\* The broker restarts without its retained topics.
BrokerForgets ==
  /\ NetMishap
  /\ topics' = [h \in Hosts |-> None] /\ counter' = None
  /\ UNCHANGED <<arpFile, arp, states, probes, mdnsFile, mdns, entry,
                 poll, streak, lastName, renames>>

ArpLoop ==
  \/ ArpStart \/ ArpSave \/ ArpPublish \/ ArpPublishFails \/ ArpEnds
  \/ \E h \in Hosts, answers \in BOOLEAN : ArpProbe(h, answers)

NetNext ==
  \/ ArpLoop
  \/ MdnsStart \/ MdnsPublish \/ MdnsSave
  \/ \E service \in Announcements : MdnsBrowse(service)
  \/ NetKill \/ BrokerForgets

NetSpec == NetInit /\ [][NetNext]_netVars

-----------------------------------------------------------------------------
(* Properties *)

\* A host is reported lost only after disconnect_threshold failures in a row,
\* counted over the short-lived scan processes, kills and broker outages; and a
\* scan that published everything leaves a topic that disagrees with the
\* debounced state only for a host without a mac that does not answer.
LossIsDebounced ==
  arp = "published" =>
    \A h \in Hosts :
      \/ topics[h] = IF streak[h] < Threshold THEN "ON" ELSE "OFF"
      \/ h \notin WithMac /\ streak[h] > 0
      \/ topics[h] = None /\ scanMishaps > 0

\* The change counter shows host name changes only: polls that find nothing, no
\* resolvable name or no daemon in between do not count, and only a kill or a
\* broken publish can make it lag behind.
RenamesCounted ==
  /\ counter # None => counter <= renames
  /\ scanMishaps = 0 /\ mdns = "save" => counter = renames
=============================================================================
