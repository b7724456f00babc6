--------------------------- MODULE ServicesProofs ---------------------------
(***************************************************************************)
(* The network scanners, the release tool, the admin-ui library and the    *)
(* renderer for all values of their constants; and the properties of Services,*)
(* each from the theorem of its component, which Services moves one at a time.*)
(***************************************************************************)
EXTENDS Services, CupsProofs, TerraformProofs, ProviderProofs, TLAPS

(* The network scanners                                                    *)

HostStates == [fails : Nat, reachable : BOOLEAN]

\* The state a host is in after n failures in a row.
After(n, s) == s.fails = n /\ (s.reachable <=> n < Threshold)

ArpTypeOK ==
  /\ arp \in {"sleep", "scan", "publish", "published"}
  /\ arpFile \in [Hosts -> HostStates]
  /\ states \in [Hosts -> HostStates]
  /\ DOMAIN probes \subseteq Hosts /\ probes \in [DOMAIN probes -> BOOLEAN]
  /\ streak \in [Hosts -> 0..MaxStreak]
  /\ topics = [h \in Hosts |-> topics[h]]
  /\ scanMishaps \in Nat

\* The state file counts what was seen, and a scan works on it.
ScanFits ==
  /\ \A h \in Hosts : After(streak[h], arpFile[h])
  /\ arp = "scan" =>
       \A h \in Hosts : states[h] = IF h \in DOMAIN probes THEN Debounced(arpFile[h], probes[h])
                                    ELSE arpFile[h]
  /\ arp \in {"publish", "published"} =>
       /\ states = arpFile /\ DOMAIN probes = Hosts
       /\ \A h \in Hosts : probes[h] <=> streak[h] = 0

ArpInv == ArpTypeOK /\ ScanFits /\ LossIsDebounced

LEMMA DebouncedFits ==
  ASSUME NEW s \in HostStates, NEW n \in 0..MaxStreak, NEW answers \in BOOLEAN, After(n, s)
  PROVE  /\ Debounced(s, answers) \in HostStates
         /\ After(IF answers THEN 0 ELSE IF n < MaxStreak THEN n + 1 ELSE n,
                  Debounced(s, answers))
<1>1. CASE answers
  BY <1>1, ScanAssumption DEF Debounced, Fallback, After, HostStates
<1>2. CASE ~answers
  <2> DEFINE m == IF n < MaxStreak THEN n + 1 ELSE n
             d == Debounced(s, answers)
  <2>1. d = [fails |-> m, reachable |-> s.reachable /\ n + 1 < Threshold]
    BY <1>2 DEF Debounced, After
  <2>2. (s.reachable /\ n + 1 < Threshold) <=> m < Threshold
    BY ScanAssumption DEF After
  <2>3. m \in Nat
    BY ScanAssumption
  <2>4. d.fails = m /\ (d.reachable <=> m < Threshold) /\ d \in HostStates
    <3> HIDE DEF m, d
    <3> QED
      BY <2>1, <2>2, <2>3 DEF HostStates
  <2> QED
    BY <1>2, <2>4 DEF After
<1> QED
  BY <1>1, <1>2

LEMMA ArpInitially == NetInit => ArpInv
<1> SUFFICES ASSUME NetInit PROVE ArpInv
  OBVIOUS
<1>1. Fallback \in HostStates /\ After(0, Fallback)
  BY ScanAssumption DEF Fallback, HostStates, After
<1>2. ArpTypeOK
  <2> HIDE DEF Fallback
  <2> QED
  BY <1>1, ScanAssumption DEF NetInit, ArpTypeOK, Nobody
<1>3. ScanFits
  BY <1>1 DEF NetInit, ScanFits
<1> QED
  BY <1>2, <1>3 DEF ArpInv, NetInit, LossIsDebounced

LEMMA ArpStep == ArpInv /\ [NetNext]_netVars => ArpInv'
<1> SUFFICES ASSUME ArpInv, [NetNext]_netVars PROVE ArpInv'
  OBVIOUS
<1>1. ArpTypeOK /\ ScanFits /\ LossIsDebounced
  BY DEF ArpInv
<1>2. CASE ArpStart
  <2>1. ArpTypeOK'
    BY <1>1, <1>2 DEF ArpStart, ArpTypeOK, Nobody
  <2>2. ScanFits' /\ LossIsDebounced'
    BY <1>1, <1>2 DEF ArpStart, ScanFits, LossIsDebounced, Nobody
  <2> QED
    BY <2>1, <2>2 DEF ArpInv
<1>3. ASSUME NEW h \in Hosts, NEW answers \in BOOLEAN, ArpProbe(h, answers) PROVE ArpInv'
  <2>1. states[h] = arpFile[h] /\ arpFile[h] \in HostStates /\ h \notin DOMAIN probes
    BY <1>1, <1>3 DEF ArpProbe, ArpTypeOK, ScanFits
  <2>2. Debounced(arpFile[h], answers) \in HostStates
    BY <1>1, <2>1, DebouncedFits DEF ScanFits, ArpTypeOK
  <2>3. states' = [states EXCEPT ![h] = Debounced(arpFile[h], answers)]
    BY <1>3, <2>1 DEF ArpProbe
  <2>4. ArpTypeOK'
    BY <1>1, <1>3, <2>2, <2>3 DEF ArpProbe, ArpTypeOK
  <2>5. ScanFits'
    BY <1>1, <1>3, <2>1, <2>3 DEF ArpProbe, ArpTypeOK, ScanFits
  <2> QED
    BY <1>3, <2>4, <2>5 DEF ArpInv, ArpProbe, LossIsDebounced
<1>4. CASE ArpSave
  <2>1. \A h \in Hosts : /\ arpFile'[h] = Debounced(arpFile[h], probes[h])
                         /\ streak'[h] = IF probes[h] THEN 0
                                         ELSE IF streak[h] < MaxStreak THEN streak[h] + 1
                                         ELSE streak[h]
                         /\ probes[h] \in BOOLEAN /\ streak[h] \in 0..MaxStreak
    BY <1>1, <1>4 DEF ArpSave, ArpTypeOK, ScanFits
  <2>2. \A h \in Hosts : After(streak'[h], arpFile'[h]) /\ streak'[h] \in 0..MaxStreak
                         /\ (probes[h] <=> streak'[h] = 0)
    <3> SUFFICES ASSUME NEW h \in Hosts
                 PROVE  After(streak'[h], arpFile'[h]) /\ streak'[h] \in 0..MaxStreak
                        /\ (probes[h] <=> streak'[h] = 0)
      OBVIOUS
    <3>1. After(streak[h], arpFile[h]) /\ arpFile[h] \in HostStates
      BY <1>1 DEF ScanFits, ArpTypeOK
    <3>2. After(streak'[h], arpFile'[h])
      BY <2>1, <3>1, DebouncedFits
    <3> QED
      BY <2>1, <3>2, ScanAssumption
  <2>3. ArpTypeOK'
    BY <1>1, <1>4, <2>2 DEF ArpSave, ArpTypeOK
  <2>4. ScanFits' /\ LossIsDebounced'
    BY <1>4, <2>2 DEF ArpSave, ScanFits, LossIsDebounced
  <2> QED
    BY <2>3, <2>4 DEF ArpInv
<1>5. CASE ArpPublish
  <2>1. ArpTypeOK' /\ ScanFits'
    BY <1>1, <1>5 DEF ArpPublish, ArpTypeOK, ScanFits
  <2>2. LossIsDebounced'
    <3> SUFFICES ASSUME NEW h \in Hosts
                 PROVE  \/ topics'[h] = IF streak[h] < Threshold THEN "ON" ELSE "OFF"
                        \/ h \notin WithMac /\ streak[h] > 0
      BY <1>5 DEF ArpPublish, LossIsDebounced
    <3>1. states[h].reachable <=> streak[h] < Threshold
      BY <1>1, <1>5 DEF ArpPublish, ScanFits, After
    <3>2. probes[h] <=> streak[h] = 0
      BY <1>1, <1>5 DEF ArpPublish, ScanFits
    <3>3. streak[h] \in 0..MaxStreak
      BY <1>1 DEF ArpTypeOK
    <3> QED
      BY <1>5, <3>1, <3>2, <3>3, ScanAssumption DEF ArpPublish, Published
  <2> QED
    BY <2>1, <2>2 DEF ArpInv
<1>6. CASE ArpPublishFails \/ ArpEnds \/ NetKill
  <2>1. ArpTypeOK'
    BY <1>1, <1>6 DEF ArpPublishFails, ArpEnds, NetKill, NetMishap, ArpTypeOK
  <2>2. ScanFits' /\ LossIsDebounced'
    BY <1>1, <1>6 DEF ArpPublishFails, ArpEnds, NetKill, ScanFits, LossIsDebounced
  <2> QED
    BY <2>1, <2>2 DEF ArpInv
<1>7. CASE BrokerForgets
  <2>1. ArpTypeOK' /\ ScanFits' /\ scanMishaps' > 0
    BY <1>1, <1>7 DEF BrokerForgets, NetMishap, ArpTypeOK, ScanFits
  <2> QED
    BY <1>7, <2>1 DEF ArpInv, LossIsDebounced, BrokerForgets
<1>8. CASE \/ MdnsStart \/ MdnsPublish \/ MdnsSave \/ UNCHANGED netVars
           \/ \E service \in Announcements : MdnsBrowse(service)
  <2>1. UNCHANGED arpVars /\ scanMishaps' \in Nat /\ scanMishaps' >= scanMishaps
    BY <1>1, <1>8 DEF MdnsStart, MdnsPublish, MdnsSave, MdnsBrowse, MdnsOnly, NetMishap, netVars,
                      ArpTypeOK
  <2> QED
    BY <1>1, <2>1 DEF arpVars, ArpInv, ArpTypeOK, ScanFits, LossIsDebounced
<1> QED
  BY <1>2, <1>3, <1>4, <1>5, <1>6, <1>7, <1>8 DEF NetNext, ArpLoop

-----------------------------------------------------------------------------
(* mdns_scan.py *)

MdnsTypeOK ==
  /\ mdns \in {"sleep", "browse", "publish", "save"}
  /\ mdnsFile \in Entries \cup {None} /\ entry \in Entries \cup {None}
  /\ poll.count \in Nat
  /\ counter \in Nat \cup {None}
  /\ lastName \in HostNames \cup {None} /\ renames \in Nat
  /\ scanMishaps \in Nat

\* An entry never runs ahead of what was seen, and one with an old name is behind.
Behind(e) ==
  e # None => /\ lastName # None /\ e.count <= renames
              /\ e.name # lastName => e.count + 1 <= renames

\* An entry that missed nothing.
Exact(e) ==
  IF e = None THEN renames = 0 /\ lastName = None
  ELSE e.count = renames /\ e.name = lastName

PollFits ==
  /\ Behind(mdnsFile) /\ Behind(entry) /\ poll.count <= renames
  /\ scanMishaps = 0 =>
       /\ mdns = "sleep" => Exact(mdnsFile)
       /\ mdns # "sleep" => Exact(entry)
       /\ mdns \in {"publish", "save"} => poll.count = renames

MdnsInv == MdnsTypeOK /\ PollFits /\ RenamesCounted

LEMMA MdnsInitially == NetInit => MdnsInv
<1> SUFFICES ASSUME NetInit PROVE MdnsInv
  OBVIOUS
<1>1. MdnsTypeOK
  BY DEF NetInit, MdnsTypeOK, NoPoll
<1>2. PollFits /\ RenamesCounted
  BY DEF NetInit, PollFits, Behind, Exact, NoPoll, RenamesCounted
<1> QED
  BY <1>1, <1>2 DEF MdnsInv

\* An online poll moves its entry, the last name and the number of renames together.
LEMMA OnlinePoll ==
  ASSUME NEW e \in Entries \cup {None}, NEW last \in HostNames \cup {None}, NEW n \in Nat,
         NEW name \in HostNames, name # None,
         e # None => last # None /\ e.count <= n /\ (e.name # last => e.count + 1 <= n),
         NEW count, NEW m,
         count = IF e # None /\ e.name # name THEN (IF e = None THEN 0 ELSE e.count) + 1
                 ELSE IF e = None THEN 0 ELSE e.count,
         m = IF last \in {None, name} THEN n ELSE n + 1
  PROVE  /\ m \in Nat /\ m >= n /\ count \in Nat /\ count <= m
         /\ e # None /\ e.name # name => e.count + 1 <= m
         /\ (IF e = None THEN n = 0 /\ last = None ELSE e.count = n /\ e.name = last)
              => count = m
<1>1. CASE e = None
  BY <1>1
<1>2. CASE e # None
  <2>1. e.count \in Nat
    BY <1>2 DEF Entries
  <2>2. count = IF e.name # name THEN e.count + 1 ELSE e.count
    BY <1>2
  <2>3. m = IF last = name THEN n ELSE n + 1
    BY <1>2
  <2> QED
    BY <1>2, <2>1, <2>2, <2>3
<1> QED
  BY <1>1, <1>2

LEMMA MdnsStep == MdnsInv /\ [NetNext]_netVars => MdnsInv'
<1> SUFFICES ASSUME MdnsInv, [NetNext]_netVars PROVE MdnsInv'
  OBVIOUS
<1>1. MdnsTypeOK /\ PollFits /\ RenamesCounted
  BY DEF MdnsInv
<1>2. CASE MdnsStart
  <2>1. MdnsTypeOK'
    BY <1>1, <1>2 DEF MdnsStart, MdnsTypeOK, NoPoll
  <2>2. PollFits'
    BY <1>1, <1>2 DEF MdnsStart, MdnsTypeOK, PollFits, Behind, Exact, NoPoll
  <2>3. RenamesCounted'
    BY <1>1, <1>2 DEF MdnsStart, RenamesCounted
  <2> QED
    BY <2>1, <2>2, <2>3 DEF MdnsInv
<1>3. ASSUME NEW service \in Announcements, MdnsBrowse(service) PROVE MdnsInv'
  <2> DEFINE base  == IF entry = None THEN 0 ELSE entry.count
             count == IF entry # None /\ entry.name # service.name THEN base + 1 ELSE base
             state == Classified(service)
  <2>1. /\ mdns = "browse" /\ mdns' = "publish"
        /\ counter' = counter /\ mdnsFile' = mdnsFile /\ scanMishaps' = scanMishaps
    BY <1>3 DEF MdnsBrowse
  <2>2. RenamesCounted'
    <3>1. renames' \in Nat /\ renames' >= renames
      BY <1>1, <1>3 DEF MdnsBrowse, MdnsTypeOK
    <3> QED
      BY <1>1, <2>1, <3>1 DEF RenamesCounted, MdnsTypeOK
  <2>3. CASE state = "online"
    <3>1. service.name \in HostNames /\ service.name # None
      BY <2>3 DEF Classified, Announcements
    <3>2. /\ entry' = [name |-> service.name, count |-> count]
          /\ poll' = [state |-> state, name |-> service.name, count |-> count]
          /\ lastName' = service.name
          /\ renames' = IF lastName \in {None, service.name} THEN renames ELSE renames + 1
      BY <1>3, <2>3 DEF MdnsBrowse, Counts
    <3>3. Behind(entry) /\ Behind(mdnsFile) /\ MdnsTypeOK
      BY <1>1 DEF PollFits
    <3>4. /\ renames' \in Nat /\ renames' >= renames /\ count \in Nat /\ count <= renames'
          /\ Exact(entry) => count = renames'
      BY <3>1, <3>2, <3>3, OnlinePoll DEF Behind, MdnsTypeOK, Exact
    <3>5. mdnsFile # None => /\ mdnsFile.count \in Nat /\ mdnsFile.count <= renames
                             /\ mdnsFile.name # service.name => mdnsFile.count + 1 <= renames'
      BY <3>1, <3>2, <3>3, OnlinePoll DEF Behind, MdnsTypeOK, Entries
    <3>6. /\ entry' \in Entries /\ entry' # None /\ entry'.name = service.name
          /\ entry'.count = count /\ poll'.count = count
      <4> HIDE DEF count, state
      <4> QED
        BY <3>1, <3>2, <3>4, ScanAssumption DEF Entries
    <3> HIDE DEF count, state
    <3>7. MdnsTypeOK'
      BY <2>1, <3>1, <3>2, <3>3, <3>4, <3>6 DEF MdnsTypeOK
    <3>8. Behind(mdnsFile)' /\ Behind(entry)' /\ poll'.count <= renames'
      BY <2>1, <3>1, <3>2, <3>3, <3>4, <3>5, <3>6 DEF Behind, MdnsTypeOK
    <3>9. scanMishaps' = 0 => Exact(entry)' /\ poll'.count = renames'
      <4>1. scanMishaps = 0 => Exact(entry)
        BY <1>1, <2>1 DEF PollFits
      <4> QED
        BY <2>1, <3>2, <3>4, <3>6, <4>1 DEF Exact
    <3> QED
      BY <2>1, <2>2, <3>7, <3>8, <3>9 DEF MdnsInv, PollFits
  <2>4. CASE state # "online"
    <3>1. /\ entry' = entry /\ lastName' = lastName /\ renames' = renames
          /\ poll' = [state |-> state, name |-> service.name, count |-> base]
      BY <1>3, <2>4 DEF MdnsBrowse, Counts
    <3>2. poll'.count = base
      BY <3>1
    <3>3. base \in Nat /\ base <= renames /\ (Exact(entry) => base = renames)
      BY <1>1 DEF PollFits, Behind, Exact, MdnsTypeOK, Entries
    <3>4. scanMishaps = 0 => Exact(entry)
      BY <1>1, <2>1 DEF PollFits
    <3> HIDE DEF base, state
    <3>5. MdnsTypeOK'
      BY <1>1, <2>1, <3>1, <3>2, <3>3 DEF MdnsTypeOK
    <3>6. PollFits'
      BY <1>1, <2>1, <3>1, <3>2, <3>3, <3>4 DEF PollFits, Behind, Exact
    <3> QED
      BY <2>2, <3>5, <3>6 DEF MdnsInv
  <2> QED
    BY <2>3, <2>4
<1>4. CASE MdnsPublish
  <2>1. scanMishaps' \in Nat /\ (scanMishaps' = 0 => scanMishaps = 0 /\ counter' = poll.count)
    BY <1>1, <1>4 DEF MdnsPublish, NetMishap, MdnsTypeOK
  <2>2. MdnsTypeOK'
    BY <1>1, <1>4, <2>1 DEF MdnsPublish, MdnsTypeOK
  <2>3. PollFits'
    BY <1>1, <1>4, <2>1 DEF MdnsPublish, PollFits, Behind, Exact
  <2>4. RenamesCounted'
    BY <1>1, <1>4, <2>1 DEF MdnsPublish, PollFits, RenamesCounted
  <2> QED
    BY <2>2, <2>3, <2>4 DEF MdnsInv
<1>5. CASE MdnsSave
  BY <1>1, <1>5 DEF MdnsSave, MdnsInv, MdnsTypeOK, PollFits, Behind, Exact, RenamesCounted
<1>6. CASE NetKill \/ BrokerForgets
  <2>1. scanMishaps' \in Nat /\ scanMishaps' > 0
    BY <1>1, <1>6 DEF NetKill, BrokerForgets, NetMishap, MdnsTypeOK
  <2>2. MdnsTypeOK'
    BY <1>1, <1>6, <2>1 DEF NetKill, BrokerForgets, MdnsTypeOK
  <2>3. PollFits' /\ RenamesCounted'
    BY <1>1, <1>6, <2>1 DEF NetKill, BrokerForgets, PollFits, Behind, RenamesCounted
  <2> QED
    BY <2>2, <2>3 DEF MdnsInv
<1>7. CASE ArpLoop \/ UNCHANGED netVars
  <2>1. UNCHANGED mdnsVars /\ (scanMishaps' = scanMishaps \/ NetMishap)
    <3>1. CASE ArpStart \/ ArpSave \/ ArpPublish \/ ArpEnds
      BY <3>1 DEF ArpStart, ArpSave, ArpPublish, ArpEnds, ArpOnly
    <3>2. CASE ArpPublishFails
      BY <3>2 DEF ArpPublishFails, ArpOnly
    <3>3. ASSUME NEW h \in Hosts, NEW answers \in BOOLEAN, ArpProbe(h, answers)
          PROVE  UNCHANGED mdnsVars /\ scanMishaps' = scanMishaps
      BY <3>3 DEF ArpProbe, ArpOnly
    <3> QED
      BY <1>7, <3>1, <3>2, <3>3 DEF ArpLoop, netVars
  <2>2. scanMishaps' \in Nat /\ scanMishaps' >= scanMishaps
    BY <1>1, <2>1 DEF NetMishap, MdnsTypeOK
  <2> QED
    BY <1>1, <2>1, <2>2 DEF mdnsVars, MdnsInv, MdnsTypeOK, PollFits, Behind, Exact, RenamesCounted
<1> QED
  BY <1>2, <1>3, <1>4, <1>5, <1>6, <1>7 DEF NetNext

\* The state files and what is published, at every step of both scanners.
THEOREM ScansInvariant == NetSpec => [](ArpInv /\ MdnsInv)
<1>1. NetInit => ArpInv /\ MdnsInv
  BY ArpInitially, MdnsInitially
<1>2. (ArpInv /\ MdnsInv) /\ [NetNext]_netVars => (ArpInv /\ MdnsInv)'
  BY ArpStep, MdnsStep
<1> QED
  BY <1>1, <1>2, PTL DEF NetSpec

\* A complete scan of arping_scan.py leaves a host with a mac ON exactly until the
\* threshold of failures in a row; mdns_scan.py never counts more renames than there
\* were, and all of them unless a kill or a broken publish came in between.
THEOREM ScansKeepHistory == NetSpec => [](LossIsDebounced /\ RenamesCounted)
<1>1. ArpInv /\ MdnsInv => LossIsDebounced /\ RenamesCounted
  BY DEF ArpInv, MdnsInv
<1> QED
  BY <1>1, ScansInvariant, PTL

-----------------------------------------------------------------------------
(* The release tool                                                        *)

RepoTrees ==
  [config : Versions \cup {None}, build : Versions, image : Nat, readme : Versions,
   provider : Versions \cup {None}]

\* What a commit that is tagged as v holds.
Holds(t, v) ==
  /\ t.config = v /\ t.build = BaseVersion(v) /\ t.readme = BaseVersion(v)
  /\ t.provider \in {None, BaseVersion(v)}

TagsFit(tags) ==
  /\ tags \in [DOMAIN tags -> 1..Len(commits)]
  /\ \A v \in DOMAIN tags : Holds(commits[tags[v]], v)

ReleaseInv ==
  /\ bridge \in BOOLEAN /\ tree \in RepoTrees
  /\ commits \in Seq(RepoTrees) /\ commits # <<>>
  /\ TagsFit(localTags) /\ TagsFit(originTags)
  /\ ~bridge => tree.provider = None
  /\ ~bridge => \A i \in 1..Len(commits) : commits[i].provider = None

LEMMA SuffixSet ==
  ASSUME NEW v \in Versions, NEW k \in {"plain", "sub", "pre"}
  PROVE  LET w == [v EXCEPT !.kind = k, !.n = 0] IN
         w \in Versions /\ w.base = v.base /\ w.kind = k /\ w.n = 0
<1> DEFINE w1 == [v EXCEPT !.kind = k]
           w2 == [w1 EXCEPT !.n = 0]
<1>1. w1 \in Versions /\ w1.base = v.base /\ w1.kind = k
  BY DEF Versions
<1>2. w2 \in Versions /\ w2.base = v.base /\ w2.kind = k /\ w2.n = 0
  <2> HIDE DEF w1
  <2> QED
    BY <1>1 DEF Versions
<1>3. [v EXCEPT !.kind = k, !.n = 0] = w2
  OBVIOUS
<1> HIDE DEF w2
<1> QED
  BY <1>2, <1>3

LEMMA SameVersion ==
  ASSUME NEW v \in Versions, NEW w \in Versions, v.base = w.base, v.kind = w.kind, v.n = w.n
  PROVE  v = w
BY DEF Versions

LEMMA VersionForms ==
  ASSUME NEW v \in Versions
  PROVE  /\ ConfigVersion(v) \in Versions /\ BaseVersion(v) \in Versions
         /\ (v.kind = "plain" => v.n = 0) => BaseVersion(ConfigVersion(v)) = BaseVersion(v)
<1> DEFINE sub == [v EXCEPT !.kind = "sub", !.n = 0]
           plain == [v EXCEPT !.kind = "plain", !.n = 0]
           both == [sub EXCEPT !.kind = "plain", !.n = 0]
<1>1. /\ sub \in Versions /\ sub.base = v.base /\ sub.kind = "sub"
      /\ plain \in Versions /\ plain.base = v.base /\ plain.kind = "plain" /\ plain.n = 0
  BY SuffixSet
<1>2. both \in Versions /\ both.base = v.base /\ both.kind = "plain" /\ both.n = 0
  <2> HIDE DEF sub
  <2> QED
    BY <1>1, SuffixSet
<1>3. CASE v.kind = "plain"
  <2>1. ConfigVersion(v) = sub /\ BaseVersion(v) = v /\ BaseVersion(sub) = both
    <3>1. ConfigVersion(v) = sub /\ BaseVersion(v) = v
      BY <1>3 DEF ConfigVersion, BaseVersion
    <3> HIDE DEF sub
    <3> QED
      BY <1>1, <3>1 DEF BaseVersion
  <2> HIDE DEF sub, both
  <2>2. v.n = 0 => v = both
    BY <1>2, <1>3, SameVersion
  <2> QED
    BY <1>1, <1>3, <2>1, <2>2
<1>4. CASE v.kind # "plain"
  <2>1. ConfigVersion(v) = v /\ BaseVersion(v) \in {v, plain}
    BY <1>4 DEF ConfigVersion, BaseVersion
  <2> HIDE DEF plain
  <2> QED
    BY <1>1, <2>1
<1> QED
  BY <1>3, <1>4

LEMMA RewrittenFields ==
  ASSUME NEW t \in RepoTrees, NEW v \in Versions
  PROVE  LET w == Rewritten(t, v) IN
         /\ w \in RepoTrees
         /\ w.config = IF t.config = None THEN None ELSE ConfigVersion(v)
         /\ w.build = BaseVersion(v) /\ w.readme = BaseVersion(v) /\ w.provider = t.provider
<1> DEFINE c == IF t.config = None THEN None ELSE ConfigVersion(v)
           b == BaseVersion(v)
<1>1. c \in Versions \cup {None} /\ b \in Versions
  BY VersionForms
<1>2. Rewritten(t, v) = [t EXCEPT !.config = c, !.build = b, !.readme = b]
  BY DEF Rewritten, RepoTrees
<1> HIDE DEF c, b
<1> DEFINE t1 == [t EXCEPT !.config = c]
           t2 == [t1 EXCEPT !.build = b]
           t3 == [t2 EXCEPT !.readme = b]
<1>3. t1 \in RepoTrees /\ t1.config = c /\ t1.provider = t.provider
  BY <1>1 DEF RepoTrees
<1>4. t2 \in RepoTrees /\ t2.config = c /\ t2.provider = t.provider /\ t2.build = b
  <2> HIDE DEF t1
  <2> QED
    BY <1>1, <1>3 DEF RepoTrees
<1>5. /\ t3 \in RepoTrees /\ t3.config = c /\ t3.provider = t.provider /\ t3.build = b
      /\ t3.readme = b
  <2> HIDE DEF t2
  <2> QED
    BY <1>1, <1>4 DEF RepoTrees
<1>6. Rewritten(t, v) = t3
  BY <1>2
<1> HIDE DEF t3
<1> QED
  BY <1>5, <1>6 DEF c, b

LEMMA ReleaseInitially == ReleaseInit => ReleaseInv
<1> SUFFICES ASSUME ReleaseInit PROVE ReleaseInv
  OBVIOUS
<1>1. First \in Versions /\ ConfigVersion(First) \in Versions
  BY VersionForms DEF First, Versions
<1>2. tree \in RepoTrees /\ (~bridge => tree.provider = None) /\ bridge \in BOOLEAN
  <2> HIDE DEF First
  <2> QED
    BY <1>1 DEF ReleaseInit, RepoTrees
<1>3. commits \in Seq(RepoTrees) /\ Len(commits) = 1 /\ commits[1] = tree
  BY <1>2 DEF ReleaseInit
<1>4. TagsFit(localTags) /\ TagsFit(originTags)
  BY <1>3 DEF ReleaseInit, TagsFit
<1> QED
  BY <1>2, <1>3, <1>4 DEF ReleaseInv

LEMMA TaggedFits ==
  ASSUME NEW tags, TagsFit(tags), NEW v, NEW i \in 1..Len(commits), Holds(commits[i], v)
  PROVE  TagsFit(Tagged(tags, v, i))
BY DEF TagsFit, Tagged

LEMMA ReleaseStep == ReleaseInv /\ [ReleaseNext]_releaseVars => ReleaseInv'
<1> SUFFICES ASSUME ReleaseInv, [ReleaseNext]_releaseVars PROVE ReleaseInv'
  OBVIOUS
<1>0. /\ tree \in RepoTrees /\ commits \in Seq(RepoTrees) /\ commits # <<>>
      /\ TagsFit(localTags) /\ TagsFit(originTags) /\ Len(commits) \in 1..Len(commits)
  BY DEF ReleaseInv
<1>1. ASSUME NEW v \in Requests, NEW tag \in BOOLEAN, NEW push \in BOOLEAN,
             NEW pushed \in BOOLEAN, UpdateVersion(v, tag, push, pushed)
      PROVE  ReleaseInv'
  <2> DEFINE written == Rewritten(tree, v)
             new == ConfigVersion(v)
             bumped == WithProvider(written, v)
  <2>1. /\ v \in Versions /\ new \in Versions /\ BaseVersion(v) \in Versions
        /\ BaseVersion(new) = BaseVersion(v)
    BY RequestAssumption, VersionForms
  <2>2. /\ written \in RepoTrees
        /\ written.config = IF tree.config = None THEN None ELSE new
        /\ written.build = BaseVersion(v) /\ written.readme = BaseVersion(v)
        /\ written.provider = tree.provider
    BY <1>0, <2>1, RewrittenFields
  <2>3. /\ bumped \in RepoTrees /\ bumped.config = written.config /\ bumped.build = written.build
        /\ bumped.readme = written.readme
        /\ bumped.provider = IF bridge /\ tree.provider # None THEN BaseVersion(v)
                             ELSE tree.provider
    <3> HIDE DEF written
    <3>1. CASE bridge /\ written.provider # None
      <4>1. bumped = [written EXCEPT !.provider = BaseVersion(v)]
        BY <3>1 DEF WithProvider
      <4> QED
        BY <2>1, <2>2, <3>1, <4>1 DEF RepoTrees
    <3>2. CASE ~(bridge /\ written.provider # None)
      BY <2>2, <3>2 DEF WithProvider
    <3> QED
      BY <3>1, <3>2
  <2>4. bridge' = bridge /\ commits' = commits /\ tree' \in {written, bumped}
    BY <1>1 DEF UpdateVersion
  <2>5. tree' \in RepoTrees /\ (~bridge => tree'.provider = None)
    <3> HIDE DEF written, bumped
    <3> QED
      BY <2>2, <2>3, <2>4 DEF ReleaseInv
  <2>6. TagsFit(localTags) /\ TagsFit(originTags)
        => TagsFit(localTags') /\ TagsFit(originTags')
    <3>1. CASE tree.config = None \/ ProviderBumpFails(v) \/ ~tag \/ UncommittedChanges(tree')
      BY <1>1, <3>1 DEF UpdateVersion, NoTag
    <3>2. CASE /\ ~(tree.config = None \/ ProviderBumpFails(v)) /\ tag
               /\ ~UncommittedChanges(tree')
      <4>1. tree' = bumped /\ tree' = commits[HEAD] /\ CreateTag(new, push, pushed)
        BY <1>1, <3>2 DEF UpdateVersion, UncommittedChanges
      <4>2. Holds(commits[Len(commits)], new)
        <5> HIDE DEF written, bumped, new
        <5>1. ~bridge => tree.provider = None
          BY DEF ReleaseInv
        <5>2. bumped.provider \in {None, BaseVersion(v)}
          BY <2>3, <5>1
        <5> QED
          BY <2>1, <2>2, <2>3, <3>2, <4>1, <5>2 DEF Holds, HEAD
      <4> DEFINE local == IF new \in DOMAIN localTags \cup DOMAIN originTags THEN localTags
                          ELSE Tagged(localTags, new, HEAD)
      <4>3. TagsFit(local)
        BY <1>0, <4>2, TaggedFits DEF HEAD
      <4>4. /\ localTags' = local
            /\ \/ originTags' = originTags
               \/ new \in DOMAIN local /\ originTags' = Tagged(originTags, new, local[new])
        <5> HIDE DEF new
        <5> QED
          BY <4>1 DEF CreateTag, Tagged
      <4>5. new \in DOMAIN local =>
              local[new] \in 1..Len(commits) /\ Holds(commits[local[new]], new)
        <5> HIDE DEF local, new
        <5> QED
          BY <4>3 DEF TagsFit
      <4> HIDE DEF local, new
      <4> QED
        BY <1>0, <4>3, <4>4, <4>5, TaggedFits
    <3> QED
      BY <3>1, <3>2
  <2>7. TagsFit(localTags)' /\ TagsFit(originTags)'
    BY <1>0, <2>4, <2>6 DEF TagsFit
  <2> HIDE DEF written, bumped, new
  <2> QED
    BY <2>4, <2>5, <2>7 DEF ReleaseInv
<1>2. ASSUME NEW image \in 1..MaxImage, UpdateBaseImage(image) PROVE ReleaseInv'
  <2> DEFINE next == IncrementSubpatch(tree.config)
  <2>1. tree.config \in Versions
    BY <1>0, <1>2 DEF UpdateBaseImage, RepoTrees
  <2>2. next \in Versions
    <3>1. CASE tree.config.kind = "sub"
      <4> DEFINE c == tree.config
      <4>1. next = [c EXCEPT !.n = c.n + 1] /\ c.n + 1 \in Nat
        BY <2>1, <3>1 DEF IncrementSubpatch, Versions
      <4> HIDE DEF c
      <4> QED
        BY <2>1, <4>1 DEF c, Versions
    <3>2. CASE tree.config.kind # "sub"
      BY <2>1, <3>2 DEF IncrementSubpatch
    <3> QED
      BY <3>1, <3>2
  <2>3. BaseVersion(next) \in Versions
    BY <2>2, VersionForms
  <2>4. tree' \in RepoTrees /\ tree'.provider = tree.provider
    <3>1. tree' = [tree EXCEPT !.image = image, !.config = next, !.readme = BaseVersion(next)]
      BY <1>2 DEF UpdateBaseImage
    <3>2. image \in Nat
      BY RequestAssumption
    <3> HIDE DEF next
    <3> DEFINE t1 == [tree EXCEPT !.image = image]
               t2 == [t1 EXCEPT !.config = next]
    <3>3. t1 \in RepoTrees /\ t1.provider = tree.provider
      BY <1>0, <3>2 DEF RepoTrees
    <3>4. t2 \in RepoTrees /\ t2.provider = tree.provider
      <4> HIDE DEF t1
      <4> QED
        BY <2>2, <3>3 DEF RepoTrees
    <3>5. tree' = [t2 EXCEPT !.readme = BaseVersion(next)]
      BY <3>1
    <3> HIDE DEF t2
    <3> QED
      BY <2>3, <3>4, <3>5 DEF RepoTrees
  <2>5. UNCHANGED <<bridge, commits, localTags, originTags>>
    BY <1>2 DEF UpdateBaseImage
  <2> QED
    BY <2>4, <2>5 DEF ReleaseInv, TagsFit
<1>3. CASE CommitFiles
  <2>1. commits' = Append(commits, tree) /\ UNCHANGED <<bridge, tree, localTags, originTags>>
    BY <1>3 DEF CommitFiles
  <2>2. TagsFit(localTags)' /\ TagsFit(originTags)'
    BY <1>0, <2>1 DEF TagsFit
  <2>3. commits' \in Seq(RepoTrees) /\ commits' # <<>>
    BY <1>0, <2>1
  <2>4. ~bridge => \A i \in 1..Len(commits') : commits'[i].provider = None
    BY <1>0, <2>1 DEF ReleaseInv
  <2> QED
    BY <2>1, <2>2, <2>3, <2>4 DEF ReleaseInv
<1>4. CASE Discard
  <2>1. tree' = commits[Len(commits)] /\ UNCHANGED <<bridge, commits, localTags, originTags>>
    BY <1>4 DEF Discard, HEAD
  <2> QED
    BY <1>0, <2>1 DEF ReleaseInv, TagsFit
<1>5. CASE FreshClone
  <2>1. /\ UNCHANGED <<bridge, tree, commits, originTags>>
        /\ localTags' = [v \in {} |-> 0]
    BY <1>5 DEF FreshClone
  <2>2. TagsFit(localTags)'
    BY <2>1 DEF TagsFit
  <2>3. TagsFit(originTags)'
    BY <1>0, <2>1 DEF TagsFit
  <2> QED
    BY <2>1, <2>2, <2>3 DEF ReleaseInv
<1>6. CASE UNCHANGED releaseVars
  BY <1>6 DEF releaseVars, ReleaseInv, TagsFit
<1> QED
  BY <1>1, <1>2, <1>3, <1>4, <1>5, <1>6 DEF ReleaseNext

\* update-version.py at every step, with pushes that fail and runs that are stopped.
THEOREM ReleaseInvariant == ReleaseSpec => []ReleaseInv
BY ReleaseInitially, ReleaseStep, PTL DEF ReleaseSpec

\* The commit a tag names holds the version of the tag (update-version.py:220-306).
THEOREM TagsTell == ReleaseSpec => []TagsNameTheirVersion
<1>1. ReleaseInv => TagsNameTheirVersion
  BY DEF ReleaseInv, TagsFit, Holds, TagsNameTheirVersion
<1> QED
  BY <1>1, ReleaseInvariant, PTL

-----------------------------------------------------------------------------
(* The admin-ui library                                                    *)

PlanStates == [version : Int, lib : Trees, skeleton : Trees]

LibTypeOK ==
  /\ library \in Trees /\ skeleton \in Trees
  /\ copies \in [Copies -> CopyStates \cup {None}]
  /\ tool \in {"idle", "copy", "remove", "rename", "lock", "check"}
  /\ plan \in PlanStates /\ libTodo \subseteq Copies
  /\ installed \subseteq AddonNames /\ interrupts \in Nat /\ libEvents \in Nat

Replacing == tool \in {"copy", "remove", "rename", "lock"}

\* The place of the copy is empty only between the removal and the rename.
Renaming(pair) == tool = "rename" /\ IsNext(pair)

\* How much of an add-on that was installed is left.
StillThere ==
  /\ interrupts = 0 =>
       \A a \in installed, part \in Parts : copies[<<a, part>>] # None \/ Renaming(<<a, part>>)
  /\ interrupts = 1 =>
       \A a \in installed : \E part \in Parts :
         copies[<<a, part>>] # None \/ Renaming(<<a, part>>)

\* What a run over all consumers has not yet copied is still to be copied.
Covered ==
  Replacing /\ scope = "all" =>
    \A pair \in Copies :
      \/ pair \in libTodo \/ copies[pair] = Copy(plan, pair[2])
      \/ /\ \A part \in Parts : <<pair[1], part>> \notin libTodo
         /\ pair[1] \notin Discovered

RunFits ==
  /\ tool # "idle" => verdict \notin {"passed", "synced"}
  /\ tool = "lock" => libTodo = {}

LibInv == LibTypeOK /\ StillThere /\ Covered /\ RunFits /\ PassedIsIdentical

LEMMA NextIsOne ==
  ASSUME NEW p \in Copies, NEW q \in Copies, IsNext(p), IsNext(q)
  PROVE  p = q
<1> DEFINE At(a) == CHOOSE i \in DOMAIN Addons : Addons[i] = a
<1>1. \A a \in AddonNames : At(a) \in DOMAIN Addons /\ Addons[At(a)] = a
  BY DEF AddonNames
<1>2. \A a \in AddonNames : At(a) \in Int
  BY <1>1, LibraryAssumption
<1>3. p[1] \in AddonNames /\ q[1] \in AddonNames /\ p[2] \in Parts /\ q[2] \in Parts
      /\ p = <<p[1], p[2]>> /\ q = <<q[1], q[2]>>
  BY DEF Copies
<1>4. Turn(p) = 2 * At(p[1]) + (IF p[2] = "lib" THEN 0 ELSE 1)
      /\ Turn(q) = 2 * At(q[1]) + (IF q[2] = "lib" THEN 0 ELSE 1)
  BY DEF Turn
<1> HIDE DEF At
<1>5. Turn(p) <= Turn(q) /\ Turn(q) <= Turn(p)
  BY DEF IsNext
<1>6. At(p[1]) \in Int /\ At(q[1]) \in Int
  BY <1>2, <1>3
<1>7. At(p[1]) = At(q[1]) /\ (p[2] = "lib" <=> q[2] = "lib")
  BY <1>4, <1>5, <1>6
<1>8. p[1] = q[1] /\ p[2] = q[2]
  BY <1>1, <1>3, <1>7 DEF Parts
<1> QED
  BY <1>3, <1>8

LEMMA PlansHoldTrees ==
  ASSUME NEW s \in PlanStates, NEW part \in Parts
  PROVE  s[part] \in Trees /\ Copy(s, part) \in CopyStates /\ Copy(s, part) # None
         /\ Copy(s, part).stamp # None
<1>1. s[part] \in Trees
  BY DEF PlanStates, Parts
<1>2. Stamp(s, part) \in Stamps
  BY <1>1 DEF Stamp, Stamps, PlanStates
<1>3. Copy(s, part) \in CopyStates /\ Copy(s, part).stamp = Stamp(s, part)
  <2> DEFINE stamp == Stamp(s, part)
             subtree == s[part]
  <2>1. Copy(s, part) = [content |-> subtree, stamp |-> stamp]
    BY DEF Copy
  <2> HIDE DEF stamp, subtree
  <2>2. stamp \in Stamps /\ subtree \in Trees
    BY <1>1, <1>2 DEF stamp, subtree
  <2>3. Copy(s, part) \in CopyStates /\ Copy(s, part).stamp = stamp
    BY <2>1, <2>2 DEF CopyStates
  <2> QED
    BY <2>3 DEF stamp
<1> QED
  BY <1>1, <1>2, <1>3, LibraryAssumption

LEMMA SourceIsAPlan ==
  ASSUME library \in Trees, skeleton \in Trees
  PROVE  State \in PlanStates
BY DEF State, PlanStates, Trees

LEMMA Consumers ==
  ASSUME LibTypeOK
  PROVE  /\ \A a \in AddonNames, part \in Parts : copies[<<a, part>>] # None => a \in Discovered
         /\ \A a \in Discovered : a \in AddonNames /\ \E part \in Parts : copies[<<a, part>>] # None
<1>1. \A a \in AddonNames, part \in Parts :
        copies[<<a, part>>] # None => copies[<<a, part>>].stamp # None
  BY LibraryAssumption DEF LibTypeOK, Copies, CopyStates
<1> QED
  BY <1>1 DEF Discovered

LEMMA LibInitially == LibraryInit => LibInv
<1> SUFFICES ASSUME LibraryInit PROVE LibInv
  OBVIOUS
<1>1. library \in Trees /\ skeleton \in Trees
  BY DEF LibraryInit, Trees
<1>2. plan \in PlanStates
  BY <1>1, SourceIsAPlan DEF LibraryInit
<1>3. LibTypeOK
  BY <1>1, <1>2 DEF LibraryInit, LibTypeOK
<1>4. StillThere /\ Covered /\ RunFits /\ PassedIsIdentical
  BY LibraryAssumption
     DEF LibraryInit, StillThere, Covered, Replacing, RunFits, PassedIsIdentical
<1> QED
  BY <1>3, <1>4 DEF LibInv

\* A run starts from the idle tool.
LEMMA SyncStarts ==
  ASSUME LibInv, tool = "idle", NEW addons \in SUBSET AddonNames, NEW how,
         how = "all" => Discovered \subseteq addons,
         StartSync(addons, how), library' \in Trees, skeleton' \in Trees,
         UNCHANGED <<copies, installed, interrupts>>, libEvents' \in Nat
  PROVE  LibInv'
<1>1. LibTypeOK /\ StillThere
  BY DEF LibInv
<1>2. State' \in PlanStates
  <2>1. library' \in Trees /\ skeleton' \in Trees
    OBVIOUS
  <2> QED
    BY <2>1 DEF State, PlanStates, Trees
<1>3. plan' = State' /\ libTodo' = addons \X Parts /\ tool' = "copy" /\ scope' = how
      /\ verdict' = None
  BY DEF StartSync
<1>4. LibTypeOK'
  BY <1>1, <1>2, <1>3 DEF LibTypeOK, Copies
<1>5. StillThere'
  BY <1>1, <1>3 DEF StillThere, Renaming
<1>6. Covered'
  BY <1>3 DEF Covered, Copies, Discovered
<1> QED
  BY <1>3, <1>4, <1>5, <1>6, LibraryAssumption DEF LibInv, RunFits, PassedIsIdentical

LEMMA LibStep == LibInv /\ [LibraryNext]_libraryVars => LibInv'
<1> SUFFICES ASSUME LibInv, [LibraryNext]_libraryVars PROVE LibInv'
  OBVIOUS
<1>0. LibTypeOK /\ StillThere /\ Covered /\ RunFits /\ PassedIsIdentical
  BY DEF LibInv
<1>1. CASE Sync
  <2>1. PICK addons \in SUBSET AddonNames :
          StartSync(addons, "some") \/ StartSync(addons \cup Discovered, "all")
    BY <1>1 DEF Sync
  <2>2. /\ tool = "idle" /\ library' \in Trees /\ skeleton' \in Trees
        /\ UNCHANGED <<copies, installed, interrupts>> /\ libEvents' \in Nat
    BY <1>0, <1>1 DEF Sync, source, LibTypeOK, LibEvent
  <2>3. addons \cup Discovered \in SUBSET AddonNames
    BY DEF Discovered
  <2> QED
    BY <2>1, <2>2, <2>3, SyncStarts
<1>2. ASSUME NEW version \in 1..MaxVersion, Release(version) PROVE LibInv'
  <2>1. /\ tool = "idle" /\ StartSync(Discovered, "release")
        /\ UNCHANGED <<copies, installed, interrupts>>
        /\ library' = [library EXCEPT !.version = version] /\ skeleton' = skeleton
        /\ libEvents' = libEvents + 1
    BY <1>2 DEF Release, LibEvent
  <2>2. library' \in Trees /\ skeleton' \in Trees /\ libEvents' \in Nat
    BY <1>0, <2>1 DEF LibTypeOK, Trees
  <2>3. Discovered \in SUBSET AddonNames
    BY DEF Discovered
  <2> QED
    BY <2>1, <2>2, <2>3, SyncStarts
<1>3. CASE CopyNext
  <2>1. /\ tool = "copy" /\ UNCHANGED <<source, copies, scope, plan, installed, interrupts>>
        /\ UNCHANGED <<lock, libEvents>>
    BY <1>3 DEF CopyNext
  <2>2. CASE libTodo = {} /\ tool' = "lock" /\ UNCHANGED <<libTodo, verdict>>
    <3>1. LibTypeOK' /\ RunFits'
      BY <1>0, <2>1, <2>2 DEF LibTypeOK, RunFits, source
    <3>2. StillThere' /\ Covered' /\ PassedIsIdentical'
      BY <1>0, <2>1, <2>2 DEF StillThere, Renaming, Covered, Replacing, Discovered, RunFits,
                              PassedIsIdentical
    <3> QED
      BY <3>1, <3>2 DEF LibInv
  <2>3. ASSUME NEW pair \in libTodo, IsNext(pair),
               IF UpToDate(pair) THEN libTodo' = libTodo \ {pair} /\ UNCHANGED <<tool, verdict>>
               ELSE BuildNew(pair) /\ UNCHANGED libTodo
        PROVE  LibInv'
    <3>1. \/ UpToDate(pair) /\ libTodo' = libTodo \ {pair} /\ UNCHANGED <<tool, verdict>>
          \/ libTodo' = libTodo /\ tool' = "remove" /\ verdict' = verdict
          \/ libTodo' = libTodo /\ tool' = "idle" /\ verdict' = "error"
      BY <2>3 DEF BuildNew
    <3>2. LibTypeOK' /\ RunFits'
      BY <1>0, <2>1, <3>1 DEF LibTypeOK, RunFits, source
    <3>3. StillThere'
      BY <1>0, <2>1, <3>1 DEF StillThere, Renaming
    <3>4. Covered'
      <4>1. CASE UpToDate(pair) /\ libTodo' = libTodo \ {pair} /\ UNCHANGED <<tool, verdict>>
        <5> SUFFICES ASSUME scope = "all", NEW other \in Copies
                     PROVE  \/ other \in libTodo' \/ copies[other] = Copy(plan, other[2])
                            \/ /\ \A part \in Parts : <<other[1], part>> \notin libTodo'
                               /\ other[1] \notin Discovered
          BY <2>1, <4>1 DEF Covered, Discovered
        <5>1. \/ other \in libTodo \/ copies[other] = Copy(plan, other[2])
              \/ /\ \A part \in Parts : <<other[1], part>> \notin libTodo
                 /\ other[1] \notin Discovered
          BY <1>0, <2>1 DEF Covered, Replacing
        <5>2. copies[pair] = Copy(plan, pair[2])
          BY <4>1 DEF UpToDate
        <5> QED
          BY <4>1, <5>1, <5>2
      <4>2. CASE libTodo' = libTodo
        BY <1>0, <2>1, <3>1, <4>2 DEF Covered, Replacing, Discovered
      <4> QED
        BY <3>1, <4>1, <4>2
    <3>5. PassedIsIdentical'
      BY <1>0, <2>1, <3>1 DEF PassedIsIdentical, RunFits
    <3> QED
      BY <3>2, <3>3, <3>4, <3>5 DEF LibInv
  <2> QED
    BY <1>3, <2>2, <2>3 DEF CopyNext
<1>4. CASE RemoveOld
  <2>1. /\ tool = "remove"
        /\ UNCHANGED <<source, lock, scope, plan, libTodo, installed, interrupts, verdict,
                       libEvents>>
    BY <1>4 DEF RemoveOld
  <2>2. PICK pair \in libTodo :
          /\ IsNext(pair)
          /\ \/ copies' = [copies EXCEPT ![pair] = None] /\ tool' = "rename"
             \/ /\ copies[pair] # None
                /\ copies' = [copies EXCEPT ![pair].content = [version |-> 0, rev |-> 0]]
                /\ tool' = tool
    BY <1>4 DEF RemoveOld, Removed
  <2>3. /\ pair \in Copies /\ pair = <<pair[1], pair[2]>>
        /\ pair[1] \in AddonNames /\ pair[2] \in Parts
    BY <1>0 DEF LibTypeOK, Copies
  <2> DEFINE half == [copies[pair] EXCEPT !.content = [version |-> 0, rev |-> 0]]
  <2>4. copies[pair] # None => half \in CopyStates
    <3> DEFINE stub == [version |-> 0, rev |-> 0]
               old == copies[pair]
    <3>1. stub \in Trees
      BY DEF Trees
    <3>2. copies[pair] # None => old \in CopyStates
      BY <1>0, <2>3 DEF LibTypeOK
    <3> HIDE DEF stub, old
    <3>3. old \in CopyStates => [old EXCEPT !.content = stub] \in CopyStates
      BY <3>1 DEF CopyStates
    <3> QED
      BY <3>2, <3>3 DEF old, stub
  <2>5. /\ copies' \in [Copies -> CopyStates \cup {None}]
        /\ \A other \in Copies : other # pair => copies'[other] = copies[other]
        /\ copies'[pair] # None \/ tool' = "rename"
        /\ tool' \in {"remove", "rename"}
        /\ \A other \in Copies : copies'[other] # None => copies[other] # None
    <3>1. CASE copies' = [copies EXCEPT ![pair] = None] /\ tool' = "rename"
      BY <1>0, <2>3, <3>1 DEF LibTypeOK
    <3>2. CASE /\ copies[pair] # None
               /\ copies' = [copies EXCEPT ![pair].content = [version |-> 0, rev |-> 0]]
               /\ tool' = tool
      <4>1. copies' = [copies EXCEPT ![pair] = half]
        BY <3>2
      <4>2. half \in CopyStates /\ half # None
        BY <2>4, <3>2, LibraryAssumption
      <4> HIDE DEF half
      <4> QED
        BY <1>0, <2>1, <2>3, <3>2, <4>1, <4>2 DEF LibTypeOK
    <3> QED
      BY <2>2, <3>1, <3>2
  <2>6. LibTypeOK'
    BY <1>0, <2>1, <2>5 DEF LibTypeOK, source
  <2>7. Renaming(pair)' \/ copies'[pair] # None
    BY <2>1, <2>2, <2>5 DEF Renaming, IsNext
  <2>8. \A a \in installed, part \in Parts :
          copies[<<a, part>>] # None => copies'[<<a, part>>] # None \/ Renaming(<<a, part>>)'
    <3> SUFFICES ASSUME NEW a \in installed, NEW part \in Parts, copies[<<a, part>>] # None
                 PROVE  copies'[<<a, part>>] # None \/ Renaming(<<a, part>>)'
      OBVIOUS
    <3>1. <<a, part>> \in Copies
      BY <1>0 DEF LibTypeOK, Copies
    <3>2. CASE <<a, part>> = pair
      BY <2>7, <3>2
    <3>3. CASE <<a, part>> # pair
      BY <2>5, <3>1, <3>3
    <3> QED
      BY <3>2, <3>3
  <2>9. StillThere'
    BY <1>0, <2>1, <2>8 DEF StillThere, Renaming
  <2>10. Covered'
    <3> SUFFICES ASSUME scope = "all", NEW other \in Copies
                 PROVE  \/ other \in libTodo \/ copies'[other] = Copy(plan, other[2])
                        \/ /\ \A part \in Parts : <<other[1], part>> \notin libTodo
                           /\ other[1] \notin Discovered'
      BY <2>1 DEF Covered
    <3>1. \/ other \in libTodo \/ copies[other] = Copy(plan, other[2])
          \/ /\ \A part \in Parts : <<other[1], part>> \notin libTodo
             /\ other[1] \notin Discovered
      BY <1>0, <2>1 DEF Covered, Replacing
    <3>2. Discovered' \subseteq Discovered
      <4>1. \A a \in Discovered' : a \in AddonNames /\ \E part \in Parts : copies'[<<a, part>>] # None
        BY DEF Discovered
      <4>2. \A a \in AddonNames, part \in Parts : <<a, part>> \in Copies
        BY DEF Copies
      <4> QED
        BY <1>0, <2>5, <4>1, <4>2, Consumers
    <3> QED
      BY <2>2, <2>5, <3>1, <3>2
  <2>11. RunFits' /\ PassedIsIdentical'
    BY <1>0, <2>1, <2>5 DEF RunFits, PassedIsIdentical
  <2> QED
    BY <2>6, <2>9, <2>10, <2>11 DEF LibInv
<1>5. CASE RenameNew
  <2>1. /\ tool = "rename" /\ tool' = "copy"
        /\ UNCHANGED <<source, lock, scope, plan, interrupts, verdict, libEvents>>
    BY <1>5 DEF RenameNew
  <2>2. PICK pair \in libTodo :
          /\ IsNext(pair)
          /\ copies' = [copies EXCEPT ![pair] = Copy(plan, pair[2])]
          /\ libTodo' = libTodo \ {pair}
          /\ installed' = IF \A part \in Parts : copies'[<<pair[1], part>>] # None
                          THEN installed \cup {pair[1]} ELSE installed
    BY <1>5 DEF RenameNew
  <2>3. /\ pair \in Copies /\ pair = <<pair[1], pair[2]>>
        /\ pair[1] \in AddonNames /\ pair[2] \in Parts
    BY <1>0 DEF LibTypeOK, Copies
  <2>4. Copy(plan, pair[2]) \in CopyStates /\ Copy(plan, pair[2]) # None
    BY <1>0, <2>3, PlansHoldTrees DEF LibTypeOK
  <2>5. /\ copies' \in [Copies -> CopyStates \cup {None}]
        /\ copies'[pair] = Copy(plan, pair[2])
        /\ \A other \in Copies : other # pair => copies'[other] = copies[other]
    BY <1>0, <2>2, <2>3, <2>4 DEF LibTypeOK
  <2>6. LibTypeOK'
    BY <1>0, <2>1, <2>2, <2>3, <2>5 DEF LibTypeOK, source
  <2>7. \A a \in AddonNames, part \in Parts :
          copies[<<a, part>>] # None \/ Renaming(<<a, part>>) => copies'[<<a, part>>] # None
    <3> SUFFICES ASSUME NEW a \in AddonNames, NEW part \in Parts,
                        copies[<<a, part>>] # None \/ Renaming(<<a, part>>)
                 PROVE  copies'[<<a, part>>] # None
      OBVIOUS
    <3>1. <<a, part>> \in Copies
      BY DEF Copies
    <3>2. CASE <<a, part>> = pair
      BY <2>4, <2>5, <3>2
    <3>3. CASE <<a, part>> # pair
      <4>1. ~Renaming(<<a, part>>)
        BY <2>2, <2>3, <3>1, <3>3, NextIsOne DEF Renaming
      <4> QED
        BY <2>5, <3>1, <3>3, <4>1
    <3> QED
      BY <3>2, <3>3
  <2>8. /\ installed \subseteq AddonNames /\ installed' \subseteq AddonNames
        /\ \A a \in installed' : \/ a \in installed
                                 \/ \A part \in Parts : copies'[<<a, part>>] # None
    BY <1>0, <2>2, <2>3 DEF LibTypeOK
  <2>9. StillThere'
    <3>1. interrupts = 0 => \A a \in installed', part \in Parts : copies'[<<a, part>>] # None
      BY <1>0, <2>7, <2>8 DEF StillThere
    <3>2. interrupts = 1 => \A a \in installed' : \E part \in Parts : copies'[<<a, part>>] # None
      <4>1. \E part \in Parts : TRUE
        BY DEF Parts
      <4> QED
        BY <1>0, <2>7, <2>8, <4>1 DEF StillThere
    <3> QED
      BY <2>1, <3>1, <3>2 DEF StillThere
  <2>10. Covered'
    <3> SUFFICES ASSUME scope = "all", NEW other \in Copies
                 PROVE  \/ other \in libTodo' \/ copies'[other] = Copy(plan, other[2])
                        \/ /\ \A part \in Parts : <<other[1], part>> \notin libTodo'
                           /\ other[1] \notin Discovered'
      BY <2>1 DEF Covered
    <3>1. CASE other = pair
      BY <2>5, <3>1
    <3>2. CASE other # pair
      <4>1. \/ other \in libTodo \/ copies[other] = Copy(plan, other[2])
            \/ /\ \A part \in Parts : <<other[1], part>> \notin libTodo
               /\ other[1] \notin Discovered
        BY <1>0, <2>1 DEF Covered, Replacing
      <4>2. CASE other \in libTodo \/ copies[other] = Copy(plan, other[2])
        BY <2>2, <2>5, <3>2, <4>2
      <4>3. CASE /\ \A part \in Parts : <<other[1], part>> \notin libTodo
                 /\ other[1] \notin Discovered
        <5>1. other[1] # pair[1] /\ other[1] \in AddonNames
          BY <2>3, <4>3 DEF Copies
        <5>2. \A part \in Parts : /\ copies'[<<other[1], part>>] = copies[<<other[1], part>>]
          <6> SUFFICES ASSUME NEW part \in Parts
                       PROVE  copies'[<<other[1], part>>] = copies[<<other[1], part>>]
            OBVIOUS
          <6>1. <<other[1], part>> \in Copies /\ <<other[1], part>> # pair
            BY <2>3, <5>1 DEF Copies
          <6> QED
            BY <2>5, <6>1
        <5>3. other[1] \notin Discovered'
          BY <4>3, <5>1, <5>2 DEF Discovered
        <5> QED
          BY <2>2, <4>3, <5>3
      <4> QED
        BY <4>1, <4>2, <4>3
    <3> QED
      BY <3>1, <3>2
  <2>11. RunFits' /\ PassedIsIdentical'
    BY <1>0, <2>1 DEF RunFits, PassedIsIdentical
  <2> QED
    BY <2>6, <2>9, <2>10, <2>11 DEF LibInv
<1>6. CASE WriteLock
  <2>1. /\ tool = "lock" /\ lock' = plan /\ tool' \in {"idle", "check"}
        /\ verdict' = IF scope = "all" /\ plan = State THEN "synced" ELSE None
        /\ scope = "all" => scope # "release"
        /\ scope # "release" => tool' = "idle"
        /\ UNCHANGED <<source, copies, scope, plan, libTodo, installed, interrupts,
                       libEvents>>
    BY <1>6 DEF WriteLock
  <2>2. LibTypeOK'
    BY <1>0, <2>1 DEF LibTypeOK, source
  <2>3. StillThere' /\ Covered'
    BY <1>0, <2>1 DEF StillThere, Renaming, Covered, Replacing
  <2>4. RunFits'
    BY <2>1, LibraryAssumption DEF RunFits
  <2>5. PassedIsIdentical'
    <3>1. CASE verdict' # "synced"
      BY <2>1, <3>1, LibraryAssumption DEF PassedIsIdentical
    <3>2. CASE verdict' = "synced"
      <4>1. scope = "all" /\ plan = State /\ State' = State /\ lock' = State'
            /\ Discovered' = Discovered /\ copies' = copies
        BY <2>1, <3>2, LibraryAssumption DEF source, State, Discovered
      <4>2. libTodo = {}
        BY <1>0, <2>1 DEF RunFits
      <4>3. \A a \in Discovered, part \in Parts : <<a, part>> \in Copies
        BY DEF Discovered, Copies
      <4>4. \A a \in Discovered, part \in Parts : copies[<<a, part>>] = Copy(plan, part)
        BY <1>0, <2>1, <4>1, <4>2, <4>3 DEF Covered, Replacing
      <4>5. \A a \in Discovered', part \in Parts : copies'[<<a, part>>] = Copy(State, part)'
        BY <4>1, <4>4 DEF Copy, Stamp
      <4> QED
        BY <4>1, <4>5 DEF PassedIsIdentical
    <3> QED
      BY <3>1, <3>2
  <2> QED
    BY <2>2, <2>3, <2>4, <2>5 DEF LibInv
<1>7. CASE Check
  <2>1. /\ tool' = "idle" /\ verdict' = IF StrictCheck THEN "passed" ELSE "failed"
        /\ UNCHANGED <<source, copies, lock, scope, plan, libTodo, installed, interrupts>>
        /\ tool \in {"idle", "check"} /\ libEvents' \in Nat
    BY <1>0, <1>7 DEF Check, LibEvent, LibTypeOK
  <2>2. LibTypeOK'
    BY <1>0, <2>1 DEF LibTypeOK, source
  <2>3. StillThere' /\ Covered' /\ RunFits'
    BY <1>0, <2>1 DEF StillThere, Renaming, Covered, Replacing, RunFits
  <2>4. PassedIsIdentical'
    <3>1. CASE ~StrictCheck
      BY <2>1, <3>1 DEF PassedIsIdentical
    <3>2. CASE StrictCheck
      <4>1. lock = State /\ \A a \in Discovered, part \in Parts : PartPasses(<<a, part>>)
        BY <3>2 DEF StrictCheck
      <4>2. \A a \in Discovered, part \in Parts : copies[<<a, part>>] = Copy(State, part)
        <5> SUFFICES ASSUME NEW a \in Discovered, NEW part \in Parts
                     PROVE  copies[<<a, part>>] = Copy(State, part)
          OBVIOUS
        <5> DEFINE c == copies[<<a, part>>]
        <5>1. PartPasses(<<a, part>>) /\ <<a, part>> \in Copies
          BY <4>1 DEF Discovered, Copies
        <5>2. c \in CopyStates
          BY <1>0, <5>1 DEF LibTypeOK, PartPasses
        <5>3. /\ c.content = c.stamp.sha256 /\ c.stamp.version = library.version
              /\ c.stamp.sha256 = State[part]
          BY <5>1 DEF PartPasses
        <5> HIDE DEF c
        <5>4. c = [content |-> c.content, stamp |-> c.stamp]
              /\ c.stamp = [version |-> c.stamp.version, sha256 |-> c.stamp.sha256]
          BY <5>2 DEF CopyStates, Stamps
        <5>5. c.stamp = Stamp(State, part)
          BY <5>3, <5>4 DEF Stamp, State
        <5>6. c = Copy(State, part)
          BY <5>3, <5>4, <5>5 DEF Copy
        <5> QED
          BY <5>6 DEF c
      <4>3. State' = State /\ lock' = lock /\ copies' = copies /\ Discovered' = Discovered
        BY <2>1 DEF source, State, Discovered
      <4> QED
        BY <4>1, <4>2, <4>3 DEF PassedIsIdentical, Copy, Stamp
    <3> QED
      BY <3>1, <3>2
  <2> QED
    BY <2>2, <2>3, <2>4 DEF LibInv
<1>8. CASE Interrupt
  <2>1. /\ tool # "idle" /\ tool' = "idle" /\ verdict' = None /\ interrupts' = interrupts + 1
        /\ UNCHANGED <<source, copies, lock, scope, plan, libTodo, installed>>
        /\ libEvents' \in Nat
    BY <1>0, <1>8 DEF Interrupt, LibEvent, LibTypeOK
  <2>2. LibTypeOK'
    BY <1>0, <2>1 DEF LibTypeOK, source
  <2>3. StillThere'
    <3>1. interrupts' = 0 \/ interrupts' = 1 => interrupts = 0 /\ interrupts' = 1
      BY <1>0, <2>1 DEF LibTypeOK
    <3>2. interrupts = 0 => \A a \in installed : \E part \in Parts : copies[<<a, part>>] # None
      <4> SUFFICES ASSUME interrupts = 0, NEW a \in installed,
                          copies[<<a, "lib">>] = None, copies[<<a, "skeleton">>] = None
                   PROVE  FALSE
        BY DEF Parts
      <4>1. <<a, "lib">> \in Copies /\ <<a, "skeleton">> \in Copies
        BY <1>0 DEF LibTypeOK, Copies, Parts
      <4>2. Renaming(<<a, "lib">>) /\ Renaming(<<a, "skeleton">>)
        BY <1>0 DEF StillThere, Parts
      <4>3. <<a, "lib">> = <<a, "skeleton">>
        BY <4>1, <4>2, NextIsOne DEF Renaming
      <4> QED
        BY <4>3
    <3>3. interrupts' # 0 /\ (interrupts' = 1 => interrupts = 0)
      BY <3>1
    <3>4. interrupts' = 1 =>
            \A a \in installed' : \E part \in Parts : copies'[<<a, part>>] # None
      BY <2>1, <3>2, <3>3
    <3> QED
      BY <3>3, <3>4 DEF StillThere
  <2>4. Covered' /\ RunFits' /\ PassedIsIdentical'
    BY <2>1, LibraryAssumption DEF Covered, Replacing, RunFits, PassedIsIdentical
  <2> QED
    BY <2>2, <2>3, <2>4 DEF LibInv
<1>9. CASE EditSource
  <2>1. verdict' = None /\ UNCHANGED <<copies, tool, scope, plan, libTodo, installed, interrupts>>
        /\ libEvents' = libEvents + 1
    BY <1>9 DEF EditSource, LibEvent
  <2>2. library' \in Trees /\ skeleton' \in Trees
    <3>1. library.version + 1 \in Int /\ libEvents' \in Int
      BY <1>0, <2>1 DEF LibTypeOK, Trees
    <3>2. \/ library' = [library EXCEPT !.rev = libEvents'] /\ skeleton' = skeleton
          \/ library' = [library EXCEPT !.version = library.version + 1] /\ skeleton' = skeleton
          \/ skeleton' = [skeleton EXCEPT !.rev = libEvents'] /\ library' = library
      BY <1>9 DEF EditSource
    <3> QED
      BY <1>0, <3>1, <3>2 DEF LibTypeOK, Trees
  <2>3. LibTypeOK'
    BY <1>0, <2>1, <2>2 DEF LibTypeOK
  <2>4. StillThere'
    BY <1>0, <2>1 DEF StillThere, Renaming, IsNext
  <2>5. Covered' /\ RunFits' /\ PassedIsIdentical'
    BY <1>0, <2>1, LibraryAssumption
       DEF Covered, Replacing, Discovered, RunFits, PassedIsIdentical
  <2> QED
    BY <2>3, <2>4, <2>5 DEF LibInv
<1>10. CASE EditCopy
  <2>1. /\ tool = "idle" /\ verdict' = None
        /\ UNCHANGED <<source, tool, scope, plan, libTodo, installed, interrupts>>
        /\ libEvents' \in Nat
    BY <1>0, <1>10 DEF EditCopy, LibEvent, LibTypeOK
  <2>2. PICK pair \in Copies : /\ copies[pair] # None
                               /\ copies' = [copies EXCEPT ![pair].content.rev = -1]
    BY <1>10 DEF EditCopy
  <2> DEFINE old == copies[pair]
             edited == [old EXCEPT !.content = [old.content EXCEPT !.rev = -1]]
  <2>3. edited \in CopyStates
    <3>1. old \in CopyStates
      BY <1>0, <2>2 DEF LibTypeOK
    <3> HIDE DEF old
    <3>2. [old.content EXCEPT !.rev = -1] \in Trees
      BY <3>1 DEF CopyStates, Trees
    <3> DEFINE subtree == [old.content EXCEPT !.rev = -1]
    <3> HIDE DEF subtree
    <3>3. [old EXCEPT !.content = subtree] \in CopyStates
      BY <3>1, <3>2 DEF CopyStates, subtree
    <3> QED
      BY <3>3 DEF subtree
  <2>4. copies' = [copies EXCEPT ![pair] = edited]
    BY <2>2
  <2> HIDE DEF edited
  <2>5. /\ copies' \in [Copies -> CopyStates \cup {None}]
        /\ \A other \in Copies : copies[other] # None => copies'[other] # None
    BY <1>0, <2>3, <2>4, LibraryAssumption DEF LibTypeOK
  <2>6. LibTypeOK'
    BY <1>0, <2>1, <2>5 DEF LibTypeOK, source
  <2>7. StillThere'
    <3>1. \A a \in installed, part \in Parts : <<a, part>> \in Copies
      BY <1>0 DEF LibTypeOK, Copies
    <3> QED
      BY <1>0, <2>1, <2>5, <3>1 DEF StillThere, Renaming
  <2>8. Covered' /\ RunFits' /\ PassedIsIdentical'
    BY <2>1, LibraryAssumption DEF Covered, Replacing, RunFits, PassedIsIdentical
  <2> QED
    BY <2>6, <2>7, <2>8 DEF LibInv
<1>11. CASE UNCHANGED libraryVars
  <2>1. UNCHANGED <<library, skeleton, copies, lock, tool, scope, plan, libTodo, installed,
                    interrupts, verdict, libEvents>>
    BY <1>11 DEF libraryVars, source
  <2>2. LibTypeOK' /\ StillThere'
    BY <1>0, <2>1 DEF LibTypeOK, StillThere, Renaming, IsNext
  <2>3. Covered' /\ RunFits' /\ PassedIsIdentical'
    BY <1>0, <2>1 DEF Covered, Replacing, Discovered, RunFits, PassedIsIdentical, State, Copy, Stamp
  <2> QED
    BY <2>2, <2>3 DEF LibInv
<1> QED
  BY <1>1, <1>2, <1>3, <1>4, <1>5, <1>6, <1>7, <1>8, <1>9, <1>10, <1>11 DEF LibraryNext

\* sync-admin-ui.py at every file operation, with kills and changes of the library.
THEOREM LibraryInvariant == LibrarySpec => []LibInv
BY LibInitially, LibStep, PTL DEF LibrarySpec

\* One interrupted run costs no add-on its copies, and where the check or a whole run
\* passed, every copy is that of the library (sync-admin-ui.py:159-231).
THEOREM LibraryReachesConsumers == LibrarySpec => [](ConsumersKept /\ PassedIsIdentical)
<1>1. LibInv => ConsumersKept /\ PassedIsIdentical
  <2> SUFFICES ASSUME LibInv PROVE ConsumersKept
    BY DEF LibInv
  <2>1. LibTypeOK /\ StillThere
    BY DEF LibInv
  <2>2. tool = "idle" /\ interrupts <= 1 =>
          \A a \in installed : \E part \in Parts : copies[<<a, part>>] # None
    <3>1. \E part \in Parts : TRUE
      BY DEF Parts
    <3> QED
      BY <2>1, <3>1 DEF StillThere, Renaming, LibTypeOK
  <2> QED
    BY <2>1, <2>2, Consumers DEF ConsumersKept, LibTypeOK
<1> QED
  BY <1>1, LibraryInvariant, PTL

-----------------------------------------------------------------------------
(* The renderer                                                            *)

\* The pages of exactly these entries are on disk.
Written(es) ==
  /\ DOMAIN docroots = {e.name : e \in es}
  /\ \A e \in es : docroots[e.name] = e

\* SiteIsWhole of any site, nginx may serve it or not.
Whole(site) ==
  IF mdOptions = <<>> THEN site = "minimal"
  ELSE site = Elements(mdOptions) /\ landing = site /\ Written(site)

\* Where run.sh and its scripts are.
Generating == {"clear", "pages", "conf"}
Serving == {"serving", "periodic"}

Distinct(es) == \A d, e \in es : d.name = e.name => d = e

RendererInv ==
  /\ mdAt \in Generating =>
       mdOptions # <<>> /\ entries = Elements(mdOptions) /\ Distinct(entries)
  /\ mdAt = "pages" => left \subseteq entries /\ Written(entries \ left)
  /\ mdAt = "conf" => landing = entries /\ Written(entries)
  /\ mdAt \in {"sync", "syncing"} => Whole(conf)
  /\ mdAt \notin Serving => served = None
  /\ served # None => Whole(served)

DirectoryStates == [kind : {"empty", "files", "repo"}, base : Nat, own : BOOLEAN]

\* A directory with content of its own is not empty.
DirsFit ==
  /\ mdRemote \in Nat
  /\ dirs \in [MdNames -> DirectoryStates]
  /\ \A n \in MdNames : dirs[n].own => dirs[n].kind # "empty"

LEMMA NamesApart == \A o \in Sites : OptionsValid(o) => Distinct(Elements(o))
  BY DEF OptionsValid, Distinct, Elements

LEMMA RendererInitially == MdInit => RendererInv /\ DirsFit
<1> SUFFICES ASSUME MdInit PROVE RendererInv /\ DirsFit
  OBVIOUS
<1>1. RendererInv
  BY DEF MdInit, RendererInv, Generating, Serving
<1>2. DirsFit
  <2> DEFINE Fresh == [kind |-> "empty", base |-> 0, own |-> FALSE]
             Foreign == [kind |-> "files", base |-> 0, own |-> TRUE]
  <2>1. Fresh \in DirectoryStates /\ ~Fresh.own
    BY DEF DirectoryStates
  <2>2. Foreign \in DirectoryStates /\ Foreign.kind # "empty"
    BY DEF DirectoryStates
  <2>3. dirs \in [MdNames -> {Fresh, Foreign}] /\ mdRemote = 1
    BY DEF MdInit
  <2> HIDE DEF Fresh, Foreign
  <2>4. QED
    BY <2>1, <2>2, <2>3 DEF DirsFit
<1>3. QED
  BY <1>1, <1>2

LEMMA RendererStep == mdOptions \in Sites /\ RendererInv /\ [MdNext]_mdVars => RendererInv'
<1> SUFFICES ASSUME mdOptions \in Sites, RendererInv, [MdNext]_mdVars PROVE RendererInv'
  OBVIOUS
<1> USE DEF RendererInv, Generating, Serving
<1>1. CASE Validate
  <2>1. CASE mdAt' = "clear"
    BY <1>1, <2>1, NamesApart DEF Validate, NoGit, tmp
  <2>2. CASE mdAt' # "clear"
    BY <1>1, <2>2 DEF Validate, NoGit, tmp, Whole, MinimalConf
  <2>3. QED
    BY <2>1, <2>2
<1>2. CASE FreshOutput
  <2>1. Written(entries \ left)'
    BY <1>2 DEF FreshOutput, Written, Pages, NoGit
  <2>2. QED
    BY <1>2, <2>1 DEF FreshOutput, NoGit
<1>3. CASE WritePage
  <2> PICK e \in left :
        /\ docroots' = [n \in DOMAIN docroots \cup {e.name} |->
                          IF n = e.name THEN e ELSE docroots[n]]
        /\ left' = left \ {e}
    BY <1>3 DEF WritePage
  <2>1. mdAt = "pages" /\ mdAt' = "pages" /\ entries' = entries /\ mdOptions' = mdOptions
        /\ served' = served
    BY <1>3 DEF WritePage, NoGit
  <2>2. entries' \ left' = (entries \ left) \cup {e}
    BY <2>1
  <2>3. DOMAIN docroots' = {d.name : d \in entries' \ left'}
    BY <2>1, <2>2 DEF Written
  <2>4. ASSUME NEW d \in entries' \ left' PROVE docroots'[d.name] = d
    BY <2>1, <2>2, <2>4 DEF Written, Distinct
  <2>5. Written(entries \ left)'
    BY <2>3, <2>4 DEF Written
  <2>6. QED
    BY <2>1, <2>5
<1>4. CASE WriteLanding
  <2>1. entries \ left = entries
    BY <1>4 DEF WriteLanding
  <2>2. Written(entries)'
    BY <1>4, <2>1 DEF WriteLanding, Written, NoGit
  <2>3. QED
    BY <1>4, <2>2 DEF WriteLanding, NoGit
<1>5. CASE WriteConf
  BY <1>5 DEF WriteConf, NoGit, Whole, Written
<1>6. CASE StartGitSync
  BY <1>6 DEF StartGitSync, NoGit, Whole, Written, tmp
<1>7. CASE SyncNamespace
  BY <1>7 DEF SyncNamespace, Whole, Written, tmp
<1>8. CASE Serve
  BY <1>8 DEF Serve, NoGit, Whole, Written, tmp
<1>9. CASE PeriodicSync \/ PeriodicEnds
  BY <1>9 DEF PeriodicSync, PeriodicEnds, NoGit, Whole, Written, tmp
<1>10. CASE MdRestart
  BY <1>10 DEF MdRestart
<1>11. CASE RemoteCommit \/ UserEdits \/ UNCHANGED mdVars
  BY <1>11 DEF RemoteCommit, UserEdits, mdVars, tmp, Whole, Written
<1>12. QED
  BY <1>1, <1>2, <1>3, <1>4, <1>5, <1>6, <1>7, <1>8, <1>9, <1>10, <1>11 DEF MdNext

LEMMA DirsStep ==
  DirsFit /\ [MdNext]_mdVars =>
    /\ DirsFit'
    /\ \A n \in MdNames : dirs[n].own => dirs'[n].own /\ dirs'[n].base = dirs[n].base
<1> SUFFICES ASSUME DirsFit, [MdNext]_mdVars
    PROVE /\ DirsFit'
          /\ \A n \in MdNames : dirs[n].own => dirs'[n].own /\ dirs'[n].base = dirs[n].base
  OBVIOUS
<1> USE DEF DirsFit
<1>1. CASE UNCHANGED <<dirs, mdRemote>>
  BY <1>1
<1>2. CASE SyncNamespace
  <2> PICK e \in left, works \in BOOLEAN :
        dirs' = [dirs EXCEPT ![e.name] = Synced(dirs[e.name], e.url, works)]
    BY <1>2 DEF SyncNamespace
  <2>1. mdRemote' \in Nat
    BY <1>2 DEF SyncNamespace
  <2>2. ASSUME NEW n \in MdNames
        PROVE /\ dirs'[n] \in DirectoryStates
              /\ dirs'[n].own => dirs'[n].kind # "empty"
              /\ dirs[n].own => dirs'[n].own /\ dirs'[n].base = dirs[n].base
    <3>1. dirs[n] \in DirectoryStates /\ (dirs[n].own => dirs[n].kind # "empty")
      OBVIOUS
    <3>2. dirs'[n] \in {dirs[n], Synced(dirs[n], e.url, works)}
      OBVIOUS
    <3>3. CASE dirs'[n] = dirs[n]
      BY <3>1, <3>3
    <3>4. CASE dirs'[n] = Synced(dirs[n], e.url, works)
      BY <3>1, <3>4 DEF Synced, DirectoryStates
    <3>5. QED
      BY <3>2, <3>3, <3>4
  <2>3. dirs' \in [MdNames -> DirectoryStates]
    BY <2>2
  <2>4. QED
    BY <2>1, <2>2, <2>3
<1>3. CASE RemoteCommit
  BY <1>3 DEF RemoteCommit
<1>4. CASE UserEdits
  <2> PICK m \in MdNames :
dirs' = [dirs EXCEPT ![m] = Edited(dirs[m])]
    BY <1>4 DEF UserEdits
  <2>1. mdRemote' \in Nat
    BY <1>4 DEF UserEdits
  <2>2. ASSUME NEW n \in MdNames
        PROVE /\ dirs'[n] \in DirectoryStates
              /\ dirs'[n].own => dirs'[n].kind # "empty"
              /\ dirs[n].own => dirs'[n].own /\ dirs'[n].base = dirs[n].base
    <3>1. dirs[n] \in DirectoryStates /\ (dirs[n].own => dirs[n].kind # "empty")
      OBVIOUS
    <3>2. CASE n # m
      BY <3>1, <3>2
    <3>3. CASE n = m
      <4>1. dirs'[n] = Edited(dirs[n])
        BY <3>3
      <4>2. QED
        BY <3>1, <4>1 DEF Edited, DirectoryStates
    <3>4. QED
      BY <3>2, <3>3
  <2>3. dirs' \in [MdNames -> DirectoryStates]
    BY <2>2
  <2>4. QED
    BY <2>1, <2>2, <2>3
<1>5. QED
  BY <1>1, <1>2, <1>3, <1>4
     DEF MdNext, mdVars, NoGit, Validate, FreshOutput, WritePage, WriteLanding, WriteConf,
         StartGitSync, Serve, PeriodicSync, PeriodicEnds, MdRestart

\* generate_nginx.py and _git_sync.py at every step, with kills and other options.
THEOREM RendererInvariant == MdSpec => [](mdOptions \in Sites /\ RendererInv /\ DirsFit)
<1>1. MdInit => mdOptions \in Sites /\ RendererInv /\ DirsFit
  BY RendererInitially DEF MdInit
<1>2. mdOptions \in Sites /\ RendererInv /\ DirsFit /\ [MdNext]_mdVars
        => (mdOptions \in Sites /\ RendererInv /\ DirsFit)'
  <2> SUFFICES ASSUME mdOptions \in Sites, RendererInv, DirsFit, [MdNext]_mdVars
      PROVE mdOptions' \in Sites /\ RendererInv' /\ DirsFit'
    OBVIOUS
  <2>1. mdOptions' \in Sites
    BY DEF MdNext, mdVars, NoGit, Validate, FreshOutput, WritePage, WriteLanding, WriteConf,
         StartGitSync, SyncNamespace, Serve, PeriodicSync, PeriodicEnds, MdRestart,
         RemoteCommit, UserEdits
  <2>2. QED
    BY <2>1, RendererStep, DirsStep
<1>3. QED
  BY <1>1, <1>2, PTL DEF MdSpec

\* nginx serves the pages of this start's options and no others
\* (generate_nginx.py:1094), and no sync touches content of the user's own
\* (_git_sync.py:79-87).
THEOREM RendererKeepsFiles == MdSpec => []SiteIsWhole /\ LocalContentKept
<1>1. RendererInv => SiteIsWhole
  BY DEF RendererInv, SiteIsWhole, Whole, Written
<1>2. DirsFit /\ [MdNext]_mdVars =>
        [\A n \in MdNames : dirs[n].own => dirs'[n].own /\ dirs'[n].base = dirs[n].base]_mdVars
  BY DirsStep
<1>3. QED
  BY <1>1, <1>2, RendererInvariant, PTL DEF MdSpec, LocalContentKept

-----------------------------------------------------------------------------
(* Services moves one component at a time                                 *)

\* A step of Services is a step of each component, or leaves it as it is.
LEMMA OneMoves ==
  ASSUME [ServicesNext]_servicesVars
  PROVE  /\ [CupsNext]_cupsVars
         /\ [CupsBootNext]_cupsBootVars
         /\ [NetNext]_netVars
         /\ [MdNext]_mdVars
         /\ [BwNext]_bwVars
         /\ [SopsNext]_gitVars
         /\ [ReleaseNext]_releaseVars
         /\ [LibraryNext]_libraryVars
         /\ [TokenNext]_tokenVars
         /\ [TfNext]_tfVars
<1>1. CASE UNCHANGED servicesVars
  BY <1>1 DEF servicesVars
<1>2. CASE Moves("cups") /\ CupsNext /\ OthersRest
  BY <1>2 DEF Moves, OthersRest
<1>3. CASE Moves("boot") /\ CupsBootNext /\ OthersRest
  BY <1>3 DEF Moves, OthersRest
<1>4. CASE Moves("network") /\ NetNext /\ OthersRest
  BY <1>4 DEF Moves, OthersRest
<1>5. CASE Moves("renderer") /\ MdNext /\ OthersRest
  BY <1>5 DEF Moves, OthersRest
<1>6. CASE Moves("bitwarden") /\ BwNext /\ OthersRest
  BY <1>6 DEF Moves, OthersRest
<1>7. CASE Moves("sops") /\ SopsNext /\ OthersRest
  BY <1>7 DEF Moves, OthersRest
<1>8. CASE Moves("release") /\ ReleaseNext /\ OthersRest
  BY <1>8 DEF Moves, OthersRest
<1>9. CASE Moves("library") /\ LibraryNext /\ OthersRest
  BY <1>9 DEF Moves, OthersRest
<1>10. CASE Moves("token") /\ TokenNext /\ OthersRest
  BY <1>10 DEF Moves, OthersRest
<1>11. CASE Moves("terraform") /\ TfNext /\ OthersRest
  BY <1>11 DEF Moves, OthersRest
<1>12. CASE Moves("ntfy") /\ NtfyNext /\ OthersRest
  BY <1>12 DEF Moves, OthersRest
<1> QED
  BY <1>1, <1>2, <1>3, <1>4, <1>5, <1>6, <1>7, <1>8, <1>9, <1>10, <1>11, <1>12 DEF ServicesNext

\* So every behaviour of Services is one of each component.
LEMMA ComponentsRun ==
  ServicesSpec =>
    /\ CupsSpec
    /\ CupsBootSpec
    /\ NetSpec
    /\ MdSpec
    /\ BwSpec
    /\ SopsSpec
    /\ ReleaseSpec
    /\ LibrarySpec
    /\ TokenSpec
    /\ TfSpec
<1>1. ServicesInit =>
        /\ CupsInit
        /\ CupsBootInit
        /\ NetInit
        /\ MdInit
        /\ BwInit
        /\ SopsInit
        /\ ReleaseInit
        /\ LibraryInit
        /\ TokenInit
        /\ TfInit
  BY DEF ServicesInit
<1>2. [ServicesNext]_servicesVars => [CupsNext]_cupsVars
  BY OneMoves
<1>3. [ServicesNext]_servicesVars => [CupsBootNext]_cupsBootVars
  BY OneMoves
<1>4. [ServicesNext]_servicesVars => [NetNext]_netVars
  BY OneMoves
<1>5. [ServicesNext]_servicesVars => [MdNext]_mdVars
  BY OneMoves
<1>6. [ServicesNext]_servicesVars => [BwNext]_bwVars
  BY OneMoves
<1>7. [ServicesNext]_servicesVars => [SopsNext]_gitVars
  BY OneMoves
<1>8. [ServicesNext]_servicesVars => [ReleaseNext]_releaseVars
  BY OneMoves
<1>9. [ServicesNext]_servicesVars => [LibraryNext]_libraryVars
  BY OneMoves
<1>10. [ServicesNext]_servicesVars => [TokenNext]_tokenVars
  BY OneMoves
<1>11. [ServicesNext]_servicesVars => [TfNext]_tfVars
  BY OneMoves
<1> QED
  BY <1>1, <1>2, <1>3, <1>4, <1>5, <1>6, <1>7, <1>8, <1>9, <1>10, <1>11, PTL
     DEF ServicesSpec, CupsSpec, CupsBootSpec, NetSpec, MdSpec, BwSpec, SopsSpec, ReleaseSpec, LibrarySpec, TokenSpec, TfSpec

\* The scanners keep their history across restarts and failing publishes
\* (src/network-tools/arping_scan.py, mdns_scan.py).
THEOREM HistoryIsKept == ServicesSpec => []NetworkHistory
BY ComponentsRun, ScansKeepHistory, PTL DEF NetworkHistory

\* A delivery is given up or repeated for a cause only, and a line of the history is
\* repeated after a mishap only (src/cups/upload-worker.py:329-380,
\* print-history-poller.py:130-145).
THEOREM CupsCountsHold == ServicesSpec => []CupsCountsAreRight
BY ComponentsRun, CupsCounts, PTL DEF CupsCountsAreRight

\* What a fetch returns is what the source held while it ran, of one commit or one
\* state of the vault (bitwarden.py:186-227, gitsource.py:186-209).
THEOREM SnapshotsAreReal == ServicesSpec => []ProvidersDeliver
BY ComponentsRun, BwDelivers, SopsDelivers, PTL DEF ProvidersDeliver

\* No rerun loses a document of the upload worker or content of the user's own in a
\* synchronised directory (upload-worker.py:31-35, _git_sync.py:141-194).
THEOREM FilesAreKept == ServicesSpec => FilesKept
BY ComponentsRun, NoDocumentIsLost, RendererKeepsFiles, PTL DEF FilesKept

\* The renderer and cups serve what the options of this start say
\* (generate_nginx.py:1058-1144, generate_config.py:1505-1575).
THEOREM OptionsAreServed == ServicesSpec => []StartsServeTheirOptions
BY ComponentsRun, RendererKeepsFiles, BootServesOptions, PTL DEF StartsServeTheirOptions

\* The release tool and the library tool leave the repository consistent
\* (update-version.py:220-306, sync-admin-ui.py:159-231).
THEOREM RepositoryHolds == ServicesSpec => []ReleaseHolds
BY ComponentsRun, TagsTell, LibraryReachesConsumers, PTL DEF ReleaseHolds

\* An add-on that Terraform applied is as configured (homeassistant_addon.go:243-330).
THEOREM ServicesApply == ServicesSpec => []ApplyConverges
BY ComponentsRun, AppliesConverge, PTL

\* The token handed out last, and its predecessor in its grace, authenticate, but for
\* overlapping rotations and kills between two renames (iac-runner token.go).
THEOREM ServicesHonourTokens == ServicesSpec => []TokensHonoured
BY ComponentsRun, TokensStayHonoured, TokenAssumption, PTL
=============================================================================
