----------------------------- MODULE MCServices -----------------------------
(* Small instances of Services for TLC.                                    *)
EXTENDS Services

MCBaselines == {<<>>, <<[user |-> "u", topic |-> "alerts", permission |-> "rw"]>>}

Item(n, k, a, r) ==
  [name |-> n, kind |-> k, fields |-> {"password", "notes"}, active |-> a, rev |-> r]
MCVaults == {{Item("Mail", "login", TRUE, 1), Item("Wifi", "note", TRUE, 1)},
             {Item("Mail", "login", TRUE, 2), Item("Wifi", "note", FALSE, 1)},
             {Item("Mail", "login", TRUE, 1), Item("mail", "login", TRUE, 1)}}
MCBase == [Mail |-> "mail", mail |-> "mail", Wifi |-> "wifi"]

Leaf(n, v) == [name |-> n, kind |-> "scalar", value |-> v]
MCCommit == <<[path |-> "file", leaves |-> {Leaf("a", 1)}],
              [path |-> "file", leaves |-> {Leaf("a", 2), Leaf("b", 2)}],
              [path |-> "symlink", leaves |-> {}],
              [path |-> "file", leaves |-> {Leaf("a", 2), Leaf("a", 3)}]>>

Plugin(u, c, k) == [url |-> u, code |-> c, compiles |-> k]
Directory(n, cl, g, ps) ==
  [name |-> n, class |-> cl, css |-> "small", cssUrl |-> "none", plugins |-> ps,
   git |-> g, url |-> g]
MCSites == {<<>>,
            <<Directory("a", "slug", TRUE, {Plugin("https", "none", TRUE)})>>,
            <<Directory("a", "slug", TRUE, {}), Directory("b", "slug", TRUE, {})>>,
            <<Directory("b", "slug", FALSE, {}), Directory("b", "slug", TRUE, {})>>,
            <<Directory("b", "slug", FALSE, {Plugin("http", "small", TRUE)})>>,
            <<Directory("b", "reserved", FALSE, {})>>}

Entry(n, u, d) ==
  [kind |-> "object", enabled |-> TRUE, name |-> n, scheme |-> "allowed", driver |-> d,
   model |-> "valid", uri |-> u]
Option(ps, q, u, p, h) ==
  [printers |-> ps, pdfQueue |-> q, admin |-> [user |-> u, password |-> p],
   aliases |-> {"*", "invalid"}, hostnameValid |-> h]
MCCupsOptions ==
  {Option(<<Entry("hp", "ipp", "generic")>>, "pdf", "ops", "p1", TRUE),
   Option(<<Entry("hp", "usb", "brlaser"), Entry("invalid", "ipp", "generic")>>, None, "lp", "p2",
          TRUE),
   Option(<<Entry("hp", "lpd", "generic"), Entry("hp", "usb", "brlaser")>>, None, "", "", TRUE),
   Option(<<>>, "invalid", "ops", "", FALSE)}
MCNetworks == {[iface |-> "valid", address |-> "10.0.0.1", tailscale |-> TRUE],
               [iface |-> "valid", address |-> "10.0.0.2", tailscale |-> FALSE],
               [iface |-> None, address |-> None, tailscale |-> FALSE]}

Version(b, k, n) == [base |-> b, kind |-> k, n |-> n]
MCDefaults == [log |-> "info"]
MCGoals == [start : BOOLEAN, options : {MCDefaults, [log |-> "debug"], [port |-> "1"]}]


MCAddons == <<"ntfy", "sync">>

MCRequests == {Version(1, "plain", 0), Version(2, "plain", 0), Version(1, "sub", 1),
               Version(2, "pre", 1)}

-----------------------------------------------------------------------------
\* A service that does not move starts in one of few initial states.
Parked(name) == component # name
MCInit ==
  /\ ServicesInit
  /\ Parked("ntfy") => baseline = <<>>
  /\ Parked("bitwarden") => /\ wantServer = "s1" /\ cli.server = "s1"
                            /\ vault = CHOOSE v \in Vaults : TRUE
  /\ Parked("renderer") => mdOptions = <<>> /\ \A d \in DOMAIN dirs : dirs[d].kind = "empty"
  /\ Parked("boot") => /\ bootOptions = CHOOSE o \in CupsOptions : TRUE
                       /\ network = CHOOSE n \in Networks : TRUE
                       /\ stock = None
  /\ Parked("release") => ~bridge /\ tree.config = None

MCSpec == MCInit /\ [][ServicesNext]_servicesVars
=============================================================================
