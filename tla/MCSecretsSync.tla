-------------------------- MODULE MCSecretsSync --------------------------
(***************************************************************************)
(* Two providers: one like bitwarden (three secrets and a note file, or only  *)
(* one of the secrets and a changed note) and one like sops from git (one   *)
(* secret, or one that collides), and a synthetic key.                      *)
(***************************************************************************)
EXTENDS SecretsSync

MCProviders == {"bitwarden", "sops"}
MCRank == [bitwarden |-> 1, sops |-> 2]
Full   == [secrets |-> [a |-> 1, b |-> 1, c |-> 1], files |-> [note |-> 1]]
Shrunk == [secrets |-> [a |-> 1], files |-> [note |-> 2]]
Own    == [secrets |-> [d |-> 1], files |-> NoFiles]
Clash  == [secrets |-> [a |-> 2, d |-> 1], files |-> NoFiles]
MCRevisions == [bitwarden |-> {Full, Shrunk}, sops |-> {Own, Clash}]
MCSynthetic == [s |-> "a"]
MCUserFiles == {NoFiles, [note |-> 9]}
=============================================================================
