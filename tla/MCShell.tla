------------------------------ MODULE MCShell -------------------------------
(* Model-checking instances of Shell. *)
EXTENDS Shell

Manifest(app, author, version, protocols, services, links) ==
    [app |-> app, author |-> author, version |-> version,
     protocols |-> protocols, services |-> services, links |-> links]

(* Two transports and an app in two versions, one claim for all. *)
MCApps == {"net", "alt", "chat"}
MCAuthors == {"ann", "bob"}
MCClaims == {"p"}
MCBundles ==
    {Manifest("net", "ann", 1, {}, {"p"}, TRUE),
     Manifest("alt", "bob", 1, {}, {"p"}, TRUE),
     Manifest("chat", "ann", 1, {"p"}, {}, FALSE),
     Manifest("chat", "ann", 2, {"p"}, {}, FALSE)}
=============================================================================
