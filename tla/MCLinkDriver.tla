---------------------------- MODULE MCLinkDriver ----------------------------
(* Model-checking instance of LinkDriver. *)
EXTENDS LinkDriver

MCSizes == {0, 1, 2}
(* Writes past the limits of two links; a link that fails, and is replaced *)
(* with its occupant; and the sockets of two occupants on either platform. *)
Writes(links, writes, faults) ==
    [platform |-> "native", open |-> links, write |-> writes, fault |-> faults,
     bind |-> 0, arrive |-> 0, send |-> 0, reset |-> faults]
Sockets(platform_, sends) ==
    [platform |-> platform_, open |-> 0, write |-> 0, fault |-> 0,
     bind |-> 3, arrive |-> 3, send |-> sends, reset |-> 1]
MCBounds == {Writes(2, 3, 0), Writes(1, 3, 1), Sockets("native", 0), Sockets("node", 1)}
=============================================================================
