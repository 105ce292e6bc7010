----------------------------- MODULE MCUdpPaths -----------------------------
(* Model-checking instance of UdpPaths. *)
EXTENDS UdpPaths

MCRoutes == {"r1", "r2"}
MCHosts == {{"r1"}, {"r2"}}

(* From nothing, with a late STUN answer or with an end behind a hard NAT; *)
(* and from any two paths, with losses and an end that closes or moves.    *)
Calm == [punched |-> FALSE, hard |-> "none", stun |-> 0, lose |-> 0, rebind |-> 0, close |-> 0,
         cross |-> 1]
Met == [Calm EXCEPT !.punched = TRUE]
MCBounds == {[Calm EXCEPT !.stun = 1], [Calm EXCEPT !.hard = "o"], [Calm EXCEPT !.hard = "a"],
             [Met EXCEPT !.lose = 2, !.close = 1], [Met EXCEPT !.lose = 1, !.rebind = 1]}
=============================================================================
