---------------------------- MODULE MCUdpStream -----------------------------
(* Model-checking instance of UdpStream. *)
EXTENDS UdpStream

Calm == [probed |-> FALSE, window |-> 2, bytes |-> 3, close |-> 0, lose |-> 0, repeat |-> 0, early |-> 0,
         move |-> 0, worsen |-> 0]
Probed == [Calm EXCEPT !.probed = TRUE]

(* Each of these behaviours meets one thing the recovery is for: a loss    *)
(* around a close, a repeat, a path that moves or gets worse, and a large  *)
(* chunk split while its first packet is still under way.                  *)
MCBounds == {[Calm EXCEPT !.lose = 1, !.close = 1], [Calm EXCEPT !.repeat = 1], [Calm EXCEPT !.move = 1],
             [Calm EXCEPT !.worsen = 2, !.close = 1], [Probed EXCEPT !.bytes = 4, !.lose = 1],
             [Probed EXCEPT !.bytes = 2, !.early = 1, !.worsen = 1],
             [Probed EXCEPT !.bytes = 2, !.early = 1, !.move = 1]}

(* Small packets, or a close, on a path nothing goes wrong with. *)
MCWrites == {[Calm EXCEPT !.bytes = 4]}
MCCloses == {[Calm EXCEPT !.close = 1]}
=============================================================================
