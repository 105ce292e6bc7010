----------------------------- MODULE LinkDriver -----------------------------
(***************************************************************************)
(* The link driver's outbound half (services/link.ts TransportHost): the   *)
(* links of module LinkWrites and the sockets of module Datagrams, which   *)
(* one occupant has, and which go together when another is bound.          *)
(***************************************************************************)
EXTENDS LinkWrites, Datagrams

CONSTANT Bounds    \* what a behaviour may have, see BoundsType

(* The platform; and links opened, writes, sockets and connections that    *)
(* fail, sockets bound, datagrams that arrive, datagrams sent, and         *)
(* occupants replaced.                                                     *)
BoundsType == [platform : {"node", "native"}, open : Nat, write : Nat, fault : Nat,
               bind : Nat, arrive : Nat, send : Nat, reset : Nat]

ASSUME LinkDriverAssumption == Bounds \subseteq BoundsType

VARIABLE left      \* what is left of the bounds

vars == <<link, sock, outboundBytes, outboundSlices, sending, platform, udp, udpHeld, sockets,
          socketGen, reads, heldDatagrams, readsBusy, readsDue, events, left>>

Init == WritesInit /\ DatagramsInit /\ left \in Bounds /\ platform = left.platform

Bounded(kind) == left[kind] > 0 /\ left' = [left EXCEPT ![kind] = @ - 1]

(* The steps the platform and the event loop take of themselves. *)
Writer(l) == /\ \/ WriterRuns(l) /\ UNCHANGED left
                \/ WriterWakes(l) /\ UNCHANGED left
                \/ WriterWrites(l) /\ UNCHANGED left
                \/ WriterFails(l) /\ IF sock[l].conn = "shut" THEN UNCHANGED left ELSE Bounded("fault")
                \/ WriterCounts(l) /\ UNCHANGED left
             /\ UNCHANGED udpVars
Dialer(l) == ((Dialed(l) /\ UNCHANGED left) \/ (DialFails(l) /\ Bounded("fault"))) /\ UNCHANGED udpVars
Turn(l) == (Reports(l) \/ CloseTurn(l) \/ OnClose(l)) /\ UNCHANGED <<udpVars, left>>
SocketTurn(s) == /\ \/ \E ok \in BOOLEAN : PlatformBinds(s, ok)
                    \/ BindHeard(s) \/ UdpSent(s) \/ Deliver(s)
                 /\ Idle /\ UNCHANGED <<writeVars, left>>
Reading == /\ ReadsTurn \/ \E e \in events : EventDone(e)
           /\ Idle /\ UNCHANGED <<writeVars, left>>

(* reset, as a new occupant is bound. *)
Reset == Bounded("reset") /\ ResetLinks /\ ResetSockets

Next == \/ Reset
        \/ \E l \in Links : Writer(l) \/ Dialer(l) \/ Turn(l)
        \/ \E s \in Ids : SocketTurn(s)
        \/ Reading
        \/ \E l \in Links :
             /\ \/ \E conn \in {"dialing", "open"} : Open(l, conn) /\ Bounded("open")
                \/ \E n \in Sizes : Send(l, n) /\ Bounded("write")
                \/ (SendThrows(l) \/ ReadFails(l) \/ SilentTimeout(l)) /\ Bounded("fault")
                \/ \E graceful \in BOOLEAN : Close(l, graceful) /\ UNCHANGED left
             /\ UNCHANGED udpVars
        \/ /\ \/ Bind /\ Bounded("bind")
              \/ \E s \in Ids : \/ Arrives(s) /\ Bounded("arrive")
                                \/ UdpSend(s) /\ Bounded("send")
                                \/ UdpClose(s) /\ UNCHANGED left
           /\ Idle /\ UNCHANGED writeVars

(* A writer's system calls end, since a close shuts the connection or sets *)
(* it a deadline; the loop runs what was posted on it; the realm ends each *)
(* event, by its deadline at the latest.                                   *)
Spec == Init /\ [][Next]_vars
FairSpec == /\ Spec
            /\ \A l \in Links : WF_vars(Writer(l)) /\ WF_vars(Dialer(l)) /\ WF_vars(Turn(l))
            /\ \A s \in 1..MaxBinds : WF_vars(s \in Ids /\ SocketTurn(s))
            /\ WF_vars(Reading)
-----------------------------------------------------------------------------
(* Every channel closed, gracefully or hard, in the middle of a write or a *)
(* dial, has its connection shut and its writer gone in the end, every     *)
(* socket closed is shut once it has sent, and every datagram the driver   *)
(* took reaches a realm (terminate's wake, datagrams-node.ts `sent`,       *)
(* pumpReads).                                                             *)
Quiet == /\ \A l \in Links : sock[l].dead => sock[l].conn = "shut" /\ sock[l].writer \in {"none", "left"}
         /\ \A s \in Ids : udp[s].closing => udp[s].state = "shut"
         /\ reads = << >>
ComesToRest == <>[]Quiet
=============================================================================
