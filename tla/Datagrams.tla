----------------------------- MODULE Datagrams ------------------------------
(***************************************************************************)
(* The datagram sockets the link driver lends its occupant                 *)
(* (services/link.ts bind, heard, pumpReads, reset), over the platform's:  *)
(* Node's (services/datagrams-node.ts) or the native one (native/udp.go).  *)
(*                                                                         *)
(* A datagram is one unit of what is held, whichever platform reads it.  A *)
(* socket's number is the order its bind began in; the platform's answer   *)
(* to the bind, the driver's hearing of it, the reading of datagrams,      *)
(* their delivery and each event in the realm are turns of their own, and  *)
(* the occupant may be gone by any of them.                                *)
(***************************************************************************)
EXTENDS Integers, Sequences, FiniteSets, Sums

CONSTANTS
    MaxBinds,                        \* sockets bound in a behaviour
    MAX_UDP_SOCKETS,
    MAX_UDP_HELD_BYTES,              \* in datagrams here
    MAX_LINK_READ_BYTES              \* what one event carries, in datagrams

ASSUME DatagramsAssumption ==
    {MaxBinds, MAX_UDP_SOCKETS, MAX_UDP_HELD_BYTES, MAX_LINK_READ_BYTES} \subseteq Nat \ {0}

VARIABLES
    platform,     \* "node" or "native"
    udp,          \* the platform's sockets, in the order asked for: see NewSocket
    udpHeld,      \* native: what every socket holds for the loop
    sockets,      \* those the occupant has been given
    socketGen,    \* the occupants there have been
    reads,        \* events not yet in the realm: how many datagrams each carries
    heldDatagrams, readsBusy, readsDue,
    events        \* the events in a realm: [gen, bytes]

udpVars == <<platform, udp, udpHeld, sockets, socketGen, reads, heldDatagrams, readsBusy, readsDue, events>>

NewSocket == [gen |-> socketGen,      \* the occupant that asked
              state |-> "binding",    \* then "open", and "shut"
              awaited |-> TRUE,       \* the driver has not heard of it
              held |-> 0, posted |-> FALSE,   \* read, and their delivery is due
              sending |-> 0, closing |-> FALSE]

DatagramsInit ==    \* on either platform
    /\ udp = << >> /\ udpHeld = 0 /\ sockets = {} /\ socketGen = 0
    /\ reads = << >> /\ heldDatagrams = 0 /\ readsBusy = FALSE /\ readsDue = FALSE
    /\ events = {}

Ids == 1..Len(udp)
binding == Cardinality({s \in Ids : udp[s].awaited})

(* ---- the platform ---- *)

PlatformBinds(s, ok) ==
    /\ udp[s].state = "binding"
    /\ udp' = [udp EXCEPT ![s].state = IF ok THEN "open" ELSE "failed"]
    /\ UNCHANGED <<platform, udpHeld, sockets, socketGen, reads, heldDatagrams, readsBusy, readsDue, events>>

(* close: native at once, Node behind the sends still under way. *)
CloseSocket(c) == [c EXCEPT !.closing = TRUE, !.state = IF c.sending = 0 THEN "shut" ELSE @]

(* A datagram arrives at an open socket, and one delivery of what it holds *)
(* is due; native drops it past the ceiling of all sockets together.       *)
Arrives(s) ==
    /\ udp[s].state = "open"
    /\ platform = "native" => udpHeld < MAX_UDP_HELD_BYTES
    /\ udp' = [udp EXCEPT ![s].held = @ + 1, ![s].posted = TRUE]
    /\ udpHeld' = IF platform = "native" THEN udpHeld + 1 ELSE udpHeld
    /\ UNCHANGED <<platform, sockets, socketGen, reads, heldDatagrams, readsBusy, readsDue, events>>

(* Node's send callbacks; the last one behind a close shuts the socket. *)
UdpSend(s) ==
    /\ platform = "node" /\ s \in sockets /\ ~udp[s].closing
    /\ udp' = [udp EXCEPT ![s].sending = @ + 1]
    /\ UNCHANGED <<platform, udpHeld, sockets, socketGen, reads, heldDatagrams, readsBusy, readsDue, events>>
Sent(c) == [c EXCEPT !.sending = @ - 1, !.state = IF c.sending = 1 /\ c.closing THEN "shut" ELSE @]
UdpSent(s) ==
    /\ udp[s].sending > 0
    /\ udp' = [udp EXCEPT ![s] = Sent(@)]
    /\ UNCHANGED <<platform, udpHeld, sockets, socketGen, reads, heldDatagrams, readsBusy, readsDue, events>>

(* ---- the driver ---- *)

(* bind, up to the platform's answer; past the cap there is no socket. *)
Bind == /\ Cardinality(sockets) + binding < MAX_UDP_SOCKETS /\ Len(udp) < MaxBinds
        /\ udp' = Append(udp, NewSocket)
        /\ UNCHANGED <<platform, udpHeld, sockets, socketGen, reads, heldDatagrams, readsBusy, readsDue, events>>

(* The bind is heard of: the socket is the occupant's, if it is still the  *)
(* one that asked.                                                         *)
Anyones(s) == TRUE
StillAsked(s) == udp[s].gen = socketGen
BindHeard(s) ==
    /\ udp[s].awaited /\ udp[s].state # "binding"
    /\ LET c == [udp[s] EXCEPT !.awaited = FALSE]
       IN udp' = [udp EXCEPT ![s] = IF c.state = "open" /\ ~StillAsked(s) THEN CloseSocket(c) ELSE c]
    /\ sockets' = IF udp[s].state = "open" /\ StillAsked(s) THEN sockets \union {s} ELSE sockets
    /\ UNCHANGED <<platform, udpHeld, socketGen, reads, heldDatagrams, readsBusy, readsDue, events>>

UdpClose(s) ==
    /\ s \in sockets
    /\ sockets' = sockets \ {s}
    /\ udp' = [udp EXCEPT ![s] = CloseSocket(@)]
    /\ UNCHANGED <<platform, udpHeld, socketGen, reads, heldDatagrams, readsBusy, readsDue, events>>

(* heard: a delivery joins the last event, or makes one; past what is held *)
(* it is dropped.                                                          *)
Joined(n) == IF reads # << >> /\ reads[Len(reads)] + n <= MAX_LINK_READ_BYTES
             THEN [reads EXCEPT ![Len(reads)] = @ + n] ELSE Append(reads, n)
Deliver(s) ==
    /\ udp[s].posted
    /\ LET n == udp[s].held
           taken == s \in sockets /\ n <= MAX_UDP_HELD_BYTES - heldDatagrams
       IN /\ udpHeld' = IF platform = "native" THEN udpHeld - n ELSE udpHeld
          /\ heldDatagrams' = IF taken THEN heldDatagrams + n ELSE heldDatagrams
          /\ reads' = IF taken THEN Joined(n) ELSE reads
          /\ readsDue' = (readsDue \/ (taken /\ ~readsBusy))
    /\ udp' = [udp EXCEPT ![s].held = 0, ![s].posted = FALSE]
    /\ UNCHANGED <<platform, sockets, socketGen, readsBusy, events>>

(* pumpReads' microtask: the next event goes into the realm, if none of    *)
(* this occupant's is there.                                               *)
ReadsTurn ==
    /\ readsDue /\ readsDue' = FALSE
    /\ IF reads = << >> \/ readsBusy
       THEN UNCHANGED <<readsBusy, events>> /\ reads' = IF reads = << >> THEN reads ELSE Tail(reads)
       ELSE /\ reads' = Tail(reads)
            /\ readsBusy' = TRUE
            /\ events' = events \union {[gen |-> socketGen, bytes |-> Head(reads)]}
    /\ UNCHANGED <<platform, udp, udpHeld, sockets, socketGen, heldDatagrams>>

(* The realm has read an event; one of an occupant that has gone touches   *)
(* nothing.                                                                *)
OfOccupant(e) == e.gen = socketGen
EventDone(e) ==
    /\ e \in events /\ events' = events \ {e}
    /\ IF OfOccupant(e)
       THEN /\ readsBusy' = FALSE
            /\ heldDatagrams' = heldDatagrams - e.bytes
            /\ readsDue' = (readsDue \/ reads # << >>)
       ELSE UNCHANGED <<readsBusy, heldDatagrams, readsDue>>
    /\ UNCHANGED <<platform, udp, udpHeld, sockets, socketGen, reads>>

(* reset's part: the occupant's sockets are closed, what they read is      *)
(* forgotten, and what is still under way for it is another's.             *)
ResetSockets ==
    /\ socketGen' = socketGen + 1
    /\ udp' = [s \in Ids |-> IF s \in sockets THEN CloseSocket(udp[s]) ELSE udp[s]]
    /\ sockets' = {} /\ reads' = << >> /\ heldDatagrams' = 0 /\ readsBusy' = FALSE
    /\ UNCHANGED <<platform, udpHeld, readsDue, events>>
-----------------------------------------------------------------------------
(* Occupants are kept apart: a socket open at the platform is the present  *)
(* occupant's, one its bind has yet to be heard of, or closing, and what   *)
(* the driver counts as held is what waits and what the present occupant   *)
(* is reading, one event at a time, so a bind or an event that ends after  *)
(* its occupant has gone neither stays nor is counted (bind's generation   *)
(* check, heard, pumpReads, udp.go deliver).                               *)
Present == {e \in events : e.gen = socketGen}
OccupantsApart ==
    /\ \A s \in Ids : /\ s \in sockets => udp[s].gen = socketGen
                      /\ udp[s].state = "open" => s \in sockets \/ udp[s].awaited \/ udp[s].closing
    /\ \A d, e \in Present : d = e
    /\ readsBusy = (Present # {})
    /\ heldDatagrams = SumSeq(reads) + (IF Present = {} THEN 0 ELSE (CHOOSE e \in Present : TRUE).bytes)
    /\ platform = "native" => udpHeld = SumSeq([s \in Ids |-> udp[s].held])
=============================================================================
