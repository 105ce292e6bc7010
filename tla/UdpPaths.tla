------------------------------ MODULE UdpPaths ------------------------------
(***************************************************************************)
(* Two ends of a UDP negotiation find a path and follow each other when it *)
(* moves (transport/src/udp.js UdpNegotiation, with the signals direct.js  *)
(* carries for it).                                                        *)
(*                                                                         *)
(* A route is a pair of addresses datagrams can take between the ends,     *)
(* either way; an end's path, the peer's address it sends to, is the route *)
(* its datagrams take.  An end behind a hard NAT has a socket per route    *)
(* (its birthday sockets), and is sprayed instead of being told to; what   *)
(* those sockets cost a node is in module Negotiations.  Signals arrive in *)
(* order, datagrams in any order or never.  Of times only FOLLOW_MS        *)
(* counts: it is longer than anything takes to arrive.                     *)
(***************************************************************************)
EXTENDS Integers, Sequences, FiniteSets, SequencesExt

CONSTANTS
    Routes,      \* the routes there are
    Hosts,       \* the sets of routes an end may find by its own addresses
    Spare,       \* challenges an end's spare entropy gives before it is drawn again
    MaxFlight,   \* bound: datagrams on their way to an end when its peer's stream sends
    Bounds       \* the faults a behaviour may have, see BoundsType

(* hard: the end behind a hard NAT, if any; punched: the behaviour starts  *)
(* when each end has just taken a path; then how many STUN servers answer, *)
(* how many datagrams are lost, how often an end's packets begin to come   *)
(* from elsewhere, how many ends close, and how often the streams of both  *)
(* ends speak at one moment after a silence of FOLLOW_MS (see SendData).   *)
BoundsType == [punched : BOOLEAN, hard : {"o", "a", "none"}, stun : Nat, lose : Nat, rebind : Nat, close : Nat,
               cross : Nat]

ASSUME PathsAssumption == /\ Spare \in Nat \ {0} /\ MaxFlight \in Nat \ {0}
                          /\ "none" \notin Routes
                          /\ Hosts \subseteq SUBSET Routes
                          /\ Bounds \subseteq BoundsType

Ends == {"o", "a"}     \* the offering and the answering end
Peer(e) == IF e = "o" THEN "a" ELSE "o"
None == "none"

VARIABLES
    end,      \* by end: its negotiation, see NewEnd
    sig,      \* by end: the signals on their way to it
    net,      \* the datagrams under way
    broken,   \* the routes that no longer lead anywhere
    left,     \* what is left of the bounds
    answered  \* history, by end: the routes the peer has answered its challenge on

vars == <<end, sig, net, broken, left, answered>>

NewEnd == [started |-> FALSE,
           held |-> TRUE,           \* the description is not up yet
           own |-> {},              \* routes it has found itself reachable on
           peerToken |-> FALSE,     \* whether it knows the peer's token
           peerCandidates |-> {},
           probing |-> FALSE,       \* a probe round is due
           path |-> None,
           moving |-> None,         \* the route being challenged before the path moves
           newer |-> FALSE,         \* moving.heard >= pathHeard
           quiet |-> FALSE,         \* nothing has come from the path for FOLLOW_MS
           spare |-> Spare,         \* challenges left in its entropy
           refilling |-> FALSE,     \* more of it is being drawn
           dead |-> FALSE]

choose(x, route) == [x EXCEPT !.path = route, !.probing = FALSE, !.own = {}, !.peerCandidates = {},
                              !.quiet = FALSE, !.newer = FALSE]

(* A datagram to an end: PROBE and ACK carry the challenge of the first    *)
(* punch or of the current move; those of earlier moves are ignored.       *)
Datagram(to, type, route, challenge) ==
    [to |-> to, type |-> type, route |-> route, challenge |-> challenge]
ProbeTo(e, route, challenge) == Datagram(e, "PROBE", route, challenge)
AckTo(e, route, challenge) == Datagram(e, "ACK", route, challenge)
DataTo(e, route) == Datagram(e, "DATA", route, None)

(* The ends have just taken these paths, and their streams have sent. *)
Punched == [NewEnd EXCEPT !.started = TRUE, !.held = FALSE, !.peerToken = TRUE]
Init == /\ left \in Bounds
        /\ IF left.punched
           THEN \E p \in [Ends -> Routes] :
                  /\ end = [e \in Ends |-> choose(Punched, p[e])]
                  /\ net = {DataTo(Peer(e), p[e]) : e \in Ends}
                  /\ answered = [e \in Ends |-> {p[e]}]
           ELSE /\ end = [e \in Ends |-> NewEnd]
                /\ net = {}
                /\ answered = [e \in Ends |-> {}]
        /\ sig = [e \in Ends |-> << >>]
        /\ broken = {}

hard == left.hard
Bounded(kind) == left[kind] > 0 /\ left' = [left EXCEPT ![kind] = @ - 1]

(* Whether a datagram still reaches someone: on a route that leads there,  *)
(* and at a socket that has not been closed.                               *)
Reaches(m) == /\ m.route \notin broken
              /\ ~end[m.to].dead
              /\ hard = m.to /\ end[m.to].path # None => m.route = end[m.to].path

(* ---- probing ---- *)

(* The probe rounds start once there is someone to probe. *)
probe(x) ==
    IF x.dead \/ x.path # None \/ ~x.peerToken \/ x.peerCandidates = {} THEN x
    ELSE [x EXCEPT !.probing = TRUE]

(* A hard end reaches the peer's one address from each of its sockets.     *)
(* Candidates are not read once there is a path, and are left out then.    *)
addPeer(e, x, route) ==
    IF x.path # None THEN x ELSE
    probe([x EXCEPT !.peerCandidates = @ \union (IF hard = e \/ route = "hard" THEN Routes ELSE {route})])

(* What one round probes: every candidate, and a port at random at a hard  *)
(* peer's address.                                                         *)
Rounds(e) == IF hard = Peer(e) THEN {{p} : p \in Routes} ELSE {end[e].peerCandidates}

Round(e, targets) ==
    /\ end[e].probing /\ end[e].path = None /\ ~end[e].dead
    /\ targets \in Rounds(e)
    /\ net' = net \union {ProbeTo(Peer(e), p, "punch") : p \in targets}
    /\ UNCHANGED <<end, sig, broken, left, answered>>

(* ---- signals ---- *)

(* An end's own candidate goes up behind its description. *)
addOwn(e, routes) ==
    LET fresh == routes \ end[e].own
    IN /\ end' = [end EXCEPT ![e].own = @ \union routes]
       /\ sig' = IF end[e].held \/ hard = e THEN sig
                 ELSE [sig EXCEPT ![Peer(e)] = @ \o SetToSeq(fresh)]

Describes(e, x, own) ==
    /\ end' = [end EXCEPT ![e] = [x EXCEPT !.held = FALSE, !.own = own]]
    /\ sig' = [sig EXCEPT ![Peer(e)] = @ \o <<"description">> \o
                                       (IF hard = e THEN <<"hard">> ELSE SetToSeq(own))]

(* The offering end describes itself at once; the answering end is opened  *)
(* by the offer, and describes itself on the turn after it.                *)
Start(e) ==
    /\ ~end[e].started
    /\ e = "a" => sig["a"] # << >>
    /\ \E routes \in Hosts :
         IF e = "o" THEN Describes(e, [end[e] EXCEPT !.started = TRUE], routes)
         ELSE /\ end' = [end EXCEPT ![e].started = TRUE, ![e].own = routes]
              /\ UNCHANGED sig
    /\ UNCHANGED <<net, broken, left, answered>>

(* A STUN server answers. *)
OnMapped(e) ==
    /\ end[e].started /\ end[e].path = None /\ ~end[e].dead
    /\ Bounded("stun")
    /\ \E p \in Routes \ end[e].own : addOwn(e, {p})
    /\ UNCHANGED <<net, broken, answered>>

(* A description or candidate from the peer. *)
Down(e) ==
    /\ end[e].started /\ sig[e] # << >>
    /\ LET x == end[e]
           m == Head(sig[e])
       IN end' = [end EXCEPT ![e] = IF x.dead THEN x
                                    ELSE IF m = "description" THEN probe([x EXCEPT !.peerToken = TRUE])
                                    ELSE addPeer(e, x, m)]
    /\ sig' = [sig EXCEPT ![e] = Tail(@)]
    /\ UNCHANGED <<net, broken, left, answered>>

Answer == /\ end["a"].started /\ end["a"].held /\ end["a"].peerToken /\ ~end["a"].dead
          /\ Describes("a", end["a"], end["a"].own)
          /\ UNCHANGED <<net, broken, left, answered>>

(* ---- taking a path ---- *)

(* The path moves to the route challenged, if it was heard from last. *)
MovesOnAnyAck(x, m) == x.moving = m.route /\ x.newer
MovesTo(x, m) == x.moving = m.route /\ x.newer /\ m.challenge = "move"
moved(x) == [x EXCEPT !.path = x.moving, !.moving = None, !.quiet = FALSE, !.newer = FALSE]

(* The challenge the probe carries is the one its sender now waits on. *)
Awaits(e, m) == IF m.challenge = "punch" THEN end[e].path = None ELSE m.route = end[e].moving

OnProbe(e, m) ==
    /\ m.to = e /\ m.type = "PROBE" /\ Reaches(m)
    /\ end' = [end EXCEPT ![e] = addPeer(e, [@ EXCEPT !.peerToken = TRUE], m.route)]
    /\ net' = (net \ {m}) \union {AckTo(Peer(e), m.route, m.challenge)}
              \union (IF end[e].path = None THEN {ProbeTo(Peer(e), m.route, "punch")} ELSE {})
    /\ answered' = [answered EXCEPT ![Peer(e)] = IF Awaits(Peer(e), m) THEN @ \union {m.route} ELSE @]
    /\ UNCHANGED <<sig, broken, left>>

(* The stream starts, or starts over, on a path just taken, and sends. *)
OnAck(e, m) ==
    /\ m.to = e /\ m.type = "ACK" /\ Reaches(m)
    /\ LET x == end[e]
           took == IF x.path = None THEN m.challenge = "punch" /\ x.peerToken ELSE MovesTo(x, m)
       IN /\ end' = [end EXCEPT ![e] = IF ~took THEN x
                                       ELSE IF x.path = None THEN choose(x, m.route) ELSE moved(x)]
          /\ net' = (net \ {m}) \union (IF took THEN {DataTo(Peer(e), m.route)} ELSE {})
    /\ UNCHANGED <<sig, broken, left, answered>>

(* ---- following a path ---- *)

(* Which end may follow the peer's packets to where they come from now:    *)
(* the offering end at once, the answering end once its path is quiet.     *)
BothMayFollow(e) == TRUE
MayFollow(e) == e = "o" \/ end[e].quiet

probeMove(e, m, rest) ==
    LET x == end[e]
        probes == {ProbeTo(Peer(e), m.route, "move")}
        stale == {d \in rest : /\ d.challenge = "move"
                               /\ \/ d.type = "PROBE" /\ d.to = Peer(e)
                                  \/ d.type = "ACK" /\ d.to = e}
    IN IF ~MayFollow(e) THEN end' = end /\ net' = rest /\ UNCHANGED answered
       ELSE IF x.moving = m.route
       THEN end' = [end EXCEPT ![e].newer = TRUE] /\ net' = rest \union probes /\ UNCHANGED answered
       ELSE IF x.spare = 0 THEN end' = [end EXCEPT ![e].refilling = TRUE] /\ net' = rest /\ UNCHANGED answered
       ELSE /\ end' = [end EXCEPT ![e].moving = m.route, ![e].newer = TRUE, ![e].spare = @ - 1]
            /\ net' = (rest \ stale) \union probes
            /\ answered' = [answered EXCEPT ![e] = {x.path}]

(* The spare entropy is drawn again; a draw does not fail here. *)
Refill(e) == /\ end[e].refilling
             /\ end' = [end EXCEPT ![e].spare = Spare, ![e].refilling = FALSE]
             /\ UNCHANGED <<sig, net, broken, left, answered>>

(* A packet of the stream: from the path, or from elsewhere. *)
OnData(e, m) ==
    /\ m.to = e /\ m.type = "DATA" /\ Reaches(m)
    /\ IF end[e].path = None THEN net' = net \ {m} /\ UNCHANGED <<end, answered>>
       ELSE IF m.route = end[e].path
       THEN /\ end' = [end EXCEPT ![e].quiet = FALSE, ![e].newer = FALSE]
            /\ net' = net \ {m} /\ UNCHANGED answered
       ELSE probeMove(e, m, net \ {m})
    /\ UNCHANGED <<sig, broken, left>>

(* The stream sends: data, an ack, or its keepalive.  A stream that ends a *)
(* silence of FOLLOW_MS may send across what the other's packet has set    *)
(* off, and then both ends follow; the two clocks meet only so often.      *)
Crosses == end["a"].quiet /\ \E m \in net : Reaches(m)
SendData(e) == /\ end[e].path # None /\ ~end[e].dead
               /\ Cardinality({m \in net : m.to = Peer(e)}) < MaxFlight
               /\ IF Crosses THEN Bounded("cross") ELSE UNCHANGED left
               /\ net' = net \union {DataTo(Peer(e), end[e].path)}
               /\ UNCHANGED <<end, sig, broken, answered>>

(* FOLLOW_MS pass with nothing from the path, by when whatever was sent    *)
(* before, and what that led to, has arrived.                              *)
Quiets == /\ end["a"].path # None /\ ~end["a"].quiet
          /\ \A m \in net : ~Reaches(m)
          /\ end' = [end EXCEPT !["a"].quiet = TRUE]
          /\ UNCHANGED <<sig, net, broken, left, answered>>

(* The negotiation ends: its deadline passes, its stream stops (the peer   *)
(* gone, or silent), or direct.js drops it.                                *)
Close(e) == /\ end[e].started /\ ~end[e].dead
            /\ Bounded("close")
            /\ end' = [end EXCEPT ![e] = [NewEnd EXCEPT !.started = TRUE, !.held = FALSE, !.dead = TRUE]]
            /\ net' = {m \in net : m.to # e}
            /\ UNCHANGED <<sig, broken, answered>>

(* ---- the network ---- *)

(* A datagram is lost, or reaches nobody. *)
Lose(m) == /\ IF Reaches(m) THEN Bounded("lose") ELSE UNCHANGED left
           /\ net' = net \ {m}
           /\ UNCHANGED <<end, sig, broken, answered>>

(* The end's NAT, or the end, now sends from elsewhere: its datagrams take *)
(* another route, and the old one leads nowhere.                           *)
Rebind(e) ==
    /\ Bounded("rebind") /\ hard = None
    /\ \A x \in Ends : end[x].path # None /\ end[x].path = end[e].path /\ ~end[x].dead
    /\ \E p \in Routes \ (broken \union {end[e].path}) :
         /\ end' = [end EXCEPT ![e].path = p]
         /\ answered' = [answered EXCEPT ![e] = @ \union {p}]
    /\ broken' = broken \union {end[e].path}
    /\ UNCHANGED <<sig, net>>

Arrives(m) == m \in net /\ \E e \in Ends : OnProbe(e, m) \/ OnAck(e, m) \/ OnData(e, m)
Runs(e) == Start(e) \/ Down(e) \/ Refill(e)

Next == \/ \E e \in Ends : Runs(e) \/ OnMapped(e) \/ SendData(e) \/ Close(e) \/ Rebind(e)
        \/ \E e \in Ends, targets \in SUBSET Routes : Round(e, targets)
        \/ Answer \/ Quiets
        \/ \E m \in net : Arrives(m) \/ Lose(m)

Spec == Init /\ [][Next]_vars

(* Code runs, timers go off, a spray tries every port, and what is not     *)
(* lost arrives.  A stream keeps sending while its path lasts, its         *)
(* keepalive at the least.                                                 *)
Datagrams == {Datagram(e, t, p, c) : e \in Ends, t \in {"PROBE", "ACK"}, p \in Routes, c \in {"punch", "move"}}
             \union {DataTo(e, p) : e \in Ends, p \in Routes}
Fairness == /\ \A e \in Ends : WF_vars(Runs(e)) /\ WF_vars(SendData(e))
            /\ \A e \in Ends, targets \in SUBSET Routes : WF_vars(Round(e, targets))
            /\ \A m \in Datagrams : WF_vars(Arrives(m) \/ (m \in net /\ Lose(m)))
            /\ WF_vars(Answer) /\ SF_vars(Quiets)
FairSpec == Spec /\ Fairness
-----------------------------------------------------------------------------
(* An end sends only where the peer has answered the very challenge it     *)
(* holds, so neither a late answer nor a copied packet takes the path      *)
(* (choose, moved); a rebind moves its packets behind its back.            *)
PathAnswered == \A e \in Ends : end[e].path # None => end[e].path \in answered[e]

(* Ends that stay up each find a path and settle on one route, whatever    *)
(* order they took and followed their paths in, after losses and after one *)
(* of them has moved (round, choose, probeMove, FOLLOW_MS).                *)
PathsMeet == <>[]((\A e \in Ends : ~end[e].dead) => end["o"].path # None /\ end["o"].path = end["a"].path)
=============================================================================
