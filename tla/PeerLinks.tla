------------------------------ MODULE PeerLinks -----------------------------
(***************************************************************************)
(* The links between two nodes of the transport bundle: dialing, the       *)
(* handshake as far as it decides who may send, the double-connect         *)
(* tie-break, the move from a relayed link to a direct one, and how a link *)
(* ends (core.js Core, router.js Router, ake.js Link, direct.js).          *)
(*                                                                         *)
(* What a node's code changes in one turn is one record, node[n]; the      *)
(* functions of Core, Router and Link are operators from such a record to  *)
(* the next.  A link is a FIFO wire each way, and its work chain of        *)
(* records to seal.  Frames are opaque; a frame is one request an app      *)
(* hands to its transport.  Key material, the limiter and the relay window *)
(* are left out, and peers are honest, so nothing is refused.              *)
(***************************************************************************)
EXTENDS Integers, Sequences, FiniteSets, SequencesExt

CONSTANTS
    Frames,     \* what the apps send
    NLinks,     \* bound: links opened
    Conns,      \* connsPerPeer
    MaxQueue,   \* maxPreAuthQueueSlices
    Relayed,    \* whether the addresses the book may hold name a relay
    MaxFaults   \* bound: sockets cut, links aborted, closed idle or forgotten

ASSUME PeerLinksAssumption ==
    /\ NLinks \in Nat
    /\ Conns \in Nat \ {0}
    /\ MaxQueue \in Nat \ {0}
    /\ Relayed \subseteq BOOLEAN
    /\ MaxFaults \in Nat

(* "a" is the lexicographically smaller identity. *)
Nodes == {"a", "b"}
Peer(n) == IF n = "a" THEN "b" ELSE "a"
Links == 1..NLinks

VARIABLES
    node,    \* by node: the transport's state, see NodeState
    opened,  \* how many links have been opened
    wire,    \* by node and link: the messages on their way to that node
    shut,    \* by node and link: whether it closed its channel, and how
    cut,     \* the links whose socket died
    broken,  \* history: the links that failed, at either end or on the wire
    got,     \* by frame: how often the far app was handed it
    faults   \* how many faults there have been

vars == <<node, opened, wire, shut, cut, broken, got, faults>>

(* One end of a link (ake.js Link).  "half": its first message is awaited; *)
(* "keyed": an accept that has answered msg1.                              *)
End == [phase : {"none", "half", "keyed", "authed"},
        weDialed : BOOLEAN,
        relayed : BOOLEAN,
        closed : BOOLEAN,
        parting : BOOLEAN,             \* closed deliberately, still sending
        bye : BOOLEAN,                 \* peerSaidGoodbye
        queue : Seq(Frames),           \* waiting for authentication
        chain : Seq(Frames \union {"retire", "end"})]  \* the work chain

NoEnd == [phase |-> "none", weDialed |-> FALSE, relayed |-> FALSE, closed |-> FALSE,
          parting |-> FALSE, bye |-> FALSE, queue |-> << >>, chain |-> << >>]

NodeState ==
    [end : [Links -> End],
     links : Seq(Links),        \* the peer's pool: routable links, direct ones first
     direct : Nat,              \* how many of them are direct
     held : Seq(Links),         \* links read but no longer written
     next : Nat,                \* round-robin cursor
     connecting : Seq(Links),   \* dials not authenticated yet
     dialing : 0..Conns,        \* links the dial in flight has still to open
     waiting : Seq(Frames),     \* senders that await that dial
     known : BOOLEAN,           \* the address book has the peer
     nego : {-1} \union 0..NLinks,        \* upgrade: 0 none, -1 offered, or its data link
     sent : SUBSET Frames,                \* history: what apps handed over
     failed : SUBSET Frames,              \* history: requests answered "not delivered"
     dropped : SUBSET Frames,             \* history: pushed out of a full queue
     via : [Frames -> 0..NLinks],         \* history: the last link a frame was put on
     parted : SUBSET Links]               \* history: links this end chose to close

TypeOK ==
    /\ node \in [Nodes -> NodeState]
    /\ \A n \in Nodes : \A i \in 1..Len(node[n].links) :
         node[n].end[node[n].links[i]].relayed <=> i > node[n].direct
    /\ opened \in 0..NLinks
    /\ wire \in [Nodes -> [Links -> Seq(Frames \union {"m1", "m2", "m3", "retire", "bye"})]]
    /\ shut \in [Nodes -> [Links -> {"open", "clean", "reset"}]]
    /\ cut \subseteq broken /\ broken \subseteq Links
    /\ got \in [Frames -> Nat]
    /\ faults \in 0..MaxFaults

Init ==
    /\ node = [n \in Nodes |->
                [end |-> [l \in Links |-> NoEnd], links |-> << >>, direct |-> 0, held |-> << >>,
                 next |-> 0, connecting |-> << >>, dialing |-> 0, waiting |-> << >>, known |-> TRUE,
                 nego |-> 0, sent |-> {}, failed |-> {}, dropped |-> {},
                 via |-> [f \in Frames |-> 0], parted |-> {}]]
    /\ opened = 0
    /\ wire = [n \in Nodes |-> [l \in Links |-> << >>]]
    /\ shut = [n \in Nodes |-> [l \in Links |-> "open"]]
    /\ cut = {}
    /\ broken = {}
    /\ got = [f \in Frames |-> 0]
    /\ faults = 0

-----------------------------------------------------------------------------
(* Link.send and the router's choice of link.                              *)

Without(s, e) == SelectSeq(s, LAMBDA x : x # e)

(* Link.send: on the work chain once authenticated, queued before, the     *)
(* oldest giving way; nothing on a closed link.                            *)
Sends(nd, l, f) ==
    LET e == nd.end[l]
        full == Len(e.queue) >= MaxQueue
        seen == IF f \in Frames THEN [nd EXCEPT !.via[f] = l] ELSE nd
    IN
    IF e.closed THEN seen
    ELSE IF e.phase = "authed" THEN [seen EXCEPT !.end[l].chain = Append(e.chain, f)]
    ELSE [seen EXCEPT !.end[l].queue = Append(IF full THEN Tail(e.queue) ELSE e.queue, f),
                      !.dropped = IF full THEN nd.dropped \union {Head(e.queue)} ELSE nd.dropped]

(* Router.send: round-robin over the direct links, else the relayed ones. *)
Routes(nd, f) ==
    LET i == nd.next % (IF nd.direct > 0 THEN nd.direct ELSE Len(nd.links))
    IN Sends([nd EXCEPT !.next = i + 1], nd.links[i + 1], f)

Placeable(nd) == nd.links # << >> \/ nd.connecting # << >>

(* Core.place, where there is a link to place the frame on. *)
Places(nd, f) ==
    IF nd.links # << >> THEN Routes(nd, f) ELSE Sends(nd, nd.connecting[1], f)

(* ReqRes.peerDown: every request to the peer still open fails. *)
PeerDown(nd) == [nd EXCEPT !.failed = nd.failed \union nd.sent]

-----------------------------------------------------------------------------
(* The router's pool.                                                      *)

Lists(nd, l) ==
    IF nd.end[l].relayed
    THEN [nd EXCEPT !.links = Append(nd.links, l)]
    ELSE [nd EXCEPT !.links = InsertAt(nd.links, nd.direct + 1, l), !.direct = nd.direct + 1]

Unlists(nd, l) ==
    [nd EXCEPT !.links = Without(nd.links, l),
               !.direct = IF nd.end[l].relayed THEN nd.direct ELSE nd.direct - 1]

(* Router.remove: the last link out routes the held ones again, or marks   *)
(* the peer down.                                                          *)
Removes(nd, l) ==
    IF Contains(nd.held, l) THEN [nd EXCEPT !.held = Without(nd.held, l)]
    ELSE IF ~Contains(nd.links, l) THEN nd
    ELSE LET out == Unlists(nd, l) IN
         IF out.links # << >> THEN out
         ELSE IF out.held # << >> THEN FoldLeft(Lists, [out EXCEPT !.held = << >>], out.held)
         ELSE PeerDown([out EXCEPT !.next = 0])

(* Core.forget: out of routing, its queue to another link, and a dial that *)
(* died as the last way to its peer fails what waits on it.                *)
Forgets(nd, l) ==
    LET out == Removes([nd EXCEPT !.connecting = Without(nd.connecting, l)], l)
        bare == [out EXCEPT !.end[l].queue = << >>]
    IN
    IF Placeable(bare) THEN FoldLeft(Places, bare, nd.end[l].queue)
    ELSE IF nd.end[l].phase # "authed" /\ nd.end[l].weDialed THEN PeerDown(bare)
    ELSE bare

EndsAtOnce(nd, l, farewell) ==
    IF nd.end[l].closed THEN nd
    ELSE Forgets([nd EXCEPT !.end[l].closed = TRUE,
                            !.end[l].parting = farewell /\ ~nd.end[l].bye,
                            !.end[l].chain = <<"end">>], l)

(* Link.end: close() with a farewell, abort() without. *)
Ends(nd, l, farewell) ==
    LET e == nd.end[l] IN
    IF e.closed
    THEN IF farewell THEN nd ELSE [nd EXCEPT !.end[l].parting = FALSE]
    ELSE Forgets([nd EXCEPT !.end[l].closed = TRUE,
                            !.end[l].parting = farewell /\ ~e.bye,
                            !.end[l].chain = Append(e.chain, "end")], l)

Closes(nd, l) == Ends(nd, l, TRUE)
Aborts(nd, l) == Ends(nd, l, FALSE)

(* A close by choice, while the peer may still be writing. *)
Parts(nd, l) == Closes([nd EXCEPT !.parted = nd.parted \union {l}], l)

RetiresOnSight(nd, l) == Parts(nd, l)

(* Router.retire: only the end that dialed the loser closes it; the other  *)
(* keeps reading it.                                                       *)
Retires(nd, l) ==
    IF nd.end[l].weDialed THEN Parts(nd, l) ELSE [nd EXCEPT !.held = Append(nd.held, l)]

KeepsOwnDial(n, nd, l) == nd.end[l].weDialed

(* Router.canonicalKeep: the link the smaller identity dialed. *)
CanonicalKeep(n, nd, l) == nd.end[l].weDialed <=> n = "a"

Rivals(nd, l) ==
    SelectSeq(nd.links, LAMBDA r : /\ nd.end[r].weDialed # nd.end[l].weDialed
                                   /\ nd.end[r].relayed = nd.end[l].relayed)

(* Router.promote: the double-connect tie-break, then into the pool. *)
Promotes(n, nd, l) ==
    LET rivals == Rivals(nd, l) IN
    IF rivals = << >> THEN Lists(nd, l)
    ELSE IF ~CanonicalKeep(n, nd, l) THEN Retires(nd, l)
    ELSE Lists(Retires(Unlists(nd, rivals[1]), rivals[1]), l)

HoldsBack(nd, l) == Sends([Unlists(nd, l) EXCEPT !.held = Append(nd.held, l)], l, "retire")

(* Router.retireRelayed: the relayed links are read on, and the peer is    *)
(* asked to close them behind its last record.                             *)
RetiresRelayed(nd) ==
    IF nd.direct = 0 THEN nd
    ELSE FoldLeft(HoldsBack, nd, SubSeq(nd.links, nd.direct + 1, Len(nd.links)))

(* Direct.upgrade: the smaller key offers, once, while nothing direct is up. *)
Upgrades(n, nd) == IF n = "a" /\ nd.nego = 0 /\ nd.direct = 0 THEN [nd EXCEPT !.nego = -1] ELSE nd

(* Link.becomeAuthed as far as Core.onAuth; what stays queued is flushed. *)
Authenticates(n, nd, l) ==
    LET e == nd.end[l]
        in == Promotes(n, [nd EXCEPT !.end[l].phase = "authed",
                                     !.connecting = Without(nd.connecting, l)], l)
    IN
    IF ~Contains(in.links, l) THEN in
    ELSE IF e.relayed THEN Upgrades(n, in)
    ELSE IF e.weDialed THEN in
    ELSE RetiresRelayed(in)

-----------------------------------------------------------------------------
(* Steps that touch the wire.                                              *)

(* Nothing reaches an end that has closed (Link.onWire). *)
Put(w, n, l, msgs) ==
    IF node[Peer(n)].end[l].closed \/ l \in cut THEN w
    ELSE [w EXCEPT ![Peer(n)][l] = @ \o msgs]

(* An end that closes reads no more. *)
Deaf(w, n, nd) == [w EXCEPT ![n] = [l \in Links |-> IF nd.end[l].closed THEN << >> ELSE w[n][l]]]

Steps(n, nd, w) ==
    /\ node' = [node EXCEPT ![n] = nd]
    /\ wire' = Deaf(w, n, nd)

Took(n, l) == [wire EXCEPT ![n][l] = Tail(@)]

Arrives(n, l, m) == wire[n][l] # << >> /\ Head(wire[n][l]) = m

(* Link.onMsg1, onMsg2 and onMsg3. *)
OnMsg1(n, l) ==
    /\ Arrives(n, l, "m1")
    /\ Steps(n, [node[n] EXCEPT !.end[l].phase = "keyed"], Put(Took(n, l), n, l, <<"m2">>))
    /\ UNCHANGED <<opened, shut, cut, broken, got, faults>>

OnMsg2(n, l) ==
    LET nd == Authenticates(n, node[n], l)
    IN
    /\ Arrives(n, l, "m2")
    /\ Steps(n, [nd EXCEPT !.end[l].queue = << >>],
             Put(Took(n, l), n, l, <<"m3">> \o nd.end[l].queue))
    /\ UNCHANGED <<opened, shut, cut, broken, got, faults>>

OnMsg3(n, l) ==
    /\ Arrives(n, l, "m3")
    /\ Steps(n, Authenticates(n, node[n], l), Took(n, l))
    /\ UNCHANGED <<opened, shut, cut, broken, got, faults>>

(* Link.onRecord: a frame for the app, the goodbye, or a retire, which     *)
(* Core.onControl heeds only while a direct link routes.                   *)
OnFrame(n, l, f) ==
    /\ Arrives(n, l, f)
    /\ Steps(n, node[n], Took(n, l))
    /\ got' = [got EXCEPT ![f] = @ + 1]
    /\ UNCHANGED <<opened, shut, cut, broken, faults>>

OnGoodbye(n, l) ==
    /\ Arrives(n, l, "bye")
    /\ Steps(n, Closes([node[n] EXCEPT !.end[l].bye = TRUE], l), Took(n, l))
    /\ UNCHANGED <<opened, shut, cut, broken, got, faults>>

OnRetire(n, l) ==
    /\ Arrives(n, l, "retire")
    /\ Steps(n, IF node[n].end[l].relayed /\ node[n].direct > 0 THEN Closes(node[n], l) ELSE node[n],
             Took(n, l))
    /\ UNCHANGED <<opened, shut, cut, broken, got, faults>>

(* The next record of the work chain is sealed and put on the wire, unless *)
(* the link failed meanwhile.                                              *)
SealRecord(n, l) ==
    LET e == node[n].end[l]
        popped == [node[n] EXCEPT !.end[l].chain = Tail(e.chain)]
    IN
    /\ e.chain # << >> /\ Head(e.chain) # "end"
    /\ IF e.closed /\ ~e.parting THEN Steps(n, popped, wire)
       ELSE IF l \in cut THEN Steps(n, Aborts(popped, l), wire)
       ELSE Steps(n, popped, Put(wire, n, l, <<Head(e.chain)>>))
    /\ UNCHANGED <<opened, shut, cut, broken, got, faults>>

(* The last step of the chain: the goodbye of a deliberate close, then     *)
(* the channel's close, graceful only behind a goodbye.                    *)
Teardown(n, l) ==
    LET e == node[n].end[l]
        farewell == e.parting /\ e.phase = "authed" /\ l \notin cut
    IN
    /\ e.chain # << >> /\ Head(e.chain) = "end"
    /\ Steps(n, [node[n] EXCEPT !.end[l].chain = << >>],
             IF farewell THEN Put(wire, n, l, <<"bye">>) ELSE wire)
    /\ shut' = [shut EXCEPT ![n][l] = IF farewell THEN "clean" ELSE "reset"]
    /\ UNCHANGED <<opened, cut, broken, got, faults>>

Gone(n, l) ==
    \/ l \in cut
    \/ shut[Peer(n)][l] = "reset"
    \/ shut[Peer(n)][l] = "clean" /\ wire[n][l] = << >>

(* Link.onChannelClosed: the socket is gone; what it still carried is lost. *)
ChannelClosed(n, l) ==
    LET nd == node[n] IN
    /\ nd.end[l].phase # "none" /\ ~nd.end[l].closed
    /\ Gone(n, l)
    /\ Steps(n, Forgets([nd EXCEPT !.end[l].closed = TRUE], l), wire)
    /\ UNCHANGED <<opened, shut, cut, broken, got, faults>>

-----------------------------------------------------------------------------
(* Sending and dialing.                                                    *)

(* dialNow: how many links a dial begun now has to open. *)
Missing(nd) ==
    LET have == Len(nd.links) + Len(nd.connecting) IN IF have < Conns THEN Conns - have ELSE 0

Dials(nd) == IF nd.dialing = 0 THEN [nd EXCEPT !.dialing = Missing(nd)] ELSE nd

(* Core.sendFrame: on a link, else behind a dial, else refused at once. *)
Send(n, f) ==
    LET nd == [node[n] EXCEPT !.sent = @ \union {f}] IN
    /\ \A k \in Nodes : f \notin node[k].sent
    /\ Steps(n, IF Placeable(nd) THEN Places(nd, f)
                ELSE IF ~nd.known THEN [nd EXCEPT !.failed = @ \union {f}]
                ELSE Dials([nd EXCEPT !.waiting = Append(@, f)]), wire)
    /\ UNCHANGED <<opened, shut, cut, broken, got, faults>>

(* Core.ready and Core.dialPeer dial without a frame. *)
Dial(n) ==
    /\ node[n].known /\ node[n].dialing = 0 /\ Missing(node[n]) > 0
    /\ opened < NLinks
    /\ Steps(n, Dials(node[n]), wire)
    /\ UNCHANGED <<opened, shut, cut, broken, got, faults>>

PlacesOrFails(nd, f) ==
    IF Placeable(nd) THEN Places(nd, f) ELSE [nd EXCEPT !.failed = @ \union {f}]

(* The dial is over, and its senders try again. *)
Dialed(nd) == FoldLeft(PlacesOrFails, [nd EXCEPT !.dialing = 0, !.waiting = << >>], nd.waiting)

(* Both ends of a new link, dialed by n (Core.openLink). *)
Opens(n, nd, relayed) ==
    LET l == opened + 1
        new == [NoEnd EXCEPT !.phase = "half", !.relayed = relayed]
    IN
    /\ opened < NLinks
    /\ opened' = l
    /\ node' = [node EXCEPT ![n] = nd, ![Peer(n)].end[l] = new]
    /\ wire' = [wire EXCEPT ![Peer(n)][l] = <<"m1">>]
    /\ UNCHANGED <<shut, cut, broken, got, faults>>

Dialing(nd, relayed) ==
    [nd EXCEPT !.end[opened + 1] = [NoEnd EXCEPT !.phase = "half", !.weDialed = TRUE, !.relayed = relayed],
               !.connecting = Append(@, opened + 1)]

(* dialDest answers with a link; the last one ends the dial. *)
DialOpens(n, relayed) ==
    LET nd == Dialing(node[n], relayed) IN
    /\ node[n].dialing > 0 /\ node[n].known
    /\ Opens(n, IF nd.dialing = 1 THEN Dialed(nd) ELSE [nd EXCEPT !.dialing = @ - 1], relayed)

(* No route, or the peer was forgotten meanwhile: the link, if there was   *)
(* one, is closed unused.                                                  *)
DialFails(n) ==
    /\ node[n].dialing > 0
    /\ Steps(n, Dialed(node[n]), wire)
    /\ UNCHANGED <<opened, shut, cut, broken, got, faults>>

(* Direct.bindData: the negotiated path opens, dialed by the offering end. *)
DataOpens ==
    LET nd == Dialing(node["a"], FALSE) IN
    /\ node["a"].nego = -1
    /\ Opens("a", [nd EXCEPT !.nego = opened + 1], FALSE)

(* Direct.gone: declined, timed out, or its data link has closed. *)
NegotiationEnds ==
    LET nd == node["a"] IN
    /\ nd.nego # 0
    /\ nd.nego > 0 => nd.end[nd.nego].closed
    /\ Steps("a", [nd EXCEPT !.nego = 0], wire)
    /\ UNCHANGED <<opened, shut, cut, broken, got, faults>>

-----------------------------------------------------------------------------
(* What goes wrong, and what a node does unasked.                          *)

Fault == faults < MaxFaults /\ faults' = faults + 1

(* The socket dies (external). *)
Cut(l) ==
    /\ Fault
    /\ l \in 1..opened \ cut
    /\ cut' = cut \union {l}
    /\ broken' = broken \union {l}
    /\ wire' = [n \in Nodes |-> [wire[n] EXCEPT ![l] = << >>]]
    /\ UNCHANGED <<node, opened, shut, got>>

(* A handshake past its deadline, a full chain, a refused host call. *)
Abort(n, l) ==
    /\ Fault
    /\ node[n].end[l].phase # "none" /\ (node[n].end[l].closed => node[n].end[l].parting)
    /\ Steps(n, Aborts(node[n], l), wire)
    /\ broken' = broken \union {l}
    /\ UNCHANGED <<opened, shut, cut, got>>

(* Link.onWake: an authenticated link past its idle window closes. *)
IdleClose(n, l) ==
    /\ Fault
    /\ node[n].end[l].phase = "authed" /\ ~node[n].end[l].closed
    /\ Steps(n, Parts(node[n], l), wire)
    /\ UNCHANGED <<opened, shut, cut, broken, got>>

(* Core.forgetPeer *)
ForgetPeer(n) ==
    LET nd == [node[n] EXCEPT !.known = FALSE]
        undialed == FoldLeft(Aborts, nd, nd.connecting)
        parted == FoldLeft(Parts, undialed, undialed.links \o undialed.held)
    IN
    /\ Fault
    /\ node[n].known
    /\ Steps(n, [parted EXCEPT !.nego = IF @ = -1 THEN 0 ELSE @], wire)
    /\ UNCHANGED <<opened, shut, cut, broken, got>>

(* Core.addAddr *)
AddAddr(n) ==
    /\ ~node[n].known
    /\ Steps(n, [node[n] EXCEPT !.known = TRUE], wire)
    /\ UNCHANGED <<opened, shut, cut, broken, got, faults>>

Next ==
    \/ \E n \in Nodes, l \in Links :
         \/ OnMsg1(n, l) \/ OnMsg2(n, l) \/ OnMsg3(n, l)
         \/ \E f \in Frames : OnFrame(n, l, f)
         \/ OnGoodbye(n, l) \/ OnRetire(n, l)
         \/ SealRecord(n, l) \/ Teardown(n, l) \/ ChannelClosed(n, l)
         \/ Abort(n, l) \/ IdleClose(n, l)
    \/ \E n \in Nodes :
         \/ \E f \in Frames : Send(n, f)
         \/ Dial(n) \/ DialFails(n)
         \/ \E relayed \in Relayed : DialOpens(n, relayed)
         \/ ForgetPeer(n) \/ AddAddr(n)
    \/ DataOpens
    \/ NegotiationEnds
    \/ \E l \in Links : Cut(l)

Spec == Init /\ [][Next]_vars

-----------------------------------------------------------------------------
(* Properties.                                                             *)

InTransit(f) ==
    \E n \in Nodes :
      \/ Contains(node[n].waiting, f)
      \/ \E l \in Links : \/ Contains(node[n].end[l].queue, f)
                          \/ Contains(node[n].end[l].chain, f)
                          \/ Contains(wire[n][l], f)

(* Nothing is on its way, and each end knows of the other's close. *)
Quiet ==
    \A n \in Nodes, l \in Links :
      /\ wire[n][l] = << >> /\ node[n].end[l].chain = << >>
      /\ node[n].end[l].phase # "none" /\ ~node[n].end[l].closed => ~Gone(n, l)

(* Neither the tie-break nor the move to a direct link loses a record, and *)
(* none arrives twice though queues pass from a closing link to another:   *)
(* while nothing fails and no link is closed idle or forgotten, what was   *)
(* sent arrives, unless the double connect's loser was closed by its       *)
(* reader, who dialed it, the pre-auth queue was full or no dial succeeded.*)
NoRecordLost ==
    /\ \A f \in Frames : got[f] <= 1
    /\ faults = 0 =>
         \A n \in Nodes : \A f \in node[n].sent :
            \/ got[f] > 0
            \/ InTransit(f)
            \/ f \in node[n].failed \union node[n].dropped
            \/ LET l == node[n].via[f] IN l \in node[Peer(n)].parted /\ node[Peer(n)].end[l].weDialed

(* "A frame sent and a peer forgotten right after still arrives": what an  *)
(* end handed to a link before it closed it by choice is delivered ahead   *)
(* of the goodbye, unless that link fails or the reader closes it too.     *)
FarewellArrives ==
    \A n \in Nodes : \A f \in node[n].sent :
      LET l == node[n].via[f] IN
      /\ l \in node[n].parted \ broken
      /\ node[Peer(n)].end[l].closed => node[Peer(n)].end[l].bye
      => got[f] > 0 \/ InTransit(f) \/ f \in node[n].dropped

Writes(nd) == SubSeq(nd.links, 1, IF nd.direct > 0 THEN nd.direct ELSE Len(nd.links))

(* Once nothing is on its way, each end reads every link the other routes  *)
(* over, has a route while it reads any (when the winner goes first, the   *)
(* loser routes again), and unless something failed or was closed both     *)
(* write on the same links, no two of them a double connect (promote,      *)
(* remove, retire, retireRelayed).                                         *)
RoutesAgree ==
    Quiet =>
      /\ \A n \in Nodes : node[n].held # << >> => node[n].links # << >>
      /\ \A n \in Nodes : ToSet(node[n].links) \subseteq ToSet(node[Peer(n)].links \o node[Peer(n)].held)
      /\ faults = 0 => /\ ToSet(Writes(node["a"])) = ToSet(Writes(node["b"]))
                       /\ \A n \in Nodes : \A l \in ToSet(Writes(node[n])) : Rivals(node[n], l) = << >>
=============================================================================
