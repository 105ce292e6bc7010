---------------------------- MODULE Negotiations ----------------------------
(***************************************************************************)
(* A node's negotiations of direct paths with its peers: who holds which,  *)
(* what each holds, and how each ends (transport/src/direct.js, and the    *)
(* sockets of transport/src/udp.js).                                       *)
(*                                                                         *)
(* The code awaits the host at every opening, so upgrades, the peers'      *)
(* signals, closes and deadlines come between its steps; each action is    *)
(* one turn.  A peer sends any signal that fits what it was sent.  How two *)
(* ends find a path is in module UdpPaths, the stream on it in UdpStream.  *)
(***************************************************************************)
EXTENDS Integers, Sequences, FiniteSets, FiniteSetsExt, Sums

CONSTANTS
    Peers,
    Larger,                      \* the peers whose key is the larger: this node offers
    maxNegotiating,              \* config maxRtcNegotiating
    BIRTHDAY_SOCKETS, BIRTHDAY_BINDS, MAX_NODE_BIRTHDAY_SOCKETS,
    MaxQueued,                   \* signals of one peer the weight limit lets queue
    MaxNegotiations,             \* no bound allows more negotiations
    NegBounds                    \* what else a behaviour may have, see NegBoundsType

(* Negotiations begun, upgrades asked for, signals received, signals not   *)
(* sent for want of a link, opens the host-call budget refuses, and facts  *)
(* learnt of NATs.                                                         *)
NegBoundsType == [begin : 0..MaxNegotiations, upgrade : Nat, signal : Nat, unsent : Nat, refuse : Nat, learn : Nat]

ASSUME NegotiationsAssumption ==
    /\ Larger \subseteq Peers
    /\ {maxNegotiating, BIRTHDAY_SOCKETS, BIRTHDAY_BINDS, MAX_NODE_BIRTHDAY_SOCKETS,
        MaxQueued, MaxNegotiations} \subseteq Nat \ {0}
    /\ NegBounds \subseteq NegBoundsType

VARIABLES
    neg,       \* the negotiations begun, in order: see NewNegotiation
    byPeer,    \* by peer: its current negotiation, or 0
    trying,    \* upgrades about to open the next of their schemes
    queue,     \* by peer: its signals not yet applied
    busy,      \* by peer: the negotiation its first queued signal is opening, or 0
    budget,    \* birthdayBudget
    refused,   \* history, by peer: a UDP path was declined, or the host had no socket for one
    negLeft    \* what is left of the bounds

negotiationVars == <<neg, byPeer, trying, queue, busy, budget, refused, negLeft>>

Negs == 1..Len(neg)
SCHEMES == <<"udp", "rtc">>

NewNegotiation(p, offer, sid, scheme, rest) ==
    [peer |-> p, offer |-> offer, sid |-> sid, scheme |-> scheme,
     rest |-> rest,        \* the schemes left if this one comes to nothing
     stage |-> "opening",  \* then "drawing" its entropy (UDP), "open", "none", or "refused"
     inCtl |-> FALSE,      \* in byCtl, and its NegotiationLink in linksById
     gone |-> FALSE,
     early |-> FALSE,      \* its data link came before it was recorded
     data |-> "none",      \* its data link: "open", "authed" or "closed"
     closing |-> FALSE,    \* its links' closed events are on their way
     dead |-> FALSE,       \* its UdpNegotiation, or the host's connection, has closed
     told |-> FALSE,       \* the peer's description has been applied
     waited |-> FALSE,     \* BIRTHDAY_AFTER_MS of plain rounds have passed
     nat |-> "unknown",    \* what its STUN answers say: "easy", then perhaps "hard"
     peerHard |-> FALSE,
     path |-> FALSE,
     sockets |-> 0,        \* the sockets the host holds for it
     asked |-> FALSE,      \* its birthday sockets were asked for (extra # null)
     toBind |-> 0, binding |-> 0,
     reserved |-> 0,       \* reservedExtra
     spraying |-> FALSE]

NegotiationsInit == /\ neg = << >>
                    /\ byPeer = [p \in Peers |-> 0]
                    /\ trying = {}
                    /\ queue = [p \in Peers |-> << >>]
                    /\ busy = [p \in Peers |-> 0]
                    /\ budget = MAX_NODE_BIRTHDAY_SOCKETS
                    /\ refused = [p \in Peers |-> FALSE]
                    /\ negLeft \in NegBounds

NegBounded(kind) == negLeft[kind] > 0 /\ negLeft' = [negLeft EXCEPT ![kind] = @ - 1]

pending == Cardinality({p \in Peers : byPeer[p] # 0 /\ neg[byPeer[p]].data # "authed"})
hasDirect(p) == \E n \in Negs : neg[n].peer = p /\ neg[n].data = "authed"

(* ---- ending a negotiation ---- *)

takeSockets(n) == Min({n, budget})

(* Every socket but one closes (or all), and the reservation is returned. *)
keepOnly(e, keep) == [e EXCEPT !.sockets = keep, !.reserved = 0]

(* A negotiation closes, once it is there to close; its links hear of it   *)
(* on a later turn.                                                        *)
Closed(e) == IF e.dead \/ e.stage # "open" THEN e
             ELSE [keepOnly(e, 0) EXCEPT !.dead = TRUE, !.closing = TRUE]

gone(e) == [e EXCEPT !.inCtl = FALSE, !.gone = TRUE]

(* The budget once negotiation n has become e: what it held comes back. *)
Returned(n, e) == budget + neg[n].reserved - e.reserved

(* Direct.drop, and gone: it leaves byPeer if it is the current one. *)
drop(n) ==
    LET e == Closed(gone(neg[n]))
    IN /\ neg' = [neg EXCEPT ![n] = e]
       /\ budget' = Returned(n, e)
       /\ byPeer' = [byPeer EXCEPT ![neg[n].peer] = IF @ = n THEN 0 ELSE @]

(* ---- opening one ---- *)

(* Direct.open up to its await. *)
Begins(p, offer, sid, schemes) ==
    /\ Len(neg) < negLeft.begin
    /\ neg' = Append(neg, NewNegotiation(p, offer, sid, Head(schemes), Tail(schemes)))
    /\ byPeer' = [byPeer EXCEPT ![p] = Len(neg) + 1]

(* Direct.upgrade: checked before the sid is drawn, and not after.  A sid  *)
(* is its own, named by what asked for it.                                 *)
upgrade(p, sid, schemes) ==
    trying' = IF p \notin Larger \/ byPeer'[p] # 0 \/ hasDirect(p) \/ schemes = << >> THEN trying
              ELSE trying \union {[peer |-> p, sid |-> sid, schemes |-> schemes]}

(* A relayed link to the peer has authenticated. *)
Upgrade(p) == /\ NegBounded("upgrade")
              /\ UNCHANGED byPeer
              /\ upgrade(p, <<"up", negLeft.upgrade>>, SCHEMES)
              /\ UNCHANGED <<neg, queue, busy, budget, refused>>

(* An upgrade goes on to its next scheme, the cap allowing. *)
Try(t) ==
    /\ trying' = trying \ {t}
    /\ IF pending >= maxNegotiating THEN UNCHANGED <<neg, byPeer>>
       ELSE Begins(t.peer, TRUE, t.sid, t.schemes)
    /\ UNCHANGED <<queue, busy, budget, refused, negLeft>>

(* The host binds a UDP negotiation its socket, and its entropy is drawn. *)
Bound(n) ==
    /\ neg[n].stage = "opening" /\ neg[n].scheme = "udp"
    /\ neg' = [neg EXCEPT ![n].stage = "drawing", ![n].sockets = 1]
    /\ UNCHANGED <<byPeer, trying, queue, busy, budget, refused, negLeft>>

(* Where the opening went on: an upgrade has its next scheme to try, and   *)
(* an offer's signal is done.                                              *)
Resumes(n, ok) ==
    LET e == neg[n]
    IN IF e.offer
       THEN /\ trying' = IF ok \/ e.rest = << >> THEN trying
                         ELSE trying \union {[peer |-> e.peer, sid |-> e.sid, schemes |-> e.rest]}
            /\ UNCHANGED <<queue, busy>>
       ELSE /\ queue' = [queue EXCEPT ![e.peer] = Tail(@)]
            /\ busy' = [busy EXCEPT ![e.peer] = 0]
            /\ UNCHANGED trying

(* Direct.open after its await, with no negotiation or one no longer       *)
(* wanted: nobody is left holding it.                                      *)
Superseded(n) == neg[n].gone \/ byPeer[neg[n].peer] # n
Waits(n) == neg[n].stage \in {"opening", "drawing"}
OpenFails(n) ==
    /\ Waits(n)
    /\ neg' = [neg EXCEPT ![n] = [keepOnly(gone(@), 0) EXCEPT !.stage = "none", !.dead = TRUE, !.early = FALSE]]
    /\ byPeer' = [byPeer EXCEPT ![neg[n].peer] = IF @ = n THEN 0 ELSE @]
    /\ refused' = [refused EXCEPT ![neg[n].peer] = @ \/ (neg[n].scheme = "udp" /\ ~Superseded(n))]
    /\ Resumes(n, FALSE)
    /\ UNCHANGED <<budget, negLeft>>

(* link/open of an rtc: negotiation is refused by the host-call budget:    *)
(* HostNegotiation.open rejects, and Direct.open with it before anything   *)
(* after its await.  The peer's entry stays, with neither a link nor a     *)
(* deadline.  The upgrade ends, or the offer's signal is done.  (udp.js    *)
(* catches its own refusals, and answers that there is no negotiation.)    *)
OpenRejects(n) ==
    /\ neg[n].stage = "opening" /\ neg[n].scheme = "rtc" /\ ~neg[n].early
    /\ NegBounded("refuse")
    /\ neg' = [neg EXCEPT ![n].stage = "refused"]
    /\ Resumes(n, TRUE)
    /\ UNCHANGED <<byPeer, budget, refused>>

(* ... and with one: it is recorded, a data link that came early is its,   *)
(* and it starts.  An offer not sent drops it; an answering one is told    *)
(* the offer it was opened for.                                            *)
OpenSucceeds(n) ==
    /\ neg[n].stage = (IF neg[n].scheme = "udp" THEN "drawing" ELSE "opening")
    /\ ~Superseded(n)
    /\ LET e == [neg[n] EXCEPT !.stage = "open", !.inCtl = TRUE, !.early = FALSE, !.told = ~neg[n].offer,
                               !.data = IF neg[n].early THEN "open" ELSE "none"]
       IN \/ /\ neg' = [neg EXCEPT ![n] = e]
             /\ UNCHANGED <<byPeer, negLeft>>
          \/ /\ e.offer /\ NegBounded("unsent")
             /\ neg' = [neg EXCEPT ![n] = Closed(gone(e))]
             /\ byPeer' = [byPeer EXCEPT ![e.peer] = 0]
    /\ Resumes(n, TRUE)
    /\ UNCHANGED <<budget, refused>>

(* ---- signals ---- *)

(* Direct.receive: a signal queues, or costs the peer its negotiation. *)
Receive(p, m) ==
    /\ NegBounded("signal")
    /\ IF Len(queue[p]) < MaxQueued
       THEN queue' = [queue EXCEPT ![p] = Append(@, m)] /\ UNCHANGED <<neg, byPeer, budget>>
       ELSE /\ IF byPeer[p] # 0 THEN drop(byPeer[p]) ELSE UNCHANGED <<neg, byPeer, budget>>
            /\ UNCHANGED queue
    /\ UNCHANGED <<trying, busy, refused>>

(* What a peer may send: offers of its own, if it is the smaller, with a   *)
(* new sid once it has restarted; else answers to what it was offered.     *)
Signals(p) ==
    IF p \in Larger
    THEN {[tag |-> t, sid |-> neg[n].sid, scheme |-> "none"] :
             t \in {"answer", "decline"}, n \in {k \in Negs : neg[k].peer = p /\ neg[k].stage = "open"}}
    ELSE {[tag |-> "offer", sid |-> s, scheme |-> c] : s \in {<<"peer", 1>>, <<"peer", 2>>}, c \in {"udp", "rtc"}}

(* Direct.onSignal, one of a peer's at a time. *)
Done(p) == queue' = [queue EXCEPT ![p] = Tail(@)] /\ UNCHANGED busy
OnOffer(p) ==
    /\ queue[p] # << >> /\ busy[p] = 0 /\ Head(queue[p]).tag = "offer"
    /\ LET m == Head(queue[p])
           current == byPeer[p]
           known == current # 0 /\ neg[current].sid = m.sid
           others == Cardinality({q \in Peers \ {p} : byPeer[q] # 0 /\ neg[byPeer[q]].data # "authed"})
       IN IF known
          THEN /\ Done(p)
               /\ neg' = [neg EXCEPT ![current].told = @ \/ neg[current].stage = "open"]
               /\ UNCHANGED <<byPeer, budget>>
          ELSE \* a new negotiation replaces the peer's last, and may meet the cap
            LET dropped == IF current = 0 THEN neg ELSE [neg EXCEPT ![current] = Closed(gone(@))]
            IN /\ budget' = IF current = 0 THEN budget ELSE Returned(current, dropped[current])
               /\ IF others >= maxNegotiating
                  THEN /\ Done(p)
                       /\ neg' = dropped
                       /\ byPeer' = [byPeer EXCEPT ![p] = 0]
                  ELSE /\ Len(neg) < negLeft.begin
                       /\ neg' = Append(dropped, NewNegotiation(p, FALSE, m.sid, m.scheme, << >>))
                       /\ byPeer' = [byPeer EXCEPT ![p] = Len(neg) + 1]
                       /\ busy' = [busy EXCEPT ![p] = Len(neg) + 1]
                       /\ UNCHANGED queue
    /\ UNCHANGED <<trying, refused, negLeft>>

OnAnswer(p) ==
    /\ queue[p] # << >> /\ Head(queue[p]).tag \in {"answer", "decline"}
    /\ LET m == Head(queue[p])
           current == byPeer[p]
           mine == current # 0 /\ neg[current].sid = m.sid
       IN IF mine /\ m.tag = "decline"
          THEN /\ drop(current)
               /\ upgrade(p, <<"next", current>>, IF neg[current].scheme = "udp" THEN <<"rtc">> ELSE << >>)
               /\ refused' = [refused EXCEPT ![p] = @ \/ neg[current].scheme = "udp"]
          ELSE /\ neg' = IF mine THEN [neg EXCEPT ![current].told = @ \/ neg[current].stage = "open"] ELSE neg
               /\ UNCHANGED <<byPeer, budget, trying, refused>>
    /\ Done(p)
    /\ UNCHANGED negLeft

(* ---- sockets for a hard NAT ---- *)

(* Birthday sockets are for a hard end facing an easy one. *)
WantsSocketsAnyway(e) == e.nat = "hard" /\ ~e.asked
WantsSockets(e) == e.nat = "hard" /\ ~e.peerHard /\ ~e.asked
WantsSpray(e) == ~e.spraying /\ e.nat = "easy" /\ e.peerHard

(* UdpNegotiation.birthday, with what the negotiation has become. *)
birthday(n, e) ==
    LET got == takeSockets(BIRTHDAY_SOCKETS)
        binds == Min({got, BIRTHDAY_BINDS})
        ready == e.waited /\ ~e.dead /\ ~e.path /\ e.told
    IN IF ready /\ WantsSockets(e)
       THEN /\ neg' = [neg EXCEPT ![n] = [e EXCEPT !.asked = TRUE, !.reserved = got,
                                                   !.binding = binds, !.toBind = got - binds]]
            /\ budget' = budget - got
       ELSE IF ready /\ WantsSpray(e) /\ got = BIRTHDAY_SOCKETS
       THEN /\ neg' = [neg EXCEPT ![n] = [e EXCEPT !.spraying = TRUE, !.reserved = got]]
            /\ budget' = budget - got
       ELSE neg' = [neg EXCEPT ![n] = e] /\ UNCHANGED budget

(* What moves it: the plain rounds' time is up, a STUN answer, or the peer *)
(* says it is hard.  A third STUN answer may differ from two that agreed.  *)
Learns(n) ==
    /\ neg[n].stage = "open" /\ neg[n].scheme = "udp" /\ ~neg[n].dead /\ ~neg[n].path /\ neg[n].told
    /\ NegBounded("learn")
    /\ \/ ~neg[n].waited /\ birthday(n, [neg[n] EXCEPT !.waited = TRUE])
       \/ \E nat \in {"easy", "hard"} : /\ neg[n].nat # "hard" /\ nat # neg[n].nat
                                        /\ birthday(n, [neg[n] EXCEPT !.nat = nat])
       \/ ~neg[n].peerHard /\ birthday(n, [neg[n] EXCEPT !.peerHard = TRUE])
    /\ UNCHANGED <<byPeer, trying, queue, busy, refused>>

(* A birthday socket's bind is answered: addExtra, and the next bind. *)
KeepsAnyway(e) == TRUE
KeepsExtra(e) == ~e.dead /\ ~e.path
AddExtra(n) ==
    /\ neg[n].binding > 0
    /\ \E bound \in BOOLEAN :
         LET e == neg[n]
             again == e.toBind > 0 /\ ~e.dead /\ ~e.path
         IN neg' = [neg EXCEPT ![n] = [e EXCEPT
                       !.sockets = IF bound /\ KeepsExtra(e) THEN @ + 1 ELSE @,
                       !.binding = IF again THEN @ ELSE @ - 1,
                       !.toBind = IF again THEN @ - 1 ELSE @]]
    /\ UNCHANGED <<byPeer, trying, queue, busy, budget, refused, negLeft>>

(* ---- the data link, and ends ---- *)

(* A path is found: the other sockets close, and the stream is the data    *)
(* link (choose, bindData).                                                *)
ChoosePath(n) ==
    /\ neg[n].stage = "open" /\ neg[n].scheme = "udp" /\ neg[n].told /\ ~neg[n].path /\ ~neg[n].dead
    /\ LET e == [keepOnly(neg[n], 1) EXCEPT !.path = TRUE, !.data = "open"]
       IN neg' = [neg EXCEPT ![n] = e] /\ budget' = Returned(n, e)
    /\ UNCHANGED <<byPeer, trying, queue, busy, refused, negLeft>>

(* The host announces the data channel of an rtc: negotiation, perhaps     *)
(* before its opening has been recorded.                                   *)
HostData(n) ==
    /\ neg[n].scheme = "rtc" /\ ~neg[n].dead /\ neg[n].data = "none" /\ ~neg[n].early
    /\ neg[n].stage \in {"opening", "open"}
    /\ neg' = [neg EXCEPT ![n] = IF @.stage = "opening" THEN [@ EXCEPT !.early = TRUE]
                                 ELSE [@ EXCEPT !.data = "open"]]
    /\ UNCHANGED <<byPeer, trying, queue, busy, budget, refused, negLeft>>

Authenticates(n) ==
    /\ neg[n].data = "open" /\ ~neg[n].dead
    /\ neg' = [neg EXCEPT ![n].data = "authed"]
    /\ UNCHANGED <<byPeer, trying, queue, busy, budget, refused, negLeft>>

(* A connection ends: its stream stops, its data link closes, the host     *)
(* gives it up, or its peer's signal is malformed.                         *)
LinkEnds(n) ==
    /\ neg[n].stage = "open" /\ ~neg[n].dead
    /\ neg' = [neg EXCEPT ![n] = Closed(@)]
    /\ budget' = Returned(n, Closed(neg[n]))
    /\ UNCHANGED <<byPeer, trying, queue, busy, refused, negLeft>>

(* The closed events of its links. *)
ChannelClosed(n) ==
    /\ neg[n].closing
    /\ neg' = [neg EXCEPT ![n] = [gone(neg[n]) EXCEPT !.closing = FALSE,
                                                      !.data = IF neg[n].data = "none" THEN "none" ELSE "closed"]]
    /\ byPeer' = [byPeer EXCEPT ![neg[n].peer] = IF @ = n THEN 0 ELSE @]
    /\ UNCHANGED <<trying, queue, busy, budget, refused, negLeft>>

(* No data link by connectTimeoutMs (NegotiationLink.onWake). *)
TimesOutNever(e) == FALSE
TimesOut(e) == e.inCtl /\ e.data = "none" /\ ~e.gone
Deadline(n) == /\ TimesOut(neg[n])
               /\ drop(n)
               /\ UNCHANGED <<trying, queue, busy, refused, negLeft>>

(* The peer is forgotten (Core.forgetPeer). *)
Forget(p) == /\ byPeer[p] # 0 /\ neg[byPeer[p]].data = "none"
             /\ drop(byPeer[p])
             /\ UNCHANGED <<trying, queue, busy, refused, negLeft>>

OpenSettles(n) == OpenSucceeds(n) \/ OpenFails(n) \/ OpenRejects(n)
OnSignal(p) == OnOffer(p) \/ OnAnswer(p)

NegotiationsNext == \/ \E p \in Peers : Upgrade(p) \/ OnSignal(p) \/ Forget(p) \/ \E m \in Signals(p) : Receive(p, m)
                    \/ \E t \in trying : Try(t)
                    \/ \E n \in Negs : \/ Bound(n) \/ OpenSettles(n) \/ Learns(n) \/ AddExtra(n) \/ ChoosePath(n)
                                       \/ HostData(n) \/ Authenticates(n) \/ LinkEnds(n) \/ ChannelClosed(n) \/ Deadline(n)

NegotiationsSpec == NegotiationsInit /\ [][NegotiationsNext]_negotiationVars

(* The host answers every call, events are delivered, the wake comes, and  *)
(* a handshake has a timeout of its own (Link).                            *)
NegotiationsFairness == \A n \in 1..MaxNegotiations :
              /\ WF_negotiationVars(n \in Negs /\ OpenSettles(n)) /\ WF_negotiationVars(n \in Negs /\ ChannelClosed(n))
              /\ WF_negotiationVars(n \in Negs /\ Deadline(n)) /\ WF_negotiationVars(n \in Negs /\ AddExtra(n))
              /\ WF_negotiationVars(n \in Negs /\ neg[n].data = "open" /\ (Authenticates(n) \/ LinkEnds(n)))
NegotiationsFairSpec == NegotiationsSpec /\ NegotiationsFairness
-----------------------------------------------------------------------------
(* What negotiations have reserved and what is left are the whole budget,  *)
(* after refusals, late binds, and NATs found harder than they looked      *)
(* (birthday, keepOnly).                                                   *)
BudgetExact == budget + SumSeq([n \in Negs |-> neg[n].reserved]) = MAX_NODE_BIRTHDAY_SOCKETS

(* A peer's entry is a negotiation being opened, one that is recorded and  *)
(* so has its deadline, or one whose open the host refused, and none that  *)
(* ended while the host was opening it.  One that has ended or that found  *)
(* no host holds no socket, not even one bound for it later; one with a    *)
(* path holds that path's socket, another its own and what it reserved;    *)
(* and a data link not about to close is a recorded negotiation's          *)
(* (keepOnly, addExtra, open, drop).                                       *)
NothingLeft ==
    /\ \A p \in Peers : byPeer[p] # 0 =>
         LET e == neg[byPeer[p]]
         IN e.peer = p /\ ~e.gone /\ (Waits(byPeer[p]) \/ e.inCtl \/ e.stage = "refused")
    /\ \A n \in Negs :
         LET e == neg[n] IN
         /\ e.sockets <= IF e.dead THEN 0 ELSE IF e.path THEN 1 ELSE 1 + e.reserved
         /\ e.inCtl => ~e.gone
         /\ e.data \in {"open", "authed"} => e.inCtl \/ e.closing

(* Every negotiation begun comes to an authenticated link or to its end,   *)
(* and then leaves its peer free, save one whose open the host refused     *)
(* (NegotiationLink.onWake, drop).                                         *)
Settled(n) == neg[n].data = "authed" \/ (neg[n].gone /\ neg[n].binding = 0)
EverySettles == <>[](\A n \in Negs : Settled(n) \/ neg[n].stage = "refused")

(* "... for either kind the deadline its data link has to open by"         *)
(* (direct.js, NegotiationLink): a peer's entry no longer being opened has *)
(* its NegotiationLink.  Refuted: see README.                              *)
EntriesTimed == \A p \in Peers : byPeer[p] # 0 => Waits(byPeer[p]) \/ neg[byPeer[p]].inCtl

(* "A node offers the first it has, and the next when the peer declines"   *)
(* (direct.js, header).  Refuted: see README.                              *)
OffersInOrder == \A n \in Negs : neg[n].offer /\ neg[n].scheme = "rtc" /\ neg[n].stage = "open" => refused[neg[n].peer]
=============================================================================
