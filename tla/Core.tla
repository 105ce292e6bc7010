-------------------------------- MODULE Core --------------------------------
(***************************************************************************)
(* The transport's realm beside its links (transport/src/core.js): its     *)
(* request layer, its relays, its one wake, its limiter of accepted links, *)
(* its dials and the framing of a link.  A step is one turn of the realm   *)
(* or of its host.                                                         *)
(***************************************************************************)
EXTENDS Requests, Relays, Limiter, Dials, Framing

CONSTANT Bounds     \* what a behaviour may have, see BoundsType

(* Requests made, route changes, direct links that go while a relay stays, *)
(* requests received; homes joined, calls made, other deadlines, arms and  *)
(* opens the host refuses, wakes it drops, relay links lost; links         *)
(* accepted, and traffic; peers added and forgotten, links from and to     *)
(* them gone; a framed link, messages on it, pings, a frame out of order,  *)
(* its end.                                                                *)
Kinds == {"request", "route", "lapse", "receive", "join", "call", "deadline", "arm", "open", "drop", "lost",
          "accept", "touch", "address", "contact", "framed", "message", "ping", "stray", "end"}
BoundsType == [Kinds -> Nat]

ASSUME CoreAssumption == Bounds \subseteq BoundsType

VARIABLE left     \* what is left of the bounds

vars == <<requestVars, relayVars, wakeVars, limiterVars, dialVars, framingVars, left>>

Init == RequestsInit /\ WakesInit /\ RelaysInit /\ LimiterInit /\ DialsInit /\ FramingInit
        /\ left \in Bounds

Bounded(kind) == left[kind] > 0 /\ left' = [left EXCEPT ![kind] = @ - 1]
(* Arms refused in a turn, none or those it makes, count once. *)
May(no) == no => left["arm"] > 0
Spends(no, spent) == left' = IF no THEN [spent EXCEPT !["arm"] = @ - 1] ELSE spent
Spend(kind, no) == left[kind] > 0 /\ May(no) /\ Spends(no, [left EXCEPT ![kind] = @ - 1])

RequestLayer ==
    \/ \E p \in Peers : \/ Bounded("route") /\ (PeerDown(p) \/ RelayUp(p) \/ DirectUp(p))
                        \/ Bounded("lapse") /\ DirectGoes(p)
    \/ \E p \in Peers, n \in Sizes : \/ Bounded("request") /\ Request(p, n)
                                     \/ Bounded("receive") /\ OnRequest(p, n)
    \/ /\ \/ \E i \in DOMAIN deliveries : Delivered(i)
          \/ \E c \in Corrs : OnAnswer(c) \/ Timeout(c) \/ DialOver(c) \/ PeerAnswers(c)
       /\ UNCHANGED left

Addresses == [origin : Origins, key : Keys]
Backoffs == 1..2
RelayLayer ==
    \/ \E a \in Addresses \union {NoHome}, no \in BOOLEAN : Spend("join", no) /\ Join(a, no)
    \/ \E a \in Addresses : Bounded("call") /\ Call(a)
    \/ \E n \in DOMAIN calls : CallGoes(n) /\ UNCHANGED left
    \/ \E i \in ConnIds, wait \in Backoffs, no \in BOOLEAN :
          \/ \E found \in BOOLEAN : May(no) /\ Spends(no, left) /\ Opened(i, found, wait, no)
          \/ Spend("lost", no) /\ LinkLost(i, wait, no)
    \/ \E i \in ConnIds : \/ Registered(i) /\ UNCHANGED left
                          \/ Bounded("open") /\ OpenRefused(i)

WakeLayer ==
    \/ \E no \in BOOLEAN : May(no) /\ Spends(no, left) /\ Wake(no)
    \/ \E h \in Holders, wait \in Backoffs, no \in BOOLEAN : Spend("deadline", no) /\ Deadline(h, wait, no)
    \/ (Tick \/ HostArms \/ TimerFires \/ WakeSettles) /\ UNCHANGED <<relayVars, left>>
    \/ Bounded("arm") /\ HostRefuses /\ UNCHANGED relayVars
    \/ Bounded("drop") /\ WakeDropped /\ UNCHANGED relayVars

LimiterLayer ==
    \/ \E s \in Sources : Bounded("accept") /\ Accept(s)
    \/ \E i \in Slots : \/ Bounded("touch") /\ Touch(i)
                        \/ (Promote(i) \/ Hold(i) \/ LinkEnds(i)) /\ UNCHANGED left

DialLayer == \E p \in Contacts :
    \/ Bounded("address") /\ (AddAddr(p) \/ ForgetPeer(p))
    \/ Bounded("contact") /\ (PeerDials(p) \/ DialedGoes(p) \/ AcceptedGoes(p))
    \/ (Dial(p) \/ \E found \in BOOLEAN : DialOpens(p, found)) /\ UNCHANGED left

FramingLayer ==
    \/ \E c \in {"length", "ws", "message"}, d \in BOOLEAN : Bounded("framed") /\ LinkMade(c, d)
    \/ \E size \in 1..maxFrame, cut \in BOOLEAN : Bounded("message") /\ Send(size, cut)
    \/ Bounded("ping") /\ Pings
    \/ Bounded("stray") /\ Strays
    \/ \E farewell \in BOOLEAN : Bounded("end") /\ PeerEnds(farewell)
    \/ \E n \in 1..Len(stream) : Push(n) /\ UNCHANGED left
    \/ (PutHead \/ PeerOpens \/ Puts \/ Upgrades \/ Parse \/ Unmasked \/ Resumes \/ OnMessage) /\ UNCHANGED left

Next == \/ RequestLayer /\ UNCHANGED <<relayVars, wakeVars, limiterVars, dialVars, framingVars>>
        \/ (RelayLayer \/ WakeLayer) /\ UNCHANGED <<requestVars, limiterVars, dialVars, framingVars>>
        \/ LimiterLayer /\ UNCHANGED <<requestVars, relayVars, wakeVars, dialVars, framingVars>>
        \/ DialLayer /\ UNCHANGED <<requestVars, relayVars, wakeVars, limiterVars, framingVars>>
        \/ FramingLayer /\ UNCHANGED <<requestVars, relayVars, wakeVars, limiterVars, dialVars>>

Spec == Init /\ [][Next]_vars
=============================================================================
