------------------------------ MODULE Requests ------------------------------
(***************************************************************************)
(* The transport's request layer at one node (transport/src/router.js      *)
(* ReqRes, with core.js sendFrame): its apps' requests to peers, held back *)
(* while a peer is reached only through relays, and the peers' requests it *)
(* hands its host, inside a window they share.                             *)
(*                                                                         *)
(* Peers, their routes and the host's answers are the environment's.  A    *)
(* frame's bytes are a small size, a delivered request's weight too.       *)
(* Correlation numbers wrap at 2^32 in the code: fewer are ever            *)
(* outstanding, so here each request has its own.  Requests time out in    *)
(* the order they were made, as they do in `pending`.                      *)
(***************************************************************************)
EXTENDS Integers, Sequences, FiniteSets, SequencesExt, Sums

CONSTANTS
    Peers,
    Sizes,             \* frame sizes, and weights of delivered requests
    maxFrameBytes,     \* what a peer's relay window holds
    deliveryWindow, maxRequestWeight

ASSUME RequestsAssumption ==
    /\ {maxFrameBytes, deliveryWindow, maxRequestWeight} \subseteq Nat \ {0}
    /\ Sizes \subseteq 1..maxRequestWeight
    /\ 2 * maxRequestWeight <= deliveryWindow

VARIABLES
    req,         \* the requests made, in order: see request
    route,       \* by peer: "none", "relayed" or "direct"
    relayed,     \* by peer: its relay window, [open, bytes, waiting]
    underway,    \* requests' frames a link has taken, and not lost
    answers,     \* answers on their way back
    deliveries,  \* the peers' requests waiting on link/deliver, [from, weight]
    delivering,  \* by peer: the weight of its own
    deliveringWeight

deliveryVars == <<deliveries, delivering, deliveringWeight>>
requestVars == <<req, route, relayed, underway, answers, deliveryVars>>

NoWindow == [open |-> FALSE, bytes |-> 0, waiting |-> << >>]

RequestsInit == /\ req = << >>
                /\ route = [p \in Peers |-> "none"]
                /\ relayed = [p \in Peers |-> NoWindow]
                /\ underway = {} /\ answers = {}
                /\ deliveries = << >> /\ delivering = [p \in Peers |-> 0] /\ deliveringWeight = 0

Corrs == 1..Len(req)
Pending(r) == r.result = "none"

(* ---- sending ---- *)

(* put, sendFrame: a link takes the frame, or a dial is begun for it. *)
Put(r) == [r EXCEPT !.held = FALSE, !.dialing = route[r.to] = "none"]

(* Whether a held request fits: an empty window takes any. *)
Fits(bytes, size) == bytes <= 0 \/ bytes + size <= maxFrameBytes

(* The window's bytes, with the first i of those that wait sent. *)
Filled(reqs, q, i) ==
    q.bytes + SumSeq([k \in 1..i |-> IF Pending(reqs[q.waiting[k]]) THEN reqs[q.waiting[k]].size ELSE 0])

(* pumpRelayed's walk over what waits, those settled meanwhile skipped: it *)
(* stops at the first that does not fit.                                   *)
Walk(reqs, q, direct) ==
    LET live == {i \in 1..Len(q.waiting) : Pending(reqs[q.waiting[i]])}
        stops == {i \in live : ~direct /\ ~Fits(Filled(reqs, q, i - 1), reqs[q.waiting[i]].size)}
        n == IF stops = {} THEN Len(q.waiting) ELSE Min(stops) - 1
    IN [sent |-> {q.waiting[i] : i \in {k \in live : k <= n}},
        bytes |-> IF direct THEN q.bytes ELSE Filled(reqs, q, n),
        rest |-> SubSeq(q.waiting, n + 1, Len(q.waiting))]

(* pumpRelayed(to), given the requests, windows and routes as they stand:  *)
(* what becomes of them.                                                   *)
pumpRelayed(reqs, q, direct) ==
    IF ~q.open THEN [req |-> reqs, window |-> q, sent |-> {}]
    ELSE LET w == Walk(reqs, q, direct)
         IN [req |-> [c \in DOMAIN reqs |->
                        IF c \notin w.sent THEN reqs[c]
                        ELSE [reqs[c] EXCEPT !.held = FALSE, !.relayedBytes = IF direct THEN @ ELSE reqs[c].size]],
             window |-> IF w.rest = << >> /\ (direct \/ w.bytes = 0) THEN NoWindow
                        ELSE [q EXCEPT !.bytes = w.bytes, !.waiting = w.rest],
             sent |-> w.sent]

Pumps(p, reqs, q, direct) ==
    LET r == pumpRelayed(reqs, q, direct)
    IN /\ req' = r.req
       /\ relayed' = [relayed EXCEPT ![p] = r.window]
       /\ underway' = underway \union r.sent

(* An app's request; one that wants no answer is only put, and is not kept *)
(* here.  To a peer reached through relays alone it waits its turn.        *)
request(p, size, held) ==
    [to |-> p, size |-> size, held |-> held, dialing |-> FALSE, relayedBytes |-> 0,
     result |-> "none", settled |-> 0]
Request(p, size) ==
    /\ LET c == Len(req) + 1
           q == [relayed[p] EXCEPT !.open = TRUE, !.waiting = Append(@, c)]
       IN IF route[p] = "relayed"
          THEN Pumps(p, Append(req, request(p, size, TRUE)), q, FALSE)
          ELSE /\ req' = Append(req, Put(request(p, size, FALSE)))
               /\ underway' = IF route[p] = "none" THEN underway ELSE underway \union {c}
               /\ UNCHANGED relayed
    /\ UNCHANGED <<route, answers, deliveryVars>>

(* ---- settling ---- *)

(* finish: the request is settled, once, and its room in the window goes   *)
(* to the next.                                                            *)
FinishesAgain(r) == TRUE
Finishes(r) == Pending(r)
Settle(r, result) == [r EXCEPT !.result = result, !.settled = @ + 1, !.held = FALSE]
finish(c, result) ==
    LET r == req[c]
        reqs == [req EXCEPT ![c] = Settle(@, result)]
        q == relayed[r.to]
    IN IF ~Finishes(r) THEN UNCHANGED <<req, relayed, underway>>
       ELSE IF r.relayedBytes > 0 /\ q.open
       THEN Pumps(r.to, reqs, [q EXCEPT !.bytes = @ - r.relayedBytes], route[r.to] # "relayed")
       ELSE req' = reqs /\ UNCHANGED <<relayed, underway>>

(* An answer arrives, from the peer the request went to. *)
OnAnswer(c) == /\ c \in answers
               /\ answers' = answers \ {c}
               /\ finish(c, "answered")
               /\ UNCHANGED <<route, deliveryVars>>

(* onWake: the oldest request has timed out. *)
Timeout(c) == /\ Pending(req[c]) /\ \A d \in 1..(c - 1) : ~Pending(req[d])
              /\ finish(c, "failed")
              /\ UNCHANGED <<route, answers, deliveryVars>>

(* The dial for a frame is over, and a link takes it, or none does. *)
DialOver(c) ==
    /\ req[c].dialing
    /\ IF route[req[c].to] = "none"
       THEN LET r == [req[c] EXCEPT !.dialing = FALSE]
            IN /\ req' = [req EXCEPT ![c] = IF Finishes(r) THEN Settle(r, "failed") ELSE r]
               /\ UNCHANGED underway
       ELSE /\ req' = [req EXCEPT ![c].dialing = FALSE]
            /\ underway' = underway \union {c}
    /\ UNCHANGED <<route, relayed, answers, deliveryVars>>

(* peerDown: the window goes first, so that no failure sends into it. *)
PeerDown(p) ==
    /\ route[p] # "none"
    /\ route' = [route EXCEPT ![p] = "none"]
    /\ relayed' = [relayed EXCEPT ![p] = NoWindow]
    /\ req' = [c \in Corrs |-> IF req[c].to = p /\ Pending(req[c]) THEN Settle(req[c], "failed") ELSE req[c]]
    /\ underway' = {c \in underway : req[c].to # p}
    /\ UNCHANGED <<answers, deliveryVars>>

(* ---- routes and peers ---- *)

RelayUp(p) == /\ route[p] = "none"
              /\ route' = [route EXCEPT ![p] = "relayed"]
              /\ UNCHANGED <<req, relayed, underway, answers, deliveryVars>>

(* A direct link authenticates, and takes all that waits. *)
PumpsDirect(p) == Pumps(p, req, relayed[p], TRUE)
DirectUp(p) == /\ route[p] # "direct"
               /\ route' = [route EXCEPT ![p] = "direct"]
               /\ PumpsDirect(p)
               /\ UNCHANGED <<answers, deliveryVars>>

(* The direct link goes, and the relayed one it was to replace is still up. *)
DirectGoes(p) == /\ route[p] = "direct"
                 /\ route' = [route EXCEPT ![p] = "relayed"]
                 /\ UNCHANGED <<req, relayed, underway, answers, deliveryVars>>

PeerAnswers(c) == /\ c \in underway
                  /\ underway' = underway \ {c}
                  /\ answers' = answers \union {c}
                  /\ UNCHANGED <<req, route, relayed, deliveryVars>>

(* ---- requests from peers ---- *)

Waiting == {p \in Peers : delivering[p] > 0}
AdmitsAny(p, w) == deliveringWeight + w <= deliveryWindow
admits(p, w) ==
    IF delivering[p] = 0 THEN deliveringWeight + w <= deliveryWindow
    ELSE /\ deliveringWeight + w <= deliveryWindow - maxRequestWeight
         /\ (delivering[p] + w) * Cardinality(Waiting) <= deliveryWindow

(* One of p's requests counted onto the window, or off it. *)
hold(p, w) == LET mine == delivering[p] + w
              IN /\ delivering' = [delivering EXCEPT ![p] = IF mine > 0 THEN mine ELSE 0]
                 /\ deliveringWeight' = deliveringWeight + w

(* onFrame: delivered to the host, or, past the window, answered empty. *)
OnRequest(p, w) ==
    /\ route[p] # "none"
    /\ IF admits(p, w) THEN deliveries' = Append(deliveries, [from |-> p, weight |-> w]) /\ hold(p, w)
       ELSE UNCHANGED deliveryVars
    /\ UNCHANGED <<req, route, relayed, underway, answers>>

(* The host answers, or refuses: off the window either way. *)
Delivered(i) ==
    /\ deliveries' = RemoveAt(deliveries, i)
    /\ hold(deliveries[i].from, -deliveries[i].weight)
    /\ UNCHANGED <<req, route, relayed, underway, answers>>

-----------------------------------------------------------------------------
(* However its answer, its timeout, its dial and its peer going down race, *)
(* a request is settled once; and one still held back has another, sent    *)
(* through the relay and not settled, whose end will let it go, with a     *)
(* direct link none (finish, pumpRelayed, onAuth).                         *)
RequestsSettle == \A c \in Corrs :
    /\ req[c].settled = IF Pending(req[c]) THEN 0 ELSE 1
    /\ req[c].held =>
         /\ route[req[c].to] = "relayed"
         /\ \E d \in Corrs : req[d].to = req[c].to /\ Pending(req[d]) /\ req[d].relayedBytes > 0

(* "A peer already waiting must leave room for one max-size request from   *)
(* others ..., so no peer can starve another" (admits): the largest        *)
(* request of a peer with nothing waiting is refused only when others than *)
(* one already wait.                                                       *)
RoomForAnother == \A p \in Peers \ Waiting : Cardinality(Waiting) <= 1 => admits(p, maxRequestWeight)
=============================================================================
