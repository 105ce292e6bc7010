----------------------------- MODULE UdpStream ------------------------------
(***************************************************************************)
(* The reliable stream a UDP path carries (transport/src/stream.js): one   *)
(* direction of it, from the end that writes (s) to the end that reads     *)
(* (r), over a path that loses, repeats and reorders datagrams, carries or *)
(* drops the larger packets, moves and dies.                               *)
(*                                                                         *)
(* A byte of the model is what a packet of BASE_PACKET carries, so a chunk *)
(* is one byte, or two in a packet of MAX_PACKET; the 27 bytes of          *)
(* DATA_HEADER are below that unit.  Times are left out: a timer may fire  *)
(* once nothing is under way, and Early times before that; what a packet's *)
(* age decides is chosen, oldest first.  The congestion window's           *)
(* arithmetic is left out too: each flush meets some window of at least    *)
(* MIN_WINDOW packets.                                                     *)
(***************************************************************************)
EXTENDS Integers, Sequences, FiniteSets, SequencesExt, FiniteSetsExt, BagsExt

CONSTANTS
    Total,       \* bound: bytes the link writes at most
    CREDIT, MAX_CREDIT, MAX_READ, MAX_RANGES, MAX_PTOS, MAX_PROBES, MIN_CHUNK,
    Bounds       \* the bounds a behaviour may have, see BoundsType

(* Whether the path has been found to carry MAX_PACKET already, what the   *)
(* window may grow to, and how many bytes are written, closes asked for,   *)
(* datagrams lost and repeated, timers early, moves of the path, and times *)
(* it gets worse.                                                          *)
BoundsType == [probed : BOOLEAN, window : Nat, bytes : 1..Total, close : Nat,
               lose : Nat, repeat : Nat, early : Nat, move : Nat, worsen : Nat]

ASSUME StreamAssumption ==
    /\ {Total, CREDIT, MAX_CREDIT, MAX_READ, MAX_RANGES, MAX_PROBES, MIN_CHUNK} \subseteq Nat \ {0}
    /\ MAX_PTOS \in Nat
    /\ Bounds \subseteq BoundsType

VARIABLES
    s,       \* the writing end
    r,       \* the reading end
    net,     \* the datagrams under way, a bag
    path,    \* "big" carries MAX_PACKET, "base" carries BASE_PACKET, "dead" nothing
    left     \* what is left of the bounds

vars == <<s, r, net, path, left>>

NoMap == << >>
Put(map, key, value) == [k \in DOMAIN map \union {key} |-> IF k = key THEN value ELSE map[k]]
MIN_WINDOW == 2

(* The state of the writing end.  The map inFlight gives a packet's chunk, *)
(* chunks a chunk's length; sentOffsets is the keys of chunks in order.    *)
SenderInit == [written |-> 0, nextOffset |-> 0, chunks |-> NoMap,
               lost |-> << >>, inFlight |-> NoMap, oldestPn |-> 0, nextPn |-> 0,
               largestAcked |-> -1, peerCredit |-> CREDIT, ptoCount |-> 0, packetBytes |-> 1,
               probes |-> << >>, reprobe |-> TRUE, closing |-> FALSE, gone |-> FALSE,
               drained |-> FALSE,         \* history: a graceful close had all of it acked
               emitted |-> << >>]         \* what this step sends

(* The state of the reading end.  A byte held remembers the slice it came  *)
(* in; seen is the packet numbers that ranges names.                       *)
ReceiverInit == [reading |-> FALSE, taken |-> 0, held |-> << >>,
                 ahead |-> NoMap, aheadBytes |-> 0, furthest |-> 0, turnDue |-> FALSE,
                 seen |-> {}, unacked |-> FALSE, credit |-> CREDIT, creditEnd |-> 0,
                 advertised |-> CREDIT, gone |-> FALSE,
                 overfull |-> FALSE,      \* history: it failed for holding too much
                 told |-> FALSE,          \* history: it ended on the other end's CLOSE
                 got |-> << >>,           \* history: what the reader was handed
                 emitted |-> << >>]

(* A path is just chosen, or has moved at once and been found to carry     *)
(* MAX_PACKET.                                                             *)
Init == /\ left \in Bounds
        /\ path \in IF left.probed THEN {"big"} ELSE {"big", "base"}
        /\ s = IF left.probed THEN [SenderInit EXCEPT !.nextPn = 1, !.oldestPn = 1, !.largestAcked = 0,
                                                      !.packetBytes = 2, !.reprobe = FALSE]
               ELSE SenderInit
        /\ r = IF left.probed THEN [ReceiverInit EXCEPT !.seen = {0}, !.creditEnd = CREDIT]
               ELSE ReceiverInit
        /\ net = EmptyBag

(* ---- datagrams ---- *)

Data(pn, offset, len, floor) ==
    [type |-> "DATA", to |-> "r", pn |-> pn, offset |-> offset, len |-> len, floor |-> floor]
Probe(pn) == [type |-> "PROBE", to |-> "r", pn |-> pn]
Ack(credit, seen) == [type |-> "ACK", to |-> "s", credit |-> credit, seen |-> seen]
Close(to) == [type |-> "CLOSE", to |-> to]

Carried(m, p) == \/ p = "big"
                 \/ p = "base" /\ m.type # "PROBE" /\ (m.type = "DATA" => m.len = 1)

(* What an end will act on: one that has gone reads nothing, and an ACK    *)
(* that credits, names and passes nothing new changes nothing, then or     *)
(* later.                                                                  *)
Tells(m, s1) == \/ m.credit > s1.peerCredit
                \/ m.seen \intersect (DOMAIN s1.inFlight \union ToSet(s1.probes)) # {}
                \/ m.seen # {} /\ (s1.reprobe \/ Max(m.seen) > s1.largestAcked)
Matters(m, s1, r1) == IF m.to = "r" THEN ~r1.gone ELSE ~s1.gone /\ (m.type = "ACK" => Tells(m, s1))
Reaching(bag, s1, r1) == [m \in {x \in DOMAIN bag : Matters(x, s1, r1)} |-> bag[m]]
Copies(m, bag) == IF m \in DOMAIN bag THEN bag[m] ELSE 0
Posted(bag, ms) ==
    LET sent == {i \in DOMAIN ms : Carried(ms[i], path)}
    IN [m \in DOMAIN bag \union {ms[i] : i \in sent} |-> Copies(m, bag) + Cardinality({i \in sent : ms[i] = m})]

(* Both ends' new states, the datagrams they emit put on the path.  What   *)
(* an end that has gone holds is never read again.                         *)
Become(s1, r1, bag) ==
    /\ \E x \in {s1}, y \in {r1} :
         /\ s' = IF x.gone THEN [SenderInit EXCEPT !.gone = TRUE, !.written = x.written, !.drained = x.drained]
                 ELSE [x EXCEPT !.emitted = << >>]
         /\ r' = IF y.gone THEN [ReceiverInit EXCEPT !.gone = TRUE, !.got = y.got, !.overfull = y.overfull,
                                                      !.told = y.told]
                 ELSE [y EXCEPT !.emitted = << >>]
         /\ net' = Reaching(Posted(Posted(bag, x.emitted), y.emitted), x, y)
    /\ UNCHANGED path

(* One datagrams event of the reading end and its turn are one step of the *)
(* realm, so only further datagrams of the event come between.             *)
Idle == ~r.turnDue

Bounded(kind) == left[kind] > 0 /\ left' = [left EXCEPT ![kind] = @ - 1]

(* A timer fires once nothing is under way, or early. *)
Fires == IF net = EmptyBag THEN UNCHANGED left
         ELSE Bounded("early")

(* ---- sending ---- *)

oldestChunk(x) == Min(DOMAIN x.chunks)
BufferedUnsent(x) == x.written - x.nextOffset
buffered(x) == x.written - (IF DOMAIN x.chunks = {} THEN x.nextOffset ELSE oldestChunk(x))

advanceOldest(x) == [x EXCEPT !.oldestPn = Min(DOMAIN x.inFlight \union {x.nextPn})]

(* The chunk at offset, cut to what a packet now carries. *)
FitUnqueued(x, offset) ==
    IF x.chunks[offset] <= x.packetBytes THEN x
    ELSE [x EXCEPT !.chunks = Put(Put(@, offset + x.packetBytes, @[offset] - x.packetBytes),
                                  offset, x.packetBytes)]
fit(x, offset) ==
    IF x.chunks[offset] <= x.packetBytes THEN x
    ELSE [FitUnqueued(x, offset) EXCEPT !.lost = Append(@, offset + x.packetBytes)]

(* The end with the chunk to send next chosen, and its offset, or -1: a    *)
(* lost chunk, then new bytes the peer has room for, then, for a probe,    *)
(* the oldest chunk.                                                       *)
nextChunk(x, probe) ==
    LET live == {i \in 1..Len(x.lost) : x.lost[i] \in DOMAIN x.chunks}
        first == x.lost[Min(live)]
        n == Min({x.written - x.nextOffset, x.packetBytes, x.peerCredit - x.nextOffset})
        none == [x EXCEPT !.lost = << >>]
    IN IF live # {} THEN [x |-> fit([x EXCEPT !.lost = SubSeq(@, Min(live) + 1, Len(@))], first), offset |-> first]
       ELSE IF n > 0 THEN [x |-> [none EXCEPT !.chunks = Put(@, x.nextOffset, n), !.nextOffset = @ + n],
                           offset |-> x.nextOffset]
       ELSE IF probe /\ DOMAIN x.chunks # {} THEN [x |-> fit(none, oldestChunk(x)), offset |-> oldestChunk(x)]
       ELSE [x |-> none, offset |-> -1]

sendChunk(x, offset) ==
    [x EXCEPT !.nextPn = @ + 1,
              !.inFlight = Put(@, x.nextPn, offset),
              !.emitted = Append(@, Data(x.nextPn, offset, x.chunks[offset],
                                         Min({x.oldestPn} \union ToSet(x.probes))))]

(* One more packet, if a window of w packets has room or it is a probe. *)
SendsOne(x, probe, w) ==
    LET next == nextChunk(x, probe)
    IN IF ~probe /\ Cardinality(DOMAIN x.inFlight) >= w THEN x
       ELSE IF next.offset < 0 THEN next.x ELSE sendChunk(next.x, next.offset)

(* What a window of w packets allows, and so many probes past it.  (Each   *)
(* intermediate state is drawn from a singleton, so TLC evaluates it once.) *)
flush(x, probes, w) ==
    LET sent[k \in 0..(Total + 2)] ==
          IF k = 0 THEN x
          ELSE CHOOSE z \in {SendsOne(y, k <= probes, w) : y \in {sent[k - 1]}} : TRUE
    IN IF x.gone THEN x ELSE sent[Total + 2]

Windows == MIN_WINDOW..left.window

(* The packets below an acked one that their age may call lost. *)
Passed(x) == {pn \in DOMAIN x.inFlight : pn < x.largestAcked}
Aged(x) == {{pn \in Passed(x) : pn <= t} : t \in Passed(x)}

(* The chunks of packets called lost join the queue, each once. *)
Requeue(x, gone, q, pn) ==
    IF pn \in gone /\ x.inFlight[pn] \in DOMAIN x.chunks /\ ~Contains(q, x.inFlight[pn])
    THEN Append(q, x.inFlight[pn]) ELSE q
Requeues(x, gone) ==
    LET queue[pn \in 0..x.nextPn] == IF pn = 0 THEN x.lost ELSE Requeue(x, gone, queue[pn - 1], pn - 1)
    IN queue[x.nextPn]
detectLoss(x, aged) ==
    LET gone == {pn \in Passed(x) : x.largestAcked - pn >= 3 \/ pn \in aged}
    IN advanceOldest([x EXCEPT !.lost = Requeues(x, gone),
                               !.inFlight = Restrict(@, DOMAIN @ \ gone)])

(* ---- the packet size ---- *)

sendProbe(x) ==
    IF x.gone THEN x
    ELSE IF Len(x.probes) >= MAX_PROBES THEN [x EXCEPT !.probes = << >>]
    ELSE [x EXCEPT !.nextPn = @ + 1, !.probes = Append(@, x.nextPn),
                   !.emitted = Append(@, Probe(x.nextPn))]

startProbe(x) == sendProbe([x EXCEPT !.probes = << >>])

probeAcked(x, seen) ==
    IF ToSet(x.probes) \intersect seen = {} THEN x
    ELSE [x EXCEPT !.probes = << >>, !.packetBytes = 2]

(* ---- ends ---- *)

fail(x) == [x EXCEPT !.gone = TRUE]
sendClose(x, to) == [x EXCEPT !.emitted = @ \o [k \in 1..3 |-> Close(to)]]
end(x, to) == fail(sendClose(x, to))

(* ---- acks ---- *)

(* What an ACK tells the writing end, up to the loss it lets it see. *)
Acked(x, m) ==
    LET acked == DOMAIN x.inFlight \intersect m.seen
        here == [x EXCEPT !.peerCredit = Max({@, m.credit}),
                          !.inFlight = Restrict(@, DOMAIN @ \ acked),
                          !.chunks = Restrict(@, DOMAIN @ \ {x.inFlight[pn] : pn \in acked}),
                          !.ptoCount = IF acked = {} THEN @ ELSE 0]
    IN IF m.seen = {} THEN here
       ELSE advanceOldest([probeAcked(here, m.seen) EXCEPT
                             !.largestAcked = Max({@, Min({Max(m.seen), x.nextPn - 1})})])

Reprobes(x) == IF x.reprobe /\ x.ptoCount = 0 THEN startProbe([x EXCEPT !.reprobe = FALSE]) ELSE x

(* The end of onAck: a graceful close that has drained ends here. *)
EndsDrained(x, w) ==
    IF x.closing /\ buffered(x) = 0 THEN end([x EXCEPT !.drained = TRUE], "r") ELSE flush(x, 0, w)

(* ---- receiving ---- *)

(* The numbers kept of a set of packet numbers, as ranges: those whose     *)
(* range reaches floor, and the newest; of these the MAX_RANGES newest.    *)
Tops(S) == {pn \in S : pn + 1 \notin S}
TopOf(S, pn) == Min({t \in Tops(S) : t >= pn})
Newest(S) == {pn \in S : Cardinality({t \in Tops(S) : t > TopOf(S, pn)}) < MAX_RANGES}
Above(S, floor) == {pn \in S : TopOf(S, pn) >= floor \/ TopOf(S, pn) = Max(S)}

(* More credit for a sender that has used all it had goes three times. *)
sendAck(y) ==
    LET stalled == y.taken + y.credit > y.advertised /\ y.furthest >= y.advertised
        ack == Ack(y.taken + y.credit, y.seen)
    IN IF y.gone THEN y
       ELSE [y EXCEPT !.unacked = FALSE, !.advertised = y.taken + y.credit,
                      !.emitted = @ \o (IF stalled THEN <<ack, ack, ack>> ELSE <<ack>>)]

received(y, pn) ==
    LET largest == IF y.seen = {} THEN -1 ELSE Max(y.seen)
        noted == [y EXCEPT !.seen = Newest(@ \union {pn}), !.turnDue = TRUE]
    IN IF pn # largest + 1 THEN sendAck(noted) ELSE [noted EXCEPT !.unacked = TRUE]

(* Where the bytes in order end once a chunk at offset joins them, and the *)
(* chunks past the gap that follow on from it.                             *)
Joined(ahead, from) ==
    LET reach[k \in 0..Total] == IF k = 0 THEN from
          ELSE IF reach[k - 1] \in DOMAIN ahead THEN reach[k - 1] + ahead[reach[k - 1]]
          ELSE reach[k - 1]
    IN [end |-> reach[Total], chunks |-> {reach[k] : k \in 0..Total} \intersect DOMAIN ahead]

Follows(y, m) == m.offset = y.taken + Len(y.held)

Holds(y, m) ==
    LET join == Joined(y.ahead, m.offset + m.len)
        starts == {m.offset} \union join.chunks
        bytes == [k \in 1..(join.end - m.offset) |->
                    [byte |-> m.offset + k, slice |-> Max({o \in starts : o < m.offset + k})]]
    IN IF Follows(y, m)
       THEN [y EXCEPT !.held = @ \o bytes,
                      !.ahead = IF join.end = y.furthest THEN NoMap ELSE Restrict(@, DOMAIN @ \ join.chunks),
                      !.aheadBytes = IF join.end = y.furthest THEN 0
                                     ELSE @ - MapThenSumSet(LAMBDA o : y.ahead[o], join.chunks)]
       ELSE IF m.offset > y.taken + Len(y.held) /\ m.offset \notin DOMAIN y.ahead
       THEN [y EXCEPT !.ahead = Put(@, m.offset, m.len), !.aheadBytes = @ + m.len]
       ELSE y

Slices(y) == Cardinality({y.held[k].slice : k \in DOMAIN y.held}) + Cardinality(DOMAIN y.ahead)

Overfull(y) == y.aheadBytes > 2 * y.credit \/ Slices(y) * MIN_CHUNK > 2 * y.credit

onChunk(y, m) ==
    LET noted == received(y, m.pn)
        held == Holds([noted EXCEPT !.seen = Above(@, m.floor),
                                    !.furthest = Max({@, m.offset + m.len})], m)
    IN IF m.offset + m.len > y.taken + y.credit THEN y
       ELSE IF Overfull(held) THEN fail([held EXCEPT !.overfull = TRUE]) ELSE held

(* Hand the reader what is in order; more credit after a credit read, and  *)
(* twice that after one read fast.                                         *)
Reads(y) ==
    LET n == Min({Len(y.held), MAX_READ})
    IN IF y.reading \/ y.held = << >> \/ y.gone THEN y
       ELSE [y EXCEPT !.taken = @ + n, !.held = SubSeq(@, n + 1, Len(@)), !.reading = TRUE,
                      !.got = @ \o [k \in 1..n |-> y.held[k].byte]]
deliver(y, fast) ==
    LET a == Reads(y)
        credit == IF fast THEN Min({2 * a.credit, MAX_CREDIT}) ELSE a.credit
        b == IF a.taken < a.creditEnd THEN a
             ELSE [a EXCEPT !.credit = credit, !.creditEnd = a.taken + credit]
    IN IF 2 * (b.taken + b.credit - b.advertised) >= b.credit THEN sendAck(b) ELSE b

(* ---- the steps of the writing end ---- *)

Write == /\ Idle /\ ~s.gone /\ ~s.closing
         /\ \E n \in 1..left.bytes, w \in Windows :
              /\ left' = [left EXCEPT !.bytes = @ - n]
              /\ Become(flush([s EXCEPT !.written = @ + n], 0, w), r, net)

CloseGracefully ==
    /\ Idle /\ ~s.gone /\ ~s.closing
    /\ Bounded("close")
    /\ IF buffered(s) > 0 THEN Become([s EXCEPT !.closing = TRUE], r, net)
       ELSE Become(end([s EXCEPT !.drained = TRUE], "r"), r, net)

(* Closed as failed. *)
CloseAtOnce == /\ Idle /\ ~s.gone /\ ~s.closing
               /\ Bounded("close")
               /\ Become(end(s, "r"), r, net)

(* A graceful close has waited out LINGER_MS. *)
LingerEnds == /\ Idle /\ ~s.gone /\ s.closing
              /\ Fires
              /\ Become(end(s, "r"), r, net)

OnAck(m) == /\ Idle /\ m.type = "ACK"
            /\ LET x == Acked(s, m) IN
               \E aged \in {{}} \union Aged(x), w \in Windows :
                 /\ IF aged = {} THEN UNCHANGED left ELSE Fires
                 /\ Become(EndsDrained(IF m.seen = {} THEN x ELSE Reprobes(detectLoss(x, aged)), w),
                           r, BagRemove(net, m))

(* The loss timer, which is set while an acked packet has passed others. *)
OnLossTime == /\ Idle /\ ~s.gone /\ Passed(s) # {}
              /\ Fires
              /\ \E aged \in Aged(s), w \in Windows : Become(flush(detectLoss(s, aged), 0, w), r, net)

(* Nothing is heard of the other end. *)
NeverSilent(other) == FALSE
Silent(other) == path = "dead" \/ other.gone

(* A second timeout in a row: the path may have stopped carrying the       *)
(* larger packets.                                                         *)
DropsBack(x) == IF x.ptoCount >= 1 /\ x.packetBytes > 1
                THEN [x EXCEPT !.packetBytes = 1, !.reprobe = TRUE] ELSE x

OnProbeTimeout ==
    /\ Idle /\ ~s.gone /\ s.inFlight # NoMap /\ Passed(s) = {}
    /\ Fires
    /\ \/ /\ s.ptoCount >= MAX_PTOS
          /\ Become(end(s, "r"), r, net)
       \/ /\ s.ptoCount >= MAX_PTOS => ~Silent(r)
          /\ \E w \in Windows :
               Become(flush([DropsBack(s) EXCEPT !.ptoCount = Min({@ + 1, MAX_PTOS})], 2, w), r, net)

OnSizeProbeTimeout == /\ Idle /\ ~s.gone /\ s.probes # << >>
                      /\ Fires
                      /\ Become(sendProbe(s), r, net)

(* The path moved: its window and packet size start over. *)
Repath == /\ Idle /\ ~s.gone /\ Bounded("move")
          /\ \E w \in Windows :
               Become(startProbe(flush([s EXCEPT !.ptoCount = 0, !.packetBytes = 1, !.reprobe = FALSE], 0, w)),
                      r, net)

(* Every KEEPALIVE_MS.  The writing end's own acks say nothing here. *)
SenderTick == /\ Idle /\ ~s.gone /\ net = EmptyBag
              /\ Silent(r)
              /\ Become(fail(s), r, net)
              /\ UNCHANGED left

(* ---- the steps of the reading end ---- *)

ReadDone == /\ r.reading /\ Idle
            /\ \E fast \in BOOLEAN : Become(s, deliver([r EXCEPT !.reading = FALSE], fast), net)
            /\ UNCHANGED left

OnChunk(m) == /\ m.type = "DATA"
              /\ Become(s, onChunk(r, m), BagRemove(net, m))
              /\ UNCHANGED left

OnProbe(m) == /\ m.type = "PROBE"
              /\ Become(s, received(r, m.pn), BagRemove(net, m))
              /\ UNCHANGED left

Turn == /\ r.turnDue
        /\ \E fast \in BOOLEAN :
             LET y == deliver([r EXCEPT !.turnDue = FALSE], fast)
             IN Become(s, IF y.unacked THEN sendAck(y) ELSE y, net)
        /\ UNCHANGED left

CloseReading == /\ ~r.gone /\ Idle
                /\ Bounded("close")
                /\ Become(s, end(r, "s"), net)

ReceiverTick == /\ ~r.gone /\ Idle /\ net = EmptyBag
                /\ Become(s, IF Silent(s) THEN fail(r) ELSE sendAck(r), net)
                /\ UNCHANGED left

(* ---- both ---- *)

OnClose(m) == /\ m.type = "CLOSE" /\ (Idle \/ m.to = "r")
              /\ Become(IF m.to = "s" THEN fail(s) ELSE s,
                        IF m.to = "r" THEN fail([r EXCEPT !.told = TRUE]) ELSE r,
                        BagRemove(net, m))
              /\ UNCHANGED left

(* ---- the path ---- *)

Lose(m) == /\ Idle /\ Bounded("lose")
           /\ net' = BagRemove(net, m)
           /\ UNCHANGED <<s, r, path>>

Repeat(m) == /\ Idle /\ Bounded("repeat")
             /\ net' = BagAdd(net, m)
             /\ UNCHANGED <<s, r, path>>

(* A path stops carrying the larger packets, or any. *)
PathWorsens == /\ Idle /\ Bounded("worsen")
               /\ path' = IF path = "big" THEN "base" ELSE "dead"
               /\ path # "dead"
               /\ net' = [m \in {x \in DOMAIN net : Carried(x, path')} |-> net[m]]
               /\ UNCHANGED <<s, r>>

Arrives == \E m \in DOMAIN net : OnAck(m) \/ OnChunk(m) \/ OnProbe(m) \/ OnClose(m)
Timers == OnLossTime \/ LingerEnds \/ OnProbeTimeout \/ OnSizeProbeTimeout \/ SenderTick \/ ReceiverTick

Next == \/ Write \/ CloseGracefully \/ CloseAtOnce \/ Repath
        \/ ReadDone \/ Turn \/ CloseReading
        \/ Timers
        \/ Arrives
        \/ \E m \in DOMAIN net : Lose(m) \/ Repeat(m)
        \/ PathWorsens
        
Spec == Init /\ [][Next]_vars

(* Weak fairness of arrivals and of timers, with their guards written out  *)
(* (TLC is slow at ENABLED of these actions): what is under way arrives or *)
(* is lost, and a timer that is set goes off.  From a quiet path, a step   *)
(* that spends no bound and reads nothing is a timer's.                    *)
Consumes == \E m \in DOMAIN net : Copies(m, net') < Copies(m, net)
Quiet == Idle /\ net = EmptyBag
TimerSet == /\ Quiet
            /\ \/ ~s.gone /\ (s.inFlight # NoMap \/ s.probes # << >> \/ s.closing \/ Silent(r))
               \/ ~r.gone /\ (\/ Silent(s) \/ r.advertised # r.taken + r.credit
                              \/ path # "dead" /\ Tells(Ack(r.taken + r.credit, r.seen), s))
TimerStep == Quiet /\ UNCHANGED <<left, r.reading, r.taken>>
FairSpec == /\ Spec
            /\ []<>Idle
            /\ []<>~r.reading \/ []<><<r'.taken > r.taken>>_vars
            /\ []<>(net = EmptyBag) \/ []<><<Consumes>>_vars
            /\ []<>~TimerSet \/ []<><<TimerStep>>_vars
-----------------------------------------------------------------------------
TypeOK ==
    /\ s.written \in 0..Total /\ s.nextOffset \in 0..s.written
    /\ ToSet(s.lost) \subseteq 0..Total
    /\ \A o \in DOMAIN s.chunks : s.chunks[o] \in 1..2
    /\ \A pn \in DOMAIN s.inFlight : pn \in s.oldestPn..(s.nextPn - 1)
    /\ s.packetBytes \in 1..2 /\ Len(s.probes) <= MAX_PROBES
    /\ r.taken + Len(r.held) <= r.furthest /\ r.furthest <= s.written
    /\ r.credit \in CREDIT..MAX_CREDIT
    /\ path \in {"big", "base", "dead"}

(* A reader still decoding the last read stops the sender: one that keeps  *)
(* to its credit is never failed for what the other end holds of it (the   *)
(* caps at the end of onChunk).  Refuted for small packets: see README.    *)
HonestSpared == ~r.overfull

(* A graceful close that did not time out leaves all of what was written   *)
(* at the other end (close, the end of onAck).                             *)
DrainedReceived == s.drained /\ ~r.gone => r.taken + Len(r.held) = s.written

(* The stream promises its link a byte stream. *)
Bytes == INSTANCE ByteStream WITH written <- s.written, got <- r.got, over <- r.gone
IsByteStream == Bytes!Spec

(* Neither end outlives the other: a CLOSE, the probe timeouts or the      *)
(* silence tells it (end, peerGone, tick).                                 *)
BothEnd == (s.gone ~> r.gone) /\ (r.gone ~> s.gone)

(* What a graceful close waited for is handed to the reader.  Refuted: see *)
(* README.                                                                 *)
FarewellRead == s.drained /\ r.told => Len(r.got) = s.written
=============================================================================
