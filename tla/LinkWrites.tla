----------------------------- MODULE LinkWrites -----------------------------
(***************************************************************************)
(* What the link driver lets the occupant write (services/link.ts          *)
(* LinkOutboundOwner and the node-wide write budget), over the writer of   *)
(* each native socket (native/tcp.go, reached through host/platform.ts).   *)
(*                                                                         *)
(* The driver runs on the event loop; a dial and a writer are goroutines   *)
(* of their own, which a send shares a mutex with, so each of their        *)
(* actions is one critical section or one system call.  A driver's send is *)
(* two actions, since the writer may run between the write and the report  *)
(* that follows it.  A write is its size.                                  *)
(***************************************************************************)
EXTENDS Integers, Sequences, FiniteSets, FiniteSetsExt, Sums

CONSTANTS
    MaxLinks,                         \* links registered in a behaviour
    Sizes,                            \* of the occupant's writes; 0 only asks
    MAX_OUTBOUND_QUEUE_BYTES, MAX_OUTBOUND_QUEUE_SLICES,
    MAX_NODE_OUTBOUND_QUEUE_BYTES, MAX_NODE_OUTBOUND_QUEUE_SLICES

ASSUME LinkWritesAssumption ==
    /\ Sizes \subseteq Nat
    /\ {MaxLinks, MAX_OUTBOUND_QUEUE_BYTES, MAX_OUTBOUND_QUEUE_SLICES,
        MAX_NODE_OUTBOUND_QUEUE_BYTES, MAX_NODE_OUTBOUND_QUEUE_SLICES} \subseteq Nat \ {0}

VARIABLES
    link,            \* by link: the driver's entry, see NewLink
    sock,            \* by link: its sockChannel, see NewSock
    outboundBytes, outboundSlices,
    sending          \* the link whose send has yet to report, or 0

writeVars == <<link, sock, outboundBytes, outboundSlices, sending>>

Links == 1..MaxLinks    \* numbered as registered (nextLinkId)

(* The writes charged, whether the occupant has closed it and the driver   *)
(* is to hear of that on a later turn, and the size of the write it was    *)
(* ended for, past a limit.                                                *)
NewLink == [state |-> "none", queued |-> << >>, closing |-> FALSE, refused |-> 0]

NewSock == [conn |-> "none",      \* "dialing", "open" or "shut"
            queue |-> << >>, batch |-> << >>, queued |-> 0,
            dead |-> FALSE,
            lingers |-> FALSE,    \* closed gracefully, over an open connection
            wake |-> FALSE,
            writer |-> "none",    \* then "runs", "parked", "writes", "wrote", "left"
            failed |-> FALSE,     \* history: a write failed
            closed |-> FALSE,     \* its onClose is on its way to the loop
            sent |-> 0, written |-> 0]  \* history: writes taken, and put on the wire

WritesInit == /\ link = [l \in Links |-> NewLink]
              /\ sock = [l \in Links |-> NewSock]
              /\ outboundBytes = 0 /\ outboundSlices = 0
              /\ sending = 0

Live == {l \in Links : link[l].state = "live"}
Idle == sending = 0

(* ---- native/tcp.go ---- *)

(* terminate: the one dead transition, and the writer's last wake. *)
terminateAsleep(c, flush, notify) ==
    IF c.dead THEN c
    ELSE [c EXCEPT !.dead = TRUE,
                   !.lingers = flush /\ c.conn = "open",
                   !.queue = IF flush /\ c.conn = "open" THEN @ ELSE << >>,
                   !.queued = IF flush /\ c.conn = "open" THEN @ ELSE 0,
                   !.conn = IF flush \/ c.conn # "open" THEN @ ELSE "shut",
                   !.closed = notify]
terminate(c, flush, notify) ==
    IF c.dead THEN c ELSE [terminateAsleep(c, flush, notify) EXCEPT !.wake = TRUE]

(* newDialChannel's goroutine: the connection lands, perhaps on a channel  *)
(* closed meanwhile, or fails.                                             *)
Dialed(l) ==
    /\ sock[l].conn = "dialing"
    /\ sock' = [sock EXCEPT ![l] = IF @.dead THEN [@ EXCEPT !.conn = "shut"]
                                   ELSE [@ EXCEPT !.conn = "open", !.writer = "runs"]]
    /\ UNCHANGED <<link, outboundBytes, outboundSlices, sending>>
DialFails(l) ==
    /\ sock[l].conn = "dialing"
    /\ sock' = [sock EXCEPT ![l] = [terminate(@, FALSE, TRUE) EXCEPT !.conn = "shut"]]
    /\ UNCHANGED <<link, outboundBytes, outboundSlices, sending>>

(* writeLoop: it takes the whole backlog, or waits, or leaves behind a     *)
(* close.                                                                  *)
WriterLeavesFirst(l) ==
    /\ sock[l].writer = "runs"
    /\ sock' = [sock EXCEPT ![l] =
         IF @.dead THEN [@ EXCEPT !.conn = "shut", !.writer = "left"]
         ELSE IF @.queue # << >> THEN [@ EXCEPT !.batch = sock[l].queue, !.queue = << >>, !.writer = "writes"]
         ELSE [@ EXCEPT !.writer = "parked"]]
    /\ UNCHANGED <<link, outboundBytes, outboundSlices, sending>>
WriterRuns(l) ==
    /\ sock[l].writer = "runs"
    /\ sock' = [sock EXCEPT ![l] =
         IF @.queue # << >> THEN [@ EXCEPT !.batch = sock[l].queue, !.queue = << >>, !.writer = "writes"]
         ELSE IF @.dead THEN [@ EXCEPT !.conn = "shut", !.writer = "left"]
         ELSE [@ EXCEPT !.writer = "parked"]]
    /\ UNCHANGED <<link, outboundBytes, outboundSlices, sending>>
WriterWakes(l) ==
    /\ sock[l].writer = "parked" /\ sock[l].wake
    /\ sock' = [sock EXCEPT ![l].wake = FALSE, ![l].writer = "runs"]
    /\ UNCHANGED <<link, outboundBytes, outboundSlices, sending>>

(* writeMsgs: the batch is on the wire, or the connection fails it, as one *)
(* a hard close shut does.                                                 *)
WriterWrites(l) ==
    /\ sock[l].writer = "writes" /\ sock[l].conn = "open"
    /\ sock' = [sock EXCEPT ![l].writer = "wrote", ![l].written = @ + Len(sock[l].batch)]
    /\ UNCHANGED <<link, outboundBytes, outboundSlices, sending>>
WriterFails(l) ==
    /\ sock[l].writer = "writes"
    /\ sock' = [sock EXCEPT ![l] = [terminate(@, FALSE, TRUE) EXCEPT !.writer = "wrote", !.failed = TRUE]]
    /\ UNCHANGED <<link, outboundBytes, outboundSlices, sending>>

(* The batch leaves buffered(), unless a hard close already zeroed it. *)
WriterCounts(l) ==
    /\ sock[l].writer = "wrote"
    /\ LET n == SumSeq(sock[l].batch)
       IN sock' = [sock EXCEPT ![l].queued = IF @ >= n THEN @ - n ELSE @,
                               ![l].batch = << >>, ![l].writer = "runs"]
    /\ UNCHANGED <<link, outboundBytes, outboundSlices, sending>>

(* readLoop: the connection is read to its end, or fails. *)
ReadFails(l) ==
    /\ sock[l].conn = "open" /\ ~sock[l].dead
    /\ sock' = [sock EXCEPT ![l] = [terminate(@, FALSE, TRUE) EXCEPT !.failed = TRUE]]
    /\ UNCHANGED <<link, outboundBytes, outboundSlices, sending>>

(* send, which drops what comes after a close. *)
SockSend(c, n) == IF c.dead THEN c
                  ELSE [c EXCEPT !.queue = Append(@, n), !.queued = @ + n, !.wake = TRUE, !.sent = @ + 1]

(* ---- services/link.ts ---- *)

(* settle: the oldest charges go as far as a report of `now` covers whole  *)
(* writes; a partly drained one stays.                                     *)
DrainedPast(queued, now) == Max({0} \union {n \in 1..Len(queued) : SumSeq(SubSeq(queued, n, Len(queued))) >= now})
Drained(queued, now) == Max({0} \union {n \in 1..Len(queued) : SumSeq(SubSeq(queued, n + 1, Len(queued))) >= now})
Settled(k, c) == [k EXCEPT !.queued = SubSeq(@, Drained(@, c.queued) + 1, Len(@))]

(* The links become lk, and the driver's totals follow their charges. *)
Bytes(lk) == SumSeq([l \in Links |-> IF l \in Live THEN SumSeq(lk[l].queued) ELSE 0])
Slices(lk) == SumSeq([l \in Links |-> IF l \in Live THEN Len(lk[l].queued) ELSE 0])
Become(lk) == /\ link' = lk
              /\ outboundBytes' = outboundBytes - Bytes(link) + Bytes(lk)
              /\ outboundSlices' = outboundSlices - Slices(link) + Slices(lk)

(* outboundFits, and reserveOutbound's sweep of the table when it does     *)
(* not: links report their drain only when asked.                          *)
Fits(lk, n) == /\ Slices(lk) < MAX_NODE_OUTBOUND_QUEUE_SLICES
               /\ n <= MAX_NODE_OUTBOUND_QUEUE_BYTES - Bytes(lk)
SweptNever(lk, n) == lk
Swept(lk, n) == IF Fits(lk, n) THEN lk
                ELSE [l \in Links |-> IF l \in Live THEN Settled(lk[l], sock[l]) ELSE lk[l]]

(* dropLink, channelClosed: the channel is shut hard, the link leaves the  *)
(* table and its charges are released.                                     *)
Shut(c) == [terminate(c, FALSE, FALSE) EXCEPT !.closed = FALSE]
Ended(k) == [k EXCEPT !.state = "gone", !.queued = << >>, !.closing = FALSE]
DropLink(lk, l) == /\ Become([lk EXCEPT ![l] = Ended(@)])
                   /\ sock' = [sock EXCEPT ![l] = Shut(@)]
                   /\ UNCHANGED sending

(* register: a dialed channel, or an accepted one, whose writer runs. *)
Open(l, conn) ==
    /\ Idle /\ link[l].state = "none" /\ \A k \in 1..(l - 1) : link[k].state # "none"
    /\ link' = [link EXCEPT ![l].state = "live"]
    /\ sock' = [sock EXCEPT ![l].conn = conn, ![l].writer = IF conn = "open" THEN "runs" ELSE "none"]
    /\ UNCHANGED <<outboundBytes, outboundSlices, sending>>

(* rawNet.send: drain is settled, the write is charged to the link and the *)
(* node, and handed over; a write past a limit drops the link.             *)
Own(l) == [link EXCEPT ![l] = Settled(@, sock[l])]
Allowed(k, n) == /\ Len(k.queued) < MAX_OUTBOUND_QUEUE_SLICES
                 /\ n <= MAX_OUTBOUND_QUEUE_BYTES - SumSeq(k.queued)
Send(l, n) ==
    /\ Idle /\ l \in Live
    /\ LET own == Own(l)
           allowed == Allowed(own[l], n)
           lk == IF allowed THEN Swept(own, n) ELSE own
       IN \/ /\ n = 0
             /\ Become(own)
             /\ UNCHANGED <<sock, sending>>
          \/ /\ n > 0 /\ allowed /\ Fits(lk, n)
             /\ Become([lk EXCEPT ![l].queued = Append(@, n)])
             /\ sock' = [sock EXCEPT ![l] = SockSend(@, n)]
             /\ sending' = l
          \/ /\ n > 0 /\ ~(allowed /\ Fits(lk, n))
             /\ DropLink([lk EXCEPT ![l].refused = n], l)

(* ... and what it then still holds is answered. *)
Reports(l) == /\ sending = l /\ sending' = 0
              /\ Become(Own(l))
              /\ UNCHANGED sock

(* An adapter that cannot report, or whose send throws, ends its link. *)
SendThrows(l) == Idle /\ l \in Live /\ DropLink(Own(l), l)

(* rawNet.close: the channel closes at once, the driver on a later turn. *)
Close(l, graceful) ==
    /\ Idle /\ l \in Live /\ ~link[l].closing
    /\ sock' = [sock EXCEPT ![l] = [terminate(@, graceful, FALSE) EXCEPT !.closed = FALSE]]
    /\ link' = [link EXCEPT ![l].closing = TRUE]
    /\ UNCHANGED <<outboundBytes, outboundSlices, sending>>
CloseTurn(l) ==
    /\ Idle /\ l \in Live /\ link[l].closing
    /\ Become([link EXCEPT ![l] = Ended(@)])
    /\ UNCHANGED <<sock, sending>>

(* The socket's onClose reaches the driver; a local close has dropped it. *)
OnClose(l) ==
    /\ Idle /\ sock[l].closed
    /\ sock' = [sock EXCEPT ![l].closed = FALSE]
    /\ Become([link EXCEPT ![l] = Ended(@)])
    /\ UNCHANGED sending

(* tcpChannels: a socket that never sent a byte is failed. *)
SilentTimeout(l) == Idle /\ l \in Live /\ ~link[l].closing /\ DropLink(link, l)

(* reset's part: every live link is dropped hard. *)
ResetLinks ==
    /\ Idle
    /\ Become([l \in Links |-> IF l \in Live THEN Ended(link[l]) ELSE link[l]])
    /\ sock' = [l \in Links |-> IF l \in Live THEN Shut(sock[l]) ELSE sock[l]]
    /\ UNCHANGED sending
-----------------------------------------------------------------------------
(* Every byte a live link's channel still holds for the wire is charged,   *)
(* wherever its writer and the driver's reports stand (settle): the budget *)
(* never counts as drained what the platform keeps.                        *)
Charged == \A l \in Live : SumSeq(link[l].queued) >= sock[l].queued

(* A write is refused only for what channels really hold at that moment,   *)
(* never for what they wrote long since and were not asked about           *)
(* (reserveOutbound's sweep), unless a link the occupant has closed is     *)
(* still in the table: what is sent on that one is charged and dropped.    *)
Held(l) == sock[l].batch \o sock[l].queue
HeldBytes == SumSeq([l \in Links |-> IF l \in Live THEN SumSeq(Held(l)) ELSE 0])
HeldSlices == SumSeq([l \in Links |-> IF l \in Live THEN Len(Held(l)) ELSE 0])
RoomFor(l, n) == /\ Len(Held(l)) < MAX_OUTBOUND_QUEUE_SLICES
                 /\ SumSeq(Held(l)) + n <= MAX_OUTBOUND_QUEUE_BYTES
                 /\ HeldSlices < MAX_NODE_OUTBOUND_QUEUE_SLICES
                 /\ HeldBytes + n <= MAX_NODE_OUTBOUND_QUEUE_BYTES
RefusedWhenFull ==
    [][\A l \in Live : (link'[l].refused > 0 /\ \A k \in Live : ~link[k].closing)
                        => ~RoomFor(l, link'[l].refused)]_writeVars

(* What was written before a graceful close is on the wire when the socket *)
(* closes, if nothing failed meanwhile: "a graceful close leaves the queue *)
(* to flush" (native/tcp.go writeLoop).                                    *)
FlushedWhole == \A l \in Links :
    (sock[l].lingers /\ sock[l].conn = "shut" /\ ~sock[l].failed) => sock[l].written = sock[l].sent
=============================================================================
