-------------------------- MODULE LinkDriverProofs --------------------------
(***************************************************************************)
(* Proofs about LinkDriver, for any number of links and sockets, every     *)
(* size of write, every limit and any bound: what the driver charges a     *)
(* link covers what its channel holds, a write is refused only for what    *)
(* channels hold, a graceful close puts everything on the wire, and the    *)
(* sockets of one occupant never become another's.  At the end, LinkReads: *)
(* reads are neither lost nor reordered, and are charged exactly.          *)
(***************************************************************************)
EXTENDS LinkDriver, LinkReads, SetLemmas, SequenceTheorems, FiniteSetTheorems

LinkRec == [state : {"none", "live", "gone"}, queued : Seq(Nat), closing : BOOLEAN, refused : Nat]
SockRec == [conn : {"none", "dialing", "open", "shut"}, queue : Seq(Nat), batch : Seq(Nat), queued : Nat,
            dead : BOOLEAN, lingers : BOOLEAN, wake : BOOLEAN,
            writer : {"none", "runs", "parked", "writes", "wrote", "left"},
            failed : BOOLEAN, closed : BOOLEAN, sent : Nat, written : Nat]

(* Every write taken is on the wire, in the batch being written or in the  *)
(* queue, until a hard close forgets some or a write fails; a channel that *)
(* lingers shuts its connection only behind its last write.                *)
Flushes(c) ==
    /\ ~c.failed /\ (c.dead => c.lingers) =>
         c.sent = c.written + Len(c.queue) + (IF c.writer = "writes" THEN Len(c.batch) ELSE 0)
    /\ c.lingers => c.dead /\ c.conn \in {"open", "shut"}
    /\ c.lingers /\ c.conn = "shut" => c.writer = "left" /\ c.queue = << >>
    /\ c.conn \in {"none", "dialing"} => c.writer = "none"

SockOK(c) == c \in SockRec /\ Flushes(c)

(* The charges of a link cover what its channel holds. *)
Covers(k, c) == SumSeq(k.queued) >= c.queued

LinkOK(k, c) ==
    /\ k \in LinkRec
    /\ SockOK(c)
    /\ k.state = "none" => k = NewLink /\ c = NewSock
    /\ k.state = "live" => Covers(k, c)

WritesInv ==
    /\ DOMAIN link = Links /\ DOMAIN sock = Links
    /\ \A l \in Links : LinkOK(link[l], sock[l])

(* ---- one channel ---- *)

(* What a channel becomes: sound still, and holding no more than before. *)
NoMore(c, d) == SockOK(d) /\ d.queued <= c.queued

(* A new channel is sound. *)
LEMMA NewOK == NewSock \in SockRec /\ Flushes(NewSock) /\ NewLink \in LinkRec /\ LinkOK(NewLink, NewSock)
<1>1. NewSock \in SockRec
  BY DEF NewSock, SockRec
<1>2. Flushes(NewSock)
  BY DEF NewSock, Flushes
<1>3. NewLink \in LinkRec /\ NewLink.state = "none"
  BY DEF NewLink, LinkRec
<1> QED BY <1>1, <1>2, <1>3 DEF LinkOK, SockOK

(* A channel closed: what it was writing, it writes on; without a flush,   *)
(* or before it is open, it does not linger.                               *)
EndsAs(c, flush, d) ==
    /\ NoMore(c, d)
    /\ d.writer = c.writer /\ d.dead
    /\ ~flush \/ c.conn # "open" => (d.lingers <=> c.dead /\ c.lingers)
    /\ c.dead => d.conn = c.conn
    /\ (d.failed <=> c.failed)

(* A close, of any kind and by whomever. *)
LEMMA TerminateOK ==
  ASSUME NEW c, SockOK(c), NEW flush \in BOOLEAN, NEW notify \in BOOLEAN
  PROVE  EndsAs(c, flush, terminate(c, flush, notify))
<1> DEFINE d == terminate(c, flush, notify)
           keeps == flush /\ c.conn = "open"
           q == IF keeps THEN c.queue ELSE << >>
           n == IF keeps THEN c.queued ELSE 0
           o == IF flush \/ c.conn # "open" THEN c.conn ELSE "shut"
<1>1. c \in SockRec /\ Flushes(c)
  BY DEF SockOK
<1>2. CASE c.dead
  BY <1>1, <1>2 DEF terminate, EndsAs, NoMore, SockOK, SockRec
<1>3. CASE ~c.dead
  <2>1. q \in Seq(Nat) /\ n \in Nat /\ n <= c.queued /\ o \in {"none", "dialing", "open", "shut"}
        /\ keeps \in BOOLEAN
    BY <1>1 DEF SockRec
  <2>2. d = [[[[[[[c EXCEPT !.dead = TRUE] EXCEPT !.lingers = keeps] EXCEPT !.queue = q]
                EXCEPT !.queued = n] EXCEPT !.conn = o] EXCEPT !.closed = notify] EXCEPT !.wake = TRUE]
    BY <1>1, <1>3 DEF terminate, terminateAsleep, SockRec
  <2>3. (keeps => q = c.queue /\ o = c.conn /\ c.conn = "open") /\ o \in {c.conn, "shut"}
    OBVIOUS
  <2>4. (~flush \/ c.conn # "open") => ~keeps
    OBVIOUS
  <2> HIDE DEF keeps, q, n, o, d
  <2>5. /\ d \in SockRec /\ d.dead /\ d.lingers = keeps /\ d.queue = q /\ d.queued = n /\ d.conn = o
        /\ d.writer = c.writer /\ d.failed = c.failed /\ d.sent = c.sent /\ d.written = c.written
        /\ d.batch = c.batch
    BY <1>1, <2>1, <2>2, ZenonT(40) DEF SockRec
  <2>6. Flushes(d)
    BY <1>1, <1>3, <2>3, <2>5 DEF Flushes
  <2>7. NoMore(c, d)
    BY <2>1, <2>5, <2>6 DEF NoMore, SockOK
  <2>8. EndsAs(c, flush, d)
    BY <1>3, <2>4, <2>5, <2>7 DEF EndsAs
  <2> QED BY <2>8 DEF d
<1> QED BY <1>2, <1>3

(* Whether its onClose is on its way changes nothing else. *)
LEMMA ClosedOK ==
  ASSUME NEW c, NEW d, NoMore(c, d), NEW b \in BOOLEAN
  PROVE  NoMore(c, [d EXCEPT !.closed = b])
<1>1. d \in SockRec /\ Flushes(d) /\ d.queued <= c.queued
  BY DEF NoMore, SockOK
<1> DEFINE e == [d EXCEPT !.closed = b]
<1>2. /\ e \in SockRec /\ e.dead = d.dead /\ e.lingers = d.lingers /\ e.queue = d.queue
      /\ e.queued = d.queued /\ e.conn = d.conn /\ e.writer = d.writer /\ e.failed = d.failed
      /\ e.sent = d.sent /\ e.written = d.written /\ e.batch = d.batch
  BY <1>1 DEF SockRec
<1> HIDE DEF e
<1>3. Flushes(e)
  BY <1>1, <1>2 DEF Flushes
<1>4. NoMore(c, e)
  BY <1>1, <1>2, <1>3 DEF NoMore, SockOK
<1> QED BY <1>4 DEF e

(* A dial lands, on a channel that waits for it or was closed meanwhile.   *)
LEMMA DialedOK ==
  ASSUME NEW c, SockOK(c), c.conn = "dialing"
  PROVE  NoMore(c, IF c.dead THEN [c EXCEPT !.conn = "shut"]
                   ELSE [c EXCEPT !.conn = "open", !.writer = "runs"])
<1>1. c \in SockRec /\ Flushes(c) /\ ~c.lingers
  BY DEF SockOK, Flushes
<1> DEFINE d == [c EXCEPT !.conn = "shut"]
           e == [c EXCEPT !.conn = "open", !.writer = "runs"]
<1>2. CASE c.dead
  <2>a. /\ d \in SockRec /\ d.dead /\ ~d.lingers /\ d.queued = c.queued /\ d.conn = "shut"
    BY <1>1, <1>2 DEF SockRec
  <2> HIDE DEF d
  <2>b. c.queued \in Nat
    BY <1>1 DEF SockRec
  <2>1. /\ d \in SockRec /\ d.dead /\ ~d.lingers /\ d.queued <= c.queued /\ d.conn = "shut"
    BY <2>a, <2>b
  <2>2. NoMore(c, d)
    BY <2>1 DEF NoMore, SockOK, Flushes
  <2> QED BY <1>2, <2>2 DEF d
<1>3. CASE ~c.dead /\ c.writer # "writes"
  <2>1. /\ e \in SockRec /\ ~e.lingers /\ e.queued = c.queued /\ e.writer = "runs"
        /\ e.queue = c.queue /\ e.sent = c.sent /\ e.written = c.written /\ e.failed = c.failed
        /\ e.conn = "open" /\ e.dead = c.dead
    BY <1>1, <1>3 DEF SockRec
  <2> HIDE DEF e
  <2>b. e.queued <= c.queued
    BY <1>1, <2>1 DEF SockRec
  <2>2. NoMore(c, e)
    BY <1>1, <1>3, <2>1, <2>b DEF NoMore, SockOK, Flushes
  <2> QED BY <1>3, <2>2 DEF e
<1>4. c.writer # "writes"
  BY <1>1 DEF Flushes
<1> QED BY <1>2, <1>3, <1>4

(* A dial fails. *)
LEMMA DialFailsOK ==
  ASSUME NEW c, SockOK(c), c.conn = "dialing"
  PROVE  NoMore(c, [terminate(c, FALSE, TRUE) EXCEPT !.conn = "shut"])
<1> DEFINE d == terminate(c, FALSE, TRUE)
           e == [d EXCEPT !.conn = "shut"]
<1>1. EndsAs(c, FALSE, d)
  BY TerminateOK
<1>2. ~c.lingers
  BY DEF SockOK, Flushes
<1> HIDE DEF d
<1>3. d \in SockRec /\ Flushes(d) /\ d.dead /\ ~d.lingers /\ d.queued <= c.queued
  BY <1>1, <1>2 DEF EndsAs, NoMore, SockOK
<1>4. e \in SockRec /\ e.dead /\ ~e.lingers /\ e.queued = d.queued /\ e.conn = "shut"
  BY <1>3 DEF SockRec
<1> HIDE DEF e
<1>5. NoMore(c, e)
  BY <1>3, <1>4 DEF NoMore, SockOK, Flushes
<1> QED BY <1>5 DEF e, d

(* The writer takes the backlog, leaves behind a close, or waits. *)
LEMMA WriterRunsOK ==
  ASSUME NEW c, SockOK(c), c.writer = "runs"
  PROVE  NoMore(c, IF c.queue # << >> THEN [c EXCEPT !.batch = c.queue, !.queue = << >>, !.writer = "writes"]
                   ELSE IF c.dead THEN [c EXCEPT !.conn = "shut", !.writer = "left"]
                   ELSE [c EXCEPT !.writer = "parked"])
<1>1. /\ c \in SockRec /\ Flushes(c) /\ c.conn \in {"open", "shut"}
      /\ (c.lingers => c.conn = "open")
  BY DEF SockOK, Flushes, SockRec
<1> DEFINE d == [c EXCEPT !.batch = c.queue, !.queue = << >>, !.writer = "writes"]
           e == [c EXCEPT !.conn = "shut", !.writer = "left"]
           f == [c EXCEPT !.writer = "parked"]
<1>2. CASE c.queue # << >>
  <2> DEFINE q == c.queue
             none == << >>
  <2>a. d = [[[c EXCEPT !.batch = q] EXCEPT !.queue = none] EXCEPT !.writer = "writes"]
    BY <1>1 DEF SockRec
  <2>b. q \in Seq(Nat) /\ none \in Seq(Nat)
    BY <1>1 DEF SockRec
  <2> HIDE DEF q, none, d
  <2>c. /\ d \in SockRec /\ d.batch = q /\ d.queue = none /\ d.writer = "writes"
        /\ d.conn = c.conn /\ d.queued = c.queued /\ d.dead = c.dead /\ d.lingers = c.lingers
        /\ d.sent = c.sent /\ d.written = c.written /\ d.failed = c.failed
    BY <1>1, <2>a, <2>b DEF SockRec
  <2>1. /\ d \in SockRec /\ d.batch = c.queue /\ d.queue = << >> /\ d.writer = "writes"
        /\ d.conn = c.conn /\ d.queued = c.queued /\ d.dead = c.dead /\ d.lingers = c.lingers
        /\ d.sent = c.sent /\ d.written = c.written /\ d.failed = c.failed
    BY <2>c DEF q, none
  <2> HIDE DEF d
  <2>2. /\ Len(d.queue) = 0 /\ Len(c.queue) \in Nat /\ c.written \in Nat
        /\ d.queued <= c.queued
    BY <1>1, <2>1 DEF SockRec
  <2>3. NoMore(c, d)
    BY <1>1, <2>1, <2>2 DEF NoMore, SockOK, Flushes
  <2> QED BY <1>2, <2>3 DEF d
<1>3. CASE c.queue = << >> /\ c.dead
  <2>1. /\ e \in SockRec /\ e.queue = << >> /\ e.writer = "left" /\ e.conn = "shut"
        /\ e.queued = c.queued /\ e.dead = c.dead /\ e.lingers = c.lingers
        /\ e.sent = c.sent /\ e.written = c.written /\ e.failed = c.failed
    BY <1>1, <1>3 DEF SockRec
  <2> HIDE DEF e
  <2>2. e.queued <= c.queued
    BY <1>1, <2>1 DEF SockRec
  <2>3. NoMore(c, e)
    BY <1>1, <1>3, <2>1, <2>2 DEF NoMore, SockOK, Flushes
  <2> QED BY <1>3, <2>3 DEF e
<1>4. CASE c.queue = << >> /\ ~c.dead
  <2>1. /\ f \in SockRec /\ f.queue = c.queue /\ f.writer = "parked" /\ f.conn = c.conn
        /\ f.queued = c.queued /\ f.dead = c.dead /\ f.lingers = c.lingers
        /\ f.sent = c.sent /\ f.written = c.written /\ f.failed = c.failed
    BY <1>1 DEF SockRec
  <2> HIDE DEF f
  <2>2. f.queued <= c.queued
    BY <1>1, <2>1 DEF SockRec
  <2>3. NoMore(c, f)
    BY <1>1, <1>4, <2>1, <2>2 DEF NoMore, SockOK, Flushes
  <2> QED BY <1>4, <2>3 DEF f
<1> QED BY <1>2, <1>3, <1>4

(* It is woken. *)
LEMMA WriterWakesOK ==
  ASSUME NEW c, SockOK(c), c.writer = "parked"
  PROVE  NoMore(c, [c EXCEPT !.wake = FALSE, !.writer = "runs"])
<1>1. c \in SockRec /\ Flushes(c) /\ (c.lingers => c.conn = "open")
  BY DEF SockOK, Flushes
<1> DEFINE f == [c EXCEPT !.wake = FALSE, !.writer = "runs"]
<1>2. /\ f \in SockRec /\ f.queue = c.queue /\ f.writer = "runs" /\ f.conn = c.conn
      /\ f.queued = c.queued /\ f.dead = c.dead /\ f.lingers = c.lingers
      /\ f.sent = c.sent /\ f.written = c.written /\ f.failed = c.failed
  BY <1>1 DEF SockRec
<1> HIDE DEF f
<1>3. f.queued <= c.queued
  BY <1>1, <1>2 DEF SockRec
<1>4. NoMore(c, f)
  BY <1>1, <1>2, <1>3 DEF NoMore, SockOK, Flushes
<1> QED BY <1>4 DEF f

(* The batch is on the wire. *)
LEMMA WriterWritesOK ==
  ASSUME NEW c, SockOK(c), c.writer = "writes", c.conn = "open"
  PROVE  NoMore(c, [c EXCEPT !.writer = "wrote", !.written = c.written + Len(c.batch)])
<1> DEFINE n == c.written + Len(c.batch)
           f == [c EXCEPT !.writer = "wrote", !.written = n]
<1>1. c \in SockRec /\ Flushes(c)
  BY DEF SockOK
<1>2. Len(c.batch) \in Nat /\ Len(c.queue) \in Nat /\ c.written \in Nat /\ n \in Nat
  BY <1>1 DEF SockRec
<1> HIDE DEF n
<1>3. /\ f \in SockRec /\ f.queue = c.queue /\ f.writer = "wrote" /\ f.conn = c.conn
      /\ f.queued = c.queued /\ f.dead = c.dead /\ f.lingers = c.lingers
      /\ f.sent = c.sent /\ f.written = n /\ f.failed = c.failed
  BY <1>1, <1>2 DEF SockRec
<1> HIDE DEF f
<1>4. f.queued <= c.queued
  BY <1>1, <1>3 DEF SockRec
<1>5. NoMore(c, f)
  BY <1>1, <1>2, <1>3, <1>4 DEF NoMore, SockOK, Flushes, n
<1> QED BY <1>5 DEF f, n

(* It fails, and the channel is closed hard. *)
LEMMA WriterFailsOK ==
  ASSUME NEW c, SockOK(c), c.writer = "writes"
  PROVE  NoMore(c, [terminate(c, FALSE, TRUE) EXCEPT !.writer = "wrote", !.failed = TRUE])
<1> DEFINE d == terminate(c, FALSE, TRUE)
           e == [d EXCEPT !.writer = "wrote", !.failed = TRUE]
<1>1. EndsAs(c, FALSE, d)
  BY TerminateOK
<1> HIDE DEF d
<1>2. d \in SockRec /\ Flushes(d) /\ d.dead /\ d.writer = "writes" /\ d.queued <= c.queued
  BY <1>1 DEF EndsAs, NoMore, SockOK
<1>3. /\ e \in SockRec /\ e.failed /\ e.dead /\ e.lingers = d.lingers /\ e.conn = d.conn
      /\ e.queued = d.queued
  BY <1>2 DEF SockRec
<1> HIDE DEF e
<1>4. NoMore(c, e)
  BY <1>2, <1>3 DEF NoMore, SockOK, Flushes
<1> QED BY <1>4 DEF e, d

(* The connection is read to its end, or fails. *)
LEMMA ReadFailsOK ==
  ASSUME NEW c, SockOK(c)
  PROVE  NoMore(c, [terminate(c, FALSE, TRUE) EXCEPT !.failed = TRUE])
<1> DEFINE d == terminate(c, FALSE, TRUE)
           e == [d EXCEPT !.failed = TRUE]
<1>1. EndsAs(c, FALSE, d)
  BY TerminateOK
<1> HIDE DEF d
<1>2. d \in SockRec /\ Flushes(d) /\ d.queued <= c.queued
  BY <1>1 DEF EndsAs, NoMore, SockOK
<1>3. /\ e \in SockRec /\ e.failed /\ e.dead = d.dead /\ e.lingers = d.lingers /\ e.conn = d.conn
      /\ e.queued = d.queued /\ e.writer = d.writer /\ e.queue = d.queue
  BY <1>2 DEF SockRec
<1> HIDE DEF e
<1>4. NoMore(c, e)
  BY <1>2, <1>3 DEF NoMore, SockOK, Flushes
<1> QED BY <1>4 DEF e, d

(* The batch leaves what is buffered. *)
LEMMA WriterCountsOK ==
  ASSUME NEW c, SockOK(c), c.writer = "wrote"
  PROVE  LET n == SumSeq(c.batch)
         IN NoMore(c, [c EXCEPT !.queued = IF c.queued >= n THEN c.queued - n ELSE c.queued,
                                !.batch = << >>, !.writer = "runs"])
<1>1. c \in SockRec /\ Flushes(c) /\ (c.lingers => c.conn = "open")
  BY DEF SockOK, Flushes
<1>2. c.batch \in Seq(Nat) /\ c.queued \in Nat
  BY <1>1 DEF SockRec
<1>3. c.batch \in Seq(Int) /\ \A i \in 1..Len(c.batch) : c.batch[i] \in Nat
  BY <1>2
<1>4. SumSeq(c.batch) \in Nat
  BY <1>3, SumType
<1> DEFINE n == SumSeq(c.batch)
           v == IF c.queued >= n THEN c.queued - n ELSE c.queued
           none == << >>
           d == [c EXCEPT !.queued = v, !.batch = none, !.writer = "runs"]
<1>5. v \in Nat /\ v <= c.queued
  <2> HIDE DEF n
  <2>1. n \in Nat
    BY <1>4 DEF n
  <2> QED BY <1>2, <2>1
<1>6. none \in Seq(Nat)
  OBVIOUS
<1> HIDE DEF v, none
<1>7. d = [[[c EXCEPT !.queued = v] EXCEPT !.batch = none] EXCEPT !.writer = "runs"]
  BY <1>1 DEF SockRec
<1> HIDE DEF d
<1>8. /\ d \in SockRec /\ d.queue = c.queue /\ d.writer = "runs"
      /\ d.conn = c.conn /\ d.queued = v /\ d.dead = c.dead /\ d.lingers = c.lingers
      /\ d.sent = c.sent /\ d.written = c.written /\ d.failed = c.failed
  BY <1>1, <1>5, <1>6, <1>7 DEF SockRec
<1>9. NoMore(c, d)
  BY <1>1, <1>5, <1>8 DEF NoMore, SockOK, Flushes
<1> QED BY <1>9 DEF d, v, none

(* A write is taken, or comes after a close and is dropped. *)
LEMMA SockSendOK ==
  ASSUME NEW c, SockOK(c), NEW n \in Nat
  PROVE  SockOK(SockSend(c, n)) /\ SockSend(c, n).queued <= c.queued + n
<1>1. c \in SockRec /\ Flushes(c) /\ c.queued \in Nat
  BY DEF SockOK, SockRec
<1>2. CASE c.dead
  BY <1>1, <1>2 DEF SockSend, SockOK
<1>3. CASE ~c.dead
  <2> DEFINE q == Append(c.queue, n)
             v == c.queued + n
             k == c.sent + 1
             d == SockSend(c, n)
  <2>1. /\ q \in Seq(Nat) /\ v \in Nat /\ k \in Nat /\ Len(q) = Len(c.queue) + 1
        /\ Len(c.queue) \in Nat /\ Len(c.batch) \in Nat /\ c.written \in Nat /\ c.sent \in Nat
    BY <1>1 DEF SockRec
  <2>2. d = [[[[c EXCEPT !.queue = q] EXCEPT !.queued = v] EXCEPT !.wake = TRUE] EXCEPT !.sent = k]
    BY <1>1, <1>3 DEF SockSend, SockRec
  <2>3. k = c.sent + 1 /\ v <= c.queued + n
    BY <1>1
  <2> HIDE DEF q, v, k, d
  <2>4. /\ d \in SockRec /\ d.queue = q /\ d.queued = v /\ d.sent = k /\ d.batch = c.batch
        /\ d.writer = c.writer /\ d.conn = c.conn /\ d.dead = c.dead /\ d.lingers = c.lingers
        /\ d.written = c.written /\ d.failed = c.failed
    BY <1>1, <2>1, <2>2 DEF SockRec
  <2>5. ~c.lingers
    BY <1>1, <1>3 DEF Flushes
  <2> DEFINE m == IF c.writer = "writes" THEN Len(c.batch) ELSE 0
  <2>a. m \in Nat /\ (~c.failed => c.sent = c.written + Len(c.queue) + m)
    BY <1>1, <1>3, <2>1 DEF Flushes
  <2>b. m = IF d.writer = "writes" THEN Len(d.batch) ELSE 0
    BY <2>4
  <2> HIDE DEF m
  <2>c. ~d.failed => d.sent = d.written + Len(d.queue) + m
    <3>1. d.sent = c.sent + 1 /\ Len(d.queue) = Len(c.queue) + 1 /\ d.written = c.written
      BY <2>1, <2>3, <2>4
    <3>2. \A a, b, x, y \in Nat : a = b + x + y => a + 1 = b + (x + 1) + y
      OBVIOUS
    <3>3. ~d.failed => ~c.failed
      BY <2>4
    <3>4. ~c.failed => c.sent + 1 = c.written + (Len(c.queue) + 1) + m
      BY <2>1, <2>a, <3>2, SMTT(30)
    <3> QED BY <3>1, <3>3, <3>4
  <2>d. ~d.failed => d.sent = d.written + Len(d.queue) + (IF d.writer = "writes" THEN Len(d.batch) ELSE 0)
    BY <2>b, <2>c
  <2>e. ~d.lingers /\ (d.conn \in {"none", "dialing"} => d.writer = "none")
    BY <1>1, <2>4, <2>5 DEF Flushes
  <2>6. Flushes(d)
    BY <2>d, <2>e DEF Flushes
  <2>7. SockOK(d) /\ d.queued <= c.queued + n
    BY <2>3, <2>4, <2>6 DEF SockOK
  <2> QED BY <2>7 DEF d
<1> QED BY <1>2, <1>3

(* A channel the driver drops, or closes for the occupant. *)
LEMMA ShutOK ==
  ASSUME NEW c, SockOK(c), NEW flush \in BOOLEAN
  PROVE  NoMore(c, [terminate(c, flush, FALSE) EXCEPT !.closed = FALSE])
<1>1. NoMore(c, terminate(c, flush, FALSE))
  BY TerminateOK DEF EndsAs
<1> QED BY <1>1, ClosedOK

(* ---- one link and its channel ---- *)

(* A report settles as many of the oldest writes as it covers: what is     *)
(* left charged still covers what the channel holds.                       *)
LEMMA SettledOK ==
  ASSUME NEW k, NEW c, LinkOK(k, c), k.state = "live"
  PROVE  LinkOK(Settled(k, c), c) /\ Settled(k, c).state = "live"
<1> DEFINE q == k.queued
           now == c.queued
           N == Len(q)
           S == {n \in 1..N : SumSeq(SubSeq(q, n + 1, N)) >= now}
           D == Drained(q, now)
           r == SubSeq(q, D + 1, N)
<1>1. k \in LinkRec /\ q \in Seq(Nat) /\ N \in Nat /\ SumSeq(q) >= now /\ SockOK(c)
  BY DEF LinkOK, LinkRec, Covers
<1>2. D = Max({0} \union S)
  BY DEF Drained
<1>3. {0} \union S \in SUBSET (0..N) /\ {0} \union S # {}
  BY <1>1
<1>4. D \in {0} \union S
  <2> HIDE DEF S, D, N
  <2> QED BY <1>1, <1>2, <1>3, MaxUpTo
<1>5. D \in 0..N
  BY <1>3, <1>4
<1>6. SumSeq(r) >= now
  <2>1. CASE D = 0
    <3>1. r = q
      BY <1>1, <2>1, SubSeqFull
    <3> QED BY <1>1, <3>1
  <2>2. CASE D \in S
    BY <2>2
  <2> HIDE DEF S
  <2> QED BY <1>4, <2>1, <2>2
<1> HIDE DEF D
<1>7. r \in Seq(Nat)
  <2>1. \A i \in (D + 1)..N : q[i] \in Nat
    BY <1>1, <1>5
  <2>2. D + 1 \in Int /\ N \in Int
    BY <1>1, <1>5
  <2> HIDE DEF q, N
  <2> QED BY <2>1, <2>2, SubSeqProperties
<1>8. Settled(k, c) = [k EXCEPT !.queued = r]
  BY <1>1 DEF Settled, D, LinkRec
<1> HIDE DEF r
<1> DEFINE j == [k EXCEPT !.queued = r]
<1>9. j \in LinkRec /\ j.state = "live" /\ j.queued = r
  BY <1>1, <1>7 DEF LinkRec
<1> HIDE DEF j
<1>10. LinkOK(j, c)
  BY <1>1, <1>6, <1>9 DEF LinkOK, Covers
<1> QED BY <1>8, <1>9, <1>10 DEF j

(* A write charged to the link and taken by the channel. *)
LEMMA ChargedOK ==
  ASSUME NEW k, NEW c, LinkOK(k, c), k.state = "live", NEW n \in Nat
  PROVE  LinkOK([k EXCEPT !.queued = Append(k.queued, n)], SockSend(c, n))
<1> DEFINE q == Append(k.queued, n)
           j == [k EXCEPT !.queued = q]
           d == SockSend(c, n)
<1>1. k \in LinkRec /\ k.queued \in Seq(Nat) /\ SumSeq(k.queued) >= c.queued /\ SockOK(c)
  BY DEF LinkOK, LinkRec, Covers
<1>2. c.queued \in Nat /\ k.queued \in Seq(Int)
  BY <1>1 DEF SockOK, SockRec
<1>3. SumSeq(q) = SumSeq(k.queued) + n /\ SumSeq(k.queued) \in Int
  BY <1>2, SumAppend, SumType, SMTT(30)
<1>4. SockOK(d) /\ d.queued <= c.queued + n
  BY <1>1, SockSendOK
<1>5. d.queued \in Nat
  BY <1>4 DEF SockOK, SockRec
<1>6. q \in Seq(Nat)
  BY <1>1
<1> HIDE DEF q, d
<1>7. SumSeq(q) >= d.queued
  BY <1>1, <1>2, <1>3, <1>4, <1>5
<1>8. j \in LinkRec /\ j.state = "live" /\ j.queued = q
  BY <1>1, <1>6 DEF LinkRec
<1> HIDE DEF j
<1>9. LinkOK(j, d)
  BY <1>4, <1>7, <1>8 DEF LinkOK, Covers
<1> QED BY <1>9 DEF j, d, q

(* A link that ends, whatever becomes of its channel. *)
LEMMA EndedOK ==
  ASSUME NEW k \in LinkRec, NEW c, SockOK(c)
  PROVE  LinkOK(Ended(k), c)
<1> DEFINE none == << >>
           j == [[[k EXCEPT !.state = "gone"] EXCEPT !.queued = none] EXCEPT !.closing = FALSE]
<1>1. none \in Seq(Nat)
  OBVIOUS
<1>2. Ended(k) = j
  BY DEF Ended, LinkRec
<1> HIDE DEF none
<1>3. j \in LinkRec /\ j.state = "gone"
  BY <1>1 DEF LinkRec
<1> HIDE DEF j
<1>4. LinkOK(j, c)
  BY <1>3 DEF LinkOK
<1> QED BY <1>2, <1>4

(* A channel that holds no more leaves its link covered. *)
LEMMA NoMoreOK ==
  ASSUME NEW k, NEW c, NEW d, LinkOK(k, c), NoMore(c, d), k.state # "none"
  PROVE  LinkOK(k, d)
<1>1. k \in LinkRec /\ k.queued \in Seq(Int) /\ c.queued \in Nat /\ d.queued \in Nat /\ SockOK(d)
      /\ d.queued <= c.queued
  BY SMTT(30) DEF LinkOK, LinkRec, NoMore, SockOK, SockRec
<1>2. SumSeq(k.queued) \in Int
  BY <1>1, SumType
<1>3. k.state = "live" => SumSeq(k.queued) >= c.queued
  BY DEF LinkOK, Covers
<1>4. k.state = "live" => SumSeq(k.queued) >= d.queued
  BY <1>1, <1>2, <1>3
<1> QED BY <1>1, <1>4 DEF LinkOK, Covers

(* ---- the table ---- *)

(* What a step makes of the channels: d of the one, the others as they     *)
(* were.                                                                   *)
SockIs(l, d) == DOMAIN sock' = Links /\ \A k \in Links : sock'[k] = IF k = l THEN d ELSE sock[k]

(* A link whose channel has come to anything has been registered. *)
LEMMA Registered ==
  ASSUME WritesInv, NEW l \in Links, sock[l] # NewSock
  PROVE  link[l].state # "none" /\ LinkOK(link[l], sock[l]) /\ SockOK(sock[l])
  BY DEF WritesInv, LinkOK

(* A step of one channel, the links as they were. *)
LEMMA SockStep ==
  ASSUME WritesInv, NEW l \in Links, NEW d, NoMore(sock[l], d), sock[l] # NewSock,
         link' = link, SockIs(l, d)
  PROVE  WritesInv'
<1>1. LinkOK(link[l], d)
  BY Registered, NoMoreOK
<1>2. ASSUME NEW k \in Links PROVE LinkOK(link'[k], sock'[k])
  BY <1>1 DEF WritesInv, SockIs
<1> QED BY <1>2 DEF WritesInv, SockIs, Links

(* A goroutine's step: a dial's or a writer's. *)
LEMMA WriterStep ==
  ASSUME WritesInv, NEW l \in Links,
         \/ Dialed(l) \/ DialFails(l) \/ WriterRuns(l) \/ WriterWakes(l)
         \/ WriterWrites(l) \/ WriterFails(l) \/ WriterCounts(l) \/ ReadFails(l)
  PROVE  WritesInv'
<1> DEFINE c == sock[l]
<1>1. SockOK(c) /\ c \in SockRec /\ DOMAIN sock = Links
  BY DEF WritesInv, LinkOK, SockOK
<1>2. NewSock.conn = "none" /\ NewSock.writer = "none"
  BY DEF NewSock
<1>3. CASE Dialed(l)
  <2> DEFINE d == IF c.dead THEN [c EXCEPT !.conn = "shut"]
                  ELSE [c EXCEPT !.conn = "open", !.writer = "runs"]
  <2>1. SockIs(l, d) /\ link' = link /\ c.conn = "dialing"
    BY <1>1, <1>3 DEF Dialed, SockIs
  <2>2. NoMore(c, d)
    BY <1>1, <2>1, DialedOK
  <2> HIDE DEF d
  <2> QED BY <1>2, <2>1, <2>2, SockStep
<1>4. CASE DialFails(l)
  <2> DEFINE d == [terminate(c, FALSE, TRUE) EXCEPT !.conn = "shut"]
  <2>1. SockIs(l, d) /\ link' = link /\ c.conn = "dialing"
    BY <1>1, <1>4 DEF DialFails, SockIs
  <2>2. NoMore(c, d)
    BY <1>1, <2>1, DialFailsOK
  <2> HIDE DEF d
  <2> QED BY <1>2, <2>1, <2>2, SockStep
<1>5. CASE WriterRuns(l)
  <2> DEFINE d == IF c.queue # << >> THEN [c EXCEPT !.batch = c.queue, !.queue = << >>, !.writer = "writes"]
                  ELSE IF c.dead THEN [c EXCEPT !.conn = "shut", !.writer = "left"]
                  ELSE [c EXCEPT !.writer = "parked"]
  <2>1. SockIs(l, d) /\ link' = link /\ c.writer = "runs"
    BY <1>1, <1>5 DEF WriterRuns, SockIs
  <2>2. NoMore(c, d)
    BY <1>1, <2>1, WriterRunsOK
  <2> HIDE DEF d
  <2> QED BY <1>2, <2>1, <2>2, SockStep
<1>6. CASE WriterWakes(l)
  <2> DEFINE d == [c EXCEPT !.wake = FALSE, !.writer = "runs"]
  <2>1. SockIs(l, d) /\ link' = link /\ c.writer = "parked"
    BY <1>1, <1>6 DEF WriterWakes, SockIs
  <2>2. NoMore(c, d)
    BY <1>1, <2>1, WriterWakesOK
  <2> HIDE DEF d
  <2> QED BY <1>2, <2>1, <2>2, SockStep
<1>7. CASE WriterWrites(l)
  <2> DEFINE d == [c EXCEPT !.writer = "wrote", !.written = c.written + Len(c.batch)]
  <2>1. SockIs(l, d) /\ link' = link /\ c.writer = "writes" /\ c.conn = "open"
    BY <1>1, <1>7 DEF WriterWrites, SockIs, SockRec
  <2>2. NoMore(c, d)
    BY <1>1, <2>1, WriterWritesOK
  <2> HIDE DEF d
  <2> QED BY <1>2, <2>1, <2>2, SockStep
<1>8. CASE WriterFails(l)
  <2> DEFINE d == [terminate(c, FALSE, TRUE) EXCEPT !.writer = "wrote", !.failed = TRUE]
  <2>1. SockIs(l, d) /\ link' = link /\ c.writer = "writes"
    BY <1>1, <1>8 DEF WriterFails, SockIs
  <2>2. NoMore(c, d)
    BY <1>1, <2>1, WriterFailsOK
  <2> HIDE DEF d
  <2> QED BY <1>2, <2>1, <2>2, SockStep
<1>9. CASE WriterCounts(l)
  <2> DEFINE n == SumSeq(c.batch)
             d == [c EXCEPT !.queued = IF c.queued >= n THEN c.queued - n ELSE c.queued,
                            !.batch = << >>, !.writer = "runs"]
  <2>1. SockIs(l, d) /\ link' = link /\ c.writer = "wrote"
    BY <1>1, <1>9 DEF WriterCounts, SockIs, SockRec
  <2>2. NoMore(c, d)
    BY <1>1, <2>1, WriterCountsOK
  <2> HIDE DEF d
  <2> QED BY <1>2, <2>1, <2>2, SockStep
<1>10. CASE ReadFails(l)
  <2> DEFINE d == [terminate(c, FALSE, TRUE) EXCEPT !.failed = TRUE]
  <2>1. SockIs(l, d) /\ link' = link /\ c.conn = "open"
    BY <1>1, <1>10 DEF ReadFails, SockIs
  <2>2. NoMore(c, d)
    BY <1>1, <2>1, ReadFailsOK
  <2> HIDE DEF d
  <2> QED BY <1>2, <2>1, <2>2, SockStep
<1> QED BY <1>3, <1>4, <1>5, <1>6, <1>7, <1>8, <1>9, <1>10

(* The links in the midst of a turn, over the channels as they are: sound, *)
(* and live if they were.                                                  *)
Tabled(lk) == /\ DOMAIN lk = Links
              /\ \A k \in Links : LinkOK(lk[k], sock[k]) /\ (k \in Live => lk[k].state = "live")

LinkIs(lk, l, j) == DOMAIN link' = Links /\ \A k \in Links : link'[k] = IF k = l THEN j ELSE lk[k]

(* A report of one link, or of all of them, leaves a sound table. *)
LEMMA OwnTabled ==
  ASSUME WritesInv, NEW l \in Live
  PROVE  Tabled(Own(l))
<1>1. \A k \in Links : LinkOK(link[k], sock[k]) /\ (k \in Live => link[k].state = "live")
  BY DEF WritesInv, Live
<1>2. l \in Links /\ LinkOK(Settled(link[l], sock[l]), sock[l]) /\ Settled(link[l], sock[l]).state = "live"
  BY <1>1, SettledOK DEF Live
<1>3. /\ DOMAIN Own(l) = Links
      /\ \A k \in Links : Own(l)[k] = IF k = l THEN Settled(link[l], sock[l]) ELSE link[k]
  BY <1>2 DEF Own, WritesInv
<1> QED BY <1>1, <1>2, <1>3 DEF Tabled

(* The table without the links that have gone. *)
LEMMA SweptTabled ==
  ASSUME NEW lk, Tabled(lk), NEW n
  PROVE  Tabled(Swept(lk, n))
<1> DEFINE all == [l \in Links |-> IF l \in Live THEN Settled(lk[l], sock[l]) ELSE lk[l]]
<1>1. ASSUME NEW k \in Links
      PROVE  LinkOK(all[k], sock[k]) /\ (k \in Live => all[k].state = "live")
  <2>1. CASE k \in Live
    <3>1. LinkOK(lk[k], sock[k]) /\ lk[k].state = "live" /\ all[k] = Settled(lk[k], sock[k])
      BY <2>1 DEF Tabled
    <3> QED BY <3>1, SettledOK
  <2>2. CASE k \notin Live
    BY <2>2 DEF Tabled
  <2> QED BY <2>1, <2>2
<1>2. Tabled(all)
  BY <1>1 DEF Tabled
<1> HIDE DEF all
<1>3. Swept(lk, n) = lk \/ Swept(lk, n) = all
  BY DEF Swept, all
<1> QED BY <1>2, <1>3

(* A turn that leaves the channels alone, and one that also changes a link *)
(* and its channel.                                                        *)
LEMMA TableStep ==
  ASSUME NEW lk, Tabled(lk), link' = lk, sock' = sock, WritesInv
  PROVE  WritesInv'
  BY DEF Tabled, WritesInv, Links

(* A link and its socket change together. *)
LEMMA PairStep ==
  ASSUME NEW lk, Tabled(lk), NEW l \in Links, NEW j, NEW d, LinkOK(j, d), LinkIs(lk, l, j), SockIs(l, d)
  PROVE  WritesInv'
<1>1. ASSUME NEW k \in Links PROVE LinkOK(link'[k], sock'[k])
  BY DEF LinkIs, SockIs, Tabled
<1> QED BY <1>1 DEF WritesInv, LinkIs, SockIs, Links

(* A link is dropped. *)
LEMMA DropStep ==
  ASSUME NEW lk, NEW l \in Links, NEW r, Tabled(r), \A k \in Links : k # l => lk[k] = r[k],
         DOMAIN lk = Links, lk[l] \in LinkRec, DropLink(lk, l), DOMAIN sock = Links
  PROVE  WritesInv'
<1> DEFINE j == Ended(lk[l])
           d == Shut(sock[l])
<1>1. SockOK(sock[l])
  BY DEF Tabled, LinkOK
<1>2. NoMore(sock[l], d)
  BY <1>1, ShutOK DEF Shut
<1>3. LinkOK(j, d)
  BY <1>2, EndedOK DEF NoMore
<1>4. link' = [lk EXCEPT ![l] = Ended(@)] /\ sock' = [sock EXCEPT ![l] = Shut(@)]
  BY DEF DropLink, Become
<1>5. LinkIs(r, l, j) /\ SockIs(l, d)
  BY <1>4 DEF LinkIs, SockIs
<1> HIDE DEF j, d
<1> QED BY <1>3, <1>5, PairStep

(* A write still to be reported is a live link's: the driver does nothing  *)
(* else in between.                                                        *)
Reporting == sending # 0 => sending \in Live

(* The occupant writes. *)
LEMMA SendStep ==
  ASSUME WritesInv, NEW l \in Links, NEW n \in Sizes, Send(l, n)
  PROVE  WritesInv' /\ Reporting'
<1> DEFINE own == Own(l)
           allowed == Allowed(own[l], n)
           lk == IF allowed THEN Swept(own, n) ELSE own
           posted == [lk EXCEPT ![l].queued = Append(@, n)]
           past == [lk EXCEPT ![l].refused = n]
<1>1. l \in Live /\ n \in Nat /\ DOMAIN sock = Links
  BY LinkWritesAssumption DEF Send, WritesInv
<1>2. Tabled(own)
  BY <1>1, OwnTabled
<1>3. Tabled(lk)
  <2> HIDE DEF own, allowed
  <2> QED BY <1>2, SweptTabled
<1>4. \/ sending' = sending /\ Become(own) /\ sock' = sock
      \/ Become(posted) /\ sock' = [sock EXCEPT ![l] = SockSend(@, n)]
      \/ DropLink(past, l)
  BY DEF Send
<1> HIDE DEF own, lk
<1>5. LinkOK(lk[l], sock[l]) /\ lk[l].state = "live" /\ lk[l] \in LinkRec /\ DOMAIN lk = Links
  BY <1>1, <1>3 DEF Tabled, LinkOK
<1>a. sending' = sending => Reporting'
  BY DEF Send, Idle, Reporting
<1>b. sending' \in {sending, l} /\ (DropLink(past, l) => sending' = sending)
  BY DEF Send, DropLink
<1>6. CASE sending' = sending /\ Become(own) /\ sock' = sock
  BY <1>2, <1>6, <1>a, TableStep DEF Become
<1>7. CASE Become(posted) /\ sock' = [sock EXCEPT ![l] = SockSend(@, n)]
  <2> DEFINE j == [lk[l] EXCEPT !.queued = Append(lk[l].queued, n)]
             d == SockSend(sock[l], n)
  <2>1. link' = posted
    BY <1>7 DEF Become
  <2>2. LinkOK(j, d)
    BY <1>1, <1>5, ChargedOK
  <2>3. LinkIs(lk, l, j)
    BY <1>5, <2>1 DEF LinkIs, LinkRec
  <2>4. SockIs(l, d)
    BY <1>1, <1>7 DEF SockIs
  <2>5. j.state = "live"
    BY <1>5 DEF LinkRec
  <2> HIDE DEF j, d
  <2>6. l \in Live'
    BY <2>3, <2>5 DEF Live, LinkIs, Links
  <2>7. Reporting'
    BY <1>a, <1>b, <2>6 DEF Reporting
  <2> QED BY <1>3, <2>2, <2>3, <2>4, <2>7, PairStep
<1>8. CASE DropLink(past, l)
  <2>1. /\ DOMAIN past = Links /\ \A k \in Links : k # l => past[k] = lk[k]
        /\ past[l] \in LinkRec
    BY <1>1, <1>5 DEF LinkRec
  <2> HIDE DEF past
  <2> QED BY <1>1, <1>3, <1>8, <1>a, <1>b, <2>1, DropStep
<1> QED BY <1>4, <1>6, <1>7, <1>8

(* A link is registered, with a dialed channel or an accepted one. *)
LEMMA OpenStep ==
  ASSUME WritesInv, NEW l \in Links, NEW conn \in {"dialing", "open"}, Open(l, conn)
  PROVE  WritesInv'
<1> DEFINE w == IF conn = "open" THEN "runs" ELSE "none"
           j == [NewLink EXCEPT !.state = "live"]
           d == [[NewSock EXCEPT !.conn = conn] EXCEPT !.writer = w]
<1>1. link[l] = NewLink /\ sock[l] = NewSock
  BY DEF Open, WritesInv, LinkOK
<1>a. NewLink \in LinkRec /\ NewSock \in SockRec
  BY NewOK
<1>b. NewLink.queued = << >>
  BY DEF NewLink
<1>c. /\ NewSock.queued = 0 /\ NewSock.queue = << >> /\ ~NewSock.dead /\ ~NewSock.lingers
      /\ NewSock.sent = 0 /\ NewSock.written = 0
  BY DEF NewSock
<1>2. j \in LinkRec /\ j.state = "live" /\ j.queued = << >>
  BY <1>a, <1>b DEF LinkRec
<1>d. w \in {"runs", "none"}
  OBVIOUS
<1>e. conn \in {"none", "dialing"} => w = "none"
  OBVIOUS
<1> HIDE DEF w
<1>f. /\ d \in SockRec /\ d.writer = w /\ d.conn = conn /\ d.queued = NewSock.queued
      /\ d.queue = NewSock.queue /\ d.dead = NewSock.dead /\ d.lingers = NewSock.lingers
      /\ d.sent = NewSock.sent /\ d.written = NewSock.written
  BY <1>a, <1>d DEF SockRec
<1> HIDE DEF d
<1>3. /\ d \in SockRec /\ d.queued = 0 /\ d.queue = << >> /\ ~d.dead /\ ~d.lingers /\ d.writer = w
      /\ d.conn = conn /\ d.sent = 0 /\ d.written = 0 /\ Len(d.queue) = 0
  BY <1>c, <1>f
<1>4. Flushes(d)
  BY <1>3, <1>d, <1>e DEF Flushes
<1>5. LinkOK(j, d)
  BY <1>2, <1>3, <1>4, SumEmpty DEF LinkOK, SockOK, Covers
<1>6. LinkIs(link, l, j)
  BY <1>1 DEF Open, LinkIs, WritesInv, NewLink
<1>7. SockIs(l, d)
  BY <1>1 DEF Open, SockIs, WritesInv, NewSock, d, w
<1>8. Tabled(link)
  BY DEF Tabled, WritesInv, Live
<1> HIDE DEF j, d
<1> QED BY <1>5, <1>6, <1>7, <1>8, PairStep

(* Every other turn of the driver's. *)
LEMMA DriverStep ==
  ASSUME WritesInv, Reporting, NEW l \in Links,
         \/ Reports(l) \/ SendThrows(l) \/ (\E graceful \in BOOLEAN : Close(l, graceful))
         \/ CloseTurn(l) \/ OnClose(l) \/ SilentTimeout(l)
  PROVE  WritesInv'
<1>1. /\ DOMAIN sock = Links /\ DOMAIN link = Links /\ LinkOK(link[l], sock[l]) /\ SockOK(sock[l])
      /\ link[l] \in LinkRec
  BY DEF WritesInv, LinkOK
<1>2. Tabled(link)
  BY DEF Tabled, WritesInv, Live
<1>3. NoMore(sock[l], sock[l])
  BY <1>1 DEF NoMore, SockOK, SockRec
<1>4. CASE Reports(l)
  <2>1. l # 0 /\ l \in Live /\ link' = Own(l) /\ sock' = sock
    BY <1>4 DEF Reports, Reporting, Links, Become
  <2> QED BY <2>1, OwnTabled, TableStep
<1>5. CASE SendThrows(l)
  <2> DEFINE own == Own(l)
  <2>1. l \in Live /\ DropLink(own, l)
    BY <1>5 DEF SendThrows
  <2>2. Tabled(own)
    BY <2>1, OwnTabled
  <2> HIDE DEF own
  <2>3. DOMAIN own = Links /\ own[l] \in LinkRec
    BY <2>2 DEF Tabled, LinkOK
  <2> QED BY <1>1, <2>1, <2>2, <2>3, DropStep
<1>6. CASE \E graceful \in BOOLEAN : Close(l, graceful)
  <2>1. PICK graceful \in BOOLEAN : Close(l, graceful)
    BY <1>6
  <2> DEFINE d == [terminate(sock[l], graceful, FALSE) EXCEPT !.closed = FALSE]
             j == [link[l] EXCEPT !.closing = TRUE]
  <2>2. NoMore(sock[l], d)
    BY <1>1, ShutOK
  <2>3. SockIs(l, d) /\ LinkIs(link, l, j) /\ link[l].state = "live"
    BY <1>1, <2>1 DEF Close, SockIs, LinkIs, Live
  <2> HIDE DEF d
  <2>4. LinkOK(link[l], d)
    BY <1>1, <2>2, <2>3, NoMoreOK
  <2>5. j \in LinkRec /\ j.state = "live" /\ j.queued = link[l].queued
    BY <1>1, <2>3 DEF LinkRec
  <2> HIDE DEF j
  <2>6. LinkOK(j, d)
    BY <2>3, <2>4, <2>5 DEF LinkOK, Covers
  <2> QED BY <1>2, <2>3, <2>6, PairStep
<1>7. CASE CloseTurn(l)
  <2> DEFINE j == Ended(link[l])
  <2>1. link' = [link EXCEPT ![l] = Ended(@)] /\ sock' = sock
    BY <1>7 DEF CloseTurn, Become
  <2>2. LinkOK(j, sock[l])
    BY <1>1, EndedOK
  <2>3. LinkIs(link, l, j) /\ SockIs(l, sock[l])
    BY <1>1, <2>1 DEF LinkIs, SockIs
  <2> HIDE DEF j
  <2> QED BY <1>2, <2>2, <2>3, PairStep
<1>8. CASE OnClose(l)
  <2> DEFINE j == Ended(link[l])
             d == [sock[l] EXCEPT !.closed = FALSE]
  <2>1. link' = [link EXCEPT ![l] = Ended(@)] /\ sock' = [sock EXCEPT ![l].closed = FALSE]
    BY <1>8 DEF OnClose, Become
  <2>2. NoMore(sock[l], d)
    BY <1>3, ClosedOK
  <2>3. LinkIs(link, l, j) /\ SockIs(l, d)
    BY <1>1, <2>1 DEF LinkIs, SockIs
  <2> HIDE DEF d
  <2>4. LinkOK(j, d)
    BY <1>1, <2>2, EndedOK DEF NoMore
  <2> HIDE DEF j
  <2> QED BY <1>2, <2>3, <2>4, PairStep
<1>9. CASE SilentTimeout(l)
  <2>1. DropLink(link, l)
    BY <1>9 DEF SilentTimeout
  <2> QED BY <1>1, <1>2, <2>1, DropStep
<1> QED BY <1>4, <1>5, <1>6, <1>7, <1>8, <1>9

(* Another occupant is bound, and every live link is dropped. *)
LEMMA ResetStep ==
  ASSUME WritesInv, ResetLinks
  PROVE  WritesInv'
<1>1. /\ link' = [l \in Links |-> IF l \in Live THEN Ended(link[l]) ELSE link[l]]
      /\ sock' = [l \in Links |-> IF l \in Live THEN Shut(sock[l]) ELSE sock[l]]
  BY DEF ResetLinks, Become
<1>2. ASSUME NEW l \in Links PROVE LinkOK(link'[l], sock'[l])
  <2>1. LinkOK(link[l], sock[l]) /\ link[l] \in LinkRec /\ SockOK(sock[l])
    BY DEF WritesInv, LinkOK
  <2>2. CASE l \in Live
    <3>1. NoMore(sock[l], Shut(sock[l]))
      BY <2>1, ShutOK DEF Shut
    <3>2. LinkOK(Ended(link[l]), Shut(sock[l]))
      BY <2>1, <3>1, EndedOK DEF NoMore
    <3> QED BY <1>1, <2>2, <3>2
  <2>3. CASE l \notin Live
    BY <1>1, <2>1, <2>3
  <2> QED BY <2>2, <2>3
<1>3. DOMAIN link' = Links /\ DOMAIN sock' = Links
  BY <1>1
<1> QED BY <1>2, <1>3 DEF WritesInv, Links

(* One step of the driver keeps the links' part of the invariant. *)
LEMMA WritesStep ==
  ASSUME WritesInv, Reporting, [Next]_vars
  PROVE  WritesInv' /\ Reporting'
<1>1. CASE UNCHANGED writeVars
  BY <1>1 DEF writeVars, WritesInv, Reporting, Live, Links
<1>2. ASSUME link' = link, sending' = sending PROVE Reporting'
  BY <1>2 DEF Reporting, Live
<1>3. ASSUME Idle, sending' = sending PROVE Reporting'
  BY <1>3 DEF Idle, Reporting
<1>4. ASSUME NEW l \in Links,
             \/ Dialed(l) \/ DialFails(l) \/ WriterRuns(l) \/ WriterWakes(l)
             \/ WriterWrites(l) \/ WriterFails(l) \/ WriterCounts(l) \/ ReadFails(l)
      PROVE  WritesInv' /\ Reporting'
  <2>1. link' = link /\ sending' = sending
    BY <1>4 DEF Dialed, DialFails, WriterRuns, WriterWakes, WriterWrites, WriterFails, WriterCounts, ReadFails
  <2> QED BY <1>2, <1>4, <2>1, WriterStep
<1>5. ASSUME NEW l \in Links,
             \/ Reports(l) \/ SendThrows(l) \/ (\E graceful \in BOOLEAN : Close(l, graceful))
             \/ CloseTurn(l) \/ OnClose(l) \/ SilentTimeout(l)
      PROVE  WritesInv' /\ Reporting'
  <2>1. sending' = 0 \/ (Idle /\ sending' = sending)
    BY <1>5 DEF Reports, SendThrows, Close, CloseTurn, OnClose, SilentTimeout, DropLink
  <2>2. Reporting'
    BY <1>3, <2>1 DEF Reporting
  <2> QED BY <1>5, <2>2, DriverStep
<1>6. ASSUME NEW l \in Links, NEW conn \in {"dialing", "open"}, Open(l, conn)
      PROVE  WritesInv' /\ Reporting'
  <2>1. Idle /\ sending' = sending
    BY <1>6 DEF Open
  <2> QED BY <1>3, <1>6, <2>1, OpenStep
<1>7. ASSUME ResetLinks PROVE WritesInv' /\ Reporting'
  <2>1. Idle /\ sending' = sending
    BY <1>7 DEF ResetLinks
  <2> QED BY <1>3, <1>7, <2>1, ResetStep
<1>8. CASE Reset
  BY <1>7, <1>8 DEF Reset
<1>9. ASSUME NEW l \in Links, Writer(l) \/ Dialer(l) \/ Turn(l) PROVE WritesInv' /\ Reporting'
  <2>1. CASE Writer(l)
    BY <1>4, <2>1 DEF Writer
  <2>2. CASE Dialer(l)
    BY <1>4, <2>2 DEF Dialer
  <2>3. CASE Turn(l)
    BY <1>5, <2>3 DEF Turn
  <2> QED BY <1>9, <2>1, <2>2, <2>3
<1>10. ASSUME NEW l \in Links,
              \/ \E conn \in {"dialing", "open"} : Open(l, conn) /\ Bounded("open")
              \/ \E n \in Sizes : Send(l, n) /\ Bounded("write")
              \/ (SendThrows(l) \/ ReadFails(l) \/ SilentTimeout(l)) /\ Bounded("fault")
              \/ \E graceful \in BOOLEAN : Close(l, graceful) /\ UNCHANGED left
       PROVE  WritesInv' /\ Reporting'
  BY <1>4, <1>5, <1>6, <1>10, SendStep
<1>11. CASE \E s \in Ids : SocketTurn(s)
  BY <1>1, <1>11 DEF SocketTurn
<1>12. CASE Reading
  BY <1>1, <1>12 DEF Reading
<1>13. CASE UNCHANGED vars
  BY <1>1, <1>13 DEF vars, writeVars
<1>14. CASE Next
  BY <1>1, <1>8, <1>9, <1>10, <1>11, <1>12, <1>14 DEF Next
<1> QED BY <1>13, <1>14

(* Every byte a live link's channel still holds for the wire is charged to *)
(* it, wherever its writer, its dial and the driver's reports stand.       *)
THEOREM ChargedHolds == Spec => []Charged
<1> DEFINE Inv == WritesInv /\ Reporting
<1>1. Init => Inv
  <2> SUFFICES ASSUME Init PROVE Inv
    OBVIOUS
  <2>1. link = [l \in Links |-> NewLink] /\ sock = [l \in Links |-> NewSock] /\ sending = 0
    BY DEF Init, WritesInit
  <2> QED BY <2>1, NewOK DEF WritesInv, Reporting
<1>2. Inv /\ [Next]_vars => Inv'
  BY WritesStep
<1>3. Inv => Charged
  BY DEF WritesInv, LinkOK, Covers, Charged, Live
<1> HIDE DEF Inv
<1> QED BY <1>1, <1>2, <1>3, PTL DEF Spec

(* What was written before a graceful close is on the wire when the socket *)
(* closes, unless a write failed: the writer leaves only behind an empty   *)
(* queue, and nothing else shuts a connection that lingers.                *)
THEOREM FlushedWholeHolds == Spec => []FlushedWhole
<1> DEFINE Inv == WritesInv /\ Reporting
<1>1. Init => Inv
  <2> SUFFICES ASSUME Init PROVE Inv
    OBVIOUS
  <2>1. link = [l \in Links |-> NewLink] /\ sock = [l \in Links |-> NewSock] /\ sending = 0
    BY DEF Init, WritesInit
  <2> QED BY <2>1, NewOK DEF WritesInv, Reporting
<1>2. Inv /\ [Next]_vars => Inv'
  BY WritesStep
<1>3. Inv => FlushedWhole
  <2> SUFFICES ASSUME WritesInv, NEW l \in Links, sock[l].lingers, sock[l].conn = "shut", ~sock[l].failed
               PROVE  sock[l].written = sock[l].sent
    BY DEF FlushedWhole
  <2>1. Flushes(sock[l]) /\ sock[l] \in SockRec
    BY DEF WritesInv, LinkOK, SockOK
  <2>2. sock[l].written \in Nat /\ sock[l].queue = << >> /\ sock[l].writer = "left"
    BY <2>1 DEF Flushes, SockRec
  <2>3. sock[l].sent = sock[l].written + Len(sock[l].queue) + 0
    BY <2>1, <2>2 DEF Flushes
  <2> QED BY <2>2, <2>3
<1> HIDE DEF Inv
<1> QED BY <1>1, <1>2, <1>3, PTL DEF Spec

-----------------------------------------------------------------------------
(* The sockets. *)

UdpRec == [gen : Nat, state : {"binding", "open", "failed", "shut"}, awaited : BOOLEAN,
           held : Nat, posted : BOOLEAN, sending : Nat, closing : BOOLEAN]

(* A socket the driver has not heard of is no one's; the occupant's are    *)
(* those it asked for; an open one is the occupant's, awaited or closing.  *)
SocketOK(c, mine, gen) ==
    /\ c.state = "binding" => c.awaited
    /\ mine => c.gen = gen
    /\ c.state = "open" => mine \/ c.awaited \/ c.closing

SocketsInv ==
    /\ udp \in Seq(UdpRec) /\ socketGen \in Nat
    /\ \A s \in Ids : SocketOK(udp[s], s \in sockets, socketGen)

(* What the sockets of u hold for the loop. *)
HeldBy(u) == [s \in 1..Len(u) |-> u[s].held]
HeldInv == udpHeld \in Int /\ (platform = "native" => udpHeld = SumSeq(HeldBy(udp)))

(* What the occupant of a generation reads, and how much that is. *)
OfGen(evs, gen) == {e \in evs : e.gen = gen}
InRealm(evs, gen) == IF OfGen(evs, gen) = {} THEN 0 ELSE (CHOOSE e \in OfGen(evs, gen) : TRUE).bytes

(* Events are of occupants there have been, the present one reads one at a *)
(* time, and none is due while it does.                                    *)
EventsInv ==
    /\ reads \in Seq(Nat) /\ socketGen \in Nat
    /\ \A e \in events : e.gen \in Nat /\ e.bytes \in Nat /\ e.gen <= socketGen
    /\ readsBusy \in BOOLEAN /\ (readsDue => ~readsBusy)
    /\ \A d, e \in OfGen(events, socketGen) : d = e
    /\ readsBusy = (OfGen(events, socketGen) # {})
    /\ heldDatagrams = SumSeq(reads) + InRealm(events, socketGen)

(* What a sequence of sockets holds, socket by socket. *)
LEMMA HeldType ==
  ASSUME NEW u \in Seq(UdpRec)
  PROVE  HeldBy(u) \in Seq(Int) /\ Len(HeldBy(u)) = Len(u)
         /\ \A s \in 1..Len(u) : HeldBy(u)[s] = u[s].held
<1>1. \A s \in 1..Len(u) : u[s].held \in Int
  <2> TAKE s \in 1..Len(u)
  <2>1. u[s] \in UdpRec
    OBVIOUS
  <2> QED BY <2>1 DEF UdpRec
<1>2. HeldBy(u) \in [1..Len(u) -> Int]
  BY <1>1 DEF HeldBy
<1>3. Len(u) \in Nat
  OBVIOUS
<1>4. HeldBy(u) \in Seq(Int) /\ Len(HeldBy(u)) = Len(u)
  BY <1>2, <1>3
<1> QED BY <1>4 DEF HeldBy

(* Sockets that hold what they held hold as much together. *)
LEMMA HeldSame ==
  ASSUME NEW u \in Seq(UdpRec), NEW v \in Seq(UdpRec), Len(u) = Len(v),
         \A s \in 1..Len(u) : u[s].held = v[s].held
  PROVE  HeldBy(u) = HeldBy(v)
<1> DEFINE a == HeldBy(u) b == HeldBy(v) n == Len(u)
<1>1. a \in Seq(Int) /\ Len(a) = n /\ b \in Seq(Int) /\ Len(b) = n
  BY HeldType
<1>2. \A s \in 1..n : a[s] = b[s]
  BY HeldType
<1> HIDE DEF a, b, n
<1>3. a = b
  BY <1>1, <1>2, SeqEqual
<1> QED BY <1>3 DEF a, b

(* One socket's change is the sum's. *)
LEMMA HeldReplace ==
  ASSUME NEW u \in Seq(UdpRec), NEW v \in Seq(UdpRec), Len(u) = Len(v), NEW s \in 1..Len(u),
         \A k \in 1..Len(u) : k # s => u[k].held = v[k].held
  PROVE  SumSeq(HeldBy(v)) = SumSeq(HeldBy(u)) - u[s].held + v[s].held
<1> DEFINE a == HeldBy(u) b == HeldBy(v) n == Len(u) y == v[s].held
<1>1. a \in Seq(Int) /\ Len(a) = n /\ b \in Seq(Int) /\ Len(b) = n /\ s \in 1..n
  BY HeldType
<1>2. (\A k \in 1..n : k # s => a[k] = b[k]) /\ b[s] = y /\ a[s] = u[s].held
  BY HeldType
<1>3. y \in Int
  <2>1. v[s] \in UdpRec
    OBVIOUS
  <2> QED BY <2>1 DEF UdpRec
<1> HIDE DEF a, b, n, y
<1>4. [a EXCEPT ![s] = y] \in Seq(Int) /\ Len([a EXCEPT ![s] = y]) = n
  BY <1>1, <1>3
<1>5. \A k \in 1..n : b[k] = [a EXCEPT ![s] = y][k]
  BY <1>1, <1>2, SMTT(30)
<1>6. b = [a EXCEPT ![s] = y]
  BY <1>1, <1>4, <1>5, SeqEqual
<1>7. SumSeq(b) = SumSeq(a) - a[s] + y
  BY <1>1, <1>3, <1>6, SumReplace, ZenonT(40)
<1> QED BY <1>2, <1>7 DEF a, b, y

(* Socket s becomes d, and the others stay as they are. *)
Becomes(s, d) ==
    /\ udp' \in Seq(UdpRec) /\ Len(udp') = Len(udp) /\ udp'[s] = d
    /\ \A k \in Ids : k # s => udp'[k] = udp[k]

(* One socket replaced in the sequence. *)
LEMMA PutSocket ==
  ASSUME udp \in Seq(UdpRec), NEW s \in Ids, NEW d \in UdpRec, udp' = [udp EXCEPT ![s] = d]
  PROVE  Becomes(s, d)
<1>1. s \in 1..Len(udp)
  BY DEF Ids
<1>2. udp' \in Seq(UdpRec) /\ Len(udp') = Len(udp)
  BY <1>1
<1>3. udp'[s] = d /\ \A k \in 1..Len(udp) : k # s => udp'[k] = udp[k]
  BY <1>1
<1> QED BY <1>2, <1>3 DEF Becomes, Ids

(* A step of one socket of the occupant's. *)
LEMMA OneSocket ==
  ASSUME SocketsInv, NEW s \in Ids, NEW d, Becomes(s, d), socketGen' = socketGen,
         \A k \in Ids : k # s => (k \in sockets' <=> k \in sockets),
         SocketOK(d, s \in sockets', socketGen)
  PROVE  SocketsInv'
<1>1. udp' \in Seq(UdpRec) /\ Len(udp') = Len(udp) /\ socketGen' \in Nat
  BY DEF Becomes, SocketsInv
<1>2. Ids' = Ids
  BY <1>1 DEF Ids
<1>3. ASSUME NEW k \in Ids PROVE SocketOK(udp'[k], k \in sockets', socketGen')
  <2>1. CASE k = s
    BY <2>1 DEF Becomes
  <2>2. CASE k # s
    <3>1. SocketOK(udp[k], k \in sockets, socketGen) /\ udp'[k] = udp[k]
      BY <2>2 DEF SocketsInv, Becomes
    <3>2. k \in sockets' <=> k \in sockets
      BY <2>2
    <3> QED BY <3>1, <3>2 DEF SocketOK
  <2> QED BY <2>1, <2>2
<1> QED BY <1>1, <1>2, <1>3 DEF SocketsInv

(* A step that leaves what every socket holds. *)
LEMMA HeldKept ==
  ASSUME HeldInv, udp \in Seq(UdpRec), udp' \in Seq(UdpRec), Len(udp') = Len(udp),
         \A k \in Ids : udp'[k].held = udp[k].held, UNCHANGED <<platform, udpHeld>>
  PROVE  HeldInv'
<1>1. HeldBy(udp') = HeldBy(udp)
  BY HeldSame DEF Ids
<1> QED BY <1>1 DEF HeldInv

(* A step that changes what one socket holds, and the count with it. *)
LEMMA HeldMoved ==
  ASSUME HeldInv, udp \in Seq(UdpRec), NEW s \in Ids, NEW d \in UdpRec, Becomes(s, d),
         platform' = platform, udpHeld' \in Int,
         platform = "native" => udpHeld' = udpHeld - udp[s].held + d.held
  PROVE  HeldInv'
<1>1. s \in 1..Len(udp) /\ udp' \in Seq(UdpRec) /\ Len(udp) = Len(udp') /\ udp'[s] = d
      /\ \A k \in 1..Len(udp) : k # s => udp[k].held = udp'[k].held
  BY DEF Becomes, Ids
<1>2. SumSeq(HeldBy(udp')) = SumSeq(HeldBy(udp)) - udp[s].held + d.held
  BY <1>1, HeldReplace
<1> QED BY <1>2 DEF HeldInv

(* Every field of a socket. *)
Socket(c) == /\ c.gen \in Nat /\ c.state \in {"binding", "open", "failed", "shut"} /\ c.awaited \in BOOLEAN
             /\ c.held \in Nat /\ c.posted \in BOOLEAN /\ c.sending \in Nat /\ c.closing \in BOOLEAN

(* A socket has its fields. *)
LEMMA SocketFields ==
  ASSUME NEW c \in UdpRec
  PROVE  Socket(c)
  BY DEF UdpRec, Socket

(* A socket closed keeps what it holds, its asker and whether it is        *)
(* awaited.                                                                *)
LEMMA Closed ==
  ASSUME NEW c \in UdpRec
  PROVE  /\ CloseSocket(c) \in UdpRec /\ CloseSocket(c).closing
         /\ CloseSocket(c).gen = c.gen /\ CloseSocket(c).held = c.held
         /\ CloseSocket(c).awaited = c.awaited /\ (CloseSocket(c).state = "binding" => c.state = "binding")
<1> DEFINE st == IF c.sending = 0 THEN "shut" ELSE c.state
<1>1. Socket(c)
  BY SocketFields
<1>2. st \in {"binding", "open", "failed", "shut"} /\ (st = "binding" => c.state = "binding")
  BY <1>1 DEF Socket
<1>3. CloseSocket(c) = [c EXCEPT !.closing = TRUE, !.state = st]
  BY DEF CloseSocket, UdpRec
<1> HIDE DEF st
<1> QED BY <1>2, <1>3 DEF UdpRec

(* So does one whose send has ended, shut if that was the last behind a    *)
(* close.                                                                  *)
LEMMA SentKeeps ==
  ASSUME NEW c \in UdpRec, c.sending > 0
  PROVE  /\ Sent(c) \in UdpRec /\ Sent(c).closing = c.closing
         /\ Sent(c).gen = c.gen /\ Sent(c).held = c.held
         /\ Sent(c).awaited = c.awaited /\ Sent(c).state \in {c.state, "shut"}
<1> DEFINE st == IF c.sending = 1 /\ c.closing THEN "shut" ELSE c.state
           n == c.sending - 1
<1>1. Socket(c)
  BY SocketFields
<1>2. st \in {"binding", "open", "failed", "shut"} /\ st \in {c.state, "shut"} /\ n \in Nat
  BY <1>1 DEF Socket
<1>3. Sent(c) = [c EXCEPT !.sending = n, !.state = st]
  BY DEF Sent, UdpRec
<1> HIDE DEF st, n
<1> QED BY <1>2, <1>3 DEF UdpRec

-----------------------------------------------------------------------------
(* The sockets, action by action. *)

(* A socket's step that leaves what it holds. *)
LEMMA SocketsOnStep ==
  ASSUME SocketsInv, HeldInv, NEW s \in Ids, NEW d \in UdpRec, udp' = [udp EXCEPT ![s] = d],
         d.held = udp[s].held, UNCHANGED <<platform, udpHeld, socketGen>>,
         \A k \in Ids : k # s => (k \in sockets' <=> k \in sockets),
         SocketOK(d, s \in sockets', socketGen)
  PROVE  SocketsInv' /\ HeldInv'
<1>1. udp \in Seq(UdpRec)
  BY DEF SocketsInv
<1>2. Becomes(s, d)
  BY <1>1, PutSocket
<1>3. SocketsInv'
  BY <1>2, OneSocket
<1>4. \A k \in Ids : udp'[k].held = udp[k].held
  BY <1>2 DEF Becomes
<1> QED BY <1>1, <1>2, <1>3, <1>4, HeldKept DEF Becomes

(* A socket of the sequence. *)
LEMMA ASocket ==
  ASSUME SocketsInv, NEW s \in Ids
  PROVE  udp \in Seq(UdpRec) /\ udp[s] \in UdpRec /\ SocketOK(udp[s], s \in sockets, socketGen)
  BY DEF SocketsInv, Ids

(* The platform answers a bind. *)
LEMMA SocketsOnBinds ==
  ASSUME SocketsInv, HeldInv, NEW s \in Ids, NEW ok \in BOOLEAN, PlatformBinds(s, ok)
  PROVE  SocketsInv' /\ HeldInv'
<1> DEFINE c == udp[s]
           d == [c EXCEPT !.state = IF ok THEN "open" ELSE "failed"]
<1>1. c \in UdpRec /\ SocketOK(c, s \in sockets, socketGen)
  BY ASocket
<1>2. d \in UdpRec /\ d.state \in {"open", "failed"} /\ d.gen = c.gen /\ d.held = c.held /\ d.awaited = c.awaited
  BY <1>1 DEF UdpRec
<1>3. udp' = [udp EXCEPT ![s] = d] /\ c.awaited
  BY <1>1 DEF PlatformBinds, SocketOK
<1>4. UNCHANGED <<platform, udpHeld, sockets, socketGen>>
  BY DEF PlatformBinds
<1> HIDE DEF d
<1>5. SocketOK(d, s \in sockets', socketGen)
  BY <1>1, <1>2, <1>3, <1>4 DEF SocketOK
<1> QED BY <1>2, <1>3, <1>4, <1>5, SocketsOnStep

(* A send, and its callback. *)
LEMMA SocketsOnSend ==
  ASSUME SocketsInv, HeldInv, NEW s \in Ids, UdpSend(s)
  PROVE  SocketsInv' /\ HeldInv'
<1> DEFINE c == udp[s]
           d == [c EXCEPT !.sending = @ + 1]
<1>1. c \in UdpRec /\ SocketOK(c, s \in sockets, socketGen)
  BY ASocket
<1>2. d \in UdpRec /\ d.state = c.state /\ d.gen = c.gen /\ d.held = c.held /\ d.awaited = c.awaited
      /\ d.closing = c.closing
  BY <1>1 DEF UdpRec
<1>3. udp' = [udp EXCEPT ![s] = d]
  BY <1>1 DEF UdpSend
<1>4. UNCHANGED <<platform, udpHeld, sockets, socketGen>>
  BY DEF UdpSend
<1> HIDE DEF d
<1>5. SocketOK(d, s \in sockets', socketGen)
  BY <1>1, <1>2, <1>4 DEF SocketOK
<1> QED BY <1>2, <1>3, <1>4, <1>5, SocketsOnStep

(* The callback of a send. *)
LEMMA SocketsOnSent ==
  ASSUME SocketsInv, HeldInv, NEW s \in Ids, UdpSent(s)
  PROVE  SocketsInv' /\ HeldInv'
<1> DEFINE c == udp[s]
           d == Sent(c)
<1>1. c \in UdpRec /\ SocketOK(c, s \in sockets, socketGen) /\ c.sending > 0
  BY ASocket DEF UdpSent
<1>2. d \in UdpRec /\ d.state \in {c.state, "shut"} /\ d.gen = c.gen /\ d.held = c.held /\ d.awaited = c.awaited
      /\ d.closing = c.closing
  BY <1>1, SentKeeps
<1>3. udp' = [udp EXCEPT ![s] = d]
  BY DEF UdpSent
<1>4. UNCHANGED <<platform, udpHeld, sockets, socketGen>>
  BY DEF UdpSent
<1> HIDE DEF d
<1>5. SocketOK(d, s \in sockets', socketGen)
  BY <1>1, <1>2, <1>4 DEF SocketOK
<1> QED BY <1>2, <1>3, <1>4, <1>5, SocketsOnStep

(* A socket is closed. *)
LEMMA SocketsOnClose ==
  ASSUME SocketsInv, HeldInv, NEW s \in Ids, UdpClose(s)
  PROVE  SocketsInv' /\ HeldInv'
<1> DEFINE c == udp[s]
           d == CloseSocket(c)
<1>1. c \in UdpRec /\ SocketOK(c, s \in sockets, socketGen)
  BY ASocket
<1>2. d \in UdpRec /\ d.closing /\ d.gen = c.gen /\ d.held = c.held /\ d.awaited = c.awaited
      /\ (d.state = "binding" => c.state = "binding")
  BY <1>1, Closed
<1>3. udp' = [udp EXCEPT ![s] = d]
  BY DEF UdpClose
<1>4. UNCHANGED <<platform, udpHeld, socketGen>> /\ s \notin sockets'
      /\ \A k \in Ids : k # s => (k \in sockets' <=> k \in sockets)
  BY DEF UdpClose
<1> HIDE DEF d
<1>5. SocketOK(d, s \in sockets', socketGen)
  BY <1>1, <1>2, <1>4 DEF SocketOK
<1> QED BY <1>2, <1>3, <1>4, <1>5, SocketsOnStep

(* A bind is heard of: the socket is the occupant's that asked, or closed. *)
LEMMA SocketsOnHeard ==
  ASSUME SocketsInv, HeldInv, NEW s \in Ids, BindHeard(s)
  PROVE  SocketsInv' /\ HeldInv'
<1> DEFINE c == udp[s]
           f == [c EXCEPT !.awaited = FALSE]
           d == IF f.state = "open" /\ ~StillAsked(s) THEN CloseSocket(f) ELSE f
<1>1. c \in UdpRec /\ SocketOK(c, s \in sockets, socketGen) /\ c.state # "binding"
  BY ASocket DEF BindHeard
<1>2. f \in UdpRec /\ f.state = c.state /\ f.gen = c.gen /\ f.held = c.held
  BY <1>1 DEF UdpRec
<1>3. udp' = [udp EXCEPT ![s] = d]
  BY DEF BindHeard
<1>4. UNCHANGED <<platform, udpHeld, socketGen>>
      /\ sockets' = (IF c.state = "open" /\ c.gen = socketGen THEN sockets \union {s} ELSE sockets)
  BY DEF BindHeard, StillAsked
<1> HIDE DEF f
<1>5. /\ CloseSocket(f) \in UdpRec /\ CloseSocket(f).closing /\ CloseSocket(f).gen = f.gen
      /\ CloseSocket(f).held = f.held /\ (CloseSocket(f).state = "binding" => f.state = "binding")
  BY <1>2, Closed
<1>6. /\ d \in UdpRec /\ d.gen = c.gen /\ d.held = c.held /\ d.state # "binding"
      /\ (d.state = "open" => d.closing \/ (c.state = "open" /\ c.gen = socketGen))
  BY <1>1, <1>2, <1>5 DEF StillAsked
<1> HIDE DEF d
<1>7. SocketOK(d, s \in sockets', socketGen)
  BY <1>1, <1>4, <1>6 DEF SocketOK
<1>8. \A k \in Ids : k # s => (k \in sockets' <=> k \in sockets)
  BY <1>4
<1> QED BY <1>3, <1>4, <1>6, <1>7, <1>8, SocketsOnStep

(* A datagram is read, and held until its delivery. *)
LEMMA SocketsOnArrives ==
  ASSUME SocketsInv, HeldInv, NEW s \in Ids, Arrives(s)
  PROVE  SocketsInv' /\ HeldInv'
<1> DEFINE c == udp[s]
           h == c.held + 1
           d == [[c EXCEPT !.held = h] EXCEPT !.posted = TRUE]
<1>1. udp \in Seq(UdpRec) /\ c \in UdpRec /\ SocketOK(c, s \in sockets, socketGen)
  BY ASocket
<1>2. c.held \in Nat /\ h \in Nat
  BY <1>1 DEF UdpRec
<1>3. udp' = [udp EXCEPT ![s] = d]
  BY <1>1 DEF Arrives
<1>4. h = c.held + 1
  OBVIOUS
<1> HIDE DEF h
<1>5. d \in UdpRec /\ d.state = c.state /\ d.gen = c.gen /\ d.held = h /\ d.awaited = c.awaited
      /\ d.closing = c.closing
  BY <1>1, <1>2 DEF UdpRec
<1>6. UNCHANGED <<platform, sockets, socketGen>>
      /\ udpHeld' = IF platform = "native" THEN udpHeld + 1 ELSE udpHeld
  BY DEF Arrives
<1> HIDE DEF d
<1>7. Becomes(s, d)
  BY <1>1, <1>5, <1>3, PutSocket
<1>8. SocketOK(d, s \in sockets', socketGen)
  BY <1>1, <1>5, <1>6 DEF SocketOK
<1>9. SocketsInv'
  BY <1>6, <1>7, <1>8, OneSocket
<1>10. udpHeld' \in Int /\ (platform = "native" => udpHeld' = udpHeld - c.held + d.held)
  BY <1>4, <1>5, <1>6, <1>2 DEF HeldInv
<1> QED BY <1>1, <1>5, <1>6, <1>7, <1>9, <1>10, HeldMoved

(* What a socket holds is delivered. *)
LEMMA SocketsOnDeliver ==
  ASSUME SocketsInv, HeldInv, NEW s \in Ids, Deliver(s)
  PROVE  SocketsInv' /\ HeldInv'
<1> DEFINE c == udp[s]
           d == [[c EXCEPT !.held = 0] EXCEPT !.posted = FALSE]
<1>1. udp \in Seq(UdpRec) /\ c \in UdpRec /\ SocketOK(c, s \in sockets, socketGen)
  BY ASocket
<1>2. d \in UdpRec /\ d.state = c.state /\ d.gen = c.gen /\ d.held = 0 /\ d.awaited = c.awaited
      /\ d.closing = c.closing
  BY <1>1 DEF UdpRec
<1>3. udp' = [udp EXCEPT ![s] = d]
  <2>1. udp' = [udp EXCEPT ![s].held = 0, ![s].posted = FALSE]
    BY DEF Deliver
  <2> QED BY <1>1, <2>1
<1>4. UNCHANGED <<platform, sockets, socketGen>>
      /\ udpHeld' = IF platform = "native" THEN udpHeld - c.held ELSE udpHeld
  BY DEF Deliver
<1>5. c.held \in Nat
  BY <1>1 DEF UdpRec
<1> HIDE DEF d
<1>6. Becomes(s, d)
  BY <1>1, <1>2, <1>3, PutSocket
<1>7. SocketOK(d, s \in sockets', socketGen)
  BY <1>1, <1>2, <1>4 DEF SocketOK
<1>8. SocketsInv'
  BY <1>4, <1>6, <1>7, OneSocket
<1>9. udpHeld' \in Int /\ (platform = "native" => udpHeld' = udpHeld - c.held + d.held)
  BY <1>2, <1>4, <1>5 DEF HeldInv
<1> QED BY <1>1, <1>2, <1>4, <1>6, <1>8, <1>9, HeldMoved

(* A bind begins: a socket more, which holds nothing. *)
LEMMA SocketsOnBind ==
  ASSUME SocketsInv, HeldInv, Bind
  PROVE  SocketsInv' /\ HeldInv'
<1> DEFINE n == NewSocket
           N == Len(udp)
<1>1. udp \in Seq(UdpRec) /\ socketGen \in Nat /\ N \in Nat
  BY DEF SocketsInv
<1>2. n \in UdpRec /\ n.held = 0 /\ n.awaited /\ n.gen = socketGen /\ n.state = "binding"
  BY <1>1 DEF NewSocket, UdpRec
<1>3. udp' = Append(udp, n) /\ UNCHANGED <<platform, udpHeld, sockets, socketGen>>
  BY DEF Bind
<1> HIDE DEF n
<1>4. udp' \in Seq(UdpRec) /\ Len(udp') = N + 1 /\ udp'[N + 1] = n /\ \A k \in 1..N : udp'[k] = udp[k]
  BY <1>1, <1>2, <1>3
<1>5. SocketsInv'
  <2>1. ASSUME NEW k \in 1..(N + 1) PROVE SocketOK(udp'[k], k \in sockets', socketGen')
    <3>1. CASE k = N + 1
      BY <1>2, <1>3, <1>4, <3>1 DEF SocketOK
    <3>2. CASE k # N + 1
      <4>1. k \in 1..N
        BY <1>1, <3>2
      <4>2. SocketOK(udp[k], k \in sockets, socketGen)
        BY <4>1, ASocket DEF Ids
      <4> QED BY <1>3, <1>4, <4>1, <4>2
    <3> QED BY <3>1, <3>2
  <2> QED BY <1>1, <1>3, <1>4, <2>1 DEF SocketsInv, Ids
<1>6. HeldBy(udp') = Append(HeldBy(udp), 0)
  <2> DEFINE a == HeldBy(udp) b == HeldBy(udp')
  <2>1. a \in Seq(Int) /\ Len(a) = N /\ \A k \in 1..N : a[k] = udp[k].held
    BY <1>1, HeldType
  <2>2. b \in Seq(Int) /\ Len(b) = N + 1 /\ \A k \in 1..(N + 1) : b[k] = udp'[k].held
    BY <1>4, HeldType
  <2> HIDE DEF a, b, N
  <2>3. b[N + 1] = 0 /\ \A k \in 1..N : b[k] = a[k]
    <3>1. N + 1 \in 1..(N + 1) /\ \A k \in 1..N : k \in 1..(N + 1)
      BY <1>1
    <3>2. b[N + 1] = udp'[N + 1].held /\ udp'[N + 1].held = 0
      BY <1>2, <1>4, <2>2, <3>1
    <3>3. ASSUME NEW k \in 1..N PROVE b[k] = a[k]
      <4>1. b[k] = udp'[k].held
        BY <2>2, <3>1
      <4>2. udp'[k] = udp[k] /\ a[k] = udp[k].held
        BY <1>4, <2>1
      <4> QED BY <4>1, <4>2
    <3> QED BY <3>2, <3>3
  <2>4. b = Append(a, 0)
    <3>1. Append(a, 0) \in Seq(Int) /\ Len(Append(a, 0)) = N + 1
      BY <2>1
    <3>2. \A k \in 1..(N + 1) : Append(a, 0)[k] = b[k]
      BY <1>1, <2>1, <2>2, <2>3
    <3> QED BY <2>2, <3>1, <3>2, SeqEqual
  <2> QED BY <2>4 DEF a, b
<1>7. HeldBy(udp) \in Seq(Int) /\ SumSeq(HeldBy(udp)) \in Int
  BY <1>1, HeldType, SumType
<1>8. SumSeq(HeldBy(udp')) = SumSeq(HeldBy(udp))
  BY <1>6, <1>7, SumAppend
<1> QED BY <1>3, <1>5, <1>8 DEF HeldInv

(* A new occupant: the sockets of the one before are closed. *)
LEMMA SocketsOnReset ==
  ASSUME SocketsInv, HeldInv, ResetSockets
  PROVE  SocketsInv' /\ HeldInv'
<1> DEFINE N == Len(udp)
           New(k) == IF k \in sockets THEN CloseSocket(udp[k]) ELSE udp[k]
<1>1. udp \in Seq(UdpRec) /\ socketGen \in Nat /\ N \in Nat
  BY DEF SocketsInv
<1>2. udp' = [k \in 1..N |-> New(k)] /\ UNCHANGED <<platform, udpHeld>> /\ sockets' = {}
      /\ socketGen' = socketGen + 1
  BY DEF ResetSockets, Ids
<1>3. ASSUME NEW k \in 1..N
      PROVE  New(k) \in UdpRec /\ New(k).held = udp[k].held /\ SocketOK(New(k), FALSE, socketGen + 1)
  <2>1. udp[k] \in UdpRec /\ SocketOK(udp[k], k \in sockets, socketGen)
    BY ASocket DEF Ids
  <2>2. /\ CloseSocket(udp[k]) \in UdpRec /\ CloseSocket(udp[k]).closing
        /\ CloseSocket(udp[k]).held = udp[k].held /\ CloseSocket(udp[k]).awaited = udp[k].awaited
        /\ (CloseSocket(udp[k]).state = "binding" => udp[k].state = "binding")
    BY <2>1, Closed
  <2> QED BY <2>1, <2>2 DEF SocketOK
<1> HIDE DEF New
<1>4. udp' \in [1..N -> UdpRec] /\ \A k \in 1..N : udp'[k] = New(k)
  BY <1>2, <1>3
<1>5. udp' \in Seq(UdpRec) /\ Len(udp') = N
  BY <1>1, <1>4
<1>6. SocketsInv'
  <2>1. ASSUME NEW k \in 1..N PROVE SocketOK(udp'[k], k \in sockets', socketGen')
    <3>1. SocketOK(New(k), FALSE, socketGen') /\ udp'[k] = New(k) /\ ~(k \in sockets')
      BY <1>2, <1>3, <1>4
    <3> QED BY <3>1 DEF SocketOK
  <2> QED BY <1>1, <1>2, <1>5, <2>1 DEF SocketsInv, Ids
<1>7. \A k \in Ids : udp'[k].held = udp[k].held
  BY <1>3, <1>4 DEF Ids
<1> QED BY <1>1, <1>2, <1>5, <1>6, <1>7, HeldKept

-----------------------------------------------------------------------------
(* The events, action by action. *)

(* The sums of what waits to be read. *)
LEMMA ReadsInts ==
  ASSUME NEW r \in Seq(Nat)
  PROVE  r \in Seq(Int) /\ SumSeq(r) \in Int
<1>1. r \in Seq(Int)
  OBVIOUS
<1> QED BY <1>1, SumType

(* Joined adds the datagrams to the last event, or as an event of their own. *)
LEMMA JoinedAdds ==
  ASSUME reads \in Seq(Nat), NEW n \in Nat
  PROVE  Joined(n) \in Seq(Nat) /\ SumSeq(Joined(n)) = SumSeq(reads) + n
<1> DEFINE N == Len(reads)
           last == reads[N] + n
<1>1. reads \in Seq(Int) /\ SumSeq(reads) \in Int
  BY ReadsInts
<1>2. CASE reads # << >> /\ reads[N] + n <= MAX_LINK_READ_BYTES
  <2>1. N \in 1..Len(reads) /\ reads[N] \in Nat
    BY <1>2
  <2>2. Joined(n) = [reads EXCEPT ![N] = last] /\ last \in Nat
    BY <1>2, <2>1 DEF Joined
  <2>3. last = reads[N] + n /\ last \in Int /\ N \in 1..Len(reads)
    BY <2>1, <2>2
  <2> HIDE DEF last, N
  <2>4. SumSeq([reads EXCEPT ![N] = last]) = SumSeq(reads) - reads[N] + last
    BY <1>1, <2>3, SumReplace
  <2> QED BY <1>1, <2>3, <2>1, <2>2, <2>4
<1>3. CASE ~(reads # << >> /\ reads[N] + n <= MAX_LINK_READ_BYTES)
  <2>1. Joined(n) = Append(reads, n)
    BY <1>3 DEF Joined
  <2> QED BY <1>1, <2>1, SumAppend
<1> QED BY <1>2, <1>3

(* What the occupant reads is a number. *)
LEMMA InRealmType ==
  ASSUME EventsInv
  PROVE  InRealm(events, socketGen) \in Nat
<1> DEFINE E == OfGen(events, socketGen)
<1>1. \A e \in E : e.bytes \in Nat
  BY DEF EventsInv, OfGen
<1> HIDE DEF E
<1>2. E # {} => (CHOOSE e \in E : TRUE) \in E
  OBVIOUS
<1>3. (IF E = {} THEN 0 ELSE (CHOOSE e \in E : TRUE).bytes) \in Nat
  BY <1>1, <1>2
<1> QED BY <1>3 DEF InRealm, E

(* A delivery is counted as it joins what waits (heard). *)
LEMMA EventsOnDeliver ==
  ASSUME EventsInv, SocketsInv, NEW s \in Ids, Deliver(s)
  PROVE  EventsInv'
<1> DEFINE n == udp[s].held
           taken == s \in sockets /\ n <= MAX_UDP_HELD_BYTES - heldDatagrams
<1>1. n \in Nat
  <2>1. udp[s] \in UdpRec
    BY ASocket
  <2> QED BY <2>1 DEF UdpRec
<1>2. /\ UNCHANGED <<socketGen, readsBusy, events>>
      /\ heldDatagrams' = (IF taken THEN heldDatagrams + n ELSE heldDatagrams)
      /\ reads' = (IF taken THEN Joined(n) ELSE reads)
      /\ readsDue' = (readsDue \/ (taken /\ ~readsBusy))
  BY DEF Deliver
<1>3. reads \in Seq(Nat) /\ SumSeq(reads) \in Int /\ InRealm(events, socketGen) \in Nat
  BY ReadsInts, InRealmType DEF EventsInv
<1>4. Joined(n) \in Seq(Nat) /\ SumSeq(Joined(n)) = SumSeq(reads) + n
  BY <1>1, <1>3, JoinedAdds
<1> HIDE DEF n, taken
<1>5. reads' \in Seq(Nat) /\ heldDatagrams' = SumSeq(reads') + InRealm(events, socketGen)
  BY <1>1, <1>2, <1>3, <1>4 DEF EventsInv
<1> QED BY <1>2, <1>5 DEF EventsInv

(* The next event goes into the realm, and stays counted (pumpReads). *)
LEMMA EventsOnTurn ==
  ASSUME EventsInv, ReadsTurn
  PROVE  EventsInv'
<1> DEFINE g == socketGen
           x == [gen |-> g, bytes |-> Head(reads)]
<1>1. reads \in Seq(Nat) /\ SumSeq(reads) \in Int /\ reads \in Seq(Int) /\ g \in Nat
  BY ReadsInts DEF EventsInv
<1>2. ~readsBusy /\ OfGen(events, g) = {} /\ readsDue' = FALSE /\ UNCHANGED <<socketGen, heldDatagrams>>
  BY DEF EventsInv, ReadsTurn
<1>3. heldDatagrams = SumSeq(reads)
  BY <1>1, <1>2 DEF EventsInv, InRealm
<1>4. CASE reads = << >>
  <2>1. UNCHANGED <<readsBusy, events, reads>>
    BY <1>4 DEF ReadsTurn
  <2> QED BY <1>2, <2>1 DEF EventsInv
<1>5. CASE reads # << >>
  <2>1. reads' = Tail(reads) /\ readsBusy' = TRUE /\ events' = events \union {x}
    BY <1>2, <1>5 DEF ReadsTurn
  <2>2. SumSeq(reads') = SumSeq(reads) - Head(reads) /\ reads' \in Seq(Nat) /\ Head(reads) \in Nat
    BY <1>1, <1>5, <2>1, SumTail
  <2>3. x.gen = g /\ x.bytes = Head(reads)
    OBVIOUS
  <2> HIDE DEF x
  <2>4. OfGen(events', g) = {x}
    BY <1>2, <2>1, <2>3 DEF OfGen
  <2>5. InRealm(events', g) = Head(reads)
    BY <2>3, <2>4 DEF InRealm
  <2>6. heldDatagrams' = SumSeq(reads') + InRealm(events', g)
    BY <1>1, <1>2, <1>3, <2>2, <2>5
  <2>7. \A e \in events' : e.gen \in Nat /\ e.bytes \in Nat /\ e.gen <= g
    BY <1>1, <2>1, <2>2, <2>3 DEF EventsInv
  <2>8. \A d, e \in OfGen(events', g) : d = e
    BY <2>4
  <2>9. readsBusy' = (OfGen(events', g) # {})
    BY <2>1, <2>4
  <2> QED BY <1>1, <1>2, <2>1, <2>2, <2>6, <2>7, <2>8, <2>9 DEF EventsInv
<1> QED BY <1>4, <1>5

(* An event read is counted no more, if it is the present occupant's. *)
LEMMA EventsOnDone ==
  ASSUME EventsInv, NEW e \in events, EventDone(e)
  PROVE  EventsInv'
<1> DEFINE g == socketGen
<1>1. reads \in Seq(Nat) /\ SumSeq(reads) \in Int /\ g \in Nat
  BY ReadsInts DEF EventsInv
<1>2. events' = events \ {e} /\ UNCHANGED <<reads, socketGen>>
  BY DEF EventDone
<1>3. \A d \in events' : d.gen \in Nat /\ d.bytes \in Nat /\ d.gen <= g
  BY <1>2 DEF EventsInv
<1>4. CASE e.gen = g
  <2>1. readsBusy' = FALSE /\ heldDatagrams' = heldDatagrams - e.bytes
    BY <1>4 DEF EventDone, OfOccupant
  <2>2. OfGen(events, g) = {e} /\ e.bytes \in Nat
    BY <1>4 DEF EventsInv, OfGen
  <2>3. InRealm(events, g) = e.bytes
    BY <2>2 DEF InRealm
  <2>4. OfGen(events', g) = {}
    BY <1>2, <2>2 DEF OfGen
  <2>5. InRealm(events', g) = 0
    BY <2>4 DEF InRealm
  <2>6. heldDatagrams' = SumSeq(reads') + InRealm(events', g)
    BY <1>1, <1>2, <2>1, <2>2, <2>3, <2>5 DEF EventsInv
  <2>7. readsBusy' = (OfGen(events', g) # {})
    BY <2>1, <2>4
  <2> QED BY <1>1, <1>2, <1>3, <2>1, <2>4, <2>6, <2>7 DEF EventsInv
<1>5. CASE e.gen # g
  <2>1. UNCHANGED <<readsBusy, heldDatagrams, readsDue>>
    BY <1>5 DEF EventDone, OfOccupant
  <2>2. OfGen(events', g) = OfGen(events, g)
    BY <1>2, <1>5 DEF OfGen
  <2>3. InRealm(events', g) = InRealm(events, g)
    BY <2>2 DEF InRealm
  <2> QED BY <1>2, <1>3, <2>1, <2>2, <2>3 DEF EventsInv
<1> QED BY <1>4, <1>5

(* A new occupant has no event in the realm: every one is of an earlier    *)
(* generation.                                                             *)
LEMMA EventsOnReset ==
  ASSUME EventsInv, ResetSockets
  PROVE  EventsInv'
<1> DEFINE g == socketGen + 1
<1>1. socketGen' = g /\ reads' = << >> /\ heldDatagrams' = 0 /\ readsBusy' = FALSE /\ UNCHANGED <<readsDue, events>>
  BY DEF ResetSockets
<1>2. g \in Nat /\ \A e \in events : e.gen \in Nat /\ e.bytes \in Nat /\ e.gen <= g /\ e.gen # g
  BY DEF EventsInv
<1> HIDE DEF g
<1>3. OfGen(events, g) = {}
  BY <1>2 DEF OfGen
<1>4. InRealm(events, g) = 0
  BY <1>3 DEF InRealm
<1>5. SumSeq(reads') = 0 /\ reads' \in Seq(Nat)
  BY <1>1, SumEmpty
<1>6. \A d, e \in OfGen(events', socketGen') : d = e
  BY <1>1, <1>3
<1>7. readsBusy' = (OfGen(events', socketGen') # {}) /\ readsBusy' \in BOOLEAN
  BY <1>1, <1>3
<1>8. heldDatagrams' = SumSeq(reads') + InRealm(events', socketGen')
  BY <1>1, <1>4, <1>5
<1>9. socketGen' \in Nat /\ \A e \in events' : e.gen \in Nat /\ e.bytes \in Nat /\ e.gen <= socketGen'
  BY <1>1, <1>2
<1>10. readsDue' => ~readsBusy'
  BY <1>1
<1> QED BY <1>5, <1>6, <1>7, <1>8, <1>9, <1>10 DEF EventsInv

-----------------------------------------------------------------------------
(* The three parts hold of every step. *)
LEMMA SocketsStep ==
  SocketsInv /\ HeldInv /\ EventsInv /\ [Next]_vars => (SocketsInv /\ HeldInv /\ EventsInv)'
<1> SUFFICES ASSUME SocketsInv, HeldInv, EventsInv, [Next]_vars
             PROVE  SocketsInv' /\ HeldInv' /\ EventsInv'
  OBVIOUS
<1> DEFINE SameEvents == UNCHANGED <<socketGen, reads, heldDatagrams, readsBusy, readsDue, events>>
           SameSockets == UNCHANGED <<platform, udp, udpHeld, sockets, socketGen>>
<1>1. SameEvents => EventsInv'
  BY DEF EventsInv
<1>2. SameSockets => SocketsInv' /\ HeldInv'
  BY DEF SocketsInv, HeldInv, Ids
<1>3. CASE Reset
  BY <1>3, SocketsOnReset, EventsOnReset DEF Reset
<1>4. ASSUME NEW s \in Ids, SocketTurn(s) PROVE SocketsInv' /\ HeldInv' /\ EventsInv'
  <2>1. ASSUME NEW ok \in BOOLEAN, PlatformBinds(s, ok) PROVE SocketsInv' /\ HeldInv' /\ EventsInv'
    <3>1. SameEvents
      BY <2>1 DEF PlatformBinds
    <3> QED BY <1>1, <2>1, <3>1, SocketsOnBinds
  <2>2. CASE BindHeard(s)
    <3>1. SameEvents
      BY <2>2 DEF BindHeard
    <3> QED BY <1>1, <2>2, <3>1, SocketsOnHeard
  <2>3. CASE UdpSent(s)
    <3>1. SameEvents
      BY <2>3 DEF UdpSent
    <3> QED BY <1>1, <2>3, <3>1, SocketsOnSent
  <2>4. CASE Deliver(s)
    BY <2>4, SocketsOnDeliver, EventsOnDeliver
  <2> QED BY <1>4, <2>1, <2>2, <2>3, <2>4 DEF SocketTurn
<1>5. CASE Reading
  <2>1. CASE ReadsTurn
    <3>1. SameSockets
      BY <2>1 DEF ReadsTurn
    <3> QED BY <1>2, <2>1, <3>1, EventsOnTurn
  <2>2. ASSUME NEW e \in events, EventDone(e) PROVE SocketsInv' /\ HeldInv' /\ EventsInv'
    <3>1. SameSockets
      BY <2>2 DEF EventDone
    <3> QED BY <1>2, <2>2, <3>1, EventsOnDone
  <2> QED BY <1>5, <2>1, <2>2 DEF Reading
<1>6. CASE Bind
  <2>1. SameEvents
    BY <1>6 DEF Bind
  <2> QED BY <1>1, <1>6, <2>1, SocketsOnBind
<1>7. ASSUME NEW s \in Ids, Arrives(s) \/ UdpSend(s) \/ UdpClose(s) PROVE SocketsInv' /\ HeldInv' /\ EventsInv'
  <2>1. SameEvents
    BY <1>7 DEF Arrives, UdpSend, UdpClose
  <2> QED BY <1>1, <1>7, <2>1, SocketsOnArrives, SocketsOnSend, SocketsOnClose
<1>8. CASE UNCHANGED udpVars
  <2>1. SameEvents /\ SameSockets
    BY <1>8 DEF udpVars
  <2> QED BY <1>1, <1>2, <2>1
<1>9. ASSUME NEW l \in Links, Writer(l) \/ Dialer(l) \/ Turn(l) PROVE UNCHANGED udpVars
  BY <1>9 DEF Writer, Dialer, Turn
<1>10. CASE UNCHANGED vars
  <2>1. UNCHANGED udpVars
    BY <1>10 DEF vars, udpVars
  <2> QED BY <1>8, <2>1
<1> HIDE DEF SameEvents, SameSockets
<1> QED BY <1>3, <1>4, <1>5, <1>6, <1>7, <1>8, <1>9, <1>10 DEF Next

(* Occupants are kept apart for any number of sockets, datagrams and       *)
(* occupants: a bind or an event that ends after its occupant has gone     *)
(* leaves no open socket behind and counts for nothing.                    *)
THEOREM OccupantsApartHolds == Spec => []OccupantsApart
<1> DEFINE Inv == SocketsInv /\ HeldInv /\ EventsInv
<1>1. Init => Inv
  <2> SUFFICES ASSUME DatagramsInit PROVE Inv
    BY DEF Init
  <2>1. /\ udp = << >> /\ udpHeld = 0 /\ sockets = {} /\ socketGen = 0
        /\ reads = << >> /\ heldDatagrams = 0 /\ readsBusy = FALSE /\ readsDue = FALSE /\ events = {}
    BY DEF DatagramsInit
  <2>2. SocketsInv
    BY <2>1 DEF SocketsInv, Ids
  <2>3. HeldInv
    <3>1. HeldBy(udp) \in Seq(Int) /\ Len(HeldBy(udp)) = 0
      BY <2>1, <2>2, HeldType DEF SocketsInv
    <3>2. HeldBy(udp) = << >>
      BY <3>1
    <3> QED BY <2>1, <3>2, SumEmpty DEF HeldInv
  <2>4. OfGen(events, socketGen) = {}
    BY <2>1 DEF OfGen
  <2>5. InRealm(events, socketGen) = 0 /\ SumSeq(reads) = 0 /\ reads \in Seq(Nat)
    BY <2>1, <2>4, SumEmpty DEF InRealm
  <2>6. EventsInv
    <3>1. readsBusy = (OfGen(events, socketGen) # {}) /\ readsBusy \in BOOLEAN /\ ~readsDue
      BY <2>1, <2>4
    <3>2. heldDatagrams = SumSeq(reads) + InRealm(events, socketGen)
      BY <2>1, <2>5
    <3>3. \A d, e \in OfGen(events, socketGen) : d = e
      BY <2>4
    <3> QED BY <2>1, <2>5, <3>1, <3>2, <3>3 DEF EventsInv
  <2> QED BY <2>2, <2>3, <2>6
<1>2. Inv /\ [Next]_vars => Inv'
  BY SocketsStep
<1>3. Inv => OccupantsApart
  <2> SUFFICES ASSUME Inv PROVE OccupantsApart
    OBVIOUS
  <2>1. Present = OfGen(events, socketGen)
    BY DEF Present, OfGen
  <2>2. \A s \in Ids : /\ s \in sockets => udp[s].gen = socketGen
                       /\ udp[s].state = "open" => s \in sockets \/ udp[s].awaited \/ udp[s].closing
    BY DEF SocketsInv, SocketOK
  <2>3. (\A d, e \in Present : d = e) /\ readsBusy = (Present # {})
    BY <2>1 DEF EventsInv
  <2>4. heldDatagrams = SumSeq(reads) + (IF Present = {} THEN 0 ELSE (CHOOSE e \in Present : TRUE).bytes)
    BY <2>1 DEF EventsInv, InRealm
  <2>5. platform = "native" => udpHeld = SumSeq([s \in Ids |-> udp[s].held])
    BY DEF HeldInv, HeldBy, Ids
  <2> HIDE DEF Inv
  <2> QED BY <2>2, <2>3, <2>4, <2>5, Zenon DEF OccupantsApart
<1> HIDE DEF Inv
<1> QED BY <1>1, <1>2, <1>3, PTL DEF Spec
-----------------------------------------------------------------------------
(* ---- what a channel really holds ---- *)

Positive(q) == \A i \in 1..Len(q) : q[i] > 0
Suffix(h, q) == /\ Len(h) <= Len(q)
                /\ \A i \in 1..Len(h) : h[i] = q[Len(q) - Len(h) + i]
Pending(c) == c.batch \o c.queue

(* Until the occupant closes it, a channel holds the last writes charged   *)
(* to its link and counts their bytes, or is dead and counts none.         *)
Holds(k, c) == IF c.dead THEN c.queued = 0
               ELSE c.queued = SumSeq(Pending(c)) /\ Suffix(Pending(c), k.queued)
Exact(k, c) == k.state = "live" => /\ Positive(k.queued) /\ k.refused = 0
                                   /\ ~k.closing => Holds(k, c)
Batched(c) == c.writer \notin {"writes", "wrote"} => c.batch = << >>
HoldsInv == \A l \in Links : Batched(sock[l]) /\ Exact(link[l], sock[l])

(* What is written and what waits add up, in either order of taking it. *)
LEMMA PendingOK ==
  ASSUME NEW b \in Seq(Nat), NEW q \in Seq(Nat)
  PROVE  /\ b \o q \in Seq(Nat) /\ b \o q \in Seq(Int) /\ Len(b \o q) = Len(b) + Len(q)
         /\ \A i \in 1..Len(b) : (b \o q)[i] = b[i]
         /\ \A i \in 1..Len(q) : (b \o q)[Len(b) + i] = q[i]
         /\ SumSeq(b \o q) = SumSeq(b) + SumSeq(q)
         /\ SumSeq(b) \in Nat /\ SumSeq(q) \in Nat /\ SumSeq(b \o q) \in Nat
<1> DEFINE u == b \o q
<1>1. /\ u \in Seq(Nat) /\ Len(u) = Len(b) + Len(q)
      /\ \A i \in 1..Len(b) : u[i] = b[i]
      /\ \A i \in 1..Len(q) : u[Len(b) + i] = q[i]
  OBVIOUS
<1>2. b \in Seq(Int) /\ q \in Seq(Int) /\ \A i \in 1..Len(b) : b[i] \in Nat
  OBVIOUS
<1>a. \A i \in 1..Len(q) : q[i] \in Nat
  OBVIOUS
<1> HIDE DEF u
<1>3. u \in Seq(Int)
  BY <1>1
<1>4. SumSeq(u) = SumSeq(b) + SumSeq(q)
  BY <1>1, <1>2, <1>3, SumSplit
<1>5. SumSeq(b) \in Nat /\ SumSeq(q) \in Nat
  BY <1>2, <1>a, SumType
<1>6. SumSeq(u) \in Nat
  BY <1>4, <1>5
<1> QED BY <1>1, <1>3, <1>4, <1>5, <1>6 DEF u

(* Less is left of positive writes the more of them have gone. *)
LEMMA LaterLess ==
  ASSUME NEW q \in Seq(Nat), Positive(q), NEW i \in 0..Len(q), NEW j \in 0..Len(q), i < j
  PROVE  SumSeq(SubSeq(q, j + 1, Len(q))) < SumSeq(SubSeq(q, i + 1, Len(q)))
<1> DEFINE N == Len(q)
           p == SubSeq(q, i + 1, j)
           t == SubSeq(q, j + 1, N)
           u == SubSeq(q, i + 1, N)
<1>1. N \in Nat /\ \A x \in 1..N : q[x] \in Nat /\ q[x] > 0
  BY DEF Positive
<1>2. p \in Seq(Nat) /\ Len(p) = j - i /\ \A x \in 1..(j - i) : p[x] = q[i + x]
  <2>1. (\A x \in (i + 1)..j : q[x] \in Nat) /\ i + 1 \in Int /\ j \in Int /\ i + 1 <= j + 1
    BY <1>1
  <2> QED BY <2>1, SubSeqProperties
<1>3. t \in Seq(Nat) /\ Len(t) = N - j /\ \A x \in 1..(N - j) : t[x] = q[j + x]
  <2>1. (\A x \in (j + 1)..N : q[x] \in Nat) /\ j + 1 \in Int /\ N \in Int /\ j + 1 <= N + 1
    BY <1>1
  <2> HIDE DEF N
  <2> QED BY <2>1, SubSeqProperties
<1>4. u \in Seq(Nat) /\ Len(u) = N - i /\ \A x \in 1..(N - i) : u[x] = q[i + x]
  <2>1. (\A x \in (i + 1)..N : q[x] \in Nat) /\ i + 1 \in Int /\ N \in Int /\ i + 1 <= N + 1
    BY <1>1
  <2> HIDE DEF N
  <2> QED BY <2>1, SubSeqProperties
<1> HIDE DEF N, p, t, u
<1>a. i \in 0..N /\ j \in 0..N
  BY DEF N
<1>5. N - i = (j - i) + (N - j) /\ j - i \in Nat /\ j - i >= 1 /\ N - j \in Nat
  BY <1>1, <1>a
<1>6. Len(u) = Len(p) + Len(t)
  BY <1>2, <1>3, <1>4, <1>5
<1>7. ASSUME NEW x \in 1..Len(p) PROVE u[x] = p[x]
  BY <1>1, <1>2, <1>4, <1>5
<1>8. ASSUME NEW x \in 1..Len(t) PROVE u[Len(p) + x] = t[x]
  <2>a. x \in 1..(N - j)
    BY <1>3
  <2>1. (j - i) + x \in 1..(N - i) /\ i + ((j - i) + x) = j + x
    BY <1>5, <1>a, <2>a
  <2>2. u[(j - i) + x] = q[j + x] /\ t[x] = q[j + x]
    BY <1>3, <1>4, <2>a, <2>1
  <2> QED BY <1>2, <2>2
<1>b. \A s \in Seq(Nat) : s \in Seq(Int)
  OBVIOUS
<1>9. p \in Seq(Int) /\ t \in Seq(Int) /\ u \in Seq(Int)
  BY <1>2, <1>3, <1>4, <1>b, Zenon
<1>10. SumSeq(u) = SumSeq(p) + SumSeq(t)
  BY <1>6, <1>7, <1>8, <1>9, SumSplit
<1>11. 1 \in 1..Len(p) /\ (\A x \in 1..Len(p) : p[x] \in Nat) /\ p[1] > 0
  <2>1. 1 \in 1..(j - i) /\ i + 1 \in 1..N
    BY <1>1, <1>5, <1>a
  <2>2. p[1] = q[i + 1]
    BY <1>2, <2>1
  <2> QED BY <1>1, <1>2, <2>1, <2>2, SMTT(30)
<1>12. p[1] <= SumSeq(p)
  BY <1>9, <1>11, SumHas
<1>13. SumSeq(p) \in Int /\ SumSeq(t) \in Int /\ p[1] \in Int
  BY <1>9, <1>11, SumType
<1>14. SumSeq(t) < SumSeq(u)
  BY <1>10, <1>11, <1>12, <1>13
<1> QED BY <1>14 DEF t, u, N

(* settle, of a link whose channel holds the last writes charged to it:    *)
(* exactly those stay charged.                                             *)
LEMMA SettledTo ==
  ASSUME NEW q \in Seq(Nat), Positive(q), NEW h \in Seq(Nat), Suffix(h, q), NEW now, now = SumSeq(h)
  PROVE  SubSeq(q, Drained(q, now) + 1, Len(q)) = h
<1> DEFINE N == Len(q)
           m == N - Len(h)
           R(n) == SubSeq(q, n + 1, N)
           S == {n \in 1..N : SumSeq(R(n)) >= now}
           D == Drained(q, now)
<1>1. N \in Nat /\ Len(h) \in Nat /\ Len(h) <= N /\ m \in 0..N
  BY DEF Suffix
<1>2. D = Max({0} \union S)
  BY DEF Drained
<1>3. {0} \union S \in SUBSET (0..N) /\ {0} \union S # {}
  BY <1>1
<1>4. D \in {0} \union S /\ \A x \in {0} \union S : D >= x
  <2> HIDE DEF S, D, N
  <2> QED BY <1>1, <1>2, <1>3, MaxUpTo
<1>5. D \in 0..N
  BY <1>3, <1>4
<1>6. R(m) = h
  <2>1. /\ R(m) \in Seq(Nat) /\ Len(R(m)) = N - m /\ \A x \in 1..(N - m) : R(m)[x] = q[m + x]
    <3>1. (\A x \in (m + 1)..N : q[x] \in Nat) /\ m \in Nat /\ m + 1 \in Int /\ N \in Int /\ m + 1 <= N + 1
      BY <1>1
    <3> HIDE DEF N, m
    <3> QED BY <3>1, SubSeqProperties
  <2>2. N - m = Len(h)
    BY <1>1
  <2>3. \A x \in 1..Len(h) : h[x] = q[m + x]
    BY DEF Suffix
  <2> HIDE DEF R, m, N
  <2>4. Len(R(m)) = Len(h) /\ \A x \in 1..Len(h) : R(m)[x] = h[x]
    BY <2>1, <2>2, <2>3
  <2> QED BY <2>1, <2>4, SeqEqual
<1>7. now \in Int /\ SumSeq(R(m)) = now
  <2>1. h \in Seq(Int)
    OBVIOUS
  <2> HIDE DEF R
  <2> QED BY <1>6, <2>1, SumType
<1>8. D >= m
  <2>1. CASE m = 0
    BY <1>5, <2>1
  <2>2. CASE m # 0
    <3>1. m \in S
      <4>1. m \in 1..N
        BY <1>1, <2>2
      <4>2. SumSeq(R(m)) >= now
        BY <1>7
      <4> HIDE DEF R, m, N
      <4> QED BY <4>1, <4>2
    <3> HIDE DEF S, D, m
    <3> QED BY <1>4, <3>1
  <2> QED BY <2>1, <2>2
<1>9. ASSUME D > m PROVE FALSE
  <2>1. D \in S
    <3> HIDE DEF S
    <3> QED BY <1>1, <1>4, <1>9
  <2>2. SumSeq(R(D)) >= now
    BY <2>1
  <2>3. SumSeq(R(D)) < SumSeq(R(m))
    <3> HIDE DEF D, m
    <3> QED BY <1>1, <1>5, <1>9, LaterLess
  <2>4. SumSeq(R(D)) \in Int
    <3>1. R(D) \in Seq(Nat)
      <4>1. (\A x \in (D + 1)..N : q[x] \in Nat) /\ D + 1 \in Int /\ N \in Int
        BY <1>1, <1>5
      <4> HIDE DEF N, D
      <4> QED BY <4>1, SubSeqProperties
    <3> HIDE DEF R
    <3>2. R(D) \in Seq(Int)
      BY <3>1
    <3> QED BY <3>2, SumType
  <2> HIDE DEF R, D, m
  <2> QED BY <1>7, <2>2, <2>3, <2>4
<1>10. D = m
  <2> HIDE DEF D
  <2> QED BY <1>1, <1>5, <1>8, <1>9
<1> HIDE DEF m, D
<1> QED BY <1>6, <1>10 DEF D

(* What is charged is no more than the channel holds. *)
Within(k, c) == Len(k.queued) <= Len(Pending(c)) /\ SumSeq(k.queued) <= SumSeq(Pending(c))
Kept(k, c) == Batched(c) /\ Exact(k, c)

(* A report leaves a link exactly what its channel holds, or nothing if    *)
(* the channel is dead.                                                    *)
LEMMA SettledExact ==
  ASSUME NEW k, NEW c, LinkOK(k, c), k.state = "live", Exact(k, c)
  PROVE  /\ Exact(Settled(k, c), c) /\ Settled(k, c).closing = k.closing
         /\ ~k.closing => Within(Settled(k, c), c)
<1> DEFINE q == k.queued
           now == c.queued
           N == Len(q)
           S == {n \in 1..N : SumSeq(SubSeq(q, n + 1, N)) >= now}
           D == Drained(q, now)
           r == SubSeq(q, D + 1, N)
           P == Pending(c)
           none == << >>
<1>1. /\ k \in LinkRec /\ q \in Seq(Nat) /\ N \in Nat /\ Positive(q) /\ k.refused = 0
      /\ (~k.closing => Holds(k, c)) /\ c \in SockRec
  BY DEF LinkOK, LinkRec, Exact, SockOK
<1>2. P \in Seq(Nat) /\ SumSeq(P) \in Nat /\ Len(P) \in Nat
  <2>1. c.batch \in Seq(Nat) /\ c.queue \in Seq(Nat)
    BY <1>1 DEF SockRec
  <2>2. P \in Seq(Nat) /\ SumSeq(P) \in Nat
    BY <2>1, PendingOK DEF Pending
  <2> HIDE DEF P
  <2> QED BY <2>2
<1>3. D \in 0..N
  <2>1. D = Max({0} \union S)
    BY DEF Drained
  <2>2. {0} \union S \in SUBSET (0..N) /\ {0} \union S # {}
    BY <1>1
  <2>3. D \in {0} \union S
    <3> HIDE DEF S, D, N
    <3> QED BY <1>1, <2>1, <2>2, MaxUpTo
  <2> QED BY <2>2, <2>3
<1>4. r \in Seq(Nat) /\ Positive(r)
  <2> HIDE DEF D
  <2>1. (\A x \in (D + 1)..N : q[x] \in Nat) /\ D \in Nat /\ D + 1 \in Int /\ N \in Int /\ D + 1 <= N + 1
    BY <1>1, <1>3
  <2>2. r \in Seq(Nat) /\ Len(r) = N - D /\ \A x \in 1..(N - D) : r[x] = q[D + x]
    <3> HIDE DEF q, N
    <3> QED BY <2>1, SubSeqProperties
  <2>3. \A x \in 1..(N - D) : D + x \in 1..N
    BY <1>1, <1>3
  <2> HIDE DEF r
  <2>4. ASSUME NEW x \in 1..Len(r) PROVE r[x] > 0
    BY <1>1, <2>2, <2>3 DEF Positive
  <2> QED BY <2>2, <2>4 DEF Positive
<1>5. ASSUME ~k.closing, c.dead PROVE r = none
  <2>1. now = 0 /\ none \in Seq(Nat) /\ Len(none) = 0
    BY <1>1, <1>5 DEF Holds
  <2>2. SumSeq(none) = 0
    BY SumEmpty
  <2> HIDE DEF none, now, q
  <2>3. Suffix(none, q)
    BY <1>1, <2>1 DEF Suffix
  <2> QED BY <1>1, <2>1, <2>2, <2>3, SettledTo
<1>6. ASSUME ~k.closing, ~c.dead PROVE r = P /\ c.queued = SumSeq(P)
  <2>1. now = SumSeq(P) /\ Suffix(P, q)
    BY <1>1, <1>6 DEF Holds
  <2> HIDE DEF P, q
  <2> QED BY <1>1, <1>2, <2>1, SettledTo
<1>7. Settled(k, c) = [k EXCEPT !.queued = r]
  BY <1>1 DEF Settled, LinkRec
<1> DEFINE j == [k EXCEPT !.queued = r]
<1> HIDE DEF r
<1>8. j \in LinkRec /\ j.queued = r /\ j.refused = k.refused /\ j.closing = k.closing
  BY <1>1, <1>4 DEF LinkRec
<1> HIDE DEF j
<1>a. Len(none) = 0 /\ SumSeq(none) = 0
  BY SumEmpty
<1> HIDE DEF none, P
<1>9. ~k.closing => Holds(j, c)
  <2>1. CASE ~k.closing /\ c.dead
    BY <1>1, <2>1 DEF Holds
  <2>2. CASE ~k.closing /\ ~c.dead
    <3>1. j.queued = P /\ c.queued = SumSeq(P)
      BY <1>6, <1>8, <2>2
    <3>2. Suffix(P, P)
      BY <1>2 DEF Suffix
    <3> QED BY <2>2, <3>1, <3>2 DEF Holds, P
  <2> QED BY <2>1, <2>2
<1>10. Exact(j, c)
  BY <1>1, <1>4, <1>8, <1>9 DEF Exact
<1>11. ASSUME ~k.closing PROVE Within(j, c)
  <2>1. CASE c.dead
    <3>1. j.queued = none
      BY <1>5, <1>8, <1>11, <2>1
    <3> QED BY <1>2, <1>a, <3>1 DEF Within, P
  <2>2. CASE ~c.dead
    <3>1. j.queued = P
      BY <1>6, <1>8, <1>11, <2>2
    <3> QED BY <1>2, <3>1 DEF Within, P
  <2> QED BY <2>1, <2>2
<1> QED BY <1>7, <1>8, <1>10, <1>11 DEF j

(* A channel closed keeps what its writer is writing; without a flush it   *)
(* counts nothing more.                                                    *)
ClosesAs(c, flush, d) ==
    /\ d \in SockRec /\ d.dead /\ d.batch = c.batch /\ d.writer = c.writer
    /\ ~flush => d.queued = IF c.dead THEN c.queued ELSE 0
LEMMA TerminateCloses ==
  ASSUME NEW c \in SockRec, NEW flush \in BOOLEAN, NEW notify \in BOOLEAN
  PROVE  ClosesAs(c, flush, terminate(c, flush, notify))
<1> DEFINE d == terminate(c, flush, notify)
           keeps == flush /\ c.conn = "open"
           q == IF keeps THEN c.queue ELSE << >>
           n == IF keeps THEN c.queued ELSE 0
           o == IF flush \/ c.conn # "open" THEN c.conn ELSE "shut"
<1>2. CASE c.dead
  BY <1>2 DEF terminate, ClosesAs
<1>3. CASE ~c.dead
  <2>1. q \in Seq(Nat) /\ n \in Nat /\ o \in {"none", "dialing", "open", "shut"}
        /\ keeps \in BOOLEAN
    BY DEF SockRec
  <2>2. d = [[[[[[[c EXCEPT !.dead = TRUE] EXCEPT !.lingers = keeps] EXCEPT !.queue = q]
                EXCEPT !.queued = n] EXCEPT !.conn = o] EXCEPT !.closed = notify] EXCEPT !.wake = TRUE]
    BY <1>3 DEF terminate, terminateAsleep, SockRec
  <2>3. ~flush => n = 0
    OBVIOUS
  <2> HIDE DEF keeps, q, n, o, d
  <2>5. d \in SockRec /\ d.dead /\ d.queued = n /\ d.writer = c.writer /\ d.batch = c.batch
    BY <2>1, <2>2 DEF SockRec
  <2> QED BY <1>3, <2>3, <2>5 DEF ClosesAs, d
<1> QED BY <1>2, <1>3

(* Its writer may have failed, its connection be shut, its onClose be on   *)
(* its way.                                                                *)
LEMMA CloseKept ==
  ASSUME NEW k, NEW c, Kept(k, c), NEW d, d.dead, d.batch = c.batch,
         d.writer = c.writer \/ d.writer = "wrote",
         d.queued = IF c.dead THEN c.queued ELSE 0
  PROVE  Kept(k, d)
<1>1. Batched(d)
  BY DEF Kept, Batched
<1>2. ASSUME k.state = "live", ~k.closing PROVE Holds(k, d)
  BY <1>2 DEF Kept, Exact, Holds
<1> QED BY <1>1, <1>2 DEF Kept, Exact

(* A channel that holds the same. *)
LEMMA SameKept ==
  ASSUME NEW k, NEW c, Kept(k, c), NEW d, d.dead = c.dead, d.queued = c.queued,
         d.batch = c.batch, d.queue = c.queue, Batched(d)
  PROVE  Kept(k, d)
<1>1. Pending(d) = Pending(c)
  BY DEF Pending
<1>2. Holds(k, c) => Holds(k, d)
  BY <1>1 DEF Holds
<1> QED BY <1>2 DEF Kept, Exact

(* The writer takes the backlog: it is held still, in the one hand or the  *)
(* other.                                                                  *)
LEMMA TakesKept ==
  ASSUME NEW k, NEW c \in SockRec, Kept(k, c), c.writer = "runs"
  PROVE  Kept(k, [c EXCEPT !.batch = c.queue, !.queue = << >>, !.writer = "writes"])
<1> DEFINE q == c.queue
           none == << >>
           d == [[[c EXCEPT !.batch = q] EXCEPT !.queue = none] EXCEPT !.writer = "writes"]
<1>1. q \in Seq(Nat) /\ none \in Seq(Nat) /\ c.batch = none
  BY DEF SockRec, Kept, Batched
<1>2. q \o none = q /\ none \o q = q
  BY <1>1, ConcatEmptySeq
<1>3. [c EXCEPT !.batch = c.queue, !.queue = << >>, !.writer = "writes"] = d
  BY DEF SockRec
<1> HIDE DEF q, none
<1>4. d.batch = q /\ d.queue = none /\ d.writer = "writes" /\ d.queued = c.queued /\ d.dead = c.dead
  BY <1>1 DEF SockRec
<1> HIDE DEF d
<1>5. Pending(d) = Pending(c)
  <2>1. c.queue = q
    BY DEF q
  <2> QED BY <1>1, <1>2, <1>4, <2>1 DEF Pending
<1>6. Batched(d) /\ (Holds(k, c) => Holds(k, d))
  BY <1>4, <1>5 DEF Batched, Holds
<1>7. Kept(k, d)
  BY <1>6 DEF Kept, Exact
<1> QED BY <1>3, <1>7

(* The batch leaves what is buffered: what is still queued is held. *)
LEMMA CountsKept ==
  ASSUME NEW k \in LinkRec, NEW c \in SockRec, Kept(k, c)
  PROVE  LET n == SumSeq(c.batch)
         IN Kept(k, [c EXCEPT !.queued = IF c.queued >= n THEN c.queued - n ELSE c.queued,
                              !.batch = << >>, !.writer = "runs"])
<1> DEFINE n == SumSeq(c.batch)
           v == IF c.queued >= n THEN c.queued - n ELSE c.queued
           none == << >>
           b == c.batch
           q == c.queue
           d == [[[c EXCEPT !.queued = v] EXCEPT !.batch = none] EXCEPT !.writer = "runs"]
<1>1. b \in Seq(Nat) /\ q \in Seq(Nat) /\ none \in Seq(Nat) /\ c.queued \in Nat /\ k.queued \in Seq(Nat)
  BY DEF SockRec, LinkRec
<1>2. [c EXCEPT !.queued = IF c.queued >= n THEN c.queued - n ELSE c.queued,
                !.batch = << >>, !.writer = "runs"] = d
  BY DEF SockRec
<1>3. /\ n \in Nat /\ SumSeq(q) \in Nat /\ SumSeq(b \o q) = n + SumSeq(q) /\ Len(b \o q) = Len(b) + Len(q)
      /\ \A i \in 1..Len(q) : (b \o q)[Len(b) + i] = q[i]
  <2> HIDE DEF b, q
  <2> QED BY <1>1, PendingOK DEF b
<1>4. v \in Nat
  BY <1>1, <1>3
<1>5. none \o q = q
  BY <1>1, ConcatEmptySeq
<1>6. Pending(c) = b \o q
  BY DEF Pending
<1> HIDE DEF v, none, q, b
<1>7. d.queued = v /\ d.batch = none /\ d.queue = c.queue /\ d.writer = "runs" /\ d.dead = c.dead
  BY <1>1, <1>4 DEF SockRec
<1> HIDE DEF d
<1>8. Batched(d)
  BY <1>7 DEF Batched, none
<1>9. Pending(d) = q
  BY <1>5, <1>7 DEF Pending, q
<1>10. ASSUME Holds(k, c) PROVE Holds(k, d)
  <2>1. CASE c.dead
    <3>1. c.queued = 0
      BY <1>10, <2>1 DEF Holds
    <3>2. v = 0
      BY <1>3, <3>1 DEF v
    <3> QED BY <1>7, <2>1, <3>2 DEF Holds
  <2>2. CASE ~c.dead
    <3>1. c.queued = n + SumSeq(q) /\ Suffix(b \o q, k.queued)
      BY <1>3, <1>6, <1>10, <2>2 DEF Holds
    <3>2. v = SumSeq(q)
      BY <1>3, <3>1 DEF v
    <3> DEFINE N == Len(k.queued)
               B == Len(b)
               Q == Len(q)
    <3>3. N \in Nat /\ B \in Nat /\ Q \in Nat /\ B + Q <= N
      BY <1>1, <1>3, <3>1 DEF Suffix
    <3>4. \A i \in 1..(B + Q) : (b \o q)[i] = k.queued[N - (B + Q) + i]
      BY <1>3, <3>1 DEF Suffix
    <3>5. \A i \in 1..Q : (b \o q)[B + i] = q[i]
      BY <1>3
    <3> HIDE DEF N, B, Q
    <3>6. ASSUME NEW i \in 1..Q PROVE q[i] = k.queued[N - Q + i]
      <4>1. B + i \in 1..(B + Q) /\ N - (B + Q) + (B + i) = N - Q + i
        BY <3>3
      <4>2. (b \o q)[B + i] = k.queued[N - (B + Q) + (B + i)]
        BY <3>4, <4>1
      <4> QED BY <3>5, <4>1, <4>2
    <3>7. Suffix(q, k.queued)
      <4>1. Q <= N
        BY <3>3
      <4> QED BY <3>6, <4>1 DEF Suffix, N, Q
    <3> QED BY <1>7, <1>9, <2>2, <3>2, <3>7 DEF Holds
  <2> QED BY <2>1, <2>2
<1>11. Kept(k, d)
  BY <1>8, <1>10 DEF Kept, Exact
<1> QED BY <1>2, <1>11 DEF v, none

(* A write is charged and taken, or charged on a channel that is dead. *)
LEMMA ChargedKept ==
  ASSUME NEW k \in LinkRec, NEW c \in SockRec, k.state = "live", Kept(k, c), NEW n \in Nat, n > 0
  PROVE  Kept([k EXCEPT !.queued = Append(k.queued, n)], SockSend(c, n))
<1> DEFINE w == k.queued
           x == Append(w, n)
           j == [k EXCEPT !.queued = x]
           d == SockSend(c, n)
           b == c.batch
           q == c.queue
<1>1. w \in Seq(Nat) /\ Positive(w) /\ b \in Seq(Nat) /\ q \in Seq(Nat) /\ c.queued \in Nat
  BY DEF LinkRec, SockRec, Kept, Exact
<1>2. /\ x \in Seq(Nat) /\ Len(x) = Len(w) + 1 /\ x[Len(w) + 1] = n
      /\ \A i \in 1..Len(w) : x[i] = w[i]
  <2> HIDE DEF w
  <2> QED BY <1>1, AppendProperties
<1>3. Positive(x)
  <2> HIDE DEF x, w
  <2>1. Len(w) \in Nat
    BY <1>1
  <2>2. ASSUME NEW i \in 1..Len(x) PROVE x[i] > 0
    <3>1. CASE i = Len(w) + 1
      BY <1>2, <3>1
    <3>2. CASE i \in 1..Len(w)
      <4>1. x[i] = w[i] /\ w[i] > 0
        BY <1>1, <1>2, <3>2 DEF Positive
      <4> QED BY <4>1
    <3>3. i = Len(w) + 1 \/ i \in 1..Len(w)
      BY <1>2, <2>1
    <3> QED BY <3>1, <3>2, <3>3
  <2> QED BY <2>2 DEF Positive
<1> HIDE DEF x
<1>4. j.queued = x /\ j.state = "live" /\ j.closing = k.closing /\ j.refused = k.refused
  BY <1>2 DEF LinkRec
<1> HIDE DEF j
<1>5. CASE c.dead
  <2>1. d = c
    BY <1>5 DEF SockSend
  <2> HIDE DEF d
  <2>2. Kept(j, d)
    BY <1>3, <1>4, <1>5, <2>1 DEF Kept, Exact, Holds
  <2> QED BY <2>2 DEF j, d, x
<1>6. CASE ~c.dead
  <2> DEFINE y == Append(q, n)
             v == c.queued + n
             s == c.sent + 1
  <2>1. y \in Seq(Nat) /\ v \in Nat /\ s \in Nat
    BY <1>1 DEF SockRec
  <2>2. d = [[[[c EXCEPT !.queue = y] EXCEPT !.queued = v] EXCEPT !.wake = TRUE] EXCEPT !.sent = s]
    BY <1>6 DEF SockSend, SockRec
  <2> HIDE DEF y, v, s, d
  <2>3. d.queue = y /\ d.queued = v /\ d.batch = c.batch /\ d.writer = c.writer /\ d.dead = c.dead
    BY <2>1, <2>2 DEF SockRec
  <2>4. Batched(d)
    BY <2>3 DEF Kept, Batched
  <2>5. ASSUME ~k.closing PROVE Holds(j, d)
    <3> DEFINE h == b \o q
               g == b \o y
    <3>1. h = Pending(c) /\ g = Pending(d)
      BY <2>3 DEF Pending
    <3>2. c.queued = SumSeq(h) /\ Suffix(h, w)
      BY <1>6, <2>5, <3>1 DEF Kept, Exact, Holds
    <3>3. h \in Seq(Nat) /\ h \in Seq(Int)
      <4> HIDE DEF b, q
      <4> QED BY <1>1, PendingOK
    <3>4. g = Append(h, n)
      <4> HIDE DEF b, q
      <4>1. y \in Seq(Nat) /\ y = q \o <<n>>
        BY <1>1, <2>1 DEF y
      <4> QED BY <1>1, <4>1, SMTT(30)
    <3> HIDE DEF h, g
    <3>5. /\ g \in Seq(Nat) /\ Len(g) = Len(h) + 1 /\ g[Len(h) + 1] = n
          /\ \A i \in 1..Len(h) : g[i] = h[i]
      BY <3>3, <3>4, AppendProperties
    <3>6. SumSeq(g) = v
      BY <3>2, <3>3, <3>4, SumAppend DEF v
    <3> DEFINE H == Len(h)
               W == Len(w)
    <3>7. H \in Nat /\ W \in Nat /\ H <= W /\ \A i \in 1..H : h[i] = w[W - H + i]
      BY <1>1, <3>2, <3>3 DEF Suffix
    <3>8. Len(g) = H + 1 /\ Len(x) = W + 1 /\ g[H + 1] = n /\ x[W + 1] = n
      BY <1>2, <3>5
    <3>9. (\A i \in 1..H : g[i] = h[i]) /\ \A i \in 1..W : x[i] = w[i]
      BY <1>2, <3>5
    <3> HIDE DEF H, W
    <3>10. ASSUME NEW i \in 1..(H + 1) PROVE g[i] = x[(W + 1) - (H + 1) + i]
      <4>1. CASE i = H + 1
        <5>1. (W + 1) - (H + 1) + i = W + 1
          BY <3>7, <4>1
        <5> QED BY <3>8, <4>1, <5>1
      <4>2. CASE i \in 1..H
        <5>1. (W + 1) - (H + 1) + i = W - H + i /\ W - H + i \in 1..W
          BY <3>7, <4>2
        <5> QED BY <3>7, <3>9, <4>2, <5>1
      <4>3. i = H + 1 \/ i \in 1..H
        BY <3>7
      <4> QED BY <4>1, <4>2, <4>3
    <3>11. Suffix(g, x)
      BY <3>7, <3>8, <3>10 DEF Suffix
    <3> QED BY <1>4, <1>6, <2>3, <3>1, <3>6, <3>11 DEF Holds
  <2>6. Kept(j, d)
    BY <1>3, <1>4, <2>4, <2>5 DEF Kept, Exact
  <2> QED BY <2>6 DEF j, d, x
<1> QED BY <1>5, <1>6

(* ---- the table, as channels hold it ---- *)

(* A channel changes, and perhaps its link. *)
LEMMA KeptSock ==
  ASSUME HoldsInv, NEW l \in Links, NEW d, link' = link, SockIs(l, d), Kept(link[l], d)
  PROVE  HoldsInv'
<1>1. ASSUME NEW k \in Links PROVE Batched(sock'[k]) /\ Exact(link'[k], sock'[k])
  BY DEF HoldsInv, SockIs, Kept
<1> QED BY <1>1 DEF HoldsInv, Links

(* The links in the midst of a turn: each still as its channel holds it,   *)
(* and none closed that was not.                                           *)
Gathered(lk) == \A k \in Links : Kept(lk[k], sock[k]) /\ lk[k].closing = link[k].closing
LEMMA KeptPair ==
  ASSUME NEW lk, Gathered(lk), NEW l \in Links, NEW j, NEW d, LinkIs(lk, l, j), SockIs(l, d), Kept(j, d)
  PROVE  HoldsInv'
<1>1. ASSUME NEW k \in Links PROVE Batched(sock'[k]) /\ Exact(link'[k], sock'[k])
  BY DEF Gathered, LinkIs, SockIs, Kept
<1> QED BY <1>1 DEF HoldsInv, Links

(* A goroutine's step keeps what channels hold. *)
LEMMA WriterKept ==
  ASSUME WritesInv, HoldsInv, NEW l \in Links,
         \/ Dialed(l) \/ DialFails(l) \/ WriterRuns(l) \/ WriterWakes(l)
         \/ WriterWrites(l) \/ WriterFails(l) \/ WriterCounts(l) \/ ReadFails(l)
  PROVE  HoldsInv'
<1> DEFINE c == sock[l]
           k == link[l]
           t == terminate(c, FALSE, TRUE)
<1>1. c \in SockRec /\ k \in LinkRec /\ DOMAIN sock = Links /\ Kept(k, c) /\ Flushes(c)
  BY DEF WritesInv, LinkOK, SockOK, HoldsInv, Kept
<1>2. ClosesAs(c, FALSE, t)
  BY <1>1, TerminateCloses
<1>3. CASE Dialed(l)
  <2>1. c.conn = "dialing" /\ link' = link
    BY <1>3 DEF Dialed
  <2>2. c.batch = << >>
    BY <1>1, <2>1 DEF Flushes, Kept, Batched
  <2> DEFINE d == [c EXCEPT !.conn = "shut"]
             e == [[c EXCEPT !.conn = "open"] EXCEPT !.writer = "runs"]
  <2>3. CASE c.dead
    <3>1. SockIs(l, d)
      BY <1>1, <1>3, <2>3 DEF Dialed, SockIs
    <3>2. d.dead = c.dead /\ d.queued = c.queued /\ d.batch = c.batch /\ d.queue = c.queue
          /\ d.writer = c.writer
      BY <1>1 DEF SockRec
    <3> HIDE DEF d
    <3>3. Batched(d)
      BY <2>2, <3>2 DEF Batched
    <3>4. Kept(k, d)
      BY <1>1, <3>2, <3>3, SameKept
    <3> QED BY <2>1, <3>1, <3>4, KeptSock
  <2>4. CASE ~c.dead
    <3>1. SockIs(l, e)
      BY <1>1, <1>3, <2>4 DEF Dialed, SockIs
    <3>2. e.dead = c.dead /\ e.queued = c.queued /\ e.batch = c.batch /\ e.queue = c.queue
      BY <1>1 DEF SockRec
    <3> HIDE DEF e
    <3>3. Batched(e)
      BY <2>2, <3>2 DEF Batched
    <3>4. Kept(k, e)
      BY <1>1, <3>2, <3>3, SameKept
    <3> QED BY <2>1, <3>1, <3>4, KeptSock
  <2> QED BY <2>3, <2>4
<1>4. CASE DialFails(l)
  <2> DEFINE d == [t EXCEPT !.conn = "shut"]
  <2>1. SockIs(l, d) /\ link' = link
    BY <1>1, <1>4 DEF DialFails, SockIs
  <2> HIDE DEF t
  <2>2. d.dead = t.dead /\ d.queued = t.queued /\ d.batch = t.batch /\ d.writer = t.writer
    BY <1>2 DEF ClosesAs, SockRec
  <2> HIDE DEF d
  <2>3. Kept(k, d)
    BY <1>1, <1>2, <2>2, CloseKept DEF ClosesAs
  <2> QED BY <2>1, <2>3, KeptSock
<1>5. CASE WriterRuns(l)
  <2>1. c.writer = "runs" /\ link' = link
    BY <1>5 DEF WriterRuns
  <2>2. c.batch = << >>
    BY <1>1, <2>1 DEF Kept, Batched
  <2> DEFINE d == [c EXCEPT !.batch = c.queue, !.queue = << >>, !.writer = "writes"]
             e == [[c EXCEPT !.conn = "shut"] EXCEPT !.writer = "left"]
             f == [c EXCEPT !.writer = "parked"]
  <2>3. CASE c.queue # << >>
    <3>1. SockIs(l, d)
      BY <1>1, <1>5, <2>3 DEF WriterRuns, SockIs
    <3>2. Kept(k, d)
      BY <1>1, <2>1, TakesKept
    <3> HIDE DEF d
    <3> QED BY <2>1, <3>1, <3>2, KeptSock
  <2>4. CASE c.queue = << >> /\ c.dead
    <3>1. SockIs(l, e)
      BY <1>1, <1>5, <2>4 DEF WriterRuns, SockIs
    <3>2. e.dead = c.dead /\ e.queued = c.queued /\ e.batch = c.batch /\ e.queue = c.queue
      BY <1>1 DEF SockRec
    <3> HIDE DEF e
    <3>3. Batched(e)
      BY <2>2, <3>2 DEF Batched
    <3>4. Kept(k, e)
      BY <1>1, <3>2, <3>3, SameKept
    <3> QED BY <2>1, <3>1, <3>4, KeptSock
  <2>5. CASE c.queue = << >> /\ ~c.dead
    <3>1. SockIs(l, f)
      BY <1>1, <1>5, <2>5 DEF WriterRuns, SockIs
    <3>2. f.dead = c.dead /\ f.queued = c.queued /\ f.batch = c.batch /\ f.queue = c.queue
      BY <1>1 DEF SockRec
    <3> HIDE DEF f
    <3>3. Batched(f)
      BY <2>2, <3>2 DEF Batched
    <3>4. Kept(k, f)
      BY <1>1, <3>2, <3>3, SameKept
    <3> QED BY <2>1, <3>1, <3>4, KeptSock
  <2> QED BY <2>3, <2>4, <2>5
<1>6. CASE WriterWakes(l)
  <2> DEFINE no == FALSE
             d == [[c EXCEPT !.wake = no] EXCEPT !.writer = "runs"]
  <2>1. SockIs(l, d) /\ link' = link /\ c.writer = "parked"
    BY <1>1, <1>6 DEF WriterWakes, SockIs
  <2> HIDE DEF no
  <2>2. d.dead = c.dead /\ d.queued = c.queued /\ d.batch = c.batch /\ d.queue = c.queue
    BY <1>1 DEF SockRec
  <2> HIDE DEF d
  <2>3. Batched(d)
    BY <1>1, <2>1, <2>2 DEF Batched, Kept
  <2>4. Kept(k, d)
    BY <1>1, <2>2, <2>3, SameKept
  <2> QED BY <2>1, <2>4, KeptSock
<1>7. CASE WriterWrites(l)
  <2> DEFINE n == c.written + Len(c.batch)
             d == [[c EXCEPT !.writer = "wrote"] EXCEPT !.written = n]
  <2>1. SockIs(l, d) /\ link' = link
    BY <1>1, <1>7 DEF WriterWrites, SockIs, SockRec
  <2> HIDE DEF n
  <2>2. d.dead = c.dead /\ d.queued = c.queued /\ d.batch = c.batch /\ d.queue = c.queue
        /\ d.writer = "wrote"
    BY <1>1 DEF SockRec
  <2> HIDE DEF d
  <2>3. Batched(d)
    BY <2>2 DEF Batched
  <2>4. Kept(k, d)
    BY <1>1, <2>2, <2>3, SameKept
  <2> QED BY <2>1, <2>4, KeptSock
<1>8. CASE WriterFails(l)
  <2> DEFINE yes == TRUE
             d == [[t EXCEPT !.writer = "wrote"] EXCEPT !.failed = yes]
  <2>1. SockIs(l, d) /\ link' = link
    BY <1>1, <1>8 DEF WriterFails, SockIs
  <2> HIDE DEF t, yes
  <2>2. d.dead = t.dead /\ d.queued = t.queued /\ d.batch = t.batch /\ d.writer = "wrote"
    BY <1>2 DEF ClosesAs, SockRec
  <2> HIDE DEF d
  <2>3. Kept(k, d)
    BY <1>1, <1>2, <2>2, CloseKept DEF ClosesAs
  <2> QED BY <2>1, <2>3, KeptSock
<1>9. CASE WriterCounts(l)
  <2> DEFINE n == SumSeq(c.batch)
             d == [c EXCEPT !.queued = IF c.queued >= n THEN c.queued - n ELSE c.queued,
                            !.batch = << >>, !.writer = "runs"]
  <2>1. SockIs(l, d) /\ link' = link
    BY <1>1, <1>9 DEF WriterCounts, SockIs, SockRec
  <2>2. Kept(k, d)
    BY <1>1, CountsKept
  <2> HIDE DEF d
  <2> QED BY <2>1, <2>2, KeptSock
<1>10. CASE ReadFails(l)
  <2> DEFINE yes == TRUE
             d == [t EXCEPT !.failed = yes]
  <2>1. SockIs(l, d) /\ link' = link
    BY <1>1, <1>10 DEF ReadFails, SockIs
  <2> HIDE DEF t, yes
  <2>2. d.dead = t.dead /\ d.queued = t.queued /\ d.batch = t.batch /\ d.writer = t.writer
    BY <1>2 DEF ClosesAs, SockRec
  <2> HIDE DEF d
  <2>3. Kept(k, d)
    BY <1>1, <1>2, <2>2, CloseKept DEF ClosesAs
  <2> QED BY <2>1, <2>3, KeptSock
<1> QED BY <1>3, <1>4, <1>5, <1>6, <1>7, <1>8, <1>9, <1>10

(* The table as it stands, after a report of one link, and after a sweep.  *)
LEMMA OwnGathered ==
  ASSUME WritesInv, HoldsInv
  PROVE  Gathered(link) /\ \A l \in Live : Gathered(Own(l))
<1>1. Gathered(link)
  BY DEF Gathered, HoldsInv, Kept
<1>2. ASSUME NEW l \in Live PROVE Gathered(Own(l))
  <2> DEFINE s == Settled(link[l], sock[l])
  <2>1. l \in Links /\ LinkOK(link[l], sock[l]) /\ link[l].state = "live" /\ Kept(link[l], sock[l])
    BY <1>1 DEF Live, WritesInv, Gathered
  <2>2. Kept(s, sock[l]) /\ s.closing = link[l].closing
    BY <2>1, SettledExact DEF Kept
  <2>3. \A k \in Links : Own(l)[k] = IF k = l THEN s ELSE link[k]
    BY <2>1 DEF Own, WritesInv
  <2> HIDE DEF s
  <2> QED BY <1>1, <2>2, <2>3 DEF Gathered
<1> QED BY <1>1, <1>2

LEMMA SweptGathered ==
  ASSUME NEW lk, Tabled(lk), Gathered(lk), NEW n
  PROVE  /\ Gathered(Swept(lk, n))
         /\ ~Fits(lk, n) => \A k \in Live : ~link[k].closing => Within(Swept(lk, n)[k], sock[k])
<1> DEFINE all == [l \in Links |-> IF l \in Live THEN Settled(lk[l], sock[l]) ELSE lk[l]]
<1>1. ASSUME NEW k \in Links
      PROVE  /\ Kept(all[k], sock[k]) /\ all[k].closing = link[k].closing
             /\ k \in Live /\ ~link[k].closing => Within(all[k], sock[k])
  <2>1. CASE k \in Live
    <3>1. /\ LinkOK(lk[k], sock[k]) /\ lk[k].state = "live" /\ all[k] = Settled(lk[k], sock[k])
          /\ Kept(lk[k], sock[k]) /\ lk[k].closing = link[k].closing
      BY <2>1 DEF Tabled, Gathered
    <3> HIDE DEF all
    <3> QED BY <3>1, SettledExact DEF Kept
  <2>2. CASE k \notin Live
    BY <2>2 DEF Gathered
  <2> QED BY <2>1, <2>2
<1>2. Swept(lk, n) = IF Fits(lk, n) THEN lk ELSE all
  BY DEF Swept
<1> HIDE DEF all
<1> QED BY <1>1, <1>2 DEF Gathered, Live

(* A link that ends holds no claim. *)
LEMMA EndedKept ==
  ASSUME NEW k \in LinkRec, NEW d, Batched(d)
  PROVE  Kept(Ended(k), d)
<1>1. Ended(k).state = "gone"
  BY DEF Ended, LinkRec
<1> QED BY <1>1 DEF Kept, Exact

(* What is dropped is shut, and its writer writes on. *)
LEMMA ShutKept ==
  ASSUME NEW c \in SockRec, Batched(c), NEW flush \in BOOLEAN
  PROVE  Batched([terminate(c, flush, FALSE) EXCEPT !.closed = FALSE])
<1> DEFINE t == terminate(c, flush, FALSE)
           no == FALSE
           d == [t EXCEPT !.closed = no]
<1>1. ClosesAs(c, flush, t)
  BY TerminateCloses
<1> HIDE DEF t, no
<1>2. d.batch = t.batch /\ d.writer = t.writer
  BY <1>1 DEF ClosesAs, SockRec
<1> HIDE DEF d
<1>3. Batched(d)
  BY <1>1, <1>2 DEF ClosesAs, Batched
<1> QED BY <1>3 DEF d, t, no

LEMMA DropKept ==
  ASSUME WritesInv, HoldsInv, NEW lk, NEW l \in Links, NEW r, Gathered(r),
         \A k \in Links : k # l => lk[k] = r[k],
         DOMAIN lk = Links, lk[l] \in LinkRec, DropLink(lk, l)
  PROVE  HoldsInv'
<1> DEFINE j == Ended(lk[l])
           d == Shut(sock[l])
<1>1. sock[l] \in SockRec /\ Batched(sock[l]) /\ DOMAIN sock = Links
  BY DEF WritesInv, LinkOK, SockOK, HoldsInv
<1>2. Batched(d)
  BY <1>1, ShutKept DEF Shut
<1>3. Kept(j, d)
  BY <1>2, EndedKept
<1>4. link' = [lk EXCEPT ![l] = Ended(@)] /\ sock' = [sock EXCEPT ![l] = Shut(@)]
  BY DEF DropLink, Become
<1>5. LinkIs(r, l, j) /\ SockIs(l, d)
  BY <1>1, <1>4 DEF LinkIs, SockIs
<1> HIDE DEF j, d
<1> QED BY <1>3, <1>5, KeptPair

(* The occupant writes. *)
LEMMA SendKept ==
  ASSUME WritesInv, HoldsInv, NEW l \in Links, NEW n \in Sizes, Send(l, n)
  PROVE  HoldsInv'
<1> DEFINE own == Own(l)
           allowed == Allowed(own[l], n)
           lk == IF allowed THEN Swept(own, n) ELSE own
           posted == [lk EXCEPT ![l].queued = Append(@, n)]
           past == [lk EXCEPT ![l].refused = n]
<1>1. l \in Live /\ n \in Nat /\ DOMAIN sock = Links
  BY LinkWritesAssumption DEF Send, WritesInv
<1>2. Tabled(own) /\ Gathered(own)
  BY <1>1, OwnTabled, OwnGathered
<1>3. Tabled(lk) /\ Gathered(lk)
  <2> HIDE DEF own, allowed
  <2> QED BY <1>2, SweptTabled, SweptGathered
<1>4. \/ Become(own) /\ sock' = sock
      \/ n > 0 /\ Become(posted) /\ sock' = [sock EXCEPT ![l] = SockSend(@, n)]
      \/ DropLink(past, l)
  BY DEF Send
<1> HIDE DEF own, lk
<1>5. LinkOK(lk[l], sock[l]) /\ lk[l].state = "live" /\ lk[l] \in LinkRec /\ DOMAIN lk = Links
      /\ sock[l] \in SockRec /\ Kept(lk[l], sock[l])
  BY <1>1, <1>3 DEF Tabled, LinkOK, SockOK, Gathered
<1>6. CASE Become(own) /\ sock' = sock
  <2>1. link' = own
    BY <1>6 DEF Become
  <2> QED BY <1>2, <1>6, <2>1 DEF Gathered, HoldsInv, Kept, Links
<1>7. CASE n > 0 /\ Become(posted) /\ sock' = [sock EXCEPT ![l] = SockSend(@, n)]
  <2> DEFINE j == [lk[l] EXCEPT !.queued = Append(lk[l].queued, n)]
             d == SockSend(sock[l], n)
  <2>1. link' = posted
    BY <1>7 DEF Become
  <2>2. Kept(j, d)
    BY <1>1, <1>5, <1>7, ChargedKept
  <2>3. LinkIs(lk, l, j)
    BY <1>5, <2>1 DEF LinkIs, LinkRec
  <2>4. SockIs(l, d)
    BY <1>1, <1>7 DEF SockIs
  <2> HIDE DEF j, d
  <2> QED BY <1>3, <2>2, <2>3, <2>4, KeptPair
<1>8. CASE DropLink(past, l)
  <2>1. /\ DOMAIN past = Links /\ \A k \in Links : k # l => past[k] = lk[k]
        /\ past[l] \in LinkRec
    BY <1>1, <1>5 DEF LinkRec
  <2> HIDE DEF past
  <2> QED BY <1>3, <1>8, <2>1, DropKept
<1> QED BY <1>4, <1>6, <1>7, <1>8

(* A link is registered. *)
LEMMA OpenKept ==
  ASSUME WritesInv, HoldsInv, NEW l \in Links, NEW conn \in {"dialing", "open"}, Open(l, conn)
  PROVE  HoldsInv'
<1> DEFINE w == IF conn = "open" THEN "runs" ELSE "none"
           j == [NewLink EXCEPT !.state = "live"]
           d == [[NewSock EXCEPT !.conn = conn] EXCEPT !.writer = w]
<1>1. link[l] = NewLink /\ sock[l] = NewSock
  BY DEF Open, WritesInv, LinkOK
<1>2. NewLink \in LinkRec /\ NewSock \in SockRec
  BY NewOK
<1>3. NewLink.queued = << >> /\ NewLink.refused = 0
  BY DEF NewLink
<1>4. NewSock.queued = 0 /\ NewSock.queue = << >> /\ NewSock.batch = << >> /\ ~NewSock.dead
  BY DEF NewSock
<1>5. LinkIs(link, l, j)
  BY <1>1 DEF Open, LinkIs, WritesInv, NewLink
<1>6. SockIs(l, d)
  BY <1>1 DEF Open, SockIs, WritesInv, NewSock
<1>7. j.queued = NewLink.queued /\ j.refused = NewLink.refused
  BY <1>2 DEF LinkRec
<1> HIDE DEF w, j
<1>8. d.queued = NewSock.queued /\ d.queue = NewSock.queue /\ d.batch = NewSock.batch /\ d.dead = NewSock.dead
  BY <1>2 DEF SockRec
<1> HIDE DEF d
<1> DEFINE none == << >>
<1>9. none \in Seq(Nat) /\ Len(none) = 0 /\ none \o none = none /\ SumSeq(none) = 0
  BY SumEmpty
<1>10. j.queued = none /\ j.refused = 0 /\ d.queued = 0 /\ d.batch = none /\ Pending(d) = none /\ ~d.dead
  BY <1>3, <1>4, <1>7, <1>8, <1>9 DEF Pending
<1>11. Batched(d)
  BY <1>10 DEF Batched
<1> HIDE DEF none
<1>12. Positive(j.queued) /\ Suffix(none, none)
  BY <1>9, <1>10 DEF Positive, Suffix
<1>13. Kept(j, d)
  BY <1>9, <1>10, <1>11, <1>12 DEF Kept, Exact, Holds
<1> QED BY <1>5, <1>6, <1>13, OwnGathered, KeptPair

(* Every other turn of the driver's. *)
LEMMA DriverKept ==
  ASSUME WritesInv, HoldsInv, Reporting, NEW l \in Links,
         \/ Reports(l) \/ SendThrows(l) \/ (\E graceful \in BOOLEAN : Close(l, graceful))
         \/ CloseTurn(l) \/ OnClose(l) \/ SilentTimeout(l)
  PROVE  HoldsInv'
<1>1. /\ DOMAIN sock = Links /\ DOMAIN link = Links /\ sock[l] \in SockRec /\ Kept(link[l], sock[l])
      /\ link[l] \in LinkRec /\ Batched(sock[l])
  BY DEF WritesInv, LinkOK, SockOK, HoldsInv, Kept
<1>2. Gathered(link)
  BY OwnGathered
<1>4. CASE Reports(l)
  <2>1. l # 0 /\ l \in Live /\ link' = Own(l) /\ sock' = sock
    BY <1>4 DEF Reports, Reporting, Links, Become
  <2>2. Gathered(Own(l))
    BY <2>1, OwnGathered
  <2> QED BY <2>1, <2>2 DEF Gathered, HoldsInv, Kept, Links
<1>5. CASE SendThrows(l)
  <2> DEFINE own == Own(l)
  <2>1. l \in Live /\ DropLink(own, l)
    BY <1>5 DEF SendThrows
  <2>2. Tabled(own) /\ Gathered(own)
    BY <2>1, OwnTabled, OwnGathered
  <2> HIDE DEF own
  <2>3. DOMAIN own = Links /\ own[l] \in LinkRec
    BY <2>2 DEF Tabled, LinkOK
  <2> QED BY <2>1, <2>2, <2>3, DropKept
<1>6. CASE \E graceful \in BOOLEAN : Close(l, graceful)
  <2>1. PICK graceful \in BOOLEAN : Close(l, graceful)
    BY <1>6
  <2> DEFINE d == [terminate(sock[l], graceful, FALSE) EXCEPT !.closed = FALSE]
             yes == TRUE
             j == [link[l] EXCEPT !.closing = yes]
  <2>2. Batched(d)
    BY <1>1, ShutKept
  <2>3. SockIs(l, d) /\ LinkIs(link, l, j) /\ link[l].state = "live"
    BY <1>1, <2>1 DEF Close, SockIs, LinkIs, Live
  <2> HIDE DEF d, yes
  <2>4. j.queued = link[l].queued /\ j.refused = link[l].refused /\ j.closing = yes
    BY <1>1 DEF LinkRec
  <2> HIDE DEF j
  <2>5. j.closing
    BY <2>4 DEF yes
  <2>6. Kept(j, d)
    BY <1>1, <2>2, <2>3, <2>4, <2>5 DEF Kept, Exact
  <2> QED BY <1>2, <2>3, <2>6, KeptPair
<1>7. CASE CloseTurn(l)
  <2> DEFINE j == Ended(link[l])
  <2>1. link' = [link EXCEPT ![l] = Ended(@)] /\ sock' = sock
    BY <1>7 DEF CloseTurn, Become
  <2>2. Kept(j, sock[l])
    BY <1>1, EndedKept
  <2>3. LinkIs(link, l, j) /\ SockIs(l, sock[l])
    BY <1>1, <2>1 DEF LinkIs, SockIs
  <2> HIDE DEF j
  <2> QED BY <1>2, <2>2, <2>3, KeptPair
<1>8. CASE OnClose(l)
  <2> DEFINE j == Ended(link[l])
             no == FALSE
             d == [sock[l] EXCEPT !.closed = no]
  <2>1. link' = [link EXCEPT ![l] = Ended(@)] /\ sock' = [sock EXCEPT ![l].closed = FALSE]
    BY <1>8 DEF OnClose, Become
  <2>3. LinkIs(link, l, j) /\ SockIs(l, d)
    BY <1>1, <2>1 DEF LinkIs, SockIs
  <2> HIDE DEF no
  <2>2. d.batch = sock[l].batch /\ d.writer = sock[l].writer
    BY <1>1 DEF SockRec
  <2> HIDE DEF d
  <2>4. Batched(d)
    BY <1>1, <2>2 DEF Batched
  <2>5. Kept(j, d)
    BY <1>1, <2>4, EndedKept
  <2> HIDE DEF j
  <2> QED BY <1>2, <2>3, <2>5, KeptPair
<1>9. CASE SilentTimeout(l)
  <2>1. DropLink(link, l)
    BY <1>9 DEF SilentTimeout
  <2> QED BY <1>1, <1>2, <2>1, DropKept
<1> QED BY <1>4, <1>5, <1>6, <1>7, <1>8, <1>9

(* Another occupant is bound. *)
LEMMA ResetKept ==
  ASSUME WritesInv, HoldsInv, ResetLinks
  PROVE  HoldsInv'
<1>1. /\ link' = [l \in Links |-> IF l \in Live THEN Ended(link[l]) ELSE link[l]]
      /\ sock' = [l \in Links |-> IF l \in Live THEN Shut(sock[l]) ELSE sock[l]]
  BY DEF ResetLinks, Become
<1>2. ASSUME NEW l \in Links PROVE Kept(link'[l], sock'[l])
  <2>1. link[l] \in LinkRec /\ sock[l] \in SockRec /\ Batched(sock[l]) /\ Kept(link[l], sock[l])
    BY DEF WritesInv, LinkOK, SockOK, HoldsInv, Kept
  <2>2. CASE l \in Live
    <3>1. Batched(Shut(sock[l]))
      BY <2>1, ShutKept DEF Shut
    <3>2. Kept(Ended(link[l]), Shut(sock[l]))
      BY <2>1, <3>1, EndedKept
    <3> QED BY <1>1, <2>2, <3>2
  <2>3. CASE l \notin Live
    BY <1>1, <2>1, <2>3
  <2> QED BY <2>2, <2>3
<1> QED BY <1>2 DEF HoldsInv, Kept, Links

(* One step keeps what channels hold. *)
LEMMA HoldsStep ==
  ASSUME WritesInv, HoldsInv, Reporting, [Next]_vars
  PROVE  HoldsInv'
<1>1. CASE UNCHANGED writeVars
  BY <1>1 DEF writeVars, HoldsInv, Links
<1>2. CASE Reset
  BY <1>2, ResetKept DEF Reset
<1>3. ASSUME NEW l \in Links, Writer(l) \/ Dialer(l) \/ Turn(l) PROVE HoldsInv'
  <2>1. CASE Writer(l)
    BY <2>1, WriterKept DEF Writer
  <2>2. CASE Dialer(l)
    BY <2>2, WriterKept DEF Dialer
  <2>3. CASE Turn(l)
    BY <2>3, DriverKept DEF Turn
  <2> QED BY <1>3, <2>1, <2>2, <2>3
<1>4. ASSUME NEW l \in Links,
             \/ \E conn \in {"dialing", "open"} : Open(l, conn) /\ Bounded("open")
             \/ \E n \in Sizes : Send(l, n) /\ Bounded("write")
             \/ (SendThrows(l) \/ ReadFails(l) \/ SilentTimeout(l)) /\ Bounded("fault")
             \/ \E graceful \in BOOLEAN : Close(l, graceful) /\ UNCHANGED left
      PROVE  HoldsInv'
  BY <1>4, OpenKept, SendKept, WriterKept, DriverKept
<1>5. CASE \E s \in Ids : SocketTurn(s)
  BY <1>1, <1>5 DEF SocketTurn
<1>6. CASE Reading
  BY <1>1, <1>6 DEF Reading
<1>7. CASE UNCHANGED vars
  BY <1>1, <1>7 DEF vars, writeVars
<1>8. CASE Next
  BY <1>1, <1>2, <1>3, <1>4, <1>5, <1>6, <1>8 DEF Next
<1> QED BY <1>7, <1>8

(* Charges that are within what channels hold add up to no more than the   *)
(* channels hold together.                                                 *)
LEMMA WithinAll ==
  ASSUME WritesInv, NEW lk, Tabled(lk), \A k \in Live : Within(lk[k], sock[k])
  PROVE  /\ Bytes(lk) \in Int /\ HeldBytes \in Int /\ Bytes(lk) <= HeldBytes
         /\ Slices(lk) \in Int /\ HeldSlices \in Int /\ Slices(lk) <= HeldSlices
<1> DEFINE a == [l \in Links |-> IF l \in Live THEN SumSeq(lk[l].queued) ELSE 0]
           b == [l \in Links |-> IF l \in Live THEN SumSeq(Held(l)) ELSE 0]
           c == [l \in Links |-> IF l \in Live THEN Len(lk[l].queued) ELSE 0]
           d == [l \in Links |-> IF l \in Live THEN Len(Held(l)) ELSE 0]
           N == MaxLinks
<1>1. N \in Nat /\ Links = 1..N
  BY LinkWritesAssumption DEF Links
<1>2. ASSUME NEW l \in Links
      PROVE  /\ a[l] \in Int /\ b[l] \in Int /\ a[l] <= b[l]
             /\ c[l] \in Int /\ d[l] \in Int /\ c[l] <= d[l]
  <2>1. CASE l \in Live
    <3>1. lk[l].queued \in Seq(Nat) /\ sock[l].batch \in Seq(Nat) /\ sock[l].queue \in Seq(Nat)
          /\ Within(lk[l], sock[l])
      BY <2>1 DEF Tabled, LinkOK, LinkRec, SockOK, SockRec
    <3>2. Held(l) = Pending(sock[l])
      BY DEF Held, Pending
    <3>3. Held(l) \in Seq(Nat) /\ Held(l) \in Seq(Int)
      BY <3>1, PendingOK DEF Held
    <3> DEFINE h == Held(l)
               q == lk[l].queued
    <3>4. q \in Seq(Int) /\ h \in Seq(Int)
      BY <3>1, <3>3
    <3>5. Len(q) <= Len(h) /\ SumSeq(q) <= SumSeq(h)
      BY <3>1, <3>2 DEF Within
    <3>6. a[l] = SumSeq(q) /\ b[l] = SumSeq(h) /\ c[l] = Len(q) /\ d[l] = Len(h)
      BY <2>1
    <3> HIDE DEF a, b, c, d, h, q
    <3>7. Len(q) \in Int /\ Len(h) \in Int /\ SumSeq(q) \in Int /\ SumSeq(h) \in Int
      BY <3>4, SumType
    <3> QED BY <3>5, <3>6, <3>7
  <2>2. CASE l \notin Live
    BY <2>2
  <2> QED BY <2>1, <2>2
<1>3. /\ Bytes(lk) = SumSeq(a) /\ HeldBytes = SumSeq(b)
      /\ Slices(lk) = SumSeq(c) /\ HeldSlices = SumSeq(d)
  BY DEF Bytes, HeldBytes, Slices, HeldSlices
<1>4. DOMAIN a = 1..N /\ DOMAIN b = 1..N /\ DOMAIN c = 1..N /\ DOMAIN d = 1..N
  BY <1>1
<1>5. /\ a = [l \in 1..N |-> a[l]] /\ b = [l \in 1..N |-> b[l]]
      /\ c = [l \in 1..N |-> c[l]] /\ d = [l \in 1..N |-> d[l]]
  BY <1>1
<1> HIDE DEF a, b, c, d, N
<1>6. /\ a \in [1..N -> Int] /\ b \in [1..N -> Int] /\ c \in [1..N -> Int] /\ d \in [1..N -> Int]
  BY <1>1, <1>2, <1>5
<1>7. \A f \in [1..N -> Int] : f \in Seq(Int) /\ Len(f) = N
  BY <1>1
<1>8. a \in Seq(Int) /\ Len(a) = N /\ b \in Seq(Int) /\ Len(b) = N
  BY <1>6, <1>7
<1>9. c \in Seq(Int) /\ Len(c) = N /\ d \in Seq(Int) /\ Len(d) = N
  BY <1>6, <1>7
<1>10. SumSeq(a) <= SumSeq(b) /\ SumSeq(a) \in Int /\ SumSeq(b) \in Int
  BY <1>1, <1>2, <1>8, SumLess, SumType
<1>11. SumSeq(c) <= SumSeq(d) /\ SumSeq(c) \in Int /\ SumSeq(d) \in Int
  BY <1>1, <1>2, <1>9, SumLess, SumType
<1> QED BY <1>3, <1>10, <1>11

(* A write the driver refuses finds no room: the link's own charges, or    *)
(* after a sweep everybody's, are within what channels hold.               *)
LEMMA NoRoom ==
  ASSUME WritesInv, HoldsInv, NEW l \in Live, NEW n \in Nat, \A k \in Live : ~link[k].closing,
         LET own == Own(l)
             allowed == Allowed(own[l], n)
             lk == IF allowed THEN Swept(own, n) ELSE own
         IN ~(allowed /\ Fits(lk, n))
  PROVE  ~RoomFor(l, n)
<1> DEFINE own == Own(l)
           lk == Swept(own, n)
           h == Held(l)
           q == own[l].queued
<1>1. l \in Links /\ Tabled(own) /\ Gathered(own)
  BY OwnTabled, OwnGathered DEF Live
<1>2. /\ LinkOK(link[l], sock[l]) /\ link[l].state = "live" /\ Exact(link[l], sock[l])
      /\ own[l] = Settled(link[l], sock[l])
  BY <1>1 DEF WritesInv, HoldsInv, Own, Live
<1>3. Within(own[l], sock[l])
  <2> HIDE DEF own
  <2> QED BY <1>2, SettledExact
<1>4. h = Pending(sock[l])
  BY DEF Held, Pending
<1>5. Len(q) <= Len(h) /\ SumSeq(q) <= SumSeq(h)
  BY <1>3, <1>4 DEF Within
<1>6. q \in Seq(Nat) /\ h \in Seq(Nat)
  <2>1. own[l] \in LinkRec /\ sock[l] \in SockRec
    BY <1>1 DEF Tabled, LinkOK, SockOK
  <2>2. q \in Seq(Nat) /\ sock[l].batch \in Seq(Nat) /\ sock[l].queue \in Seq(Nat)
    BY <2>1 DEF LinkRec, SockRec
  <2> HIDE DEF q
  <2> QED BY <2>2, PendingOK DEF Held
<1>7. Len(q) \in Int /\ Len(h) \in Int /\ SumSeq(q) \in Int /\ SumSeq(h) \in Int
  <2> HIDE DEF q, h
  <2>1. q \in Seq(Int) /\ h \in Seq(Int)
    BY <1>6
  <2> QED BY <2>1, SumType
<1>8. /\ MAX_OUTBOUND_QUEUE_SLICES \in Nat /\ MAX_OUTBOUND_QUEUE_BYTES \in Nat
      /\ MAX_NODE_OUTBOUND_QUEUE_SLICES \in Nat /\ MAX_NODE_OUTBOUND_QUEUE_BYTES \in Nat
  BY LinkWritesAssumption
<1>9. CASE ~Allowed(own[l], n)
  <2>1. ~(Len(q) < MAX_OUTBOUND_QUEUE_SLICES /\ n <= MAX_OUTBOUND_QUEUE_BYTES - SumSeq(q))
    BY <1>9 DEF Allowed
  <2> HIDE DEF q, h
  <2>2. ~(Len(h) < MAX_OUTBOUND_QUEUE_SLICES /\ SumSeq(h) + n <= MAX_OUTBOUND_QUEUE_BYTES)
    BY <1>5, <1>7, <1>8, <2>1
  <2> QED BY <2>2 DEF RoomFor, h
<1>10. CASE Allowed(own[l], n) /\ ~Fits(lk, n)
  <2> HIDE DEF own
  <2>1. ~Fits(own, n)
    BY <1>10 DEF Swept
  <2>2. Tabled(lk) /\ \A k \in Live : Within(lk[k], sock[k])
    BY <1>1, <2>1, SweptTabled, SweptGathered
  <2> HIDE DEF lk
  <2>3. /\ Bytes(lk) \in Int /\ HeldBytes \in Int /\ Bytes(lk) <= HeldBytes
        /\ Slices(lk) \in Int /\ HeldSlices \in Int /\ Slices(lk) <= HeldSlices
    BY <2>2, WithinAll
  <2>4. ~(Slices(lk) < MAX_NODE_OUTBOUND_QUEUE_SLICES /\ n <= MAX_NODE_OUTBOUND_QUEUE_BYTES - Bytes(lk))
    BY <1>10 DEF Fits
  <2>5. ~(HeldSlices < MAX_NODE_OUTBOUND_QUEUE_SLICES /\ HeldBytes + n <= MAX_NODE_OUTBOUND_QUEUE_BYTES)
    BY <1>8, <2>3, <2>4
  <2> QED BY <2>5 DEF RoomFor
<1> QED BY <1>9, <1>10

(* ---- what a step refuses ---- *)

Unrefused == \A l \in Live : link'[l].refused = 0

(* A turn that refuses nothing of the link it is about. *)
LEMMA TurnUnrefused ==
  ASSUME NEW lk, Tabled(lk), Gathered(lk), NEW l \in Links, NEW j, LinkIs(lk, l, j),
         l \in Live => j.refused = 0
  PROVE  Unrefused
<1>1. ASSUME NEW k \in Live PROVE link'[k].refused = 0
  <2>1. k \in Links /\ lk[k].state = "live" /\ Exact(lk[k], sock[k])
    BY DEF Live, Tabled, Gathered, Kept
  <2>2. CASE k = l
    BY <2>1, <2>2 DEF LinkIs
  <2>3. CASE k # l
    BY <2>1, <2>3 DEF LinkIs, Exact
  <2> QED BY <2>2, <2>3
<1> QED BY <1>1 DEF Unrefused

LEMMA EndedRefused ==
  ASSUME NEW k \in LinkRec
  PROVE  Ended(k).refused = k.refused
<1> DEFINE none == << >>
           no == FALSE
           j == [[[k EXCEPT !.state = "gone"] EXCEPT !.queued = none] EXCEPT !.closing = no]
<1>1. Ended(k) = j
  BY DEF Ended, LinkRec
<1> HIDE DEF none, no
<1>2. j.refused = k.refused
  BY DEF LinkRec
<1> QED BY <1>1, <1>2

LEMMA EndUnrefused ==
  ASSUME NEW lk, Tabled(lk), Gathered(lk), NEW l \in Links, link' = [lk EXCEPT ![l] = Ended(@)]
  PROVE  Unrefused
<1>1. lk[l] \in LinkRec /\ DOMAIN lk = Links
  BY DEF Tabled, LinkOK
<1>2. LinkIs(lk, l, Ended(lk[l]))
  BY <1>1 DEF LinkIs
<1>3. l \in Live => lk[l].refused = 0
  BY DEF Tabled, Gathered, Kept, Exact
<1>4. l \in Live => Ended(lk[l]).refused = 0
  BY <1>1, <1>3, EndedRefused
<1> QED BY <1>2, <1>4, TurnUnrefused

(* Whatever is refused finds no room, unless a closed link is still in the *)
(* table.                                                                  *)
FullWhenRefused ==
    \A l \in Live : (link'[l].refused > 0 /\ \A k \in Live : ~link[k].closing)
                    => ~RoomFor(l, link'[l].refused)

LEMMA SendRefused ==
  ASSUME WritesInv, HoldsInv, NEW l \in Links, NEW n \in Sizes, Send(l, n)
  PROVE  FullWhenRefused
<1> DEFINE own == Own(l)
           allowed == Allowed(own[l], n)
           lk == IF allowed THEN Swept(own, n) ELSE own
           posted == [lk EXCEPT ![l].queued = Append(@, n)]
           past == [lk EXCEPT ![l].refused = n]
<1>1. l \in Live /\ n \in Nat
  BY LinkWritesAssumption DEF Send
<1>2. Tabled(own) /\ Gathered(own)
  BY <1>1, OwnTabled, OwnGathered, SMTT(30)
<1>3. Tabled(lk) /\ Gathered(lk)
  <2> HIDE DEF own, allowed
  <2> QED BY <1>2, SweptTabled, SweptGathered
<1>4. \/ link' = own
      \/ link' = posted
      \/ ~(allowed /\ Fits(lk, n)) /\ link' = [past EXCEPT ![l] = Ended(@)]
  BY DEF Send, Become, DropLink
<1>5. ASSUME ~(allowed /\ Fits(lk, n)), \A k \in Live : ~link[k].closing PROVE ~RoomFor(l, n)
  BY <1>1, <1>5, NoRoom
<1> HIDE DEF own, lk, allowed
<1>6. /\ lk[l] \in LinkRec /\ DOMAIN lk = Links /\ lk[l].refused = 0 /\ own[l].refused = 0
      /\ DOMAIN own = Links
  BY <1>1, <1>2, <1>3 DEF Tabled, Gathered, LinkOK, Kept, Exact
<1>a. Unrefused => FullWhenRefused
  BY DEF Unrefused, FullWhenRefused
<1>7. CASE link' = own
  <2>1. LinkIs(own, l, own[l])
    BY <1>6, <1>7 DEF LinkIs
  <2> QED BY <1>2, <1>6, <1>a, <2>1, TurnUnrefused
<1>8. CASE link' = posted
  <2> DEFINE x == Append(lk[l].queued, n)
             j == [lk[l] EXCEPT !.queued = x]
  <2>1. LinkIs(lk, l, j)
    BY <1>6, <1>8 DEF LinkIs, LinkRec
  <2> HIDE DEF x
  <2>2. j.refused = 0
    BY <1>6 DEF LinkRec
  <2> HIDE DEF j
  <2> QED BY <1>3, <1>a, <2>1, <2>2, TurnUnrefused
<1>9. CASE ~(allowed /\ Fits(lk, n)) /\ link' = [past EXCEPT ![l] = Ended(@)]
  <2> DEFINE j == [lk[l] EXCEPT !.refused = n]
  <2>1. j \in LinkRec /\ j.refused = n
    BY <1>1, <1>6 DEF LinkRec
  <2>2. link'[l] = Ended(j) /\ \A k \in Links : k # l => link'[k] = lk[k]
    BY <1>6, <1>9
  <2> HIDE DEF j
  <2>3. link'[l].refused = n
    BY <2>1, <2>2, EndedRefused
  <2>4. ASSUME NEW k \in Live, k # l PROVE link'[k].refused = 0
    <3>1. k \in Links /\ lk[k].state = "live" /\ Exact(lk[k], sock[k])
      BY <1>3 DEF Live, Tabled, Gathered, Kept
    <3> QED BY <2>2, <2>4, <3>1 DEF Exact
  <2>5. ASSUME NEW k \in Live, link'[k].refused > 0, \A x \in Live : ~link[x].closing
        PROVE  ~RoomFor(k, link'[k].refused)
    <3>1. CASE k = l
      <4>1. ~RoomFor(l, n)
        BY <1>5, <1>9, <2>5
      <4> QED BY <2>3, <3>1, <4>1
    <3>2. CASE k # l
      BY <2>4, <2>5, <3>2
    <3> QED BY <3>1, <3>2
  <2> QED BY <2>5 DEF FullWhenRefused
<1> QED BY <1>4, <1>7, <1>8, <1>9

LEMMA RefusedStep ==
  ASSUME WritesInv, HoldsInv, Reporting, [Next]_vars
  PROVE  FullWhenRefused
<1>a. Unrefused => FullWhenRefused
  BY DEF Unrefused, FullWhenRefused
<1>b. Tabled(link) /\ Gathered(link) /\ DOMAIN link = Links
  BY OwnGathered DEF Tabled, WritesInv, Live
<1>1. ASSUME link' = link PROVE FullWhenRefused
  BY <1>1, <1>a DEF Unrefused, HoldsInv, Exact, Live
<1>2. ASSUME NEW l \in Links, link' = [link EXCEPT ![l] = Ended(@)] PROVE FullWhenRefused
  BY <1>2, <1>a, <1>b, EndUnrefused
<1>3. ASSUME NEW l \in Links,
             \/ Dialed(l) \/ DialFails(l) \/ WriterRuns(l) \/ WriterWakes(l)
             \/ WriterWrites(l) \/ WriterFails(l) \/ WriterCounts(l) \/ ReadFails(l)
      PROVE  FullWhenRefused
  <2>1. link' = link
    BY <1>3 DEF Dialed, DialFails, WriterRuns, WriterWakes, WriterWrites, WriterFails, WriterCounts, ReadFails
  <2> QED BY <1>1, <2>1
<1>4. ASSUME NEW l \in Links, Reports(l) PROVE FullWhenRefused
  <2> DEFINE own == Own(l)
  <2>1. l # 0 /\ l \in Live /\ link' = own
    BY <1>4 DEF Reports, Reporting, Links, Become
  <2>2. Tabled(own) /\ Gathered(own)
    BY <2>1, OwnTabled, OwnGathered
  <2> HIDE DEF own
  <2>3. LinkIs(own, l, own[l])
    BY <2>1, <2>2 DEF LinkIs, Tabled
  <2>4. own[l].refused = 0
    BY <2>1, <2>2 DEF Tabled, Gathered, Kept, Exact
  <2> QED BY <1>a, <2>2, <2>3, <2>4, TurnUnrefused
<1>5. ASSUME NEW l \in Links, SendThrows(l) PROVE FullWhenRefused
  <2> DEFINE own == Own(l)
  <2>1. l \in Live /\ link' = [own EXCEPT ![l] = Ended(@)]
    BY <1>5 DEF SendThrows, DropLink, Become
  <2>2. Tabled(own) /\ Gathered(own)
    BY <2>1, OwnTabled, OwnGathered
  <2> HIDE DEF own
  <2> QED BY <1>a, <2>1, <2>2, EndUnrefused
<1>6. ASSUME NEW l \in Links, CloseTurn(l) \/ OnClose(l) \/ SilentTimeout(l) PROVE FullWhenRefused
  <2>1. link' = [link EXCEPT ![l] = Ended(@)]
    BY <1>6 DEF CloseTurn, OnClose, SilentTimeout, DropLink, Become
  <2> QED BY <1>2, <2>1
<1>7. ASSUME NEW l \in Links, NEW graceful \in BOOLEAN, Close(l, graceful) PROVE FullWhenRefused
  <2> DEFINE yes == TRUE
             j == [link[l] EXCEPT !.closing = yes]
  <2>1. LinkIs(link, l, j) /\ link[l] \in LinkRec /\ link[l].state = "live" /\ Exact(link[l], sock[l])
    BY <1>7, <1>b DEF Close, LinkIs, Live, WritesInv, LinkOK, HoldsInv
  <2> HIDE DEF yes
  <2>2. j.refused = link[l].refused
    BY <2>1 DEF LinkRec
  <2> HIDE DEF j
  <2>3. j.refused = 0
    BY <2>1, <2>2 DEF Exact
  <2> QED BY <1>a, <1>b, <2>1, <2>3, TurnUnrefused
<1>8. ASSUME NEW l \in Links, NEW conn \in {"dialing", "open"}, Open(l, conn) PROVE FullWhenRefused
  <2> DEFINE j == [link[l] EXCEPT !.state = "live"]
  <2>1. LinkIs(link, l, j) /\ l \notin Live
    BY <1>8, <1>b DEF Open, LinkIs, Live
  <2> HIDE DEF j
  <2> QED BY <1>a, <1>b, <2>1, TurnUnrefused
<1>9. ASSUME ResetLinks PROVE FullWhenRefused
  <2>1. link' = [l \in Links |-> IF l \in Live THEN Ended(link[l]) ELSE link[l]]
    BY <1>9 DEF ResetLinks, Become
  <2>2. ASSUME NEW k \in Live PROVE link'[k].refused = 0
    <3>1. k \in Links /\ link[k] \in LinkRec /\ link[k].refused = 0
      BY DEF Live, WritesInv, LinkOK, HoldsInv, Exact
    <3>2. link'[k] = Ended(link[k])
      BY <2>1, <3>1
    <3> QED BY <3>1, <3>2, EndedRefused
  <2> QED BY <1>a, <2>2 DEF Unrefused
<1>10. CASE UNCHANGED writeVars
  BY <1>1, <1>10 DEF writeVars
<1>11. ASSUME NEW l \in Links, Writer(l) \/ Dialer(l) \/ Turn(l) PROVE FullWhenRefused
  <2>1. CASE Writer(l)
    BY <1>3, <2>1 DEF Writer
  <2>2. CASE Dialer(l)
    BY <1>3, <2>2 DEF Dialer
  <2>3. CASE Turn(l)
    BY <1>4, <1>6, <2>3 DEF Turn
  <2> QED BY <1>11, <2>1, <2>2, <2>3
<1>12. ASSUME NEW l \in Links,
              \/ \E conn \in {"dialing", "open"} : Open(l, conn) /\ Bounded("open")
              \/ \E n \in Sizes : Send(l, n) /\ Bounded("write")
              \/ (SendThrows(l) \/ ReadFails(l) \/ SilentTimeout(l)) /\ Bounded("fault")
              \/ \E graceful \in BOOLEAN : Close(l, graceful) /\ UNCHANGED left
       PROVE  FullWhenRefused
  BY <1>3, <1>5, <1>6, <1>7, <1>8, <1>12, SendRefused
<1>13. CASE Reset
  BY <1>9, <1>13 DEF Reset
<1>14. CASE \E s \in Ids : SocketTurn(s)
  BY <1>10, <1>14 DEF SocketTurn
<1>15. CASE Reading
  BY <1>10, <1>15 DEF Reading
<1>16. CASE UNCHANGED vars
  BY <1>10, <1>16 DEF vars, writeVars
<1>17. CASE Next
  BY <1>10, <1>11, <1>12, <1>13, <1>14, <1>15, <1>17 DEF Next
<1> QED BY <1>16, <1>17

(* A write is refused only for what channels hold at that moment, a link's *)
(* own or all of them together, unless a link the occupant has closed is   *)
(* still in the table (send, reserveOutbound's sweep, settle).             *)
THEOREM RefusedWhenFullHolds == Spec => RefusedWhenFull
<1> DEFINE Inv == WritesInv /\ Reporting /\ HoldsInv
<1>1. Init => Inv
  <2> SUFFICES ASSUME Init PROVE Inv
    OBVIOUS
  <2>1. link = [l \in Links |-> NewLink] /\ sock = [l \in Links |-> NewSock] /\ sending = 0
    BY DEF Init, WritesInit
  <2>2. WritesInv /\ Reporting
    BY <2>1, NewOK DEF WritesInv, Reporting
  <2>3. Batched(NewSock) /\ Exact(NewLink, NewSock)
    BY DEF Batched, Exact, NewSock, NewLink
  <2> QED BY <2>1, <2>2, <2>3 DEF HoldsInv
<1>2. Inv /\ [Next]_vars => Inv'
  BY WritesStep, HoldsStep
<1>3. Inv /\ [Next]_vars =>
        [\A l \in Live : (link'[l].refused > 0 /\ \A k \in Live : ~link[k].closing)
                         => ~RoomFor(l, link'[l].refused)]_writeVars
  BY RefusedStep DEF FullWhenRefused
<1> HIDE DEF Inv
<1> QED BY <1>1, <1>2, <1>3, PTL DEF Spec, RefusedWhenFull

-----------------------------------------------------------------------------
(***************************************************************************)
(* The reads: LinkReads, whatever its constants.                           *)
(***************************************************************************)

(* One link's reads: the realm has the last it was told of or none, those  *)
(* held are the run that follows it and, on a live link, end with the last *)
(* that came; nothing is held behind an idle realm, but by a pause.        *)
ReadsOK(st, stopped, cm, cg, hd, rd, tl) ==
    /\ st \in {"none", "live", "gone"} /\ cm \in Nat /\ cg \in Nat /\ hd \in Seq(Nat)
    /\ tl \in Nat /\ rd \in {0, tl}
    /\ cm + cg <= MaxReads
    /\ tl + Len(hd) <= cm
    /\ \A i \in 1..Len(hd) : hd[i] = tl + i
    /\ st = "live" => tl + Len(hd) = cm
    /\ st = "live" /\ rd = 0 /\ ~stopped => hd = << >>
    /\ st = "none" => cm = 0 /\ rd = 0 /\ ~stopped

(* The reads a link has in the driver and the realm, and how many. *)
OutOf(hd, rd) == (Range(hd) \union {rd}) \ {0}
Many(hd, rd) == Len(hd) + (IF rd = 0 THEN 0 ELSE 1)

(* They are as many as they are counted. *)
LEMMA OutCount ==
  ASSUME MaxReads \in Nat, NEW hd \in Seq(Nat), NEW tl \in Nat, NEW rd \in {0, tl},
         tl + Len(hd) <= MaxReads, \A i \in 1..Len(hd) : hd[i] = tl + i
  PROVE  /\ OutOf(hd, rd) \in SUBSET (1..MaxReads)
         /\ IsFiniteSet(OutOf(hd, rd))
         /\ Cardinality(OutOf(hd, rd)) = Many(hd, rd)
<1> DEFINE n == Len(hd)
<1>1. /\ hd \in Seq(Nat) /\ n \in Nat /\ tl \in Nat /\ rd \in {0, tl} /\ tl + n <= MaxReads
      /\ \A i \in 1..n : hd[i] = tl + i
  OBVIOUS
<1>2. DOMAIN hd = 1..n
  BY <1>1
<1> HIDE DEF n
<1>3. Range(hd) = (tl + 1)..(tl + n)
  <2>1. ASSUME NEW x \in Range(hd) PROVE x \in (tl + 1)..(tl + n)
    <3>1. PICK i \in 1..n : x = hd[i]
      BY <1>2, <2>1 DEF Range
    <3> QED BY <1>1, <3>1
  <2>2. ASSUME NEW x \in (tl + 1)..(tl + n) PROVE x \in Range(hd)
    <3>1. x - tl \in 1..n /\ hd[x - tl] = tl + (x - tl) /\ tl + (x - tl) = x
      BY <1>1
    <3> QED BY <1>2, <3>1 DEF Range
  <2> QED BY <2>1, <2>2
<1>4. IsFiniteSet(Range(hd)) /\ Cardinality(Range(hd)) = n
  <2>1. tl + 1 \in Int /\ tl + n \in Int /\ (tl + 1 > tl + n <=> n = 0)
    BY <1>1
  <2>2. IsFiniteSet((tl + 1)..(tl + n))
        /\ Cardinality((tl + 1)..(tl + n)) = IF tl + 1 > tl + n THEN 0 ELSE (tl + n) - (tl + 1) + 1
    BY <2>1, FS_Interval
  <2> QED BY <1>1, <1>3, <2>1, <2>2
<1>5. CASE rd = 0
  <2>1. OutOf(hd, rd) = Range(hd)
    BY <1>1, <1>3, <1>5 DEF OutOf
  <2> QED BY <1>1, <1>3, <1>4, <1>5, <2>1 DEF Many, n
<1>6. CASE rd # 0
  <2>1. rd = tl /\ rd \notin Range(hd) /\ OutOf(hd, rd) = Range(hd) \union {rd}
    BY <1>1, <1>3, <1>6 DEF OutOf
  <2>2. IsFiniteSet(Range(hd) \union {rd}) /\ Cardinality(Range(hd) \union {rd}) = n + 1
    BY <1>4, <2>1, FS_AddElement
  <2>3. Range(hd) \union {rd} \in SUBSET (1..MaxReads)
    BY <1>1, <1>3, <1>6, <2>1
  <2> QED BY <1>6, <2>1, <2>2, <2>3 DEF Many, n
<1> QED BY <1>5, <1>6

(* What is counted of one link, with a read in the realm and without. *)
LEMMA ManyIs ==
  ASSUME NEW hd, NEW rd, Len(hd) \in Nat
  PROVE  IF rd = 0 THEN Many(hd, rd) = Len(hd) ELSE Many(hd, rd) = Len(hd) + 1
<1>1. CASE rd = 0
  BY <1>1 DEF Many
<1>2. CASE rd # 0
  BY <1>2 DEF Many
<1> QED BY <1>1, <1>2

(* The same of one link's reads in order. *)
LEMMA OutCountOK ==
  ASSUME MaxReads \in Nat, NEW st, NEW stopped, NEW cm, NEW cg, NEW hd, NEW rd, NEW tl,
         ReadsOK(st, stopped, cm, cg, hd, rd, tl)
  PROVE  OutOf(hd, rd) \in SUBSET (1..MaxReads) /\ Cardinality(OutOf(hd, rd)) = Many(hd, rd)
<1>1. /\ hd \in Seq(Nat) /\ tl \in Nat /\ rd \in {0, tl}
      /\ tl + Len(hd) <= MaxReads /\ \A i \in 1..Len(hd) : hd[i] = tl + i
  BY DEF ReadsOK
<1> QED BY <1>1, OutCount

(* The reads of every link, and of one. *)
Pairs(f) == {p \in ReadLinks \X (1..MaxReads) : p[2] \in f[p[1]]}
PairsOf(f, l) == {l} \X f[l]

(* There are finitely many, and those of one link are as many as it has. *)
LEMMA PairsFinite ==
  ASSUME IsFiniteSet(ReadLinks), MaxReads \in Nat, NEW f, NEW l \in ReadLinks,
         f[l] \in SUBSET (1..MaxReads)
  PROVE  /\ IsFiniteSet(Pairs(f))
         /\ PairsOf(f, l) \subseteq Pairs(f)
         /\ Cardinality(PairsOf(f, l)) = Cardinality(f[l])
<1>1. IsFiniteSet(1..MaxReads)
  BY FS_Interval
<1>2. IsFiniteSet(ReadLinks \X (1..MaxReads))
  BY <1>1, FS_Product
<1>3. IsFiniteSet(Pairs(f))
  BY <1>2, FS_Subset DEF Pairs
<1>4. PairsOf(f, l) \subseteq Pairs(f)
  BY DEF PairsOf, Pairs
<1>5. IsFiniteSet(f[l]) /\ Cardinality(f[l]) \in Nat
  BY <1>1, FS_Subset, FS_CardinalityType
<1>6. IsFiniteSet({l}) /\ Cardinality({l}) = 1
  BY FS_Singleton
<1>7. Cardinality({l} \X f[l]) = 1 * Cardinality(f[l])
  BY <1>5, <1>6, FS_Product
<1> QED BY <1>3, <1>4, <1>5, <1>7 DEF PairsOf

(* When one link's reads change, the count changes as theirs does. *)
LEMMA PairsMove ==
  ASSUME IsFiniteSet(ReadLinks), MaxReads \in Nat, NEW f, NEW g, NEW l \in ReadLinks,
         f[l] \in SUBSET (1..MaxReads), g[l] \in SUBSET (1..MaxReads),
         \A k \in ReadLinks : k # l => g[k] = f[k]
  PROVE  Cardinality(Pairs(g)) = Cardinality(Pairs(f)) - Cardinality(f[l]) + Cardinality(g[l])
<1>1. Pairs(f) \ PairsOf(f, l) = Pairs(g) \ PairsOf(g, l)
  BY DEF Pairs, PairsOf
<1>2. IsFiniteSet(Pairs(f)) /\ PairsOf(f, l) \subseteq Pairs(f) /\ Cardinality(PairsOf(f, l)) = Cardinality(f[l])
  BY PairsFinite
<1>3. IsFiniteSet(Pairs(g)) /\ PairsOf(g, l) \subseteq Pairs(g) /\ Cardinality(PairsOf(g, l)) = Cardinality(g[l])
  BY PairsFinite
<1>4. Cardinality(Pairs(f) \ PairsOf(f, l)) = Cardinality(Pairs(f)) - Cardinality(Pairs(f) \cap PairsOf(f, l))
  BY <1>2, FS_Difference
<1>5. Cardinality(Pairs(g) \ PairsOf(g, l)) = Cardinality(Pairs(g)) - Cardinality(Pairs(g) \cap PairsOf(g, l))
  BY <1>3, FS_Difference
<1>6. Pairs(f) \cap PairsOf(f, l) = PairsOf(f, l) /\ Pairs(g) \cap PairsOf(g, l) = PairsOf(g, l)
  BY <1>2, <1>3
<1>7. IsFiniteSet(f[l]) /\ IsFiniteSet(g[l])
  BY FS_Interval, FS_Subset
<1>8. Cardinality(Pairs(f)) \in Nat /\ Cardinality(Pairs(g)) \in Nat
      /\ Cardinality(f[l]) \in Nat /\ Cardinality(g[l]) \in Nat
  BY <1>2, <1>3, <1>7, FS_CardinalityType
<1>9. Cardinality(Pairs(f)) - Cardinality(f[l]) = Cardinality(Pairs(g)) - Cardinality(g[l])
  BY <1>1, <1>2, <1>3, <1>4, <1>5, <1>6, Zenon
<1> QED BY <1>8, <1>9

Outs(hd, rd) == [l \in ReadLinks |-> OutOf(hd[l], rd[l])]

ReadsType ==
    /\ readLink \in [ReadLinks -> {"none", "live", "gone"}]
    /\ came \in [ReadLinks -> Nat] /\ coming \in [ReadLinks -> Nat]
    /\ held \in [ReadLinks -> Seq(Nat)]
    /\ reading \in [ReadLinks -> Nat] /\ told \in [ReadLinks -> Nat]
    /\ open \subseteq {l \in ReadLinks : readLink[l] = "live"}
    /\ closing \subseteq {l \in ReadLinks : l \notin open /\ readLink[l] # "none"}

LinkReadsOK(l) == ReadsOK(readLink[l], l \in paused, came[l], coming[l], held[l], reading[l], told[l])

(* Every link's reads are in order, and what is charged is their number. *)
ReadsInv ==
    /\ ReadsType
    /\ \A l \in ReadLinks : LinkReadsOK(l)
    /\ charged = Cardinality(Pairs(Outs(held, reading)))

(* A step that changes one link's reads, and charges the difference. *)
LEMMA ReadsMove ==
  ASSUME ReadsInv, NEW l \in ReadLinks,
         NEW st, NEW stopped \in BOOLEAN, NEW cm, NEW cg, NEW hd, NEW rd, NEW tl,
         ReadsOK(st, stopped, cm, cg, hd, rd, tl),
         readLink' = [readLink EXCEPT ![l] = st],
         l \in paused' <=> stopped,
         \A k \in ReadLinks : k # l => (k \in paused' <=> k \in paused),
         came' = [came EXCEPT ![l] = cm], coming' = [coming EXCEPT ![l] = cg],
         held' = [held EXCEPT ![l] = hd], reading' = [reading EXCEPT ![l] = rd],
         told' = [told EXCEPT ![l] = tl],
         open' \subseteq open \union {l}, l \in open' => st = "live" /\ (l \in open \/ readLink[l] = "none"),
         closing' = closing, st = "none" => readLink[l] = "none",
         charged' = charged - Many(held[l], reading[l]) + Many(hd, rd)
  PROVE  ReadsInv'
<1> DEFINE f == Outs(held, reading)
           g == Outs(held', reading')
<1>1. MaxReads \in Nat /\ IsFiniteSet(ReadLinks)
  BY LinkReadsAssumption
<1>2. ReadsType /\ LinkReadsOK(l)
  BY DEF ReadsInv
<1>3. st \in {"none", "live", "gone"} /\ cm \in Nat /\ cg \in Nat /\ hd \in Seq(Nat) /\ tl \in Nat /\ rd \in Nat
  BY DEF ReadsOK
<1>4. ReadsType'
  BY <1>2, <1>3 DEF ReadsType
<1>5. /\ readLink'[l] = st /\ came'[l] = cm /\ coming'[l] = cg /\ held'[l] = hd /\ reading'[l] = rd /\ told'[l] = tl
      /\ \A k \in ReadLinks : k # l =>
           /\ readLink'[k] = readLink[k] /\ came'[k] = came[k] /\ coming'[k] = coming[k]
           /\ held'[k] = held[k] /\ reading'[k] = reading[k] /\ told'[k] = told[k]
  BY <1>2 DEF ReadsType
<1>6. ASSUME NEW k \in ReadLinks PROVE LinkReadsOK(k)'
  <2>1. CASE k = l
    <3>1. (l \in paused') = stopped
      OBVIOUS
    <3> QED BY <1>5, <2>1, <3>1 DEF LinkReadsOK
  <2>2. CASE k # l
    <3>1. LinkReadsOK(k) /\ (k \in paused') = (k \in paused)
      BY <2>2 DEF ReadsInv
    <3> QED BY <1>5, <2>2, <3>1 DEF LinkReadsOK
  <2> QED BY <2>1, <2>2
<1>7. f[l] = OutOf(held[l], reading[l]) /\ g[l] = OutOf(hd, rd)
  BY <1>5 DEF Outs
<1>8. \A k \in ReadLinks : k # l => g[k] = f[k]
  BY <1>5 DEF Outs
<1>9. f[l] \in SUBSET (1..MaxReads) /\ Cardinality(f[l]) = Many(held[l], reading[l])
  BY <1>1, <1>2, <1>7, OutCountOK DEF LinkReadsOK
<1>10. g[l] \in SUBSET (1..MaxReads) /\ Cardinality(g[l]) = Many(hd, rd)
  <2>1. OutOf(hd, rd) \in SUBSET (1..MaxReads) /\ Cardinality(OutOf(hd, rd)) = Many(hd, rd)
    <3>1. /\ hd \in Seq(Nat) /\ tl \in Nat /\ rd \in {0, tl}
          /\ tl + Len(hd) <= MaxReads /\ \A i \in 1..Len(hd) : hd[i] = tl + i
      BY <1>1 DEF ReadsOK
    <3> QED BY <1>1, <3>1, OutCount
  <2> QED BY <1>7, <2>1
<1> HIDE DEF f, g
<1>11. Cardinality(Pairs(g)) = Cardinality(Pairs(f)) - Cardinality(f[l]) + Cardinality(g[l])
  BY <1>1, <1>8, <1>9, <1>10, PairsMove
<1>12. charged' = Cardinality(Pairs(g))
  BY <1>9, <1>10, <1>11 DEF ReadsInv, f
<1> QED BY <1>4, <1>6, <1>12 DEF ReadsInv, g

(* A step that leaves the reads alone. *)
LEMMA ReadsStay ==
  ASSUME ReadsInv, ReadsType', UNCHANGED <<came, held, reading, charged, told>>,
         \A l \in ReadLinks : coming'[l] \in {0, coming[l]} /\ (l \in paused' <=> l \in paused)
                              /\ (readLink'[l] = readLink[l] \/ readLink'[l] = "gone")
  PROVE  ReadsInv'
<1>1. ASSUME NEW l \in ReadLinks PROVE LinkReadsOK(l)'
  <2>1. LinkReadsOK(l)
    BY DEF ReadsInv
  <2>2. (l \in paused') = (l \in paused)
    OBVIOUS
  <2>3. readLink'[l] \in {"none", "live", "gone"}
    BY DEF ReadsType
  <2> DEFINE st == readLink[l]
             st1 == readLink'[l]
             stopped == l \in paused
             cg == coming[l]
             cg1 == coming'[l]
             cm == came[l]
             hd == held[l]
             rd == reading[l]
             tl == told[l]
  <2>4. st1 \in {st, "gone"} /\ cg1 \in {0, cg} /\ ReadsOK(st, stopped, cm, cg, hd, rd, tl)
    BY <2>1 DEF LinkReadsOK
  <2>5. MaxReads \in Int
    BY LinkReadsAssumption
  <2> HIDE DEF st, st1, stopped, cg, cg1, cm, hd, rd, tl
  <2>6. ReadsOK(st1, stopped, cm, cg1, hd, rd, tl)
    BY ONLY <2>4, <2>5 DEF ReadsOK
  <2> QED BY <2>2, <2>6 DEF LinkReadsOK, st1, stopped, cg1, cm, hd, rd, tl
<1> QED BY <1>1 DEF ReadsInv

(* What is unchanged is changed to itself. *)
LEMMA Itself ==
  ASSUME ReadsType, NEW l \in ReadLinks
  PROVE  /\ readLink = [readLink EXCEPT ![l] = readLink[l]] /\ came = [came EXCEPT ![l] = came[l]]
         /\ coming = [coming EXCEPT ![l] = coming[l]] /\ held = [held EXCEPT ![l] = held[l]]
         /\ reading = [reading EXCEPT ![l] = reading[l]] /\ told = [told EXCEPT ![l] = told[l]]
BY DEF ReadsType

(* What a read, a dispatch and the ends of reads make of one link's reads. *)
Onward(st, stopped, cm, cg, hd, rd, tl) ==
    /\ \A cm1 \in {cm, cm + 1} : cm1 <= MaxReads => ReadsOK("gone", stopped, cm1, 0, << >>, rd, tl)
    /\ st = "live" => \A cg1 \in Nat : cm + 1 + cg1 <= MaxReads =>
         IF rd = 0 /\ ~stopped THEN ReadsOK(st, stopped, cm + 1, cg1, hd, cm + 1, cm + 1)
         ELSE ReadsOK(st, stopped, cm + 1, cg1, Append(hd, cm + 1), rd, tl)
    /\ st # "none" /\ st # "live" => ReadsOK(st, stopped, cm, cg, << >>, 0, tl)
    /\ stopped => ReadsOK(st, stopped, cm, cg, hd, 0, tl)
    /\ st = "live" /\ hd # << >> => \A p \in BOOLEAN : ReadsOK(st, p, cm, cg, Tail(hd), Head(hd), Head(hd))
    /\ st = "live" /\ hd = << >> => \A p \in BOOLEAN : ReadsOK(st, p, cm, cg, hd, 0, tl)
    /\ st = "live" => ReadsOK(st, TRUE, cm, cg, hd, rd, tl)
    /\ st = "live" /\ rd # 0 => ReadsOK(st, FALSE, cm, cg, hd, rd, tl)
    /\ st = "none" => ReadsOK("live", FALSE, cm, cg, hd, rd, tl)
    /\ cm + cg < MaxReads => ReadsOK(st, stopped, cm, cg + 1, hd, rd, tl)

(* All of it in order. *)
LEMMA OneLinkReads ==
  ASSUME MaxReads \in Nat, NEW st, NEW stopped \in BOOLEAN, NEW cm, NEW cg, NEW hd, NEW rd, NEW tl,
         ReadsOK(st, stopped, cm, cg, hd, rd, tl)
  PROVE  Onward(st, stopped, cm, cg, hd, rd, tl)
<1>1. /\ st \in {"none", "live", "gone"} /\ cm \in Nat /\ cg \in Nat /\ hd \in Seq(Nat)
      /\ tl \in Nat /\ rd \in {0, tl} /\ Len(hd) \in Nat
      /\ cm + cg <= MaxReads
      /\ tl + Len(hd) <= cm
      /\ \A i \in 1..Len(hd) : hd[i] = tl + i
      /\ st = "live" => tl + Len(hd) = cm
      /\ st = "live" /\ rd = 0 /\ ~stopped => hd = << >>
      /\ st = "none" => cm = 0 /\ rd = 0 /\ ~stopped
  BY DEF ReadsOK
<1>2. << >> \in Seq(Nat) /\ Len(<< >>) = 0
  OBVIOUS
<1>3. ASSUME NEW cm1 \in {cm, cm + 1}, cm1 <= MaxReads PROVE ReadsOK("gone", stopped, cm1, 0, << >>, rd, tl)
  BY <1>1, <1>2, <1>3 DEF ReadsOK
<1>4. ASSUME st = "live", NEW cg1 \in Nat, cm + 1 + cg1 <= MaxReads
      PROVE  IF rd = 0 /\ ~stopped THEN ReadsOK(st, stopped, cm + 1, cg1, hd, cm + 1, cm + 1)
             ELSE ReadsOK(st, stopped, cm + 1, cg1, Append(hd, cm + 1), rd, tl)
  <2>1. CASE rd = 0 /\ ~stopped
    BY <1>1, <1>2, <1>4, <2>1 DEF ReadsOK
  <2>2. CASE ~(rd = 0 /\ ~stopped)
    <3> DEFINE h == Append(hd, cm + 1)
    <3>1. h \in Seq(Nat) /\ Len(h) = Len(hd) + 1 /\ \A i \in 1..Len(hd) : h[i] = hd[i]
      BY <1>1
    <3>2. h[Len(hd) + 1] = cm + 1
      BY <1>1
    <3> HIDE DEF h
    <3>3. ASSUME NEW i \in 1..Len(h) PROVE h[i] = tl + i
      <4>1. CASE i \in 1..Len(hd)
        BY <1>1, <3>1, <4>1
      <4>2. CASE i = Len(hd) + 1
        BY <1>1, <1>4, <3>2, <4>2
      <4> QED BY <1>1, <3>1, <4>1, <4>2
    <3>a. tl + Len(hd) = cm /\ tl \in Nat /\ Len(hd) \in Nat /\ Len(h) = Len(hd) + 1
      BY <1>1, <1>4, <3>1, Zenon
    <3>4. tl + Len(h) = cm + 1 /\ cm + 1 \in Nat /\ tl + Len(h) <= cm + 1
      BY ONLY <3>a
    <3>5. ReadsOK(st, stopped, cm + 1, cg1, h, rd, tl)
      BY <1>1, <1>4, <2>2, <3>1, <3>3, <3>4, Zenon DEF ReadsOK
    <3> QED BY <2>2, <3>5 DEF h
  <2> QED BY <2>1, <2>2
<1>5. st # "none" /\ st # "live" => ReadsOK(st, stopped, cm, cg, << >>, 0, tl)
  BY <1>1, <1>2 DEF ReadsOK
<1>6. stopped => ReadsOK(st, stopped, cm, cg, hd, 0, tl)
  BY <1>1 DEF ReadsOK
<1>7. ASSUME st = "live", hd # << >>, NEW p \in BOOLEAN PROVE ReadsOK(st, p, cm, cg, Tail(hd), Head(hd), Head(hd))
  <2> DEFINE h == Tail(hd)
             r == Head(hd)
  <2>1. h \in Seq(Nat) /\ Len(h) = Len(hd) - 1 /\ \A i \in 1..Len(h) : h[i] = hd[i + 1]
    BY <1>1, <1>7
  <2>2. r = tl + 1 /\ Len(hd) >= 1
    BY <1>1, <1>7
  <2> HIDE DEF h, r
  <2>3. \A i \in 1..Len(h) : h[i] = r + i
    BY <1>1, <2>1, <2>2
  <2>a. tl + Len(hd) = cm /\ tl \in Nat /\ Len(hd) \in Nat /\ Len(h) = Len(hd) - 1
    BY <1>1, <1>7, <2>1, Zenon
  <2>4. r + Len(h) = cm /\ r + Len(h) <= cm /\ r \in Nat /\ r # 0 /\ r \in {0, r}
    BY ONLY <2>2, <2>a
  <2>5. ReadsOK(st, p, cm, cg, h, r, r)
    BY <1>1, <1>7, <2>1, <2>3, <2>4, Zenon DEF ReadsOK
  <2> QED BY <2>5 DEF h, r
<1>8. ASSUME st = "live", hd = << >>, NEW p \in BOOLEAN PROVE ReadsOK(st, p, cm, cg, hd, 0, tl)
  BY <1>1, <1>8 DEF ReadsOK
<1>9. st = "live" => ReadsOK(st, TRUE, cm, cg, hd, rd, tl)
  BY <1>1 DEF ReadsOK
<1>10. st = "live" /\ rd # 0 => ReadsOK(st, FALSE, cm, cg, hd, rd, tl)
  BY <1>1 DEF ReadsOK
<1>11. st = "none" => ReadsOK("live", FALSE, cm, cg, hd, rd, tl)
  BY <1>1 DEF ReadsOK
<1>12. cm + cg < MaxReads => ReadsOK(st, stopped, cm, cg + 1, hd, rd, tl)
  BY <1>1 DEF ReadsOK
<1> HIDE DEF ReadsOK
<1> QED BY <1>3, <1>4, <1>5, <1>6, <1>7, <1>8, <1>9, <1>10, <1>11, <1>12 DEF Onward

(* A step changes one link's reads so. *)
MovesTo(l, st, stopped, cm, cg, hd, rd, tl) ==
    /\ ReadsOK(st, stopped, cm, cg, hd, rd, tl)
    /\ readLink' = [readLink EXCEPT ![l] = st]
    /\ l \in paused' <=> stopped
    /\ \A k \in ReadLinks : k # l => (k \in paused' <=> k \in paused)
    /\ came' = [came EXCEPT ![l] = cm] /\ coming' = [coming EXCEPT ![l] = cg]
    /\ held' = [held EXCEPT ![l] = hd] /\ reading' = [reading EXCEPT ![l] = rd]
    /\ told' = [told EXCEPT ![l] = tl]
    /\ open' \subseteq open \union {l} /\ (l \in open' => st = "live" /\ (l \in open \/ readLink[l] = "none"))
    /\ closing' = closing /\ (st = "none" => readLink[l] = "none")
    /\ charged' = charged - Many(held[l], reading[l]) + Many(hd, rd)

(* Such a step keeps the invariant. *)
LEMMA ReadsMoved ==
  ASSUME ReadsInv, NEW l \in ReadLinks,
         NEW st, NEW stopped \in BOOLEAN, NEW cm, NEW cg, NEW hd, NEW rd, NEW tl,
         MovesTo(l, st, stopped, cm, cg, hd, rd, tl)
  PROVE  ReadsInv'
BY ReadsMove DEF MovesTo

(* The numbers the charges are reckoned with. *)
LEMMA ChargedInt ==
  ASSUME ReadsInv, NEW l \in ReadLinks
  PROVE  /\ MaxReads \in Nat /\ ReadsType /\ LinkReadsOK(l)
         /\ charged \in Int /\ Len(held[l]) \in Nat /\ Many(held[l], reading[l]) \in Nat
         /\ Many(held[l], reading[l]) = Len(held[l]) + (IF reading[l] = 0 THEN 0 ELSE 1)
<1>1. MaxReads \in Nat /\ IsFiniteSet(ReadLinks)
  BY LinkReadsAssumption
<1>2. ReadsType /\ LinkReadsOK(l)
  BY DEF ReadsInv
<1>3. held[l] \in Seq(Nat)
  BY <1>2 DEF ReadsType
<1>4. Len(held[l]) \in Nat
  BY <1>3
<1>5. Outs(held, reading)[l] \in SUBSET (1..MaxReads)
  BY <1>1, <1>2, OutCountOK DEF LinkReadsOK, Outs
<1>6. IsFiniteSet(Pairs(Outs(held, reading)))
  BY <1>1, <1>5, PairsFinite
<1>7. charged \in Nat
  BY <1>6, FS_CardinalityType DEF ReadsInv
<1>8. Len(held[l]) + (IF reading[l] = 0 THEN 0 ELSE 1) \in Nat
  <2>1. CASE reading[l] = 0
    BY <1>4, <2>1
  <2>2. CASE reading[l] # 0
    BY <1>4, <2>2
  <2> QED BY <2>1, <2>2
<1>9. charged \in Int
  BY ONLY <1>7
<1> QED BY <1>1, <1>2, <1>4, <1>8, <1>9, Zenon DEF Many

(* Links come, and go with what they hold. *)
LEMMA LinkSteps ==
  ASSUME ReadsInv, NEW l \in ReadLinks,
         Register(l) \/ RemoteClose(l) \/ ReadRefused(l) \/ CloseLink(l) \/ ChannelClosed(l)
  PROVE  ReadsInv'
<1> DEFINE st == readLink[l]
           p == l \in paused
           cm == came[l]
           cg == coming[l]
           hd == held[l]
           rd == reading[l]
           tl == told[l]
<1>1. MaxReads \in Nat /\ ReadsType /\ ReadsOK(st, p, cm, cg, hd, rd, tl) /\ charged \in Int /\ Len(hd) \in Nat
      /\ Many(hd, rd) \in Nat /\ Many(hd, rd) = Len(hd) + (IF rd = 0 THEN 0 ELSE 1)
  BY ChargedInt DEF LinkReadsOK
<1>2. p \in BOOLEAN /\ Onward(st, p, cm, cg, hd, rd, tl)
  <2>1. p \in BOOLEAN
    OBVIOUS
  <2> HIDE DEF st, p, cm, cg, hd, rd, tl
  <2> QED BY <1>1, <2>1, OneLinkReads, Zenon
<1>3. /\ readLink = [readLink EXCEPT ![l] = st] /\ came = [came EXCEPT ![l] = cm]
      /\ coming = [coming EXCEPT ![l] = cg] /\ held = [held EXCEPT ![l] = hd]
      /\ reading = [reading EXCEPT ![l] = rd] /\ told = [told EXCEPT ![l] = tl]
  BY <1>1, Itself
<1>4. cm \in Nat /\ cg \in Nat /\ open \subseteq {k \in ReadLinks : readLink[k] = "live"}
  BY <1>1 DEF ReadsType
<1>5. CASE Register(l)
  <2>1. st = "none" /\ readLink' = [readLink EXCEPT ![l] = "live"] /\ open' = open \union {l}
        /\ paused' = paused /\ coming' = coming /\ came' = came /\ held' = held /\ reading' = reading
        /\ charged' = charged /\ told' = told /\ closing' = closing
    BY <1>5 DEF Register
  <2>2. ReadsOK("live", FALSE, cm, cg, hd, rd, tl) /\ ~p
    <3>1. ~p
      BY <1>1, <2>1 DEF ReadsOK
    <3> HIDE DEF st, p, cm, cg, hd, rd, tl
    <3> QED BY <1>2, <2>1, <3>1 DEF Onward
  <2>3. charged = charged - Many(hd, rd) + Many(hd, rd)
    <3> DEFINE n == Many(hd, rd)
    <3>1. n \in Nat
      BY <1>1
    <3> HIDE DEF n
    <3>2. charged = charged - n + n
      BY ONLY <1>1, <3>1
    <3> QED BY <3>2 DEF n
  <2>4. MovesTo(l, "live", FALSE, cm, cg, hd, rd, tl)
    BY <1>3, <2>1, <2>2, <2>3 DEF MovesTo
  <2> QED BY <2>4, ReadsMoved
<1>6. ASSUME NEW cm1 \in {cm, cm + 1}, cm1 <= MaxReads, came' = [came EXCEPT ![l] = cm1],
             Drops(l, charged), UNCHANGED <<closing, paused, reading, told>>
      PROVE  ReadsInv'
  <2>1. /\ readLink' = [readLink EXCEPT ![l] = "gone"] /\ open' = open \ {l}
        /\ coming' = [coming EXCEPT ![l] = 0] /\ held' = [held EXCEPT ![l] = << >>]
        /\ charged' = charged - Len(hd) /\ closing' = closing /\ paused' = paused /\ reading' = reading /\ told' = told
    BY <1>6 DEF Drops, DropHeld
  <2>2. ReadsOK("gone", p, cm1, 0, << >>, rd, tl)
    <3>1. cm1 \in {cm, cm + 1} /\ cm1 <= MaxReads
      BY <1>6
    <3> HIDE DEF st, p, cm, cg, hd, rd, tl
    <3> QED BY ONLY <1>2, <3>1, Zenon DEF Onward
  <2>3. charged' = charged - Many(hd, rd) + Many(<< >>, rd)
    <3>1. Many(<< >>, rd) = IF rd = 0 THEN 0 ELSE 1
      BY DEF Many
    <3> HIDE DEF hd, rd
    <3> QED BY <1>1, <2>1, <3>1
  <2>4. MovesTo(l, "gone", p, cm1, 0, << >>, rd, tl)
    BY <1>3, <1>6, <2>1, <2>2, <2>3 DEF MovesTo
  <2> QED BY <1>2, <2>4, ReadsMoved
<1>7. CASE RemoteClose(l)
  <2>1. cm <= MaxReads
    BY <1>1, <1>4 DEF ReadsOK
  <2> QED BY <1>3, <1>6, <1>7, <2>1 DEF RemoteClose
<1>8. CASE ReadRefused(l)
  <2>1. cm < MaxReads /\ came' = [came EXCEPT ![l] = cm + 1]
    BY <1>8 DEF ReadRefused, PlatformReads
  <2>2. cm + 1 <= MaxReads
    BY <1>1, <1>4, <2>1
  <2> QED BY <1>6, <1>8, <2>1, <2>2 DEF ReadRefused
<1>9. CASE CloseLink(l)
  <2>1. ReadsType'
    BY <1>1, <1>9 DEF CloseLink, ReadsType
  <2>2. \A k \in ReadLinks : coming'[k] \in {0, coming[k]}
    BY <1>1, <1>9 DEF CloseLink, ReadsType
  <2> QED BY <1>9, <2>1, <2>2, ReadsStay DEF CloseLink
<1>10. CASE ChannelClosed(l)
  <2>1. /\ readLink' = [readLink EXCEPT ![l] = "gone"] /\ paused' = paused /\ coming' = coming /\ came' = came
        /\ held' = held /\ reading' = reading /\ charged' = charged /\ told' = told /\ open' = open
        /\ l \in closing /\ closing' = closing \ {l}
    BY <1>10 DEF ChannelClosed
  <2>2. ReadsType'
    BY <1>1, <2>1 DEF ReadsType
  <2>3. \A k \in ReadLinks : coming'[k] \in {0, coming[k]} /\ (k \in paused' <=> k \in paused)
                            /\ (readLink'[k] = readLink[k] \/ readLink'[k] = "gone")
    BY <1>1, <2>1 DEF ReadsType
  <2> QED BY <2>1, <2>2, <2>3, ReadsStay
<1> QED BY <1>5, <1>7, <1>8, <1>9, <1>10

(* Reads come, are handed over and end. *)
LEMMA ReadSteps ==
  ASSUME ReadsInv, NEW l \in ReadLinks,
         TakeToken(l) \/ Read(l) \/ Settle(l) \/ Pause(l) \/ Unpause(l)
  PROVE  ReadsInv'
<1> DEFINE st == readLink[l]
           p == l \in paused
           cm == came[l]
           cg == coming[l]
           hd == held[l]
           rd == reading[l]
           tl == told[l]
<1>1. MaxReads \in Nat /\ ReadsType /\ ReadsOK(st, p, cm, cg, hd, rd, tl) /\ charged \in Int /\ Len(hd) \in Nat
      /\ Many(hd, rd) \in Nat /\ Many(hd, rd) = Len(hd) + (IF rd = 0 THEN 0 ELSE 1)
  BY ChargedInt DEF LinkReadsOK
<1>2. p \in BOOLEAN /\ Onward(st, p, cm, cg, hd, rd, tl)
  <2>1. p \in BOOLEAN
    OBVIOUS
  <2> HIDE DEF st, p, cm, cg, hd, rd, tl
  <2> QED BY <1>1, <2>1, OneLinkReads, Zenon
<1>3. /\ readLink = [readLink EXCEPT ![l] = st] /\ came = [came EXCEPT ![l] = cm]
      /\ coming = [coming EXCEPT ![l] = cg] /\ held = [held EXCEPT ![l] = hd]
      /\ reading = [reading EXCEPT ![l] = rd] /\ told = [told EXCEPT ![l] = tl]
  BY <1>1, Itself
<1>4. cm \in Nat /\ cg \in Nat /\ hd \in Seq(Nat) /\ open \subseteq {k \in ReadLinks : readLink[k] = "live"}
      /\ cm + cg <= MaxReads /\ rd \in Nat /\ tl \in Nat /\ st \in {"none", "live", "gone"}
      /\ (st = "none" => rd = 0)
  BY <1>1 DEF ReadsType, ReadsOK
<1>5. charged = charged - Many(hd, rd) + Many(hd, rd)
  <2> DEFINE n == Many(hd, rd)
  <2>1. n \in Nat
    BY <1>1
  <2> HIDE DEF n
  <2>2. charged = charged - n + n
    BY ONLY <1>1, <2>1
  <2> QED BY <2>2 DEF n
<1>6. CASE TakeToken(l)
  <2>1. /\ cm + cg < MaxReads /\ coming' = [coming EXCEPT ![l] = cg + 1]
        /\ readLink' = readLink /\ open' = open /\ closing' = closing /\ paused' = paused /\ came' = came
        /\ held' = held /\ reading' = reading /\ charged' = charged /\ told' = told
    BY <1>6 DEF TakeToken
  <2>2. ReadsOK(st, p, cm, cg + 1, hd, rd, tl)
    <3> HIDE DEF st, p, cm, cg, hd, rd, tl
    <3> QED BY ONLY <1>2, <2>1, Zenon DEF Onward
  <2>3. MovesTo(l, st, p, cm, cg + 1, hd, rd, tl)
    BY <1>3, <1>4, <1>5, <2>1, <2>2 DEF MovesTo
  <2> QED BY <1>2, <2>3, ReadsMoved
<1>7. CASE Read(l)
  <2> DEFINE cg1 == IF l \in Pausable THEN cg - 1 ELSE 0
  <2>1. /\ l \in open /\ (IF l \in Pausable THEN cg > 0 ELSE cm < MaxReads)
        /\ came' = [came EXCEPT ![l] = cm + 1] /\ coming' = [coming EXCEPT ![l] = cg1]
        /\ charged' = charged + 1
        /\ readLink' = readLink /\ open' = open /\ closing' = closing /\ paused' = paused
    BY <1>7 DEF Read, PlatformReads
  <2>2. came'[l] = cm + 1 /\ st = "live"
    BY <1>1, <1>4, <2>1 DEF ReadsType
  <2>3. cg1 \in Nat /\ cm + 1 + cg1 <= MaxReads
    BY <1>1, <1>4, <2>1
  <2>4. IF rd = 0 /\ ~p THEN ReadsOK(st, p, cm + 1, cg1, hd, cm + 1, cm + 1)
        ELSE ReadsOK(st, p, cm + 1, cg1, Append(hd, cm + 1), rd, tl)
    <3> HIDE DEF st, p, cm, cg, hd, rd, tl, cg1
    <3> QED BY ONLY <1>2, <2>2, <2>3, Zenon DEF Onward
  <2>5. CASE rd = 0 /\ ~p
    <3>1. /\ reading' = [reading EXCEPT ![l] = cm + 1] /\ told' = [told EXCEPT ![l] = cm + 1] /\ held' = held
      BY <1>7, <2>2, <2>5 DEF Read, Direct, Dispatch
    <3>2. charged' = charged - Many(hd, rd) + Many(hd, cm + 1)
      <4>1. Many(hd, rd) = Len(hd) /\ Many(hd, cm + 1) = Len(hd) + 1
        <5>1. cm + 1 # 0
          BY <1>4
        <5> HIDE DEF hd, rd, cm
        <5> QED BY <1>1, <2>5, <5>1, ManyIs
      <4> HIDE DEF hd, rd, cm
      <4> QED BY <1>1, <2>1, <4>1
    <3>3. MovesTo(l, st, p, cm + 1, cg1, hd, cm + 1, cm + 1)
      BY <1>3, <1>4, <2>1, <2>2, <2>4, <2>5, <3>1, <3>2 DEF MovesTo
    <3> QED BY <1>2, <3>3, ReadsMoved
  <2>6. CASE ~(rd = 0 /\ ~p)
    <3>1. /\ held' = [held EXCEPT ![l] = Append(hd, cm + 1)] /\ reading' = reading /\ told' = told
      BY <1>7, <2>2, <2>6 DEF Read, Direct
    <3>2. charged' = charged - Many(hd, rd) + Many(Append(hd, cm + 1), rd)
      <4>1. Len(Append(hd, cm + 1)) = Len(hd) + 1
        BY <1>4
      <4>2. Many(Append(hd, cm + 1), rd) = Many(hd, rd) + 1
        <5> DEFINE h == Append(hd, cm + 1)
        <5>1. Len(h) = Len(hd) + 1 /\ Len(h) \in Nat
          BY <1>1, <4>1
        <5> HIDE DEF hd, rd, cm, h
        <5>2. Many(h, rd) = Many(hd, rd) + 1
          BY <1>1, <5>1, ManyIs
        <5> QED BY <5>2 DEF h
      <4> HIDE DEF hd, rd, cm
      <4> QED BY <1>1, <2>1, <4>2
    <3>3. MovesTo(l, st, p, cm + 1, cg1, Append(hd, cm + 1), rd, tl)
      BY <1>3, <1>4, <2>1, <2>2, <2>4, <2>6, <3>1, <3>2 DEF MovesTo
    <3> QED BY <1>2, <3>3, ReadsMoved
  <2> QED BY <2>5, <2>6
<1>8. ASSUME rd # 0 PROVE Many(hd, rd) = Len(hd) + 1 /\ Many(hd, 0) = Len(hd) /\ Many(<< >>, 0) = 0
  BY <1>8 DEF Many
<1>9. CASE SettleGone(l)
  <2>1. /\ rd # 0 /\ st # "live"
        /\ reading' = [reading EXCEPT ![l] = 0] /\ held' = [held EXCEPT ![l] = << >>]
        /\ charged' = charged - 1 - Len(hd)
        /\ readLink' = readLink /\ open' = open /\ closing' = closing /\ paused' = paused
        /\ coming' = coming /\ came' = came /\ told' = told
    BY <1>9 DEF SettleGone, DropHeld, Released
  <2>2. ReadsOK(st, p, cm, cg, << >>, 0, tl)
    <3>1. st # "none"
      BY <1>4, <2>1
    <3> HIDE DEF st, p, cm, cg, hd, rd, tl
    <3> QED BY ONLY <1>2, <2>1, <3>1, Zenon DEF Onward
  <2>3. charged' = charged - Many(hd, rd) + Many(<< >>, 0)
    <3>1. Many(hd, rd) = Len(hd) + 1 /\ Many(<< >>, 0) = 0
      BY <1>8, <2>1
    <3> HIDE DEF hd, rd
    <3> QED BY <1>1, <2>1, <3>1
  <2>4. MovesTo(l, st, p, cm, cg, << >>, 0, tl)
    BY <1>3, <1>4, <2>1, <2>2, <2>3 DEF MovesTo
  <2> QED BY <1>2, <2>4, ReadsMoved
<1>10. CASE SettlePaused(l)
  <2>1. /\ rd # 0 /\ p
        /\ reading' = [reading EXCEPT ![l] = 0] /\ charged' = charged - 1
        /\ readLink' = readLink /\ open' = open /\ closing' = closing /\ paused' = paused
        /\ coming' = coming /\ came' = came /\ told' = told /\ held' = held
    BY <1>10 DEF SettlePaused, Released, GoesOn
  <2>2. ReadsOK(st, p, cm, cg, hd, 0, tl)
    <3> HIDE DEF st, p, cm, cg, hd, rd, tl
    <3> QED BY ONLY <1>2, <2>1, Zenon DEF Onward
  <2>3. charged' = charged - Many(hd, rd) + Many(hd, 0)
    <3>1. Many(hd, rd) = Len(hd) + 1 /\ Many(hd, 0) = Len(hd)
      BY <1>8, <2>1
    <3> HIDE DEF hd, rd
    <3> QED BY <1>1, <2>1, <3>1
  <2>4. MovesTo(l, st, p, cm, cg, hd, 0, tl)
    BY <1>3, <1>4, <2>1, <2>2, <2>3 DEF MovesTo
  <2> QED BY <1>2, <2>4, ReadsMoved
<1>11. ASSUME hd # << >> PROVE Many(Tail(hd), Head(hd)) = Len(hd)
  <2>1. Len(Tail(hd)) = Len(hd) - 1 /\ Head(hd) = tl + 1
    <3>1. \A i \in 1..Len(hd) : hd[i] = tl + i
      BY <1>1 DEF ReadsOK
    <3> QED BY <1>4, <1>11, <3>1
  <2>2. Head(hd) # 0
    BY <1>4, <2>1
  <2>3. Many(Tail(hd), Head(hd)) = (Len(hd) - 1) + 1
    BY <2>1, <2>2, Zenon DEF Many
  <2> HIDE DEF hd
  <2> QED BY <1>1, <2>3
<1>12. ASSUME st = "live", NEW q \in BOOLEAN
       PROVE  /\ hd # << >> => ReadsOK(st, q, cm, cg, Tail(hd), Head(hd), Head(hd))
              /\ hd = << >> => ReadsOK(st, q, cm, cg, hd, 0, tl)
              /\ ReadsOK(st, TRUE, cm, cg, hd, rd, tl)
              /\ rd # 0 => ReadsOK(st, FALSE, cm, cg, hd, rd, tl)
  <2> HIDE DEF st, p, cm, cg, hd, rd, tl
  <2> QED BY ONLY <1>2, <1>12, Zenon DEF Onward
<1>13. CASE SettleNext(l)
  <2>1. /\ rd # 0 /\ st = "live" /\ ~p /\ charged' = charged - 1
        /\ readLink' = readLink /\ open' = open /\ closing' = closing /\ paused' = paused
        /\ coming' = coming /\ came' = came
    BY <1>13 DEF SettleNext, Released, GoesOn
  <2>2. CASE hd # << >>
    <3>1. /\ reading' = [reading EXCEPT ![l] = Head(hd)] /\ told' = [told EXCEPT ![l] = Head(hd)]
          /\ held' = [held EXCEPT ![l] = Tail(hd)]
      BY <1>13, <2>2 DEF SettleNext, DispatchHeld, Dispatch
    <3>2. charged' = charged - Many(hd, rd) + Many(Tail(hd), Head(hd))
      <4>1. Many(hd, rd) = Len(hd) + 1 /\ Many(Tail(hd), Head(hd)) = Len(hd)
        BY <1>8, <1>11, <2>1, <2>2
      <4> HIDE DEF hd, rd
      <4> QED BY <1>1, <2>1, <4>1
    <3>3. ReadsOK(st, p, cm, cg, Tail(hd), Head(hd), Head(hd))
      BY <1>2, <1>12, <2>1, <2>2
    <3>4. MovesTo(l, st, p, cm, cg, Tail(hd), Head(hd), Head(hd))
      BY <1>3, <1>4, <2>1, <3>1, <3>2, <3>3 DEF MovesTo
    <3> QED BY <1>2, <3>4, ReadsMoved
  <2>3. CASE hd = << >>
    <3>1. /\ reading' = [reading EXCEPT ![l] = 0] /\ told' = told /\ held' = held
      BY <1>13, <2>3 DEF SettleNext
    <3>2. charged' = charged - Many(hd, rd) + Many(hd, 0)
      <4>1. Many(hd, rd) = Len(hd) + 1 /\ Many(hd, 0) = Len(hd)
        BY <1>8, <2>1
      <4> HIDE DEF hd, rd
      <4> QED BY <1>1, <2>1, <4>1
    <3>3. ReadsOK(st, p, cm, cg, hd, 0, tl)
      BY <1>2, <1>12, <2>1, <2>3
    <3>4. MovesTo(l, st, p, cm, cg, hd, 0, tl)
      BY <1>3, <1>4, <2>1, <3>1, <3>2, <3>3 DEF MovesTo
    <3> QED BY <1>2, <3>4, ReadsMoved
  <2> QED BY <2>2, <2>3
<1>14. CASE Pause(l)
  <2>1. /\ st = "live" /\ paused' = paused \union {l}
        /\ readLink' = readLink /\ open' = open /\ closing' = closing /\ coming' = coming /\ came' = came
        /\ held' = held /\ reading' = reading /\ charged' = charged /\ told' = told
    BY <1>14 DEF Pause
  <2>2. MovesTo(l, st, TRUE, cm, cg, hd, rd, tl)
    BY <1>3, <1>4, <1>5, <1>12, <2>1 DEF MovesTo
  <2> QED BY <2>2, ReadsMoved
<1>15. CASE Unpause(l)
  <2>1. /\ st = "live" /\ p /\ paused' = paused \ {l}
        /\ readLink' = readLink /\ open' = open /\ closing' = closing /\ coming' = coming /\ came' = came
    BY <1>15 DEF Unpause
  <2>2. charged' = charged
    BY <1>15 DEF Unpause
  <2>3. CASE rd # 0
    <3>1. held' = held /\ reading' = reading /\ told' = told
      BY <1>15, <2>3 DEF Unpause
    <3>2. MovesTo(l, st, FALSE, cm, cg, hd, rd, tl)
      BY <1>3, <1>4, <1>5, <1>12, <2>1, <2>2, <2>3, <3>1 DEF MovesTo
    <3> QED BY <3>2, ReadsMoved
  <2>4. CASE rd = 0 /\ hd # << >>
    <3>1. /\ reading' = [reading EXCEPT ![l] = Head(hd)] /\ told' = [told EXCEPT ![l] = Head(hd)]
          /\ held' = [held EXCEPT ![l] = Tail(hd)]
      BY <1>15, <2>4 DEF Unpause, DispatchHeld, Dispatch
    <3>2. charged' = charged - Many(hd, rd) + Many(Tail(hd), Head(hd))
      <4>1. Many(hd, rd) = Len(hd) /\ Many(Tail(hd), Head(hd)) = Len(hd)
        BY <1>1, <1>11, <2>4
      <4> HIDE DEF hd, rd
      <4> QED BY <1>1, <2>2, <4>1
    <3>3. ReadsOK(st, FALSE, cm, cg, Tail(hd), Head(hd), Head(hd))
      BY <1>12, <2>1, <2>4
    <3>4. MovesTo(l, st, FALSE, cm, cg, Tail(hd), Head(hd), Head(hd))
      BY <1>3, <1>4, <2>1, <3>1, <3>2, <3>3 DEF MovesTo
    <3> QED BY <3>4, ReadsMoved
  <2>5. CASE rd = 0 /\ hd = << >>
    <3>1. held' = held /\ reading' = reading /\ told' = told
      BY <1>15, <2>5 DEF Unpause
    <3>2. ReadsOK(st, FALSE, cm, cg, hd, rd, tl)
      BY <1>12, <2>1, <2>5
    <3>3. MovesTo(l, st, FALSE, cm, cg, hd, rd, tl)
      BY <1>3, <1>4, <1>5, <2>1, <2>2, <3>1, <3>2 DEF MovesTo
    <3> QED BY <3>3, ReadsMoved
  <2> QED BY <2>3, <2>4, <2>5
<1> QED BY <1>6, <1>7, <1>9, <1>10, <1>13, <1>14, <1>15 DEF Settle

(* Every step keeps the reads in order and their number charged. *)
LEMMA ReadsStep ==
  ASSUME ReadsInv, [ReadsNext]_readVars
  PROVE  ReadsInv'
<1>1. ReadsType
  BY DEF ReadsInv
<1>2. ASSUME Activate \/ Unbind PROVE ReadsInv'
  <2>1. /\ readLink' = [l \in ReadLinks |-> IF readLink[l] = "live" THEN "gone" ELSE readLink[l]]
        /\ open' = {} /\ coming' = [l \in ReadLinks |-> 0]
        /\ UNCHANGED <<closing, paused, came, held, reading, charged, told>>
    BY <1>2 DEF Activate, Unbind, LiveLinks
  <2>2. ReadsType'
    BY <1>1, <2>1 DEF ReadsType
  <2>3. \A l \in ReadLinks : coming'[l] \in {0, coming[l]} /\ (l \in paused' <=> l \in paused)
                             /\ (readLink'[l] = readLink[l] \/ readLink'[l] = "gone")
    BY <2>1
  <2> QED BY <2>1, <2>2, <2>3, ReadsStay
<1>3. CASE UNCHANGED readVars
  <2>1. /\ ReadsType' /\ UNCHANGED <<readLink, coming, paused, came, held, reading, charged, told>>
    BY <1>1, <1>3 DEF readVars, ReadsType
  <2> QED BY <2>1, ReadsStay
<1>4. ASSUME NEW l \in ReadLinks,
             Register(l) \/ RemoteClose(l) \/ ReadRefused(l) \/ CloseLink(l) \/ ChannelClosed(l)
      PROVE  ReadsInv'
  BY <1>4, LinkSteps
<1>5. ASSUME NEW l \in ReadLinks,
             TakeToken(l) \/ Read(l) \/ Settle(l) \/ Pause(l) \/ Unpause(l)
      PROVE  ReadsInv'
  BY <1>5, ReadSteps
<1> QED BY <1>2, <1>3, <1>4, <1>5 DEF ReadsNext

(* No link has a read to begin with. *)
LEMMA ReadsStart == ReadsInit => ReadsInv
<1> SUFFICES ASSUME ReadsInit PROVE ReadsInv
  OBVIOUS
<1>1. /\ readLink = [l \in ReadLinks |-> "none"] /\ open = {} /\ closing = {} /\ paused = {}
      /\ coming = [l \in ReadLinks |-> 0] /\ came = [l \in ReadLinks |-> 0] /\ held = [l \in ReadLinks |-> << >>]
      /\ reading = [l \in ReadLinks |-> 0] /\ charged = 0 /\ told = [l \in ReadLinks |-> 0]
  BY DEF ReadsInit
<1>2. MaxReads \in Nat
  BY LinkReadsAssumption
<1>3. << >> \in Seq(Nat) /\ Len(<< >>) = 0
  OBVIOUS
<1>4. ReadsType
  BY <1>1, <1>3 DEF ReadsType
<1>5. ReadsOK("none", FALSE, 0, 0, << >>, 0, 0)
  BY <1>2, <1>3 DEF ReadsOK
<1>6. ASSUME NEW l \in ReadLinks PROVE LinkReadsOK(l)
  <2>1. (l \in paused) = FALSE
    BY <1>1
  <2> QED BY <1>1, <1>5, <2>1 DEF LinkReadsOK
<1>7. Pairs(Outs(held, reading)) = {}
  <2>1. OutOf(<< >>, 0) = {}
    BY DEF OutOf, Range
  <2> QED BY <1>1, <2>1 DEF Pairs, Outs
<1> QED BY <1>1, <1>4, <1>6, <1>7, FS_EmptySet DEF ReadsInv

(* What is held of a live link is what follows the read last handed over,  *)
(* and the budget is charged with what the driver and the realm have.      *)
LEMMA ReadsKeep == ReadsInv => ReadsKept
<1> SUFFICES ASSUME ReadsInv PROVE ReadsKept
  OBVIOUS
<1>1. ReadsType
  BY DEF ReadsInv
<1>2. Pairs(Outs(held, reading)) = {p \in ReadLinks \X (1..MaxReads) : p[2] \in Outstanding(p[1])}
  BY DEF Pairs, Outs, OutOf, Outstanding
<1>3. charged = Cardinality({p \in ReadLinks \X (1..MaxReads) : p[2] \in Outstanding(p[1])})
  BY <1>2, LinkReadsAssumption DEF ReadsInv
<1>4. ASSUME NEW l \in ReadLinks, readLink[l] = "live"
      PROVE  held[l] = [i \in 1..(came[l] - told[l]) |-> told[l] + i]
  <2> DEFINE hd == held[l]
             tl == told[l]
             cm == came[l]
  <2>1. hd \in Seq(Nat) /\ tl \in Nat /\ cm \in Nat /\ tl + Len(hd) = cm /\ \A i \in 1..Len(hd) : hd[i] = tl + i
    BY <1>4 DEF ReadsInv, LinkReadsOK, ReadsOK
  <2> HIDE DEF hd, tl, cm
  <2>2. cm - tl = Len(hd)
    BY <2>1
  <2>3. hd = [i \in 1..Len(hd) |-> hd[i]]
    BY <2>1
  <2>4. hd = [i \in 1..(cm - tl) |-> tl + i]
    BY <2>1, <2>2, <2>3
  <2> QED BY <2>4 DEF hd, tl, cm
<1> QED BY <1>3, <1>4 DEF ReadsKept

(* No read is lost, repeated, out of order or wrongly charged, however     *)
(* many links there are, whatever the budget, and whichever way reads end: *)
(* settled, held behind a pause, dropped with their link or with the       *)
(* occupant (dispatchRead, releaseActive, dropHeld).                       *)
THEOREM ReadsHold == ReadsSpec => []ReadsKept
<1>1. ReadsInit => ReadsInv
  BY ReadsStart
<1>2. ReadsInv /\ [ReadsNext]_readVars => ReadsInv'
  BY ReadsStep
<1>3. ReadsInv => ReadsKept
  BY ReadsKeep
<1> QED BY <1>1, <1>2, <1>3, PTL DEF ReadsSpec
=============================================================================
