-------------------------- MODULE UdpStreamProofs ---------------------------
(***************************************************************************)
(* Proofs about UdpStream: whatever is written, lost, repeated, reordered, *)
(* split or timed out, for every window, credit and bound, each step of    *)
(* the two ends is a step of the byte stream ByteStream promises, or does  *)
(* not touch it; and a graceful close that drained has left every byte     *)
(* with the other end.                                                     *)
(***************************************************************************)
EXTENDS UdpStream, SetLemmas, SequenceTheorems, TLAPS

-----------------------------------------------------------------------------
(* The inductive invariant.  It says nothing of packet numbers, windows,   *)
(* timers or credit: a stream that gets those wrong is slow or stops, and  *)
(* is still a byte stream.                                                 *)

IsSeq(q) == \E M : q \in Seq(M)

(* A DATA packet carries bytes that have been written. *)
MsgOK(m, w) == /\ m.type \in {"DATA", "PROBE"} => m.to = "r"
               /\ m.type = "DATA" => m.offset \in Nat /\ m.len \in Nat /\ m.offset + m.len <= w
               /\ m.type = "ACK" => m.to = "s" /\ m.credit \in Int
MsgsOK(q, w) == \E M : q \in Seq(M) /\ \A m \in M : MsgOK(m, w)

(* Chunks, by their offset, of the first w bytes. *)
ChunksOK(c, w) == \A o \in DOMAIN c : o \in Nat /\ c[o] \in Nat /\ o + c[o] <= w

SenderFields == {"written", "nextOffset", "chunks", "lost", "inFlight", "nextPn", "peerCredit", "packetBytes",
                 "closing", "gone", "drained", "emitted"}
SenderOK(x) ==
    /\ SenderFields \subseteq DOMAIN x
    /\ x.written \in Nat /\ x.nextOffset \in Nat /\ x.nextOffset <= x.written
    /\ ChunksOK(x.chunks, x.nextOffset)
    /\ x.nextPn \in Nat /\ x.peerCredit \in Int /\ x.packetBytes \in {1, 2}
    /\ IsSeq(x.lost)
    /\ MsgsOK(x.emitted, x.written)

(* What a step of the writing end that writes nothing leads to. *)
Goes(x, y) == SenderOK(y) /\ y.written = x.written

-----------------------------------------------------------------------------
(* Sequences.                                                              *)

(* A sequence with one more element is one. *)
LEMMA AppendSeq ==
    ASSUME NEW q, NEW e, IsSeq(q)
    PROVE  IsSeq(Append(q, e))
<1>1. PICK M : q \in Seq(M)
  BY DEF IsSeq
<1>2. q \in Seq(M \union {e})
  BY <1>1
<1>3. Append(q, e) \in Seq(M \union {e})
  BY <1>2
<1> QED
  BY <1>3 DEF IsSeq

(* So is what is left of one. *)
LEMMA SubSeqSeq ==
    ASSUME NEW q, NEW i \in Nat \ {0}, IsSeq(q)
    PROVE  IsSeq(SubSeq(q, i, Len(q)))
<1>1. PICK M : q \in Seq(M)
  BY DEF IsSeq
<1>2. Len(q) \in Nat
  BY <1>1
<1>3. \A k \in i..Len(q) : q[k] \in M
  BY <1>1
<1>4. SubSeq(q, i, Len(q)) \in Seq(M)
  BY <1>1, <1>2, <1>3
<1> QED
  BY <1>4 DEF IsSeq

(* Messages sent one after the other. *)
LEMMA AppendMsg ==
    ASSUME NEW q, NEW w, NEW m, MsgsOK(q, w), MsgOK(m, w)
    PROVE  MsgsOK(Append(q, m), w)
<1>1. PICK M : q \in Seq(M) /\ \A d \in M : MsgOK(d, w)
  BY DEF MsgsOK
<1>2. q \in Seq(M \union {m})
  BY <1>1
<1>3. Append(q, m) \in Seq(M \union {m})
  BY <1>2
<1>4. \A d \in M \union {m} : MsgOK(d, w)
  BY <1>1
<1> QED
  BY <1>3, <1>4 DEF MsgsOK

(* Messages sent together. *)
LEMMA ConcatMsgs ==
    ASSUME NEW q, NEW p, NEW w, MsgsOK(q, w), MsgsOK(p, w)
    PROVE  MsgsOK(q \o p, w)
<1>1. PICK M : q \in Seq(M) /\ \A d \in M : MsgOK(d, w)
  BY DEF MsgsOK
<1>2. PICK N : p \in Seq(N) /\ \A d \in N : MsgOK(d, w)
  BY DEF MsgsOK
<1>3. q \in Seq(M \union N) /\ p \in Seq(M \union N)
  BY <1>1, <1>2
<1>4. q \o p \in Seq(M \union N)
  BY <1>3
<1>5. \A d \in M \union N : MsgOK(d, w)
  BY <1>1, <1>2
<1> QED
  BY <1>4, <1>5 DEF MsgsOK

(* More bytes written take no message back. *)
LEMMA MoreMsgs ==
    ASSUME NEW q, NEW w \in Nat, NEW v \in Nat, w <= v, MsgsOK(q, w)
    PROVE  MsgsOK(q, v)
<1>1. PICK M : q \in Seq(M) /\ \A d \in M : MsgOK(d, w)
  BY DEF MsgsOK
<1>2. \A d \in M : MsgOK(d, v)
  BY <1>1 DEF MsgOK
<1> QED
  BY <1>1, <1>2 DEF MsgsOK

(* No messages. *)
LEMMA NoMsgs ==
    ASSUME NEW w
    PROVE  MsgsOK(<< >>, w) /\ IsSeq(<< >>)
<1> DEFINE N == {}
<1>1. << >> \in Seq(N) /\ \A d \in N : MsgOK(d, w)
  OBVIOUS
<1> HIDE DEF N
<1> QED
  BY <1>1 DEF MsgsOK, IsSeq

(* One message, once or three times. *)
LEMMA FewMsgs ==
    ASSUME NEW w, NEW m, MsgOK(m, w)
    PROVE  MsgsOK(<<m>>, w) /\ MsgsOK(<<m, m, m>>, w) /\ MsgsOK([k \in 1..3 |-> m], w)
<1>1. <<m>> \in Seq({m}) /\ <<m, m, m>> \in Seq({m})
  OBVIOUS
<1>2. [k \in 1..3 |-> m] \in Seq({m})
  BY SeqDef
<1>3. ASSUME NEW q \in Seq({m}) PROVE MsgsOK(q, w)
  <2>1. \A d \in {m} : MsgOK(d, w)
    OBVIOUS
  <2> QED
    BY <2>1 DEF MsgsOK
<1> QED
  BY <1>1, <1>2, <1>3

-----------------------------------------------------------------------------
(* The writing end.                                                        *)

(* A map of chunks, with one more. *)
LEMMA PutChunk ==
    ASSUME NEW c, NEW w, NEW o \in Nat, NEW n \in Nat, o + n <= w, ChunksOK(c, w)
    PROVE  ChunksOK(Put(c, o, n), w)
<1> DEFINE d == Put(c, o, n)
<1>1. DOMAIN d = DOMAIN c \union {o} /\ d[o] = n /\ \A j \in DOMAIN c : j # o => d[j] = c[j]
  BY DEF Put
<1> HIDE DEF d
<1>2. ASSUME NEW j \in DOMAIN d PROVE j \in Nat /\ d[j] \in Nat /\ j + d[j] <= w
  <2>1. CASE j = o
    BY <1>1, <2>1
  <2>2. CASE j # o
    <3>1. j \in DOMAIN c /\ d[j] = c[j]
      BY <1>1, <1>2, <2>2
    <3> QED
      BY <3>1 DEF ChunksOK
  <2> QED
    BY <2>1, <2>2
<1> QED
  BY <1>2 DEF ChunksOK, d

(* A chunk split in two is the same bytes (fit). *)
LEMMA FitOK ==
    ASSUME NEW x, NEW o, SenderOK(x), o \in DOMAIN x.chunks
    PROVE  Goes(x, fit(x, o)) /\ o \in DOMAIN fit(x, o).chunks
<1> DEFINE p == x.packetBytes
           n == x.chunks[o]
           c1 == Put(x.chunks, o + p, n - p)
           c == Put(c1, o, p)
           l == Append(x.lost, o + p)
           y == [[x EXCEPT !.chunks = c] EXCEPT !.lost = l]
<1>1. CASE n <= p
  BY <1>1 DEF fit, Goes
<1>2. CASE ~(n <= p)
  <2>1. o \in Nat /\ n \in Nat /\ p \in Nat /\ o + n <= x.nextOffset /\ p < n
    BY <1>2 DEF SenderOK, ChunksOK
  <2>2. ChunksOK(c1, x.nextOffset)
    <3>1. o + p \in Nat /\ n - p \in Nat /\ (o + p) + (n - p) <= x.nextOffset
      BY <2>1 DEF SenderOK
    <3>2. ChunksOK(x.chunks, x.nextOffset)
      BY DEF SenderOK
    <3> DEFINE oo == o + p
               nn == n - p
    <3>3. oo \in Nat /\ nn \in Nat /\ oo + nn <= x.nextOffset
      BY <3>1
    <3> HIDE DEF oo, nn
    <3>4. ChunksOK(Put(x.chunks, oo, nn), x.nextOffset)
      BY <3>2, <3>3, PutChunk
    <3> QED
      BY <3>4 DEF oo, nn
  <2>3. ChunksOK(c, x.nextOffset)
    <3>1. o \in Nat /\ p \in Nat /\ o + p <= x.nextOffset
      BY <2>1 DEF SenderOK
    <3> HIDE DEF n, p, c1
    <3> QED
      BY <3>1, <2>2, PutChunk
  <2>4. IsSeq(l)
    BY AppendSeq DEF SenderOK
  <2>5. o \in DOMAIN c
    BY DEF Put
  <2>6. fit(x, o) = y
    BY <1>2 DEF fit, FitUnqueued
  <2> HIDE DEF c, l
  <2>7. SenderOK(y) /\ y.written = x.written /\ y.chunks = c
    BY <2>3, <2>4 DEF SenderOK, SenderFields
  <2> QED
    BY <2>5, <2>6, <2>7 DEF Goes
<1> QED
  BY <1>1, <1>2

(* A packet with a chunk of the sender's carries what has been written. *)
LEMMA SendChunkOK ==
    ASSUME NEW x, NEW o, SenderOK(x), o \in DOMAIN x.chunks
    PROVE  Goes(x, sendChunk(x, o))
<1> DEFINE m == Data(x.nextPn, o, x.chunks[o], Min({x.oldestPn} \union ToSet(x.probes)))
           f == Put(x.inFlight, x.nextPn, o)
           q == Append(x.emitted, m)
           y == [[[x EXCEPT !.nextPn = @ + 1] EXCEPT !.inFlight = f] EXCEPT !.emitted = q]
<1>1. MsgOK(m, x.written)
  BY DEF MsgOK, Data, SenderOK, ChunksOK
<1> HIDE DEF m
<1>2. MsgsOK(q, x.written)
  BY <1>1, AppendMsg DEF SenderOK
<1>3. sendChunk(x, o) = y
  BY DEF sendChunk, m
<1> HIDE DEF f, q
<1>4. SenderOK(y) /\ y.written = x.written
  BY <1>2 DEF SenderOK, SenderFields
<1> QED
  BY <1>3, <1>4 DEF Goes

(* What nextChunk chooses is a chunk of the sender's, cut from what has    *)
(* been written.                                                           *)
Chooses(x, next) == Goes(x, next.x) /\ (~(next.offset < 0) => next.offset \in DOMAIN next.x.chunks)
(* nextChunk keeps the sender well formed and chooses one of its chunks. *)
LEMMA NextChunkOK ==
    ASSUME NEW x, NEW probe, SenderOK(x)
    PROVE  Chooses(x, nextChunk(x, probe))
<1> DEFINE live == {i \in 1..Len(x.lost) : x.lost[i] \in DOMAIN x.chunks}
           first == x.lost[Min(live)]
           a == x.written - x.nextOffset
           b == x.peerCredit - x.nextOffset
           n == Min({a, x.packetBytes, b})
           none == [x EXCEPT !.lost = << >>]
           next == nextChunk(x, probe)
<1>1. Len(x.lost) \in Nat
  BY DEF SenderOK, IsSeq
<1>2. SenderOK(none) /\ none.written = x.written /\ none.chunks = x.chunks /\ none.nextOffset = x.nextOffset
  <2>1. IsSeq(<< >>)
    BY DEF IsSeq
  <2> QED
    BY <2>1 DEF SenderOK, SenderFields
<1>3. CASE live # {}
  <2>1. live \in SUBSET Nat
    BY <1>1
  <2>2. Min(live) \in live
    BY <2>1, <1>3, MinNat
  <2> DEFINE l == SubSeq(x.lost, Min(live) + 1, Len(x.lost))
             y == [x EXCEPT !.lost = l]
  <2>3. first \in DOMAIN x.chunks /\ Min(live) + 1 \in Nat \ {0}
    BY <2>1, <2>2
  <2>4. next.x = fit(y, first) /\ next.offset = first
    BY <1>3 DEF nextChunk
  <2> HIDE DEF live, first, next
  <2>5. IsSeq(l)
    BY <2>3, SubSeqSeq DEF SenderOK
  <2> HIDE DEF l
  <2>6. SenderOK(y) /\ y.written = x.written /\ y.chunks = x.chunks
    BY <2>5 DEF SenderOK, SenderFields
  <2> HIDE DEF y
  <2>7. Goes(y, fit(y, first)) /\ first \in DOMAIN fit(y, first).chunks
    BY <2>3, <2>6, FitOK
  <2>8. Chooses(x, next)
    BY <2>4, <2>6, <2>7 DEF Goes, Chooses
  <2> QED
    BY <2>8 DEF next
<1>4. CASE live = {} /\ n > 0
  <2>1. a \in Int /\ b \in Int /\ x.packetBytes \in Int
    BY DEF SenderOK
  <2>2. n \in Int /\ n <= a
    <3> HIDE DEF a, b
    <3>1. n \in {a, x.packetBytes, b} /\ n <= a
      BY <2>1, MinThree
    <3> QED
      BY <2>1, <3>1
  <2> DEFINE c == Put(x.chunks, x.nextOffset, n)
             e == x.nextOffset + n
             y == [[none EXCEPT !.chunks = c] EXCEPT !.nextOffset = e]
  <2>3. next.x = y /\ next.offset = x.nextOffset
    BY <1>2, <1>4 DEF nextChunk
  <2> HIDE DEF n, live, next, none
  <2>4. n \in Nat /\ e \in Nat /\ e <= x.written /\ x.nextOffset <= e /\ x.nextOffset \in Nat
    BY <1>4, <2>1, <2>2 DEF SenderOK
  <2>5. ChunksOK(x.chunks, e)
    BY <2>4 DEF SenderOK, ChunksOK
  <2>6. ChunksOK(c, e)
    <3>1. x.nextOffset + n <= e
      BY <2>4
    <3> HIDE DEF e
    <3> QED
      BY <2>4, <2>5, <3>1, PutChunk
  <2>7. x.nextOffset \in DOMAIN c
    BY DEF Put
  <2> HIDE DEF c, e
  <2>8. SenderOK(y) /\ y.written = x.written /\ y.chunks = c
    BY <1>2, <2>4, <2>6 DEF SenderOK, SenderFields
  <2>9. Chooses(x, next)
    BY <2>3, <2>7, <2>8 DEF Goes, Chooses
  <2> QED
    BY <2>9 DEF next
<1>5. CASE live = {} /\ ~(n > 0) /\ probe /\ DOMAIN x.chunks # {}
  <2>1. oldestChunk(x) \in DOMAIN x.chunks
    <3>1. DOMAIN x.chunks \in SUBSET Nat
      BY DEF SenderOK, ChunksOK
    <3> QED
      BY <1>5, <3>1, MinNat DEF oldestChunk
  <2>2. next.x = fit(none, oldestChunk(x)) /\ next.offset = oldestChunk(x)
    BY <1>5 DEF nextChunk
  <2> HIDE DEF n, live, next, none
  <2>3. Goes(none, fit(none, oldestChunk(x))) /\ oldestChunk(x) \in DOMAIN fit(none, oldestChunk(x)).chunks
    BY <2>1, <1>2, FitOK
  <2>4. Chooses(x, next)
    BY <1>2, <2>2, <2>3 DEF Goes, Chooses
  <2> QED
    BY <2>4 DEF next
<1>6. CASE live = {} /\ ~(n > 0) /\ ~(probe /\ DOMAIN x.chunks # {})
  <2>1. next.x = none /\ next.offset = -1
    BY <1>6 DEF nextChunk
  <2> HIDE DEF n, live, next, none
  <2>2. Chooses(x, next)
    BY <1>2, <2>1 DEF Goes, Chooses
  <2> QED
    BY <2>2 DEF next
<1> QED
  BY <1>3, <1>4, <1>5, <1>6

(* So does one turn of flush. *)
LEMMA SendsOneOK ==
    ASSUME NEW x, NEW probe, NEW w, SenderOK(x)
    PROVE  Goes(x, SendsOne(x, probe, w))
<1> DEFINE next == nextChunk(x, probe)
<1>1. Chooses(x, next)
  BY NextChunkOK
<1>2. SendsOne(x, probe, w) \in {x, next.x} \/ (~(next.offset < 0) /\ SendsOne(x, probe, w) = sendChunk(next.x, next.offset))
  BY DEF SendsOne
<1> HIDE DEF next
<1>3. Goes(x, x) /\ Goes(x, next.x) /\ SenderOK(next.x)
  BY <1>1 DEF Goes, Chooses
<1>4. ASSUME ~(next.offset < 0) PROVE Goes(x, sendChunk(next.x, next.offset))
  <2>1. next.offset \in DOMAIN next.x.chunks
    BY <1>1, <1>4 DEF Chooses
  <2>2. Goes(next.x, sendChunk(next.x, next.offset))
    BY <1>3, <2>1, SendChunkOK
  <2> QED
    BY <1>3, <2>2 DEF Goes
<1> QED
  BY <1>2, <1>3, <1>4

(* The turns of flush, and their recursion: there is one such function. *)
Turns(x, probes, w, N, f) ==
    f = [k \in 0..N |-> IF k = 0 THEN x
                        ELSE CHOOSE z \in {SendsOne(y, k <= probes, w) : y \in {f[k - 1]}} : TRUE]
(* There is such a function for any number of turns. *)
LEMMA TurnsExist ==
    ASSUME NEW x, NEW probes, NEW w, NEW N \in Nat
    PROVE  \E f : Turns(x, probes, w, N, f)
<1> DEFINE T == {n \in 0..N : \E f : Turns(x, probes, w, n, f)}
<1>1. 0 \in T
  <2> DEFINE f == [k \in 0..0 |-> x]
  <2>1. Turns(x, probes, w, 0, f)
    BY DEF Turns
  <2> HIDE DEF f
  <2> QED
    BY <2>1
<1>2. ASSUME NEW n \in 1..N, n - 1 \in T PROVE n \in T
  <2>1. PICK f : Turns(x, probes, w, n - 1, f)
    BY <1>2
  <2> DEFINE last == CHOOSE z \in {SendsOne(y, n <= probes, w) : y \in {f[n - 1]}} : TRUE
             g == [k \in 0..n |-> IF k = n THEN last ELSE f[k]]
             h(k) == IF k = 0 THEN x ELSE CHOOSE z \in {SendsOne(y, k <= probes, w) : y \in {g[k - 1]}} : TRUE
  <2>2. ASSUME NEW k \in 0..n PROVE g[k] = h(k)
    <3>1. CASE k = n
      <4>1. g[k - 1] = f[n - 1] /\ k # 0 /\ g[k] = last
        BY <3>1
      <4> QED
        BY <3>1, <4>1
    <3>2. CASE k # n
      <4>1. k \in 0..(n - 1) /\ g[k] = f[k] /\ (k # 0 => g[k - 1] = f[k - 1])
        BY <3>2
      <4>2. f[k] = IF k = 0 THEN x ELSE CHOOSE z \in {SendsOne(y, k <= probes, w) : y \in {f[k - 1]}} : TRUE
        BY <2>1, <4>1 DEF Turns
      <4> HIDE DEF g
      <4> QED
        BY <4>1, <4>2
    <3> QED
      BY <3>1, <3>2
  <2>3. g = [k \in 0..n |-> g[k]]
    OBVIOUS
  <2> HIDE DEF g
  <2>4. g = [k \in 0..n |-> h(k)]
    BY <2>2, <2>3
  <2>5. Turns(x, probes, w, n, g)
    BY <2>4 DEF Turns
  <2> QED
    BY <2>5
<1> HIDE DEF T
<1>3. \A n \in 0..N : n \in T
  BY <1>1, <1>2, UpTo
<1> QED
  BY <1>3 DEF T

(* However many packets a window and its probes allow, they carry what has *)
(* been written.                                                           *)
LEMMA FlushOK ==
    ASSUME NEW x, NEW probes, NEW w, SenderOK(x)
    PROVE  Goes(x, flush(x, probes, w))
<1> DEFINE N == Total + 2
           sent == CHOOSE f : Turns(x, probes, w, N, f)
<1>1. N \in Nat
  BY StreamAssumption
<1>2. Turns(x, probes, w, N, sent)
  <2> HIDE DEF N
  <2> QED
    BY <1>1, TurnsExist
<1>3. flush(x, probes, w) = IF x.gone THEN x ELSE sent[N]
  BY DEF flush, Turns
<1> HIDE DEF sent, N
<1> DEFINE T == {k \in 0..N : Goes(x, sent[k])}
<1>4. 0 \in T
  <2>1. sent[0] = x
    BY <1>1, <1>2 DEF Turns
  <2> QED
    BY <1>1, <2>1 DEF Goes
<1>5. ASSUME NEW k \in 1..N, k - 1 \in T PROVE k \in T
  <2> DEFINE y == sent[k - 1]
  <2>1. sent[k] = CHOOSE z \in {SendsOne(u, k <= probes, w) : u \in {y}} : TRUE
    BY <1>1, <1>2 DEF Turns
  <2> HIDE DEF y
  <2>2. sent[k] = SendsOne(y, k <= probes, w)
    BY <2>1
  <2>3. Goes(x, y)
    BY <1>5 DEF y
  <2>4. Goes(y, sent[k])
    BY <2>2, <2>3, SendsOneOK DEF Goes
  <2> QED
    BY <2>3, <2>4 DEF Goes
<1> HIDE DEF T
<1>6. \A k \in 0..N : k \in T
  BY <1>1, <1>4, <1>5, UpTo
<1>7. Goes(x, sent[N])
  BY <1>1, <1>6 DEF T
<1>8. Goes(x, x)
  BY DEF Goes
<1> QED
  BY <1>3, <1>7, <1>8

(* The queue of lost chunks, packet by packet, is a sequence (detectLoss). *)
Queues(x, gone, N, f) ==
    f = [pn \in 0..N |-> IF pn = 0 THEN x.lost ELSE Requeue(x, gone, f[pn - 1], pn - 1)]
(* There is such a queue for any number of packets. *)
LEMMA QueuesExist ==
    ASSUME NEW x, NEW gone, NEW N \in Nat
    PROVE  \E f : Queues(x, gone, N, f)
<1> DEFINE T == {n \in 0..N : \E f : Queues(x, gone, n, f)}
<1>1. 0 \in T
  <2> DEFINE f == [k \in 0..0 |-> x.lost]
  <2>1. Queues(x, gone, 0, f)
    BY DEF Queues
  <2> HIDE DEF f
  <2> QED
    BY <2>1
<1>2. ASSUME NEW n \in 1..N, n - 1 \in T PROVE n \in T
  <2>1. PICK f : Queues(x, gone, n - 1, f)
    BY <1>2
  <2> DEFINE g == [k \in 0..n |-> IF k = n THEN Requeue(x, gone, f[n - 1], n - 1) ELSE f[k]]
             h(k) == IF k = 0 THEN x.lost ELSE Requeue(x, gone, g[k - 1], k - 1)
  <2>2. ASSUME NEW k \in 0..n PROVE g[k] = h(k)
    <3>1. CASE k = n
      <4>1. g[k - 1] = f[n - 1] /\ k # 0 /\ g[k] = Requeue(x, gone, f[n - 1], n - 1)
        BY <3>1
      <4> QED
        BY <3>1, <4>1
    <3>2. CASE k # n
      <4>1. k \in 0..(n - 1) /\ g[k] = f[k] /\ (k # 0 => g[k - 1] = f[k - 1])
        BY <3>2
      <4>2. f[k] = IF k = 0 THEN x.lost ELSE Requeue(x, gone, f[k - 1], k - 1)
        BY <2>1, <4>1 DEF Queues
      <4> HIDE DEF g
      <4> QED
        BY <4>1, <4>2
    <3> QED
      BY <3>1, <3>2
  <2>3. g = [k \in 0..n |-> g[k]]
    OBVIOUS
  <2> HIDE DEF g
  <2>4. g = [k \in 0..n |-> h(k)]
    BY <2>2, <2>3
  <2>5. Queues(x, gone, n, g)
    BY <2>4 DEF Queues
  <2> QED
    BY <2>5
<1> HIDE DEF T
<1>3. \A n \in 0..N : n \in T
  BY <1>1, <1>2, UpTo
<1> QED
  BY <1>3 DEF T

(* What it holds is looked up before it is used, so no more is asked of it. *)
LEMMA RequeuesSeq ==
    ASSUME NEW x, NEW gone, SenderOK(x)
    PROVE  IsSeq(Requeues(x, gone))
<1> DEFINE N == x.nextPn
           queue == CHOOSE f : Queues(x, gone, N, f)
           T == {k \in 0..N : IsSeq(queue[k])}
<1>1. N \in Nat
  BY DEF SenderOK
<1>2. Queues(x, gone, N, queue)
  <2> HIDE DEF N
  <2> QED
    BY <1>1, QueuesExist
<1>3. Requeues(x, gone) = queue[N]
  BY DEF Requeues, Queues
<1> HIDE DEF queue, N
<1>4. 0 \in T
  <2>1. queue[0] = x.lost
    BY <1>1, <1>2 DEF Queues
  <2> QED
    BY <1>1, <2>1 DEF SenderOK
<1>5. ASSUME NEW k \in 1..N, k - 1 \in T PROVE k \in T
  <2> DEFINE q == queue[k - 1]
  <2>1. queue[k] = Requeue(x, gone, q, k - 1)
    BY <1>1, <1>2 DEF Queues
  <2>2. IsSeq(q)
    BY <1>5
  <2> HIDE DEF q
  <2>3. IsSeq(queue[k])
    BY <2>1, <2>2, AppendSeq DEF Requeue
  <2> QED
    BY <2>3
<1> HIDE DEF T
<1>6. \A k \in 0..N : k \in T
  BY <1>1, <1>4, <1>5, UpTo
<1> QED
  BY <1>1, <1>3, <1>6 DEF T

(* What is called lost is still there to send (detectLoss). *)
LEMMA DetectLossOK ==
    ASSUME NEW x, NEW aged, SenderOK(x)
    PROVE  Goes(x, detectLoss(x, aged))
<1> DEFINE gone == {pn \in Passed(x) : x.largestAcked - pn >= 3 \/ pn \in aged}
           l == Requeues(x, gone)
           f == Restrict(x.inFlight, DOMAIN x.inFlight \ gone)
           y == [[x EXCEPT !.lost = l] EXCEPT !.inFlight = f]
           o == Min(DOMAIN y.inFlight \union {y.nextPn})
           z == [y EXCEPT !.oldestPn = o]
<1>1. IsSeq(l)
  BY RequeuesSeq
<1>2. detectLoss(x, aged) = z
  BY DEF detectLoss, advanceOldest
<1> HIDE DEF l, f, o
<1>3. SenderOK(y) /\ y.written = x.written
  BY <1>1 DEF SenderOK, SenderFields
<1> HIDE DEF y
<1>4. SenderOK(z) /\ z.written = y.written
  BY <1>3 DEF SenderOK, SenderFields
<1> QED
  BY <1>2, <1>3, <1>4 DEF Goes

(* Packet-size probes carry nothing (sendProbe, startProbe, probeAcked). *)
LEMMA ProbesOK ==
    ASSUME NEW x, NEW seen, SenderOK(x)
    PROVE  /\ Goes(x, sendProbe(x)) /\ Goes(x, startProbe(x))
           /\ Goes(x, probeAcked(x, seen)) /\ Goes(x, Reprobes(x))
<1>1. ASSUME NEW y, SenderOK(y) PROVE Goes(y, sendProbe(y))
  <2> DEFINE q == Append(y.emitted, Probe(y.nextPn))
             b == Append(y.probes, y.nextPn)
             z == [[[y EXCEPT !.nextPn = @ + 1] EXCEPT !.probes = b] EXCEPT !.emitted = q]
  <2>1. MsgOK(Probe(y.nextPn), y.written)
    BY DEF MsgOK, Probe
  <2>2. MsgsOK(q, y.written)
    BY <1>1, <2>1, AppendMsg DEF SenderOK
  <2>3. sendProbe(y) \in {y, [y EXCEPT !.probes = << >>], z}
    BY DEF sendProbe
  <2> HIDE DEF q, b
  <2>4. Goes(y, z)
    BY <1>1, <2>2 DEF SenderOK, SenderFields, Goes
  <2>5. Goes(y, y) /\ Goes(y, [y EXCEPT !.probes = << >>])
    BY <1>1 DEF SenderOK, SenderFields, Goes
  <2> QED
    BY <2>3, <2>4, <2>5
<1>2. ASSUME NEW y, SenderOK(y) PROVE Goes(y, startProbe(y))
  <2> DEFINE z == [y EXCEPT !.probes = << >>]
  <2>1. Goes(y, z)
    BY <1>2 DEF SenderOK, SenderFields, Goes
  <2> HIDE DEF z
  <2>2. Goes(z, sendProbe(z))
    BY <1>1, <2>1 DEF Goes
  <2> QED
    BY <2>1, <2>2 DEF startProbe, z, Goes
<1>3. Goes(x, probeAcked(x, seen))
  <2>1. Goes(x, [[x EXCEPT !.probes = << >>] EXCEPT !.packetBytes = 2])
    BY DEF SenderOK, SenderFields, Goes
  <2> QED
    BY <2>1 DEF probeAcked, Goes
<1>4. Goes(x, Reprobes(x))
  <2> DEFINE z == [x EXCEPT !.reprobe = FALSE]
  <2>1. Goes(x, z) /\ Goes(x, x)
    BY DEF SenderOK, SenderFields, Goes
  <2>2. Reprobes(x) \in {x, startProbe(z)}
    BY DEF Reprobes
  <2> HIDE DEF z
  <2>3. Goes(z, startProbe(z))
    BY <1>2, <2>1 DEF Goes
  <2> QED
    BY <2>1, <2>2, <2>3 DEF Goes
<1> QED
  BY <1>1, <1>2, <1>3, <1>4

(* Ends send their CLOSEs and stop. *)
LEMMA EndOK ==
    ASSUME NEW x, NEW to, SenderOK(x)
    PROVE  Goes(x, fail(x)) /\ Goes(x, end(x, to))
<1> DEFINE c == [k \in 1..3 |-> Close(to)]
           q == x.emitted \o c
           y == [x EXCEPT !.emitted = q]
<1>1. ASSUME NEW z, SenderOK(z) PROVE Goes(z, fail(z))
  BY <1>1 DEF fail, SenderOK, SenderFields, Goes
<1>2. MsgOK(Close(to), x.written)
  BY DEF MsgOK, Close
<1>3. MsgsOK(c, x.written)
  BY <1>2, FewMsgs
<1> HIDE DEF c
<1>4. MsgsOK(q, x.written)
  BY <1>3, ConcatMsgs DEF SenderOK
<1>5. end(x, to) = fail(y)
  BY DEF end, sendClose, c
<1> HIDE DEF q
<1>6. SenderOK(y) /\ y.written = x.written
  BY <1>4 DEF SenderOK, SenderFields
<1> QED
  BY <1>1, <1>5, <1>6 DEF Goes

(* What an ACK tells the writing end takes chunks away and adds none. *)
LEMMA AckedOK ==
    ASSUME NEW x, NEW m, SenderOK(x), m.credit \in Int
    PROVE  Goes(x, Acked(x, m))
<1> DEFINE acked == DOMAIN x.inFlight \intersect m.seen
           k == Max({x.peerCredit, m.credit})
           f == Restrict(x.inFlight, DOMAIN x.inFlight \ acked)
           c == Restrict(x.chunks, DOMAIN x.chunks \ {x.inFlight[pn] : pn \in acked})
           p == IF acked = {} THEN x.ptoCount ELSE 0
           y == [[[[x EXCEPT !.peerCredit = k] EXCEPT !.inFlight = f] EXCEPT !.chunks = c] EXCEPT !.ptoCount = p]
           a == probeAcked(y, m.seen)
           g == Max({a.largestAcked, Min({Max(m.seen), x.nextPn - 1})})
           b == [a EXCEPT !.largestAcked = g]
           o == Min(DOMAIN b.inFlight \union {b.nextPn})
           z == [b EXCEPT !.oldestPn = o]
<1>1. k \in Int
  <2>1. k \in {x.peerCredit, m.credit}
    BY MaxTwo DEF SenderOK
  <2> QED
    BY <2>1 DEF SenderOK
<1>2. ChunksOK(c, x.nextOffset)
  BY DEF SenderOK, ChunksOK, Restrict
<1>3. Acked(x, m) \in {y, z}
  BY DEF Acked, advanceOldest
<1> HIDE DEF k, f, c, p, g, o, a
<1>4. SenderOK(y) /\ y.written = x.written
  BY <1>1, <1>2 DEF SenderOK, SenderFields
<1> HIDE DEF y
<1>5. SenderOK(a) /\ a.written = y.written
  BY <1>4, ProbesOK DEF a, Goes
<1>6. SenderOK(b) /\ b.written = a.written
  BY <1>5 DEF SenderOK, SenderFields
<1> HIDE DEF b
<1>7. SenderOK(z) /\ z.written = b.written
  BY <1>6 DEF SenderOK, SenderFields
<1> QED
  BY <1>3, <1>4, <1>5, <1>6, <1>7 DEF Goes

(* A graceful close that has drained, or what the window now allows. *)
LEMMA EndsDrainedOK ==
    ASSUME NEW x, NEW w, SenderOK(x)
    PROVE  Goes(x, EndsDrained(x, w))
<1> DEFINE y == [x EXCEPT !.drained = TRUE]
<1>1. SenderOK(y) /\ y.written = x.written
  BY DEF SenderOK, SenderFields
<1>2. EndsDrained(x, w) \in {end(y, "r"), flush(x, 0, w)}
  BY DEF EndsDrained
<1> HIDE DEF y
<1>3. Goes(y, end(y, "r"))
  BY <1>1, EndOK
<1>4. Goes(x, flush(x, 0, w))
  BY FlushOK
<1> QED
  BY <1>1, <1>2, <1>3, <1>4 DEF Goes

(* What a timeout or a moved path starts over. *)
LEMMA StartsOverOK ==
    ASSUME NEW x, NEW n, SenderOK(x)
    PROVE  /\ Goes(x, [x EXCEPT !.closing = TRUE]) /\ Goes(x, [x EXCEPT !.drained = TRUE])
           /\ Goes(x, [DropsBack(x) EXCEPT !.ptoCount = n])
           /\ Goes(x, [x EXCEPT !.ptoCount = 0, !.packetBytes = 1, !.reprobe = FALSE])
<1>1. Goes(x, [x EXCEPT !.closing = TRUE]) /\ Goes(x, [x EXCEPT !.drained = TRUE])
  BY DEF SenderOK, SenderFields, Goes
<1>2. Goes(x, [x EXCEPT !.ptoCount = 0, !.packetBytes = 1, !.reprobe = FALSE])
  BY DEF SenderOK, SenderFields, Goes
<1>3. Goes(x, DropsBack(x))
  <2>1. Goes(x, [[x EXCEPT !.packetBytes = 1] EXCEPT !.reprobe = TRUE]) /\ Goes(x, x)
    BY DEF SenderOK, SenderFields, Goes
  <2> QED
    BY <2>1 DEF DropsBack
<1>4. \A y : SenderOK(y) => Goes(y, [y EXCEPT !.ptoCount = n])
  BY DEF SenderOK, SenderFields, Goes
<1> QED
  BY <1>1, <1>2, <1>3, <1>4 DEF Goes

-----------------------------------------------------------------------------
(* The reading end.                                                        *)

(* What is in order follows on from what the reader was handed, byte by    *)
(* byte, and all of it, like the chunks past the gap, has been written.    *)
Held(taken, held, w) ==
    /\ IsSeq(held)
    /\ \A k \in 1..Len(held) : held[k].byte = taken + k
    /\ taken + Len(held) <= w
ReceiverFields == {"reading", "taken", "held", "ahead", "furthest", "turnDue", "seen", "credit", "gone", "got",
                   "emitted"}
Lives(y, w) ==
    /\ y.taken \in Nat
    /\ Held(y.taken, y.held, w)
    /\ ChunksOK(y.ahead, w)
    /\ y.credit \in Int
    /\ y.got = [k \in 1..y.taken |-> k]
ReceiverOK(y, w) ==
    /\ ReceiverFields \subseteq DOMAIN y
    /\ y.gone \in BOOLEAN
    /\ ~y.gone => Lives(y, w)
    /\ MsgsOK(y.emitted, w)

(* What a step of the reading end leads to: nothing the reader sees, its   *)
(* end, or the bytes that follow the last ones handed over.                *)
Same(y, z, w) == ReceiverOK(z, w) /\ z.got = y.got /\ z.gone = y.gone
Stops(y, z, w) == ReceiverOK(z, w) /\ z.got = y.got /\ ~y.gone /\ z.gone
Hands(y, z, w) == /\ ReceiverOK(z, w) /\ ~y.gone /\ z.gone = y.gone
                  /\ \E n \in Nat : z.got = [k \in 1..n |-> k] /\ Len(y.got) < n /\ n <= w

(* An ACK of the reading end. *)
LEMMA SendAckOK ==
    ASSUME NEW y, NEW w, ReceiverOK(y, w)
    PROVE  Same(y, sendAck(y), w)
<1> DEFINE k == y.taken + y.credit
           ack == Ack(k, y.seen)
           e == IF k > y.advertised /\ y.furthest >= y.advertised THEN <<ack, ack, ack>> ELSE <<ack>>
           q == y.emitted \o e
           z == [[[y EXCEPT !.unacked = FALSE] EXCEPT !.advertised = k] EXCEPT !.emitted = q]
<1>1. CASE y.gone
  BY <1>1 DEF sendAck, Same
<1>2. CASE ~y.gone
  <2>1. k \in Int
    BY <1>2 DEF ReceiverOK, Lives
  <2>2. MsgOK(ack, w)
    BY <2>1 DEF MsgOK, Ack
  <2> HIDE DEF ack
  <2>3. MsgsOK(e, w)
    BY <2>2, FewMsgs
  <2>4. sendAck(y) = z
    BY <1>2 DEF sendAck, ack
  <2> HIDE DEF e
  <2>5. MsgsOK(q, w)
    BY <2>3, ConcatMsgs DEF ReceiverOK
  <2> HIDE DEF q, k
  <2>6. /\ ReceiverFields \subseteq DOMAIN z /\ z.gone = y.gone /\ z.emitted = q
        /\ z.taken = y.taken /\ z.held = y.held /\ z.ahead = y.ahead /\ z.credit = y.credit /\ z.got = y.got
    BY DEF ReceiverOK, ReceiverFields
  <2> QED
    BY <1>2, <2>4, <2>5, <2>6 DEF Same, ReceiverOK, Lives
<1> QED
  BY <1>1, <1>2

(* Only what the reader is handed, and what follows it, counts. *)
Like(y, z) == /\ ReceiverFields \subseteq DOMAIN z /\ z.gone = y.gone /\ z.emitted = y.emitted
              /\ z.taken = y.taken /\ z.held = y.held /\ z.ahead = y.ahead /\ z.credit = y.credit /\ z.got = y.got
(* A receiver alike in those is the same to its reader. *)
LEMMA LikeSame ==
    ASSUME NEW y, NEW z, NEW w, ReceiverOK(y, w), Like(y, z)
    PROVE  Same(y, z, w)
BY DEF Same, ReceiverOK, Lives, Like

(* A packet is noted, and acked at once if it is out of order. *)
LEMMA ReceivedOK ==
    ASSUME NEW y, NEW pn, NEW w, ReceiverOK(y, w)
    PROVE  /\ Same(y, received(y, pn), w)
           /\ LET z == received(y, pn)
              IN z.taken = y.taken /\ z.held = y.held /\ z.ahead = y.ahead
<1> DEFINE sn == Newest(y.seen \union {pn})
           noted == [[y EXCEPT !.seen = sn] EXCEPT !.turnDue = TRUE]
           later == [noted EXCEPT !.unacked = TRUE]
<1>1. received(y, pn) \in {sendAck(noted), later}
  BY DEF received
<1> HIDE DEF sn
<1>2. Like(y, noted)
  BY DEF Like, ReceiverOK, ReceiverFields
<1> HIDE DEF noted
<1>3. Like(y, later)
  BY <1>2 DEF Like, ReceiverFields
<1>4. Same(y, noted, w) /\ Same(y, later, w)
  BY <1>2, <1>3, LikeSame
<1>5. Same(noted, sendAck(noted), w)
  BY <1>4, SendAckOK DEF Same
<1>6. LET z == sendAck(noted) IN z.taken = noted.taken /\ z.held = noted.held /\ z.ahead = noted.ahead
  BY <1>2 DEF sendAck, Like, ReceiverFields
<1> QED
  BY <1>1, <1>2, <1>3, <1>4, <1>5, <1>6 DEF Same, Like

(* Where the bytes in order end, chunk by chunk (the loop of onChunk). *)
Walks(ahead, from, N, f) ==
    f = [k \in 0..N |-> IF k = 0 THEN from
                        ELSE IF f[k - 1] \in DOMAIN ahead THEN f[k - 1] + ahead[f[k - 1]]
                        ELSE f[k - 1]]
Step(ahead, e) == IF e \in DOMAIN ahead THEN e + ahead[e] ELSE e
(* There is such a walk for any number of steps. *)
LEMMA WalksExist ==
    ASSUME NEW ahead, NEW from, NEW N \in Nat
    PROVE  \E f : Walks(ahead, from, N, f)
<1> DEFINE T == {n \in 0..N : \E f : Walks(ahead, from, n, f)}
<1>1. 0 \in T
  <2> DEFINE f == [k \in 0..0 |-> from]
  <2>1. Walks(ahead, from, 0, f)
    BY DEF Walks
  <2> HIDE DEF f
  <2> QED
    BY <2>1
<1>2. ASSUME NEW n \in 1..N, n - 1 \in T PROVE n \in T
  <2>1. PICK f : Walks(ahead, from, n - 1, f)
    BY <1>2
  <2> DEFINE g == [k \in 0..n |-> IF k = n THEN Step(ahead, f[n - 1]) ELSE f[k]]
             h(k) == IF k = 0 THEN from ELSE Step(ahead, g[k - 1])
  <2>2. ASSUME NEW k \in 0..n PROVE g[k] = h(k)
    <3>1. CASE k = n
      <4>1. g[k - 1] = f[n - 1] /\ k # 0 /\ g[k] = Step(ahead, f[n - 1])
        BY <3>1
      <4> QED
        BY <3>1, <4>1
    <3>2. CASE k # n
      <4>1. k \in 0..(n - 1) /\ g[k] = f[k] /\ (k # 0 => g[k - 1] = f[k - 1])
        BY <3>2
      <4>2. f[k] = IF k = 0 THEN from ELSE Step(ahead, f[k - 1])
        BY <2>1, <4>1 DEF Walks, Step
      <4> HIDE DEF g
      <4> QED
        BY <4>1, <4>2
    <3> QED
      BY <3>1, <3>2
  <2>3. g = [k \in 0..n |-> g[k]]
    OBVIOUS
  <2> HIDE DEF g
  <2>4. g = [k \in 0..n |-> h(k)]
    BY <2>2, <2>3
  <2>5. Walks(ahead, from, n, g)
    BY <2>4 DEF Walks, Step
  <2> QED
    BY <2>5
<1> HIDE DEF T
<1>3. \A n \in 0..N : n \in T
  BY <1>1, <1>2, UpTo
<1> QED
  BY <1>3 DEF T

(* They end no earlier than the chunk that joins them, and within what has *)
(* been written.                                                           *)
LEMMA JoinedOK ==
    ASSUME NEW ahead, NEW from \in Nat, NEW w \in Nat, from <= w, ChunksOK(ahead, w)
    PROVE  LET join == Joined(ahead, from)
           IN join.end \in Nat /\ from <= join.end /\ join.end <= w
<1> DEFINE reach == CHOOSE f : Walks(ahead, from, Total, f)
           T == {k \in 0..Total : reach[k] \in from..w}
<1>1. Total \in Nat
  BY StreamAssumption
<1>2. Walks(ahead, from, Total, reach)
  BY <1>1, WalksExist
<1>3. Joined(ahead, from).end = reach[Total]
  BY DEF Joined, Walks
<1> HIDE DEF reach
<1>4. 0 \in T
  BY <1>1, <1>2 DEF Walks
<1>5. ASSUME NEW k \in 1..Total, k - 1 \in T PROVE k \in T
  <2> DEFINE e == reach[k - 1]
  <2>1. reach[k] = Step(ahead, e)
    BY <1>1, <1>2 DEF Walks, Step
  <2>2. e \in from..w
    BY <1>5
  <2> HIDE DEF e
  <2>3. Step(ahead, e) \in from..w
    BY <2>2 DEF Step, ChunksOK
  <2> QED
    BY <2>1, <2>3
<1> HIDE DEF T
<1>6. \A k \in 0..Total : k \in T
  BY <1>1, <1>4, <1>5, UpTo
<1>7. reach[Total] \in from..w
  BY <1>1, <1>6 DEF T
<1> QED
  BY <1>3, <1>7

(* More bytes in order. *)
LEMMA HeldMore ==
    ASSUME NEW taken \in Nat, NEW held, NEW w \in Nat, NEW M, NEW bytes \in Seq(M),
           Held(taken, held, w),
           \A k \in 1..Len(bytes) : bytes[k].byte = taken + Len(held) + k,
           taken + Len(held) + Len(bytes) <= w
    PROVE  Held(taken, held \o bytes, w)
<1>1. PICK N : held \in Seq(N)
  BY DEF Held, IsSeq
<1>2. held \in Seq(M \union N) /\ bytes \in Seq(M \union N)
  BY <1>1
<1>3. held \o bytes \in Seq(M \union N)
  BY <1>2
<1>4. Len(held \o bytes) = Len(held) + Len(bytes) /\ Len(held) \in Nat /\ Len(bytes) \in Nat
  BY <1>2
<1>5. ASSUME NEW k \in 1..Len(held \o bytes) PROVE (held \o bytes)[k].byte = taken + k
  <2>1. CASE k <= Len(held)
    <3>1. (held \o bytes)[k] = held[k] /\ k \in 1..Len(held)
      BY <1>2, <1>4, <2>1
    <3> QED
      BY <3>1 DEF Held
  <2>2. CASE k > Len(held)
    <3>1. (held \o bytes)[k] = bytes[k - Len(held)] /\ k - Len(held) \in 1..Len(bytes)
      BY <1>2, <1>4, <2>2
    <3>2. bytes[k - Len(held)].byte = taken + Len(held) + (k - Len(held))
      BY <3>1
    <3> QED
      BY <3>1, <3>2, <1>4
  <2> QED
    BY <1>4, <2>1, <2>2
<1>6. IsSeq(held \o bytes)
  BY <1>3 DEF IsSeq
<1>7. taken + Len(held \o bytes) <= w
  BY <1>4
<1> QED
  BY <1>5, <1>6, <1>7 DEF Held

(* Fewer. *)
LEMMA HeldLess ==
    ASSUME NEW taken \in Nat, NEW held, NEW w \in Nat, NEW n \in Nat, Held(taken, held, w), n <= Len(held)
    PROVE  Held(taken + n, SubSeq(held, n + 1, Len(held)), w)
<1> DEFINE rest == SubSeq(held, n + 1, Len(held))
<1>1. PICK N : held \in Seq(N)
  BY DEF Held, IsSeq
<1>2. Len(held) \in Nat
  BY <1>1
<1>3. \A k \in (n + 1)..Len(held) : held[k] \in N
  BY <1>1
<1>4. rest \in Seq(N) /\ Len(rest) = Len(held) - n
  BY <1>1, <1>2, <1>3
<1>5. \A k \in 1..Len(rest) : rest[k] = held[n + k] /\ n + k \in 1..Len(held)
  BY <1>1, <1>2, <1>4
<1> HIDE DEF rest
<1>6. \A k \in 1..Len(rest) : rest[k].byte = (taken + n) + k
  BY <1>2, <1>4, <1>5 DEF Held
<1>7. (taken + n) + Len(rest) <= w
  BY <1>2, <1>4 DEF Held
<1>8. Held(taken + n, rest, w)
  BY <1>4, <1>6, <1>7 DEF Held, IsSeq
<1> QED
  BY <1>8 DEF rest

(* A chunk joins the bytes in order, with the chunks past the gap that now *)
(* follow on, or is kept past the gap, or is known already.                *)
LEMMA HoldsOK ==
    ASSUME NEW y, NEW m, NEW w \in Nat, ReceiverOK(y, w), ~y.gone,
           m.offset \in Nat, m.len \in Nat, m.offset + m.len <= w
    PROVE  Same(y, Holds(y, m), w)
<1> DEFINE from == m.offset + m.len
           join == Joined(y.ahead, from)
           starts == {m.offset} \union join.chunks
           bytes == [k \in 1..(join.end - m.offset) |->
                       [byte |-> m.offset + k, slice |-> Max({o \in starts : o < m.offset + k})]]
           h == y.held \o bytes
           a == IF join.end = y.furthest THEN NoMap ELSE Restrict(y.ahead, DOMAIN y.ahead \ join.chunks)
           b == IF join.end = y.furthest THEN 0
                ELSE y.aheadBytes - MapThenSumSet(LAMBDA o : y.ahead[o], join.chunks)
           z == [[[y EXCEPT !.held = h] EXCEPT !.ahead = a] EXCEPT !.aheadBytes = b]
           u == [[y EXCEPT !.ahead = Put(@, m.offset, m.len)] EXCEPT !.aheadBytes = @ + m.len]
<1>0. /\ Lives(y, w) /\ y.taken \in Nat /\ Held(y.taken, y.held, w) /\ ChunksOK(y.ahead, w)
      /\ from \in Nat /\ from <= w
  BY DEF ReceiverOK, Lives
<1>1. CASE Follows(y, m)
  <2>1. join.end \in Nat /\ from <= join.end /\ join.end <= w
    <3> HIDE DEF from
    <3> QED
      BY <1>0, JoinedOK
  <2>2. Holds(y, m) = z
    BY <1>1 DEF Holds
  <2> DEFINE n == join.end - m.offset
  <2>3. n \in Nat
    BY <2>1
  <2>4. ChunksOK(a, w)
    <3>1. ChunksOK(NoMap, w)
      BY DEF ChunksOK, NoMap
    <3>2. ChunksOK(Restrict(y.ahead, DOMAIN y.ahead \ join.chunks), w)
      BY <1>0 DEF ChunksOK, Restrict
    <3> QED
      BY <3>1, <3>2
  <2> HIDE DEF starts, a, b
  <2> DEFINE M == {bytes[k] : k \in 1..n}
  <2>M. bytes = [k \in 1..n |-> bytes[k]] /\ \A k \in 1..n : bytes[k].byte = m.offset + k
    OBVIOUS
  <2>5. bytes \in Seq(M) /\ Len(bytes) = n
    <3> HIDE DEF bytes, n
    <3>1. bytes \in [1..n -> M]
      BY <2>M
    <3> HIDE DEF M
    <3> QED
      BY <2>3, <3>1
  <2>6. \A k \in 1..Len(bytes) : bytes[k].byte = m.offset + k
    <3> HIDE DEF bytes, n
    <3> QED
      BY <2>5, <2>M
  <2> HIDE DEF M, bytes, n
  <2>7. m.offset = y.taken + Len(y.held)
    BY <1>1 DEF Follows
  <2>8. y.taken + Len(y.held) + Len(bytes) <= w
    BY <2>1, <2>5, <2>7 DEF n
  <2>9. \A k \in 1..Len(bytes) : bytes[k].byte = y.taken + Len(y.held) + k
    BY <2>6, <2>7
  <2>10. Held(y.taken, h, w)
    BY <1>0, <2>5, <2>8, <2>9, HeldMore
  <2> HIDE DEF h, join, from
  <2>11. /\ ReceiverFields \subseteq DOMAIN z /\ z.gone = y.gone /\ z.emitted = y.emitted
         /\ z.taken = y.taken /\ z.held = h /\ z.ahead = a /\ z.credit = y.credit /\ z.got = y.got
    BY DEF ReceiverOK, ReceiverFields
  <2> HIDE DEF z
  <2>12. Lives(z, w)
    BY <1>0, <2>4, <2>10, <2>11 DEF Lives
  <2>13. Same(y, z, w)
    BY <2>11, <2>12 DEF Same, ReceiverOK
  <2> QED
    BY <2>2, <2>13
<1>2. CASE ~Follows(y, m) /\ m.offset > y.taken + Len(y.held) /\ m.offset \notin DOMAIN y.ahead
  <2>1. Holds(y, m) = u
    BY <1>2 DEF Holds
  <2>2. ChunksOK(Put(y.ahead, m.offset, m.len), w)
    BY <1>0, PutChunk
  <2>3. /\ ReceiverFields \subseteq DOMAIN u /\ u.gone = y.gone /\ u.emitted = y.emitted
        /\ u.taken = y.taken /\ u.held = y.held /\ u.ahead = Put(y.ahead, m.offset, m.len)
        /\ u.credit = y.credit /\ u.got = y.got
    BY DEF ReceiverOK, ReceiverFields
  <2> HIDE DEF u
  <2>4. Lives(u, w)
    BY <1>0, <2>2, <2>3 DEF Lives
  <2>5. Same(y, u, w)
    BY <2>3, <2>4 DEF Same, ReceiverOK
  <2> QED
    BY <2>1, <2>5
<1>3. CASE ~Follows(y, m) /\ ~(m.offset > y.taken + Len(y.held) /\ m.offset \notin DOMAIN y.ahead)
  <2>1. Holds(y, m) = y
    BY <1>3 DEF Holds
  <2> QED
    BY <2>1 DEF Same
<1> QED
  BY <1>1, <1>2, <1>3

(* A chunk beyond the credit is dropped, one that overfills the end stops  *)
(* it, and any other is held (onChunk).                                    *)
LEMMA OnChunkOK ==
    ASSUME NEW y, NEW m, NEW w \in Nat, ReceiverOK(y, w), ~y.gone,
           m.offset \in Nat, m.len \in Nat, m.offset + m.len <= w
    PROVE  Same(y, onChunk(y, m), w) \/ Stops(y, onChunk(y, m), w)
<1> DEFINE noted == received(y, m.pn)
           sn == Above(noted.seen, m.floor)
           f == Max({noted.furthest, m.offset + m.len})
           a == [[noted EXCEPT !.seen = sn] EXCEPT !.furthest = f]
           held == Holds(a, m)
           over == [held EXCEPT !.overfull = TRUE]
<1>1. Same(y, noted, w)
  BY ReceivedOK
<1>2. onChunk(y, m) \in {y, held, fail(over)}
  BY DEF onChunk
<1> HIDE DEF noted, sn, f
<1>3. Like(noted, a)
  BY <1>1 DEF Same, ReceiverOK, Like, ReceiverFields
<1> HIDE DEF a
<1>4. Same(noted, a, w)
  BY <1>1, <1>3, LikeSame DEF Same
<1>5. Same(y, a, w) /\ ReceiverOK(a, w) /\ ~a.gone
  BY <1>1, <1>4 DEF Same
<1>6. Same(a, held, w)
  BY <1>5, HoldsOK
<1> HIDE DEF held
<1>7. Same(y, held, w) /\ ReceiverOK(held, w)
  BY <1>5, <1>6 DEF Same
<1>8. /\ ReceiverFields \subseteq DOMAIN fail(over)
      /\ fail(over).gone /\ fail(over).emitted = held.emitted /\ fail(over).got = held.got
  BY <1>7 DEF ReceiverOK, ReceiverFields, fail
<1>9. fail(over).gone = TRUE
  BY <1>7 DEF ReceiverOK, ReceiverFields, fail
<1> HIDE DEF over
<1>10. Stops(y, fail(over), w)
  BY <1>7, <1>8, <1>9 DEF Stops, Same, ReceiverOK
<1>11. Same(y, y, w)
  BY DEF Same
<1> QED
  BY <1>2, <1>7, <1>10, <1>11

(* What the reader has been handed, and what follows it. *)
LEMMA GotMore ==
    ASSUME NEW t \in Nat, NEW n \in Nat, NEW got, NEW more,
           got = [k \in 1..t |-> k], more = [k \in 1..n |-> t + k]
    PROVE  got \o more = [k \in 1..(t + n) |-> k]
<1> DEFINE g == got \o more
<1>1. got \in Seq(Nat) /\ Len(got) = t /\ \A k \in 1..t : got[k] = k
  OBVIOUS
<1>2. more \in [1..n -> Nat] /\ \A k \in 1..n : more[k] = t + k
  OBVIOUS
<1>3. more \in Seq(Nat) /\ Len(more) = n
  BY <1>2
<1>4. g \in Seq(Nat) /\ Len(g) = t + n
  BY <1>1, <1>3
<1>5. ASSUME NEW k \in 1..(t + n) PROVE g[k] = k
  <2>1. CASE k <= t
    <3>1. g[k] = got[k] /\ k \in 1..t
      BY <1>1, <1>3, <2>1
    <3> QED
      BY <1>1, <3>1
  <2>2. CASE k > t
    <3>1. g[k] = more[k - t] /\ k - t \in 1..n
      BY <1>1, <1>3, <2>2
    <3>2. more[k - t] = t + (k - t)
      BY <1>2, <3>1
    <3> QED
      BY <3>1, <3>2
  <2> QED
    BY <2>1, <2>2
<1>6. g = [k \in 1..(t + n) |-> g[k]]
  BY <1>4
<1> HIDE DEF g
<1>7. g = [k \in 1..(t + n) |-> k]
  BY <1>5, <1>6
<1> QED
  BY <1>7 DEF g

(* The reader is handed what is in order, up to MAX_READ of it. *)
LEMMA ReadsOK ==
    ASSUME NEW y, NEW w \in Nat, ReceiverOK(y, w)
    PROVE  Same(y, Reads(y), w) \/ Hands(y, Reads(y), w)
<1> DEFINE n == Min({Len(y.held), MAX_READ})
           h == SubSeq(y.held, n + 1, Len(y.held))
           more == [k \in 1..n |-> y.held[k].byte]
           g == y.got \o more
           z == [[[[y EXCEPT !.taken = @ + n] EXCEPT !.held = h] EXCEPT !.reading = TRUE] EXCEPT !.got = g]
<1>1. CASE y.reading \/ y.held = << >> \/ y.gone
  BY <1>1 DEF Reads, Same
<1>2. CASE ~(y.reading \/ y.held = << >> \/ y.gone)
  <2>1. Reads(y) = z
    BY <1>2 DEF Reads
  <2>2. Lives(y, w) /\ y.taken \in Nat /\ Held(y.taken, y.held, w) /\ y.gone = FALSE
    BY <1>2 DEF ReceiverOK, Lives
  <2>3. Len(y.held) \in Nat /\ Len(y.held) # 0
    BY <1>2, <2>2 DEF Held, IsSeq
  <2>4. n \in Nat /\ n # 0 /\ n <= Len(y.held)
    <3>1. MAX_READ \in Nat \ {0}
      BY StreamAssumption
    <3> DEFINE l == Len(y.held)
    <3>2. l \in Int /\ MAX_READ \in Int
      BY <2>3, <3>1
    <3> HIDE DEF l
    <3>3. Min({l, MAX_READ}) \in {l, MAX_READ} /\ Min({l, MAX_READ}) <= l
      BY <3>2, MinTwo
    <3> QED
      BY <2>3, <3>1, <3>3 DEF l
  <2> HIDE DEF n
  <2>5. Held(y.taken + n, h, w)
    BY <2>2, <2>4, HeldLess
  <2>6. \A k \in 1..n : y.held[k].byte = y.taken + k
    BY <2>2, <2>3, <2>4 DEF Held
  <2>7. y.taken + n <= w
    BY <2>2, <2>3, <2>4 DEF Held
  <2>8. g = [k \in 1..(y.taken + n) |-> k]
    <3>1. more = [k \in 1..n |-> y.taken + k]
      BY <2>6
    <3>2. y.got = [k \in 1..y.taken |-> k]
      BY <2>2 DEF Lives
    <3> DEFINE t == y.taken
               got == y.got
    <3>3. t \in Nat /\ n \in Nat /\ got = [k \in 1..t |-> k] /\ more = [k \in 1..n |-> t + k]
      BY <2>2, <2>4, <3>1, <3>2
    <3> HIDE DEF more, h, z, t, got
    <3>4. got \o more = [k \in 1..(t + n) |-> k]
      BY <3>3, GotMore
    <3> QED
      BY <3>4 DEF t, got
  <2>9. Len(y.got) < y.taken + n
    BY <2>2, <2>4 DEF Lives
  <2> HIDE DEF h, g
  <2>10. /\ ReceiverFields \subseteq DOMAIN z /\ z.gone = y.gone /\ z.emitted = y.emitted
         /\ z.taken = y.taken + n /\ z.held = h /\ z.ahead = y.ahead /\ z.credit = y.credit /\ z.got = g
    BY DEF ReceiverOK, ReceiverFields
  <2> HIDE DEF z
  <2>11. Lives(z, w)
    BY <2>2, <2>4, <2>5, <2>8, <2>10 DEF Lives
  <2>12. Hands(y, z, w)
    <3> DEFINE d == y.taken + n
    <3>1. d \in Nat /\ z.got = [k \in 1..d |-> k] /\ Len(y.got) < d /\ d <= w
      BY <2>2, <2>4, <2>7, <2>8, <2>9, <2>10
    <3> HIDE DEF d
    <3>2. ReceiverOK(z, w)
      BY <2>10, <2>11 DEF ReceiverOK
    <3> QED
      BY <3>1, <3>2, <2>2, <2>10 DEF Hands
  <2> QED
    BY <2>1, <2>12
<1> QED
  BY <1>1, <1>2

(* A step that keeps what the reader sees, after one that may not. *)
Reader(y, z, w) == Same(y, z, w) \/ Hands(y, z, w)
(* It is then a step of the reader's as the first one was. *)
LEMMA ThenSame ==
    ASSUME NEW x, NEW y, NEW z, NEW w, Reader(x, y, w), Same(y, z, w)
    PROVE  Reader(x, z, w)
BY DEF Reader, Same, Hands

(* The same in the other order. *)
LEMMA SameThen ==
    ASSUME NEW x, NEW y, NEW z, NEW w, Same(x, y, w), Reader(y, z, w)
    PROVE  Reader(x, z, w)
BY DEF Reader, Same, Hands

(* More credit, and the ACK that grants it, change nothing else (deliver). *)
LEMMA DeliverOK ==
    ASSUME NEW y, NEW fast, NEW w \in Nat, ReceiverOK(y, w)
    PROVE  Reader(y, deliver(y, fast), w)
<1> DEFINE a == Reads(y)
           c == IF fast THEN Min({2 * a.credit, MAX_CREDIT}) ELSE a.credit
           d == [[a EXCEPT !.credit = c] EXCEPT !.creditEnd = a.taken + c]
           b == IF a.taken < a.creditEnd THEN a ELSE d
<1>1. Reader(y, a, w) /\ ReceiverOK(a, w)
  BY ReadsOK DEF Reader, Same, Hands
<1>2. deliver(y, fast) \in {b, sendAck(b)}
  BY DEF deliver
<1> HIDE DEF a
<1>3. ~a.gone => c \in Int
  <2> SUFFICES ASSUME ~a.gone PROVE c \in Int
    OBVIOUS
  <2>1. a.credit \in Int /\ 2 * a.credit \in Int /\ MAX_CREDIT \in Int
    BY <1>1, StreamAssumption DEF ReceiverOK, Lives
  <2> DEFINE t == 2 * a.credit
  <2>2. t \in Int
    BY <2>1
  <2> HIDE DEF t
  <2>3. Min({t, MAX_CREDIT}) \in {t, MAX_CREDIT}
    BY <2>1, <2>2, MinTwo
  <2> QED
    BY <2>1, <2>2, <2>3 DEF t
<1> HIDE DEF c
<1>4. /\ ReceiverFields \subseteq DOMAIN d /\ d.gone = a.gone /\ d.emitted = a.emitted
      /\ d.taken = a.taken /\ d.held = a.held /\ d.ahead = a.ahead /\ d.credit = c /\ d.got = a.got
  BY <1>1 DEF ReceiverOK, ReceiverFields
<1> HIDE DEF d
<1>5. Same(a, d, w) /\ Same(a, a, w)
  BY <1>1, <1>3, <1>4 DEF Same, ReceiverOK, Lives
<1>6. Same(a, b, w) /\ ReceiverOK(b, w)
  BY <1>5 DEF Same
<1> HIDE DEF b
<1>7. Same(b, sendAck(b), w)
  BY <1>6, SendAckOK
<1>8. Reader(y, b, w)
  BY <1>1, <1>6, ThenSame
<1>9. Reader(y, sendAck(b), w)
  BY <1>7, <1>8, ThenSame
<1> QED
  BY <1>2, <1>8, <1>9

-----------------------------------------------------------------------------
(* The steps.                                                              *)

NetOK(n, w, gone) == \A m \in DOMAIN n : MsgOK(m, w) /\ (m.to = "r" => ~gone)
LeftOK(b) == "bytes" \in DOMAIN b /\ b.bytes \in Nat
StreamInv == /\ SenderOK(s)
             /\ ReceiverOK(r, s.written)
             /\ r.gone => ~r.reading /\ ~r.turnDue
             /\ NetOK(net, s.written, r.gone)
             /\ LeftOK(left)

(* The ends start with nothing written. *)
LEMMA StreamInit == Init => StreamInv /\ Bytes!Init
<1> SUFFICES ASSUME Init PROVE StreamInv /\ Bytes!Init
  OBVIOUS
<1>1. IsSeq(<< >>) /\ MsgsOK(<< >>, 0)
  BY NoMsgs
<1>2. CREDIT \in Int
  BY StreamAssumption
<1>3. ChunksOK(NoMap, 0)
  BY DEF ChunksOK, NoMap
<1>4. SenderOK(SenderInit) /\ SenderInit.written = 0
  BY <1>1, <1>2, <1>3 DEF SenderOK, SenderFields, SenderInit
<1>5. SenderOK(s) /\ s.written = 0
  <2> DEFINE x == SenderInit
             y == [x EXCEPT !.nextPn = 1, !.oldestPn = 1, !.largestAcked = 0, !.packetBytes = 2, !.reprobe = FALSE]
  <2>1. s \in {x, y}
    BY DEF Init
  <2> HIDE DEF x
  <2>2. SenderOK(x) /\ x.written = 0
    BY <1>4 DEF x
  <2>3. SenderOK(y) /\ y.written = 0
    BY <2>2 DEF SenderOK, SenderFields
  <2> QED
    BY <2>1, <2>2, <2>3
<1>6. /\ ReceiverOK(ReceiverInit, 0)
      /\ ReceiverInit.got = << >> /\ ReceiverInit.gone = FALSE
  <2>1. Held(0, << >>, 0)
    BY <1>1 DEF Held
  <2>2. << >> = [k \in 1..0 |-> k]
    OBVIOUS
  <2> QED
    BY <1>1, <1>2, <1>3, <2>1, <2>2 DEF ReceiverOK, ReceiverFields, ReceiverInit, Lives
<1>7. ReceiverOK(r, 0) /\ r.got = << >> /\ r.gone = FALSE
  <2> DEFINE x == ReceiverInit
             y == [x EXCEPT !.seen = {0}, !.creditEnd = CREDIT]
  <2>1. r \in {x, y}
    BY DEF Init
  <2> HIDE DEF x
  <2>2. ReceiverOK(x, 0) /\ x.got = << >> /\ x.gone = FALSE
    BY <1>6 DEF x
  <2>3. Like(x, y)
    BY <2>2 DEF Like, ReceiverOK, ReceiverFields
  <2>4. Same(x, y, 0)
    BY <2>2, <2>3, LikeSame
  <2> QED
    BY <2>1, <2>2, <2>4 DEF Same
<1>8. NetOK(net, 0, FALSE)
  BY DEF Init, NetOK, EmptyBag, SetToBag
<1>9. LeftOK(left)
  BY StreamAssumption DEF Init, BoundsType, LeftOK
<1> QED
  BY <1>5, <1>7, <1>8, <1>9 DEF StreamInv, Bytes!Init

(* What is put on the path is what was there, or what an end emits. *)
LEMMA PostedOK ==
    ASSUME NEW bag, NEW ms, NEW w, MsgsOK(ms, w), \A m \in DOMAIN bag : MsgOK(m, w)
    PROVE  \A m \in DOMAIN Posted(bag, ms) : MsgOK(m, w)
<1>1. PICK M : ms \in Seq(M) /\ \A d \in M : MsgOK(d, w)
  BY DEF MsgsOK
<1>2. \A k \in DOMAIN ms : ms[k] \in M
  BY <1>1
<1>3. DOMAIN Posted(bag, ms) = DOMAIN bag \union {ms[k] : k \in {j \in DOMAIN ms : Carried(ms[j], path)}}
  BY DEF Posted
<1> QED
  BY <1>1, <1>2, <1>3

(* An end that has written more, and another that has read no more than    *)
(* that, become the two ends.                                              *)
LEMMA BecomeOK ==
    ASSUME StreamInv, NEW s1, NEW r1, NEW bag,
           SenderOK(s1), s.written <= s1.written, ReceiverOK(r1, s1.written),
           DOMAIN bag \subseteq DOMAIN net, Become(s1, r1, bag), LeftOK(left')
    PROVE  StreamInv' /\ s'.written = s1.written /\ r'.got = r1.got /\ r'.gone = r1.gone
<1> DEFINE w == s1.written
           sg == [SenderInit EXCEPT !.gone = TRUE, !.written = s1.written, !.drained = s1.drained]
           sl == [s1 EXCEPT !.emitted = << >>]
           rg == [ReceiverInit EXCEPT !.gone = TRUE, !.got = r1.got, !.overfull = r1.overfull, !.told = r1.told]
           rl == [r1 EXCEPT !.emitted = << >>]
           n1 == Posted(Posted(bag, s1.emitted), r1.emitted)
<1>1. /\ s' = IF s1.gone THEN sg ELSE sl
      /\ r' = IF r1.gone THEN rg ELSE rl
      /\ net' = Reaching(n1, s1, r1)
  BY DEF Become
<1>2. w \in Nat /\ s.written \in Nat /\ MsgsOK(<< >>, w) /\ IsSeq(<< >>)
  BY NoMsgs DEF StreamInv, SenderOK
<1>3. SenderOK(sg) /\ sg.written = w
  <2>1. CREDIT \in Int
    BY StreamAssumption
  <2>2. ChunksOK(NoMap, 0)
    BY DEF ChunksOK, NoMap
  <2> QED
    BY <1>2, <2>1, <2>2 DEF SenderInit, SenderOK, SenderFields
<1>4. SenderOK(sl) /\ sl.written = w
  BY <1>2 DEF SenderOK, SenderFields
<1>5. ReceiverOK(rg, w) /\ rg.got = r1.got /\ rg.gone = TRUE /\ ~rg.reading /\ ~rg.turnDue
  BY <1>2 DEF ReceiverInit, ReceiverOK, ReceiverFields
<1>6. ReceiverOK(rl, w) /\ rl.got = r1.got /\ rl.gone = r1.gone
  <2>1. /\ ReceiverFields \subseteq DOMAIN rl /\ rl.gone = r1.gone /\ rl.emitted = << >>
        /\ rl.taken = r1.taken /\ rl.held = r1.held /\ rl.ahead = r1.ahead /\ rl.credit = r1.credit /\ rl.got = r1.got
    BY DEF ReceiverOK, ReceiverFields
  <2> HIDE DEF rl
  <2> QED
    BY <1>2, <2>1 DEF ReceiverOK, Lives
<1> HIDE DEF sg, sl, rg, rl
<1>7. \A m \in DOMAIN n1 : MsgOK(m, w)
  <2>1. \A m \in DOMAIN bag : MsgOK(m, w)
    BY <1>2 DEF StreamInv, NetOK, MsgOK
  <2>2. \A m \in DOMAIN Posted(bag, s1.emitted) : MsgOK(m, w)
    BY <2>1, PostedOK DEF SenderOK
  <2> QED
    BY <2>2, PostedOK DEF ReceiverOK
<1> HIDE DEF n1
<1>8. NetOK(net', w, r1.gone)
  BY <1>1, <1>7 DEF NetOK, Reaching, Matters
<1>9. SenderOK(s') /\ s'.written = w
  BY <1>1, <1>3, <1>4
<1>10. ReceiverOK(r', w) /\ r'.got = r1.got /\ r'.gone = r1.gone /\ (r'.gone => ~r'.reading /\ ~r'.turnDue)
  BY <1>1, <1>5, <1>6 DEF ReceiverOK
<1> HIDE DEF w
<1>11. StreamInv'
  BY <1>8, <1>9, <1>10 DEF StreamInv
<1> QED
  BY <1>9, <1>10, <1>11 DEF w

(* The step is a step of the byte stream, or does not touch it. *)
Refines == [Bytes!Next]_(Bytes!streamVars)

(* What only the writing end does, writing nothing. *)
LEMMA SenderStep ==
    ASSUME StreamInv, NEW s1, NEW bag, Goes(s, s1), Become(s1, r, bag),
           DOMAIN bag \subseteq DOMAIN net, LeftOK(left')
    PROVE  StreamInv' /\ Refines
<1>1. SenderOK(s1) /\ s1.written = s.written /\ s.written <= s1.written /\ ReceiverOK(r, s1.written)
  BY DEF Goes, StreamInv, SenderOK
<1>2. StreamInv' /\ s'.written = s1.written /\ r'.got = r.got /\ r'.gone = r.gone
  BY <1>1, BecomeOK
<1> QED
  BY <1>1, <1>2 DEF Refines, Bytes!streamVars

(* What only the reading end does. *)
LEMMA ReceiverStep ==
    ASSUME StreamInv, NEW r1, NEW bag, Reader(r, r1, s.written) \/ Stops(r, r1, s.written), Become(s, r1, bag),
           DOMAIN bag \subseteq DOMAIN net, LeftOK(left')
    PROVE  StreamInv' /\ Refines
<1>1. SenderOK(s) /\ s.written \in Nat /\ s.written <= s.written /\ ReceiverOK(r1, s.written)
  BY DEF StreamInv, SenderOK, Reader, Same, Hands, Stops
<1>2. StreamInv' /\ s'.written = s.written /\ r'.got = r1.got /\ r'.gone = r1.gone
  BY <1>1, BecomeOK
<1>3. CASE Same(r, r1, s.written)
  BY <1>2, <1>3 DEF Refines, Bytes!streamVars, Same
<1>4. CASE Stops(r, r1, s.written)
  BY <1>2, <1>4 DEF Refines, Bytes!Next, Bytes!Stop, Stops
<1>5. CASE Hands(r, r1, s.written)
  <2>1. PICK n \in Nat : r1.got = [k \in 1..n |-> k] /\ Len(r.got) < n /\ n <= s.written
    BY <1>5 DEF Hands
  <2>2. Len(r1.got) = n
    BY <2>1
  <2>3. r.got # r1.got
    BY <2>1, <2>2
  <2>4. Bytes!Hand
    BY <1>2, <1>5, <2>1, <2>2, <2>3 DEF Bytes!Hand, Hands
  <2> QED
    BY <1>2, <2>4 DEF Refines, Bytes!Next
<1> QED
  BY <1>3, <1>4, <1>5 DEF Reader

(* No step but a write spends bytes. *)
LEMMA LeftKept ==
    ASSUME StreamInv
    PROVE  /\ UNCHANGED left => LeftOK(left')
           /\ \A kind : kind # "bytes" /\ Bounded(kind) => LeftOK(left')
           /\ Fires => LeftOK(left')
<1>1. \A kind : kind # "bytes" /\ Bounded(kind) => LeftOK(left')
  BY DEF StreamInv, LeftOK, Bounded
<1>2. UNCHANGED left => LeftOK(left')
  BY DEF StreamInv
<1> QED
  BY <1>1, <1>2 DEF Fires

(* A datagram taken off the path. *)
LEMMA RemoveKeeps ==
    ASSUME NEW m
    PROVE  DOMAIN BagRemove(net, m) \subseteq DOMAIN net
BY DEF BagRemove

(* Bytes are written, as many as the bound allows. *)
LEMMA WriteTakes ==
    ASSUME StreamInv, NEW n \in 1..left.bytes
    PROVE  LET x == [s EXCEPT !.written = @ + n]
           IN SenderOK(x) /\ x.written = s.written + n /\ ReceiverOK(r, s.written + n)
<1> DEFINE v == s.written + n
           x == [s EXCEPT !.written = v]
<1>1. n \in Nat /\ left.bytes \in Nat
  BY DEF StreamInv, LeftOK
<1>2. s.written \in Nat /\ v \in Nat /\ s.written <= v /\ SenderOK(s) /\ ReceiverOK(r, s.written)
  BY <1>1 DEF StreamInv, SenderOK
<1> HIDE DEF v
<1>3. SenderOK(x) /\ x.written = v
  <2>1. MsgsOK(s.emitted, s.written)
    BY <1>2 DEF SenderOK
  <2>2. MsgsOK(s.emitted, v)
    BY <1>2, <2>1, MoreMsgs
  <2> QED
    BY <1>2, <2>2 DEF SenderOK, SenderFields
<1>4. ReceiverOK(r, v)
  <2>1. MsgsOK(r.emitted, s.written)
    BY <1>2 DEF ReceiverOK
  <2>2. MsgsOK(r.emitted, v)
    BY <1>2, <2>1, MoreMsgs
  <2>3. Lives(r, s.written) => Lives(r, v)
    <3> SUFFICES ASSUME Lives(r, s.written) PROVE Lives(r, v)
      OBVIOUS
    <3>1. Len(r.held) \in Nat
      BY DEF Lives, Held, IsSeq
    <3>2. Held(r.taken, r.held, v)
      BY <1>2, <3>1 DEF Lives, Held
    <3>3. ChunksOK(r.ahead, v)
      BY <1>2 DEF Lives, ChunksOK
    <3> QED
      BY <3>2, <3>3 DEF Lives
  <2> QED
    BY <1>2, <2>2, <2>3 DEF ReceiverOK
<1> QED
  BY <1>3, <1>4 DEF v

(* The writing end takes bytes. *)
LEMMA WriteRefines ==
    ASSUME StreamInv, Write
    PROVE  StreamInv' /\ Refines
<1>1. PICK n \in 1..left.bytes, w \in Windows :
        /\ left' = [left EXCEPT !.bytes = @ - n]
        /\ Become(flush([s EXCEPT !.written = @ + n], 0, w), r, net)
  BY DEF Write
<1>2. n \in Nat /\ n # 0 /\ n <= left.bytes /\ LeftOK(left) /\ left.bytes \in Nat /\ s.written \in Nat
  BY DEF StreamInv, LeftOK, SenderOK
<1>3. LeftOK(left')
  BY <1>1, <1>2 DEF LeftOK
<1> DEFINE x == [s EXCEPT !.written = @ + n]
           y == flush(x, 0, w)
<1>4. SenderOK(x) /\ x.written = s.written + n /\ ReceiverOK(r, s.written + n)
  BY WriteTakes
<1>5. Become(y, r, net)
  BY <1>1
<1> HIDE DEF x
<1>6. SenderOK(y) /\ y.written = s.written + n
  BY <1>4, FlushOK DEF Goes
<1> HIDE DEF y
<1>7. s.written < y.written /\ s.written <= y.written /\ ReceiverOK(r, y.written) /\ DOMAIN net \subseteq DOMAIN net
  BY <1>2, <1>4, <1>6
<1>8. StreamInv' /\ s'.written = y.written /\ r'.got = r.got /\ r'.gone = r.gone
  BY <1>3, <1>5, <1>6, <1>7, BecomeOK
<1>9. Bytes!Write
  BY <1>2, <1>6, <1>7, <1>8 DEF Bytes!Write
<1> QED
  BY <1>8, <1>9 DEF Refines, Bytes!Next

(* The timers of the writing end, its closes and a moved path. *)
LEMMA SenderRefines ==
    ASSUME StreamInv,
           \/ CloseGracefully \/ CloseAtOnce \/ LingerEnds \/ OnLossTime
           \/ OnProbeTimeout \/ OnSizeProbeTimeout \/ Repath \/ SenderTick
    PROVE  StreamInv' /\ Refines
<1>0. SenderOK(s) /\ DOMAIN net \subseteq DOMAIN net
  BY DEF StreamInv
<1>1. CASE CloseGracefully
  <2>1. LeftOK(left')
    BY <1>1, LeftKept DEF CloseGracefully
  <2> DEFINE x == [s EXCEPT !.closing = TRUE]
             y == [s EXCEPT !.drained = TRUE]
  <2>2. Become(x, r, net) \/ Become(end(y, "r"), r, net)
    BY <1>1 DEF CloseGracefully
  <2>3. Goes(s, x) /\ Goes(s, y)
    BY <1>0, StartsOverOK
  <2> HIDE DEF x, y
  <2>4. Goes(s, end(y, "r"))
    BY <2>3, EndOK DEF Goes
  <2> QED
    BY <1>0, <2>1, <2>2, <2>3, <2>4, SenderStep
<1>2. CASE CloseAtOnce
  <2>1. LeftOK(left') /\ Become(end(s, "r"), r, net)
    BY <1>2, LeftKept DEF CloseAtOnce
  <2> QED
    BY <1>0, <2>1, EndOK, SenderStep
<1>3. CASE LingerEnds
  <2>1. LeftOK(left') /\ Become(end(s, "r"), r, net)
    BY <1>3, LeftKept DEF LingerEnds
  <2> QED
    BY <1>0, <2>1, EndOK, SenderStep
<1>4. CASE OnLossTime
  <2>1. LeftOK(left')
    BY <1>4, LeftKept DEF OnLossTime
  <2>2. PICK aged \in Aged(s), w \in Windows : Become(flush(detectLoss(s, aged), 0, w), r, net)
    BY <1>4 DEF OnLossTime
  <2>3. Goes(s, detectLoss(s, aged))
    BY <1>0, DetectLossOK
  <2>4. Goes(s, flush(detectLoss(s, aged), 0, w))
    BY <2>3, FlushOK DEF Goes
  <2> QED
    BY <1>0, <2>1, <2>2, <2>4, SenderStep
<1>5. CASE OnProbeTimeout
  <2>1. LeftOK(left')
    BY <1>5, LeftKept DEF OnProbeTimeout
  <2> DEFINE x == [DropsBack(s) EXCEPT !.ptoCount = Min({@ + 1, MAX_PTOS})]
  <2>2. Become(end(s, "r"), r, net) \/ \E w \in Windows : Become(flush(x, 2, w), r, net)
    BY <1>5 DEF OnProbeTimeout
  <2>3. Goes(s, x)
    BY <1>0, StartsOverOK
  <2> HIDE DEF x
  <2>4. \A w : Goes(s, flush(x, 2, w))
    BY <2>3, FlushOK DEF Goes
  <2>5. Goes(s, end(s, "r"))
    BY <1>0, EndOK
  <2> QED
    BY <1>0, <2>1, <2>2, <2>4, <2>5, SenderStep
<1>6. CASE OnSizeProbeTimeout
  <2>1. LeftOK(left') /\ Become(sendProbe(s), r, net)
    BY <1>6, LeftKept DEF OnSizeProbeTimeout
  <2>2. Goes(s, sendProbe(s))
    BY <1>0, ProbesOK
  <2> QED
    BY <1>0, <2>1, <2>2, SenderStep
<1>7. CASE Repath
  <2>1. LeftOK(left')
    BY <1>7, LeftKept DEF Repath
  <2> DEFINE x == [s EXCEPT !.ptoCount = 0, !.packetBytes = 1, !.reprobe = FALSE]
  <2>2. PICK w \in Windows : Become(startProbe(flush(x, 0, w)), r, net)
    BY <1>7 DEF Repath
  <2>3. Goes(s, x)
    BY <1>0, StartsOverOK
  <2> HIDE DEF x
  <2>4. Goes(s, flush(x, 0, w))
    BY <2>3, FlushOK DEF Goes
  <2>5. Goes(s, startProbe(flush(x, 0, w)))
    BY <2>4, ProbesOK DEF Goes
  <2> QED
    BY <1>0, <2>1, <2>2, <2>5, SenderStep
<1>8. CASE SenderTick
  <2>1. LeftOK(left') /\ Become(fail(s), r, net)
    BY <1>8, LeftKept DEF SenderTick
  <2> QED
    BY <1>0, <2>1, EndOK, SenderStep
<1> QED
  BY <1>1, <1>2, <1>3, <1>4, <1>5, <1>6, <1>7, <1>8

(* An ACK arrives. *)
LEMMA AckRefines ==
    ASSUME StreamInv, NEW m \in DOMAIN net, OnAck(m)
    PROVE  StreamInv' /\ Refines
<1> DEFINE x == Acked(s, m)
<1>1. SenderOK(s) /\ m.credit \in Int
  BY DEF StreamInv, NetOK, MsgOK, OnAck
<1>2. PICK aged \in {{}} \union Aged(x), w \in Windows :
        /\ IF aged = {} THEN UNCHANGED left ELSE Fires
        /\ Become(EndsDrained(IF m.seen = {} THEN x ELSE Reprobes(detectLoss(x, aged)), w), r, BagRemove(net, m))
  BY DEF OnAck
<1>3. LeftOK(left')
  BY <1>2, LeftKept
<1> DEFINE y == IF m.seen = {} THEN x ELSE Reprobes(detectLoss(x, aged))
           z == EndsDrained(y, w)
<1>4. Goes(s, x)
  BY <1>1, AckedOK
<1>5. Become(z, r, BagRemove(net, m))
  BY <1>2
<1> HIDE DEF x
<1>6. Goes(s, detectLoss(x, aged))
  BY <1>4, DetectLossOK DEF Goes
<1>7. Goes(s, Reprobes(detectLoss(x, aged)))
  BY <1>6, ProbesOK DEF Goes
<1>8. Goes(s, y)
  BY <1>4, <1>7
<1> HIDE DEF y
<1>9. Goes(s, z)
  BY <1>8, EndsDrainedOK DEF Goes
<1>10. DOMAIN BagRemove(net, m) \subseteq DOMAIN net
  BY RemoveKeeps
<1> HIDE DEF z
<1> QED
  BY <1>3, <1>5, <1>9, <1>10, SenderStep

(* The reading end stops. *)
LEMMA StopsOK ==
    ASSUME NEW y, NEW to, NEW w, ReceiverOK(y, w), ~y.gone
    PROVE  Stops(y, fail(y), w) /\ Stops(y, end(y, to), w) /\ Stops(y, fail([y EXCEPT !.told = TRUE]), w)
<1> DEFINE c == [k \in 1..3 |-> Close(to)]
           q == y.emitted \o c
           z == [y EXCEPT !.emitted = q]
           u == [y EXCEPT !.told = TRUE]
<1>1. MsgOK(Close(to), w)
  BY DEF MsgOK, Close
<1>2. MsgsOK(c, w)
  BY <1>1, FewMsgs
<1> HIDE DEF c
<1>3. MsgsOK(q, w)
  BY <1>2, ConcatMsgs DEF ReceiverOK
<1>4. end(y, to) = fail(z)
  BY DEF end, sendClose, c
<1> HIDE DEF q
<1>5. /\ ReceiverFields \subseteq DOMAIN z /\ z.emitted = q /\ z.got = y.got
      /\ ReceiverFields \subseteq DOMAIN u /\ u.emitted = y.emitted /\ u.got = y.got
  BY DEF ReceiverOK, ReceiverFields
<1> HIDE DEF z, u
<1>6. ASSUME NEW v, ReceiverFields \subseteq DOMAIN v, MsgsOK(v.emitted, w), v.got = y.got
      PROVE  Stops(y, fail(v), w)
  <2>1. /\ ReceiverFields \subseteq DOMAIN fail(v) /\ fail(v).gone = TRUE
        /\ fail(v).emitted = v.emitted /\ fail(v).got = v.got
    BY <1>6 DEF fail, ReceiverFields
  <2> QED
    BY <1>6, <2>1 DEF Stops, ReceiverOK
<1>7. Stops(y, fail(y), w)
  BY <1>6 DEF ReceiverOK
<1>8. Stops(y, fail(z), w) /\ Stops(y, fail(u), w)
  BY <1>3, <1>5, <1>6 DEF ReceiverOK
<1> QED
  BY <1>4, <1>7, <1>8 DEF u

(* The steps of the reading end. *)
LEMMA ReceiverRefines ==
    ASSUME StreamInv, ReadDone \/ Turn \/ CloseReading \/ ReceiverTick
    PROVE  StreamInv' /\ Refines
<1> DEFINE w == s.written
<1>0. ReceiverOK(r, w) /\ w \in Nat /\ DOMAIN net \subseteq DOMAIN net
  BY DEF StreamInv, SenderOK
<1>1. CASE ReadDone
  <2> DEFINE y == [r EXCEPT !.reading = FALSE]
  <2>1. LeftOK(left')
    BY <1>1, LeftKept DEF ReadDone
  <2>2. PICK fast \in BOOLEAN : Become(s, deliver(y, fast), net)
    BY <1>1 DEF ReadDone
  <2>3. Like(r, y)
    BY <1>0 DEF Like, ReceiverOK, ReceiverFields
  <2> HIDE DEF y, w
  <2>4. Same(r, y, w) /\ ReceiverOK(y, w)
    BY <1>0, <2>3, LikeSame DEF Same
  <2>5. Reader(y, deliver(y, fast), w)
    BY <1>0, <2>4, DeliverOK
  <2>6. Reader(r, deliver(y, fast), w)
    BY <2>4, <2>5, SameThen
  <2> QED
    BY <1>0, <2>1, <2>2, <2>6, ReceiverStep DEF w
<1>2. CASE Turn
  <2> DEFINE y == [r EXCEPT !.turnDue = FALSE]
  <2>1. LeftOK(left')
    BY <1>2, LeftKept DEF Turn
  <2>2. PICK fast \in BOOLEAN : Become(s, IF deliver(y, fast).unacked THEN sendAck(deliver(y, fast))
                                          ELSE deliver(y, fast), net)
    BY <1>2 DEF Turn
  <2>3. Like(r, y)
    BY <1>0 DEF Like, ReceiverOK, ReceiverFields
  <2> HIDE DEF y, w
  <2>4. Same(r, y, w) /\ ReceiverOK(y, w)
    BY <1>0, <2>3, LikeSame DEF Same
  <2> DEFINE d == deliver(y, fast)
  <2>5. Reader(y, d, w)
    BY <1>0, <2>4, DeliverOK
  <2>6. Become(s, IF d.unacked THEN sendAck(d) ELSE d, net)
    BY <2>2
  <2> HIDE DEF d
  <2>7. Reader(r, d, w) /\ ReceiverOK(d, w)
    BY <2>4, <2>5, SameThen DEF Reader, Same, Hands
  <2>8. Same(d, sendAck(d), w)
    BY <2>7, SendAckOK
  <2>9. Reader(r, sendAck(d), w)
    BY <2>7, <2>8, ThenSame
  <2>10. Become(s, d, net) \/ Become(s, sendAck(d), net)
    BY <2>6
  <2> QED
    BY <1>0, <2>1, <2>7, <2>9, <2>10, ReceiverStep DEF w
<1>3. CASE CloseReading
  <2>1. LeftOK(left') /\ ~r.gone /\ Become(s, end(r, "s"), net)
    BY <1>3, LeftKept DEF CloseReading
  <2>2. Stops(r, end(r, "s"), w)
    BY <1>0, <2>1, StopsOK
  <2> QED
    BY <1>0, <2>1, <2>2, ReceiverStep
<1>4. CASE ReceiverTick
  <2>1. LeftOK(left') /\ ~r.gone
    BY <1>4, LeftKept DEF ReceiverTick
  <2>2. Become(s, fail(r), net) \/ Become(s, sendAck(r), net)
    BY <1>4 DEF ReceiverTick
  <2>3. Stops(r, fail(r), w)
    BY <1>0, <2>1, StopsOK
  <2>4. Same(r, sendAck(r), w)
    BY <1>0, SendAckOK
  <2> QED
    BY <1>0, <2>1, <2>2, <2>3, <2>4, ReceiverStep DEF Reader
<1> QED
  BY <1>1, <1>2, <1>3, <1>4

(* A chunk, a packet-size probe or a CLOSE arrives. *)
LEMMA ArrivesRefines ==
    ASSUME StreamInv, NEW m \in DOMAIN net, OnChunk(m) \/ OnProbe(m) \/ OnClose(m)
    PROVE  StreamInv' /\ Refines
<1> DEFINE w == s.written
           bag == BagRemove(net, m)
<1>0. /\ SenderOK(s) /\ ReceiverOK(r, w) /\ w \in Nat /\ MsgOK(m, w) /\ (m.to = "r" => ~r.gone)
      /\ DOMAIN bag \subseteq DOMAIN net
  BY RemoveKeeps DEF StreamInv, SenderOK, NetOK
<1>1. CASE OnChunk(m)
  <2>1. LeftOK(left') /\ m.type = "DATA" /\ Become(s, onChunk(r, m), bag)
    BY <1>1, LeftKept DEF OnChunk
  <2>2. ~r.gone /\ m.offset \in Nat /\ m.len \in Nat /\ m.offset + m.len <= w
    BY <1>0, <2>1 DEF MsgOK
  <2> HIDE DEF w, bag
  <2>3. Same(r, onChunk(r, m), w) \/ Stops(r, onChunk(r, m), w)
    BY <1>0, <2>2, OnChunkOK
  <2> QED
    BY <1>0, <2>1, <2>3, ReceiverStep DEF w, Reader
<1>2. CASE OnProbe(m)
  <2>1. LeftOK(left') /\ Become(s, received(r, m.pn), bag)
    BY <1>2, LeftKept DEF OnProbe
  <2> HIDE DEF bag
  <2>2. Same(r, received(r, m.pn), w)
    BY <1>0, ReceivedOK
  <2> QED
    BY <1>0, <2>1, <2>2, ReceiverStep DEF Reader
<1>3. CASE OnClose(m) /\ m.to = "r"
  <2> DEFINE y == fail([r EXCEPT !.told = TRUE])
  <2>1. LeftOK(left') /\ Become(s, y, bag)
    BY <1>3, LeftKept DEF OnClose
  <2>2. Stops(r, y, w)
    BY <1>0, <1>3, StopsOK
  <2> HIDE DEF y, bag
  <2> QED
    BY <1>0, <2>1, <2>2, ReceiverStep
<1>4. CASE OnClose(m) /\ m.to # "r"
  <2>1. LeftOK(left') /\ (Become(fail(s), r, bag) \/ Become(s, r, bag))
    BY <1>4, LeftKept DEF OnClose
  <2> HIDE DEF bag
  <2>2. Goes(s, fail(s)) /\ Goes(s, s)
    BY <1>0, EndOK DEF Goes
  <2> QED
    BY <1>0, <2>1, <2>2, SenderStep
<1> QED
  BY <1>1, <1>2, <1>3, <1>4

(* The path loses and repeats datagrams, and gets worse. *)
LEMMA PathRefines ==
    ASSUME StreamInv, PathWorsens \/ \E m \in DOMAIN net : Lose(m) \/ Repeat(m)
    PROVE  StreamInv' /\ Refines
<1>1. DOMAIN net' \subseteq DOMAIN net
  <2>1. CASE PathWorsens
    BY <2>1 DEF PathWorsens
  <2>2. ASSUME NEW m \in DOMAIN net, Lose(m) PROVE DOMAIN net' \subseteq DOMAIN net
    BY <2>2, RemoveKeeps DEF Lose
  <2>3. ASSUME NEW m \in DOMAIN net, Repeat(m) PROVE DOMAIN net' \subseteq DOMAIN net
    BY <2>3 DEF Repeat, BagAdd
  <2> QED
    BY <2>1, <2>2, <2>3
<1>2. LeftOK(left') /\ s' = s /\ r' = r
  BY LeftKept DEF PathWorsens, Lose, Repeat
<1>3. NetOK(net', s.written, r.gone)
  BY <1>1 DEF StreamInv, NetOK
<1>4. StreamInv'
  BY <1>2, <1>3 DEF StreamInv
<1> QED
  BY <1>2, <1>4 DEF Refines, Bytes!streamVars

(* Every step keeps the invariant, and is a step of the byte stream or     *)
(* does not touch it.                                                      *)
LEMMA StreamNext == StreamInv /\ [Next]_vars => StreamInv' /\ Refines
<1> SUFFICES ASSUME StreamInv, [Next]_vars PROVE StreamInv' /\ Refines
  OBVIOUS
<1>1. CASE Write
  BY <1>1, WriteRefines
<1>2. CASE CloseGracefully \/ CloseAtOnce \/ Repath
  BY <1>2, SenderRefines
<1>3. CASE ReadDone \/ Turn \/ CloseReading
  BY <1>3, ReceiverRefines
<1>4. CASE Timers
  BY <1>4, SenderRefines, ReceiverRefines DEF Timers
<1>5. CASE Arrives
  BY <1>5, AckRefines, ArrivesRefines DEF Arrives
<1>6. CASE (\E m \in DOMAIN net : Lose(m) \/ Repeat(m)) \/ PathWorsens
  BY <1>6, PathRefines
<1>7. CASE UNCHANGED vars
  <2>1. UNCHANGED <<s, r, net, left>>
    BY <1>7 DEF vars
  <2>2. StreamInv'
    BY <2>1 DEF StreamInv
  <2> QED
    BY <2>1, <2>2 DEF Refines, Bytes!streamVars
<1> QED
  BY <1>1, <1>2, <1>3, <1>4, <1>5, <1>6, <1>7 DEF Next

(* The stream hands its reader the bytes that were written, once each and  *)
(* in order, and never one that was not: every step of the two ends is a   *)
(* step of ByteStream or leaves it alone (stream.js flush, onChunk,        *)
(* deliver), for every window, credit, read size and number of losses,     *)
(* repeats, timeouts, splits and moves.                                    *)
THEOREM StreamSafe == Spec => Bytes!Init /\ [][Bytes!Next]_(Bytes!streamVars)
<1>1. Spec => []StreamInv
  BY StreamInit, StreamNext, PTL DEF Spec
<1>2. StreamInv /\ [Next]_vars => [Bytes!Next]_(Bytes!streamVars)
  BY StreamNext DEF Refines
<1>3. Init => Bytes!Init
  BY StreamInit
<1> QED
  BY <1>1, <1>2, <1>3, PTL DEF Spec

(* So a stream that makes progress, as the model checker finds that it     *)
(* does under its fairness, implements the byte stream a link is promised. *)
THEOREM StreamRefines == Spec /\ Bytes!Progress => IsByteStream
BY StreamSafe, PTL DEF IsByteStream, Bytes!Spec

-----------------------------------------------------------------------------
(***************************************************************************)
(* A graceful close that drained.  What the two ends hold must agree: each *)
(* byte ever cut is in a chunk of the writing end or with the reading end, *)
(* an ACK under way names only packets whose bytes the reading end has,    *)
(* however the chunk has been split since, and the gap the reading end     *)
(* waits at is never inside a chunk, so what it drops as known it has.     *)
(***************************************************************************)
(* The writing end's chunks c, by offset, of the n bytes ever cut, and its *)
(* packets in flight f, by number below p.                                 *)
Cut(c, n) == \A o \in DOMAIN c : o \in Nat /\ c[o] \in {1, 2} /\ o + c[o] <= n
Flying(f, n, p) == \A k \in DOMAIN f : k \in Nat /\ k < p /\ f[k] \in Nat /\ f[k] < n

(* What the reading end has: the bytes below e, and chunks a past them. *)
Has(e, a, b) == b < e \/ \E o \in DOMAIN a : o <= b /\ b < o + a[o]

(* The reading end may say it has seen packet k: it has what is left of    *)
(* its chunk, and its first byte even when nothing is.                     *)
Known(c, f, p, e, a, k) ==
    /\ k \in Nat /\ k < p
    /\ k \in DOMAIN f => /\ Has(e, a, f[k])
                         /\ (f[k] \in DOMAIN c /\ c[f[k]] = 2) => Has(e, a, f[k] + 1)

(* A packet carries a chunk as it was sent, which may since have been split. *)
Packet(c, f, n, p, m) ==
    /\ m.offset \in Nat /\ m.len \in {1, 2} /\ m.offset + m.len <= n
    /\ m.offset \in DOMAIN c => c[m.offset] <= m.len
    /\ m.pn \in Nat /\ m.pn < p /\ (m.pn \in DOMAIN f => m.offset = f[m.pn])
Told(c, f, n, p, e, a, m) ==
    /\ m.type = "DATA" => Packet(c, f, n, p, m)
    /\ m.type = "PROBE" => m.pn \in Nat /\ m.pn < p /\ m.pn \notin DOMAIN f
    /\ m.type = "ACK" => \A k \in m.seen : Known(c, f, p, e, a, k)

(* No chunk past the gap starts where the gap does, and the gap does not   *)
(* start inside one, or inside one the writing end still has whole.        *)
Past(c, n, e, a, t) ==
    /\ e \in Nat /\ e <= n
    /\ \A o \in DOMAIN a : /\ o \in Nat /\ a[o] \in {1, 2} /\ o + a[o] <= n /\ o + a[o] <= t
                           /\ o \in DOMAIN c => c[o] <= a[o]
                           /\ o # e /\ (a[o] = 2 => e # o + 1)
    /\ \A o \in DOMAIN c : c[o] = 2 => e # o + 1

(* Each byte ever cut is with the reading end, or in a chunk. *)
Covered(c, n, e, a) == \A b \in Nat : b < n => Has(e, a, b) \/ \E o \in DOMAIN c : o <= b /\ b < o + c[o]

(* Two chunks of two bytes never overlap in one. *)
Big(c, a, M, o) == \/ o \in DOMAIN c /\ c[o] = 2
                   \/ o \in DOMAIN a /\ a[o] = 2
                   \/ \E m \in M : m.type = "DATA" /\ m.offset = o /\ m.len = 2
Apart(c, a, M) == \A o \in Nat : ~(Big(c, a, M, o) /\ Big(c, a, M, o + 1))

Agree(c, f, n, p, e, a, t, seen, M) ==
    /\ n \in Nat /\ p \in Nat /\ t \in Int
    /\ Cut(c, n) /\ Flying(f, n, p) /\ Past(c, n, e, a, t) /\ Covered(c, n, e, a) /\ Apart(c, a, M)
    /\ \A k \in seen : Known(c, f, p, e, a, k)
    /\ \A m \in M : Told(c, f, n, p, e, a, m)

-----------------------------------------------------------------------------
(* Chunks taken away, or split, that still cover what the reading end      *)
(* misses.                                                                 *)
LEMMA FewerChunks ==
    ASSUME NEW c, NEW f, NEW n, NEW p, NEW e, NEW a, NEW t, NEW seen, NEW M, NEW d,
           Agree(c, f, n, p, e, a, t, seen, M), Cut(d, n), Covered(d, n, e, a),
           \A j \in DOMAIN d : d[j] = 2 => j \in DOMAIN c /\ c[j] = 2
    PROVE  Agree(d, f, n, p, e, a, t, seen, M)
<1>1. /\ n \in Nat /\ p \in Nat /\ t \in Int /\ Flying(f, n, p) /\ Past(c, n, e, a, t) /\ Apart(c, a, M)
      /\ \A k \in seen : Known(c, f, p, e, a, k)
      /\ \A m \in M : Told(c, f, n, p, e, a, m)
  BY DEF Agree
<1>2. \A j \in DOMAIN d : d[j] \in {1, 2}
  BY DEF Cut
<1>3. ASSUME NEW k, Known(c, f, p, e, a, k) PROVE Known(d, f, p, e, a, k)
  BY <1>3 DEF Known
<1>4. ASSUME NEW m \in M PROVE Told(d, f, n, p, e, a, m)
  <2>1. Told(c, f, n, p, e, a, m)
    BY <1>1
  <2>2. m.type = "DATA" => Packet(d, f, n, p, m)
    BY <1>2, <2>1 DEF Told, Packet
  <2> QED
    BY <1>3, <2>1, <2>2 DEF Told
<1>5. Past(d, n, e, a, t)
  BY <1>1, <1>2 DEF Past
<1>6. Apart(d, a, M)
  <2>1. \A o : Big(d, a, M, o) => Big(c, a, M, o)
    BY DEF Big
  <2> QED
    BY <1>1, <2>1 DEF Apart
<1> QED
  BY <1>1, <1>3, <1>4, <1>5, <1>6 DEF Agree

(* A chunk of two split in two of one (fit). *)
LEMMA SplitChunk ==
    ASSUME NEW c, NEW f, NEW n, NEW p, NEW e, NEW a, NEW t, NEW seen, NEW M, NEW d, NEW o \in DOMAIN c,
           Agree(c, f, n, p, e, a, t, seen, M), c[o] = 2,
           DOMAIN d = DOMAIN c \union {o, o + 1}, d[o] = 1, d[o + 1] = 1,
           \A j \in DOMAIN c : j # o /\ j # o + 1 => d[j] = c[j]
    PROVE  Agree(d, f, n, p, e, a, t, seen, M)
<1>1. n \in Nat /\ Cut(c, n) /\ Covered(c, n, e, a) /\ Apart(c, a, M)
  BY DEF Agree
<1>2. o \in Nat /\ o + 2 <= n
  BY <1>1 DEF Cut
<1>3. o + 1 \in DOMAIN c => c[o + 1] = 1
  BY <1>1, <1>2 DEF Apart, Big, Cut
<1>4. Cut(d, n)
  <2> SUFFICES ASSUME NEW j \in DOMAIN d PROVE j \in Nat /\ d[j] \in {1, 2} /\ j + d[j] <= n
    BY DEF Cut
  <2>1. CASE j = o \/ j = o + 1
    BY <1>1, <1>2, <2>1
  <2>2. CASE j # o /\ j # o + 1
    BY <1>1, <2>2 DEF Cut
  <2> QED
    BY <2>1, <2>2
<1>5. Covered(d, n, e, a)
  <2> SUFFICES ASSUME NEW b \in Nat, b < n, ~Has(e, a, b) PROVE \E j \in DOMAIN d : j <= b /\ b < j + d[j]
    BY DEF Covered
  <2>1. PICK j \in DOMAIN c : j <= b /\ b < j + c[j]
    BY <1>1 DEF Covered
  <2>2. CASE j = o
    <3>1. b = o \/ b = o + 1
      BY <1>2, <2>1, <2>2
    <3>2. o \in DOMAIN d /\ o + 1 \in DOMAIN d /\ o <= o /\ o < o + 1 /\ o + 1 <= o + 1 /\ o + 1 < (o + 1) + 1
      BY <1>2
    <3> QED
      BY <3>1, <3>2
  <2>3. CASE j = o + 1
    BY <1>2, <1>3, <2>1, <2>3
  <2>4. CASE j # o /\ j # o + 1
    BY <2>1, <2>4
  <2> QED
    BY <2>2, <2>3, <2>4
<1>6. \A j \in DOMAIN d : d[j] = 2 => j \in DOMAIN c /\ c[j] = 2
  OBVIOUS
<1> QED
  BY <1>4, <1>5, <1>6, FewerChunks

(* Packets no longer in flight. *)
LEMMA FewerFlying ==
    ASSUME NEW c, NEW f, NEW n, NEW p, NEW e, NEW a, NEW t, NEW seen, NEW M, NEW g,
           Agree(c, f, n, p, e, a, t, seen, M),
           DOMAIN g \subseteq DOMAIN f, \A k \in DOMAIN g : g[k] = f[k]
    PROVE  Agree(c, g, n, p, e, a, t, seen, M)
<1>1. /\ Flying(f, n, p)
      /\ \A k \in seen : Known(c, f, p, e, a, k)
      /\ \A m \in M : Told(c, f, n, p, e, a, m)
  BY DEF Agree
<1>2. ASSUME NEW k, Known(c, f, p, e, a, k) PROVE Known(c, g, p, e, a, k)
  BY <1>2 DEF Known
<1>3. ASSUME NEW m \in M PROVE Told(c, g, n, p, e, a, m)
  <2>1. Told(c, f, n, p, e, a, m)
    BY <1>1
  <2>2. m.type = "DATA" => Packet(c, g, n, p, m)
    BY <2>1 DEF Told, Packet
  <2> QED
    BY <1>2, <2>1, <2>2 DEF Told
<1>4. Flying(g, n, p)
  BY <1>1 DEF Flying
<1> QED
  BY <1>1, <1>2, <1>3, <1>4 DEF Agree

(* New bytes cut into a chunk. *)
LEMMA NewChunk ==
    ASSUME NEW c, NEW f, NEW n, NEW p, NEW e, NEW a, NEW t, NEW seen, NEW M, NEW d, NEW k \in {1, 2},
           Agree(c, f, n, p, e, a, t, seen, M),
           DOMAIN d = DOMAIN c \union {n}, d[n] = k, \A j \in DOMAIN c : j # n => d[j] = c[j]
    PROVE  Agree(d, f, n + k, p, e, a, t, seen, M)
<1>1. /\ n \in Nat /\ p \in Nat /\ t \in Int
      /\ Cut(c, n) /\ Flying(f, n, p) /\ Past(c, n, e, a, t) /\ Covered(c, n, e, a) /\ Apart(c, a, M)
      /\ \A i \in seen : Known(c, f, p, e, a, i)
      /\ \A m \in M : Told(c, f, n, p, e, a, m)
  BY DEF Agree
<1>2. n \notin DOMAIN c /\ \A j \in DOMAIN c : d[j] = c[j]
  BY <1>1 DEF Cut
<1>3. Cut(d, n + k)
  BY <1>1, <1>2 DEF Cut
<1>4. Flying(f, n + k, p)
  BY <1>1 DEF Flying
<1>5. Past(d, n + k, e, a, t)
  BY <1>1, <1>2 DEF Past
<1>6. Covered(d, n + k, e, a)
  <2> SUFFICES ASSUME NEW b \in Nat, b < n + k, ~Has(e, a, b) PROVE \E j \in DOMAIN d : j <= b /\ b < j + d[j]
    BY DEF Covered
  <2>1. CASE b < n
    <3>1. PICK j \in DOMAIN c : j <= b /\ b < j + c[j]
      BY <1>1, <2>1 DEF Covered
    <3> QED
      BY <1>2, <3>1
  <2>2. CASE ~(b < n)
    BY <1>1, <2>2
  <2> QED
    BY <2>1, <2>2
<1>7. ASSUME NEW i, Known(c, f, p, e, a, i) PROVE Known(d, f, p, e, a, i)
  BY <1>1, <1>2, <1>7 DEF Known, Flying
<1>8. ASSUME NEW m \in M PROVE Told(d, f, n + k, p, e, a, m)
  <2>1. Told(c, f, n, p, e, a, m)
    BY <1>1
  <2>2. m.type = "DATA" => Packet(d, f, n + k, p, m)
    BY <1>1, <1>2, <2>1 DEF Told, Packet
  <2> QED
    BY <1>7, <2>1, <2>2 DEF Told
<1>9. Apart(d, a, M)
  <2> SUFFICES ASSUME NEW o \in Nat, Big(d, a, M, o), Big(d, a, M, o + 1) PROVE FALSE
    BY DEF Apart
  <2>1. ASSUME NEW j \in Nat, Big(c, a, M, j) PROVE j + 2 <= n
    <3>1. ASSUME NEW m \in M, m.type = "DATA", m.offset = j, m.len = 2 PROVE j + 2 <= n
      BY <1>1, <3>1 DEF Told, Packet
    <3> QED
      BY <1>1, <2>1, <3>1 DEF Big, Cut, Past
  <2>2. ASSUME NEW j \in Nat, Big(d, a, M, j) PROVE Big(c, a, M, j) \/ j = n
    BY <1>2, <2>2 DEF Big
  <2>3. Big(c, a, M, o) \/ o = n
    BY <2>2
  <2>4. Big(c, a, M, o + 1) \/ o + 1 = n
    BY <2>2
  <2> QED
    BY <1>1, <2>1, <2>3, <2>4 DEF Apart
<1>10. n + k \in Nat
  BY <1>1
<1> QED
  BY <1>1, <1>3, <1>4, <1>5, <1>6, <1>7, <1>8, <1>9, <1>10 DEF Agree

(* A chunk is sent under the next number (sendChunk). *)
LEMMA SentChunk ==
    ASSUME NEW c, NEW f, NEW n, NEW p, NEW e, NEW a, NEW t, NEW seen, NEW M, NEW g, NEW m, NEW o \in DOMAIN c,
           Agree(c, f, n, p, e, a, t, seen, M),
           DOMAIN g = DOMAIN f \union {p}, g[p] = o, \A k \in DOMAIN f : k # p => g[k] = f[k],
           m.type = "DATA", m.pn = p, m.offset = o, m.len = c[o]
    PROVE  Agree(c, g, n, p + 1, e, a, t, seen, M \union {m})
<1>1. /\ n \in Nat /\ p \in Nat /\ t \in Int
      /\ Cut(c, n) /\ Flying(f, n, p) /\ Past(c, n, e, a, t) /\ Covered(c, n, e, a) /\ Apart(c, a, M)
      /\ \A i \in seen : Known(c, f, p, e, a, i)
      /\ \A q \in M : Told(c, f, n, p, e, a, q)
  BY DEF Agree
<1>2. o \in Nat /\ c[o] \in {1, 2} /\ o + c[o] <= n /\ p + 1 \in Nat
  BY <1>1 DEF Cut
<1>3. p \notin DOMAIN f
  BY <1>1 DEF Flying
<1>4. Flying(g, n, p + 1)
  BY <1>1, <1>2 DEF Flying
<1>5. ASSUME NEW k, Known(c, f, p, e, a, k) PROVE Known(c, g, p + 1, e, a, k)
  BY <1>1, <1>3, <1>5 DEF Known
<1>6. ASSUME NEW q \in M PROVE Told(c, g, n, p + 1, e, a, q)
  <2>1. Told(c, f, n, p, e, a, q)
    BY <1>1
  <2>2. q.type = "DATA" => Packet(c, g, n, p + 1, q)
    BY <1>1, <1>3, <2>1 DEF Told, Packet
  <2>3. q.type = "PROBE" => q.pn \in Nat /\ q.pn < p + 1 /\ q.pn \notin DOMAIN g
    BY <1>1, <2>1 DEF Told
  <2> QED
    BY <1>5, <2>1, <2>2, <2>3 DEF Told
<1>7. Told(c, g, n, p + 1, e, a, m)
  <2>1. Packet(c, g, n, p + 1, m)
    BY <1>1, <1>2 DEF Packet
  <2> QED
    BY <2>1 DEF Told
<1>8. Apart(c, a, M \union {m})
  <2>1. \A j : Big(c, a, M \union {m}, j) => Big(c, a, M, j)
    BY DEF Big
  <2> QED
    BY <1>1, <2>1 DEF Apart
<1> QED
  BY <1>1, <1>2, <1>4, <1>5, <1>6, <1>7, <1>8 DEF Agree

(* So is a packet-size probe, which carries nothing (sendProbe). *)
LEMMA SentProbe ==
    ASSUME NEW c, NEW f, NEW n, NEW p, NEW e, NEW a, NEW t, NEW seen, NEW M, NEW m,
           Agree(c, f, n, p, e, a, t, seen, M), m.type = "PROBE", m.pn = p
    PROVE  Agree(c, f, n, p + 1, e, a, t, seen, M \union {m})
<1>1. /\ n \in Nat /\ p \in Nat /\ t \in Int
      /\ Cut(c, n) /\ Flying(f, n, p) /\ Past(c, n, e, a, t) /\ Covered(c, n, e, a) /\ Apart(c, a, M)
      /\ \A i \in seen : Known(c, f, p, e, a, i)
      /\ \A q \in M : Told(c, f, n, p, e, a, q)
  BY DEF Agree
<1>2. Flying(f, n, p + 1) /\ p \notin DOMAIN f /\ p + 1 \in Nat /\ p < p + 1
  BY <1>1 DEF Flying
<1>3. ASSUME NEW k, Known(c, f, p, e, a, k) PROVE Known(c, f, p + 1, e, a, k)
  BY <1>1, <1>3 DEF Known
<1>4. ASSUME NEW q \in M PROVE Told(c, f, n, p + 1, e, a, q)
  <2>1. Told(c, f, n, p, e, a, q)
    BY <1>1
  <2>2. q.type = "DATA" => Packet(c, f, n, p + 1, q)
    BY <1>1, <2>1 DEF Told, Packet
  <2>3. q.type = "PROBE" => q.pn \in Nat /\ q.pn < p + 1 /\ q.pn \notin DOMAIN f
    BY <1>1, <2>1 DEF Told
  <2> QED
    BY <1>3, <2>1, <2>2, <2>3 DEF Told
<1>5. Told(c, f, n, p + 1, e, a, m)
  BY <1>1, <1>2 DEF Told
<1>6. Apart(c, a, M \union {m})
  <2>1. \A j : Big(c, a, M \union {m}, j) => Big(c, a, M, j)
    BY DEF Big
  <2> QED
    BY <1>1, <2>1 DEF Apart
<1> QED
  BY <1>1, <1>2, <1>3, <1>4, <1>5, <1>6 DEF Agree

(* A CLOSE, or an ACK of what the reading end may say it has seen. *)
LEMMA SentOther ==
    ASSUME NEW c, NEW f, NEW n, NEW p, NEW e, NEW a, NEW t, NEW seen, NEW M, NEW m,
           Agree(c, f, n, p, e, a, t, seen, M), m.type \notin {"DATA", "PROBE"},
           m.type = "ACK" => \A k \in m.seen : Known(c, f, p, e, a, k)
    PROVE  Agree(c, f, n, p, e, a, t, seen, M \union {m})
<1>1. Apart(c, a, M) /\ \A q \in M : Told(c, f, n, p, e, a, q)
  BY DEF Agree
<1>2. Told(c, f, n, p, e, a, m)
  BY DEF Told
<1>3. Apart(c, a, M \union {m})
  <2>1. \A j : Big(c, a, M \union {m}, j) => Big(c, a, M, j)
    BY DEF Big
  <2> QED
    BY <1>1, <2>1 DEF Apart
<1>4. \A q \in M \union {m} : Told(c, f, n, p, e, a, q)
  BY <1>1, <1>2
<1> QED
  BY <1>3, <1>4 DEF Agree

(* Fewer datagrams. *)
LEMMA FewerPackets ==
    ASSUME NEW c, NEW f, NEW n, NEW p, NEW e, NEW a, NEW t, NEW seen, NEW M, NEW N,
           Agree(c, f, n, p, e, a, t, seen, M), N \subseteq M
    PROVE  Agree(c, f, n, p, e, a, t, seen, N)
<1>1. Apart(c, a, M)
  BY DEF Agree
<1>2. Apart(c, a, N)
  <2>1. \A j : Big(c, a, N, j) => Big(c, a, M, j)
    BY DEF Big
  <2> QED
    BY <1>1, <2>1 DEF Apart
<1> QED
  BY <1>2 DEF Agree

(* The chunks of acked packets, which the reading end has (onAck). *)
LEMMA AckedChunks ==
    ASSUME NEW c, NEW f, NEW n, NEW p, NEW e, NEW a, NEW t, NEW seen, NEW M, NEW d, NEW acked,
           Agree(c, f, n, p, e, a, t, seen, M),
           acked \subseteq DOMAIN f, \A k \in acked : Known(c, f, p, e, a, k),
           DOMAIN d = DOMAIN c \ {f[k] : k \in acked}, \A j \in DOMAIN d : d[j] = c[j]
    PROVE  Agree(d, f, n, p, e, a, t, seen, M)
<1>1. Cut(c, n) /\ Covered(c, n, e, a) /\ Flying(f, n, p)
  BY DEF Agree
<1>2. Cut(d, n)
  BY <1>1 DEF Cut
<1>3. Covered(d, n, e, a)
  <2> SUFFICES ASSUME NEW b \in Nat, b < n, ~Has(e, a, b) PROVE \E j \in DOMAIN d : j <= b /\ b < j + d[j]
    BY DEF Covered
  <2>1. PICK j \in DOMAIN c : j <= b /\ b < j + c[j]
    BY <1>1 DEF Covered
  <2>2. ASSUME NEW k \in acked, j = f[k] PROVE FALSE
    <3>1. Has(e, a, j) /\ (c[j] = 2 => Has(e, a, j + 1))
      BY <2>2 DEF Known
    <3>2. b = j \/ (c[j] = 2 /\ b = j + 1)
      BY <1>1, <2>1 DEF Cut
    <3> QED
      BY <3>1, <3>2
  <2>3. j \in DOMAIN d
    BY <2>2
  <2> QED
    BY <2>1, <2>3
<1> QED
  BY <1>2, <1>3, FewerChunks

-----------------------------------------------------------------------------
(* The reading end's side of it.                                           *)

(* Bytes once had stay had. *)
More(e, a, e2, a2) == \A b \in Nat : Has(e, a, b) => Has(e2, a2, b)

(* More of them. *)
LEMMA MoreHad ==
    ASSUME NEW c, NEW f, NEW n, NEW p, NEW e, NEW a, NEW t, NEW seen, NEW M, NEW e2, NEW a2, NEW t2 \in Int,
           Agree(c, f, n, p, e, a, t, seen, M), Past(c, n, e2, a2, t2), More(e, a, e2, a2),
           \A o \in Nat : Big(c, a2, M, o) => Big(c, a, M, o)
    PROVE  /\ Agree(c, f, n, p, e2, a2, t2, seen, M)
           /\ \A k : Known(c, f, p, e, a, k) => Known(c, f, p, e2, a2, k)
<1>1. /\ n \in Nat /\ p \in Nat
      /\ Cut(c, n) /\ Flying(f, n, p) /\ Covered(c, n, e, a) /\ Apart(c, a, M)
      /\ \A i \in seen : Known(c, f, p, e, a, i)
      /\ \A q \in M : Told(c, f, n, p, e, a, q)
  BY DEF Agree
<1>2. ASSUME NEW k, Known(c, f, p, e, a, k) PROVE Known(c, f, p, e2, a2, k)
  <2>1. k \in DOMAIN f => f[k] \in Nat /\ f[k] + 1 \in Nat
    BY <1>1 DEF Flying
  <2> QED
    BY <1>2, <2>1 DEF Known, More
<1>3. Covered(c, n, e2, a2)
  BY <1>1 DEF Covered, More
<1>4. ASSUME NEW q \in M PROVE Told(c, f, n, p, e2, a2, q)
  <2>1. Told(c, f, n, p, e, a, q)
    BY <1>1
  <2> QED
    BY <1>2, <2>1 DEF Told
<1>5. Apart(c, a2, M)
  <2>1. ASSUME NEW o \in Nat PROVE ~(Big(c, a2, M, o) /\ Big(c, a2, M, o + 1))
    <3>1. o + 1 \in Nat
      OBVIOUS
    <3> QED
      BY <1>1, <3>1 DEF Apart
  <2> QED
    BY <2>1 DEF Apart
<1> QED
  BY <1>1, <1>2, <1>3, <1>4, <1>5 DEF Agree

(* What a packet's arrival gives: all there is left of its chunk. *)
Takes(c, e, a, m) ==
    /\ Has(e, a, m.offset)
    /\ (m.offset \in DOMAIN c /\ c[m.offset] = 2) => Has(e, a, m.offset + 1)

(* A chunk kept past the gap. *)
LEMMA KeptAhead ==
    ASSUME NEW c, NEW f, NEW n, NEW p, NEW e, NEW a, NEW t, NEW seen, NEW M, NEW a2, NEW t2 \in Int, NEW m \in M,
           Agree(c, f, n, p, e, a, t, seen, M), m.type = "DATA",
           m.offset > e, m.offset \notin DOMAIN a,
           DOMAIN a2 = DOMAIN a \union {m.offset}, a2[m.offset] = m.len,
           \A o \in DOMAIN a : o # m.offset => a2[o] = a[o],
           t <= t2, m.offset + m.len <= t2
    PROVE  /\ Agree(c, f, n, p, e, a2, t2, seen, M) /\ Takes(c, e, a2, m)
           /\ \A k : Known(c, f, p, e, a, k) => Known(c, f, p, e, a2, k)
<1>1. n \in Nat /\ t \in Int /\ Past(c, n, e, a, t) /\ Packet(c, f, n, p, m) /\ Cut(c, n)
  BY DEF Agree, Told
<1>2. m.offset \in Nat /\ m.len \in {1, 2} /\ m.offset + m.len <= n /\ (m.offset \in DOMAIN c => c[m.offset] <= m.len)
  BY <1>1 DEF Packet
<1>3. \A o \in DOMAIN a : o # m.offset /\ a2[o] = a[o]
  OBVIOUS
<1>4. Past(c, n, e, a2, t2)
  <2> SUFFICES ASSUME NEW o \in DOMAIN a2
               PROVE  /\ o \in Nat /\ a2[o] \in {1, 2} /\ o + a2[o] <= n /\ o + a2[o] <= t2
                      /\ o \in DOMAIN c => c[o] <= a2[o]
                      /\ o # e /\ (a2[o] = 2 => e # o + 1)
    BY <1>1 DEF Past
  <2>1. CASE o = m.offset
    <3>1. e \in Nat
      BY <1>1 DEF Past
    <3> QED
      BY <1>2, <2>1, <3>1
  <2>2. CASE o # m.offset
    <3>1. o \in DOMAIN a /\ a2[o] = a[o]
      BY <2>2
    <3> QED
      BY <1>1, <3>1 DEF Past
  <2> QED
    BY <2>1, <2>2
<1>5. More(e, a, e, a2)
  BY <1>3 DEF More, Has
<1>6. \A o \in Nat : Big(c, a2, M, o) => Big(c, a, M, o)
  BY <1>3 DEF Big
<1>7. Takes(c, e, a2, m)
  <2>1. m.offset \in DOMAIN a2
    OBVIOUS
  <2>2. Has(e, a2, m.offset)
    BY <1>2, <2>1 DEF Has
  <2>3. m.len = 2 => Has(e, a2, m.offset + 1)
    BY <1>2, <2>1 DEF Has
  <2> QED
    BY <1>1, <1>2, <2>2, <2>3 DEF Takes, Cut
<1> QED
  BY <1>4, <1>5, <1>6, <1>7, MoreHad

(* A chunk the reading end knows. *)
LEMMA KnownChunk ==
    ASSUME NEW c, NEW f, NEW n, NEW p, NEW e, NEW a, NEW t, NEW seen, NEW M, NEW t2 \in Int, NEW m \in M,
           Agree(c, f, n, p, e, a, t, seen, M), m.type = "DATA",
           m.offset < e \/ m.offset \in DOMAIN a, t <= t2
    PROVE  /\ Agree(c, f, n, p, e, a, t2, seen, M) /\ Takes(c, e, a, m)
<1>1. n \in Nat /\ t \in Int /\ Past(c, n, e, a, t) /\ Packet(c, f, n, p, m) /\ Cut(c, n)
  BY DEF Agree, Told
<1>2. Past(c, n, e, a, t2)
  BY <1>1 DEF Past
<1>3. More(e, a, e, a)
  BY DEF More
<1>4. Takes(c, e, a, m)
  <2>1. m.offset \in Nat /\ e \in Nat
    BY <1>1 DEF Packet, Past
  <2>2. CASE m.offset < e
    <3>1. Has(e, a, m.offset)
      BY <2>2 DEF Has
    <3>2. m.offset \in DOMAIN c /\ c[m.offset] = 2 => e # m.offset + 1
      BY <1>1 DEF Past
    <3>3. m.offset \in DOMAIN c /\ c[m.offset] = 2 => m.offset + 1 < e
      BY <2>1, <2>2, <3>2
    <3> QED
      BY <3>1, <3>3 DEF Takes, Has
  <2>3. CASE m.offset \in DOMAIN a
    <3>1. a[m.offset] \in {1, 2} /\ (m.offset \in DOMAIN c => c[m.offset] <= a[m.offset])
      BY <1>1, <2>3 DEF Past
    <3>2. Has(e, a, m.offset)
      BY <2>1, <2>3, <3>1 DEF Has
    <3>3. m.offset \in DOMAIN c /\ c[m.offset] = 2 => m.offset + 1 < m.offset + a[m.offset]
      BY <2>1, <3>1
    <3> QED
      BY <2>1, <2>3, <3>2, <3>3 DEF Takes, Has
  <2> QED
    BY <2>2, <2>3
<1> QED
  BY <1>2, <1>3, <1>4, MoreHad

(* A place no chunk of two that the reading end keeps past the gap, or the *)
(* writing end still has, is cut by.                                       *)
Edge(c, a, q) == /\ \A o \in DOMAIN c : c[o] = 2 => q # o + 1
                 /\ \A o \in DOMAIN a : a[o] = 2 => q # o + 1

(* Where the bytes in order end once chunks past the gap have joined them: *)
(* at an edge, where none starts, past all those that joined.              *)
Landing(c, a, from, n, z, J) ==
    /\ z \in Nat /\ from <= z /\ z <= n /\ z \notin DOMAIN a /\ Edge(c, a, z)
    /\ \A j \in J : j \in DOMAIN a /\ j + a[j] <= z

(* A chunk joins the bytes in order. *)
LEMMA JoinedChunk ==
    ASSUME NEW c, NEW f, NEW n, NEW p, NEW e, NEW a, NEW t, NEW seen, NEW M, NEW m \in M,
           NEW e2, NEW a2, NEW t2 \in Int, NEW J,
           Agree(c, f, n, p, e, a, t, seen, M), m.type = "DATA",
           m.offset = e, Landing(c, a, e + m.len, n, e2, J), t <= t2,
           \/ e2 = t2 /\ DOMAIN a2 = {}
           \/ DOMAIN a2 = DOMAIN a \ J /\ \A o \in DOMAIN a2 : a2[o] = a[o]
    PROVE  /\ Agree(c, f, n, p, e2, a2, t2, seen, M) /\ Takes(c, e2, a2, m)
           /\ \A k : Known(c, f, p, e, a, k) => Known(c, f, p, e2, a2, k)
<1>1. n \in Nat /\ t \in Int /\ Past(c, n, e, a, t) /\ Packet(c, f, n, p, m) /\ Cut(c, n)
  BY DEF Agree, Told
<1>2. /\ e \in Nat /\ m.len \in {1, 2} /\ e2 \in Nat /\ e + m.len <= e2 /\ e2 <= n
      /\ e \in DOMAIN c => c[e] <= m.len
  BY <1>1 DEF Past, Packet, Landing
<1>3. DOMAIN a2 \subseteq DOMAIN a /\ \A o \in DOMAIN a2 : a2[o] = a[o]
  OBVIOUS
<1>4. Past(c, n, e2, a2, t2)
  <2>1. \A o \in DOMAIN c : c[o] = 2 => e2 # o + 1
    BY DEF Landing, Edge
  <2>2. ASSUME NEW o \in DOMAIN a2
        PROVE  /\ o \in Nat /\ a2[o] \in {1, 2} /\ o + a2[o] <= n /\ o + a2[o] <= t2
               /\ o \in DOMAIN c => c[o] <= a2[o]
               /\ o # e2 /\ (a2[o] = 2 => e2 # o + 1)
    <3>1. o \in DOMAIN a /\ a2[o] = a[o]
      BY <1>3
    <3>2. o # e2 /\ (a[o] = 2 => e2 # o + 1)
      BY <3>1 DEF Landing, Edge
    <3> QED
      BY <1>1, <3>1, <3>2 DEF Past
  <2> QED
    BY <1>2, <2>1, <2>2 DEF Past
<1>5. More(e, a, e2, a2)
  <2> SUFFICES ASSUME NEW b \in Nat, Has(e, a, b) PROVE Has(e2, a2, b)
    BY DEF More
  <2>1. CASE b < e
    BY <1>2, <2>1 DEF Has
  <2>2. ASSUME NEW o \in DOMAIN a, o <= b, b < o + a[o] PROVE Has(e2, a2, b)
    <3>1. o \in Nat /\ a[o] \in {1, 2} /\ o + a[o] <= t
      BY <1>1 DEF Past
    <3>2. CASE e2 = t2 /\ DOMAIN a2 = {}
      <4>1. b < e2
        BY <1>1, <1>2, <2>2, <3>1, <3>2
      <4> QED
        BY <4>1 DEF Has
    <3>3. CASE o \in J
      <4>1. o + a[o] <= e2
        BY <3>3 DEF Landing
      <4>2. b < e2
        BY <1>2, <2>2, <3>1, <4>1
      <4> QED
        BY <4>2 DEF Has
    <3>4. CASE o \in DOMAIN a2
      BY <1>3, <2>2, <3>4 DEF Has
    <3> QED
      BY <3>2, <3>3, <3>4
  <2> QED
    BY <2>1, <2>2 DEF Has
<1>6. \A o \in Nat : Big(c, a2, M, o) => Big(c, a, M, o)
  BY <1>3 DEF Big
<1>7. Takes(c, e2, a2, m)
  <2>1. e < e2 /\ (e \in DOMAIN c /\ c[e] = 2 => e + 1 < e2)
    BY <1>1, <1>2 DEF Cut
  <2> QED
    BY <2>1 DEF Takes, Has
<1> QED
  BY <1>4, <1>5, <1>6, <1>7, MoreHad

(* The chunk that joins them ends at an edge. *)
LEMMA FirstEdge ==
    ASSUME NEW c, NEW f, NEW n, NEW p, NEW e, NEW a, NEW t, NEW seen, NEW M, NEW m \in M,
           Agree(c, f, n, p, e, a, t, seen, M), m.type = "DATA", m.offset = e
    PROVE  Edge(c, a, e + m.len)
<1>1. Past(c, n, e, a, t) /\ Packet(c, f, n, p, m) /\ Cut(c, n) /\ Apart(c, a, M)
  BY DEF Agree, Told
<1>2. /\ e \in Nat /\ m.len \in {1, 2} /\ (e \in DOMAIN c => c[e] <= m.len) /\ e \notin DOMAIN a
      /\ DOMAIN c \subseteq Nat /\ DOMAIN a \subseteq Nat
  BY <1>1 DEF Past, Packet, Cut
<1>3. CASE m.len = 1
  BY <1>2, <1>3 DEF Edge
<1>4. CASE m.len = 2
  <2>1. Big(c, a, M, e)
    BY <1>4 DEF Big
  <2>2. ~Big(c, a, M, e + 1)
    BY <1>1, <1>2, <2>1 DEF Apart
  <2>3. \A o \in Nat : e + 2 = o + 1 => o = e + 1
    BY <1>2
  <2> QED
    BY <1>2, <1>4, <2>2, <2>3 DEF Edge, Big
<1> QED
  BY <1>2, <1>3, <1>4

(* So does each that follows on. *)
LEMMA NextEdge ==
    ASSUME NEW c, NEW f, NEW n, NEW p, NEW e, NEW a, NEW t, NEW seen, NEW M, NEW q \in DOMAIN a,
           Agree(c, f, n, p, e, a, t, seen, M)
    PROVE  Edge(c, a, q + a[q])
<1>1. Past(c, n, e, a, t) /\ Cut(c, n) /\ Apart(c, a, M)
  BY DEF Agree
<1>2. /\ q \in Nat /\ a[q] \in {1, 2} /\ (q \in DOMAIN c => c[q] <= a[q])
      /\ DOMAIN c \subseteq Nat /\ DOMAIN a \subseteq Nat
  BY <1>1 DEF Past, Cut
<1>3. CASE a[q] = 1
  BY <1>2, <1>3 DEF Edge
<1>4. CASE a[q] = 2
  <2>1. Big(c, a, M, q)
    BY <1>4 DEF Big
  <2>2. ~Big(c, a, M, q + 1)
    BY <1>1, <1>2, <2>1 DEF Apart
  <2>3. \A o \in Nat : q + 2 = o + 1 => o = q + 1
    BY <1>2
  <2> QED
    BY <1>2, <1>4, <2>2, <2>3 DEF Edge, Big
<1> QED
  BY <1>2, <1>3, <1>4

-----------------------------------------------------------------------------
(* The walk ends at a landing: it moves on with each chunk it meets, and   *)
(* there is no room for Total of them.                                     *)
LEMMA JoinLands ==
    ASSUME NEW c, NEW f, NEW n, NEW p, NEW e, NEW a, NEW t, NEW seen, NEW M, NEW m \in M,
           Agree(c, f, n, p, e, a, t, seen, M), m.type = "DATA", m.offset = e, n <= Total
    PROVE  Landing(c, a, e + m.len, n, Joined(a, e + m.len).end, Joined(a, e + m.len).chunks)
<1> DEFINE from == e + m.len
           reach == CHOOSE g : Walks(a, from, Total, g)
           Good(k) == /\ reach[k] \in from..n /\ Edge(c, a, reach[k])
                      /\ reach[k] >= from + k \/ reach[k] \notin DOMAIN a
           T == {k \in 0..Total : Good(k)}
<1>1. Total \in Nat
  BY StreamAssumption
<1>2. /\ n \in Nat /\ Past(c, n, e, a, t) /\ Packet(c, f, n, p, m) /\ e \in Nat /\ m.len \in {1, 2}
      /\ from \in Nat /\ 1 <= from /\ from <= n
  BY DEF Agree, Told, Past, Packet
<1>3. Edge(c, a, from)
  BY FirstEdge
<1> HIDE DEF from
<1>4. Walks(a, from, Total, reach)
  BY <1>1, WalksExist
<1>5. Joined(a, from).end = reach[Total] /\ Joined(a, from).chunks = {reach[k] : k \in 0..Total} \intersect DOMAIN a
  BY DEF Joined, Walks
<1> HIDE DEF reach
<1>6. reach[0] = from /\ \A k \in 1..Total : reach[k] = Step(a, reach[k - 1])
  BY <1>1, <1>4 DEF Walks, Step
<1>7. 0 \in T
  BY <1>1, <1>2, <1>3, <1>6
<1>8. ASSUME NEW k \in 1..Total, k - 1 \in T PROVE k \in T
  <2> DEFINE q == reach[k - 1]
  <2>1. reach[k] = Step(a, q) /\ q \in from..n /\ Edge(c, a, q) /\ (q >= from + (k - 1) \/ q \notin DOMAIN a)
    BY <1>6, <1>8
  <2> HIDE DEF q
  <2>2. CASE q \in DOMAIN a
    <3>1. reach[k] = q + a[q] /\ a[q] \in {1, 2} /\ q + a[q] <= n /\ q \in Nat
      BY <1>2, <2>1, <2>2 DEF Step, Past
    <3>2. Edge(c, a, q + a[q])
      BY <2>2, NextEdge
    <3>3. reach[k] \in from..n /\ reach[k] >= from + k
      BY <1>2, <2>1, <2>2, <3>1
    <3> QED
      BY <1>1, <3>1, <3>2, <3>3
  <2>3. CASE q \notin DOMAIN a
    <3>1. reach[k] = q
      BY <2>1, <2>3 DEF Step
    <3> QED
      BY <1>1, <2>1, <2>3, <3>1
  <2> QED
    BY <2>2, <2>3
<1> HIDE DEF T
<1>9. \A k \in 0..Total : k \in T
  BY <1>1, <1>7, <1>8, UpTo
<1>10. \A k \in 0..Total : Good(k)
  BY <1>9 DEF T
<1>11. reach[Total] \in from..n /\ Edge(c, a, reach[Total]) /\ reach[Total] \notin DOMAIN a
  <2>1. Good(Total)
    BY <1>1, <1>10
  <2> QED
    BY <1>1, <1>2, <2>1
<1>12. ASSUME NEW k \in 0..Total, reach[k] \in DOMAIN a PROVE reach[k] + a[reach[k]] <= reach[Total]
  <2> DEFINE j == reach[k]
             b == j + a[j]
             U == {i \in 0..Total : i > k => reach[i] >= b}
  <2>1. k # Total /\ j \in Nat /\ a[j] \in {1, 2} /\ b \in Nat
    BY <1>2, <1>11, <1>12 DEF Past
  <2>2. 0 \in U
    BY <1>1
  <2>3. ASSUME NEW i \in 1..Total, i - 1 \in U PROVE i \in U
    <3>1. reach[i] = Step(a, reach[i - 1]) /\ reach[i - 1] \in Nat
      <4>1. Good(i - 1)
        BY <1>1, <1>10
      <4> QED
        BY <1>2, <1>6, <4>1
    <3>2. CASE i - 1 = k
      BY <1>12, <2>1, <3>1, <3>2 DEF Step
    <3>3. CASE i - 1 > k
      <4>1. reach[i - 1] >= b
        BY <2>3, <3>3
      <4> DEFINE q == reach[i - 1]
      <4>2. q >= b /\ q \in Nat /\ reach[i] = Step(a, q)
        BY <3>1, <4>1
      <4> HIDE DEF q, b
      <4>3. q \in DOMAIN a => a[q] \in {1, 2}
        BY <1>2 DEF Past
      <4>4. reach[i] >= b
        BY <2>1, <4>2, <4>3 DEF Step
      <4> QED
        BY <4>4
    <3>4. CASE i - 1 < k
      BY <3>4
    <3> QED
      BY <1>1, <3>2, <3>3, <3>4
  <2> HIDE DEF U
  <2>4. \A i \in 0..Total : i \in U
    BY <1>1, <2>2, <2>3, UpTo
  <2>5. Total \in U /\ Total > k
    BY <1>1, <2>1, <2>4
  <2> QED
    BY <1>11, <1>2, <2>1, <2>5 DEF U
<1>13. Landing(c, a, from, n, Joined(a, from).end, Joined(a, from).chunks)
  <2>1. reach[Total] \in Nat
    BY <1>2, <1>11
  <2>2. ASSUME NEW j \in Joined(a, from).chunks PROVE j \in DOMAIN a /\ j + a[j] <= reach[Total]
    BY <1>5, <1>12
  <2> QED
    BY <1>5, <1>11, <1>2, <2>1, <2>2 DEF Landing
<1> QED
  BY <1>13 DEF from

-----------------------------------------------------------------------------
Gap(y) == y.taken + Len(y.held)

(* The two ends and the datagrams B under way, with those they emit, agree. *)
Linked(x, y, B) ==
    \E M : /\ B \subseteq M /\ x.emitted \in Seq(M) /\ y.emitted \in Seq(M)
           /\ Agree(x.chunks, x.inFlight, x.nextOffset, x.nextPn, Gap(y), y.ahead, y.furthest, y.seen, M)

(* What a step of the writing end keeps. *)
Keeps(x, z) == /\ z.gone = x.gone /\ z.drained = x.drained
               /\ \A y, B : Linked(x, y, B) => Linked(z, y, B)

(* Steps that keep it follow one another. *)
LEMMA KeepsOn ==
    ASSUME NEW x, NEW y, NEW z, Keeps(x, y), Keeps(y, z)
    PROVE  Keeps(x, z)
BY DEF Keeps

(* Only chunks, packets in flight and what is emitted count. *)
LEMMA AlikeKeeps ==
    ASSUME NEW x, NEW z,
           z.gone = x.gone, z.drained = x.drained, z.chunks = x.chunks, z.inFlight = x.inFlight,
           z.nextOffset = x.nextOffset, z.nextPn = x.nextPn, z.emitted = x.emitted
    PROVE  Keeps(x, z)
BY DEF Keeps, Linked

(* A chunk is split. *)
LEMMA FitKeeps ==
    ASSUME NEW x, NEW o, SenderOK(x), o \in DOMAIN x.chunks
    PROVE  Keeps(x, fit(x, o))
<1> DEFINE p == x.packetBytes
           n == x.chunks[o]
           c == Put(Put(x.chunks, o + p, n - p), o, p)
           l == Append(x.lost, o + p)
           z == [[x EXCEPT !.chunks = c] EXCEPT !.lost = l]
<1>1. CASE n <= p
  <2>1. fit(x, o) = x
    BY <1>1 DEF fit
  <2> QED
    BY <2>1 DEF Keeps
<1>2. CASE ~(n <= p)
  <2>1. fit(x, o) = z
    BY <1>2 DEF fit, FitUnqueued
  <2>2. /\ DOMAIN c = DOMAIN x.chunks \union {o, o + p} /\ c[o] = p /\ (o # o + p => c[o + p] = n - p)
        /\ \A j \in DOMAIN x.chunks : j # o /\ j # o + p => c[j] = x.chunks[j]
    BY DEF Put
  <2> HIDE DEF c, l
  <2>3. /\ z.gone = x.gone /\ z.drained = x.drained /\ z.chunks = c /\ z.inFlight = x.inFlight
        /\ z.nextOffset = x.nextOffset /\ z.nextPn = x.nextPn /\ z.emitted = x.emitted
    BY DEF SenderOK, SenderFields
  <2> HIDE DEF z
  <2>4. ASSUME NEW y, NEW B, Linked(x, y, B) PROVE Linked(z, y, B)
    <3>1. PICK M :
            /\ B \subseteq M /\ x.emitted \in Seq(M) /\ y.emitted \in Seq(M)
            /\ Agree(x.chunks, x.inFlight, x.nextOffset, x.nextPn, Gap(y), y.ahead, y.furthest, y.seen, M)
      BY <2>4 DEF Linked
    <3>2. o \in Nat /\ n \in {1, 2} /\ p \in {1, 2}
      BY <3>1 DEF Agree, Cut, SenderOK
    <3>3. n = 2 /\ p = 1 /\ o # o + 1
      BY <1>2, <3>2
    <3>4. /\ x.chunks[o] = 2 /\ DOMAIN c = DOMAIN x.chunks \union {o, o + 1} /\ c[o] = 1 /\ c[o + 1] = 1
          /\ \A j \in DOMAIN x.chunks : j # o /\ j # o + 1 => c[j] = x.chunks[j]
      BY <2>2, <3>3
    <3>5. Agree(c, x.inFlight, x.nextOffset, x.nextPn, Gap(y), y.ahead, y.furthest, y.seen, M)
      BY <3>1, <3>4, SplitChunk
    <3> QED
      BY <2>3, <3>1, <3>5 DEF Linked
  <2> QED
    BY <2>1, <2>3, <2>4 DEF Keeps
<1> QED
  BY <1>1, <1>2

(* A chunk is sent. *)
LEMMA SendChunkKeeps ==
    ASSUME NEW x, NEW o, SenderOK(x), o \in DOMAIN x.chunks
    PROVE  Keeps(x, sendChunk(x, o))
<1> DEFINE m == Data(x.nextPn, o, x.chunks[o], Min({x.oldestPn} \union ToSet(x.probes)))
           f == Put(x.inFlight, x.nextPn, o)
           q == Append(x.emitted, m)
           z == [[[x EXCEPT !.nextPn = @ + 1] EXCEPT !.inFlight = f] EXCEPT !.emitted = q]
<1>1. sendChunk(x, o) = z
  BY DEF sendChunk
<1>2. m.type = "DATA" /\ m.pn = x.nextPn /\ m.offset = o /\ m.len = x.chunks[o]
  BY DEF Data
<1>3. /\ DOMAIN f = DOMAIN x.inFlight \union {x.nextPn} /\ f[x.nextPn] = o
      /\ \A k \in DOMAIN x.inFlight : k # x.nextPn => f[k] = x.inFlight[k]
  BY DEF Put
<1> HIDE DEF m, f
<1>q. q = Append(x.emitted, m)
  OBVIOUS
<1> HIDE DEF q
<1>4. /\ z.gone = x.gone /\ z.drained = x.drained /\ z.chunks = x.chunks /\ z.inFlight = f
      /\ z.nextOffset = x.nextOffset /\ z.nextPn = x.nextPn + 1 /\ z.emitted = q
  BY DEF SenderOK, SenderFields
<1> HIDE DEF z
<1>5. ASSUME NEW y, NEW B, Linked(x, y, B) PROVE Linked(z, y, B)
  <2>1. PICK M :
          /\ B \subseteq M /\ x.emitted \in Seq(M) /\ y.emitted \in Seq(M)
          /\ Agree(x.chunks, x.inFlight, x.nextOffset, x.nextPn, Gap(y), y.ahead, y.furthest, y.seen, M)
    BY <1>5 DEF Linked
  <2> DEFINE N == M \union {m}
  <2>2. B \subseteq N /\ y.emitted \in Seq(N) /\ x.emitted \in Seq(N)
    BY <2>1
  <2>3. q \in Seq(N)
    BY <1>q, <2>2
  <2>4. Agree(x.chunks, f, x.nextOffset, x.nextPn + 1, Gap(y), y.ahead, y.furthest, y.seen, N)
    BY <1>2, <1>3, <2>1, SentChunk
  <2> HIDE DEF N
  <2> QED
    BY <1>4, <2>2, <2>3, <2>4 DEF Linked
<1> QED
  BY <1>1, <1>4, <1>5 DEF Keeps

(* The chunk to send next is chosen. *)
LEMMA NextChunkKeeps ==
    ASSUME NEW x, NEW probe, SenderOK(x)
    PROVE  Keeps(x, nextChunk(x, probe).x)
<1> DEFINE live == {i \in 1..Len(x.lost) : x.lost[i] \in DOMAIN x.chunks}
           first == x.lost[Min(live)]
           u == x.written - x.nextOffset
           v == x.peerCredit - x.nextOffset
           n == Min({u, x.packetBytes, v})
           none == [x EXCEPT !.lost = << >>]
           next == nextChunk(x, probe)
<1>1. Len(x.lost) \in Nat
  BY DEF SenderOK, IsSeq
<1>2. SenderOK(none) /\ none.chunks = x.chunks /\ none.nextOffset = x.nextOffset /\ Keeps(x, none)
  <2>1. IsSeq(<< >>)
    BY DEF IsSeq
  <2>2. SenderOK(none)
    BY <2>1 DEF SenderOK, SenderFields
  <2>3. /\ none.gone = x.gone /\ none.drained = x.drained /\ none.chunks = x.chunks /\ none.inFlight = x.inFlight
        /\ none.nextOffset = x.nextOffset /\ none.nextPn = x.nextPn /\ none.emitted = x.emitted
    BY DEF SenderOK, SenderFields
  <2> HIDE DEF none
  <2> QED
    BY <2>2, <2>3, AlikeKeeps
<1>3. CASE live # {}
  <2>1. live \in SUBSET Nat
    BY <1>1
  <2>2. Min(live) \in live
    BY <2>1, <1>3, MinNat
  <2> DEFINE l == SubSeq(x.lost, Min(live) + 1, Len(x.lost))
             y == [x EXCEPT !.lost = l]
  <2>3. first \in DOMAIN x.chunks /\ Min(live) + 1 \in Nat \ {0}
    BY <2>1, <2>2
  <2>4. next.x = fit(y, first)
    BY <1>3 DEF nextChunk
  <2> HIDE DEF live, first, next
  <2>5. IsSeq(l)
    BY <2>3, SubSeqSeq DEF SenderOK
  <2> HIDE DEF l
  <2>6. SenderOK(y)
    BY <2>5 DEF SenderOK, SenderFields
  <2>7. /\ y.gone = x.gone /\ y.drained = x.drained /\ y.chunks = x.chunks /\ y.inFlight = x.inFlight
        /\ y.nextOffset = x.nextOffset /\ y.nextPn = x.nextPn /\ y.emitted = x.emitted
    BY DEF SenderOK, SenderFields
  <2> HIDE DEF y
  <2>8. Keeps(x, y)
    BY <2>7, AlikeKeeps
  <2>9. Keeps(y, fit(y, first))
    BY <2>3, <2>6, <2>7, FitKeeps
  <2>10. Keeps(x, next.x)
    BY <2>4, <2>8, <2>9, KeepsOn
  <2> QED
    BY <2>10 DEF next
<1>4. CASE live = {} /\ n > 0
  <2>1. u \in Int /\ v \in Int /\ x.packetBytes \in Int /\ x.packetBytes \in {1, 2}
    BY DEF SenderOK
  <2>2. n \in {1, 2}
    <3> HIDE DEF u, v
    <3>1. n \in {u, x.packetBytes, v} /\ n <= x.packetBytes
      BY <2>1, MinThree
    <3>2. n \in Int
      BY <2>1, <3>1
    <3> QED
      BY <1>4, <2>1, <3>1, <3>2
  <2> DEFINE c == Put(x.chunks, x.nextOffset, n)
             e == x.nextOffset + n
             y == [[none EXCEPT !.chunks = c] EXCEPT !.nextOffset = e]
  <2>3. next.x = y
    BY <1>2, <1>4 DEF nextChunk
  <2>4. /\ DOMAIN c = DOMAIN x.chunks \union {x.nextOffset} /\ c[x.nextOffset] = n
        /\ \A j \in DOMAIN x.chunks : j # x.nextOffset => c[j] = x.chunks[j]
    BY DEF Put
  <2> HIDE DEF n, live, next, none, c
  <2>e. e = x.nextOffset + n
    OBVIOUS
  <2> HIDE DEF e
  <2>5. /\ y.gone = none.gone /\ y.drained = none.drained /\ y.chunks = c /\ y.inFlight = none.inFlight
        /\ y.nextOffset = e /\ y.nextPn = none.nextPn /\ y.emitted = none.emitted
    BY <1>2 DEF SenderOK, SenderFields
  <2> HIDE DEF y
  <2>6. ASSUME NEW h, NEW B, Linked(none, h, B) PROVE Linked(y, h, B)
    <3>1. PICK M :
            /\ B \subseteq M /\ none.emitted \in Seq(M) /\ h.emitted \in Seq(M)
            /\ Agree(x.chunks, none.inFlight, x.nextOffset, none.nextPn, Gap(h), h.ahead, h.furthest, h.seen, M)
      BY <1>2, <2>6 DEF Linked
    <3>2. Agree(c, none.inFlight, x.nextOffset + n, none.nextPn, Gap(h), h.ahead, h.furthest, h.seen, M)
      BY <2>2, <2>4, <3>1, NewChunk, ZenonT(40)
    <3> QED
      BY <2>e, <2>5, <3>1, <3>2 DEF Linked
  <2>7. Keeps(none, y)
    BY <2>5, <2>6 DEF Keeps
  <2>8. Keeps(x, next.x)
    BY <1>2, <2>3, <2>7, KeepsOn
  <2> QED
    BY <2>8 DEF next
<1>5. CASE live = {} /\ ~(n > 0) /\ probe /\ DOMAIN x.chunks # {}
  <2>1. oldestChunk(x) \in DOMAIN x.chunks
    <3>1. DOMAIN x.chunks \in SUBSET Nat
      BY DEF SenderOK, ChunksOK
    <3> QED
      BY <1>5, <3>1, MinNat DEF oldestChunk
  <2>2. next.x = fit(none, oldestChunk(x))
    BY <1>5 DEF nextChunk
  <2> HIDE DEF n, live, next, none
  <2>3. Keeps(none, fit(none, oldestChunk(x)))
    BY <2>1, <1>2, FitKeeps
  <2>4. Keeps(x, next.x)
    BY <1>2, <2>2, <2>3, KeepsOn
  <2> QED
    BY <2>4 DEF next
<1>6. CASE live = {} /\ ~(n > 0) /\ ~(probe /\ DOMAIN x.chunks # {})
  <2>1. next.x = none
    BY <1>6 DEF nextChunk
  <2> HIDE DEF n, live, next, none
  <2>2. Keeps(x, next.x)
    BY <1>2, <2>1
  <2> QED
    BY <2>2 DEF next
<1> QED
  BY <1>3, <1>4, <1>5, <1>6

(* One turn of flush. *)
LEMMA SendsOneKeeps ==
    ASSUME NEW x, NEW probe, NEW w, SenderOK(x)
    PROVE  Keeps(x, SendsOne(x, probe, w))
<1> DEFINE next == nextChunk(x, probe)
<1>1. Chooses(x, next) /\ Keeps(x, next.x)
  BY NextChunkOK, NextChunkKeeps
<1>2. SendsOne(x, probe, w) \in {x, next.x} \/ (~(next.offset < 0) /\ SendsOne(x, probe, w) = sendChunk(next.x, next.offset))
  BY DEF SendsOne
<1> HIDE DEF next
<1>3. Keeps(x, x)
  BY DEF Keeps
<1>4. ASSUME ~(next.offset < 0) PROVE Keeps(x, sendChunk(next.x, next.offset))
  <2>1. next.offset \in DOMAIN next.x.chunks /\ SenderOK(next.x)
    BY <1>1, <1>4 DEF Chooses, Goes
  <2>2. Keeps(next.x, sendChunk(next.x, next.offset))
    BY <2>1, SendChunkKeeps
  <2> QED
    BY <1>1, <2>2, KeepsOn
<1> QED
  BY <1>1, <1>2, <1>3, <1>4

(* All of them. *)
LEMMA FlushKeeps ==
    ASSUME NEW x, NEW probes, NEW w, SenderOK(x)
    PROVE  Keeps(x, flush(x, probes, w))
<1> DEFINE N == Total + 2
           sent == CHOOSE f : Turns(x, probes, w, N, f)
<1>1. N \in Nat
  BY StreamAssumption
<1>2. Turns(x, probes, w, N, sent)
  <2> HIDE DEF N
  <2> QED
    BY <1>1, TurnsExist
<1>3. flush(x, probes, w) = IF x.gone THEN x ELSE sent[N]
  BY DEF flush, Turns
<1> HIDE DEF sent, N
<1> DEFINE T == {k \in 0..N : Goes(x, sent[k]) /\ Keeps(x, sent[k])}
<1>4. 0 \in T
  <2>1. sent[0] = x
    BY <1>1, <1>2 DEF Turns
  <2> QED
    BY <1>1, <2>1 DEF Goes, Keeps
<1>5. ASSUME NEW k \in 1..N, k - 1 \in T PROVE k \in T
  <2> DEFINE y == sent[k - 1]
  <2>1. sent[k] = CHOOSE z \in {SendsOne(u, k <= probes, w) : u \in {y}} : TRUE
    BY <1>1, <1>2 DEF Turns
  <2> HIDE DEF y
  <2>2. sent[k] = SendsOne(y, k <= probes, w)
    BY <2>1
  <2>3. Goes(x, y) /\ Keeps(x, y) /\ SenderOK(y)
    BY <1>5 DEF y, Goes
  <2>4. Goes(y, sent[k]) /\ Keeps(y, sent[k])
    BY <2>2, <2>3, SendsOneOK, SendsOneKeeps
  <2>5. Keeps(x, sent[k])
    BY <2>3, <2>4, KeepsOn
  <2>6. Goes(x, sent[k])
    BY <2>3, <2>4 DEF Goes
  <2> QED
    BY <2>5, <2>6
<1> HIDE DEF T
<1>6. \A k \in 0..N : k \in T
  BY <1>1, <1>4, <1>5, UpTo
<1>7. Keeps(x, sent[N])
  BY <1>1, <1>6 DEF T
<1>8. Keeps(x, x)
  BY DEF Keeps
<1> QED
  BY <1>3, <1>7, <1>8

(* A map with fewer keys. *)
LEMMA RestrictIs ==
    ASSUME NEW f, NEW S
    PROVE  /\ DOMAIN Restrict(f, DOMAIN f \ S) = DOMAIN f \ S
           /\ \A k \in DOMAIN f \ S : Restrict(f, DOMAIN f \ S)[k] = f[k]
BY DEF Restrict

(* Packets are called lost. *)
LEMMA DetectLossKeeps ==
    ASSUME NEW x, NEW aged, SenderOK(x)
    PROVE  Keeps(x, detectLoss(x, aged))
<1> DEFINE gone == {pn \in Passed(x) : x.largestAcked - pn >= 3 \/ pn \in aged}
           l == Requeues(x, gone)
           f == Restrict(x.inFlight, DOMAIN x.inFlight \ gone)
           y == [[x EXCEPT !.lost = l] EXCEPT !.inFlight = f]
           o == Min(DOMAIN y.inFlight \union {y.nextPn})
           z == [y EXCEPT !.oldestPn = o]
<1>1. detectLoss(x, aged) = z
  BY DEF detectLoss, advanceOldest
<1>2. DOMAIN f \subseteq DOMAIN x.inFlight /\ \A k \in DOMAIN f : f[k] = x.inFlight[k]
  <2> HIDE DEF gone, l, o
  <2>1. DOMAIN f = DOMAIN x.inFlight \ gone /\ \A k \in DOMAIN x.inFlight \ gone : f[k] = x.inFlight[k]
    BY RestrictIs
  <2> HIDE DEF f
  <2> QED
    BY <2>1
<1> HIDE DEF gone, l, f, o
<1>3. /\ y.gone = x.gone /\ y.drained = x.drained /\ y.chunks = x.chunks /\ y.inFlight = f
      /\ y.nextOffset = x.nextOffset /\ y.nextPn = x.nextPn /\ y.emitted = x.emitted
      /\ SenderFields \subseteq DOMAIN y
  BY DEF SenderOK, SenderFields
<1> HIDE DEF y
<1>4. /\ z.gone = y.gone /\ z.drained = y.drained /\ z.chunks = y.chunks /\ z.inFlight = y.inFlight
      /\ z.nextOffset = y.nextOffset /\ z.nextPn = y.nextPn /\ z.emitted = y.emitted
  BY <1>3 DEF SenderFields
<1> HIDE DEF z
<1>5. ASSUME NEW h, NEW B, Linked(x, h, B) PROVE Linked(y, h, B)
  <2>1. PICK M :
          /\ B \subseteq M /\ x.emitted \in Seq(M) /\ h.emitted \in Seq(M)
          /\ Agree(x.chunks, x.inFlight, x.nextOffset, x.nextPn, Gap(h), h.ahead, h.furthest, h.seen, M)
    BY <1>5 DEF Linked
  <2>2. Agree(x.chunks, f, x.nextOffset, x.nextPn, Gap(h), h.ahead, h.furthest, h.seen, M)
    BY <1>2, <2>1, FewerFlying
  <2> QED
    BY <1>3, <2>1, <2>2 DEF Linked
<1>6. Keeps(x, y)
  BY <1>3, <1>5 DEF Keeps
<1>7. Keeps(y, z)
  BY <1>4, AlikeKeeps
<1> QED
  BY <1>1, <1>6, <1>7, KeepsOn

(* A step that touches nothing that counts. *)
Alike(x, z) == /\ z.gone = x.gone /\ z.drained = x.drained /\ z.chunks = x.chunks /\ z.inFlight = x.inFlight
               /\ z.nextOffset = x.nextOffset /\ z.nextPn = x.nextPn /\ z.emitted = x.emitted

(* Packet-size probes. *)
LEMMA ProbesKeeps ==
    ASSUME NEW x, NEW seen, SenderOK(x)
    PROVE  /\ Keeps(x, sendProbe(x)) /\ Keeps(x, startProbe(x))
           /\ Keeps(x, probeAcked(x, seen)) /\ Keeps(x, Reprobes(x))
<1>1. ASSUME NEW y, SenderOK(y) PROVE Keeps(y, sendProbe(y))
  <2> DEFINE m == Probe(y.nextPn)
             q == Append(y.emitted, m)
             b == Append(y.probes, y.nextPn)
             z == [[[y EXCEPT !.nextPn = @ + 1] EXCEPT !.probes = b] EXCEPT !.emitted = q]
             u == [y EXCEPT !.probes = << >>]
  <2>1. m.type = "PROBE" /\ m.pn = y.nextPn
    BY DEF Probe
  <2>2. sendProbe(y) \in {y, u, z}
    BY DEF sendProbe
  <2>3. Alike(y, u)
    BY <1>1 DEF SenderOK, SenderFields, Alike
  <2> HIDE DEF m, b, u
  <2>q. q = Append(y.emitted, m)
    OBVIOUS
  <2> HIDE DEF q
  <2>4. /\ z.gone = y.gone /\ z.drained = y.drained /\ z.chunks = y.chunks /\ z.inFlight = y.inFlight
        /\ z.nextOffset = y.nextOffset /\ z.nextPn = y.nextPn + 1 /\ z.emitted = q
    BY <1>1 DEF SenderOK, SenderFields
  <2> HIDE DEF z
  <2>5. ASSUME NEW h, NEW B, Linked(y, h, B) PROVE Linked(z, h, B)
    <3>1. PICK M :
            /\ B \subseteq M /\ y.emitted \in Seq(M) /\ h.emitted \in Seq(M)
            /\ Agree(y.chunks, y.inFlight, y.nextOffset, y.nextPn, Gap(h), h.ahead, h.furthest, h.seen, M)
      BY <2>5 DEF Linked
    <3> DEFINE N == M \union {m}
    <3>2. B \subseteq N /\ y.emitted \in Seq(N) /\ h.emitted \in Seq(N)
      BY <3>1
    <3>3. q \in Seq(N)
      BY <2>q, <3>2
    <3>4. Agree(y.chunks, y.inFlight, y.nextOffset, y.nextPn + 1, Gap(h), h.ahead, h.furthest, h.seen, N)
      BY <2>1, <3>1, SentProbe
    <3> HIDE DEF N
    <3> QED
      BY <2>4, <3>2, <3>3, <3>4 DEF Linked
  <2>6. Keeps(y, z)
    BY <2>4, <2>5 DEF Keeps
  <2>7. Keeps(y, u)
    BY <2>3, AlikeKeeps DEF Alike
  <2>8. Keeps(y, y)
    BY DEF Keeps
  <2> QED
    BY <2>2, <2>6, <2>7, <2>8
<1>2. ASSUME NEW y, SenderOK(y) PROVE Keeps(y, startProbe(y))
  <2> DEFINE z == [y EXCEPT !.probes = << >>]
  <2>1. Alike(y, z) /\ SenderOK(z)
    BY <1>2 DEF SenderOK, SenderFields, Alike
  <2>2. startProbe(y) = sendProbe(z)
    BY DEF startProbe
  <2> HIDE DEF z
  <2>3. Keeps(z, sendProbe(z)) /\ Keeps(y, z)
    BY <1>1, <2>1, AlikeKeeps DEF Alike
  <2> QED
    BY <2>2, <2>3, KeepsOn
<1>3. Keeps(x, probeAcked(x, seen))
  <2> DEFINE z == [[x EXCEPT !.probes = << >>] EXCEPT !.packetBytes = 2]
  <2>1. Alike(x, z)
    BY DEF SenderOK, SenderFields, Alike
  <2>2. probeAcked(x, seen) \in {x, z}
    BY DEF probeAcked
  <2> HIDE DEF z
  <2>3. Keeps(x, z) /\ Keeps(x, x)
    BY <2>1, AlikeKeeps DEF Alike, Keeps
  <2> QED
    BY <2>2, <2>3
<1>4. Keeps(x, Reprobes(x))
  <2> DEFINE z == [x EXCEPT !.reprobe = FALSE]
  <2>1. Alike(x, z) /\ SenderOK(z)
    BY DEF SenderOK, SenderFields, Alike
  <2>2. Reprobes(x) \in {x, startProbe(z)}
    BY DEF Reprobes
  <2> HIDE DEF z
  <2>3. Keeps(z, startProbe(z)) /\ Keeps(x, z) /\ Keeps(x, x)
    BY <1>2, <2>1, AlikeKeeps DEF Alike, Keeps
  <2> QED
    BY <2>2, <2>3, KeepsOn
<1> QED
  BY <1>1, <1>2, <1>3, <1>4

(* What a timeout, a moved path or a close starts over. *)
LEMMA StartsOverKeeps ==
    ASSUME NEW x, NEW n, NEW v, SenderOK(x)
    PROVE  /\ Keeps(x, [x EXCEPT !.closing = TRUE])
           /\ Keeps(x, [DropsBack(x) EXCEPT !.ptoCount = n])
           /\ Keeps(x, [x EXCEPT !.ptoCount = 0, !.packetBytes = 1, !.reprobe = FALSE])
           /\ Keeps(x, [x EXCEPT !.written = v])
<1>1. /\ Alike(x, [x EXCEPT !.closing = TRUE])
      /\ Alike(x, [[[x EXCEPT !.ptoCount = 0] EXCEPT !.packetBytes = 1] EXCEPT !.reprobe = FALSE])
      /\ Alike(x, [x EXCEPT !.written = v])
  BY DEF SenderOK, SenderFields, Alike
<1>2. SenderOK(DropsBack(x)) /\ Alike(x, DropsBack(x))
  <2> DEFINE z == [[x EXCEPT !.packetBytes = 1] EXCEPT !.reprobe = TRUE]
  <2>1. Alike(x, z) /\ SenderOK(z)
    BY DEF SenderOK, SenderFields, Alike
  <2>2. DropsBack(x) \in {x, z}
    BY DEF DropsBack
  <2> HIDE DEF z
  <2> QED
    BY <2>1, <2>2 DEF Alike
<1>3. \A y : SenderOK(y) => Alike(y, [y EXCEPT !.ptoCount = n])
  BY DEF SenderOK, SenderFields, Alike
<1>4. Alike(x, [DropsBack(x) EXCEPT !.ptoCount = n])
  BY <1>2, <1>3 DEF Alike
<1>5. \A z : Alike(x, z) => Keeps(x, z)
  BY AlikeKeeps DEF Alike
<1> QED
  BY <1>1, <1>4, <1>5

(* What an ACK under way tells the writing end: that the reading end has   *)
(* what it takes away.                                                     *)
LEMMA AckedKeeps ==
    ASSUME NEW x, NEW m, NEW y, NEW B, SenderOK(x), m.credit \in Int, m \in B, m.type = "ACK"
    PROVE  /\ Linked(x, y, B) => Linked(Acked(x, m), y, B)
           /\ Acked(x, m).gone = x.gone /\ Acked(x, m).drained = x.drained
<1> DEFINE acked == DOMAIN x.inFlight \intersect m.seen
           k == Max({x.peerCredit, m.credit})
           f == Restrict(x.inFlight, DOMAIN x.inFlight \ acked)
           c == Restrict(x.chunks, DOMAIN x.chunks \ {x.inFlight[pn] : pn \in acked})
           p == IF acked = {} THEN x.ptoCount ELSE 0
           h == [[[[x EXCEPT !.peerCredit = k] EXCEPT !.inFlight = f] EXCEPT !.chunks = c] EXCEPT !.ptoCount = p]
           a == probeAcked(h, m.seen)
           g == Max({a.largestAcked, Min({Max(m.seen), x.nextPn - 1})})
           b == [a EXCEPT !.largestAcked = g]
           o == Min(DOMAIN b.inFlight \union {b.nextPn})
           z == [b EXCEPT !.oldestPn = o]
<1>1. k \in Int
  <2>1. k \in {x.peerCredit, m.credit}
    BY MaxTwo DEF SenderOK
  <2> QED
    BY <2>1 DEF SenderOK
<1>2. ChunksOK(c, x.nextOffset)
  BY DEF SenderOK, ChunksOK, Restrict
<1>3. Acked(x, m) \in {h, z}
  BY DEF Acked, advanceOldest
<1>4. /\ acked \subseteq DOMAIN x.inFlight /\ acked \subseteq m.seen
      /\ DOMAIN f \subseteq DOMAIN x.inFlight /\ \A j \in DOMAIN f : f[j] = x.inFlight[j]
      /\ DOMAIN c = DOMAIN x.chunks \ {x.inFlight[pn] : pn \in acked} /\ \A j \in DOMAIN c : c[j] = x.chunks[j]
  <2> HIDE DEF k, p
  <2> DEFINE S == {x.inFlight[pn] : pn \in acked}
  <2> HIDE DEF acked, S
  <2>1. DOMAIN f = DOMAIN x.inFlight \ acked /\ \A j \in DOMAIN x.inFlight \ acked : f[j] = x.inFlight[j]
    BY RestrictIs
  <2>2. c = Restrict(x.chunks, DOMAIN x.chunks \ S)
    BY DEF S
  <2>3. DOMAIN c = DOMAIN x.chunks \ S /\ \A j \in DOMAIN x.chunks \ S : c[j] = x.chunks[j]
    <3> HIDE DEF c
    <3> QED
      BY <2>2, RestrictIs
  <2> HIDE DEF f, c
  <2>4. acked \subseteq DOMAIN x.inFlight /\ acked \subseteq m.seen
    BY DEF acked
  <2>5. DOMAIN f \subseteq DOMAIN x.inFlight /\ \A j \in DOMAIN f : f[j] = x.inFlight[j]
    BY <2>1
  <2>6. DOMAIN c = DOMAIN x.chunks \ S /\ \A j \in DOMAIN c : c[j] = x.chunks[j]
    BY <2>3
  <2> QED
    BY <2>4, <2>5, <2>6 DEF S
<1> HIDE DEF acked, k, f, c, p, g, o, a
<1>5. SenderOK(h)
  BY <1>1, <1>2 DEF SenderOK, SenderFields
<1>6. /\ h.gone = x.gone /\ h.drained = x.drained /\ h.chunks = c /\ h.inFlight = f
      /\ h.nextOffset = x.nextOffset /\ h.nextPn = x.nextPn /\ h.emitted = x.emitted
  BY DEF SenderOK, SenderFields
<1> HIDE DEF h
<1>7. ASSUME Linked(x, y, B) PROVE Linked(h, y, B)
  <2>1. PICK M :
          /\ B \subseteq M /\ x.emitted \in Seq(M) /\ y.emitted \in Seq(M)
          /\ Agree(x.chunks, x.inFlight, x.nextOffset, x.nextPn, Gap(y), y.ahead, y.furthest, y.seen, M)
    BY <1>7 DEF Linked
  <2>2. \A j \in acked : Known(x.chunks, x.inFlight, x.nextPn, Gap(y), y.ahead, j)
    BY <1>4, <2>1 DEF Agree, Told
  <2>3. Agree(c, x.inFlight, x.nextOffset, x.nextPn, Gap(y), y.ahead, y.furthest, y.seen, M)
    BY <1>4, <2>1, <2>2, AckedChunks
  <2>4. Agree(c, f, x.nextOffset, x.nextPn, Gap(y), y.ahead, y.furthest, y.seen, M)
    BY <1>4, <2>3, FewerFlying
  <2> QED
    BY <1>6, <2>1, <2>4 DEF Linked
<1>8. SenderOK(a) /\ Keeps(h, a)
  BY <1>5, ProbesOK, ProbesKeeps DEF a, Goes
<1>9. SenderOK(b) /\ Alike(a, b)
  BY <1>8 DEF SenderOK, SenderFields, Alike
<1> HIDE DEF b
<1>10. Alike(b, z)
  BY <1>9 DEF SenderOK, SenderFields, Alike
<1> HIDE DEF z
<1>11. Keeps(a, b) /\ Keeps(b, z)
  BY <1>9, <1>10, AlikeKeeps DEF Alike
<1> QED
  BY <1>3, <1>6, <1>7, <1>8, <1>11 DEF Keeps

-----------------------------------------------------------------------------
(* All there is of a stream that has drained is with the reading end.      *)
Landed(x, y, B) ==
    /\ Gap(y) = x.written
    /\ \E M : /\ B \subseteq M /\ x.emitted \in Seq(M) /\ y.emitted \in Seq(M)
              /\ \A m \in M : m.type = "DATA" => m.len # 0

(* What a step of the reading end keeps. *)
Holding(y, z) == \A x, B : /\ Linked(x, y, B) => Linked(x, z, B)
                           /\ Landed(x, y, B) => Landed(x, z, B)
(* Steps that keep it follow one another. *)
LEMMA HoldingOn ==
    ASSUME NEW x, NEW y, NEW z, Holding(x, y), Holding(y, z)
    PROVE  Holding(x, z)
BY DEF Holding

(* Only what it has, has seen and emits counts. *)
LEMMA AlikeHolding ==
    ASSUME NEW y, NEW z, Gap(z) = Gap(y), z.ahead = y.ahead, z.furthest = y.furthest, z.seen = y.seen,
           z.emitted = y.emitted
    PROVE  Holding(y, z)
BY DEF Holding, Linked, Landed

(* An ACK says what has been seen. *)
Says(q, q2, seen) == \E ack : /\ ack.type = "ACK" /\ ack.seen \subseteq seen
                              /\ \A M : q \in Seq(M) => q2 \in Seq(M \union {ack})
(* That is all it changes. *)
LEMMA SendAckSays ==
    ASSUME NEW y, NEW w, ReceiverOK(y, w)
    PROVE  LET z == sendAck(y)
           IN /\ Says(y.emitted, z.emitted, y.seen)
              /\ Gap(z) = Gap(y) /\ z.ahead = y.ahead /\ z.furthest = y.furthest /\ z.seen = y.seen
<1> DEFINE k == y.taken + y.credit
           ack == Ack(k, y.seen)
           e == IF k > y.advertised /\ y.furthest >= y.advertised THEN <<ack, ack, ack>> ELSE <<ack>>
           q == y.emitted \o e
           z == [[[y EXCEPT !.unacked = FALSE] EXCEPT !.advertised = k] EXCEPT !.emitted = q]
<1>1. ack.type = "ACK" /\ ack.seen = y.seen
  BY DEF Ack
<1>2. CASE y.gone
  <2>1. sendAck(y) = y
    BY <1>2 DEF sendAck
  <2>2. \A M : y.emitted \in Seq(M) => y.emitted \in Seq(M \union {ack})
    OBVIOUS
  <2> HIDE DEF ack
  <2>3. Says(y.emitted, y.emitted, y.seen)
    BY <1>1, <2>2 DEF Says
  <2> QED
    BY <2>1, <2>3
<1>3. CASE ~y.gone
  <2>1. sendAck(y) = z
    BY <1>3 DEF sendAck
  <2> HIDE DEF ack, k
  <2>2. e \in Seq({ack})
    <3>1. <<ack>> \in Seq({ack}) /\ <<ack, ack, ack>> \in Seq({ack})
      OBVIOUS
    <3> QED
      BY <3>1
  <2> HIDE DEF e
  <2>3. \A M : y.emitted \in Seq(M) => q \in Seq(M \union {ack})
    <3> SUFFICES ASSUME NEW M, y.emitted \in Seq(M) PROVE q \in Seq(M \union {ack})
      OBVIOUS
    <3>1. y.emitted \in Seq(M \union {ack}) /\ e \in Seq(M \union {ack})
      BY <2>2
    <3> QED
      BY <3>1
  <2> HIDE DEF q
  <2>4. Says(y.emitted, q, y.seen)
    BY <1>1, <2>3 DEF Says
  <2>5. /\ z.taken = y.taken /\ z.held = y.held /\ z.ahead = y.ahead /\ z.furthest = y.furthest /\ z.seen = y.seen
        /\ z.emitted = q
    BY DEF ReceiverOK, ReceiverFields
  <2> HIDE DEF z
  <2>6. Gap(z) = Gap(y)
    BY <2>5 DEF Gap
  <2> QED
    BY <2>1, <2>4, <2>5, <2>6
<1> QED
  BY <1>2, <1>3

(* A reading end that has more, has noted no packet but those it has, and  *)
(* says so.                                                                *)
LEMMA SaysLinked ==
    ASSUME NEW x, NEW y, NEW z, NEW B, NEW M, NEW seen,
           B \subseteq M, x.emitted \in Seq(M), y.emitted \in Seq(M), Says(y.emitted, z.emitted, seen),
           Agree(x.chunks, x.inFlight, x.nextOffset, x.nextPn, Gap(z), z.ahead, z.furthest, seen, M),
           z.seen \subseteq seen
    PROVE  Linked(x, z, B)
<1>1. PICK ack : /\ ack.type = "ACK" /\ ack.seen \subseteq seen
                 /\ \A N : y.emitted \in Seq(N) => z.emitted \in Seq(N \union {ack})
  BY DEF Says
<1> DEFINE N == M \union {ack}
<1>2. B \subseteq N /\ x.emitted \in Seq(N) /\ z.emitted \in Seq(N)
  BY <1>1
<1>3. Agree(x.chunks, x.inFlight, x.nextOffset, x.nextPn, Gap(z), z.ahead, z.furthest, seen, N)
  <2>1. \A j \in ack.seen : Known(x.chunks, x.inFlight, x.nextPn, Gap(z), z.ahead, j)
    BY <1>1 DEF Agree
  <2>2. ack.type \notin {"DATA", "PROBE"}
    BY <1>1
  <2> QED
    BY <2>1, <2>2, SentOther
<1> HIDE DEF N
<1>4. Agree(x.chunks, x.inFlight, x.nextOffset, x.nextPn, Gap(z), z.ahead, z.furthest, z.seen, N)
  BY <1>3 DEF Agree
<1> QED
  BY <1>2, <1>4 DEF Linked

(* The same of one that has all there is. *)
LEMMA SaysLanded ==
    ASSUME NEW x, NEW y, NEW z, NEW B, NEW seen, Landed(x, y, B), Says(y.emitted, z.emitted, seen), Gap(z) = Gap(y)
    PROVE  Landed(x, z, B)
<1>1. PICK ack : /\ ack.type = "ACK"
                 /\ \A N : y.emitted \in Seq(N) => z.emitted \in Seq(N \union {ack})
  BY DEF Says
<1>2. PICK M : /\ B \subseteq M /\ x.emitted \in Seq(M) /\ y.emitted \in Seq(M)
               /\ \A m \in M : m.type = "DATA" => m.len # 0
  BY DEF Landed
<1> DEFINE N == M \union {ack}
<1>3. B \subseteq N /\ x.emitted \in Seq(N) /\ z.emitted \in Seq(N) /\ \A m \in N : m.type = "DATA" => m.len # 0
  BY <1>1, <1>2
<1> HIDE DEF N
<1> QED
  BY <1>3 DEF Landed

(* An ACK keeps both. *)
LEMMA SendAckHolding ==
    ASSUME NEW y, NEW w, ReceiverOK(y, w)
    PROVE  Holding(y, sendAck(y))
<1> DEFINE z == sendAck(y)
<1>1. /\ Says(y.emitted, z.emitted, y.seen)
      /\ Gap(z) = Gap(y) /\ z.ahead = y.ahead /\ z.furthest = y.furthest /\ z.seen = y.seen
  BY SendAckSays
<1> HIDE DEF z
<1>2. ASSUME NEW x, NEW B, Linked(x, y, B) PROVE Linked(x, z, B)
  <2>1. PICK M :
          /\ B \subseteq M /\ x.emitted \in Seq(M) /\ y.emitted \in Seq(M)
          /\ Agree(x.chunks, x.inFlight, x.nextOffset, x.nextPn, Gap(y), y.ahead, y.furthest, y.seen, M)
    BY <1>2 DEF Linked
  <2> QED
    BY <1>1, <2>1, SaysLinked
<1>3. ASSUME NEW x, NEW B, Landed(x, y, B) PROVE Landed(x, z, B)
  BY <1>1, <1>3, SaysLanded
<1>4. Holding(y, z)
  BY <1>2, <1>3 DEF Holding
<1> QED
  BY <1>4 DEF z

(* What is noted is some of what was, and the packet. *)
LEMMA SeenSome ==
    ASSUME NEW S, NEW floor
    PROVE  Newest(S) \subseteq S /\ Above(S, floor) \subseteq S
BY DEF Newest, Above

(* A packet is noted, and acked at once if it is out of order. *)
LEMMA ReceivedSays ==
    ASSUME NEW y, NEW pn, NEW w, ReceiverOK(y, w)
    PROVE  LET z == received(y, pn)
           IN /\ Says(y.emitted, z.emitted, y.seen \union {pn}) /\ z.seen \subseteq y.seen \union {pn}
              /\ Gap(z) = Gap(y) /\ z.ahead = y.ahead /\ z.furthest = y.furthest
<1> DEFINE sn == Newest(y.seen \union {pn})
           noted == [[y EXCEPT !.seen = sn] EXCEPT !.turnDue = TRUE]
           later == [noted EXCEPT !.unacked = TRUE]
           now == sendAck(noted)
<1>1. received(y, pn) \in {now, later}
  BY DEF received
<1>2. sn \subseteq y.seen \union {pn}
  BY SeenSome
<1> HIDE DEF sn
<1>3. /\ Like(y, noted) /\ noted.furthest = y.furthest /\ noted.seen = sn
  BY DEF Like, ReceiverOK, ReceiverFields
<1> HIDE DEF noted
<1>4. /\ Like(noted, later) /\ later.furthest = noted.furthest /\ later.seen = noted.seen
  BY <1>3 DEF Like, ReceiverFields
<1> HIDE DEF later
<1>5. ReceiverOK(noted, w)
  BY <1>3, LikeSame DEF Same
<1>6. Gap(noted) = Gap(y) /\ Gap(later) = Gap(noted)
  BY <1>3, <1>4 DEF Gap, Like
<1>7. /\ Says(noted.emitted, now.emitted, noted.seen)
      /\ Gap(now) = Gap(noted) /\ now.ahead = noted.ahead /\ now.furthest = noted.furthest /\ now.seen = noted.seen
  BY <1>5, SendAckSays
<1> HIDE DEF now
<1>8. Says(y.emitted, now.emitted, y.seen \union {pn}) /\ Says(y.emitted, later.emitted, y.seen \union {pn})
  <2>1. noted.emitted = y.emitted /\ later.emitted = y.emitted
    BY <1>3, <1>4 DEF Like
  <2>2. \A ack : \A M : y.emitted \in Seq(M) => y.emitted \in Seq(M \union {ack})
    OBVIOUS
  <2> DEFINE none == {}
             ack == Ack(0, none)
  <2>3. ack.type = "ACK" /\ ack.seen = none /\ none \subseteq y.seen \union {pn}
    BY DEF Ack
  <2> HIDE DEF ack, none
  <2>4. ack.type = "ACK" /\ ack.seen \subseteq y.seen \union {pn}
    BY <2>3
  <2>5. Says(y.emitted, y.emitted, y.seen \union {pn})
    BY <2>2, <2>4 DEF Says
  <2>6. Says(y.emitted, now.emitted, y.seen \union {pn})
    <3>1. PICK a : /\ a.type = "ACK" /\ a.seen \subseteq noted.seen
                   /\ \A M : noted.emitted \in Seq(M) => now.emitted \in Seq(M \union {a})
      BY <1>7 DEF Says
    <3>2. a.seen \subseteq y.seen \union {pn} /\ \A M : y.emitted \in Seq(M) => now.emitted \in Seq(M \union {a})
      BY <1>2, <1>3, <2>1, <3>1
    <3> QED
      BY <3>1, <3>2 DEF Says
  <2> QED
    BY <2>1, <2>5, <2>6
<1>9. ASSUME NEW z, z \in {now, later}
      PROVE  /\ Says(y.emitted, z.emitted, y.seen \union {pn}) /\ z.seen \subseteq y.seen \union {pn}
             /\ Gap(z) = Gap(y) /\ z.ahead = y.ahead /\ z.furthest = y.furthest
  BY <1>2, <1>3, <1>4, <1>6, <1>7, <1>8, <1>9 DEF Like
<1> QED
  BY <1>1, <1>9

(* A packet-size probe is noted: it is in flight for no chunk. *)
LEMMA ProbeHolding ==
    ASSUME NEW y, NEW w, ReceiverOK(y, w), NEW m, NEW x, NEW B, m \in B, m.type = "PROBE"
    PROVE  /\ Linked(x, y, B) => Linked(x, received(y, m.pn), B)
           /\ Landed(x, y, B) => Landed(x, received(y, m.pn), B)
<1> DEFINE pn == m.pn
           z == received(y, pn)
           seen == y.seen \union {pn}
<1>1. /\ Says(y.emitted, z.emitted, seen) /\ z.seen \subseteq seen
      /\ Gap(z) = Gap(y) /\ z.ahead = y.ahead /\ z.furthest = y.furthest
  BY ReceivedSays
<1> HIDE DEF z
<1>2. ASSUME Linked(x, y, B) PROVE Linked(x, z, B)
  <2>1. PICK M :
          /\ B \subseteq M /\ x.emitted \in Seq(M) /\ y.emitted \in Seq(M)
          /\ Agree(x.chunks, x.inFlight, x.nextOffset, x.nextPn, Gap(y), y.ahead, y.furthest, y.seen, M)
    BY <1>2 DEF Linked
  <2>2. Known(x.chunks, x.inFlight, x.nextPn, Gap(y), y.ahead, pn)
    BY <2>1 DEF Agree, Told, Known
  <2>3. Agree(x.chunks, x.inFlight, x.nextOffset, x.nextPn, Gap(z), z.ahead, z.furthest, seen, M)
    BY <1>1, <2>1, <2>2 DEF Agree
  <2> HIDE DEF seen
  <2> QED
    BY <1>1, <2>1, <2>3, SaysLinked
<1>3. ASSUME Landed(x, y, B) PROVE Landed(x, z, B)
  <2> HIDE DEF seen
  <2> QED
    BY <1>1, <1>3, SaysLanded
<1> QED
  BY <1>2, <1>3 DEF z

(* Handing bytes to the reader moves none. *)
LEMMA ReadsHolding ==
    ASSUME NEW y, NEW w \in Nat, ReceiverOK(y, w)
    PROVE  Holding(y, Reads(y))
<1> DEFINE n == Min({Len(y.held), MAX_READ})
           h == SubSeq(y.held, n + 1, Len(y.held))
           g == y.got \o [k \in 1..n |-> y.held[k].byte]
           z == [[[[y EXCEPT !.taken = @ + n] EXCEPT !.held = h] EXCEPT !.reading = TRUE] EXCEPT !.got = g]
<1>1. CASE y.reading \/ y.held = << >> \/ y.gone
  BY <1>1 DEF Reads, Holding
<1>2. CASE ~(y.reading \/ y.held = << >> \/ y.gone)
  <2>1. Reads(y) = z
    BY <1>2 DEF Reads
  <2>2. y.taken \in Nat /\ Held(y.taken, y.held, w)
    BY <1>2 DEF ReceiverOK, Lives
  <2>3. Len(y.held) \in Nat
    BY <2>2 DEF Held, IsSeq
  <2>4. n \in Nat /\ n <= Len(y.held)
    <3>1. MAX_READ \in Nat \ {0}
      BY StreamAssumption
    <3> DEFINE l == Len(y.held)
    <3>2. l \in Int /\ MAX_READ \in Int
      BY <2>3, <3>1
    <3> HIDE DEF l
    <3>3. Min({l, MAX_READ}) \in {l, MAX_READ} /\ Min({l, MAX_READ}) <= l
      BY <3>2, MinTwo
    <3> QED
      BY <2>3, <3>1, <3>3 DEF l
  <2> HIDE DEF n
  <2>5. Len(h) = Len(y.held) - n
    <3>1. PICK N : y.held \in Seq(N)
      BY <2>2 DEF Held, IsSeq
    <3>2. \A k \in (n + 1)..Len(y.held) : y.held[k] \in N
      BY <2>4, <3>1
    <3> QED
      BY <2>3, <2>4, <3>1, <3>2
  <2> HIDE DEF h, g
  <2>6. /\ z.taken = y.taken + n /\ z.held = h /\ z.ahead = y.ahead /\ z.furthest = y.furthest /\ z.seen = y.seen
        /\ z.emitted = y.emitted
    BY DEF ReceiverOK, ReceiverFields
  <2> HIDE DEF z
  <2>7. Gap(z) = Gap(y)
    BY <2>2, <2>3, <2>4, <2>5, <2>6 DEF Gap
  <2> QED
    BY <2>1, <2>6, <2>7, AlikeHolding
<1> QED
  BY <1>1, <1>2

(* Nor does more credit. *)
LEMMA DeliverHolding ==
    ASSUME NEW y, NEW fast, NEW w \in Nat, ReceiverOK(y, w)
    PROVE  Holding(y, deliver(y, fast)) /\ ReceiverOK(deliver(y, fast), w)
<1> DEFINE a == Reads(y)
           c == IF fast THEN Min({2 * a.credit, MAX_CREDIT}) ELSE a.credit
           d == [[a EXCEPT !.credit = c] EXCEPT !.creditEnd = a.taken + c]
           b == IF a.taken < a.creditEnd THEN a ELSE d
<1>1. Holding(y, a) /\ ReceiverOK(a, w)
  BY ReadsHolding, ReadsOK DEF Same, Hands
<1>2. deliver(y, fast) \in {b, sendAck(b)}
  BY DEF deliver
<1>3. ReceiverOK(deliver(y, fast), w)
  BY DeliverOK DEF Reader, Same, Hands
<1> HIDE DEF a
<1>4. ~a.gone => c \in Int
  <2> SUFFICES ASSUME ~a.gone PROVE c \in Int
    OBVIOUS
  <2>1. a.credit \in Int /\ 2 * a.credit \in Int /\ MAX_CREDIT \in Int
    BY <1>1, StreamAssumption DEF ReceiverOK, Lives
  <2> DEFINE t == 2 * a.credit
  <2>2. t \in Int
    BY <2>1
  <2> HIDE DEF t
  <2>3. Min({t, MAX_CREDIT}) \in {t, MAX_CREDIT}
    BY <2>1, <2>2, MinTwo
  <2> QED
    BY <2>1, <2>2, <2>3 DEF t
<1> HIDE DEF c
<1>5. /\ ReceiverFields \subseteq DOMAIN d /\ d.gone = a.gone /\ d.emitted = a.emitted
      /\ d.taken = a.taken /\ d.held = a.held /\ d.ahead = a.ahead /\ d.credit = c /\ d.got = a.got
      /\ d.furthest = a.furthest /\ d.seen = a.seen
  BY <1>1 DEF ReceiverOK, ReceiverFields
<1> HIDE DEF d
<1>6. ReceiverOK(d, w)
  BY <1>1, <1>4, <1>5 DEF ReceiverOK, Lives
<1>7. Holding(a, d) /\ Holding(a, a)
  <2>1. Gap(d) = Gap(a)
    BY <1>5 DEF Gap
  <2> QED
    BY <1>5, <2>1, AlikeHolding
<1>8. Holding(y, b) /\ ReceiverOK(b, w)
  BY <1>1, <1>6, <1>7, HoldingOn
<1> HIDE DEF b
<1>9. Holding(y, sendAck(b))
  BY <1>8, SendAckHolding, HoldingOn
<1> QED
  BY <1>2, <1>3, <1>8, <1>9

(* A chunk m arrives at an end y that has noted how far it reaches, and    *)
(* leaves it z.                                                            *)
Meets(c, f, n, p, t, seen, M, y, m, w) ==
    /\ Agree(c, f, n, p, Gap(y), y.ahead, t, seen, M) /\ n <= Total
    /\ m \in M /\ m.type = "DATA" /\ ReceiverOK(y, w) /\ ~y.gone
    /\ y.furthest \in Int /\ t <= y.furthest /\ m.offset + m.len <= y.furthest
Leaves(c, f, n, p, seen, M, y, m, z) ==
    /\ Agree(c, f, n, p, Gap(z), z.ahead, z.furthest, seen, M) /\ Takes(c, Gap(z), z.ahead, m)
    /\ z.seen = y.seen /\ z.emitted = y.emitted
(* It is held, or known. *)
LEMMA HoldsAgrees ==
    ASSUME NEW c, NEW f, NEW n, NEW p, NEW t, NEW seen, NEW M, NEW y, NEW m, NEW w,
           Meets(c, f, n, p, t, seen, M, y, m, w)
    PROVE  Leaves(c, f, n, p, seen, M, y, m, Holds(y, m))
<1> SUFFICES ASSUME m \in M, ReceiverOK(y, w), ~y.gone,
                    Agree(c, f, n, p, Gap(y), y.ahead, t, seen, M), n <= Total, m.type = "DATA",
                    y.furthest \in Int, t <= y.furthest, m.offset + m.len <= y.furthest
             PROVE  LET z == Holds(y, m)
                    IN /\ Agree(c, f, n, p, Gap(z), z.ahead, z.furthest, seen, M) /\ Takes(c, Gap(z), z.ahead, m)
                       /\ z.seen = y.seen /\ z.emitted = y.emitted
  BY DEF Meets, Leaves
<1> DEFINE from == m.offset + m.len
           join == Joined(y.ahead, from)
           starts == {m.offset} \union join.chunks
           bytes == [k \in 1..(join.end - m.offset) |->
                       [byte |-> m.offset + k, slice |-> Max({o \in starts : o < m.offset + k})]]
           h == y.held \o bytes
           a == IF join.end = y.furthest THEN NoMap ELSE Restrict(y.ahead, DOMAIN y.ahead \ join.chunks)
           b == IF join.end = y.furthest THEN 0
                ELSE y.aheadBytes - MapThenSumSet(LAMBDA o : y.ahead[o], join.chunks)
           z == [[[y EXCEPT !.held = h] EXCEPT !.ahead = a] EXCEPT !.aheadBytes = b]
           u == [[y EXCEPT !.ahead = Put(@, m.offset, m.len)] EXCEPT !.aheadBytes = @ + m.len]
<1>0. /\ y.taken \in Nat /\ IsSeq(y.held) /\ Len(y.held) \in Nat
      /\ m.offset \in Nat /\ m.len \in {1, 2} /\ Gap(y) \in Nat /\ t \in Int
  BY DEF ReceiverOK, Lives, Held, IsSeq, Agree, Told, Packet, Past
<1>1. CASE Follows(y, m)
  <2>1. m.offset = Gap(y)
    BY <1>1 DEF Follows, Gap
  <2>2. Landing(c, y.ahead, from, n, join.end, join.chunks)
    BY <2>1, JoinLands
  <2>3. Holds(y, m) = z
    BY <1>1 DEF Holds
  <2> DEFINE d == join.end - m.offset
  <2>4. d \in Nat /\ join.end \in Nat
    BY <1>0, <2>2 DEF Landing
  <2> HIDE DEF starts, b
  <2>5. bytes = [k \in 1..d |-> bytes[k]]
    OBVIOUS
  <2> HIDE DEF bytes, d
  <2>6. Len(h) = Len(y.held) + d
    <3> DEFINE N == {bytes[k] : k \in 1..d}
    <3>1. bytes \in [1..d -> N]
      BY <2>5
    <3> HIDE DEF N
    <3>2. bytes \in Seq(N) /\ Len(bytes) = d
      BY <2>4, <3>1
    <3>3. PICK K : y.held \in Seq(K)
      BY <1>0 DEF IsSeq
    <3>4. y.held \in Seq(K \union N) /\ bytes \in Seq(K \union N)
      BY <3>2, <3>3
    <3> QED
      BY <3>2, <3>4
  <2>7. \/ join.end = y.furthest /\ DOMAIN a = {}
        \/ DOMAIN a = DOMAIN y.ahead \ join.chunks /\ \A o \in DOMAIN a : a[o] = y.ahead[o]
    <3> HIDE DEF join
    <3>1. CASE join.end = y.furthest
      BY <3>1 DEF NoMap
    <3>2. CASE join.end # y.furthest
      <4>1. a = Restrict(y.ahead, DOMAIN y.ahead \ join.chunks)
        BY <3>2
      <4> HIDE DEF a
      <4>2. DOMAIN a = DOMAIN y.ahead \ join.chunks /\ \A o \in DOMAIN y.ahead \ join.chunks : a[o] = y.ahead[o]
        BY <4>1, RestrictIs, ZenonT(40)
      <4> QED
        BY <4>2
    <3> QED
      BY <3>1, <3>2
  <2> HIDE DEF h, a, join
  <2>8. /\ z.taken = y.taken /\ z.held = h /\ z.ahead = a /\ z.furthest = y.furthest /\ z.seen = y.seen
        /\ z.emitted = y.emitted
    BY DEF ReceiverOK, ReceiverFields
  <2> HIDE DEF z
  <2>9. Gap(z) = join.end
    <3>1. y.taken \in Nat /\ Len(y.held) \in Nat /\ d \in Nat /\ join.end = m.offset + d
      BY <1>0, <2>4 DEF d
    <3>2. z.taken + Len(z.held) = y.taken + (Len(y.held) + d)
      BY <2>6, <2>8
    <3>3. m.offset = y.taken + Len(y.held)
      BY <2>1 DEF Gap
    <3> QED
      BY <3>1, <3>2, <3>3 DEF Gap
  <2>10. Landing(c, y.ahead, Gap(y) + m.len, n, join.end, join.chunks)
    BY <2>1, <2>2
  <2> DEFINE e == join.end
             J == join.chunks
  <2>11. /\ Landing(c, y.ahead, Gap(y) + m.len, n, e, J)
         /\ (e = y.furthest /\ DOMAIN a = {}) \/ (DOMAIN a = DOMAIN y.ahead \ J /\ \A o \in DOMAIN a : a[o] = y.ahead[o])
    BY <2>7, <2>10
  <2> HIDE DEF e, J
  <2>12. Agree(c, f, n, p, e, a, y.furthest, seen, M) /\ Takes(c, e, a, m)
    BY <2>1, <2>11, JoinedChunk, ZenonT(40)
  <2>13. Agree(c, f, n, p, Gap(z), z.ahead, z.furthest, seen, M) /\ Takes(c, Gap(z), z.ahead, m)
    BY <2>8, <2>9, <2>12 DEF e
  <2> QED
    BY <2>3, <2>8, <2>13
<1>2. CASE ~Follows(y, m) /\ m.offset > y.taken + Len(y.held) /\ m.offset \notin DOMAIN y.ahead
  <2>1. Holds(y, m) = u
    BY <1>2 DEF Holds
  <2> DEFINE a2 == Put(y.ahead, m.offset, m.len)
  <2>2. /\ DOMAIN a2 = DOMAIN y.ahead \union {m.offset} /\ a2[m.offset] = m.len
        /\ \A o \in DOMAIN y.ahead : o # m.offset => a2[o] = y.ahead[o]
    BY DEF Put
  <2>3. /\ u.taken = y.taken /\ u.held = y.held /\ u.ahead = a2 /\ u.furthest = y.furthest /\ u.seen = y.seen
        /\ u.emitted = y.emitted
    BY DEF ReceiverOK, ReceiverFields
  <2> HIDE DEF u, a2
  <2>4. Gap(u) = Gap(y) /\ m.offset > Gap(y)
    BY <1>2, <2>3 DEF Gap
  <2>5. Agree(c, f, n, p, Gap(y), a2, y.furthest, seen, M) /\ Takes(c, Gap(y), a2, m)
    BY <1>2, <2>2, <2>4, KeptAhead, ZenonT(40)
  <2> QED
    BY <2>1, <2>3, <2>4, <2>5
<1>3. CASE ~Follows(y, m) /\ ~(m.offset > y.taken + Len(y.held) /\ m.offset \notin DOMAIN y.ahead)
  <2>1. Holds(y, m) = y
    BY <1>3 DEF Holds
  <2>2. m.offset < Gap(y) \/ m.offset \in DOMAIN y.ahead
    BY <1>0, <1>3 DEF Gap, Follows
  <2>3. Agree(c, f, n, p, Gap(y), y.ahead, y.furthest, seen, M) /\ Takes(c, Gap(y), y.ahead, m)
    BY <2>2, KnownChunk
  <2> QED
    BY <2>1, <2>3
<1> QED
  BY <1>1, <1>2, <1>3

(* A chunk arrives and is held: the packet may now be acked. *)
LEMMA OnChunkLinked ==
    ASSUME NEW x, NEW y, NEW B, NEW m \in B, NEW w \in Nat, ReceiverOK(y, w), ~y.gone,
           m.type = "DATA", m.offset \in Nat, m.len \in Nat, m.offset + m.len <= w,
           Linked(x, y, B), x.nextOffset <= Total
    PROVE  ~onChunk(y, m).gone => Linked(x, onChunk(y, m), B)
<1> DEFINE pn == m.pn
           noted == received(y, pn)
           sn == Above(noted.seen, m.floor)
           f == Max({noted.furthest, m.offset + m.len})
           a == [[noted EXCEPT !.seen = sn] EXCEPT !.furthest = f]
           held == Holds(a, m)
           over == [held EXCEPT !.overfull = TRUE]
           seen == y.seen \union {pn}
<1>1. PICK M :
        /\ B \subseteq M /\ x.emitted \in Seq(M) /\ y.emitted \in Seq(M)
        /\ Agree(x.chunks, x.inFlight, x.nextOffset, x.nextPn, Gap(y), y.ahead, y.furthest, y.seen, M)
  BY DEF Linked
<1>2. onChunk(y, m) \in {y, held, fail(over)}
  BY DEF onChunk
<1>3. /\ Same(y, noted, w)
      /\ Says(y.emitted, noted.emitted, seen) /\ noted.seen \subseteq seen
      /\ Gap(noted) = Gap(y) /\ noted.ahead = y.ahead /\ noted.furthest = y.furthest
  BY ReceivedOK, ReceivedSays
<1>4. sn \subseteq seen
  BY <1>3, SeenSome
<1>5. f \in Int /\ y.furthest <= f /\ m.offset + m.len <= f
  <2> DEFINE t == m.offset + m.len
  <2>1. t \in Int /\ y.furthest \in Int
    BY <1>1 DEF Agree
  <2> HIDE DEF t, noted
  <2>2. Max({y.furthest, t}) \in {y.furthest, t} /\ Max({y.furthest, t}) >= y.furthest /\ Max({y.furthest, t}) >= t
    BY <2>1, MaxTwo
  <2>3. f = Max({y.furthest, t})
    BY <1>3 DEF t
  <2> HIDE DEF f
  <2>4. f \in {y.furthest, t} /\ f >= y.furthest /\ f >= t
    BY <2>2, <2>3
  <2> QED
    BY <2>1, <2>4 DEF t
<1> HIDE DEF noted, sn, f
<1>6. Like(noted, a) /\ a.furthest = f /\ a.seen = sn
  BY <1>3 DEF Same, ReceiverOK, Like, ReceiverFields
<1> HIDE DEF a
<1>7. ReceiverOK(a, w) /\ ~a.gone
  <2>1. Same(noted, a, w)
    BY <1>3, <1>6, LikeSame DEF Same
  <2> QED
    BY <1>3, <2>1 DEF Same
<1>8. Gap(a) = Gap(y) /\ a.ahead = y.ahead /\ a.emitted = noted.emitted
  BY <1>3, <1>6 DEF Like, Gap
<1>9. Agree(x.chunks, x.inFlight, x.nextOffset, x.nextPn, Gap(a), a.ahead, y.furthest, y.seen, M)
  BY <1>1, <1>8
<1> DEFINE c == x.chunks
           g == x.inFlight
           p == x.nextPn
<1>10. /\ Agree(c, g, x.nextOffset, p, Gap(held), held.ahead, held.furthest, y.seen, M)
       /\ Takes(c, Gap(held), held.ahead, m)
       /\ held.seen = a.seen /\ held.emitted = a.emitted
  <2> DEFINE n == x.nextOffset
             t == y.furthest
             had == y.seen
  <2>1. Meets(c, g, n, p, t, had, M, a, m, w)
    BY <1>1, <1>5, <1>6, <1>7, <1>9 DEF Meets
  <2> HIDE DEF c, g, p, n, t, had
  <2>2. Leaves(c, g, n, p, had, M, a, m, Holds(a, m))
    BY <2>1, HoldsAgrees
  <2> QED
    BY <2>2 DEF Leaves, n, had
<1> HIDE DEF held
<1>11. Known(c, g, p, Gap(held), held.ahead, pn)
  <2>1. Packet(c, g, x.nextOffset, p, m)
    BY <1>1 DEF Agree, Told
  <2> QED
    BY <1>10, <2>1 DEF Packet, Takes, Known
<1>12. Agree(c, g, x.nextOffset, p, Gap(held), held.ahead, held.furthest, seen, M)
  BY <1>10, <1>11 DEF Agree
<1> HIDE DEF seen
<1>13. Linked(x, held, B)
  <2>1. Says(y.emitted, held.emitted, seen) /\ held.seen \subseteq seen
    BY <1>3, <1>4, <1>6, <1>8, <1>10
  <2> QED
    BY <1>1, <1>12, <2>1, SaysLinked
<1>14. fail(over).gone
  <2>1. Same(a, held, w)
    BY <1>7, HoldsOK DEF held
  <2> QED
    BY <2>1 DEF Same, ReceiverOK, ReceiverFields, fail
<1> QED
  BY <1>2, <1>13, <1>14

(* A chunk that arrives at an end that has all there is, is one it has. *)
LEMMA OnChunkLanded ==
    ASSUME NEW x, NEW y, NEW B, NEW m \in B, ReceiverOK(y, x.written), ~y.gone, x.written \in Nat,
           m.type = "DATA", m.offset \in Nat, m.len \in Nat, m.offset + m.len <= x.written,
           Landed(x, y, B)
    PROVE  ~onChunk(y, m).gone => Landed(x, onChunk(y, m), B)
<1> DEFINE w == x.written
           pn == m.pn
           noted == received(y, pn)
           sn == Above(noted.seen, m.floor)
           f == Max({noted.furthest, m.offset + m.len})
           a == [[noted EXCEPT !.seen = sn] EXCEPT !.furthest = f]
           held == Holds(a, m)
           over == [held EXCEPT !.overfull = TRUE]
           seen == y.seen \union {pn}
           v == m.len
           u == [[a EXCEPT !.ahead = Put(@, m.offset, v)] EXCEPT !.aheadBytes = @ + v]
<1>1. Gap(y) = w /\ m.len # 0
  BY DEF Landed
<1>2. onChunk(y, m) \in {y, held, fail(over)}
  BY DEF onChunk
<1>3. /\ Same(y, noted, w)
      /\ Says(y.emitted, noted.emitted, seen)
      /\ Gap(noted) = Gap(y)
  BY ReceivedOK, ReceivedSays
<1> HIDE DEF noted, sn, f, seen
<1>4. Like(noted, a)
  BY <1>3 DEF Same, ReceiverOK, Like, ReceiverFields
<1> HIDE DEF a
<1>5. ReceiverOK(a, w) /\ ~a.gone
  <2>1. Same(noted, a, w)
    BY <1>3, <1>4, LikeSame DEF Same
  <2> QED
    BY <1>3, <2>1 DEF Same
<1>6. Gap(a) = Gap(y) /\ a.emitted = noted.emitted
  BY <1>3, <1>4 DEF Like, Gap
<1>7. ~Follows(a, m)
  BY <1>1, <1>6 DEF Follows, Gap
<1>8. held \in {a, u}
  BY <1>7 DEF Holds
<1>9. ReceiverFields \subseteq DOMAIN u /\ u.taken = a.taken /\ u.held = a.held /\ u.emitted = a.emitted
  BY <1>5 DEF ReceiverOK, ReceiverFields
<1> HIDE DEF u, held
<1>10. ReceiverFields \subseteq DOMAIN held /\ Gap(held) = Gap(y) /\ held.emitted = noted.emitted
  BY <1>5, <1>6, <1>8, <1>9 DEF Gap, ReceiverOK
<1>11. Landed(x, held, B)
  BY <1>3, <1>10, SaysLanded
<1>12. fail(over).gone
  BY <1>10 DEF ReceiverFields, fail
<1> QED
  BY <1>2, <1>11, <1>12

(* With no chunk left, the other end has all that was written: the gap     *)
(* would start at a byte it has past the gap, or inside one of its chunks. *)
LEMMA Drains ==
    ASSUME NEW x, NEW y, NEW B, SenderOK(x), Linked(x, y, B), ~(buffered(x) > 0)
    PROVE  LET z == end([x EXCEPT !.drained = TRUE], "r") IN z.gone /\ Landed(z, y, B)
<1>1. PICK M :
        /\ B \subseteq M /\ x.emitted \in Seq(M) /\ y.emitted \in Seq(M)
        /\ Agree(x.chunks, x.inFlight, x.nextOffset, x.nextPn, Gap(y), y.ahead, y.furthest, y.seen, M)
  BY DEF Linked
<1> DEFINE c == x.chunks
           n == x.nextOffset
           e == Gap(y)
           a == y.ahead
           t == y.furthest
<1>2. Cut(c, n) /\ Past(c, n, e, a, t) /\ Covered(c, n, e, a)
  BY <1>1 DEF Agree
<1>3. n \in Nat /\ x.written \in Nat /\ n <= x.written
  BY DEF SenderOK
<1>4. DOMAIN c = {}
  <2> SUFFICES ASSUME DOMAIN c # {} PROVE FALSE
    OBVIOUS
  <2> DEFINE o == Min(DOMAIN c)
  <2>1. DOMAIN c \in SUBSET Nat
    BY <1>2 DEF Cut
  <2>2. o \in DOMAIN c
    BY <2>1, MinNat
  <2>3. buffered(x) = x.written - o
    BY DEF buffered, oldestChunk
  <2> HIDE DEF o
  <2>4. o \in Nat /\ c[o] \in {1, 2} /\ o + c[o] <= n
    BY <1>2, <2>2 DEF Cut
  <2>5. x.written - o > 0
    BY <1>3, <2>4
  <2> QED
    BY <2>3, <2>5
<1>5. n = x.written
  <2>1. buffered(x) = x.written - n
    BY <1>4 DEF buffered
  <2> QED
    BY <1>3, <2>1
<1>6. e = n
  <2>1. e \in Nat /\ e <= n
    BY <1>2 DEF Past
  <2> SUFFICES ASSUME e < n PROVE FALSE
    BY <1>3, <2>1
  <2>2. Has(e, a, e)
    BY <1>2, <1>4, <2>1 DEF Covered
  <2>3. PICK o \in DOMAIN a : o <= e /\ e < o + a[o]
    BY <2>1, <2>2 DEF Has
  <2>4. o \in Nat /\ a[o] \in {1, 2} /\ o # e /\ (a[o] = 2 => e # o + 1)
    BY <1>2 DEF Past
  <2> QED
    BY <2>1, <2>3, <2>4
<1> DEFINE d == [x EXCEPT !.drained = TRUE]
           bye == Close("r")
           three == [k \in 1..3 |-> bye]
           q == d.emitted \o three
           b == [d EXCEPT !.emitted = q]
           z == end(d, "r")
           N == M \union {bye}
<1>7. z = fail(b)
  BY DEF end, sendClose
<1>8. SenderFields \subseteq DOMAIN d /\ d.emitted = x.emitted /\ d.written = x.written
  BY DEF SenderOK, SenderFields
<1>9. bye.type = "CLOSE"
  BY DEF Close
<1> HIDE DEF d, bye
<1>10. q \in Seq(N)
  <2>1. three \in Seq(N) /\ d.emitted \in Seq(N)
    BY <1>1, <1>8
  <2> HIDE DEF three, N
  <2> QED
    BY <2>1
<1> HIDE DEF q
<1>11. SenderFields \subseteq DOMAIN b /\ b.emitted = q /\ b.written = x.written
  BY <1>8 DEF SenderFields
<1> HIDE DEF b, z
<1>12. z.gone /\ z.emitted = q /\ z.written = x.written
  BY <1>7, <1>11 DEF fail, SenderFields
<1>13. \A m \in N : m.type = "DATA" => m.len # 0
  BY <1>1, <1>9 DEF Agree, Told, Packet
<1>14. B \subseteq N /\ y.emitted \in Seq(N)
  BY <1>1
<1> HIDE DEF N
<1>15. Landed(z, y, B)
  BY <1>5, <1>6, <1>10, <1>12, <1>13, <1>14 DEF Landed
<1> QED
  BY <1>12, <1>15 DEF z, d

-----------------------------------------------------------------------------
(* The steps.                                                              *)

(* The ends x and y, with B under way: they agree while both live, and the *)
(* reading end has all there is once a graceful close has drained.         *)
Links(x, y, B) == /\ x.drained => x.gone
                  /\ ~x.gone /\ ~y.gone => Linked(x, y, B)
                  /\ x.drained /\ ~y.gone => Landed(x, y, B)
LinkInv == /\ Links(s, r, DOMAIN net)
           /\ \A m \in DOMAIN net : m.type = "ACK" => ~s.gone
           /\ s.written + left.bytes <= Total

(* What is put on the path is what was there, or what an end emits. *)
LEMMA PostedIn ==
    ASSUME NEW bag, NEW ms, NEW M, DOMAIN bag \subseteq M, ms \in Seq(M)
    PROVE  DOMAIN Posted(bag, ms) \subseteq M
<1>1. \A k \in DOMAIN ms : ms[k] \in M
  OBVIOUS
<1>2. DOMAIN Posted(bag, ms) = DOMAIN bag \union {ms[k] : k \in {j \in DOMAIN ms : Carried(ms[j], path)}}
  BY DEF Posted
<1> QED
  BY <1>1, <1>2

(* Two ends that agree become the two ends. *)
LEMMA BecomeLinked ==
    ASSUME StreamInv', NEW s1, NEW r1, NEW bag, SenderOK(s1), ReceiverOK(r1, s1.written),
           Links(s1, r1, DOMAIN net), DOMAIN bag \subseteq DOMAIN net, Become(s1, r1, bag),
           s1.written + left'.bytes <= Total
    PROVE  LinkInv'
<1> DEFINE sg == [SenderInit EXCEPT !.gone = TRUE, !.written = s1.written, !.drained = s1.drained]
           sl == [s1 EXCEPT !.emitted = << >>]
           rg == [ReceiverInit EXCEPT !.gone = TRUE, !.got = r1.got, !.overfull = r1.overfull, !.told = r1.told]
           rl == [r1 EXCEPT !.emitted = << >>]
           n1 == Posted(Posted(bag, s1.emitted), r1.emitted)
           B == DOMAIN net'
<1>1. /\ s' = IF s1.gone THEN sg ELSE sl
      /\ r' = IF r1.gone THEN rg ELSE rl
      /\ net' = Reaching(n1, s1, r1)
  BY DEF Become
<1>2. sg.gone /\ sg.written = s1.written /\ sg.drained = s1.drained /\ sg.emitted = << >>
  BY DEF SenderInit
<1>3. /\ sl.gone = s1.gone /\ sl.written = s1.written /\ sl.drained = s1.drained /\ sl.emitted = << >>
      /\ sl.chunks = s1.chunks /\ sl.inFlight = s1.inFlight /\ sl.nextOffset = s1.nextOffset
      /\ sl.nextPn = s1.nextPn
  BY DEF SenderOK, SenderFields
<1>4. rg.gone
  BY DEF ReceiverInit
<1>5. /\ rl.gone = r1.gone /\ rl.emitted = << >> /\ rl.taken = r1.taken /\ rl.held = r1.held
      /\ rl.ahead = r1.ahead /\ rl.furthest = r1.furthest /\ rl.seen = r1.seen
  BY DEF ReceiverOK, ReceiverFields
<1>6. B \subseteq DOMAIN n1 /\ \A m \in B : Matters(m, s1, r1)
  BY <1>1 DEF Reaching
<1>7. ASSUME NEW M, DOMAIN net \subseteq M, s1.emitted \in Seq(M), r1.emitted \in Seq(M) PROVE B \subseteq M
  <2> DEFINE n0 == Posted(bag, s1.emitted)
  <2>1. DOMAIN n0 \subseteq M
    BY <1>7, PostedIn
  <2> HIDE DEF n0
  <2>2. DOMAIN Posted(n0, r1.emitted) \subseteq M
    BY <1>7, <2>1, PostedIn
  <2> QED
    BY <1>6, <2>2 DEF n0
<1> HIDE DEF sg, sl, rg, rl, n1, B
<1>8. /\ s'.written = s1.written /\ s'.drained = s1.drained /\ s'.emitted = << >>
      /\ s1.gone => s'.gone
      /\ ~s1.gone => s' = sl
      /\ r1.gone => r'.gone
      /\ ~r1.gone => r' = rl
  BY <1>1, <1>2, <1>3, <1>4
<1>9. Gap(rl) = Gap(r1)
  BY <1>5 DEF Gap
<1>10. << >> \in Seq(B)
  OBVIOUS
<1>11. ~s'.gone /\ ~r'.gone => Linked(s', r', B)
  <2> SUFFICES ASSUME ~s1.gone, ~r1.gone PROVE Linked(sl, rl, B)
    BY <1>8
  <2>1. PICK M :
          /\ DOMAIN net \subseteq M /\ s1.emitted \in Seq(M) /\ r1.emitted \in Seq(M)
          /\ Agree(s1.chunks, s1.inFlight, s1.nextOffset, s1.nextPn, Gap(r1), r1.ahead, r1.furthest, r1.seen, M)
    BY DEF Links, Linked
  <2>2. B \subseteq M
    BY <1>7, <2>1
  <2>3. Agree(s1.chunks, s1.inFlight, s1.nextOffset, s1.nextPn, Gap(r1), r1.ahead, r1.furthest, r1.seen, B)
    BY <2>1, <2>2, FewerPackets
  <2>4. Agree(sl.chunks, sl.inFlight, sl.nextOffset, sl.nextPn, Gap(rl), rl.ahead, rl.furthest, rl.seen, B)
    BY <1>3, <1>5, <1>9, <2>3
  <2>5. sl.emitted \in Seq(B) /\ rl.emitted \in Seq(B)
    BY <1>3, <1>5, <1>10
  <2> QED
    BY <2>4, <2>5 DEF Linked
<1>12. s'.drained /\ ~r'.gone => Landed(s', r', B)
  <2> SUFFICES ASSUME s1.drained, ~r1.gone PROVE Landed(s', rl, B)
    BY <1>8
  <2>1. PICK M :
          /\ DOMAIN net \subseteq M /\ s1.emitted \in Seq(M) /\ r1.emitted \in Seq(M)
          /\ \A m \in M : m.type = "DATA" => m.len # 0
    BY DEF Links, Landed
  <2>2. B \subseteq M
    BY <1>7, <2>1
  <2>3. \A m \in B : m.type = "DATA" => m.len # 0
    BY <2>1, <2>2
  <2>4. Gap(rl) = s'.written
    BY <1>8, <1>9 DEF Links, Landed
  <2>5. s'.emitted \in Seq(B) /\ rl.emitted \in Seq(B)
    BY <1>5, <1>8, <1>10
  <2> QED
    BY <2>3, <2>4, <2>5 DEF Landed
<1>13. s'.drained => s'.gone
  BY <1>8 DEF Links
<1>14. Links(s', r', B)
  BY <1>11, <1>12, <1>13 DEF Links
<1>15. \A m \in B : m.type = "ACK" => ~s'.gone
  <2> SUFFICES ASSUME NEW m \in B, m.type = "ACK" PROVE ~s'.gone
    OBVIOUS
  <2>1. m.to = "s"
    BY DEF StreamInv, NetOK, MsgOK, B
  <2>2. ~s1.gone
    BY <1>6, <2>1 DEF Matters
  <2> QED
    BY <1>3, <1>8, <2>2
<1> QED
  BY <1>8, <1>14, <1>15 DEF LinkInv, B

(* Nothing is cut, in flight or under way yet. *)
LEMMA NoneAgree ==
    ASSUME NEW p \in Nat, NEW seen, \A k \in seen : k \in Nat /\ k < p
    PROVE  Agree(NoMap, NoMap, 0, p, 0, NoMap, 0, seen, {})
<1> DEFINE none == NoMap
<1>1. DOMAIN none = {}
  BY DEF NoMap
<1> HIDE DEF none
<1>2. Cut(none, 0) /\ Flying(none, 0, p) /\ Past(none, 0, 0, none, 0) /\ Covered(none, 0, 0, none)
  BY <1>1 DEF Cut, Flying, Past, Covered
<1>3. Apart(none, none, {})
  BY <1>1 DEF Apart, Big
<1>4. \A k \in seen : Known(none, none, p, 0, none, k)
  BY <1>1 DEF Known
<1>5. Agree(none, none, 0, p, 0, none, 0, seen, {})
  BY <1>2, <1>3, <1>4 DEF Agree
<1> QED
  BY <1>5 DEF none

(* The ends start in agreement. *)
LEMMA LinkInit == Init => LinkInv
<1> SUFFICES ASSUME Init PROVE LinkInv
  OBVIOUS
<1> DEFINE x == SenderInit
           x1 == [x EXCEPT !.nextPn = 1, !.oldestPn = 1, !.largestAcked = 0, !.packetBytes = 2, !.reprobe = FALSE]
           y == ReceiverInit
           one == {0}
           y1 == [y EXCEPT !.seen = one, !.creditEnd = CREDIT]
<1>1. (s = x /\ r = y) \/ (s = x1 /\ r = y1)
  BY DEF Init
<1>2. DOMAIN net = {}
  BY DEF Init, EmptyBag, SetToBag
<1>4. /\ x.drained = FALSE /\ x.gone = FALSE /\ x.chunks = NoMap /\ x.inFlight = NoMap /\ x.nextOffset = 0
      /\ x.nextPn = 0 /\ x.emitted = << >> /\ x.written = 0
  BY DEF SenderInit
<1>5. /\ x1.drained = FALSE /\ x1.gone = FALSE /\ x1.chunks = NoMap /\ x1.inFlight = NoMap /\ x1.nextOffset = 0
      /\ x1.nextPn = 1 /\ x1.emitted = << >> /\ x1.written = 0
  BY DEF SenderInit
<1> DEFINE none == {}
<1>6. y.ahead = NoMap /\ y.furthest = 0 /\ y.seen = none /\ y.taken = 0 /\ y.held = << >> /\ y.emitted = << >>
  BY DEF ReceiverInit
<1>7. y1.ahead = NoMap /\ y1.furthest = 0 /\ y1.seen = one /\ y1.taken = 0 /\ y1.held = << >> /\ y1.emitted = << >>
  BY DEF ReceiverInit
<1>8. Agree(NoMap, NoMap, 0, 0, 0, NoMap, 0, none, none)
  BY NoneAgree
<1>9. Agree(NoMap, NoMap, 0, 1, 0, NoMap, 0, one, none)
  BY NoneAgree
<1>10. << >> \in Seq(none) /\ none \subseteq none /\ DOMAIN net = none
  BY <1>2
<1>11. Len(<< >>) = 0
  OBVIOUS
<1> HIDE DEF x, x1, y, y1, one, none
<1>12. Gap(y) = 0 /\ Gap(y1) = 0
  BY <1>6, <1>7, <1>11 DEF Gap
<1>13. Linked(x, y, none)
  BY <1>4, <1>6, <1>8, <1>10, <1>12 DEF Linked
<1>14. Linked(x1, y1, none)
  BY <1>5, <1>7, <1>9, <1>10, <1>12 DEF Linked
<1>15. s.drained = FALSE /\ s.written = 0 /\ Linked(s, r, none)
  BY <1>1, <1>4, <1>5, <1>13, <1>14
<1>16. Links(s, r, DOMAIN net)
  BY <1>10, <1>15 DEF Links
<1>17. s.written + left.bytes <= Total
  <2>1. left.bytes \in 1..Total
    BY StreamAssumption DEF Init, BoundsType
  <2> QED
    BY <1>15, <2>1, StreamAssumption
<1> QED
  BY <1>2, <1>16, <1>17 DEF LinkInv

(* No step but a write spends bytes. *)
LEMMA BytesKept ==
    ASSUME StreamInv
    PROVE  /\ UNCHANGED left => left'.bytes = left.bytes
           /\ \A kind : kind # "bytes" /\ Bounded(kind) => left'.bytes = left.bytes
           /\ Fires => left'.bytes = left.bytes
<1>1. \A kind : kind # "bytes" /\ Bounded(kind) => left'.bytes = left.bytes
  BY DEF StreamInv, LeftOK, Bounded
<1> QED
  BY <1>1 DEF Fires

(* A step of the writing end, which lives on. *)
LEMMA LinkSender ==
    ASSUME StreamInv, StreamInv', LinkInv, ~s.gone, NEW s1, NEW bag, Goes(s, s1), Keeps(s, s1),
           Become(s1, r, bag), DOMAIN bag \subseteq DOMAIN net, left'.bytes = left.bytes
    PROVE  LinkInv'
<1>1. SenderOK(s1) /\ s1.written = s.written /\ ReceiverOK(r, s1.written)
  BY DEF Goes, StreamInv
<1>2. Links(s1, r, DOMAIN net)
  BY DEF LinkInv, Links, Keeps
<1>3. s1.written + left'.bytes <= Total
  BY <1>1 DEF LinkInv
<1> QED
  BY <1>1, <1>2, <1>3, BecomeLinked

(* The writing end ends. *)
LEMMA LinkEnds ==
    ASSUME StreamInv, StreamInv', LinkInv, NEW s1, NEW bag, Goes(s, s1), s1.gone,
           s1.drained /\ ~r.gone => Landed(s1, r, DOMAIN net),
           Become(s1, r, bag), DOMAIN bag \subseteq DOMAIN net, left'.bytes = left.bytes
    PROVE  LinkInv'
<1>1. SenderOK(s1) /\ s1.written = s.written /\ ReceiverOK(r, s1.written)
  BY DEF Goes, StreamInv
<1>2. Links(s1, r, DOMAIN net)
  BY DEF Links
<1>3. s1.written + left'.bytes <= Total
  BY <1>1 DEF LinkInv
<1> QED
  BY <1>1, <1>2, <1>3, BecomeLinked

(* A step of the reading end. *)
LEMMA LinkReceiver ==
    ASSUME StreamInv, StreamInv', LinkInv, NEW r1, NEW bag, ReceiverOK(r1, s.written),
           ~r1.gone => /\ ~r.gone
                       /\ Linked(s, r, DOMAIN net) => Linked(s, r1, DOMAIN net)
                       /\ Landed(s, r, DOMAIN net) => Landed(s, r1, DOMAIN net),
           Become(s, r1, bag), DOMAIN bag \subseteq DOMAIN net, left'.bytes = left.bytes
    PROVE  LinkInv'
<1>1. SenderOK(s)
  BY DEF StreamInv
<1>2. Links(s, r1, DOMAIN net)
  BY DEF LinkInv, Links
<1>3. s.written + left'.bytes <= Total
  BY DEF LinkInv
<1> QED
  BY <1>1, <1>2, <1>3, BecomeLinked

(* An end stops. *)
LEMMA EndIs ==
    ASSUME NEW x, NEW to, SenderOK(x)
    PROVE  /\ end(x, to).gone /\ end(x, to).drained = x.drained
           /\ fail(x).gone /\ fail(x).drained = x.drained /\ fail(x).written = x.written
           /\ fail(x).emitted = x.emitted
<1> DEFINE q == x.emitted \o [k \in 1..3 |-> Close(to)]
           y == [x EXCEPT !.emitted = q]
<1>1. end(x, to) = fail(y)
  BY DEF end, sendClose
<1> HIDE DEF q
<1>2. SenderFields \subseteq DOMAIN y /\ y.drained = x.drained
  BY DEF SenderOK, SenderFields
<1> HIDE DEF y
<1>3. fail(y).gone /\ fail(y).drained = y.drained
  BY <1>2 DEF fail, SenderFields
<1>4. /\ fail(x).gone /\ fail(x).drained = x.drained /\ fail(x).written = x.written
      /\ fail(x).emitted = x.emitted
  BY DEF fail, SenderOK, SenderFields
<1> QED
  BY <1>1, <1>2, <1>3, <1>4

(* A write. *)
LEMMA WriteLinks ==
    ASSUME StreamInv, StreamInv', LinkInv, Write
    PROVE  LinkInv'
<1>1. PICK n \in 1..left.bytes, w \in Windows :
        /\ left' = [left EXCEPT !.bytes = @ - n]
        /\ Become(flush([s EXCEPT !.written = @ + n], 0, w), r, net)
  BY DEF Write
<1>2. ~s.gone /\ SenderOK(s)
  BY DEF Write, StreamInv
<1>3. n \in Nat /\ left.bytes \in Nat /\ left'.bytes = left.bytes - n /\ s.written \in Nat
  BY <1>1 DEF StreamInv, LeftOK, SenderOK
<1> DEFINE x == [s EXCEPT !.written = @ + n]
           y == flush(x, 0, w)
<1>4. SenderOK(x) /\ x.written = s.written + n /\ ReceiverOK(r, s.written + n)
  BY WriteTakes
<1>5. Keeps(s, x)
  BY <1>2, StartsOverKeeps
<1>6. Become(y, r, net)
  BY <1>1
<1> HIDE DEF x
<1>7. Goes(x, y) /\ Keeps(s, y)
  BY <1>4, <1>5, FlushOK, FlushKeeps, KeepsOn
<1> HIDE DEF y
<1>8. SenderOK(y) /\ y.written = s.written + n /\ ReceiverOK(r, y.written) /\ DOMAIN net \subseteq DOMAIN net
  BY <1>4, <1>7 DEF Goes
<1>9. Links(y, r, DOMAIN net)
  BY <1>2, <1>7 DEF LinkInv, Links, Keeps
<1>10. y.written + left'.bytes <= Total
  <2>1. y.written + left'.bytes = s.written + left.bytes
    BY <1>3, <1>8
  <2> QED
    BY <2>1 DEF LinkInv
<1> QED
  BY <1>6, <1>8, <1>9, <1>10, BecomeLinked

(* The timers of the writing end, its closes and a moved path. *)
LEMMA SenderLinks ==
    ASSUME StreamInv, StreamInv', LinkInv,
           \/ CloseGracefully \/ CloseAtOnce \/ LingerEnds \/ OnLossTime
           \/ OnProbeTimeout \/ OnSizeProbeTimeout \/ Repath \/ SenderTick
    PROVE  LinkInv'
<1>0. SenderOK(s) /\ ~s.gone /\ ~s.drained /\ DOMAIN net \subseteq DOMAIN net
  BY DEF StreamInv, LinkInv, Links, CloseGracefully, CloseAtOnce, LingerEnds, OnLossTime, OnProbeTimeout,
         OnSizeProbeTimeout, Repath, SenderTick
<1>E. ASSUME NEW s1, s1 \in {end(s, "r"), fail(s)}, Become(s1, r, net), left'.bytes = left.bytes PROVE LinkInv'
  <2>1. Goes(s, s1) /\ s1.gone /\ s1.drained = s.drained
    BY <1>0, <1>E, EndOK, EndIs
  <2>2. s1.drained /\ ~r.gone => Landed(s1, r, DOMAIN net)
    BY <1>0, <2>1
  <2> QED
    BY <1>0, <1>E, <2>1, <2>2, LinkEnds
<1>1. CASE CloseGracefully
  <2>1. left'.bytes = left.bytes
    BY <1>1, BytesKept DEF CloseGracefully
  <2> DEFINE x == [s EXCEPT !.closing = TRUE]
             y == [s EXCEPT !.drained = TRUE]
             z == end(y, "r")
  <2>2. CASE buffered(s) > 0
    <3>1. Become(x, r, net)
      BY <1>1, <2>2 DEF CloseGracefully
    <3>2. Goes(s, x) /\ Keeps(s, x)
      BY <1>0, StartsOverOK, StartsOverKeeps
    <3> HIDE DEF x
    <3> QED
      BY <1>0, <2>1, <3>1, <3>2, LinkSender
  <2>3. CASE ~(buffered(s) > 0)
    <3>1. Become(z, r, net)
      BY <1>1, <2>3 DEF CloseGracefully
    <3>2. Goes(s, y)
      BY <1>0, StartsOverOK
    <3>3. Linked(s, r, DOMAIN net) => z.gone /\ Landed(z, r, DOMAIN net)
      BY <1>0, <2>3, Drains
    <3> HIDE DEF y
    <3>4. Goes(s, z) /\ z.gone
      BY <3>2, EndOK, EndIs DEF Goes
    <3> HIDE DEF z
    <3>5. ~r.gone => Linked(s, r, DOMAIN net)
      BY <1>0 DEF LinkInv, Links
    <3> QED
      BY <1>0, <2>1, <3>1, <3>3, <3>4, <3>5, LinkEnds
  <2> QED
    BY <2>2, <2>3
<1>2. CASE CloseAtOnce
  BY <1>2, <1>E, BytesKept DEF CloseAtOnce
<1>3. CASE LingerEnds
  BY <1>3, <1>E, BytesKept DEF LingerEnds
<1>4. CASE OnLossTime
  <2>1. left'.bytes = left.bytes
    BY <1>4, BytesKept DEF OnLossTime
  <2>2. PICK aged \in Aged(s), w \in Windows : Become(flush(detectLoss(s, aged), 0, w), r, net)
    BY <1>4 DEF OnLossTime
  <2>3. Goes(s, detectLoss(s, aged)) /\ Keeps(s, detectLoss(s, aged))
    BY <1>0, DetectLossOK, DetectLossKeeps
  <2>4. Goes(s, flush(detectLoss(s, aged), 0, w)) /\ Keeps(s, flush(detectLoss(s, aged), 0, w))
    BY <2>3, FlushOK, FlushKeeps, KeepsOn DEF Goes
  <2> QED
    BY <1>0, <2>1, <2>2, <2>4, LinkSender
<1>5. CASE OnProbeTimeout
  <2>1. left'.bytes = left.bytes
    BY <1>5, BytesKept DEF OnProbeTimeout
  <2> DEFINE x == [DropsBack(s) EXCEPT !.ptoCount = Min({@ + 1, MAX_PTOS})]
  <2>2. Become(end(s, "r"), r, net) \/ \E w \in Windows : Become(flush(x, 2, w), r, net)
    BY <1>5 DEF OnProbeTimeout
  <2>3. Goes(s, x) /\ Keeps(s, x)
    BY <1>0, StartsOverOK, StartsOverKeeps
  <2> HIDE DEF x
  <2>4. \A w : Goes(s, flush(x, 2, w)) /\ Keeps(s, flush(x, 2, w))
    BY <2>3, FlushOK, FlushKeeps, KeepsOn DEF Goes
  <2>5. CASE Become(end(s, "r"), r, net)
    BY <1>E, <2>1, <2>5
  <2> QED
    BY <1>0, <2>1, <2>2, <2>4, <2>5, LinkSender
<1>6. CASE OnSizeProbeTimeout
  <2>1. left'.bytes = left.bytes /\ Become(sendProbe(s), r, net)
    BY <1>6, BytesKept DEF OnSizeProbeTimeout
  <2>2. Goes(s, sendProbe(s)) /\ Keeps(s, sendProbe(s))
    BY <1>0, ProbesOK, ProbesKeeps
  <2> QED
    BY <1>0, <2>1, <2>2, LinkSender
<1>7. CASE Repath
  <2>1. left'.bytes = left.bytes
    BY <1>7, BytesKept DEF Repath
  <2> DEFINE x == [s EXCEPT !.ptoCount = 0, !.packetBytes = 1, !.reprobe = FALSE]
  <2>2. PICK w \in Windows : Become(startProbe(flush(x, 0, w)), r, net)
    BY <1>7 DEF Repath
  <2>3. Goes(s, x) /\ Keeps(s, x)
    BY <1>0, StartsOverOK, StartsOverKeeps
  <2> HIDE DEF x
  <2>4. Goes(s, flush(x, 0, w)) /\ Keeps(s, flush(x, 0, w))
    BY <2>3, FlushOK, FlushKeeps, KeepsOn DEF Goes
  <2>5. Goes(s, startProbe(flush(x, 0, w))) /\ Keeps(s, startProbe(flush(x, 0, w)))
    BY <2>4, ProbesOK, ProbesKeeps, KeepsOn DEF Goes
  <2> QED
    BY <1>0, <2>1, <2>2, <2>5, LinkSender
<1>8. CASE SenderTick
  BY <1>8, <1>E, BytesKept DEF SenderTick
<1> QED
  BY <1>1, <1>2, <1>3, <1>4, <1>5, <1>6, <1>7, <1>8

(* An ACK arrives, so the writing end lives: a graceful close may end. *)
LEMMA AckLinks ==
    ASSUME StreamInv, StreamInv', LinkInv, NEW m \in DOMAIN net, OnAck(m)
    PROVE  LinkInv'
<1> DEFINE x == Acked(s, m)
           B == DOMAIN net
<1>1. SenderOK(s) /\ m.credit \in Int /\ m.type = "ACK" /\ ~s.gone /\ ~s.drained
  BY DEF StreamInv, NetOK, MsgOK, OnAck, LinkInv, Links
<1>2. PICK aged \in {{}} \union Aged(x), w \in Windows :
        /\ IF aged = {} THEN UNCHANGED left ELSE Fires
        /\ Become(EndsDrained(IF m.seen = {} THEN x ELSE Reprobes(detectLoss(x, aged)), w), r, BagRemove(net, m))
  BY DEF OnAck
<1>3. left'.bytes = left.bytes
  BY <1>2, BytesKept
<1> DEFINE y == IF m.seen = {} THEN x ELSE Reprobes(detectLoss(x, aged))
           d == [y EXCEPT !.drained = TRUE]
           z == end(d, "r")
           f == flush(y, 0, w)
           bag == BagRemove(net, m)
<1>4. /\ Goes(s, x) /\ x.gone = s.gone /\ x.drained = s.drained
      /\ Linked(s, r, B) => Linked(x, r, B)
  BY <1>1, AckedOK, AckedKeeps
<1>5. Become(EndsDrained(y, w), r, bag)
  BY <1>2
<1>6. DOMAIN bag \subseteq B
  BY RemoveKeeps
<1> HIDE DEF x, bag
<1>7. Goes(x, detectLoss(x, aged)) /\ Keeps(x, detectLoss(x, aged))
  BY <1>4, DetectLossOK, DetectLossKeeps DEF Goes
<1>8. Goes(x, Reprobes(detectLoss(x, aged))) /\ Keeps(x, Reprobes(detectLoss(x, aged)))
  BY <1>7, ProbesOK, ProbesKeeps, KeepsOn DEF Goes
<1>9. SenderOK(y) /\ y.written = s.written /\ y.gone = s.gone /\ y.drained = s.drained
      /\ (Linked(s, r, B) => Linked(y, r, B))
  BY <1>4, <1>8 DEF Goes, Keeps
<1> HIDE DEF y, B
<1>10. ~r.gone => Linked(y, r, B)
  BY <1>1, <1>9 DEF LinkInv, Links, B
<1>11. ReceiverOK(r, s.written) /\ s.written + left'.bytes <= Total
  BY <1>3 DEF StreamInv, LinkInv
<1>12. CASE y.closing /\ buffered(y) = 0
  <2>1. Become(z, r, bag)
    BY <1>5, <1>12 DEF EndsDrained
  <2>2. Goes(y, d)
    BY <1>9, StartsOverOK
  <2>3. ~(buffered(y) > 0)
    BY <1>12
  <2>4. Linked(y, r, B) => z.gone /\ Landed(z, r, B)
    BY <1>9, <2>3, Drains
  <2> HIDE DEF d
  <2>5. Goes(d, z) /\ z.gone
    BY <2>2, EndOK, EndIs DEF Goes
  <2> HIDE DEF z
  <2>6. Goes(s, z) /\ (z.drained /\ ~r.gone => Landed(z, r, DOMAIN net))
    BY <1>9, <1>10, <2>2, <2>4, <2>5 DEF Goes, B
  <2> QED
    BY <1>3, <1>6, <2>1, <2>5, <2>6, LinkEnds DEF B
<1>13. CASE ~(y.closing /\ buffered(y) = 0)
  <2>1. Become(f, r, bag)
    BY <1>5, <1>13 DEF EndsDrained
  <2>2. Goes(y, f) /\ Keeps(y, f)
    BY <1>9, FlushOK, FlushKeeps
  <2> HIDE DEF f
  <2>3. SenderOK(f) /\ f.written = s.written /\ f.gone = s.gone /\ f.drained = s.drained
        /\ (~r.gone => Linked(f, r, B))
    BY <1>9, <1>10, <2>2 DEF Goes, Keeps
  <2>4. Links(f, r, DOMAIN net)
    BY <1>1, <2>3 DEF Links, B
  <2>5. ReceiverOK(r, f.written) /\ f.written + left'.bytes <= Total
    BY <1>11, <2>3
  <2> QED
    BY <1>6, <2>1, <2>3, <2>4, <2>5, BecomeLinked DEF B
<1> QED
  BY <1>12, <1>13

(* The steps of the reading end. *)
LEMMA ReceiverLinks ==
    ASSUME StreamInv, StreamInv', LinkInv, ReadDone \/ Turn \/ CloseReading \/ ReceiverTick
    PROVE  LinkInv'
<1> DEFINE w == s.written
<1>0. ReceiverOK(r, w) /\ w \in Nat /\ DOMAIN net \subseteq DOMAIN net
  BY DEF StreamInv, SenderOK
<1>H. ASSUME NEW r1, ReceiverOK(r1, w), r1.gone = r.gone, Holding(r, r1), Become(s, r1, net),
             left'.bytes = left.bytes
      PROVE  LinkInv'
  BY <1>0, <1>H, LinkReceiver DEF Holding
<1>E. ASSUME NEW r1, Stops(r, r1, w), Become(s, r1, net), left'.bytes = left.bytes PROVE LinkInv'
  BY <1>0, <1>E, LinkReceiver DEF Stops
<1>1. ASSUME NEW y, Like(r, y), y.furthest = r.furthest, y.seen = r.seen
      PROVE  ReceiverOK(y, w) /\ y.gone = r.gone /\ Holding(r, y)
  <2>1. Same(r, y, w)
    BY <1>0, <1>1, LikeSame
  <2>2. Gap(y) = Gap(r)
    BY <1>1 DEF Like, Gap
  <2>3. Holding(r, y)
    BY <1>1, <2>2, AlikeHolding DEF Like
  <2> QED
    BY <2>1, <2>3 DEF Same
<1>2. ASSUME NEW y, NEW fast, ReceiverOK(y, w), y.gone = r.gone, Holding(r, y)
      PROVE  ReceiverOK(deliver(y, fast), w) /\ deliver(y, fast).gone = r.gone /\ Holding(r, deliver(y, fast))
  <2>1. Holding(y, deliver(y, fast)) /\ ReceiverOK(deliver(y, fast), w)
    BY <1>0, <1>2, DeliverHolding
  <2>2. Reader(y, deliver(y, fast), w)
    BY <1>0, <1>2, DeliverOK
  <2>3. deliver(y, fast).gone = y.gone
    BY <2>2 DEF Reader, Same, Hands
  <2> QED
    BY <1>2, <2>1, <2>3, HoldingOn
<1>3. CASE ReadDone
  <2> DEFINE y == [r EXCEPT !.reading = FALSE]
  <2>1. left'.bytes = left.bytes
    BY <1>3, BytesKept DEF ReadDone
  <2>2. PICK fast \in BOOLEAN : Become(s, deliver(y, fast), net)
    BY <1>3 DEF ReadDone
  <2>3. Like(r, y) /\ y.furthest = r.furthest /\ y.seen = r.seen
    BY <1>0 DEF Like, ReceiverOK, ReceiverFields
  <2> HIDE DEF y, w
  <2> QED
    BY <1>1, <1>2, <1>H, <2>1, <2>2, <2>3
<1>4. CASE Turn
  <2> DEFINE y == [r EXCEPT !.turnDue = FALSE]
  <2>1. left'.bytes = left.bytes
    BY <1>4, BytesKept DEF Turn
  <2>2. PICK fast \in BOOLEAN : Become(s, IF deliver(y, fast).unacked THEN sendAck(deliver(y, fast))
                                          ELSE deliver(y, fast), net)
    BY <1>4 DEF Turn
  <2>3. Like(r, y) /\ y.furthest = r.furthest /\ y.seen = r.seen
    BY <1>0 DEF Like, ReceiverOK, ReceiverFields
  <2> HIDE DEF y, w
  <2> DEFINE d == deliver(y, fast)
  <2>4. ReceiverOK(d, w) /\ d.gone = r.gone /\ Holding(r, d)
    BY <1>1, <1>2, <2>3
  <2>5. Become(s, d, net) \/ Become(s, sendAck(d), net)
    BY <2>2
  <2> HIDE DEF d
  <2>6. ReceiverOK(sendAck(d), w) /\ sendAck(d).gone = r.gone /\ Holding(r, sendAck(d))
    BY <2>4, SendAckOK, SendAckHolding, HoldingOn DEF Same
  <2> QED
    BY <1>H, <2>1, <2>4, <2>5, <2>6
<1>5. CASE CloseReading
  <2>1. left'.bytes = left.bytes /\ ~r.gone /\ Become(s, end(r, "s"), net)
    BY <1>5, BytesKept DEF CloseReading
  <2>2. Stops(r, end(r, "s"), w)
    BY <1>0, <2>1, StopsOK
  <2> QED
    BY <1>E, <2>1, <2>2
<1>6. CASE ReceiverTick
  <2>1. left'.bytes = left.bytes /\ ~r.gone
    BY <1>6, BytesKept DEF ReceiverTick
  <2>2. Become(s, fail(r), net) \/ Become(s, sendAck(r), net)
    BY <1>6 DEF ReceiverTick
  <2>3. Stops(r, fail(r), w)
    BY <1>0, <2>1, StopsOK
  <2>4. ReceiverOK(sendAck(r), w) /\ sendAck(r).gone = r.gone /\ Holding(r, sendAck(r))
    BY <1>0, SendAckOK, SendAckHolding DEF Same
  <2> QED
    BY <1>E, <1>H, <2>1, <2>2, <2>3, <2>4
<1> QED
  BY <1>3, <1>4, <1>5, <1>6

(* A chunk, a packet-size probe or a CLOSE arrives. *)
LEMMA ArrivesLinks ==
    ASSUME StreamInv, StreamInv', LinkInv, NEW m \in DOMAIN net, OnChunk(m) \/ OnProbe(m) \/ OnClose(m)
    PROVE  LinkInv'
<1> DEFINE w == s.written
           bag == BagRemove(net, m)
<1>0. /\ SenderOK(s) /\ ReceiverOK(r, w) /\ w \in Nat /\ MsgOK(m, w) /\ (m.to = "r" => ~r.gone)
      /\ DOMAIN bag \subseteq DOMAIN net
  BY RemoveKeeps DEF StreamInv, SenderOK, NetOK
<1>1. CASE OnChunk(m)
  <2> DEFINE y == onChunk(r, m)
  <2>1. left'.bytes = left.bytes /\ m.type = "DATA" /\ Become(s, y, bag)
    BY <1>1, BytesKept DEF OnChunk
  <2>2. ~r.gone /\ m.offset \in Nat /\ m.len \in Nat /\ m.offset + m.len <= w
    BY <1>0, <2>1 DEF MsgOK
  <2>3. ReceiverOK(y, w)
    BY <1>0, <2>2, OnChunkOK DEF Same, Stops
  <2>4. s.nextOffset <= Total
    <3>1. s.nextOffset \in Nat /\ s.nextOffset <= s.written /\ s.written \in Nat /\ left.bytes \in Nat
      BY DEF StreamInv, SenderOK, LeftOK
    <3> QED
      BY <3>1, StreamAssumption DEF LinkInv
  <2>5. Linked(s, r, DOMAIN net) => (~y.gone => Linked(s, y, DOMAIN net))
    BY <1>0, <2>1, <2>2, <2>4, OnChunkLinked
  <2>6. Landed(s, r, DOMAIN net) => (~y.gone => Landed(s, y, DOMAIN net))
    BY <1>0, <2>1, <2>2, OnChunkLanded
  <2> HIDE DEF y, bag
  <2> QED
    BY <1>0, <2>1, <2>2, <2>3, <2>5, <2>6, LinkReceiver
<1>2. CASE OnProbe(m)
  <2> DEFINE y == received(r, m.pn)
  <2>1. left'.bytes = left.bytes /\ m.type = "PROBE" /\ Become(s, y, bag)
    BY <1>2, BytesKept DEF OnProbe
  <2>2. Same(r, y, w)
    BY <1>0, ReceivedOK
  <2>3. /\ Linked(s, r, DOMAIN net) => Linked(s, y, DOMAIN net)
        /\ Landed(s, r, DOMAIN net) => Landed(s, y, DOMAIN net)
    BY <1>0, <2>1, ProbeHolding
  <2> HIDE DEF y, bag
  <2> QED
    BY <1>0, <2>1, <2>2, <2>3, LinkReceiver DEF Same
<1>3. CASE OnClose(m) /\ m.to = "r"
  <2> DEFINE y == fail([r EXCEPT !.told = TRUE])
  <2>1. left'.bytes = left.bytes /\ Become(s, y, bag)
    BY <1>3, BytesKept DEF OnClose
  <2>2. Stops(r, y, w)
    BY <1>0, <1>3, StopsOK
  <2> HIDE DEF y, bag
  <2> QED
    BY <1>0, <2>1, <2>2, LinkReceiver DEF Stops
<1>4. CASE OnClose(m) /\ m.to # "r"
  <2>1. left'.bytes = left.bytes /\ (Become(fail(s), r, bag) \/ Become(s, r, bag))
    BY <1>4, BytesKept DEF OnClose
  <2> HIDE DEF bag
  <2>2. CASE Become(fail(s), r, bag)
    <3> DEFINE x == fail(s)
    <3>1. Goes(s, x) /\ x.gone /\ x.drained = s.drained /\ x.written = s.written /\ x.emitted = s.emitted
      BY <1>0, EndOK, EndIs
    <3> HIDE DEF x
    <3>2. x.drained /\ ~r.gone => Landed(x, r, DOMAIN net)
      BY <3>1 DEF LinkInv, Links, Landed
    <3> QED
      BY <1>0, <2>1, <2>2, <3>1, <3>2, LinkEnds DEF x
  <2>3. CASE Become(s, r, bag)
    BY <1>0, <2>1, <2>3, LinkReceiver
  <2> QED
    BY <2>1, <2>2, <2>3
<1> QED
  BY <1>1, <1>2, <1>3, <1>4

(* Fewer datagrams under way, and the ends as they were. *)
LEMMA FewerLinks ==
    ASSUME NEW x, NEW y, NEW B, NEW C, C \subseteq B, Links(x, y, B)
    PROVE  Links(x, y, C)
BY DEF Links, Linked, Landed

(* The path loses and repeats datagrams, and gets worse. *)
LEMMA PathLinks ==
    ASSUME StreamInv, LinkInv, PathWorsens \/ \E m \in DOMAIN net : Lose(m) \/ Repeat(m)
    PROVE  LinkInv'
<1>1. DOMAIN net' \subseteq DOMAIN net
  <2>1. CASE PathWorsens
    BY <2>1 DEF PathWorsens
  <2>2. ASSUME NEW m \in DOMAIN net, Lose(m) PROVE DOMAIN net' \subseteq DOMAIN net
    BY <2>2, RemoveKeeps DEF Lose
  <2>3. ASSUME NEW m \in DOMAIN net, Repeat(m) PROVE DOMAIN net' \subseteq DOMAIN net
    BY <2>3 DEF Repeat, BagAdd
  <2> QED
    BY <2>1, <2>2, <2>3
<1>2. left'.bytes = left.bytes /\ s' = s /\ r' = r
  BY BytesKept DEF PathWorsens, Lose, Repeat
<1>3. Links(s, r, DOMAIN net')
  BY <1>1, FewerLinks DEF LinkInv
<1> QED
  BY <1>1, <1>2, <1>3 DEF LinkInv

(* Every step keeps the agreement. *)
LEMMA LinkNext == StreamInv /\ LinkInv /\ [Next]_vars => LinkInv'
<1> SUFFICES ASSUME StreamInv, LinkInv, [Next]_vars PROVE LinkInv'
  OBVIOUS
<1>0. StreamInv'
  BY StreamNext
<1>1. CASE Write
  BY <1>0, <1>1, WriteLinks
<1>2. CASE CloseGracefully \/ CloseAtOnce \/ Repath
  BY <1>0, <1>2, SenderLinks
<1>3. CASE ReadDone \/ Turn \/ CloseReading
  BY <1>0, <1>3, ReceiverLinks
<1>4. CASE Timers
  BY <1>0, <1>4, SenderLinks, ReceiverLinks DEF Timers
<1>5. CASE Arrives
  BY <1>0, <1>5, AckLinks, ArrivesLinks DEF Arrives
<1>6. CASE (\E m \in DOMAIN net : Lose(m) \/ Repeat(m)) \/ PathWorsens
  BY <1>6, PathLinks
<1>7. CASE UNCHANGED vars
  <2>1. UNCHANGED <<s, r, net, left>>
    BY <1>7 DEF vars
  <2> QED
    BY <2>1 DEF LinkInv
<1> QED
  BY <1>1, <1>2, <1>3, <1>4, <1>5, <1>6, <1>7 DEF Next

(* A graceful close that did not time out leaves all of what was written   *)
(* at the other end (stream.js close, the end of onAck): whatever was      *)
(* lost, repeated, reordered, split or sent again, an ACK never takes from *)
(* the writing end a chunk the reading end lacks a byte of.                *)
THEOREM DrainedHolds == Spec => []DrainedReceived
<1>1. Init => StreamInv /\ LinkInv
  BY StreamInit, LinkInit
<1>2. StreamInv /\ LinkInv /\ [Next]_vars => StreamInv' /\ LinkInv'
  BY StreamNext, LinkNext
<1>3. StreamInv /\ LinkInv => DrainedReceived
  BY DEF LinkInv, Links, Landed, Gap, DrainedReceived
<1> QED
  BY <1>1, <1>2, <1>3, PTL DEF Spec
=============================================================================
