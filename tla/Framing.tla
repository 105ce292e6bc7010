------------------------------ MODULE Framing -------------------------------
(***************************************************************************)
(* How a link's bytes become its messages (transport/src/framing.js, with  *)
(* ake.js onWire and onMessage): one direction, from the framer of a peer  *)
(* to the framer, the work chain and the handshake of a reading end.       *)
(*                                                                         *)
(* A message is its number.  A frame's head is one unit of the stream and  *)
(* each unit of its payload another; a unit names its frame, and a read    *)
(* may end at any of them.  The driver hands over a read once the one      *)
(* before is done.  Whatever RFC 6455 lets a peer do it may do: fragment   *)
(* a message, ping between fragments, close.  The upgrade, once its head   *)
(* is whole, succeeds.                                                     *)
(***************************************************************************)
EXTENDS Integers, Sequences

CONSTANTS
    maxHandshakeFrame,     \* a frame's cap until the link is authenticated
    maxFrame               \* and from then on

ASSUME FramingAssumption == /\ {maxHandshakeFrame, maxFrame} \subseteq Nat \ {0}
                            /\ maxHandshakeFrame < maxFrame

VARIABLES
    codec,       \* "none" until there is a link; "length", "ws", or "message" for a framed channel
    weDialed,      \* the reading end dialed
    writer,      \* the peer's framer: [open, head, waiting, writes, sent, closed, stray]
    stream,      \* units under way
    reader,      \* the reading framer: see NewReader
    work,        \* messages on the reading link's work chain
    handled      \* messages it has handled

framingVars == <<codec, weDialed, writer, stream, reader, work, handled>>

(* `at` is what the read in hand waits for: "idle" for none in hand,       *)
(* "parse" to go on, "upgrade", "unmask", "pong", or "step", the handling  *)
(* of the message before.  `frag` counts the payload of a message whose    *)
(* last fragment is to come, -1 for none; `taken` is the frame being       *)
(* unmasked; `refused` why nothing more is read.                           *)
NewReader == [open |-> FALSE, parts |-> << >>, cap |-> maxHandshakeFrame, frag |-> -1,
              at |-> "idle", taken |-> << >>, refused |-> "no"]
NewWriter == [open |-> FALSE, head |-> FALSE, waiting |-> << >>, writes |-> << >>,
              sent |-> 0, closed |-> FALSE, stray |-> FALSE]

FramingInit == /\ codec = "none" /\ weDialed = FALSE /\ writer = NewWriter /\ stream = << >>
               /\ reader = NewReader /\ work = << >> /\ handled = << >>

(* makeFramer. *)
LinkMade(c, d) == /\ codec = "none" /\ codec' = c /\ weDialed' = d
                  /\ reader' = [reader EXCEPT !.open = c # "ws"]
                  /\ writer' = [writer EXCEPT !.open = c # "ws"]
                  /\ UNCHANGED <<stream, work, handled>>

(* ---- the peer's framer ---- *)

Frame(op, msg, size, fin) == [op |-> op, msg |-> msg, size |-> size, fin |-> fin]
Units(f) == [u \in 1..(f.size + 1) |-> f]
Fragments(msg, size) == <<Frame("binary", msg, size - 1, FALSE), Frame("cont", msg, 1, TRUE)>>
Whole(msg, size) == <<Frame("binary", msg, size, TRUE)>>

(* The client's GET, or the server's 101 with which it is open. *)
PutHead == /\ codec = "ws" /\ ~writer.head
           /\ stream' = stream \o Units(Frame("head", 0, 1, TRUE))
           /\ writer' = [writer EXCEPT !.head = TRUE, !.open = weDialed]
           /\ UNCHANGED <<codec, weDialed, reader, work, handled>>

(* The 101 reaches the client: what waited for it goes on the write chain. *)
PeerOpens == /\ codec = "ws" /\ ~weDialed /\ reader.open /\ ~writer.open /\ ~writer.closed
             /\ writer' = [writer EXCEPT !.open = TRUE, !.writes = @ \o writer.waiting, !.waiting = << >>]
             /\ UNCHANGED <<codec, weDialed, stream, reader, work, handled>>

(* The message with which the reading end is authenticated, and how long   *)
(* one may be.  The second answers what the first brings; an accepting     *)
(* peer's first answers ours, which waits for our own upgrade.             *)
AuthAt == IF weDialed THEN 1 ELSE 2
MaxSize(m) == IF m <= AuthAt THEN maxHandshakeFrame ELSE maxFrame
MaySend == /\ codec # "none" /\ ~writer.closed
           /\ weDialed => reader.open
           /\ writer.sent >= 1 => Len(handled) >= 1

(* send: framed and put in order, or kept until the upgrade completes. *)
Send(size, cut) ==
    /\ MaySend /\ size <= MaxSize(writer.sent + 1) /\ (cut => codec = "ws")
    /\ LET m == writer.sent + 1
           frames == IF cut THEN Fragments(m, size) ELSE Whole(m, size)
       IN writer' = IF writer.open THEN [writer EXCEPT !.sent = m, !.writes = @ \o frames]
                    ELSE [writer EXCEPT !.sent = m, !.waiting = @ \o frames]
    /\ UNCHANGED <<codec, weDialed, stream, reader, work, handled>>

(* The next of the write chain, masked if it must be, is put. *)
Puts == /\ writer.writes # << >>
        /\ stream' = stream \o Units(Head(writer.writes))
        /\ writer' = [writer EXCEPT !.writes = Tail(@)]
        /\ UNCHANGED <<codec, weDialed, reader, work, handled>>

(* A ping, at once and between any two frames; or a frame out of order: a  *)
(* message amid another's fragments, a fragment of none.                   *)
Pings == /\ codec = "ws" /\ writer.open /\ ~writer.closed
         /\ stream' = stream \o Units(Frame("ping", 0, 0, TRUE))
         /\ UNCHANGED <<codec, weDialed, writer, reader, work, handled>>
Strays == /\ codec = "ws" /\ writer.open /\ ~writer.closed
          /\ LET amid == writer.writes # << >> /\ Head(writer.writes).op = "cont"
             IN stream' = stream \o Units(Frame(IF amid THEN "binary" ELSE "cont", 0, 1, TRUE))
          /\ writer' = [writer EXCEPT !.stray = TRUE, !.closed = TRUE]
          /\ UNCHANGED <<codec, weDialed, reader, work, handled>>

(* The peer's link ends: the end-of-stream record and the codec's own, if  *)
(* it is up; else what waits for the upgrade fails (goodbye, abort).       *)
Goodbye == IF codec = "ws" THEN <<Frame("close", 0, 0, TRUE)>> ELSE << >>
PeerEnds(farewell) ==
    /\ codec # "none" /\ ~writer.closed
    /\ farewell => writer.open /\ writer.sent >= 2 /\ MaySend
    /\ writer' = IF farewell
                 THEN [writer EXCEPT !.closed = TRUE, !.sent = @ + 1,
                                     !.writes = @ \o Whole(writer.sent + 1, 1) \o Goodbye]
                 ELSE [writer EXCEPT !.closed = TRUE, !.waiting = << >>, !.writes = << >>]
    /\ UNCHANGED <<codec, weDialed, stream, reader, work, handled>>

(* ---- the reading end ---- *)

(* Pieces: what is buffered, in order, and the first n units of it taken. *)
Pushed(r, units) == [r EXCEPT !.parts = @ \o units]
Taken(r, n) == [r EXCEPT !.parts = SubSeq(@, n + 1, Len(@))]
Complete(parts) == parts # << >> /\ Len(parts) >= Head(parts).size + 1

(* read: frames are parsed; before the upgrade its head is gathered.       *)
HeadWhole(parts) == Complete(parts)
Begins(r) == [r EXCEPT !.at = IF r.open THEN "parse" ELSE IF HeadWhole(r.parts) THEN "upgrade" ELSE "idle"]

(* onWire, push: a read, once the one before is done with the messages it  *)
(* brought.  A channel that frames brings whole messages.                  *)
Push(n) ==
    /\ reader.at = "idle" /\ reader.refused = "no" /\ work = << >>
    /\ codec = "message" => n = Head(stream).size + 1
    /\ reader' = Begins(Pushed(reader, SubSeq(stream, 1, n)))
    /\ stream' = SubSeq(stream, n + 1, Len(stream))
    /\ UNCHANGED <<codec, weDialed, writer, work, handled>>

(* upgrade, and the frames behind the head. *)
Upgrades == /\ reader.at = "upgrade"
            /\ reader' = [Taken(reader, Head(reader.parts).size + 1) EXCEPT !.open = TRUE, !.at = "parse"]
            /\ UNCHANGED <<codec, weDialed, writer, stream, work, handled>>

(* refuse: a stall before authentication drops what is buffered. *)
Refuse(r, why) == [r EXCEPT !.refused = why, !.at = "idle", !.parts = << >>, !.frag = -1]

(* deliver: on the work chain; until the cap is raised the step is awaited, *)
(* since it may raise it.                                                  *)
StepUnawaited(r) == "parse"
AwaitsStep(r) == IF r.cap # maxFrame THEN "step" ELSE "parse"
Delivers(r, m) == reader' = [r EXCEPT !.at = AwaitsStep(r), !.frag = -1] /\ work' = Append(work, m)
Goes(r) == reader' = r /\ UNCHANGED work

(* What a whole frame is: a fragment, a message, or control. *)
Dispatch(r, f) ==
    LET bytes == r.frag + f.size
    IN IF f.op = "cont"
       THEN IF r.frag < 0 THEN Goes(Refuse(r, "order"))
            ELSE IF bytes > r.cap THEN Goes(Refuse(r, "cap"))
            ELSE IF f.fin THEN Delivers(r, f.msg) ELSE Goes([r EXCEPT !.frag = bytes, !.at = "parse"])
       ELSE IF f.op = "ping" THEN Goes([r EXCEPT !.at = "pong"])
       ELSE IF f.op = "close" THEN Goes(Refuse(r, "close"))
       ELSE IF r.frag >= 0 THEN Goes(Refuse(r, "order"))
       ELSE IF f.fin THEN Delivers(r, f.msg) ELSE Goes([r EXCEPT !.frag = f.size, !.at = "parse"])

(* parse, frames: the next frame is measured, waited for, or taken. *)
OverCap(r) == r.parts # << >> /\ Head(r.parts).size > r.cap
Parse ==
    /\ reader.at = "parse"
    /\ IF OverCap(reader) THEN Goes(Refuse(reader, "cap"))
       ELSE IF ~Complete(reader.parts) THEN Goes([reader EXCEPT !.at = "idle"])
       ELSE LET f == Head(reader.parts)
                r == Taken(reader, f.size + 1)
            IN IF codec = "ws" /\ ~weDialed THEN Goes([r EXCEPT !.at = "unmask", !.taken = <<f>>])
               ELSE Dispatch(r, f)
    /\ UNCHANGED <<codec, weDialed, writer, stream, handled>>

Unmasked == /\ reader.at = "unmask"
            /\ Dispatch([reader EXCEPT !.taken = << >>], Head(reader.taken))
            /\ UNCHANGED <<codec, weDialed, writer, stream, handled>>

(* The step awaited has been taken, or the pong is put. *)
Resumes == /\ \/ reader.at = "step" /\ work = << >>
              \/ reader.at = "pong"
           /\ reader' = [reader EXCEPT !.at = "parse"]
           /\ UNCHANGED <<codec, weDialed, writer, stream, work, handled>>

(* onMessage, on the work chain: behind a refusal it is dropped; the       *)
(* authenticating one raises the cap (becomeAuthed).                       *)
Raises(r, m) == IF m = AuthAt THEN [r EXCEPT !.cap = maxFrame] ELSE r
OnMessage ==
    /\ work # << >> /\ work' = Tail(work)
    /\ IF reader.refused # "no" THEN UNCHANGED <<reader, handled>>
       ELSE /\ handled' = Append(handled, Head(work))
            /\ reader' = Raises(reader, Head(work))
    /\ UNCHANGED <<codec, weDialed, writer, stream>>
-----------------------------------------------------------------------------
(* "each message is handled before the next frame is measured" (frames):   *)
(* however its bytes are cut into reads and its messages into fragments, a *)
(* peer's messages are handled in order with none left out, one that keeps *)
(* to the rules is never refused, its first record right behind the        *)
(* message that authenticates it included, and no whole frame is left      *)
(* unread.                                                                 *)
FramesKept ==
    /\ \A k \in DOMAIN handled : handled[k] = k
    /\ reader.refused \in {"cap", "order"} => writer.stray
    /\ reader.at = "idle" /\ reader.open => ~Complete(reader.parts)

(* "a frame sent and a peer forgotten right after still arrives"           *)
(* (docs/TRANSPORT.md): a codec's close frame finds what came before it    *)
(* handled.  Refuted: see README.                                          *)
ClosedBehind == reader.refused = "close" /\ work = << >> => Len(handled) = writer.sent
=============================================================================
