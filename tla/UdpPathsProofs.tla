--------------------------- MODULE UdpPathsProofs ---------------------------
(***************************************************************************)
(* Proofs about UdpPaths: whatever routes there are, however often an end  *)
(* moves and whatever is lost or late, an end sends only where the peer    *)
(* has answered the challenge it held.  And about Negotiations, whose      *)
(* paths these are: whatever begins, ends or is refused, the socket budget *)
(* stays whole and nothing that has ended holds anything.                  *)
(***************************************************************************)
EXTENDS UdpPaths, Negotiations, SetLemmas, SequenceTheorems

-----------------------------------------------------------------------------
(* The inductive invariant.  (Each part takes the state it is about as     *)
(* arguments, so that a step is a fact about two values.)                  *)

(* What an end's path is read from is there. *)
EndOK(x) == /\ {"path", "moving"} \subseteq DOMAIN x
            /\ x.path \in Routes \union {None}

Shaped(ends, ans, n) ==
    /\ DOMAIN ends = Ends /\ DOMAIN ans = Ends
    /\ \A e \in Ends : EndOK(ends[e])
    /\ \A m \in n : m.to \in Ends /\ m.route \in Routes

(* An answer under way that its end would take a path on was given to the  *)
(* challenge that end holds: before the first path any answer to the       *)
(* punch, and afterwards one to the move it is making.  So it is not       *)
(* enough that the answer is genuine: probeMove makes those to the move    *)
(* before it worthless.                                                    *)
Honoured(x, answers, m) ==
    /\ m.challenge = "punch" /\ x.path = None => m.route \in answers
    /\ m.challenge = "move" /\ m.route = x.moving => m.route \in answers
AcksHonoured(ends, ans, n) ==
    \A m \in n : m.type = "ACK" => Honoured(ends[m.to], ans[m.to], m)

Answered(ends, ans) == \A e \in Ends : ends[e].path # None => ends[e].path \in ans[e]

Good(ends, ans, n) == Shaped(ends, ans, n) /\ AcksHonoured(ends, ans, n) /\ Answered(ends, ans)
PathInv == Good(end, answered, net)

-----------------------------------------------------------------------------
(* Neither end is its own peer. *)
LEMMA PeerOther == \A e \in Ends : Peer(e) \in Ends /\ Peer(e) # e
BY DEF Ends, Peer

(* Two states of an end have the same path, and the same move under way. *)
SameWay(x, y) == EndOK(y) /\ y.path = x.path /\ y.moving = x.moving

(* What changes neither where an end sends nor what it challenges, and     *)
(* puts no answer on its way, keeps the invariant (Start, Down, OnMapped,  *)
(* Answer, Refill, Round, SendData, Quiets, Lose).                         *)
LEMMA KeepsWay ==
    ASSUME NEW ends, NEW ends1, NEW ans, NEW n, NEW n1, NEW e \in Ends,
           Good(ends, ans, n),
           DOMAIN ends1 = Ends, SameWay(ends[e], ends1[e]),
           \A d \in Ends : d # e => ends1[d] = ends[d],
           \A m \in n1 : m \in n \/ (m.type # "ACK" /\ m.to \in Ends /\ m.route \in Routes)
    PROVE  Good(ends1, ans, n1)
<1>1. \A d \in Ends : SameWay(ends[d], ends1[d])
  BY DEF SameWay, Good, Shaped
<1>2. Shaped(ends1, ans, n1)
  BY <1>1 DEF Good, Shaped, SameWay
<1>3. Answered(ends1, ans)
  BY <1>1 DEF Good, Answered, SameWay
<1>4. ASSUME NEW m \in n1, m.type = "ACK" PROVE Honoured(ends1[m.to], ans[m.to], m)
  <2>1. m \in n /\ m.to \in Ends
    BY <1>4 DEF Good, Shaped
  <2>2. Honoured(ends[m.to], ans[m.to], m)
    BY <2>1, <1>4 DEF Good, AcksHonoured
  <2>3. SameWay(ends[m.to], ends1[m.to])
    BY <2>1, <1>1
  <2> QED
    BY <2>2, <2>3 DEF Honoured, SameWay
<1> QED
  BY <1>2, <1>3, <1>4 DEF Good, AcksHonoured

(* An end told of a candidate, or of the peer's token, sends where it did. *)
LEMMA AddPeerWay ==
    ASSUME NEW x, NEW e, NEW route, EndOK(x)
    PROVE  /\ SameWay(x, [x EXCEPT !.peerToken = TRUE])
           /\ SameWay(x, probe(x))
           /\ SameWay(x, addPeer(e, x, route))
<1>1. \A y : EndOK(y) => SameWay(y, probe(y))
  BY DEF SameWay, EndOK, probe
<1>2. SameWay(x, [x EXCEPT !.peerToken = TRUE])
  BY DEF SameWay, EndOK
<1>3. \A c : SameWay(x, [x EXCEPT !.peerCandidates = c])
  BY DEF SameWay, EndOK
<1>4. SameWay(x, addPeer(e, x, route))
  <2> DEFINE y == [x EXCEPT !.peerCandidates = @ \union (IF hard = e \/ route = "hard" THEN Routes ELSE {route})]
  <2>1. SameWay(x, y)
    BY <1>3
  <2>2. SameWay(y, probe(y))
    BY <1>1, <2>1 DEF SameWay
  <2>3. addPeer(e, x, route) = x \/ addPeer(e, x, route) = probe(y)
    BY DEF addPeer
  <2> HIDE DEF y
  <2> QED
    BY <2>1, <2>2, <2>3 DEF SameWay
<1> QED
  BY <1>1, <1>2, <1>4

(* An answer sent to a challenge that is the peer's own is counted when it *)
(* is sent, and no other is believed (OnProbe).                            *)
LEMMA AnswersKeep ==
    ASSUME NEW ends, NEW ans, NEW n, NEW p \in Ends, NEW route \in Routes, NEW challenge, NEW ans1,
           Good(ends, ans, n),
           DOMAIN ans1 = Ends, \A d \in Ends : ans[d] \subseteq ans1[d],
           challenge = "punch" /\ ends[p].path = None => route \in ans1[p],
           challenge = "move" /\ route = ends[p].moving => route \in ans1[p]
    PROVE  Good(ends, ans1, n \union {AckTo(p, route, challenge)})
<1>1. DOMAIN ans1 = Ends /\ \A d \in Ends : ans[d] \subseteq ans1[d]
  OBVIOUS
<1> DEFINE a == AckTo(p, route, challenge)
<1>2. a.to = p /\ a.route = route /\ a.challenge = challenge /\ a.type = "ACK"
  BY DEF AckTo, Datagram
<1> HIDE DEF a
<1>3. Shaped(ends, ans1, n \union {a})
  BY <1>1, <1>2 DEF Good, Shaped
<1>4. Answered(ends, ans1)
  BY <1>1 DEF Good, Answered
<1>5. ASSUME NEW m \in n \union {a}, m.type = "ACK" PROVE Honoured(ends[m.to], ans1[m.to], m)
  <2>1. CASE m = a
    BY <2>1, <1>2 DEF Honoured
  <2>2. CASE m \in n
    BY <2>2, <1>5, <1>1 DEF Honoured, Good, AcksHonoured, Shaped
  <2> QED
    BY <2>1, <2>2
<1> QED
  BY <1>3, <1>4, <1>5 DEF Good, AcksHonoured, a

(* An end takes a path, the first or a new one, that is answered. *)
Takes(ends, ends1, ans, n, n1, e, route) ==
    /\ route \in Routes
    /\ DOMAIN ends1 = Ends /\ \A d \in Ends : d # e => ends1[d] = ends[d]
    /\ EndOK(ends1[e]) /\ ends1[e].path = route /\ route \in ans[e]
    /\ ends1[e].moving \in {ends[e].moving, None}
    /\ \A m \in n1 : m \in n \/ (m.type # "ACK" /\ m.to \in Ends /\ m.route \in Routes)

(* What else was on its way to it is then an answer to a challenge the end *)
(* has dropped (choose, moved).                                            *)
LEMMA TakesKeep ==
    ASSUME NEW ends, NEW ends1, NEW ans, NEW n, NEW n1, NEW e \in Ends, NEW route,
           None \notin Routes,
           Good(ends, ans, n), Takes(ends, ends1, ans, n, n1, e, route)
    PROVE  Good(ends1, ans, n1)
<1> USE DEF Takes
<1>1. Shaped(ends1, ans, n1)
  BY DEF Good, Shaped
<1>2. Answered(ends1, ans)
  BY DEF Good, Answered
<1>3. ASSUME NEW m \in n1, m.type = "ACK" PROVE Honoured(ends1[m.to], ans[m.to], m)
  <2>1. m \in n /\ m.to \in Ends /\ m.route \in Routes
    BY <1>3 DEF Good, Shaped
  <2>2. Honoured(ends[m.to], ans[m.to], m)
    BY <2>1, <1>3 DEF Good, AcksHonoured
  <2> QED
    BY <2>1, <2>2 DEF Honoured
<1> QED
  BY <1>1, <1>2, <1>3 DEF Good, AcksHonoured

(* An end on a path begins another move. *)
Follows(ends, ends1, ans, ans1, n, n1, e) ==
    /\ ends[e].path # None
    /\ DOMAIN ends1 = Ends /\ \A d \in Ends : d # e => ends1[d] = ends[d]
    /\ EndOK(ends1[e]) /\ ends1[e].path = ends[e].path
    /\ ans1 = [ans EXCEPT ![e] = {ends[e].path}]
    /\ \A m \in n1 : \/ m.type # "ACK" /\ m.to \in Ends /\ m.route \in Routes
                     \/ m \in n /\ (m.to = e /\ m.type = "ACK" => m.challenge # "move")

(* Its answers start over, and those on their way to the last move are     *)
(* worth nothing now (probeMove).                                          *)
LEMMA MovesKeep ==
    ASSUME NEW ends, NEW ends1, NEW ans, NEW ans1, NEW n, NEW n1, NEW e \in Ends,
           Good(ends, ans, n), Follows(ends, ends1, ans, ans1, n, n1, e)
    PROVE  Good(ends1, ans1, n1)
<1> USE DEF Follows
<1>0. DOMAIN ans1 = Ends /\ ans1[e] = {ends[e].path} /\ \A d \in Ends : d # e => ans1[d] = ans[d]
  BY DEF Good, Shaped
<1>1. Shaped(ends1, ans1, n1)
  BY <1>0 DEF Good, Shaped
<1>2. Answered(ends1, ans1)
  BY <1>0 DEF Good, Answered
<1>3. ASSUME NEW m \in n1, m.type = "ACK" PROVE Honoured(ends1[m.to], ans1[m.to], m)
  <2>1. m \in n /\ m.to \in Ends
    BY <1>3 DEF Good, Shaped
  <2>2. Honoured(ends[m.to], ans[m.to], m)
    BY <2>1, <1>3 DEF Good, AcksHonoured
  <2>3. CASE m.to = e
    BY <2>3, <1>3 DEF Honoured
  <2>4. CASE m.to # e
    BY <2>1, <2>2, <2>4, <1>0
  <2> QED
    BY <2>3, <2>4
<1> QED
  BY <1>1, <1>2, <1>3 DEF Good, AcksHonoured

-----------------------------------------------------------------------------
(* The initial states. *)
LEMMA PathInit == Init => PathInv
<1> SUFFICES ASSUME Init PROVE Good(end, answered, net)
  BY DEF PathInv
<1>1. CASE left.punched
  <2>1. PICK p \in [Ends -> Routes] :
          /\ end = [e \in Ends |-> choose(Punched, p[e])]
          /\ net = {DataTo(Peer(e), p[e]) : e \in Ends}
          /\ answered = [e \in Ends |-> {p[e]}]
    BY <1>1 DEF Init
  <2>2. \A e \in Ends : EndOK(end[e]) /\ end[e].path = p[e]
    BY <2>1 DEF EndOK, choose, Punched, NewEnd
  <2>3. \A m \in net : m.to \in Ends /\ m.route \in Routes /\ m.type # "ACK"
    BY <2>1, PeerOther DEF DataTo, Datagram
  <2> QED
    BY <2>1, <2>2, <2>3 DEF Good, Shaped, AcksHonoured, Answered
<1>2. CASE ~left.punched
  <2>1. /\ end = [e \in Ends |-> NewEnd]
        /\ net = {}
        /\ answered = [e \in Ends |-> {}]
    BY <1>2 DEF Init
  <2>2. \A e \in Ends : EndOK(end[e]) /\ end[e].path = None
    BY <2>1 DEF EndOK, NewEnd
  <2> QED
    BY <2>1, <2>2 DEF Good, Shaped, AcksHonoured, Answered
<1> QED
  BY <1>1, <1>2

(* The parts of a step that KeepsWay covers. *)
LEMMA KeepsWayStep ==
    ASSUME PathInv, NEW e \in Ends, NEW x, SameWay(end[e], x),
           end' = [end EXCEPT ![e] = x] \/ end' = end,
           \A m \in net' : m \in net \/ (m.type # "ACK" /\ m.to \in Ends /\ m.route \in Routes),
           UNCHANGED answered
    PROVE  PathInv'
<1>1. Good(end, answered, net) /\ DOMAIN end = Ends /\ EndOK(end[e])
  BY DEF PathInv, Good, Shaped
<1>2. DOMAIN end' = Ends /\ SameWay(end[e], end'[e]) /\ \A d \in Ends : d # e => end'[d] = end[d]
  BY <1>1 DEF SameWay
<1>3. Good(end', answered, net')
  BY <1>1, <1>2, KeepsWay
<1> QED
  BY <1>3 DEF PathInv

(* What an end does by itself, or on a signal. *)
LEMMA RunsKeeps ==
    ASSUME PathInv, NEW e \in Ends, Runs(e) \/ OnMapped(e)
    PROVE  PathInv'
<1>0. DOMAIN end = Ends /\ EndOK(end[e])
  BY DEF PathInv, Good, Shaped
<1>1. CASE Start(e)
  <2>1. \A o : SameWay(end[e], [[end[e] EXCEPT !.started = TRUE] EXCEPT !.held = FALSE, !.own = o])
    BY <1>0 DEF SameWay, EndOK
  <2>2. \A o : SameWay(end[e], [end[e] EXCEPT !.started = TRUE, !.own = o])
    BY <1>0 DEF SameWay, EndOK
  <2>3. net' = net /\ answered' = answered
    BY <1>1, SMTT(30) DEF Start
  <2>4. PICK o : \/ end' = [end EXCEPT ![e] = [[end[e] EXCEPT !.started = TRUE] EXCEPT !.held = FALSE, !.own = o]]
                 \/ end' = [end EXCEPT ![e] = [end[e] EXCEPT !.started = TRUE, !.own = o]]
    BY <1>0, <1>1 DEF Start, Describes
  <2> QED
    BY <2>1, <2>2, <2>3, <2>4, KeepsWayStep
<1>2. CASE Down(e)
  <2> DEFINE m == Head(sig[e])
             x == IF end[e].dead THEN end[e]
                  ELSE IF m = "description" THEN probe([end[e] EXCEPT !.peerToken = TRUE])
                  ELSE addPeer(e, end[e], m)
  <2>1. end' = [end EXCEPT ![e] = x] /\ net' = net /\ answered' = answered
    BY <1>2 DEF Down
  <2>2. EndOK([end[e] EXCEPT !.peerToken = TRUE]) /\ SameWay(end[e], [end[e] EXCEPT !.peerToken = TRUE])
    BY <1>0, AddPeerWay DEF SameWay
  <2>3. SameWay([end[e] EXCEPT !.peerToken = TRUE], probe([end[e] EXCEPT !.peerToken = TRUE]))
    BY <2>2, AddPeerWay
  <2>4. SameWay(end[e], addPeer(e, end[e], m))
    BY <1>0, AddPeerWay
  <2>5. SameWay(end[e], x)
    BY <1>0, <2>2, <2>3, <2>4 DEF SameWay
  <2> HIDE DEF x, m
  <2> QED
    BY <2>1, <2>5, KeepsWayStep
<1>3. CASE Refill(e)
  <2>1. SameWay(end[e], [end[e] EXCEPT !.spare = Spare, !.refilling = FALSE])
    BY <1>0 DEF SameWay, EndOK
  <2>2. end' = [end EXCEPT ![e] = [end[e] EXCEPT !.spare = Spare, !.refilling = FALSE]]
    BY <1>0, <1>3 DEF Refill
  <2>3. net' = net /\ answered' = answered
    BY <1>3 DEF Refill
  <2> QED
    BY <2>1, <2>2, <2>3, KeepsWayStep
<1>4. CASE OnMapped(e)
  <2>1. \A o : SameWay(end[e], [end[e] EXCEPT !.own = o])
    BY <1>0 DEF SameWay, EndOK
  <2>2. net' = net /\ answered' = answered
    BY <1>4 DEF OnMapped
  <2>3. PICK o : end' = [end EXCEPT ![e] = [end[e] EXCEPT !.own = o]]
    BY <1>0, <1>4 DEF OnMapped, addOwn
  <2> QED
    BY <2>1, <2>2, <2>3, KeepsWayStep
<1> QED
  BY <1>1, <1>2, <1>3, <1>4 DEF Runs

(* What an end sends unasked, its peer's description, and what is lost. *)
LEMMA SendsKeep ==
    ASSUME PathInv,
           \/ \E e \in Ends : SendData(e) \/ \E targets \in SUBSET Routes : Round(e, targets)
           \/ Answer \/ Quiets \/ \E m \in net : Lose(m)
    PROVE  PathInv'
<1>0. /\ DOMAIN end = Ends
      /\ \A e \in Ends : EndOK(end[e]) /\ SameWay(end[e], end[e])
      /\ "o" \in Ends /\ "a" \in Ends
  BY DEF PathInv, Good, Shaped, SameWay, Ends
<1>1. ASSUME NEW e \in Ends, SendData(e) PROVE PathInv'
  <2>1. end[e].path \in Routes
    BY <1>0, <1>1 DEF SendData, EndOK
  <2>2. \A m \in net' : m \in net \/ (m.type # "ACK" /\ m.to \in Ends /\ m.route \in Routes)
    BY <1>1, <2>1, PeerOther DEF SendData, DataTo, Datagram
  <2>3. end' = end /\ answered' = answered
    BY <1>1 DEF SendData
  <2> QED
    BY <1>0, <2>2, <2>3, KeepsWayStep
<1>2. ASSUME NEW e \in Ends, NEW targets \in SUBSET Routes, Round(e, targets) PROVE PathInv'
  <2>1. \A m \in net' : m \in net \/ (m.type # "ACK" /\ m.to \in Ends /\ m.route \in Routes)
    BY <1>2, PeerOther DEF Round, ProbeTo, Datagram
  <2>2. end' = end /\ answered' = answered
    BY <1>2 DEF Round
  <2> QED
    BY <1>0, <2>1, <2>2, KeepsWayStep
<1>3. CASE Answer
  <2>1. PICK o : end' = [end EXCEPT !["a"] = [end["a"] EXCEPT !.held = FALSE, !.own = o]]
    BY <1>3 DEF Answer, Describes
  <2>2. SameWay(end["a"], [end["a"] EXCEPT !.held = FALSE, !.own = o])
    BY <1>0 DEF SameWay, EndOK
  <2>3. net' = net /\ answered' = answered
    BY <1>3 DEF Answer
  <2> QED
    BY <1>0, <2>1, <2>2, <2>3, KeepsWayStep
<1>4. CASE Quiets
  <2>1. end' = [end EXCEPT !["a"] = [end["a"] EXCEPT !.quiet = TRUE]]
    BY <1>0, <1>4 DEF Quiets
  <2>2. SameWay(end["a"], [end["a"] EXCEPT !.quiet = TRUE])
    BY <1>0 DEF SameWay, EndOK
  <2>3. net' = net /\ answered' = answered
    BY <1>4 DEF Quiets
  <2> QED
    BY <1>0, <2>1, <2>2, <2>3, KeepsWayStep
<1>5. ASSUME NEW m \in net, Lose(m) PROVE PathInv'
  <2>1. end' = end /\ answered' = answered /\ net' = net \ {m}
    BY <1>5 DEF Lose
  <2>2. \A d \in net' : d \in net
    BY <2>1
  <2> QED
    BY <1>0, <2>1, <2>2, KeepsWayStep
<1> QED
  BY <1>1, <1>2, <1>3, <1>4, <1>5

(* A probe arrives. *)
LEMMA ProbeKeeps ==
    ASSUME PathInv, NEW e \in Ends, NEW m \in net, OnProbe(e, m)
    PROVE  PathInv'
<1> DEFINE p == Peer(e)
           y == [end[e] EXCEPT !.peerToken = TRUE]
           x == addPeer(e, y, m.route)
           ends1 == [end EXCEPT ![e] = x]
           more == IF end[e].path = None THEN {ProbeTo(p, m.route, "punch")} ELSE {}
           n1 == (net \ {m}) \union more
<1>0. /\ Good(end, answered, net) /\ DOMAIN end = Ends /\ DOMAIN answered = Ends
      /\ EndOK(end[e]) /\ m.route \in Routes
      /\ p \in Ends /\ p # e
  BY PeerOther DEF PathInv, Good, Shaped
<1>1. SameWay(end[e], x)
  <2>1. SameWay(end[e], y) /\ EndOK(y)
    BY <1>0, AddPeerWay DEF SameWay
  <2>2. SameWay(y, x)
    BY <2>1, AddPeerWay
  <2> QED
    BY <2>1, <2>2 DEF SameWay
<1>2. /\ end' = ends1
      /\ net' = n1 \union {AckTo(p, m.route, m.challenge)}
      /\ answered' = [answered EXCEPT ![p] = IF Awaits(p, m) THEN @ \union {m.route} ELSE @]
  BY DEF OnProbe
<1>3. \A d \in n1 : d \in net \/ (d.type # "ACK" /\ d.to \in Ends /\ d.route \in Routes)
  BY <1>0 DEF ProbeTo, Datagram
<1> HIDE DEF x, n1
<1>4. DOMAIN ends1 = Ends /\ SameWay(end[e], ends1[e]) /\ \A d \in Ends : d # e => ends1[d] = end[d]
  BY <1>0, <1>1
<1> HIDE DEF ends1
<1>5. Good(ends1, answered, n1)
  BY <1>0, <1>3, <1>4, KeepsWay
<1>6. DOMAIN answered' = Ends /\ \A d \in Ends : answered[d] \subseteq answered'[d]
  BY <1>0, <1>2
<1>7. Awaits(p, m) => m.route \in answered'[p]
  BY <1>0, <1>2
<1>8. /\ m.challenge = "punch" /\ ends1[p].path = None => m.route \in answered'[p]
      /\ m.challenge = "move" /\ m.route = ends1[p].moving => m.route \in answered'[p]
  BY <1>0, <1>4, <1>7 DEF Awaits
<1> HIDE DEF p
<1>9. Good(ends1, answered', n1 \union {AckTo(p, m.route, m.challenge)})
  BY <1>0, <1>5, <1>6, <1>8, AnswersKeep
<1> QED
  BY <1>2, <1>9 DEF PathInv

(* An answer arrives. *)
LEMMA AckKeeps ==
    ASSUME PathInv, NEW e \in Ends, NEW m \in net, OnAck(e, m)
    PROVE  PathInv'
<1> DEFINE x == end[e]
           took == IF x.path = None THEN m.challenge = "punch" /\ x.peerToken ELSE MovesTo(x, m)
           y == IF x.path = None THEN choose(x, m.route) ELSE moved(x)
<1>0. /\ Good(end, answered, net) /\ DOMAIN end = Ends
      /\ EndOK(x) /\ m.route \in Routes /\ m.to = e /\ m.type = "ACK"
      /\ None \notin Routes
  BY PathsAssumption DEF PathInv, Good, Shaped, OnAck, None
<1>1. /\ end' = [end EXCEPT ![e] = IF ~took THEN x ELSE y]
      /\ net' = (net \ {m}) \union (IF took THEN {DataTo(Peer(e), m.route)} ELSE {})
      /\ answered' = answered
  BY DEF OnAck
<1>2. \A d \in net' : d \in net \/ (d.type # "ACK" /\ d.to \in Ends /\ d.route \in Routes)
  BY <1>0, <1>1, PeerOther DEF DataTo, Datagram
<1>3. CASE ~took
  <2>1. end' = [end EXCEPT ![e] = x] /\ SameWay(x, x)
    BY <1>0, <1>1, <1>3 DEF SameWay
  <2> QED
    BY <2>1, <1>1, <1>2, KeepsWayStep
<1>4. CASE took
  <2>1. Honoured(x, answered[e], m)
    BY <1>0 DEF Good, AcksHonoured
  <2>2. m.route \in answered[e]
    BY <1>4, <2>1 DEF Honoured, MovesTo
  <2>3. EndOK(y) /\ y.path = m.route /\ y.moving \in {x.moving, None}
    BY <1>0, <1>4 DEF EndOK, choose, moved, MovesTo
  <2>4. DOMAIN end' = Ends /\ end'[e] = y /\ \A d \in Ends : d # e => end'[d] = end[d]
    BY <1>0, <1>1, <1>4
  <2>5. EndOK(end'[e]) /\ end'[e].path = m.route /\ end'[e].moving \in {end[e].moving, None}
    BY <2>3, <2>4
  <2> HIDE DEF y, x, took
  <2>6. Takes(end, end', answered, net, net', e, m.route)
    BY <1>0, <1>2, <2>2, <2>4, <2>5 DEF Takes
  <2>7. Good(end', answered, net')
    BY <1>0, <2>6, TakesKeep
  <2> QED
    BY <2>7, <1>1 DEF PathInv
<1> QED
  BY <1>3, <1>4

(* A packet of the stream arrives: from the path, or from elsewhere, when  *)
(* the end may challenge the route it came by.                             *)
LEMMA DataKeeps ==
    ASSUME PathInv, NEW e \in Ends, NEW m \in net, OnData(e, m)
    PROVE  PathInv'
<1> DEFINE x == end[e]
           rest == net \ {m}
           probes == {ProbeTo(Peer(e), m.route, "move")}
           stale == {d \in rest : /\ d.challenge = "move"
                                  /\ \/ d.type = "PROBE" /\ d.to = Peer(e)
                                     \/ d.type = "ACK" /\ d.to = e}
<1>0. /\ Good(end, answered, net) /\ DOMAIN end = Ends
      /\ EndOK(x) /\ SameWay(x, x) /\ m.route \in Routes
  BY DEF PathInv, Good, Shaped, SameWay
<1>1. \A d \in probes : d.type # "ACK" /\ d.to \in Ends /\ d.route \in Routes
  BY <1>0, PeerOther DEF ProbeTo, Datagram
<1>2. CASE x.path = None \/ ~MayFollow(e)
  <2>1. \/ end' = end
        \/ end' = [end EXCEPT ![e] = [x EXCEPT !.quiet = FALSE, !.newer = FALSE]]
    BY <1>0, <1>2 DEF OnData, probeMove
  <2>2. SameWay(x, [x EXCEPT !.quiet = FALSE, !.newer = FALSE])
    BY <1>0 DEF SameWay, EndOK
  <2>3. net' = rest /\ answered' = answered
    BY <1>2 DEF OnData, probeMove
  <2> QED
    BY <2>1, <2>2, <2>3, KeepsWayStep
<1>3. CASE x.path # None /\ m.route = x.path
  <2>1. end' = [end EXCEPT ![e] = [x EXCEPT !.quiet = FALSE, !.newer = FALSE]]
    BY <1>0, <1>3 DEF OnData
  <2>2. SameWay(x, [x EXCEPT !.quiet = FALSE, !.newer = FALSE])
    BY <1>0 DEF SameWay, EndOK
  <2>3. net' = rest /\ answered' = answered
    BY <1>3 DEF OnData
  <2> QED
    BY <2>1, <2>2, <2>3, KeepsWayStep
<1>4. CASE x.path # None /\ m.route # x.path /\ MayFollow(e) /\ (x.moving = m.route \/ x.spare = 0)
  <2>1. \/ end' = [end EXCEPT ![e] = [x EXCEPT !.newer = TRUE]]
        \/ end' = [end EXCEPT ![e] = [x EXCEPT !.refilling = TRUE]]
    BY <1>0, <1>4 DEF OnData, probeMove
  <2>2. SameWay(x, [x EXCEPT !.newer = TRUE]) /\ SameWay(x, [x EXCEPT !.refilling = TRUE])
    BY <1>0 DEF SameWay, EndOK
  <2>3. (net' = rest \union probes \/ net' = rest) /\ answered' = answered
    BY <1>4 DEF OnData, probeMove
  <2>4. \A d \in net' : d \in net \/ (d.type # "ACK" /\ d.to \in Ends /\ d.route \in Routes)
    BY <2>3, <1>1
  <2> QED
    BY <2>1, <2>2, <2>3, <2>4, KeepsWayStep
<1>5. CASE x.path # None /\ m.route # x.path /\ MayFollow(e) /\ x.moving # m.route /\ x.spare # 0
  <2> DEFINE y == [x EXCEPT !.moving = m.route, !.newer = TRUE, !.spare = @ - 1]
  <2>1. end' = [end EXCEPT ![e] = y]
    BY <1>0, <1>5 DEF OnData, probeMove
  <2>2. net' = (rest \ stale) \union probes /\ answered' = [answered EXCEPT ![e] = {end[e].path}]
    BY <1>5 DEF OnData, probeMove
  <2>3. EndOK(y) /\ y.path = x.path
    BY <1>0 DEF EndOK
  <2>4. \A d \in net' : \/ d.type # "ACK" /\ d.to \in Ends /\ d.route \in Routes
                        \/ d \in net /\ (d.to = e /\ d.type = "ACK" => d.challenge # "move")
    BY <2>2, <1>1
  <2> HIDE DEF y
  <2>5. /\ DOMAIN end' = Ends /\ \A d \in Ends : d # e => end'[d] = end[d]
        /\ EndOK(end'[e]) /\ end'[e].path = end[e].path
    BY <1>0, <2>1, <2>3
  <2>6. Follows(end, end', answered, answered', net, net', e)
    BY <1>5, <2>2, <2>4, <2>5 DEF Follows
  <2>7. Good(end', answered', net')
    BY <1>0, <2>6, MovesKeep
  <2> QED
    BY <2>7 DEF PathInv
<1> QED
  BY <1>2, <1>3, <1>4, <1>5

(* An end closes: nothing on its way reaches it any more. *)
LEMMA CloseKeeps ==
    ASSUME PathInv, NEW e \in Ends, Close(e)
    PROVE  PathInv'
<1> DEFINE y == [NewEnd EXCEPT !.started = TRUE, !.held = FALSE, !.dead = TRUE]
<1>0. Good(end, answered, net) /\ DOMAIN end = Ends
  BY DEF PathInv, Good, Shaped
<1>1. EndOK(y) /\ y.path = None
  BY DEF EndOK, NewEnd
<1>2. end' = [end EXCEPT ![e] = y] /\ net' = {m \in net : m.to # e} /\ answered' = answered
  BY DEF Close
<1> HIDE DEF y
<1>3. DOMAIN end' = Ends /\ end'[e] = y /\ \A d \in Ends : d # e => end'[d] = end[d]
  BY <1>0, <1>2
<1>4. Shaped(end', answered, net')
  BY <1>0, <1>1, <1>2, <1>3 DEF Good, Shaped
<1>5. Answered(end', answered)
  BY <1>0, <1>1, <1>3 DEF Good, Answered
<1>6. AcksHonoured(end', answered, net')
  BY <1>0, <1>2, <1>3 DEF Good, AcksHonoured, Shaped
<1> QED
  BY <1>2, <1>4, <1>5, <1>6 DEF PathInv, Good

(* An end's packets begin to take another route, behind its back. *)
LEMMA RebindKeeps ==
    ASSUME PathInv, NEW e \in Ends, Rebind(e)
    PROVE  PathInv'
<1>0. /\ Good(end, answered, net) /\ DOMAIN end = Ends /\ DOMAIN answered = Ends
      /\ EndOK(end[e]) /\ None \notin Routes
  BY PathsAssumption DEF PathInv, Good, Shaped, None
<1>1. PICK p \in Routes : /\ end' = [end EXCEPT ![e] = [end[e] EXCEPT !.path = p]]
                          /\ answered' = [answered EXCEPT ![e] = @ \union {p}]
  BY <1>0 DEF Rebind
<1>2. net' = net
  BY DEF Rebind
<1> DEFINE y == [end[e] EXCEPT !.path = p]
<1>3. EndOK(y) /\ y.path = p /\ y.moving = end[e].moving
  BY <1>0 DEF EndOK
<1> HIDE DEF y
<1>4. DOMAIN end' = Ends /\ end'[e] = y /\ \A d \in Ends : d # e => end'[d] = end[d]
  BY <1>0, <1>1 DEF y
<1>5. /\ DOMAIN answered' = Ends /\ p \in answered'[e]
      /\ \A d \in Ends : answered[d] \subseteq answered'[d]
  BY <1>0, <1>1
<1>6. Shaped(end', answered', net')
  BY <1>0, <1>2, <1>3, <1>4, <1>5 DEF Good, Shaped
<1>7. Answered(end', answered')
  BY <1>0, <1>3, <1>4, <1>5 DEF Good, Answered
<1>8. ASSUME NEW m \in net', m.type = "ACK" PROVE Honoured(end'[m.to], answered'[m.to], m)
  <2>1. m \in net /\ m.to \in Ends
    BY <1>0, <1>2 DEF Good, Shaped
  <2>2. Honoured(end[m.to], answered[m.to], m)
    BY <1>0, <1>8, <2>1 DEF Good, AcksHonoured
  <2>3. answered[m.to] \subseteq answered'[m.to]
    BY <1>5, <2>1
  <2>4. CASE m.to = e
    BY <1>0, <1>3, <1>4, <2>2, <2>3, <2>4 DEF Honoured
  <2>5. CASE m.to # e
    BY <1>4, <2>1, <2>2, <2>3, <2>5 DEF Honoured
  <2> QED
    BY <2>4, <2>5
<1> QED
  BY <1>6, <1>7, <1>8 DEF PathInv, Good, AcksHonoured

(* Every step keeps the invariant. *)
LEMMA PathNext == PathInv /\ [Next]_vars => PathInv'
<1> SUFFICES ASSUME PathInv, [Next]_vars PROVE PathInv'
  OBVIOUS
<1>1. ASSUME NEW e \in Ends, Runs(e) \/ OnMapped(e) \/ SendData(e) \/ Close(e) \/ Rebind(e) PROVE PathInv'
  BY <1>1, RunsKeeps, SendsKeep, CloseKeeps, RebindKeeps
<1>2. ASSUME NEW e \in Ends, NEW targets \in SUBSET Routes, Round(e, targets) PROVE PathInv'
  BY <1>2, SendsKeep
<1>3. CASE Answer \/ Quiets
  BY <1>3, SendsKeep
<1>4. ASSUME NEW m \in net, Arrives(m) \/ Lose(m) PROVE PathInv'
  BY <1>4, ProbeKeeps, AckKeeps, DataKeeps, SendsKeep DEF Arrives
<1>5. CASE UNCHANGED vars
  BY <1>5 DEF vars, PathInv
<1> QED
  BY <1>1, <1>2, <1>3, <1>4, <1>5 DEF Next

(* An end sends only where the peer has answered the challenge the end     *)
(* held: no answer that is late, lost or meant for an earlier move, and no *)
(* packet that merely came from elsewhere, ever makes a path (onProbeAck,  *)
(* choose, probeMove), with any number of routes, moves and losses.        *)
THEOREM PathAnsweredHolds == Spec => []PathAnswered
<1>1. PathInv => PathAnswered
  BY DEF PathInv, Good, Answered, PathAnswered
<1> QED
  BY <1>1, PathInit, PathNext, PTL DEF Spec

-----------------------------------------------------------------------------
(***************************************************************************)
(* Negotiations, whatever their number, their peers and the budget.        *)
(***************************************************************************)

Fields == {"peer", "sockets", "toBind", "binding", "reserved", "stage", "data", "nat", "dead", "path",
           "asked", "spraying", "peerHard", "gone", "inCtl", "closing"}

NegType(e) ==
    /\ Fields \subseteq DOMAIN e
    /\ e.sockets \in Nat /\ e.toBind \in Nat /\ e.binding \in Nat /\ e.reserved \in Nat
    /\ e.stage \in {"opening", "drawing", "open", "none", "refused"}
    /\ e.data \in {"none", "open", "authed", "closed"}
    /\ e.nat \in {"unknown", "easy", "hard"}
    /\ e.dead \in BOOLEAN /\ e.path \in BOOLEAN /\ e.asked \in BOOLEAN /\ e.spraying \in BOOLEAN
    /\ e.peerHard \in BOOLEAN /\ e.gone \in BOOLEAN /\ e.inCtl \in BOOLEAN /\ e.closing \in BOOLEAN

(* The sockets a negotiation has, with those it may yet be given, are its  *)
(* own and what it reserved; a dead one has neither; and it reserves once, *)
(* as a hard end or for a hard one.                                        *)
SocketsOK(e) ==
    /\ e.dead => e.sockets = 0 /\ e.reserved = 0 /\ e.stage \in {"open", "none"}
    /\ e.path => e.reserved = 0 /\ e.sockets <= 1
    /\ ~e.dead /\ ~e.path => e.sockets + e.toBind + e.binding <= 1 + e.reserved
    /\ e.stage # "open" => ~e.asked /\ ~e.spraying /\ ~e.path /\ e.data = "none"
    /\ e.stage = "opening" => e.sockets = 0
    /\ ~e.asked => e.toBind = 0 /\ e.binding = 0
    /\ ~e.asked /\ ~e.spraying => e.reserved = 0
    /\ e.asked => e.nat = "hard"
    /\ e.spraying => e.peerHard

(* One that was opened, or could not be, is recorded or gone, recorded if  *)
(* it is not dead; and one that dies with a data link is about to hear of  *)
(* it.                                                                     *)
RecordOK(e) ==
    /\ e.inCtl => ~e.gone
    /\ e.closing => e.dead /\ e.stage = "open"
    /\ e.stage = "open" /\ ~e.dead => e.inCtl
    /\ e.stage \in {"open", "none"} => e.inCtl \/ e.gone
    /\ e.data \in {"open", "authed"} => e.inCtl \/ e.closing
    /\ e.dead /\ e.data \in {"open", "authed"} => e.closing

NegOK(e) == NegType(e) /\ SocketsOK(e) /\ RecordOK(e)

(* One begins with nothing. *)
Fresh(e, p) == NegOK(e) /\ e.peer = p /\ e.gone = FALSE /\ e.reserved = 0
LEMMA NewOK ==
  ASSUME NEW p, NEW offer, NEW sid, NEW scheme, NEW rest
  PROVE  Fresh(NewNegotiation(p, offer, sid, scheme, rest), p)
BY DEF Fresh, NewNegotiation, NegOK, NegType, SocketsOK, RecordOK, Fields

(* Gone, and closed, it has nothing left. *)
LEMMA GoneOK ==
  ASSUME NEW e, NegOK(e), e.stage # "open" \/ e.dead
  PROVE  NegOK(gone(e)) /\ gone(e).peer = e.peer /\ gone(e).reserved = e.reserved
BY DEF gone, NegOK, NegType, SocketsOK, RecordOK, Fields

(* A negotiation that closes. *)
LEMMA ClosedOK ==
  ASSUME NEW e, NegType(e), SocketsOK(e), ~e.dead, e.stage = "open", e.inCtl => ~e.gone, e.inCtl \/ e.gone
  PROVE  NegOK(Closed(e)) /\ Closed(e).peer = e.peer /\ Closed(e).gone = e.gone
<1> DEFINE f == Closed(e)
<1>1. /\ f.sockets = 0 /\ f.reserved = 0 /\ f.dead = TRUE /\ f.closing = TRUE /\ DOMAIN f = DOMAIN e
      /\ f.peer = e.peer /\ f.toBind = e.toBind /\ f.binding = e.binding /\ f.stage = e.stage /\ f.data = e.data
      /\ f.nat = e.nat /\ f.path = e.path /\ f.asked = e.asked /\ f.spraying = e.spraying
      /\ f.peerHard = e.peerHard /\ f.gone = e.gone /\ f.inCtl = e.inCtl
  BY DEF Closed, keepOnly, NegType, Fields
<1> HIDE DEF f
<1>2. NegType(f)
  <2>1. f.sockets \in Nat /\ f.reserved \in Nat
    BY <1>1
  <2>2. f.dead \in BOOLEAN /\ f.closing \in BOOLEAN
    BY <1>1, Zenon
  <2> QED BY <1>1, <2>1, <2>2, Zenon DEF NegType
<1>3. SocketsOK(f)
  BY <1>1 DEF SocketsOK
<1>4. RecordOK(f)
  BY <1>1 DEF RecordOK
<1>5. NegOK(f) /\ f.peer = e.peer /\ f.gone = e.gone
  BY <1>1, <1>2, <1>3, <1>4 DEF NegOK
<1> QED BY <1>5 DEF f

(* A step of one, as what it becomes: another in order, of the same peer,  *)
(* with what it reserves taken from what it returns and the budget.        *)
Steps(e, f, bud, bud1) ==
    /\ NegOK(f) /\ f.peer = e.peer
    /\ bud1 \in Nat /\ bud1 = bud + e.reserved - f.reserved

(* Dropped: closed if it is there to close. *)
LEMMA DropOK ==
  ASSUME NEW e, NegOK(e), NEW bud \in Nat
  PROVE  LET f == Closed(gone(e))
         IN Steps(e, f, bud, bud + e.reserved - f.reserved)
<1> DEFINE g == gone(e)
           f == Closed(g)
<1>1. /\ g.gone = TRUE /\ g.inCtl = FALSE /\ DOMAIN g = DOMAIN e
      /\ g.sockets = e.sockets /\ g.reserved = e.reserved /\ g.dead = e.dead /\ g.closing = e.closing
      /\ g.peer = e.peer /\ g.toBind = e.toBind /\ g.binding = e.binding /\ g.stage = e.stage /\ g.data = e.data
      /\ g.nat = e.nat /\ g.path = e.path /\ g.asked = e.asked /\ g.spraying = e.spraying
      /\ g.peerHard = e.peerHard
  BY DEF gone, NegOK, NegType, Fields
<1>2. e.reserved \in Nat
  BY DEF NegOK, NegType
<1>3. CASE g.dead \/ g.stage # "open"
  <2>1. f = g
    BY <1>3 DEF Closed
  <2>2. NegOK(g) /\ g.peer = e.peer /\ g.reserved = e.reserved
    BY <1>1, <1>3, GoneOK
  <2> HIDE DEF g, f
  <2>3. Steps(e, f, bud, bud + e.reserved - f.reserved)
    BY <1>2, <2>1, <2>2 DEF Steps
  <2> QED BY <2>3 DEF f, g
<1>4. CASE ~(g.dead \/ g.stage # "open")
  <2> HIDE DEF g
  <2>1. NegType(g) /\ SocketsOK(g) /\ ~g.dead /\ g.stage = "open" /\ (g.inCtl => ~g.gone) /\ (g.inCtl \/ g.gone)
    BY <1>1, <1>4 DEF NegOK, NegType, SocketsOK
  <2>2. NegOK(f) /\ f.peer = g.peer
    BY <2>1, ClosedOK
  <2>3. f.reserved = 0
    <3>1. f.dead => f.reserved = 0
      BY <2>2 DEF NegOK, SocketsOK
    <3>2. f.dead
      BY <2>1 DEF Closed, keepOnly, NegType, Fields
    <3> QED BY <3>1, <3>2
  <2> HIDE DEF f
  <2>4. Steps(e, f, bud, bud + e.reserved - f.reserved)
    BY <1>1, <1>2, <2>2, <2>3 DEF Steps
  <2> QED BY <2>4 DEF f, g
<1> QED BY <1>3, <1>4

(* Closed without being dropped. *)
LEMMA EndsOK ==
  ASSUME NEW e, NegOK(e), e.stage = "open", ~e.dead, NEW bud \in Nat
  PROVE  LET f == Closed(e)
         IN Steps(e, f, bud, bud + e.reserved - f.reserved) /\ f.gone = e.gone
<1> DEFINE f == Closed(e)
<1>1. NegOK(f) /\ f.peer = e.peer /\ f.gone = e.gone
  BY ClosedOK DEF NegOK, RecordOK
<1>2. f.reserved = 0
  BY DEF Closed, keepOnly, NegOK, NegType, Fields
<1>3. e.reserved \in Nat
  BY DEF NegOK, NegType
<1> HIDE DEF f
<1>4. Steps(e, f, bud, bud + e.reserved - f.reserved) /\ f.gone = e.gone
  BY <1>1, <1>2, <1>3 DEF Steps
<1> QED BY <1>4 DEF f

(* A change of nothing the invariant is about. *)
Keeps(e, f) ==
    /\ DOMAIN f = DOMAIN e
    /\ f.sockets = e.sockets /\ f.reserved = e.reserved /\ f.dead = e.dead /\ f.closing = e.closing
    /\ f.peer = e.peer /\ f.toBind = e.toBind /\ f.binding = e.binding /\ f.stage = e.stage /\ f.data = e.data
    /\ f.nat = e.nat /\ f.path = e.path /\ f.asked = e.asked /\ f.spraying = e.spraying
    /\ f.peerHard = e.peerHard /\ f.gone = e.gone /\ f.inCtl = e.inCtl

(* It leaves the negotiation in order. *)
LEMMA KeepsOK ==
  ASSUME NEW e, NEW f, NegOK(e), Keeps(e, f), NEW bud \in Nat
  PROVE  Steps(e, f, bud, bud)
<1>1. NegOK(f)
  BY DEF Keeps, NegOK, NegType, SocketsOK, RecordOK
<1>2. e.reserved \in Nat
  BY DEF NegOK, NegType
<1> QED BY <1>1, <1>2 DEF Steps, Keeps

(* The host's answers to an opening: the socket, ... *)
LEMMA BoundOK ==
  ASSUME NEW e, NegOK(e), e.stage = "opening", NEW bud \in Nat
  PROVE  LET f == [e EXCEPT !.stage = "drawing", !.sockets = 1]
         IN Steps(e, f, bud, bud) /\ f.gone = e.gone
<1> DEFINE f == [e EXCEPT !.stage = "drawing", !.sockets = 1]
<1>1. /\ DOMAIN f = DOMAIN e /\ f.stage = "drawing" /\ f.sockets = 1
      /\ f.reserved = e.reserved /\ f.dead = e.dead /\ f.closing = e.closing
      /\ f.peer = e.peer /\ f.toBind = e.toBind /\ f.binding = e.binding /\ f.data = e.data
      /\ f.nat = e.nat /\ f.path = e.path /\ f.asked = e.asked /\ f.spraying = e.spraying
      /\ f.peerHard = e.peerHard /\ f.gone = e.gone /\ f.inCtl = e.inCtl
  BY DEF NegOK, NegType, Fields
<1> HIDE DEF f
<1>2. NegOK(f)
  BY <1>1 DEF NegOK, NegType, SocketsOK, RecordOK
<1>3. e.reserved \in Nat
  BY DEF NegOK, NegType
<1>4. Steps(e, f, bud, bud) /\ f.gone = e.gone
  BY <1>1, <1>2, <1>3 DEF Steps
<1> QED BY <1>4 DEF f

(* ... that there is none, or nobody to have it, ... *)
LEMMA FailOK ==
  ASSUME NEW e, NegOK(e), e.stage \in {"opening", "drawing"}, NEW bud \in Nat
  PROVE  LET f == [keepOnly(gone(e), 0) EXCEPT !.stage = "none", !.dead = TRUE, !.early = FALSE]
         IN Steps(e, f, bud, bud)
<1> DEFINE f == [keepOnly(gone(e), 0) EXCEPT !.stage = "none", !.dead = TRUE, !.early = FALSE]
<1>1. /\ DOMAIN f = DOMAIN e /\ f.stage = "none" /\ f.dead = TRUE /\ f.sockets = 0 /\ f.reserved = 0
      /\ f.gone = TRUE /\ f.inCtl = FALSE /\ f.closing = e.closing
      /\ f.peer = e.peer /\ f.toBind = e.toBind /\ f.binding = e.binding /\ f.data = e.data
      /\ f.nat = e.nat /\ f.path = e.path /\ f.asked = e.asked /\ f.spraying = e.spraying
      /\ f.peerHard = e.peerHard
  BY DEF NegOK, NegType, Fields, keepOnly, gone
<1> HIDE DEF f
<1>2. NegOK(f)
  BY <1>1 DEF NegOK, NegType, SocketsOK, RecordOK
<1>3. e.reserved = 0
  BY DEF NegOK, SocketsOK
<1>4. Steps(e, f, bud, bud)
  BY <1>1, <1>2, <1>3 DEF Steps
<1> QED BY <1>4 DEF f

(* ... that it will not open one, ... *)
LEMMA RejectOK ==
  ASSUME NEW e, NegOK(e), e.stage = "opening", NEW bud \in Nat
  PROVE  LET f == [e EXCEPT !.stage = "refused"]
         IN Steps(e, f, bud, bud) /\ f.gone = e.gone
<1> DEFINE f == [e EXCEPT !.stage = "refused"]
<1>1. /\ DOMAIN f = DOMAIN e /\ f.stage = "refused" /\ f.sockets = e.sockets
      /\ f.reserved = e.reserved /\ f.dead = e.dead /\ f.closing = e.closing
      /\ f.peer = e.peer /\ f.toBind = e.toBind /\ f.binding = e.binding /\ f.data = e.data
      /\ f.nat = e.nat /\ f.path = e.path /\ f.asked = e.asked /\ f.spraying = e.spraying
      /\ f.peerHard = e.peerHard /\ f.gone = e.gone /\ f.inCtl = e.inCtl
  BY DEF NegOK, NegType, Fields
<1> HIDE DEF f
<1>2. NegOK(f)
  BY <1>1 DEF NegOK, NegType, SocketsOK, RecordOK
<1>3. e.reserved \in Nat
  BY DEF NegOK, NegType
<1>4. Steps(e, f, bud, bud) /\ f.gone = e.gone
  BY <1>1, <1>2, <1>3 DEF Steps
<1> QED BY <1>4 DEF f

(* ... and the negotiation, that is recorded. *)
Opened(e, f, bud) ==
    Steps(e, f, bud, bud) /\ f.gone = FALSE /\ f.reserved = 0 /\ f.stage = "open" /\ f.dead = FALSE
LEMMA OpenOK ==
  ASSUME NEW e, NegOK(e), e.stage \in {"opening", "drawing"}, ~e.gone, NEW early, NEW told, NEW bud \in Nat
  PROVE  Opened(e, [e EXCEPT !.stage = "open", !.inCtl = TRUE, !.early = FALSE, !.told = told,
                             !.data = IF early THEN "open" ELSE "none"], bud)
<1> DEFINE dt == IF early THEN "open" ELSE "none"
           f == [e EXCEPT !.stage = "open", !.inCtl = TRUE, !.early = FALSE, !.told = told, !.data = dt]
<1>0. dt \in {"open", "none"}
  OBVIOUS
<1> HIDE DEF dt
<1>1. /\ DOMAIN f = DOMAIN e /\ f.stage = "open" /\ f.inCtl = TRUE /\ f.data = dt
      /\ f.sockets = e.sockets /\ f.reserved = e.reserved
      /\ f.dead = e.dead /\ f.closing = e.closing
      /\ f.peer = e.peer /\ f.toBind = e.toBind /\ f.binding = e.binding
      /\ f.nat = e.nat /\ f.path = e.path /\ f.asked = e.asked /\ f.spraying = e.spraying
      /\ f.peerHard = e.peerHard /\ f.gone = e.gone
  BY DEF NegOK, NegType, Fields
<1> HIDE DEF f
<1>2. NegOK(f) /\ f.gone = FALSE /\ f.dead = FALSE
  BY <1>0, <1>1 DEF NegOK, NegType, SocketsOK, RecordOK
<1>3. e.reserved = 0
  BY DEF NegOK, SocketsOK
<1>4. Opened(e, f, bud)
  BY <1>1, <1>2, <1>3 DEF Steps, Opened
<1> QED BY <1>4 DEF f, dt

(* The data link comes, or authenticates.  *)
LEMMA DataOK ==
  ASSUME NEW e, NegOK(e), e.stage = "open", ~e.dead, NEW dt \in {"open", "authed"}, NEW bud \in Nat
  PROVE  LET f == [e EXCEPT !.data = dt]
         IN Steps(e, f, bud, bud) /\ f.gone = e.gone
<1> DEFINE f == [e EXCEPT !.data = dt]
<1>1. /\ DOMAIN f = DOMAIN e /\ f.data = dt
      /\ f.sockets = e.sockets /\ f.reserved = e.reserved /\ f.dead = e.dead
      /\ f.closing = e.closing /\ f.peer = e.peer /\ f.toBind = e.toBind /\ f.binding = e.binding
      /\ f.stage = e.stage /\ f.nat = e.nat /\ f.path = e.path /\ f.asked = e.asked
      /\ f.spraying = e.spraying /\ f.peerHard = e.peerHard /\ f.gone = e.gone /\ f.inCtl = e.inCtl
  BY DEF NegOK, NegType, Fields
<1> HIDE DEF f
<1>2. NegType(f)
  BY <1>1 DEF NegOK, NegType
<1>3. SocketsOK(f)
  BY <1>1 DEF NegOK, NegType, SocketsOK
<1>4. RecordOK(f)
  BY <1>1 DEF NegOK, NegType, SocketsOK, RecordOK
<1>5. e.reserved \in Nat
  BY DEF NegOK, NegType
<1>6. Steps(e, f, bud, bud) /\ f.gone = e.gone
  BY <1>1, <1>2, <1>3, <1>4, <1>5 DEF NegOK, Steps
<1> QED BY <1>6 DEF f

(* The links hear of the end.  *)
LEMMA HeardOK ==
  ASSUME NEW e, NegOK(e), e.closing, NEW bud \in Nat
  PROVE  LET f == [gone(e) EXCEPT !.closing = FALSE, !.data = IF e.data = "none" THEN "none" ELSE "closed"]
         IN Steps(e, f, bud, bud)
<1> DEFINE f == [gone(e) EXCEPT !.closing = FALSE, !.data = IF e.data = "none" THEN "none" ELSE "closed"]
<1>1. /\ DOMAIN f = DOMAIN e /\ f.closing = FALSE /\ f.data \in {"none", "closed"} /\ f.gone = TRUE /\ f.inCtl = FALSE
      /\ f.sockets = e.sockets /\ f.reserved = e.reserved /\ f.dead = e.dead /\ f.peer = e.peer
      /\ f.toBind = e.toBind /\ f.binding = e.binding /\ f.stage = e.stage /\ f.nat = e.nat
      /\ f.path = e.path /\ f.asked = e.asked /\ f.spraying = e.spraying /\ f.peerHard = e.peerHard
  BY DEF NegOK, NegType, Fields, gone
<1> HIDE DEF f
<1>2. NegType(f)
  BY <1>1 DEF NegOK, NegType
<1>a. e.dead /\ e.stage = "open"
  BY DEF NegOK, RecordOK
<1>b. e.sockets = 0 /\ e.reserved = 0
  BY <1>a DEF NegOK, SocketsOK
<1>3. SocketsOK(f)
  BY <1>1, <1>a, <1>b DEF NegOK, NegType, SocketsOK
<1>4. RecordOK(f)
  BY <1>1 DEF NegOK, NegType, SocketsOK, RecordOK
<1>5. e.reserved \in Nat
  BY DEF NegOK, NegType
<1>6. Steps(e, f, bud, bud)
  BY <1>1, <1>2, <1>3, <1>4, <1>5 DEF NegOK, Steps
<1> QED BY <1>6 DEF f

(* A path is chosen.  *)
LEMMA PathOK ==
  ASSUME NEW e, NegOK(e), e.stage = "open", ~e.dead, ~e.path, NEW bud \in Nat
  PROVE  LET f == [keepOnly(e, 1) EXCEPT !.path = TRUE, !.data = "open"]
         IN Steps(e, f, bud, bud + e.reserved - f.reserved) /\ f.gone = e.gone
<1> DEFINE f == [keepOnly(e, 1) EXCEPT !.path = TRUE, !.data = "open"]
<1>1. /\ DOMAIN f = DOMAIN e /\ f.sockets = 1 /\ f.reserved = 0 /\ f.path = TRUE /\ f.data = "open"
      /\ f.dead = e.dead /\ f.closing = e.closing /\ f.peer = e.peer /\ f.toBind = e.toBind
      /\ f.binding = e.binding /\ f.stage = e.stage /\ f.nat = e.nat /\ f.asked = e.asked
      /\ f.spraying = e.spraying /\ f.peerHard = e.peerHard /\ f.gone = e.gone /\ f.inCtl = e.inCtl
  BY DEF NegOK, NegType, Fields, keepOnly
<1> HIDE DEF f
<1>2. NegType(f)
  <2>1. f.sockets \in Nat /\ f.reserved \in Nat
    BY <1>1
  <2>2. f.path \in BOOLEAN
    BY <1>1, Zenon
  <2> QED BY <1>1, <2>1, <2>2, Zenon DEF NegOK, NegType
<1>3. SocketsOK(f)
  BY <1>1 DEF NegOK, NegType, SocketsOK
<1>4. RecordOK(f)
  BY <1>1 DEF NegOK, NegType, SocketsOK, RecordOK
<1>5. e.reserved \in Nat
  BY DEF NegOK, NegType
<1>6. Steps(e, f, bud, bud + e.reserved - f.reserved) /\ f.gone = e.gone
  BY <1>1, <1>2, <1>3, <1>4, <1>5 DEF NegOK, Steps
<1> QED BY <1>6 DEF f

(* A birthday socket's bind is answered. *)
LEMMA ExtraOK ==
  ASSUME NEW e, NegOK(e), e.binding > 0, NEW bound \in BOOLEAN, NEW bud \in Nat
  PROVE  LET again == e.toBind > 0 /\ ~e.dead /\ ~e.path
             f == [e EXCEPT !.sockets = IF bound /\ KeepsExtra(e) THEN e.sockets + 1 ELSE e.sockets,
                            !.binding = IF again THEN e.binding ELSE e.binding - 1,
                            !.toBind = IF again THEN e.toBind - 1 ELSE e.toBind]
         IN Steps(e, f, bud, bud) /\ f.gone = e.gone
<1> DEFINE again == e.toBind > 0 /\ ~e.dead /\ ~e.path
           sk == IF bound /\ KeepsExtra(e) THEN e.sockets + 1 ELSE e.sockets
           bi == IF again THEN e.binding ELSE e.binding - 1
           tb == IF again THEN e.toBind - 1 ELSE e.toBind
           f == [e EXCEPT !.sockets = sk, !.binding = bi, !.toBind = tb]
<1>a. e.sockets \in Nat /\ e.binding \in Nat /\ e.toBind \in Nat /\ e.reserved \in Nat /\ e.dead \in BOOLEAN /\ e.path \in BOOLEAN
  BY DEF NegOK, NegType
<1>b. /\ sk \in Nat /\ bi \in Nat /\ tb \in Nat
      /\ sk + tb + bi <= e.sockets + e.toBind + e.binding
      /\ e.dead \/ e.path => sk = e.sockets
  BY <1>a DEF KeepsExtra
<1>c. e.asked /\ e.stage = "open"
  BY <1>a DEF NegOK, NegType, SocketsOK
<1> HIDE DEF sk, bi, tb, again
<1>1. /\ DOMAIN f = DOMAIN e /\ f.sockets = sk /\ f.binding = bi /\ f.toBind = tb
      /\ f.reserved = e.reserved /\ f.dead = e.dead /\ f.closing = e.closing /\ f.peer = e.peer
      /\ f.stage = e.stage /\ f.data = e.data /\ f.nat = e.nat /\ f.path = e.path
      /\ f.asked = e.asked /\ f.spraying = e.spraying /\ f.peerHard = e.peerHard /\ f.gone = e.gone
      /\ f.inCtl = e.inCtl
  BY DEF NegOK, NegType, Fields
<1> HIDE DEF f
<1>2. NegType(f)
  BY <1>1, <1>b DEF NegOK, NegType
<1>d. ~e.dead /\ ~e.path => sk + tb + bi <= 1 + e.reserved
  BY <1>a, <1>b DEF NegOK, SocketsOK
<1>3. SocketsOK(f)
  BY <1>1, <1>b, <1>c, <1>d DEF NegOK, NegType, SocketsOK
<1>4. RecordOK(f)
  BY <1>1 DEF NegOK, NegType, RecordOK
<1>6. Steps(e, f, bud, bud) /\ f.gone = e.gone
  BY <1>1, <1>2, <1>3, <1>4, <1>a DEF NegOK, Steps
<1> QED BY <1>6 DEF f, sk, bi, tb, again

(* What birthday makes of a negotiation in order, from what is left.       *)
BirthdayOK(e, bud, f, bud1) == Steps(e, f, bud, bud1) /\ f.gone = e.gone

(* A hard end asks for its sockets. *)
LEMMA AsksOK ==
  ASSUME NEW e, NegOK(e), e.stage = "open", ~e.dead, ~e.path, WantsSockets(e),
         NEW bud \in Nat, NEW got \in Nat, got <= bud, NEW binds \in Nat, binds <= got
  PROVE  BirthdayOK(e, bud, [e EXCEPT !.asked = TRUE, !.reserved = got, !.binding = binds, !.toBind = got - binds], bud - got)
<1> DEFINE tb == got - binds
           f == [e EXCEPT !.asked = TRUE, !.reserved = got, !.binding = binds, !.toBind = tb]
<1>a. tb \in Nat /\ tb + binds = got /\ bud - got \in Nat
  OBVIOUS
<1> HIDE DEF tb
<1>b. ~e.asked /\ ~e.peerHard /\ e.nat = "hard"
  BY DEF WantsSockets
<1>c. ~e.spraying /\ e.reserved = 0 /\ e.toBind = 0 /\ e.binding = 0
  BY <1>b DEF NegOK, SocketsOK
<1>d. e.sockets \in Nat /\ e.sockets <= 1
  BY <1>c DEF NegOK, NegType, SocketsOK
<1>1. /\ DOMAIN f = DOMAIN e /\ f.asked = TRUE /\ f.reserved = got /\ f.binding = binds /\ f.toBind = tb
      /\ f.sockets = e.sockets /\ f.dead = e.dead /\ f.closing = e.closing /\ f.peer = e.peer
      /\ f.stage = e.stage /\ f.data = e.data /\ f.nat = e.nat /\ f.path = e.path /\ f.spraying = e.spraying
      /\ f.peerHard = e.peerHard /\ f.gone = e.gone /\ f.inCtl = e.inCtl
  BY DEF NegOK, NegType, Fields
<1> HIDE DEF f
<1>2. NegType(f)
  <2>1. f.asked \in BOOLEAN
    BY <1>1, Zenon
  <2> QED BY <1>1, <1>a, <2>1, Zenon DEF NegOK, NegType
<1>e. f.sockets + f.toBind + f.binding <= 1 + f.reserved
  BY <1>1, <1>a, <1>d
<1>3. SocketsOK(f)
  BY <1>1, <1>b, <1>c, <1>e DEF NegOK, NegType, SocketsOK
<1>4. RecordOK(f)
  BY <1>1 DEF NegOK, NegType, RecordOK
<1>5. bud - got = bud + e.reserved - f.reserved
  BY <1>1, <1>c
<1>6. BirthdayOK(e, bud, f, bud - got)
  BY <1>1, <1>2, <1>3, <1>4, <1>5, <1>a DEF NegOK, Steps, BirthdayOK
<1> QED BY <1>6 DEF f, tb

(* An easy end begins to spray. *)
LEMMA SpraysOK ==
  ASSUME NEW e, NegOK(e), e.stage = "open", ~e.dead, ~e.path, WantsSpray(e),
         NEW bud \in Nat, NEW got \in Nat, got <= bud
  PROVE  BirthdayOK(e, bud, [e EXCEPT !.spraying = TRUE, !.reserved = got], bud - got)
<1> DEFINE f == [e EXCEPT !.spraying = TRUE, !.reserved = got]
<1>a. bud - got \in Nat
  OBVIOUS
<1>b. ~e.spraying /\ e.peerHard /\ e.nat = "easy"
  BY DEF WantsSpray
<1>c. ~e.asked /\ e.reserved = 0 /\ e.toBind = 0 /\ e.binding = 0
  BY <1>b DEF NegOK, SocketsOK
<1>d. e.sockets \in Nat /\ e.sockets <= 1
  BY <1>c DEF NegOK, NegType, SocketsOK
<1>1. /\ DOMAIN f = DOMAIN e /\ f.spraying = TRUE /\ f.reserved = got
      /\ f.asked = e.asked /\ f.binding = e.binding /\ f.toBind = e.toBind
      /\ f.sockets = e.sockets /\ f.dead = e.dead /\ f.closing = e.closing /\ f.peer = e.peer
      /\ f.stage = e.stage /\ f.data = e.data /\ f.nat = e.nat /\ f.path = e.path
      /\ f.peerHard = e.peerHard /\ f.gone = e.gone /\ f.inCtl = e.inCtl
  BY DEF NegOK, NegType, Fields
<1> HIDE DEF f
<1>2. NegType(f)
  <2>1. f.spraying \in BOOLEAN
    BY <1>1, Zenon
  <2> QED BY <1>1, <2>1, Zenon DEF NegOK, NegType
<1>e. f.sockets + f.toBind + f.binding <= 1 + f.reserved
  BY <1>1, <1>c, <1>d
<1>3. SocketsOK(f)
  BY <1>1, <1>b, <1>c, <1>e DEF NegOK, NegType, SocketsOK
<1>4. RecordOK(f)
  BY <1>1 DEF NegOK, NegType, RecordOK
<1>5. bud - got = bud + e.reserved - f.reserved
  BY <1>1, <1>c
<1>6. BirthdayOK(e, bud, f, bud - got)
  BY <1>1, <1>2, <1>3, <1>4, <1>5, <1>a DEF NegOK, Steps, BirthdayOK
<1> QED BY <1>6 DEF f

-----------------------------------------------------------------------------
(* The inductive invariant: every negotiation in order, every peer's entry *)
(* a negotiation with it that is not gone, and the budget whole.           *)
Entries(ng, bp) ==
    /\ bp \in [Peers -> Nat]
    /\ \A p \in Peers : bp[p] # 0 => bp[p] \in 1..Len(ng) /\ ng[bp[p]].peer = p /\ ~ng[bp[p]].gone
Reserves(ng) == [n \in 1..Len(ng) |-> ng[n].reserved]
Whole(ng, bud) == bud + SumSeq(Reserves(ng)) = MAX_NODE_BIRTHDAY_SOCKETS
NegsOK(ng, bp, bud) ==
    /\ \E S : ng \in Seq(S)
    /\ bud \in Nat
    /\ \A n \in 1..Len(ng) : NegOK(ng[n])
    /\ Entries(ng, bp)
    /\ Whole(ng, bud)

NegInv == NegsOK(neg, byPeer, budget)

(* One negotiation steps, and no entry is new or left to one gone. *)
LEMMA NegMove ==
  ASSUME NEW ng, NEW bp, NEW bud, NegsOK(ng, bp, bud), NEW n \in 1..Len(ng), NEW f, NEW bud1,
         Steps(ng[n], f, bud, bud1), NEW bp1 \in [Peers -> Nat],
         \A p \in Peers : bp1[p] \in {0, bp[p]}, f.gone => \A p \in Peers : bp1[p] # n
  PROVE  NegsOK([ng EXCEPT ![n] = f], bp1, bud1)
<1> DEFINE ng1 == [ng EXCEPT ![n] = f]
           s == Reserves(ng)
           s1 == Reserves(ng1)
<1>1. PICK S : ng \in Seq(S)
  BY DEF NegsOK
<1>2. /\ ng1 \in Seq(S \union {f}) /\ Len(ng1) = Len(ng) /\ ng1[n] = f /\ Len(ng) \in Nat
      /\ \A k \in 1..Len(ng) : k # n => ng1[k] = ng[k]
  BY <1>1
<1> HIDE DEF ng1
<1>3. \A k \in 1..Len(ng1) : NegOK(ng1[k])
  BY <1>2 DEF NegsOK, Steps
<1>4. Entries(ng1, bp1)
  <2> SUFFICES ASSUME NEW p \in Peers, bp1[p] # 0
               PROVE  bp1[p] \in 1..Len(ng1) /\ ng1[bp1[p]].peer = p /\ ~ng1[bp1[p]].gone
    BY DEF Entries
  <2>1. bp1[p] = bp[p] /\ bp[p] # 0
    OBVIOUS
  <2>2. bp[p] \in 1..Len(ng) /\ ng[bp[p]].peer = p /\ ~ng[bp[p]].gone
    BY <2>1 DEF NegsOK, Entries
  <2>3. CASE bp[p] = n
    BY <1>2, <2>1, <2>2, <2>3 DEF Steps
  <2>4. CASE bp[p] # n
    BY <1>2, <2>1, <2>2, <2>4
  <2> QED BY <2>3, <2>4
<1>5. \A k \in 1..Len(ng) : ng[k].reserved \in Nat
  BY DEF NegsOK, NegOK, NegType
<1>6. f.reserved \in Nat
  BY DEF Steps, NegOK, NegType
<1>7. s \in Seq(Int) /\ Len(s) = Len(ng) /\ s[n] = ng[n].reserved
  BY <1>2, <1>5 DEF Reserves
<1>8. s1 = [s EXCEPT ![n] = f.reserved]
  BY <1>2 DEF Reserves
<1>9. SumSeq(s1) = SumSeq(s) - ng[n].reserved + f.reserved
  <2> HIDE DEF s, s1
  <2>1. n \in 1..Len(s) /\ f.reserved \in Int
    BY <1>6, <1>7
  <2> QED BY <1>7, <1>8, <2>1, SumReplace
<1>10. SumSeq(s) \in Int
  <2> HIDE DEF s
  <2> QED BY <1>7, SumType
<1>11. Whole(ng1, bud1)
  <2>1. bud + SumSeq(s) = MAX_NODE_BIRTHDAY_SOCKETS /\ bud \in Nat
    BY DEF NegsOK, Whole
  <2>2. bud1 = bud + ng[n].reserved - f.reserved
    BY DEF Steps
  <2> HIDE DEF s, s1
  <2>3. bud1 + SumSeq(s1) = bud + SumSeq(s)
    BY <1>5, <1>6, <1>9, <1>10, <2>1, <2>2
  <2>4. bud1 + SumSeq(s1) = MAX_NODE_BIRTHDAY_SOCKETS
    BY <2>1, <2>3, Zenon
  <2> QED BY <2>4, Zenon DEF Whole, s1
<1>12. bud1 \in Nat
  BY DEF Steps
<1>13. \E T : ng1 \in Seq(T)
  BY <1>2
<1>14. NegsOK(ng1, bp1, bud1)
  BY <1>3, <1>4, <1>11, <1>12, <1>13, Zenon DEF NegsOK
<1> QED BY <1>14 DEF ng1

(* It keeps its entry, ... *)
LEMMA NegStays ==
  ASSUME NEW ng, NEW bp, NEW bud, NegsOK(ng, bp, bud), NEW n \in 1..Len(ng), NEW f, NEW bud1,
         Steps(ng[n], f, bud, bud1), f.gone = ng[n].gone
  PROVE  NegsOK([ng EXCEPT ![n] = f], bp, bud1)
<1>1. bp \in [Peers -> Nat] /\ \A p \in Peers : bp[p] \in {0, bp[p]}
  BY DEF NegsOK, Entries
<1>a. n # 0
  OBVIOUS
<1>2. f.gone => \A p \in Peers : bp[p] # n
  BY <1>a, Zenon DEF NegsOK, Entries
<1> QED BY <1>1, <1>2, NegMove

(* ... or leaves it. *)
LEMMA NegLeaves ==
  ASSUME NEW ng, NEW bp, NEW bud, NegsOK(ng, bp, bud), NEW n \in 1..Len(ng), NEW f, NEW bud1,
         Steps(ng[n], f, bud, bud1)
  PROVE  NegsOK([ng EXCEPT ![n] = f], [bp EXCEPT ![ng[n].peer] = IF @ = n THEN 0 ELSE @], bud1)
<1> DEFINE bp1 == [bp EXCEPT ![ng[n].peer] = IF @ = n THEN 0 ELSE @]
<1>1. bp1 \in [Peers -> Nat] /\ \A p \in Peers : bp1[p] \in {0, bp[p]}
  BY DEF NegsOK, Entries
<1>2. ASSUME NEW p \in Peers PROVE bp1[p] # n
  <2>1. n # 0
    BY DEF NegsOK
  <2>2. bp \in [Peers -> Nat] /\ (bp[p] = n => ng[n].peer = p)
    BY <2>1 DEF NegsOK, Entries
  <2>3. CASE ng[n].peer = p
    BY <2>1, <2>2, <2>3
  <2>4. CASE ng[n].peer # p
    BY <2>2, <2>4
  <2> QED BY <2>3, <2>4
<1>3. NegsOK([ng EXCEPT ![n] = f], bp1, bud1)
  <2> HIDE DEF bp1
  <2> QED BY <1>1, <1>2, NegMove
<1> QED BY <1>3

(* One more begins, and is its peer's entry. *)
LEMMA NegBegins ==
  ASSUME NEW ng, NEW bp, NEW bud, NegsOK(ng, bp, bud), NEW p, NEW f, Fresh(f, p)
  PROVE  NegsOK(Append(ng, f), [bp EXCEPT ![p] = Len(ng) + 1], bud)
<1>0. NegOK(f) /\ f.peer = p /\ f.gone = FALSE /\ f.reserved = 0
  BY DEF Fresh
<1> DEFINE ng1 == Append(ng, f)
           bp1 == [bp EXCEPT ![p] = Len(ng) + 1]
           s == Reserves(ng)
           s1 == Reserves(ng1)
<1>1. PICK S : ng \in Seq(S)
  BY DEF NegsOK
<1>a. ng \in Seq(S \union {f}) /\ f \in S \union {f}
  BY <1>1
<1>2. /\ ng1 \in Seq(S \union {f}) /\ Len(ng1) = Len(ng) + 1 /\ ng1[Len(ng) + 1] = f /\ Len(ng) \in Nat
      /\ \A k \in 1..Len(ng) : ng1[k] = ng[k]
  BY <1>a
<1> HIDE DEF ng1
<1>3. \A k \in 1..Len(ng1) : NegOK(ng1[k])
  BY <1>0, <1>2 DEF NegsOK
<1>b. bp \in [Peers -> Nat]
  BY DEF NegsOK, Entries
<1>4. Entries(ng1, bp1)
  <2>1. bp1 \in [Peers -> Nat]
    <3> DEFINE m == Len(ng) + 1
    <3>1. m \in Nat
      BY <1>2
    <3> HIDE DEF m
    <3>2. [bp EXCEPT ![p] = m] \in [Peers -> Nat]
      BY <1>b, <3>1
    <3> QED BY <3>2 DEF m
  <2>2. ASSUME NEW q \in Peers, bp1[q] # 0
        PROVE  bp1[q] \in 1..Len(ng1) /\ ng1[bp1[q]].peer = q /\ ~ng1[bp1[q]].gone
    <3>1. CASE q = p
      <4>1. bp1[q] = Len(ng) + 1
        BY <1>b, <3>1
      <4>2. Len(ng) + 1 \in 1..Len(ng1)
        BY <1>2
      <4> HIDE DEF bp1
      <4> QED BY <1>0, <1>2, <3>1, <4>1, <4>2
    <3>2. CASE q # p
      <4>1. bp1[q] = bp[q]
        BY <1>b, <3>2
      <4> HIDE DEF bp1
      <4>2. bp[q] \in 1..Len(ng) /\ ng[bp[q]].peer = q /\ ~ng[bp[q]].gone
        BY <2>2, <4>1 DEF NegsOK, Entries
      <4> QED BY <1>2, <4>1, <4>2
    <3> QED BY <3>1, <3>2
  <2> HIDE DEF bp1
  <2> QED BY <2>1, <2>2 DEF Entries
<1>5. \A k \in 1..Len(ng) : ng[k].reserved \in Nat
  BY DEF NegsOK, NegOK, NegType
<1>7. s \in Seq(Int) /\ Len(s) = Len(ng)
  BY <1>2, <1>5 DEF Reserves
<1>8. s1 = Append(s, 0)
  <2>1. Append(s, 0) \in Seq(Int) /\ s1 \in Seq(Int) /\ Len(Append(s, 0)) = Len(ng) + 1 /\ Len(s1) = Len(ng) + 1
    BY <1>0, <1>2, <1>5, <1>7 DEF Reserves
  <2>2. \A k \in 1..(Len(ng) + 1) : Append(s, 0)[k] = s1[k]
    BY <1>0, <1>2, <1>5, <1>7 DEF Reserves
  <2> HIDE DEF s, s1
  <2> QED BY <2>1, <2>2, SeqEqual
<1>9. SumSeq(s1) = SumSeq(s) /\ SumSeq(s) \in Int
  <2> HIDE DEF s, s1
  <2>1. SumSeq(Append(s, 0)) = SumSeq(s) + 0
    BY <1>7, SumAppend
  <2>2. SumSeq(s) \in Int
    BY <1>7, SumType
  <2> QED BY <1>8, <2>1, <2>2
<1>11. Whole(ng1, bud)
  BY <1>9, Zenon DEF NegsOK, Whole
<1>13. \E T : ng1 \in Seq(T)
  BY <1>2
<1>14. NegsOK(ng1, bp1, bud)
  <2> HIDE DEF bp1
  <2> QED BY <1>3, <1>4, <1>11, <1>13, Zenon DEF NegsOK
<1> QED BY <1>14 DEF ng1

-----------------------------------------------------------------------------
(* The steps, one lemma each; first, what they use of the invariant. *)
LEMMA NegFacts ==
  ASSUME NegInv
  PROVE  /\ budget \in Nat
         /\ \A n \in Negs : n \in 1..Len(neg) /\ NegOK(neg[n])
         /\ \A p \in Peers : byPeer[p] # 0 => byPeer[p] \in Negs /\ neg[byPeer[p]].peer = p
BY DEF NegInv, NegsOK, Entries, Negs

(* Nothing of the negotiations changes. *)
LEMMA NegSame == ASSUME NegInv, UNCHANGED <<neg, byPeer, budget>> PROVE NegInv'
BY DEF NegInv

(* A negotiation is dropped, closed if it is there to close (drop). *)
LEMMA DropKeeps ==
  ASSUME NegInv, NEW n \in Negs, drop(n)
  PROVE  NegInv'
<1> DEFINE f == Closed(gone(neg[n]))
<1>1. neg' = [neg EXCEPT ![n] = f] /\ budget' = budget + neg[n].reserved - f.reserved
      /\ byPeer' = [byPeer EXCEPT ![neg[n].peer] = IF @ = n THEN 0 ELSE @]
  BY DEF drop, Returned
<1>2. Steps(neg[n], f, budget, budget')
  BY <1>1, NegFacts, DropOK
<1> HIDE DEF f
<1>3. NegsOK(neg', byPeer', budget')
  BY <1>1, <1>2, NegLeaves, NegFacts DEF NegInv
<1> QED BY <1>3 DEF NegInv

(* One begins (open, up to its await). *)
LEMMA BeginsKeeps ==
  ASSUME NegInv, NEW p, NEW offer, NEW sid, NEW schemes, Begins(p, offer, sid, schemes), UNCHANGED budget
  PROVE  NegInv'
<1> DEFINE f == NewNegotiation(p, offer, sid, Head(schemes), Tail(schemes))
<1>1. neg' = Append(neg, f) /\ byPeer' = [byPeer EXCEPT ![p] = Len(neg) + 1]
  BY DEF Begins
<1>2. Fresh(f, p)
  BY NewOK, Zenon
<1> HIDE DEF f
<1>3. NegsOK(neg', byPeer', budget)
  BY <1>1, <1>2, NegBegins DEF NegInv
<1> QED BY <1>3 DEF NegInv

(* The host binds one its socket. *)
LEMMA BoundKeeps ==
  ASSUME NegInv, NEW n \in Negs, Bound(n)
  PROVE  NegInv'
<1> DEFINE f == [neg[n] EXCEPT !.stage = "drawing", !.sockets = 1]
<1>1. neg[n].stage = "opening" /\ UNCHANGED <<byPeer, budget>>
  BY DEF Bound
<1>2. neg' = [neg EXCEPT ![n] = f]
  <2>1. PICK S : neg \in Seq(S)
    BY DEF NegInv, NegsOK
  <2> QED BY <2>1, NegFacts DEF Bound
<1>3. Steps(neg[n], f, budget, budget) /\ f.gone = neg[n].gone
  BY <1>1, NegFacts, BoundOK
<1> HIDE DEF f
<1>4. NegsOK(neg', byPeer, budget)
  BY <1>2, <1>3, NegStays, NegFacts DEF NegInv
<1> QED BY <1>1, <1>4 DEF NegInv

(* An opening that came to nothing, or that nobody waits for, leaves nothing. *)
LEMMA OpenFailsKeeps ==
  ASSUME NegInv, NEW n \in Negs, OpenFails(n)
  PROVE  NegInv'
<1> DEFINE f == [keepOnly(gone(neg[n]), 0) EXCEPT !.stage = "none", !.dead = TRUE, !.early = FALSE]
<1>1. neg[n].stage \in {"opening", "drawing"} /\ UNCHANGED budget
  BY DEF OpenFails, Waits
<1>2. neg' = [neg EXCEPT ![n] = f] /\ byPeer' = [byPeer EXCEPT ![neg[n].peer] = IF @ = n THEN 0 ELSE @]
  BY DEF OpenFails
<1>3. Steps(neg[n], f, budget, budget)
  BY <1>1, NegFacts, FailOK
<1> HIDE DEF f
<1>4. NegsOK(neg', byPeer', budget)
  BY <1>2, <1>3, NegLeaves, NegFacts DEF NegInv
<1> QED BY <1>1, <1>4 DEF NegInv

(* The host refuses one, and its entry stays. *)
LEMMA OpenRejectsKeeps ==
  ASSUME NegInv, NEW n \in Negs, OpenRejects(n)
  PROVE  NegInv'
<1> DEFINE f == [neg[n] EXCEPT !.stage = "refused"]
<1>1. neg[n].stage = "opening" /\ UNCHANGED <<byPeer, budget>>
  BY DEF OpenRejects
<1>2. neg' = [neg EXCEPT ![n] = f]
  <2>1. \E S : neg \in Seq(S)
    BY DEF NegInv, NegsOK
  <2> QED BY <2>1, NegFacts DEF OpenRejects
<1>3. Steps(neg[n], f, budget, budget) /\ f.gone = neg[n].gone
  BY <1>1, NegFacts, RejectOK
<1> HIDE DEF f
<1>4. NegsOK(neg', byPeer, budget)
  BY <1>2, <1>3, NegStays, NegFacts DEF NegInv
<1> QED BY <1>1, <1>4 DEF NegInv

(* One is opened and recorded, or dropped again with its offer unsent. *)
LEMMA OpenSucceedsKeeps ==
  ASSUME NegInv, NEW n \in Negs, OpenSucceeds(n)
  PROVE  NegInv'
<1> DEFINE told == ~neg[n].offer
           early == neg[n].early
           f == [neg[n] EXCEPT !.stage = "open", !.inCtl = TRUE, !.early = FALSE, !.told = told,
                               !.data = IF early THEN "open" ELSE "none"]
           g == Closed(gone(f))
<1>1. /\ neg[n].stage \in {"opening", "drawing"} /\ UNCHANGED budget
      /\ ~neg[n].gone /\ byPeer[neg[n].peer] = n
  BY DEF OpenSucceeds, Superseded
<1>2. \/ neg' = [neg EXCEPT ![n] = f] /\ UNCHANGED byPeer
      \/ neg' = [neg EXCEPT ![n] = g] /\ byPeer' = [byPeer EXCEPT ![f.peer] = 0]
  BY DEF OpenSucceeds
<1> HIDE DEF told, early
<1>3. Steps(neg[n], f, budget, budget) /\ f.gone = FALSE /\ f.reserved = 0 /\ f.stage = "open" /\ f.dead = FALSE
  <2>1. NegOK(neg[n]) /\ budget \in Nat
    BY NegFacts
  <2>2. Opened(neg[n], f, budget)
    BY <1>1, <2>1, OpenOK, Zenon
  <2> HIDE DEF f
  <2> QED BY <2>2 DEF Opened
<1> HIDE DEF f
<1>4. CASE neg' = [neg EXCEPT ![n] = f] /\ UNCHANGED byPeer
  <2>1. f.gone = neg[n].gone
    BY <1>1, <1>3, NegFacts DEF NegOK, NegType
  <2>2. NegsOK(neg', byPeer, budget)
    BY <1>3, <1>4, <2>1, NegStays, NegFacts DEF NegInv
  <2> QED BY <1>1, <1>4, <2>2 DEF NegInv
<1>5. CASE neg' = [neg EXCEPT ![n] = g] /\ byPeer' = [byPeer EXCEPT ![f.peer] = 0]
  <2>1. NegOK(f) /\ f.peer = neg[n].peer
    BY <1>3 DEF Steps
  <2>2. Steps(f, g, budget, budget + f.reserved - g.reserved)
    BY <2>1, NegFacts, DropOK
  <2>3. g.reserved = 0 /\ neg[n].reserved = 0
    <3>1. neg[n].reserved = 0
      BY <1>1, NegFacts DEF NegOK, SocketsOK
    <3>2. g.reserved = 0
      BY <1>3, <2>1 DEF NegOK, NegType, Fields, Closed, gone, keepOnly
    <3> QED BY <3>1, <3>2
  <2> HIDE DEF g
  <2>4. Steps(neg[n], g, budget, budget)
    BY <1>3, <2>1, <2>2, <2>3, NegFacts DEF Steps
  <2>5. [byPeer EXCEPT ![f.peer] = 0] = [byPeer EXCEPT ![neg[n].peer] = IF @ = n THEN 0 ELSE @]
    BY <1>1, <2>1
  <2>6. NegsOK(neg', byPeer', budget)
    BY <1>5, <2>4, <2>5, NegLeaves, NegFacts DEF NegInv
  <2> QED BY <1>1, <2>6 DEF NegInv
<1> QED BY <1>2, <1>4, <1>5

(* A negotiation's data link, end and closed events. *)
LEMMA LinkKeeps ==
  ASSUME NegInv, NEW n \in Negs,
         HostData(n) \/ Authenticates(n) \/ LinkEnds(n) \/ ChannelClosed(n) \/ ChoosePath(n)
  PROVE  NegInv'
<1> DEFINE e == neg[n]
<1>0. NegOK(e) /\ budget \in Nat /\ n \in 1..Len(neg)
  BY NegFacts
<1>s. PICK S : neg \in Seq(S)
  BY DEF NegInv, NegsOK
<1>1. CASE HostData(n)
  <2>1. e.stage \in {"opening", "open"} /\ ~e.dead /\ UNCHANGED <<byPeer, budget>>
    BY <1>1 DEF HostData
  <2>2. CASE e.stage = "opening"
    <3> DEFINE f == [e EXCEPT !.early = TRUE]
    <3>1. neg' = [neg EXCEPT ![n] = f]
      BY <1>1, <2>2 DEF HostData
    <3>2. Keeps(e, f)
      BY <1>0 DEF Keeps, NegOK, NegType, Fields
    <3> HIDE DEF f
    <3>3. Steps(e, f, budget, budget) /\ f.gone = e.gone
      BY <1>0, <3>2, KeepsOK DEF Keeps
    <3>4. NegsOK(neg', byPeer, budget)
      BY <1>0, <3>1, <3>3, NegStays DEF NegInv
    <3> QED BY <2>1, <3>4 DEF NegInv
  <2>3. CASE e.stage = "open"
    <3> DEFINE f == [e EXCEPT !.data = "open"]
    <3>1. neg' = [neg EXCEPT ![n] = f]
      BY <1>1, <2>3 DEF HostData
    <3>2. Steps(e, f, budget, budget) /\ f.gone = e.gone
      BY <1>0, <2>1, <2>3, DataOK
    <3> HIDE DEF f
    <3>4. NegsOK(neg', byPeer, budget)
      BY <1>0, <3>1, <3>2, NegStays DEF NegInv
    <3> QED BY <2>1, <3>4 DEF NegInv
  <2> QED BY <2>1, <2>2, <2>3
<1>2. CASE Authenticates(n)
  <2> DEFINE f == [e EXCEPT !.data = "authed"]
  <2>1. e.data = "open" /\ ~e.dead /\ UNCHANGED <<byPeer, budget>>
    BY <1>2 DEF Authenticates
  <2>2. neg' = [neg EXCEPT ![n] = f]
    BY <1>2, <1>s, <1>0 DEF Authenticates
  <2>3. e.stage = "open"
    BY <1>0, <2>1 DEF NegOK, SocketsOK
  <2>4. Steps(e, f, budget, budget) /\ f.gone = e.gone
    BY <1>0, <2>1, <2>3, DataOK
  <2> HIDE DEF f
  <2>5. NegsOK(neg', byPeer, budget)
    BY <1>0, <2>2, <2>4, NegStays DEF NegInv
  <2> QED BY <2>1, <2>5 DEF NegInv
<1>3. CASE LinkEnds(n)
  <2> DEFINE f == Closed(e)
  <2>1. e.stage = "open" /\ ~e.dead /\ UNCHANGED byPeer
    BY <1>3 DEF LinkEnds
  <2>2. neg' = [neg EXCEPT ![n] = f] /\ budget' = budget + e.reserved - f.reserved
    BY <1>3 DEF LinkEnds, Returned
  <2>4. Steps(e, f, budget, budget') /\ f.gone = e.gone
    BY <1>0, <2>1, <2>2, EndsOK
  <2> HIDE DEF f
  <2>5. NegsOK(neg', byPeer, budget')
    BY <1>0, <2>2, <2>4, NegStays DEF NegInv
  <2> QED BY <2>1, <2>5 DEF NegInv
<1>4. CASE ChannelClosed(n)
  <2> DEFINE f == [gone(e) EXCEPT !.closing = FALSE, !.data = IF e.data = "none" THEN "none" ELSE "closed"]
  <2>1. e.closing /\ UNCHANGED budget
    BY <1>4 DEF ChannelClosed
  <2>2. neg' = [neg EXCEPT ![n] = f]
    BY <1>4 DEF ChannelClosed
  <2>3. byPeer' = [byPeer EXCEPT ![neg[n].peer] = IF @ = n THEN 0 ELSE @]
    BY <1>4 DEF ChannelClosed
  <2>4. Steps(e, f, budget, budget)
    BY <1>0, <2>1, HeardOK
  <2> HIDE DEF f
  <2>5. NegsOK(neg', byPeer', budget)
    BY <1>0, <2>2, <2>3, <2>4, NegLeaves DEF NegInv
  <2> QED BY <2>1, <2>5 DEF NegInv
<1>5. CASE ChoosePath(n)
  <2> DEFINE f == [keepOnly(e, 1) EXCEPT !.path = TRUE, !.data = "open"]
  <2>1. e.stage = "open" /\ ~e.dead /\ ~e.path /\ UNCHANGED byPeer
    BY <1>5 DEF ChoosePath
  <2>2. neg' = [neg EXCEPT ![n] = f] /\ budget' = budget + e.reserved - f.reserved
    BY <1>5 DEF ChoosePath, Returned
  <2>4. Steps(e, f, budget, budget') /\ f.gone = e.gone
    BY <1>0, <2>1, <2>2, PathOK
  <2> HIDE DEF f
  <2>5. NegsOK(neg', byPeer, budget')
    BY <1>0, <2>2, <2>4, NegStays DEF NegInv
  <2> QED BY <2>1, <2>5 DEF NegInv
<1> QED BY <1>1, <1>2, <1>3, <1>4, <1>5

(* A birthday bind is answered, perhaps after the end (addExtra). *)
LEMMA AddExtraKeeps ==
  ASSUME NegInv, NEW n \in Negs, AddExtra(n)
  PROVE  NegInv'
<1> DEFINE e == neg[n]
           again == e.toBind > 0 /\ ~e.dead /\ ~e.path
           F(bound) == [e EXCEPT !.sockets = IF bound /\ KeepsExtra(e) THEN e.sockets + 1 ELSE e.sockets,
                                 !.binding = IF again THEN e.binding ELSE e.binding - 1,
                                 !.toBind = IF again THEN e.toBind - 1 ELSE e.toBind]
<1>0. NegOK(e) /\ budget \in Nat /\ n \in 1..Len(neg)
  BY NegFacts
<1>1. e.binding > 0 /\ UNCHANGED <<byPeer, budget>>
  BY DEF AddExtra
<1>2. PICK bound \in BOOLEAN : neg' = [neg EXCEPT ![n] = [e EXCEPT
                       !.sockets = IF bound /\ KeepsExtra(e) THEN @ + 1 ELSE @,
                       !.binding = IF again THEN @ ELSE @ - 1,
                       !.toBind = IF again THEN @ - 1 ELSE @]]
  BY Zenon DEF AddExtra
<1>3. neg' = [neg EXCEPT ![n] = F(bound)]
  BY <1>0, <1>2 DEF NegOK, NegType, Fields
<1>4. Steps(e, F(bound), budget, budget) /\ F(bound).gone = e.gone
  BY <1>0, <1>1, ExtraOK, Zenon
<1> DEFINE f == F(bound)
<1>5. neg' = [neg EXCEPT ![n] = f] /\ Steps(e, f, budget, budget) /\ f.gone = e.gone
  BY <1>3, <1>4
<1> HIDE DEF f
<1>6. NegsOK(neg', byPeer, budget)
  BY <1>0, <1>5, NegStays DEF NegInv
<1> QED BY <1>1, <1>6 DEF NegInv

(* The peer's description is applied to a negotiation that is open. *)
LEMMA ToldKeeps ==
  ASSUME NegInv, NEW n \in Negs, NEW told, neg' = [neg EXCEPT ![n].told = told], UNCHANGED <<byPeer, budget>>
  PROVE  NegInv'
<1> DEFINE f == [neg[n] EXCEPT !.told = told]
<1>0. NegOK(neg[n]) /\ budget \in Nat /\ n \in 1..Len(neg)
  BY NegFacts
<1>1. neg' = [neg EXCEPT ![n] = f]
  OBVIOUS
<1>2. Keeps(neg[n], f)
  BY <1>0 DEF Keeps, NegOK, NegType, Fields
<1> HIDE DEF f
<1>3. Steps(neg[n], f, budget, budget) /\ f.gone = neg[n].gone
  BY <1>0, <1>2, KeepsOK DEF Keeps
<1>4. NegsOK([neg EXCEPT ![n] = f], byPeer, budget)
  BY <1>0, <1>3, NegStays, Zenon DEF NegInv
<1> QED BY <1>1, <1>4, Zenon DEF NegInv

(* A signal queues, or costs its peer the negotiation (receive). *)
LEMMA ReceiveKeeps ==
  ASSUME NegInv, NEW p \in Peers, NEW m, Receive(p, m)
  PROVE  NegInv'
<1>1. CASE UNCHANGED <<neg, byPeer, budget>>
  BY <1>1, NegSame
<1>2. CASE byPeer[p] # 0 /\ drop(byPeer[p])
  <2>1. byPeer[p] \in Negs
    BY <1>2, NegFacts
  <2> QED BY <1>2, <2>1, DropKeeps
<1> QED BY <1>1, <1>2, Zenon DEF Receive

(* An answer or a decline is applied (onSignal). *)
LEMMA OnAnswerKeeps ==
  ASSUME NegInv, NEW p \in Peers, OnAnswer(p)
  PROVE  NegInv'
<1> DEFINE current == byPeer[p]
           mine == current # 0 /\ neg[current].sid = Head(queue[p]).sid
<1>1. current # 0 => current \in Negs
  BY NegFacts
<1>2. \/ mine /\ drop(current)
      \/ mine /\ neg' = [neg EXCEPT ![current].told = @ \/ neg[current].stage = "open"] /\ UNCHANGED <<byPeer, budget>>
      \/ UNCHANGED <<neg, byPeer, budget>>
  BY Zenon DEF OnAnswer
<1>3. CASE mine /\ drop(current)
  BY <1>1, <1>3, DropKeeps
<1>4. CASE mine /\ neg' = [neg EXCEPT ![current].told = @ \/ neg[current].stage = "open"] /\ UNCHANGED <<byPeer, budget>>
  <2>1. current \in Negs
    BY <1>1, <1>4
  <2> HIDE DEF current
  <2> QED BY <1>4, <2>1, ToldKeeps
<1>5. CASE UNCHANGED <<neg, byPeer, budget>>
  BY <1>5, NegSame
<1> QED BY <1>2, <1>3, <1>4, <1>5

(* An offer: what the peer had is dropped, and a new one may begin. *)
LEMMA OnOfferKeeps ==
  ASSUME NegInv, NEW p \in Peers, OnOffer(p)
  PROVE  NegInv'
<1> DEFINE m == Head(queue[p])
           current == byPeer[p]
           known == current # 0 /\ neg[current].sid = m.sid
           dropped == IF current = 0 THEN neg ELSE [neg EXCEPT ![current] = Closed(gone(neg[current]))]
           bud1 == IF current = 0 THEN budget ELSE budget + neg[current].reserved - dropped[current].reserved
           bp1 == [byPeer EXCEPT ![p] = 0]
           f == NewNegotiation(p, FALSE, m.sid, m.scheme, << >>)
<1>1. current # 0 => current \in Negs /\ neg[current].peer = p
  BY NegFacts
<1>2. \/ /\ known /\ neg' = [neg EXCEPT ![current].told = @ \/ neg[current].stage = "open"]
         /\ UNCHANGED <<byPeer, budget>>
      \/ neg' = dropped /\ byPeer' = bp1 /\ budget' = bud1
      \/ /\ neg' = Append(dropped, f) /\ byPeer' = [byPeer EXCEPT ![p] = Len(neg) + 1]
         /\ budget' = bud1
  BY Zenon DEF OnOffer, Returned
<1>3. NegsOK(dropped, bp1, bud1) /\ Len(dropped) = Len(neg)
  <2>0. byPeer \in [Peers -> Nat]
    BY DEF NegInv, NegsOK, Entries
  <2>1. CASE current = 0
    <3>1. bp1 = byPeer
      BY <2>0, <2>1
    <3>2. dropped = neg /\ bud1 = budget
      BY <2>1
    <3> QED BY <3>1, <3>2, Zenon DEF NegInv
  <2>2. CASE current # 0
    <3> DEFINE g == Closed(gone(neg[current]))
    <3>1. NegOK(neg[current]) /\ budget \in Nat /\ current \in 1..Len(neg) /\ neg[current].peer = p
      BY <1>1, <2>2, NegFacts
    <3>s. PICK S : neg \in Seq(S)
      BY DEF NegInv, NegsOK
    <3>2. Steps(neg[current], g, budget, budget + neg[current].reserved - g.reserved)
      BY <3>1, DropOK
    <3> HIDE DEF g
    <3>3. dropped = [neg EXCEPT ![current] = g]
      BY <2>2 DEF g
    <3>4. dropped[current] = g /\ Len(dropped) = Len(neg)
      BY <3>1, <3>3, <3>s
    <3>5. bud1 = budget + neg[current].reserved - g.reserved
      BY <2>2, <3>4
    <3> HIDE DEF dropped, bud1
    <3>6. bp1 = [byPeer EXCEPT ![neg[current].peer] = IF @ = current THEN 0 ELSE @]
      BY <2>0, <3>1
    <3>7. Steps(neg[current], g, budget, bud1)
      BY <3>2, <3>5
    <3> HIDE DEF bp1, current
    <3>8. NegsOK(dropped, bp1, bud1)
      BY <3>1, <3>3, <3>6, <3>7, NegLeaves, Zenon DEF NegInv
    <3> QED BY <3>4, <3>8
  <2> QED BY <2>1, <2>2
<1>4. CASE known /\ neg' = [neg EXCEPT ![current].told = @ \/ neg[current].stage = "open"] /\ UNCHANGED <<byPeer, budget>>
  <2>1. current \in Negs
    BY <1>1, <1>4
  <2> HIDE DEF current
  <2> QED BY <1>4, <2>1, ToldKeeps
<1>5. CASE neg' = dropped /\ byPeer' = bp1 /\ budget' = bud1
  BY <1>3, <1>5, Zenon DEF NegInv
<1>6. CASE /\ neg' = Append(dropped, f) /\ byPeer' = [byPeer EXCEPT ![p] = Len(neg) + 1]
           /\ budget' = bud1
  <2>1. Fresh(f, p)
    BY NewOK, Zenon
  <2>2. [byPeer EXCEPT ![p] = Len(neg) + 1] = [bp1 EXCEPT ![p] = Len(dropped) + 1]
    BY <1>3
  <2> HIDE DEF f, bp1, dropped, bud1
  <2>3. NegsOK(Append(dropped, f), [bp1 EXCEPT ![p] = Len(dropped) + 1], bud1)
    BY <1>3, <2>1, NegBegins
  <2> QED BY <1>6, <2>2, <2>3, Zenon DEF NegInv
<1> HIDE DEF dropped, bud1, bp1, f
<1> QED BY <1>2, <1>4, <1>5, <1>6

(* What a negotiation learns leaves it in order, and of what it holds      *)
(* changes nothing.                                                        *)
Learnt(e, f) == /\ NegOK(f) /\ f.peer = e.peer /\ f.gone = e.gone /\ f.reserved = e.reserved
                /\ f.stage = e.stage
(* The plain rounds have passed, ... *)
LEMMA WaitedOK ==
  ASSUME NEW e, NegOK(e)
  PROVE  Learnt(e, [e EXCEPT !.waited = TRUE])
<1> DEFINE f == [e EXCEPT !.waited = TRUE]
<1>1. Keeps(e, f)
  BY DEF Keeps, NegOK, NegType, Fields
<1> HIDE DEF f
<1>2. Steps(e, f, 0, 0)
  BY <1>1, KeepsOK
<1>3. Learnt(e, f)
  BY <1>1, <1>2 DEF Learnt, Steps, Keeps
<1> QED BY <1>3 DEF f

(* ... its STUN answers say what its NAT is, ... *)
LEMMA NatOK ==
  ASSUME NEW e, NegOK(e), e.nat # "hard", NEW nat \in {"easy", "hard"}
  PROVE  Learnt(e, [e EXCEPT !.nat = nat])
<1> DEFINE f == [e EXCEPT !.nat = nat]
<1>1. /\ DOMAIN f = DOMAIN e /\ f.nat = nat
      /\ f.sockets = e.sockets /\ f.reserved = e.reserved /\ f.dead = e.dead /\ f.closing = e.closing
      /\ f.peer = e.peer /\ f.toBind = e.toBind /\ f.binding = e.binding /\ f.stage = e.stage /\ f.data = e.data
      /\ f.path = e.path /\ f.asked = e.asked /\ f.spraying = e.spraying
      /\ f.peerHard = e.peerHard /\ f.gone = e.gone /\ f.inCtl = e.inCtl
  BY DEF NegOK, NegType, Fields
<1> HIDE DEF f
<1>2. NegType(f)
  BY <1>1 DEF NegOK, NegType
<1>3. SocketsOK(f)
  BY <1>1 DEF NegOK, NegType, SocketsOK
<1>4. RecordOK(f)
  BY <1>1 DEF NegOK, NegType, RecordOK
<1>5. Learnt(e, f)
  BY <1>1, <1>2, <1>3, <1>4 DEF Learnt, NegOK
<1> QED BY <1>5 DEF f

(* ... or the peer says that it is behind a hard one. *)
LEMMA PeerHardOK ==
  ASSUME NEW e, NegOK(e)
  PROVE  Learnt(e, [e EXCEPT !.peerHard = TRUE])
<1> DEFINE f == [e EXCEPT !.peerHard = TRUE]
<1>1. /\ DOMAIN f = DOMAIN e /\ f.nat = e.nat
      /\ f.sockets = e.sockets /\ f.reserved = e.reserved /\ f.dead = e.dead /\ f.closing = e.closing
      /\ f.peer = e.peer /\ f.toBind = e.toBind /\ f.binding = e.binding /\ f.stage = e.stage /\ f.data = e.data
      /\ f.path = e.path /\ f.asked = e.asked /\ f.spraying = e.spraying
      /\ f.peerHard = TRUE /\ f.gone = e.gone /\ f.inCtl = e.inCtl
  BY DEF NegOK, NegType, Fields
<1> HIDE DEF f
<1>2. NegType(f)
  <2>1. f.peerHard \in BOOLEAN
    BY <1>1, Zenon
  <2> QED BY <1>1, <2>1, Zenon DEF NegOK, NegType
<1>3. SocketsOK(f)
  BY <1>1 DEF NegOK, NegType, SocketsOK
<1>4. RecordOK(f)
  BY <1>1 DEF NegOK, NegType, RecordOK
<1>5. Learnt(e, f)
  BY <1>1, <1>2, <1>3, <1>4 DEF Learnt, NegOK
<1> QED BY <1>5 DEF f

(* birthday takes from the budget what the negotiation then reserves. *)
LEMMA BirthdayKeeps ==
  ASSUME NegInv, NEW n \in Negs, NEW e, Learnt(neg[n], e),
         neg[n].stage = "open", birthday(n, e), UNCHANGED byPeer
  PROVE  NegInv'
<1> DEFINE got == Min({BIRTHDAY_SOCKETS, budget})
           binds == Min({got, BIRTHDAY_BINDS})
           f1 == [e EXCEPT !.asked = TRUE, !.reserved = got, !.binding = binds, !.toBind = got - binds]
           f2 == [e EXCEPT !.spraying = TRUE, !.reserved = got]
<1>0. budget \in Nat /\ n \in 1..Len(neg) /\ NegOK(e) /\ e.stage = "open" /\ e.gone = neg[n].gone
      /\ e.peer = neg[n].peer /\ e.reserved = neg[n].reserved /\ e.reserved \in Nat
  BY NegFacts DEF Learnt, NegOK, NegType
<1>1. BIRTHDAY_SOCKETS \in Nat /\ BIRTHDAY_BINDS \in Nat
  BY NegotiationsAssumption
<1>2. got \in Nat /\ got <= budget
  <2>1. got = Min({BIRTHDAY_SOCKETS, budget})
    OBVIOUS
  <2> HIDE DEF got
  <2>2. Min({BIRTHDAY_SOCKETS, budget}) \in {BIRTHDAY_SOCKETS, budget} /\ Min({BIRTHDAY_SOCKETS, budget}) <= budget
    <3>1. BIRTHDAY_SOCKETS \in Int /\ budget \in Int
      BY <1>0, <1>1
    <3> QED BY <3>1, MinTwo, Zenon
  <2> QED BY <1>0, <1>1, <2>1, <2>2
<1>3. binds \in Nat /\ binds <= got
  <2> HIDE DEF got
  <2>1. binds = Min({got, BIRTHDAY_BINDS})
    OBVIOUS
  <2> HIDE DEF binds
  <2>2. Min({got, BIRTHDAY_BINDS}) \in {got, BIRTHDAY_BINDS} /\ Min({got, BIRTHDAY_BINDS}) <= got
    <3>1. got \in Int /\ BIRTHDAY_BINDS \in Int
      BY <1>1, <1>2
    <3> QED BY <3>1, MinTwo, Zenon
  <2> QED BY <1>2, <1>1, <2>1, <2>2
<1>4. \/ /\ ~e.dead /\ ~e.path /\ WantsSockets(e)
         /\ neg' = [neg EXCEPT ![n] = f1] /\ budget' = budget - got
      \/ /\ ~e.dead /\ ~e.path /\ WantsSpray(e)
         /\ neg' = [neg EXCEPT ![n] = f2] /\ budget' = budget - got
      \/ neg' = [neg EXCEPT ![n] = e] /\ budget' = budget
  BY Zenon DEF birthday, takeSockets
<1> HIDE DEF got, binds
<1>5. ASSUME NEW f, BirthdayOK(e, budget, f, budget'), neg' = [neg EXCEPT ![n] = f]
      PROVE  NegInv'
  <2>1. Steps(neg[n], f, budget, budget') /\ f.gone = neg[n].gone
    BY <1>0, <1>5 DEF BirthdayOK, Steps
  <2>2. NegsOK(neg', byPeer, budget')
    BY <1>0, <1>5, <2>1, NegStays DEF NegInv
  <2> QED BY <2>2 DEF NegInv
<1>6. CASE /\ ~e.dead /\ ~e.path /\ WantsSockets(e)
           /\ neg' = [neg EXCEPT ![n] = f1] /\ budget' = budget - got
  <2>1. BirthdayOK(e, budget, f1, budget - got)
    BY <1>0, <1>2, <1>3, <1>6, AsksOK, Zenon
  <2> HIDE DEF f1
  <2> QED BY <1>5, <1>6, <2>1
<1>7. CASE /\ ~e.dead /\ ~e.path /\ WantsSpray(e)
           /\ neg' = [neg EXCEPT ![n] = f2] /\ budget' = budget - got
  <2>1. BirthdayOK(e, budget, f2, budget - got)
    BY <1>0, <1>2, <1>7, SpraysOK, Zenon
  <2> HIDE DEF f2
  <2> QED BY <1>5, <1>7, <2>1
<1>8. CASE neg' = [neg EXCEPT ![n] = e] /\ budget' = budget
  <2>1. BirthdayOK(e, budget, e, budget')
    BY <1>0, <1>8 DEF BirthdayOK, Steps
  <2> QED BY <1>5, <1>8, <2>1
<1> HIDE DEF f1, f2
<1> QED BY <1>4, <1>6, <1>7, <1>8

(* A negotiation learns of its NAT or the peer's, or has waited long enough. *)
LEMMA LearnsKeeps ==
  ASSUME NegInv, NEW n \in Negs, Learns(n)
  PROVE  NegInv'
<1>0. NegOK(neg[n]) /\ neg[n].stage = "open" /\ UNCHANGED byPeer
  BY NegFacts DEF Learns
<1>1. \/ birthday(n, [neg[n] EXCEPT !.waited = TRUE])
      \/ \E nat \in {"easy", "hard"} : neg[n].nat # "hard" /\ birthday(n, [neg[n] EXCEPT !.nat = nat])
      \/ birthday(n, [neg[n] EXCEPT !.peerHard = TRUE])
  BY Zenon DEF Learns
<1>2. ASSUME NEW e, Learnt(neg[n], e), birthday(n, e) PROVE NegInv'
  BY <1>0, <1>2, BirthdayKeeps
<1>3. CASE birthday(n, [neg[n] EXCEPT !.waited = TRUE])
  BY <1>0, <1>2, <1>3, WaitedOK, Zenon
<1>4. CASE \E nat \in {"easy", "hard"} : neg[n].nat # "hard" /\ birthday(n, [neg[n] EXCEPT !.nat = nat])
  BY <1>0, <1>2, <1>4, NatOK, Zenon
<1>5. CASE birthday(n, [neg[n] EXCEPT !.peerHard = TRUE])
  BY <1>0, <1>2, <1>5, PeerHardOK, Zenon
<1> QED BY <1>1, <1>3, <1>4, <1>5

-----------------------------------------------------------------------------
(* A node begins with its whole budget. *)
LEMMA NegInit == NegotiationsInit => NegInv
<1> SUFFICES ASSUME NegotiationsInit PROVE NegInv
  OBVIOUS
<1>1. neg = << >> /\ byPeer = [p \in Peers |-> 0] /\ budget = MAX_NODE_BIRTHDAY_SOCKETS
  BY DEF NegotiationsInit
<1>2. budget \in Nat
  BY <1>1, NegotiationsAssumption
<1>3. neg \in Seq({}) /\ Len(neg) = 0 /\ Reserves(neg) = << >>
  BY <1>1 DEF Reserves
<1>4. Whole(neg, budget)
  BY <1>1, <1>2, <1>3, SumEmpty DEF Whole
<1>5. Entries(neg, byPeer)
  BY <1>1 DEF Entries
<1> QED BY <1>2, <1>3, <1>4, <1>5 DEF NegInv, NegsOK

(* Every step keeps the invariant. *)
LEMMA NegNext == NegInv /\ [NegotiationsNext]_negotiationVars => NegInv'
<1> SUFFICES ASSUME NegInv, [NegotiationsNext]_negotiationVars PROVE NegInv'
  OBVIOUS
<1>1. CASE UNCHANGED negotiationVars
  BY <1>1, NegSame DEF negotiationVars
<1>2. ASSUME NEW p \in Peers, Upgrade(p) PROVE NegInv'
  BY <1>2, NegSame DEF Upgrade
<1>3. ASSUME NEW p \in Peers, OnSignal(p) PROVE NegInv'
  BY <1>3, OnOfferKeeps, OnAnswerKeeps DEF OnSignal
<1>4. ASSUME NEW p \in Peers, Forget(p) PROVE NegInv'
  BY <1>4, NegFacts, DropKeeps DEF Forget
<1>5. ASSUME NEW p \in Peers, NEW m, Receive(p, m) PROVE NegInv'
  BY <1>5, ReceiveKeeps
<1>6. ASSUME NEW t, Try(t) PROVE NegInv'
  <2>1. CASE UNCHANGED <<neg, byPeer>>
    BY <1>6, <2>1, NegSame DEF Try
  <2>2. CASE Begins(t.peer, TRUE, t.sid, t.schemes)
    BY <1>6, <2>2, BeginsKeeps DEF Try
  <2> QED BY <1>6, <2>1, <2>2, Zenon DEF Try
<1>7. ASSUME NEW n \in Negs, OpenSettles(n) PROVE NegInv'
  BY <1>7, OpenSucceedsKeeps, OpenFailsKeeps, OpenRejectsKeeps DEF OpenSettles
<1>8. ASSUME NEW n \in Negs, Deadline(n) PROVE NegInv'
  BY <1>8, DropKeeps DEF Deadline
<1>9. ASSUME NEW n \in Negs,
             \/ Bound(n) \/ OpenSettles(n) \/ Learns(n) \/ AddExtra(n) \/ ChoosePath(n)
             \/ HostData(n) \/ Authenticates(n) \/ LinkEnds(n) \/ ChannelClosed(n) \/ Deadline(n)
      PROVE  NegInv'
  BY <1>7, <1>8, <1>9, BoundKeeps, LearnsKeeps, AddExtraKeeps, LinkKeeps, Zenon
<1> QED BY <1>1, <1>2, <1>3, <1>4, <1>5, <1>6, <1>9, Zenon DEF NegotiationsNext

(* Whatever negotiations begin, open, are refused, replaced, dropped or    *)
(* end, in any order, what they have reserved and what is left make up the *)
(* node's whole socket budget (takeSockets, keepOnly).                     *)
THEOREM BudgetExactHolds == NegotiationsSpec => []BudgetExact
<1>1. NegInv => BudgetExact
  <2> SUFFICES ASSUME NegInv PROVE BudgetExact
    OBVIOUS
  <2>1. Whole(neg, budget)
    BY DEF NegInv, NegsOK
  <2>2. budget + SumSeq(Reserves(neg)) = MAX_NODE_BIRTHDAY_SOCKETS
    BY <2>1 DEF Whole
  <2> QED BY <2>2, Zenon DEF BudgetExact, Negs, Reserves
<1>2. NegotiationsInit => NegInv
  BY NegInit
<1>3. NegInv /\ [NegotiationsNext]_negotiationVars => NegInv'
  BY NegNext
<1> QED BY <1>1, <1>2, <1>3, PTL DEF NegotiationsSpec

(* ... and a peer's entry is a negotiation being opened, recorded or       *)
(* refused by the host, one that has ended or found no host holds no       *)
(* socket, one on a path holds that path's, and a data link in use belongs *)
(* to a negotiation that is recorded (drop, open, addExtra).               *)
THEOREM NothingLeftHolds == NegotiationsSpec => []NothingLeft
<1>1. NegInv => NothingLeft
  <2> SUFFICES ASSUME NegInv PROVE NothingLeft
    OBVIOUS
  <2>1. ASSUME NEW p \in Peers, byPeer[p] # 0
        PROVE  /\ neg[byPeer[p]].peer = p /\ ~neg[byPeer[p]].gone
               /\ Waits(byPeer[p]) \/ neg[byPeer[p]].inCtl \/ neg[byPeer[p]].stage = "refused"
    <3>1. neg[byPeer[p]].peer = p /\ ~neg[byPeer[p]].gone /\ NegOK(neg[byPeer[p]])
      BY <2>1, NegFacts DEF NegInv, NegsOK, Entries
    <3> QED BY <3>1 DEF NegOK, NegType, RecordOK, Waits
  <2>2. ASSUME NEW e, NegOK(e)
        PROVE  /\ e.sockets <= IF e.dead THEN 0 ELSE IF e.path THEN 1 ELSE 1 + e.reserved
               /\ e.inCtl => ~e.gone
               /\ e.data \in {"open", "authed"} => e.inCtl \/ e.closing
    <3>1. e.sockets <= IF e.dead THEN 0 ELSE IF e.path THEN 1 ELSE 1 + e.reserved
      BY <2>2 DEF NegOK, NegType, SocketsOK
    <3>2. (e.inCtl => ~e.gone) /\ (e.data \in {"open", "authed"} => e.inCtl \/ e.closing)
      BY <2>2 DEF NegOK, RecordOK
    <3> QED BY <3>1, <3>2
  <2>3. \A n \in Negs : NegOK(neg[n])
    BY NegFacts
  <2> QED BY <2>1, <2>2, <2>3, Zenon DEF NothingLeft
<1>2. NegotiationsInit => NegInv
  BY NegInit
<1>3. NegInv /\ [NegotiationsNext]_negotiationVars => NegInv'
  BY NegNext
<1> QED BY <1>1, <1>2, <1>3, PTL DEF NegotiationsSpec
=============================================================================
