----------------------------- MODULE CoreProofs -----------------------------
(***************************************************************************)
(* Proofs about the transport's realm (module Core): its dials, its        *)
(* relays, its one wake, its limiter, its request layer and its framing.   *)
(***************************************************************************)
EXTENDS Core, SetLemmas, TLAPS, SequenceTheorems, FiniteSetTheorems

(* ---- the dials ---- *)

(* Links are counted, and a forgotten peer has none this node dialed. *)
DialsInv ==
    /\ dialed \in [Contacts -> Nat] /\ accepted \in [Contacts -> Nat] /\ dialing \in [Contacts -> Nat]
    /\ DialsKept

(* No link to begin with. *)
LEMMA DialsStart == DialsInit => DialsInv
  BY DialsAssumption DEF DialsInit, DialsInv, DialsKept

(* An address added or forgotten, a dial and its open, a link that comes   *)
(* or goes (core.js addAddr, forget, dialPeer) keep it.                    *)
LEMMA DialsStep ==
  ASSUME DialsInv, DialLayer
  PROVE  DialsInv'
<1> USE DialsAssumption
<1> PICK p \in Contacts : \/ AddAddr(p) \/ ForgetPeer(p)
                          \/ PeerDials(p) \/ DialedGoes(p) \/ AcceptedGoes(p)
                          \/ Dial(p) \/ \E found \in BOOLEAN : DialOpens(p, found)
  BY DEF DialLayer
<1>1. CASE AddAddr(p)
  BY <1>1 DEF AddAddr, DialsInv, DialsKept
<1>2. CASE ForgetPeer(p)
  BY <1>2 DEF ForgetPeer, DialsInv, DialsKept
<1>3. CASE PeerDials(p)
  BY <1>3 DEF PeerDials, DialsInv, DialsKept
<1>4. CASE DialedGoes(p)
  BY <1>4 DEF DialedGoes, DialsInv, DialsKept
<1>5. CASE AcceptedGoes(p)
  BY <1>5 DEF AcceptedGoes, DialsInv, DialsKept
<1>6. CASE Dial(p)
  BY <1>6 DEF Dial, Missing, Shared, DialsInv, DialsKept
<1>7. ASSUME NEW found \in BOOLEAN, DialOpens(p, found) PROVE DialsInv'
  BY <1>7 DEF DialOpens, StillWanted, DialsInv, DialsKept
<1> QED BY <1>1, <1>2, <1>3, <1>4, <1>5, <1>6, <1>7

(* The other layers leave the dials alone. *)
LEMMA DialsStutter ==
  ASSUME DialsInv, UNCHANGED dialVars PROVE DialsInv'
  BY DEF DialsInv, DialsKept, dialVars

(* However dials in flight, addresses forgotten and links that come and go *)
(* interleave (core.js dialPeer, forget), a peer has no more dialed links  *)
(* than its share and a forgotten one none.                                *)
THEOREM DialsHold == Spec => []DialsKept
<1>1. Init => DialsInv
  BY DialsStart DEF Init
<1>2. DialsInv /\ [Next]_vars => DialsInv'
  <2> SUFFICES ASSUME DialsInv, [Next]_vars PROVE DialsInv'
    OBVIOUS
  <2>1. CASE DialLayer
    BY <2>1, DialsStep
  <2>2. CASE UNCHANGED dialVars
    BY <2>2, DialsStutter
  <2> QED BY <2>1, <2>2 DEF Next, vars
<1>3. DialsInv => DialsKept
  BY DEF DialsInv
<1> QED BY <1>1, <1>2, <1>3, PTL DEF Spec

(* ---- the relays ---- *)

Stages == {"opening", "linked", "refused", "registered"}
ConnRec == [origin : Origins, key : Keys, stage : Stages, open : BOOLEAN, gone : BOOLEAN]
LinksRec == [home : Addresses \union {NoHome}, conns : [Origins -> Nat], conn : Seq(ConnRec), retry : Nat]

(* The map and the links: a link that is not gone is the one its origin    *)
(* has, only such a one is open, and one not gone is coming, save those of *)
(* X.                                                                      *)
LinksOK(m, c, X) ==
    /\ \A o \in Origins : m[o] # 0 => m[o] \in 1..Len(c) /\ c[m[o]].origin = o
    /\ \A i \in 1..Len(c) : /\ ~c[i].gone <=> m[c[i].origin] = i
                            /\ c[i].open => ~c[i].gone
                            /\ i \in X \/ c[i].gone \/ c[i].open \/ c[i].stage \in {"opening", "refused"}

(* A link of the sequence is a link. *)
LEMMA ConnTyped ==
  ASSUME NEW c \in Seq(ConnRec), NEW i \in 1..Len(c)
  PROVE  /\ c[i] \in ConnRec /\ c[i].origin \in Origins /\ c[i].key \in Keys
         /\ c[i].open \in BOOLEAN /\ c[i].gone \in BOOLEAN
<1>1. c[i] \in ConnRec
  BY ElementOfSeq
<1> QED BY <1>1 DEF ConnRec

(* A link closed, gone and off the map (relay.js onGone). *)
LEMMA LinkRemoved ==
  ASSUME NEW m \in [Origins -> Nat], NEW c \in Seq(ConnRec), NEW i \in 1..Len(c), LinksOK(m, c, {i}),
         ~c[i].gone,
         NEW d \in Seq(ConnRec), Len(d) = Len(c), \A j \in 1..Len(c) : j # i => d[j] = c[j],
         d[i].gone, ~d[i].open, d[i].origin = c[i].origin
  PROVE  LinksOK([m EXCEPT ![c[i].origin] = 0], d, {})
<1>1. \A j \in 1..Len(c) : c[j] \in ConnRec /\ c[j].origin \in Origins
  BY ConnTyped
<1> DEFINE n == [m EXCEPT ![c[i].origin] = 0]
<1>2. \A o \in Origins : n[o] = IF o = c[i].origin THEN 0 ELSE m[o]
  BY <1>1
<1>3. m[c[i].origin] = i
  BY DEF LinksOK
<1> HIDE DEF n
<1>4. \A o \in Origins : n[o] # 0 => n[o] \in 1..Len(d) /\ d[n[o]].origin = o
  BY <1>1, <1>2, <1>3 DEF LinksOK
<1>5. ASSUME NEW j \in 1..Len(d)
      PROVE  /\ ~d[j].gone <=> n[d[j].origin] = j
             /\ d[j].open => ~d[j].gone
             /\ d[j].gone \/ d[j].open \/ d[j].stage \in {"opening", "refused"}
  <2>1. CASE j = i
    BY <1>1, <1>2, <2>1
  <2>2. CASE j # i
    <3>1. d[j] = c[j] /\ c[j].origin \in Origins
      BY <1>1, <2>2
    <3>2. CASE c[j].origin = c[i].origin
      BY <1>1, <1>2, <1>3, <2>2, <3>1, <3>2 DEF LinksOK
    <3>3. CASE c[j].origin # c[i].origin
      BY <1>1, <1>2, <1>3, <2>2, <3>1, <3>3 DEF LinksOK
    <3> QED BY <3>2, <3>3
  <2> QED BY <2>1, <2>2
<1> QED BY <1>4, <1>5 DEF LinksOK, n

(* A link begun for an origin that has none (relay.js conn). *)
LEMMA LinkAdded ==
  ASSUME NEW m \in [Origins -> Nat], NEW c \in Seq(ConnRec), LinksOK(m, c, {}),
         NEW o \in Origins, NEW k \in Keys, m[o] = 0
  PROVE  /\ Append(c, NewConn(o, k)) \in Seq(ConnRec)
         /\ Append(c, NewConn(o, k))[Len(c) + 1] = NewConn(o, k)
         /\ LinksOK([m EXCEPT ![o] = Len(c) + 1], Append(c, NewConn(o, k)), {})
<1> DEFINE e == NewConn(o, k)
           d == Append(c, e)
           n == [m EXCEPT ![o] = Len(c) + 1]
<1>1. \A j \in 1..Len(c) : c[j] \in ConnRec /\ c[j].origin \in Origins
  BY ConnTyped
<1>2. e \in ConnRec /\ e.origin = o /\ ~e.gone /\ ~e.open /\ e.stage = "opening"
  BY DEF NewConn, ConnRec, Stages
<1> HIDE DEF e
<1>3. d \in Seq(ConnRec) /\ Len(d) = Len(c) + 1 /\ (\A j \in 1..Len(c) : d[j] = c[j]) /\ d[Len(c) + 1] = e
  BY <1>2, AppendProperties
<1>4. Len(c) \in Nat
  BY LenProperties
<1>5. \A q \in Origins : n[q] = IF q = o THEN Len(c) + 1 ELSE m[q]
  OBVIOUS
<1> HIDE DEF d, n
<1>6. \A q \in Origins : n[q] # 0 => n[q] \in 1..Len(d) /\ d[n[q]].origin = q
  BY <1>1, <1>2, <1>3, <1>4, <1>5 DEF LinksOK
<1>7. ASSUME NEW j \in 1..Len(d)
      PROVE  /\ ~d[j].gone <=> n[d[j].origin] = j
             /\ d[j].open => ~d[j].gone
             /\ d[j].gone \/ d[j].open \/ d[j].stage \in {"opening", "refused"}
  <2>1. CASE j = Len(c) + 1
    BY <1>2, <1>3, <1>5, <2>1
  <2>2. CASE j # Len(c) + 1
    <3>1. j \in 1..Len(c) /\ d[j] = c[j] /\ c[j].origin \in Origins
      BY <1>1, <1>3, <1>4, <2>2
    <3>2. CASE c[j].origin = o
      BY <1>4, <1>5, <2>2, <3>1, <3>2 DEF LinksOK
    <3>3. CASE c[j].origin # o
      BY <1>5, <3>1, <3>3 DEF LinksOK
    <3> QED BY <3>2, <3>3
  <2> QED BY <2>1, <2>2
<1>8. LinksOK(n, d, {})
  BY <1>6, <1>7 DEF LinksOK
<1> QED BY <1>3, <1>8 DEF n, d, e

(* One link changed, its origin and key kept. *)
LEMMA ConnChanged ==
  ASSUME NEW c \in Seq(ConnRec), NEW i \in 1..Len(c), NEW e \in ConnRec
  PROVE  /\ [c EXCEPT ![i] = e] \in Seq(ConnRec) /\ Len([c EXCEPT ![i] = e]) = Len(c)
         /\ [c EXCEPT ![i] = e][i] = e
         /\ \A j \in 1..Len(c) : j # i => [c EXCEPT ![i] = e][j] = c[j]
  BY ExceptSeq

(* Closed, then gone, is both at once. *)
LEMMA ConnClosed ==
  ASSUME NEW c \in Seq(ConnRec), NEW i \in 1..Len(c),
         NEW d, d = [c EXCEPT ![i] = [c[i] EXCEPT !.open = FALSE]]
  PROVE  [d EXCEPT ![i] = [d[i] EXCEPT !.gone = TRUE]] =
            [c EXCEPT ![i] = [c[i] EXCEPT !.open = FALSE, !.gone = TRUE]]
<1> DEFINE f == [c[i] EXCEPT !.open = FALSE]
<1>1. c[i] \in ConnRec
  BY ConnTyped
<1>2. f \in ConnRec /\ [f EXCEPT !.gone = TRUE] = [c[i] EXCEPT !.open = FALSE, !.gone = TRUE]
  BY <1>1 DEF ConnRec
<1> HIDE DEF f
<1>3. d = [c EXCEPT ![i] = f]
  BY DEF f
<1>4. d[i] = f
  BY <1>2, <1>3, ConnChanged
<1>5. [d EXCEPT ![i] = [f EXCEPT !.gone = TRUE]] = [c EXCEPT ![i] = [f EXCEPT !.gone = TRUE]]
  BY <1>3
<1> QED BY <1>2, <1>4, <1>5

(* The same of the record the links are in. *)
LEMMA LinkRecord ==
  ASSUME NEW h, NEW m, NEW r, NEW c, NEW d,
         NEW s, s = [home |-> h, conns |-> m, conn |-> c, retry |-> r]
  PROVE  [s EXCEPT !.conn = d] = [home |-> h, conns |-> m, conn |-> d, retry |-> r]
  OBVIOUS

(* The same within the record the links are kept in. *)
LEMMA LinkClosed ==
  ASSUME NEW s \in LinksRec, NEW i \in 1..Len(s.conn), NEW v,
         v = [[s EXCEPT !.conn[i].open = FALSE] EXCEPT !.conn[i].gone = TRUE]
  PROVE  v = [home |-> s.home, conns |-> s.conns, retry |-> s.retry,
              conn |-> [s.conn EXCEPT ![i] = [s.conn[i] EXCEPT !.open = FALSE, !.gone = TRUE]]]
<1> DEFINE h == s.home
           m == s.conns
           c == s.conn
           r == s.retry
<1>9. c \in Seq(ConnRec) /\ s = [home |-> h, conns |-> m, conn |-> c, retry |-> r]
  BY DEF LinksRec
<1> HIDE DEF h, m, r
<1> DEFINE b == [c EXCEPT ![i] = [c[i] EXCEPT !.open = FALSE]]
           d == [c EXCEPT ![i] = [c[i] EXCEPT !.open = FALSE, !.gone = TRUE]]
           u == [s EXCEPT !.conn[i].open = FALSE]
<1>1. s.conn = c
  OBVIOUS
<1>2. u = [s EXCEPT !.conn = b]
  BY <1>1, SMTT(30)
<1>3. [b EXCEPT ![i] = [b[i] EXCEPT !.gone = TRUE]] = d
  BY <1>9, ConnClosed
<1> HIDE DEF b, d
<1>4. u = [home |-> h, conns |-> m, conn |-> b, retry |-> r]
  BY <1>2, <1>9, LinkRecord
<1> HIDE DEF u
<1>5. u.conn = b
  BY <1>4
<1> DEFINE f == [b EXCEPT ![i] = [b[i] EXCEPT !.gone = TRUE]]
<1>6. [u EXCEPT !.conn[i].gone = TRUE] = [u EXCEPT !.conn = f]
  BY <1>5
<1>7. [u EXCEPT !.conn = d] = [home |-> h, conns |-> m, conn |-> d, retry |-> r]
  BY <1>4, LinkRecord
<1>8. [u EXCEPT !.conn[i].gone = TRUE] = [home |-> h, conns |-> m, conn |-> d, retry |-> r]
  BY <1>3, <1>6, <1>7
<1> QED BY <1>8 DEF u, d, h, m, r

(* What Gone makes of the links: its link is off the map, and a redial due *)
(* if it was the home relay's.                                             *)
LinkGoes(s, i, wait, t) ==
    /\ t \in LinksRec /\ LinksOK(t.conns, t.conn, {})
    /\ t.home = s.home /\ Len(t.conn) = Len(s.conn)
    /\ t.retry = IF ~s.conn[i].gone /\ s.home.origin = s.conn[i].origin THEN now + wait ELSE s.retry
    /\ \A o \in Origins : t.conns[o] = IF ~s.conn[i].gone /\ o = s.conn[i].origin THEN 0 ELSE s.conns[o]
    /\ \A j \in 1..Len(s.conn) : t.conn[j].key = s.conn[j].key

(* onLinkClosed and onGone do so. *)
LEMMA GoneStep ==
  ASSUME NEW s \in LinksRec, NEW i \in 1..Len(s.conn), LinksOK(s.conns, s.conn, {i}),
         NEW wait \in Nat, now \in Nat, NEW t, t = Gone(s, i, wait)
  PROVE  LinkGoes(s, i, wait, t)
<1>1. /\ s.home \in Addresses \union {NoHome} /\ s.conns \in [Origins -> Nat]
      /\ s.conn \in Seq(ConnRec) /\ s.retry \in Nat
      /\ s = [home |-> s.home, conns |-> s.conns, conn |-> s.conn, retry |-> s.retry]
  BY DEF LinksRec
<1>2. /\ s.conn[i] \in ConnRec /\ s.conn[i].origin \in Origins
      /\ s.conn[i].open \in BOOLEAN /\ s.conn[i].gone \in BOOLEAN
  BY <1>1, ConnTyped
<1> DEFINE o == s.conn[i].origin
<1>3. CASE s.conn[i].gone
  <2> DEFINE e == [s.conn[i] EXCEPT !.open = FALSE]
             d == [s.conn EXCEPT ![i] = e]
  <2>1. e \in ConnRec /\ e.origin = o /\ e.key = s.conn[i].key /\ ~e.open /\ (e.gone <=> s.conn[i].gone) /\ e.stage = s.conn[i].stage
    BY <1>2 DEF ConnRec
  <2>2. t = [home |-> s.home, conns |-> s.conns, conn |-> d, retry |-> s.retry]
    BY <1>1, <1>3 DEF Gone
  <2> HIDE DEF e
  <2>3. d \in Seq(ConnRec) /\ Len(d) = Len(s.conn) /\ d[i] = e /\ \A j \in 1..Len(s.conn) : j # i => d[j] = s.conn[j]
    BY <1>1, <2>1, ConnChanged
  <2> HIDE DEF d
  <2>4. LinksOK(s.conns, d, {})
    BY <1>3, <2>1, <2>3, SMTT(30) DEF LinksOK
  <2>5. t \in LinksRec
    BY <1>1, <2>2, <2>3 DEF LinksRec
  <2> QED BY <1>3, <2>1, <2>2, <2>3, <2>4, <2>5, SMTT(30) DEF LinkGoes
<1>4. CASE ~s.conn[i].gone
  <2> DEFINE e == [s.conn[i] EXCEPT !.open = FALSE, !.gone = TRUE]
             d == [s.conn EXCEPT ![i] = e]
             n == [s.conns EXCEPT ![o] = 0]
             r == IF s.home.origin = o THEN now + wait ELSE s.retry
  <2>1. e \in ConnRec /\ e.origin = o /\ e.key = s.conn[i].key /\ ~e.open /\ e.gone
    BY <1>2 DEF ConnRec
  <2>2. s.conns[o] = i
    BY <1>4 DEF LinksOK
  <2> HIDE DEF e
  <2>4. d \in Seq(ConnRec) /\ Len(d) = Len(s.conn) /\ d[i] = e /\ \A j \in 1..Len(s.conn) : j # i => d[j] = s.conn[j]
    BY <1>1, <2>1, ConnChanged
  <2> HIDE DEF d
  <2>3. t = [home |-> s.home, conns |-> n, conn |-> d, retry |-> r]
    <3> DEFINE u == [s EXCEPT !.conn[i].open = FALSE]
               v == [u EXCEPT !.conn[i].gone = TRUE]
    <3>6. v = [home |-> s.home, conns |-> s.conns, retry |-> s.retry,
               conn |-> [s.conn EXCEPT ![i] = [s.conn[i] EXCEPT !.open = FALSE, !.gone = TRUE]]]
      BY LinkClosed
    <3>1. v = [home |-> s.home, conns |-> s.conns, conn |-> d, retry |-> s.retry]
      BY <3>6, Zenon DEF d, e
    <3>2. t = OnGone(v, i, wait)
      BY <1>4 DEF Gone
    <3> HIDE DEF v
    <3>3. v.conn[i] = e
      BY <2>4, <3>1
    <3>4. v.conn[i].origin = o /\ v.conns[o] = i
      BY <2>1, <2>2, <3>1, <3>3
    <3>5. t = [v EXCEPT !.conns[o] = 0, !.retry = IF v.home.origin = o THEN now + wait ELSE @]
      BY <3>2, <3>4 DEF OnGone
    <3> QED BY <3>1, <3>5
  <2>5. LinksOK(n, d, {})
    BY <1>1, <1>4, <2>1, <2>4, LinkRemoved
  <2>6. n \in [Origins -> Nat] /\ r \in Nat /\ \A q \in Origins : n[q] = IF q = o THEN 0 ELSE s.conns[q]
    BY <1>1, <1>2
  <2> HIDE DEF n
  <2>7. t \in LinksRec
    BY <1>1, <2>3, <2>4, <2>6 DEF LinksRec
  <2> QED BY <1>4, <2>1, <2>3, <2>4, <2>5, <2>6, <2>7, SMTT(30) DEF LinkGoes
<1> QED BY <1>2, <1>3, <1>4

(* drop: the link of an origin is off the map, and no redial is due for    *)
(* it.                                                                     *)
LEMMA DropStep ==
  ASSUME NEW s \in LinksRec, LinksOK(s.conns, s.conn, {}), now \in Nat,
         NEW o \in Origins, s.conns[o] # 0, NEW t, t = Drop(s, s.conns[o])
  PROVE  /\ t \in LinksRec /\ LinksOK(t.conns, t.conn, {})
         /\ t.home = s.home /\ t.retry = s.retry /\ Len(t.conn) = Len(s.conn)
         /\ \A q \in Origins : t.conns[q] = IF q = o THEN 0 ELSE s.conns[q]
         /\ \A j \in 1..Len(s.conn) : t.conn[j].key = s.conn[j].key
<1> DEFINE i == s.conns[o]
           e == [s.conn[i] EXCEPT !.open = FALSE, !.gone = TRUE]
           d == [s.conn EXCEPT ![i] = e]
           n == [s.conns EXCEPT ![o] = 0]
<1>1. /\ s.home \in Addresses \union {NoHome} /\ s.conns \in [Origins -> Nat]
      /\ s.conn \in Seq(ConnRec) /\ s.retry \in Nat
      /\ s = [home |-> s.home, conns |-> s.conns, conn |-> s.conn, retry |-> s.retry]
  BY DEF LinksRec
<1>2. i \in 1..Len(s.conn) /\ s.conn[i].origin = o /\ ~s.conn[i].gone
  BY <1>1 DEF LinksOK
<1>3. s.conn[i] \in ConnRec
  BY <1>1, <1>2, ConnTyped
<1>4. e \in ConnRec /\ e.origin = o /\ e.key = s.conn[i].key /\ ~e.open /\ e.gone
  BY <1>2, <1>3 DEF ConnRec
<1> HIDE DEF e
<1>6. d \in Seq(ConnRec) /\ Len(d) = Len(s.conn) /\ d[i] = e /\ \A j \in 1..Len(s.conn) : j # i => d[j] = s.conn[j]
  BY <1>1, <1>2, <1>4, ConnChanged
<1> HIDE DEF d
<1>5. t = [home |-> s.home, conns |-> n, conn |-> d, retry |-> s.retry]
  <2> DEFINE u == [s EXCEPT !.conns[s.conn[i].origin] = 0]
             v == [[u EXCEPT !.conn[i].open = FALSE] EXCEPT !.conn[i].gone = TRUE]
  <2>1. u = [home |-> s.home, conns |-> n, conn |-> s.conn, retry |-> s.retry]
    BY <1>1, <1>2, SMTT(30)
  <2>2. v = [home |-> s.home, conns |-> n, conn |-> d, retry |-> s.retry]
    <3>1. u \in LinksRec /\ u.home = s.home /\ u.conns = n /\ u.conn = s.conn /\ u.retry = s.retry
      BY <1>1, <2>1 DEF LinksRec
    <3> HIDE DEF u
    <3>2. v = [home |-> u.home, conns |-> u.conns, retry |-> u.retry,
               conn |-> [u.conn EXCEPT ![i] = [u.conn[i] EXCEPT !.open = FALSE, !.gone = TRUE]]]
      <4> HIDE DEF i
      <4> QED BY <1>2, <3>1, LinkClosed, ZenonT(40)
    <3> QED BY <3>1, <3>2, Zenon DEF d, e
  <2>3. ~u.conn[i].gone
    BY <1>2, <2>1
  <2>4. t = OnGone(v, i, 0)
    BY <2>3 DEF Drop, Gone
  <2> HIDE DEF u, v
  <2>5. v.conn[i] = e
    BY <1>6, <2>2
  <2>6. v.conns[v.conn[i].origin] = 0
    BY <1>1, <1>4, <2>2, <2>5
  <2>7. t = v
    BY <1>2, <2>4, <2>6 DEF OnGone
  <2> QED BY <2>2, <2>7
<1>7. LinksOK(s.conns, s.conn, {i})
  BY DEF LinksOK
<1>8. LinksOK(n, d, {})
  <2>1. LinksOK([s.conns EXCEPT ![s.conn[i].origin] = 0], d, {})
    BY <1>1, <1>2, <1>4, <1>6, <1>7, LinkRemoved, ZenonT(40)
  <2> QED BY <1>2, <2>1
<1>9. n \in [Origins -> Nat] /\ \A q \in Origins : n[q] = IF q = o THEN 0 ELSE s.conns[q]
  BY <1>1
<1> HIDE DEF n
<1>10. t \in LinksRec
  BY <1>1, <1>5, <1>6, <1>9 DEF LinksRec
<1> QED BY <1>4, <1>5, <1>6, <1>8, <1>9, <1>10

(* What Conn makes of them: the address has a link, the home relay one to  *)
(* its key, and no call takes another's.                                   *)
HasLink(s, a, isHome, t) ==
    /\ t \in LinksRec /\ LinksOK(t.conns, t.conn, {})
    /\ t.home = s.home /\ t.retry = s.retry /\ Len(s.conn) <= Len(t.conn)
    /\ t.conns[a.origin] # 0
    /\ isHome => t.conn[t.conns[a.origin]].key = a.key
    /\ \A o \in Origins : o # a.origin \/ (~isHome /\ s.conns[o] # 0) => t.conns[o] = s.conns[o]
    /\ \A j \in 1..Len(s.conn) : t.conn[j].key = s.conn[j].key

(* conn does so. *)
LEMMA ConnStep ==
  ASSUME NEW s \in LinksRec, LinksOK(s.conns, s.conn, {}), now \in Nat,
         NEW a \in Addresses, NEW isHome \in BOOLEAN, NEW t, t = Conn(s, a, isHome)
  PROVE  HasLink(s, a, isHome, t)
<1> DEFINE i == s.conns[a.origin]
           u == IF i # 0 /\ s.conn[i].key # a.key /\ isHome THEN Drop(s, i) ELSE s
<1>1. /\ s.conns \in [Origins -> Nat] /\ s.conn \in Seq(ConnRec) /\ Len(s.conn) \in Nat
      /\ a.origin \in Origins /\ a.key \in Keys
  BY LenProperties, SMTT(30) DEF LinksRec, Addresses
<1>2. /\ u \in LinksRec /\ LinksOK(u.conns, u.conn, {}) /\ u.home = s.home /\ u.retry = s.retry
      /\ Len(u.conn) = Len(s.conn)
      /\ \A o \in Origins : o # a.origin \/ (~isHome /\ s.conns[o] # 0) => u.conns[o] = s.conns[o]
      /\ \A j \in 1..Len(s.conn) : u.conn[j].key = s.conn[j].key
      /\ (isHome /\ u.conns[a.origin] # 0) => (u.conns[a.origin] = i /\ s.conn[i].key = a.key)
  <2>1. CASE i # 0 /\ s.conn[i].key # a.key /\ isHome
    <3>1. u = Drop(s, i)
      BY <2>1
    <3> HIDE DEF u
    <3> QED BY <1>1, <2>1, <3>1, DropStep, SMTT(30)
  <2>2. CASE ~(i # 0 /\ s.conn[i].key # a.key /\ isHome)
    <3>1. u = s
      BY <2>2
    <3> HIDE DEF u
    <3> QED BY <1>1, <2>2, <3>1
  <2> QED BY <2>1, <2>2, SMTT(30)
<1>3. t = IF u.conns[a.origin] # 0 THEN u
          ELSE [u EXCEPT !.conn = Append(@, NewConn(a.origin, a.key)), !.conns[a.origin] = Len(u.conn) + 1]
  BY DEF Conn
<1>4. /\ u.conns \in [Origins -> Nat] /\ u.conn \in Seq(ConnRec)
      /\ u = [home |-> u.home, conns |-> u.conns, conn |-> u.conn, retry |-> u.retry]
      /\ u.home \in Addresses \union {NoHome} /\ u.retry \in Nat
  <2> HIDE DEF u
  <2> QED BY <1>2 DEF LinksRec
<1> HIDE DEF u
<1>5. CASE u.conns[a.origin] # 0
  <2>1. t = u
    BY <1>3, <1>5
  <2>2. i \in 1..Len(s.conn) \/ ~isHome
    BY <1>1, <1>2, <1>5 DEF LinksOK
  <2>3. isHome => u.conn[u.conns[a.origin]].key = a.key
    BY <1>2, <1>5, <2>2
  <2> QED BY <1>1, <1>2, <1>5, <2>1, <2>3 DEF HasLink
<1>6. CASE u.conns[a.origin] = 0
  <2> DEFINE c == Append(u.conn, NewConn(a.origin, a.key))
             n == [u.conns EXCEPT ![a.origin] = Len(u.conn) + 1]
  <2>1. t = [home |-> u.home, conns |-> n, conn |-> c, retry |-> u.retry]
    <3>1. t = [u EXCEPT !.conn = c, !.conns = n]
      BY <1>3, <1>6
    <3> HIDE DEF c, n
    <3> QED BY <1>4, <3>1
  <2>2. c \in Seq(ConnRec) /\ c[Len(u.conn) + 1] = NewConn(a.origin, a.key) /\ LinksOK(n, c, {})
    BY <1>1, <1>2, <1>4, <1>6, LinkAdded, ZenonT(40)
  <2>3. Len(c) = Len(u.conn) + 1 /\ \A j \in 1..Len(u.conn) : c[j] = u.conn[j]
    <3>1. NewConn(a.origin, a.key) \in ConnRec
      BY <1>1 DEF NewConn, ConnRec, Stages
    <3> QED BY <1>4, <3>1, AppendProperties
  <2>4. n \in [Origins -> Nat] /\ n[a.origin] = Len(u.conn) + 1 /\ \A o \in Origins : o # a.origin => n[o] = u.conns[o]
    BY <1>1, <1>2, <1>4
  <2>5. c[n[a.origin]].key = a.key
    BY <2>2, <2>4 DEF NewConn
  <2> HIDE DEF c, n
  <2>6. t \in LinksRec
    BY <1>4, <2>1, <2>2, <2>4 DEF LinksRec
  <2> QED BY <1>1, <1>2, <1>4, <1>6, <2>1, <2>2, <2>3, <2>4, <2>5, <2>6 DEF HasLink
<1> QED BY <1>5, <1>6

(* The home relay has a link to its key or a redial, and no home none. *)
HomeOK(s) ==
    /\ s.home # NoHome => \/ s.retry < Never
                          \/ s.conns[s.home.origin] # 0 /\ s.conn[s.conns[s.home.origin]].key = s.home.key
    /\ s.home = NoHome => s.retry >= Never
RelayOK(s) == s \in LinksRec /\ LinksOK(s.conns, s.conn, {}) /\ HomeOK(s)
CallsOK == calls \in Seq([conn : 1..Len(conn), stage : {"waits", "failed", "called"}])
RelayInv == RelayOK(Links0) /\ CallsOK /\ now \in 0..Horizon /\ due \in [Holders -> Nat]

(* An address is never the lack of a home. *)
LEMMA HomeApart == \A a \in Addresses : a # NoHome /\ a.origin \in Origins /\ a.key \in Keys /\ a.origin # NoHome.origin
  BY RelaysAssumption DEF Addresses, NoHome

(* A wait begun before the clock stops ends before Never. *)
LEMMA NeverAssumption == Never \in Nat /\ \A n \in 0..Horizon, wait \in Backoffs : n + wait \in Nat /\ n + wait < Never /\ n < Never
  BY WakesAssumption DEF Never, Backoffs

(* Calls under way name links made, however many more are. *)
LEMMA CallsGrow ==
  ASSUME NEW m \in Nat, NEW n \in Nat, m <= n, NEW c \in Seq([conn : 1..m, stage : {"waits", "failed", "called"}])
  PROVE  c \in Seq([conn : 1..n, stage : {"waits", "failed", "called"}])
<1> DEFINE S == [conn : 1..m, stage : {"waits", "failed", "called"}]
           T == [conn : 1..n, stage : {"waits", "failed", "called"}]
<1>1. S \subseteq T
  OBVIOUS
<1>2. Len(c) \in Nat /\ c \in [1..Len(c) -> S]
  BY LenProperties
<1> HIDE DEF S, T
<1>3. c \in [1..Len(c) -> T]
  BY <1>1, <1>2
<1>4. c \in Seq(T)
  BY <1>2, <1>3, SeqDef, SMTT(30)
<1> QED BY <1>4 DEF T

(* A turn that leaves the links in order. *)
LEMMA TurnOK ==
  ASSUME RelayInv, NEW s, RelayOK(s), CallsOK',
         home' = s.home, conns' = s.conns, conn' = s.conn, due' \in [Holders -> Nat], due'["retry"] = s.retry,
         now' \in 0..Horizon
  PROVE  RelayInv'
<1>1. s = [home |-> s.home, conns |-> s.conns, conn |-> s.conn, retry |-> s.retry]
  BY DEF RelayOK, LinksRec
<1>2. Links0' = s
  BY <1>1 DEF Links0
<1>3. RelayOK(Links0)'
  BY <1>2 DEF RelayOK, HomeOK, LinksOK, LinksRec, Never
<1> QED BY <1>3 DEF RelayInv

(* The same of a turn that begins no call. *)
LEMMA TurnStep ==
  ASSUME RelayInv, NEW s, RelayOK(s), Len(conn) <= Len(s.conn),
         home' = s.home, conns' = s.conns, conn' = s.conn, due' \in [Holders -> Nat], due'["retry"] = s.retry,
         now' \in 0..Horizon, calls' = calls
  PROVE  RelayInv'
<1>1. conn \in Seq(ConnRec) /\ s.conn \in Seq(ConnRec)
  BY DEF RelayInv, RelayOK, LinksRec, Links0
<1>2. Len(conn) \in Nat /\ Len(s.conn) \in Nat
  BY <1>1, LenProperties
<1>3. CallsOK'
  BY <1>2, CallsGrow DEF RelayInv, CallsOK
<1> QED BY <1>3, TurnOK

(* The record of the links, and where a wait is kept. *)
LEMMA RelayFacts ==
  ASSUME RelayInv
  PROVE  /\ Links0 \in LinksRec /\ LinksOK(Links0.conns, Links0.conn, {}) /\ HomeOK(Links0) /\ RelayOK(Links0)
         /\ Links0.home = home /\ Links0.conns = conns /\ Links0.conn = conn /\ Links0.retry = due["retry"]
         /\ home \in Addresses \union {NoHome} /\ conns \in [Origins -> Nat] /\ conn \in Seq(ConnRec)
         /\ now \in Nat /\ now \in 0..Horizon /\ due["retry"] \in Nat /\ Len(conn) \in Nat
<1>1. Links0 \in LinksRec /\ LinksOK(Links0.conns, Links0.conn, {}) /\ HomeOK(Links0) /\ RelayOK(Links0)
  BY DEF RelayInv, RelayOK
<1>2. Links0.home = home /\ Links0.conns = conns /\ Links0.conn = conn /\ Links0.retry = due["retry"]
  BY DEF Links0
<1>3. home \in Addresses \union {NoHome} /\ conns \in [Origins -> Nat] /\ conn \in Seq(ConnRec)
  BY <1>1, <1>2 DEF LinksRec
<1>4. now \in Nat /\ now \in 0..Horizon /\ due["retry"] \in Nat
  BY RelaysAssumption DEF RelayInv
<1> QED BY <1>1, <1>2, <1>3, <1>4, LenProperties

(* Turns, as a turn that leaves the links in order. *)
LEMMA TurnsStep ==
  ASSUME RelayInv, NEW s, NEW a, Turns(s, a), RelayOK(s), Len(conn) <= Len(s.conn), now' = now, calls' = calls
  PROVE  RelayInv'
<1>1. due' \in [Holders -> Nat] /\ due'["retry"] = s.retry
  BY RelaysAssumption DEF Turns, RelayInv, RelayOK, LinksRec
<1>2. home' = s.home /\ conns' = s.conns /\ conn' = s.conn
  BY DEF Turns
<1>3. now' \in 0..Horizon
  BY DEF RelayInv
<1> QED BY <1>1, <1>2, <1>3, TurnStep

(* A home joined, or dialed again. *)
LEMMA DialHomeStep ==
  ASSUME NEW s \in LinksRec, LinksOK(s.conns, s.conn, {}), now \in Nat, s.home \in Addresses, NEW t, t = DialHome(s)
  PROVE  RelayOK(t) /\ t.home = s.home /\ t.retry = s.retry /\ Len(s.conn) <= Len(t.conn)
<1>1. HasLink(s, s.home, TRUE, t)
  <2>1. t = Conn(s, s.home, TRUE)
    BY DEF DialHome
  <2> QED BY <2>1, ConnStep
<1>2. /\ t \in LinksRec /\ LinksOK(t.conns, t.conn, {})
      /\ t.home = s.home /\ t.retry = s.retry /\ Len(s.conn) <= Len(t.conn)
      /\ t.conns[s.home.origin] # 0 /\ t.conn[t.conns[s.home.origin]].key = s.home.key
  BY <1>1 DEF HasLink
<1>3. s.home # NoHome
  BY HomeApart
<1>4. HomeOK(t)
  BY <1>2, <1>3 DEF HomeOK
<1> QED BY <1>2, <1>4 DEF RelayOK

(* A link that goes leaves the home relay a redial. *)
LeavesHome(s, wait, t) == RelayOK(t) /\ Len(t.conn) = Len(s.conn) /\ t.retry \in {s.retry, now + wait}

(* A link that goes leaves the home relay a link or a redial due within    *)
(* the wait.                                                               *)
LEMMA GoneKeeps ==
  ASSUME RelayInv, NEW s \in LinksRec, NEW i \in 1..Len(s.conn), LinksOK(s.conns, s.conn, {i}), HomeOK(s),
         NEW wait \in Backoffs, NEW t, t = Gone(s, i, wait)
  PROVE  LeavesHome(s, wait, t)
<1>1. now \in Nat /\ wait \in Nat /\ now + wait < Never
  <2>1. now \in Nat /\ now \in 0..Horizon /\ wait \in Nat
    BY RelayFacts DEF Backoffs
  <2> QED BY <2>1, NeverAssumption
<1>2. /\ t \in LinksRec /\ LinksOK(t.conns, t.conn, {})
      /\ t.home = s.home /\ Len(t.conn) = Len(s.conn)
      /\ t.retry = IF ~s.conn[i].gone /\ s.home.origin = s.conn[i].origin THEN now + wait ELSE s.retry
      /\ \A o \in Origins : t.conns[o] = IF ~s.conn[i].gone /\ o = s.conn[i].origin THEN 0 ELSE s.conns[o]
      /\ \A j \in 1..Len(s.conn) : t.conn[j].key = s.conn[j].key
  <2>1. LinkGoes(s, i, wait, t)
    BY <1>1, GoneStep
  <2> QED BY <2>1 DEF LinkGoes
<1>3. s.home \in Addresses \union {NoHome} /\ s.conn \in Seq(ConnRec) /\ s.conns \in [Origins -> Nat]
  BY DEF LinksRec
<1>4. s.conn[i].origin \in Origins
  BY <1>3, ConnTyped
<1>5. HomeOK(t)
  <2>1. CASE s.home = NoHome
    BY <1>2, <1>4, <2>1, RelaysAssumption DEF HomeOK, NoHome
  <2>2. CASE s.home # NoHome
    <3>1. s.home \in Addresses /\ s.home.origin \in Origins
      BY <1>3, <2>2, HomeApart, SMTT(30)
    <3>2. CASE ~s.conn[i].gone /\ s.home.origin = s.conn[i].origin
      BY <1>1, <1>2, <2>2, <3>2 DEF HomeOK
    <3>3. CASE ~(~s.conn[i].gone /\ s.home.origin = s.conn[i].origin)
      <4>1. t.conns[s.home.origin] = s.conns[s.home.origin] /\ t.retry = s.retry
        BY <1>2, <3>1, <3>3
      <4>2. s.conns[s.home.origin] # 0 => s.conns[s.home.origin] \in 1..Len(s.conn)
        BY <3>1 DEF LinksOK
      <4> QED BY <1>2, <2>2, <4>1, <4>2, SMTT(30) DEF HomeOK
    <3> QED BY <3>2, <3>3
  <2> QED BY <2>1, <2>2
<1> QED BY <1>2, <1>5 DEF RelayOK, LeavesHome

(* What a join makes of the links. *)
Joins(a) ==
    LET i == IF home.origin \in Origins /\ home.origin # a.origin THEN conns[home.origin] ELSE 0
        b == IF i # 0 THEN Drop(Links0, i) ELSE Links0
        s == [b EXCEPT !.home = a, !.retry = Never]
    IN IF a = NoHome THEN s ELSE DialHome(s)

(* A join leaves the links in order, and no wait. *)
LEMMA JoinLinks ==
  ASSUME RelayInv, NEW a \in Addresses \union {NoHome}
  PROVE  RelayOK(Joins(a)) /\ Len(conn) <= Len(Joins(a).conn) /\ Joins(a).retry = Never
<1> DEFINE i == IF home.origin \in Origins /\ home.origin # a.origin THEN conns[home.origin] ELSE 0
           b == IF i # 0 THEN Drop(Links0, i) ELSE Links0
           s == [b EXCEPT !.home = a, !.retry = Never]
           t == IF a = NoHome THEN s ELSE DialHome(s)
<1>1. b \in LinksRec /\ LinksOK(b.conns, b.conn, {}) /\ Len(b.conn) = Len(conn)
  <2>1. CASE i # 0
    <3>1. home.origin \in Origins /\ i = Links0.conns[home.origin]
      BY <2>1, RelayFacts
    <3>2. b = Drop(Links0, Links0.conns[home.origin])
      BY <2>1, <3>1
    <3> HIDE DEF b, i
    <3> QED BY <2>1, <3>1, <3>2, RelayFacts, DropStep
  <2>2. CASE i = 0
    BY <2>2, RelayFacts
  <2> QED BY <2>1, <2>2
<1>2. Joins(a) = t
  BY DEF Joins
<1> HIDE DEF b
<1>3. s \in LinksRec /\ s.home = a /\ s.retry = Never /\ s.conn = b.conn /\ s.conns = b.conns
  BY <1>1, NeverAssumption DEF LinksRec
<1> HIDE DEF s
<1>4. RelayOK(t) /\ Len(conn) <= Len(t.conn) /\ t.retry = Never
  <2>1. CASE a = NoHome
    BY <1>1, <1>3, <2>1, RelayFacts, NeverAssumption DEF RelayOK, HomeOK
  <2>2. CASE a # NoHome
    <3>1. t = DialHome(s) /\ s.home \in Addresses
      BY <1>3, <2>2
    <3> HIDE DEF t
    <3> QED BY <1>1, <1>3, <3>1, RelayFacts, DialHomeStep
  <2> QED BY <2>1, <2>2
<1> QED BY <1>2, <1>4

(* A join keeps the links in order. *)
LEMMA JoinStep ==
  ASSUME RelayInv, NEW a \in Addresses \union {NoHome}, NEW no \in BOOLEAN, Join(a, no)
  PROVE  RelayInv'
<1>1. Turns(Joins(a), Event(no)) /\ now' = now /\ calls' = calls
  BY DEF Join, Joins
<1> QED BY <1>1, JoinLinks, TurnsStep

(* So does a wake, with the redial it makes. *)
LEMMA WakeStep ==
  ASSUME RelayInv, NEW no \in BOOLEAN, Wake(no)
  PROVE  RelayInv'
<1> DEFINE b == [Links0 EXCEPT !.retry = Never]
           s == IF "retry" \in Expired THEN DialHome(b) ELSE Links0
           d == [h \in Holders |-> IF h \in Expired THEN Never ELSE due[h]]
<1>1. /\ home' = s.home /\ conns' = s.conns /\ conn' = s.conn /\ due' = d /\ now' = now /\ calls' = calls
  BY DEF Wake
<1>2. d \in [Holders -> Nat] /\ d["retry"] = IF "retry" \in Expired THEN Never ELSE due["retry"]
  BY NeverAssumption, RelaysAssumption DEF RelayInv
<1>3. b \in LinksRec /\ b.home = home /\ b.retry = Never /\ b.conn = conn /\ b.conns = conns
  BY RelayFacts, NeverAssumption DEF LinksRec
<1> HIDE DEF b
<1>4. RelayOK(s) /\ Len(conn) <= Len(s.conn) /\ s.retry = d["retry"]
  <2>1. CASE "retry" \in Expired
    <3>1. due["retry"] < Never
      <4>1. due["retry"] <= now
        BY <2>1 DEF Expired
      <4>2. now \in Nat /\ now < Never /\ due["retry"] \in Nat /\ Never \in Nat
        BY RelayFacts, NeverAssumption DEF Backoffs
      <4> QED BY <4>1, <4>2
    <3>2. home \in Addresses
      BY <3>1, RelayFacts, NeverAssumption DEF HomeOK
    <3>3. s = DialHome(b)
      BY <2>1
    <3>4. LinksOK(b.conns, b.conn, {})
      BY <1>3, RelayFacts
    <3> HIDE DEF s, d
    <3> QED BY <1>2, <1>3, <2>1, <3>2, <3>3, <3>4, RelayFacts, DialHomeStep
  <2>2. CASE "retry" \notin Expired
    BY <1>2, <2>2, RelayFacts
  <2> QED BY <2>1, <2>2
<1> HIDE DEF s, d
<1>5. now' \in 0..Horizon
  BY <1>1, RelayFacts
<1> QED BY <1>1, <1>2, <1>4, <1>5, TurnStep

(* So does another holder's deadline. *)
LEMMA DeadlineStep ==
  ASSUME RelayInv, NEW h \in Holders, NEW wait \in Backoffs, NEW no \in BOOLEAN, Deadline(h, wait, no)
  PROVE  RelayInv'
<1>1. due' \in [Holders -> Nat] /\ due'["retry"] = due["retry"]
  BY RelayFacts, NeverAssumption, RelaysAssumption DEF Deadline, RelayInv
<1>2. home' = home /\ conns' = conns /\ conn' = conn /\ calls' = calls /\ now' = now
  BY DEF Deadline, relayVars
<1> QED BY <1>1, <1>2, RelayFacts, TurnStep

(* So does a call, which never takes the home relay's link for another     *)
(* key.                                                                    *)
LEMMA CallStep ==
  ASSUME RelayInv, NEW a \in Addresses, Call(a)
  PROVE  RelayInv'
<1> DEFINE s == Conn(Links0, a, FALSE)
<1>1. HasLink(Links0, a, FALSE, s)
  BY RelayFacts, ConnStep
<1>2. /\ Turns(s, Arm) /\ now' = now
      /\ calls' = IF s.conn[s.conns[a.origin]].key # a.key THEN calls
                  ELSE Append(calls, [conn |-> s.conns[a.origin], stage |-> "waits"])
  BY DEF Call
<1> HIDE DEF s
<1>3. s \in LinksRec /\ s.home = home /\ s.retry = due["retry"] /\ Len(conn) <= Len(s.conn) /\ LinksOK(s.conns, s.conn, {})
  BY <1>1, RelayFacts DEF HasLink
<1>4. HomeOK(s)
  <2>1. CASE home # NoHome /\ ~due["retry"] < Never
    <3>1. home.origin \in Origins
      BY <2>1, RelayFacts, HomeApart
    <3>2. conns[home.origin] # 0 /\ conn[conns[home.origin]].key = home.key
      BY <2>1, RelayFacts DEF HomeOK
    <3>3. conns[home.origin] \in 1..Len(conn)
      BY <3>1, <3>2, RelayFacts DEF LinksOK
    <3>4. s.conns[home.origin] = conns[home.origin] /\ s.conn[conns[home.origin]].key = home.key
      BY <1>1, <3>1, <3>2, <3>3, RelayFacts DEF HasLink
    <3> QED BY <1>3, <2>1, <3>2, <3>4 DEF HomeOK
  <2>2. CASE home = NoHome
    BY <1>3, <2>2, RelayFacts DEF HomeOK
  <2>3. CASE due["retry"] < Never /\ home # NoHome
    BY <1>3, <2>3 DEF HomeOK
  <2> QED BY <2>1, <2>2, <2>3
<1>5. RelayOK(s)
  BY <1>3, <1>4 DEF RelayOK
<1>6. due' \in [Holders -> Nat] /\ due'["retry"] = s.retry
  BY <1>2, <1>5, RelaysAssumption DEF Turns, RelayInv, RelayOK, LinksRec
<1>7. home' = s.home /\ conns' = s.conns /\ conn' = s.conn
  BY <1>2 DEF Turns
<1>8. CallsOK'
  <2> DEFINE S == [conn : 1..Len(s.conn), stage : {"waits", "failed", "called"}]
             e == [conn |-> s.conns[a.origin], stage |-> "waits"]
  <2>1. Len(s.conn) \in Nat /\ Len(conn) \in Nat
    BY <1>3, RelayFacts, LenProperties DEF LinksRec
  <2>2. calls \in Seq(S)
    BY <1>3, <2>1, CallsGrow DEF RelayInv, CallsOK
  <2>3. s.conns[a.origin] \in 1..Len(s.conn)
    BY <1>1, HomeApart DEF HasLink, LinksOK
  <2>4. e \in S
    BY <2>3
  <2> HIDE DEF S, e
  <2>5. Append(calls, e) \in Seq(S)
    BY <2>2, <2>4, AppendProperties
  <2>6. calls' \in Seq(S)
    BY <1>2, <2>2, <2>5 DEF e
  <2> QED BY <1>7, <2>6 DEF CallsOK, S
<1>9. now' \in 0..Horizon
  BY <1>2, RelayFacts
<1> QED BY <1>5, <1>6, <1>7, <1>8, <1>9, TurnOK

(* So does a call whose link is ready or gone. *)
LEMMA CallGoesStep ==
  ASSUME RelayInv, NEW n \in DOMAIN calls, CallGoes(n)
  PROVE  RelayInv'
<1> DEFINE S == [conn : 1..Len(conn), stage : {"waits", "failed", "called"}]
           g == IF conn[calls[n].conn].gone \/ ~conn[calls[n].conn].open THEN "failed" ELSE "called"
           e == [calls[n] EXCEPT !.stage = g]
<1>1. calls \in Seq(S)
  BY DEF RelayInv, CallsOK
<1>2. n \in 1..Len(calls) /\ calls[n] \in S
  <2>1. DOMAIN calls = 1..Len(calls)
    BY <1>1, LenProperties
  <2> QED BY <1>1, <2>1, ElementOfSeq
<1>3. e \in S
  BY <1>2
<1>4. calls' = [calls EXCEPT ![n] = e]
  BY DEF CallGoes
<1>5. home' = home /\ conns' = conns /\ conn' = conn /\ due' = due /\ now' = now
  BY DEF CallGoes, wakeVars
<1> HIDE DEF e, S
<1>6. calls' \in Seq(S)
  BY <1>1, <1>2, <1>3, <1>4, ExceptSeq
<1>7. CallsOK'
  BY <1>5, <1>6 DEF CallsOK, S
<1>8. due' \in [Holders -> Nat] /\ now' \in 0..Horizon /\ due'["retry"] = due["retry"]
  BY <1>5 DEF RelayInv
<1> QED BY <1>5, <1>7, <1>8, RelayFacts, TurnOK

(* One link further on, its origin, key and going kept. *)
Moves(m, c, X, d) ==
    /\ d \in Seq(ConnRec) /\ Len(d) = Len(c) /\ LinksOK(m, d, X)
    /\ \A j \in 1..Len(c) : d[j].key = c[j].key

(* Such a step keeps the map and the links in order. *)
LEMMA LinkMoved ==
  ASSUME NEW m \in [Origins -> Nat], NEW c \in Seq(ConnRec), NEW i \in 1..Len(c), LinksOK(m, c, {}),
         NEW e \in ConnRec, e.origin = c[i].origin, e.key = c[i].key, e.gone <=> c[i].gone, e.open => ~e.gone,
         NEW X, i \in X \/ e.gone \/ e.open \/ e.stage \in {"opening", "refused"},
         NEW d, d = [c EXCEPT ![i] = e]
  PROVE  Moves(m, c, X, d)
<1>1. d \in Seq(ConnRec) /\ Len(d) = Len(c) /\ d[i] = e /\ \A j \in 1..Len(c) : j # i => d[j] = c[j]
  BY ConnChanged
<1>2. LinksOK(m, d, X)
  BY <1>1 DEF LinksOK
<1> QED BY <1>1, <1>2 DEF Moves

(* Its stage alone, within the record. *)
LEMMA LinkStaged ==
  ASSUME NEW s \in LinksRec, NEW i \in 1..Len(s.conn), NEW g, NEW u, u = [s EXCEPT !.conn[i].stage = g]
  PROVE  u = [home |-> s.home, conns |-> s.conns, retry |-> s.retry,
              conn |-> [s.conn EXCEPT ![i] = [s.conn[i] EXCEPT !.stage = g]]]
<1> DEFINE b == [s.conn EXCEPT ![i] = [s.conn[i] EXCEPT !.stage = g]]
<1>1. u = [s EXCEPT !.conn = b] /\ s = [home |-> s.home, conns |-> s.conns, conn |-> s.conn, retry |-> s.retry]
  BY DEF LinksRec
<1> HIDE DEF b
<1>2. u = [home |-> s.home, conns |-> s.conns, conn |-> b, retry |-> s.retry]
  BY <1>1, LinkRecord
<1> QED BY <1>2 DEF b

(* Its channel opened, within the record. *)
LEMMA LinkOpened ==
  ASSUME NEW s \in LinksRec, NEW i \in 1..Len(s.conn), NEW u, u = [s EXCEPT !.conn[i].open = TRUE]
  PROVE  u = [home |-> s.home, conns |-> s.conns, retry |-> s.retry,
              conn |-> [s.conn EXCEPT ![i] = [s.conn[i] EXCEPT !.open = TRUE]]]
<1> DEFINE b == [s.conn EXCEPT ![i] = [s.conn[i] EXCEPT !.open = TRUE]]
<1>1. u = [s EXCEPT !.conn = b] /\ s = [home |-> s.home, conns |-> s.conns, conn |-> s.conn, retry |-> s.retry]
  BY DEF LinksRec
<1> HIDE DEF b
<1>2. u = [home |-> s.home, conns |-> s.conns, conn |-> b, retry |-> s.retry]
  BY <1>1, LinkRecord
<1> QED BY <1>2 DEF b

(* The home relay's link or redial, through a step of another. *)
LEMMA HomeKept ==
  ASSUME NEW s \in LinksRec, LinksOK(s.conns, s.conn, {}), HomeOK(s),
         NEW t, t.home = s.home, t.retry = s.retry, t.conns = s.conns,
         \A j \in 1..Len(s.conn) : t.conn[j].key = s.conn[j].key
  PROVE  HomeOK(t)
<1>1. s.home \in Addresses \union {NoHome}
  BY DEF LinksRec
<1>2. s.home # NoHome => s.home.origin \in Origins
  BY <1>1, HomeApart
<1>3. (s.home # NoHome /\ s.conns[s.home.origin] # 0) => s.conns[s.home.origin] \in 1..Len(s.conn)
  BY <1>2 DEF LinksOK
<1> QED BY <1>3 DEF HomeOK

(* One link at another stage, and nothing else. *)
Restaged(u, i, g) == u = [Links0 EXCEPT !.conn[i].stage = g]
AtStage(u, i, g, X) ==
    /\ u \in LinksRec /\ LinksOK(u.conns, u.conn, X) /\ HomeOK(u)
    /\ u.home = home /\ u.conns = conns /\ u.retry = due["retry"] /\ Len(u.conn) = Len(conn)
    /\ u.conn = [conn EXCEPT ![i] = [conn[i] EXCEPT !.stage = g]]

(* A link at its next stage keeps the map, and the home relay its link. *)
LEMMA StagedStep ==
  ASSUME RelayInv, NEW i \in ConnIds, NEW g \in Stages, NEW X,
         i \in X \/ conn[i].gone \/ conn[i].open \/ g \in {"opening", "refused"},
         NEW u, Restaged(u, i, g)
  PROVE  AtStage(u, i, g, X)
<1> DEFINE e == [conn[i] EXCEPT !.stage = g]
           d == [conn EXCEPT ![i] = e]
<1>1. i \in 1..Len(conn) /\ conn[i] \in ConnRec
  BY RelayFacts, ConnTyped DEF ConnIds
<1>2. u = [home |-> home, conns |-> conns, conn |-> d, retry |-> due["retry"]]
  <2>1. u = [home |-> Links0.home, conns |-> Links0.conns, retry |-> Links0.retry,
             conn |-> [Links0.conn EXCEPT ![i] = [Links0.conn[i] EXCEPT !.stage = g]]]
    BY <1>1, RelayFacts, LinkStaged, ZenonT(40) DEF Restaged
  <2> QED BY <2>1, RelayFacts, Zenon
<1>3. e \in ConnRec /\ e.origin = conn[i].origin /\ e.key = conn[i].key /\ (e.gone <=> conn[i].gone) /\ (e.open <=> conn[i].open) /\ e.stage = g
  BY <1>1 DEF ConnRec
<1> HIDE DEF e
<1>4. LinksOK(conns, conn, {}) /\ conns \in [Origins -> Nat] /\ conn \in Seq(ConnRec)
  BY RelayFacts
<1>5. e.open => ~e.gone
  BY <1>1, <1>3, <1>4 DEF LinksOK
<1>6. d \in Seq(ConnRec) /\ Len(d) = Len(conn) /\ LinksOK(conns, d, X) /\ \A j \in 1..Len(conn) : d[j].key = conn[j].key
  <2>1. i \in X \/ e.gone \/ e.open \/ e.stage \in {"opening", "refused"}
    BY <1>3
  <2>2. d = [conn EXCEPT ![i] = e]
    OBVIOUS
  <2> HIDE DEF d
  <2>3. Moves(conns, conn, X, d)
    BY <1>1, <1>3, <1>4, <1>5, <2>1, <2>2, LinkMoved
  <2> QED BY <2>3 DEF Moves
<1> HIDE DEF d
<1>7. u \in LinksRec /\ u.home = home /\ u.conns = conns /\ u.retry = due["retry"] /\ u.conn = d
  <2>1. home \in Addresses \union {NoHome} /\ due["retry"] \in Nat
    BY RelayFacts
  <2> QED BY <1>2, <1>4, <1>6, <2>1 DEF LinksRec
<1>8. HomeOK(u)
  <2>1. /\ u.home = Links0.home /\ u.retry = Links0.retry /\ u.conns = Links0.conns
        /\ \A j \in 1..Len(Links0.conn) : u.conn[j].key = Links0.conn[j].key
    BY <1>6, <1>7, RelayFacts
  <2> QED BY <2>1, RelayFacts, HomeKept
<1> QED BY <1>6, <1>7, <1>8 DEF AtStage, d, e

(* A registered link, and one whose open the host refused. *)
LEMMA RestagedStep ==
  ASSUME RelayInv, NEW i \in ConnIds, NEW g \in Stages, conn[i].open \/ g = "refused",
         conn' = [conn EXCEPT ![i].stage = g], UNCHANGED <<home, conns, calls, wakeVars>>
  PROVE  RelayInv'
<1> DEFINE u == [Links0 EXCEPT !.conn[i].stage = g]
<1>1. Restaged(u, i, g)
  BY DEF Restaged
<1> HIDE DEF u
<1>2. AtStage(u, i, g, {})
  BY <1>1, StagedStep
<1>3. RelayOK(u) /\ u.retry = due["retry"] /\ Len(u.conn) = Len(conn)
  BY <1>2 DEF RelayOK, AtStage
<1>4. home' = u.home /\ conns' = u.conns /\ conn' = u.conn
  BY <1>2 DEF AtStage
<1>5. due' = due /\ now' = now /\ calls' = calls
  BY DEF wakeVars
<1>6. due' \in [Holders -> Nat] /\ now' \in 0..Horizon /\ due'["retry"] = u.retry
  BY <1>3, <1>5 DEF RelayInv
<1>7. Len(conn) <= Len(u.conn)
  BY <1>3, RelayFacts
<1> QED BY <1>3, <1>4, <1>5, <1>6, <1>7, TurnStep

(* The host's answer to an open, for a link still wanted or one dropped    *)
(* meanwhile.                                                              *)
LEMMA OpenedStep ==
  ASSUME RelayInv, NEW i \in ConnIds, NEW found \in BOOLEAN, NEW wait \in Backoffs, NEW no \in BOOLEAN,
         Opened(i, found, wait, no)
  PROVE  RelayInv'
<1> DEFINE u == [Links0 EXCEPT !.conn[i].stage = "linked"]
           v == [u EXCEPT !.conn[i].open = TRUE]
           s == IF found /\ Wanted(i) THEN v ELSE Gone(u, i, wait)
<1>1. /\ u \in LinksRec /\ LinksOK(u.conns, u.conn, {i}) /\ HomeOK(u)
      /\ u.home = home /\ u.conns = conns /\ u.retry = due["retry"] /\ Len(u.conn) = Len(conn)
      /\ u.conn = [conn EXCEPT ![i] = [conn[i] EXCEPT !.stage = "linked"]]
  <2>1. Restaged(u, i, "linked")
    BY DEF Restaged
  <2> HIDE DEF u
  <2>2. AtStage(u, i, "linked", {i})
    BY <2>1, StagedStep DEF Stages
  <2> QED BY <2>2 DEF AtStage
<1>2. Turns(s, Waits(s, Arm, no)) /\ now' = now /\ calls' = calls
  BY DEF Opened
<1> HIDE DEF u
<1>3. i \in 1..Len(conn) /\ i \in 1..Len(u.conn) /\ conn[i] \in ConnRec
  BY <1>1, RelayFacts, ConnTyped DEF ConnIds
<1>4. RelayOK(s) /\ Len(conn) <= Len(s.conn)
  <2>1. CASE found /\ Wanted(i)
    <3> DEFINE e == [u.conn[i] EXCEPT !.open = TRUE]
               d == [u.conn EXCEPT ![i] = e]
    <3>1. v = [home |-> u.home, conns |-> u.conns, retry |-> u.retry, conn |-> d]
      BY <1>1, <1>3, LinkOpened
    <3>2. u.conn \in Seq(ConnRec) /\ u.conn[i] \in ConnRec
      BY <1>1, <1>3, ConnTyped DEF LinksRec
    <3>3. u.conn[i] = [conn[i] EXCEPT !.stage = "linked"]
      BY <1>1, <1>3, RelayFacts
    <3>4. ~u.conn[i].gone
      BY <1>3, <2>1, <3>3 DEF Wanted, ConnRec
    <3>5. e \in ConnRec /\ e.origin = u.conn[i].origin /\ e.key = u.conn[i].key /\ ~e.gone /\ e.open
      BY <3>2, <3>4 DEF ConnRec
    <3> HIDE DEF e
    <3>6. d \in Seq(ConnRec) /\ Len(d) = Len(u.conn) /\ d[i] = e /\ \A j \in 1..Len(u.conn) : j # i => d[j] = u.conn[j]
      BY <1>3, <3>2, <3>5, ConnChanged
    <3> HIDE DEF d, v
    <3>7. LinksOK(u.conns, d, {})
      BY <1>1, <1>3, <3>4, <3>5, <3>6 DEF LinksOK
    <3>8. v \in LinksRec /\ v.home = u.home /\ v.retry = u.retry /\ v.conns = u.conns /\ v.conn = d
      BY <1>1, <3>1, <3>6 DEF LinksRec
    <3>9. HomeOK(v)
      <4>1. \A j \in 1..Len(conn) : v.conn[j].key = conn[j].key
        BY <1>1, <1>3, <3>3, <3>5, <3>6, <3>8, RelayFacts, SMTT(30) DEF ConnRec
      <4> QED BY <1>1, <3>8, <4>1, RelayFacts, HomeKept
    <3>10. s = v
      BY <2>1
    <3> HIDE DEF s
    <3> QED BY <1>1, <3>6, <3>7, <3>8, <3>9, <3>10, RelayFacts DEF RelayOK
  <2>2. CASE ~(found /\ Wanted(i))
    <3>1. s = Gone(u, i, wait)
      BY <2>2
    <3> HIDE DEF s
    <3>3. u \in LinksRec /\ LinksOK(u.conns, u.conn, {i}) /\ HomeOK(u) /\ i \in 1..Len(u.conn)
      BY <1>1, <1>3
    <3>2. RelayOK(s) /\ Len(s.conn) = Len(u.conn)
      <4>1. LeavesHome(u, wait, s)
        BY <3>1, <3>3, GoneKeeps
      <4> QED BY <4>1 DEF LeavesHome
    <3> QED BY <1>1, <3>2, RelayFacts
  <2> QED BY <2>1, <2>2
<1> HIDE DEF s
<1> QED BY <1>2, <1>4, TurnsStep

(* A link lost. *)
LEMMA LinkLostStep ==
  ASSUME RelayInv, NEW i \in ConnIds, NEW wait \in Backoffs, NEW no \in BOOLEAN, LinkLost(i, wait, no)
  PROVE  RelayInv'
<1> DEFINE s == Gone(Links0, i, wait)
<1>1. Turns(s, Waits(s, Event(no), no)) /\ now' = now /\ calls' = calls
  BY DEF LinkLost
<1>2. i \in 1..Len(Links0.conn) /\ LinksOK(Links0.conns, Links0.conn, {i})
  BY RelayFacts DEF ConnIds, LinksOK
<1>3. RelayOK(s) /\ Len(s.conn) = Len(conn)
  <2>1. LeavesHome(Links0, wait, s)
    BY <1>2, RelayFacts, GoneKeeps
  <2> QED BY <2>1, RelayFacts DEF LeavesHome
<1> HIDE DEF s
<1>4. Len(conn) <= Len(s.conn)
  BY <1>3, RelayFacts
<1> QED BY <1>1, <1>3, <1>4, TurnsStep

(* Every step of the relays, of the wake and of the host's timer. *)
LEMMA RelaysStep ==
  ASSUME RelayInv, RelayLayer \/ WakeLayer
  PROVE  RelayInv'
<1>1. ASSUME NEW a \in Addresses \union {NoHome}, NEW no \in BOOLEAN, Join(a, no) PROVE RelayInv'
  BY <1>1, JoinStep
<1>2. ASSUME NEW a \in Addresses, Call(a) PROVE RelayInv'
  BY <1>2, CallStep
<1>3. ASSUME NEW n \in DOMAIN calls, CallGoes(n) PROVE RelayInv'
  BY <1>3, CallGoesStep
<1>4. ASSUME NEW i \in ConnIds, NEW wait \in Backoffs, NEW no \in BOOLEAN, NEW found \in BOOLEAN, Opened(i, found, wait, no)
      PROVE  RelayInv'
  BY <1>4, OpenedStep
<1>5. ASSUME NEW i \in ConnIds, NEW wait \in Backoffs, NEW no \in BOOLEAN, LinkLost(i, wait, no) PROVE RelayInv'
  BY <1>5, LinkLostStep
<1>6. ASSUME NEW i \in ConnIds, Registered(i) PROVE RelayInv'
  <2>1. conn[i].open /\ conn' = [conn EXCEPT ![i].stage = "registered"] /\ UNCHANGED <<home, conns, calls, wakeVars>>
    BY <1>6 DEF Registered
  <2> QED BY <1>6, <2>1, RestagedStep DEF Stages
<1>7. ASSUME NEW i \in ConnIds, OpenRefused(i) PROVE RelayInv'
  <2>1. conn' = [conn EXCEPT ![i].stage = "refused"] /\ UNCHANGED <<home, conns, calls, wakeVars>>
    BY <1>7 DEF OpenRefused
  <2> QED BY <1>7, <2>1, RestagedStep DEF Stages
<1>8. ASSUME NEW no \in BOOLEAN, Wake(no) PROVE RelayInv'
  BY <1>8, WakeStep
<1>9. ASSUME NEW h \in Holders, NEW wait \in Backoffs, NEW no \in BOOLEAN, Deadline(h, wait, no) PROVE RelayInv'
  BY <1>9, DeadlineStep
<1>10. ASSUME Tick \/ HostArms \/ TimerFires \/ WakeSettles \/ HostRefuses \/ WakeDropped, UNCHANGED relayVars PROVE RelayInv'
  <2>1. home' = home /\ conns' = conns /\ conn' = conn /\ calls' = calls /\ due' = due
    BY <1>10 DEF relayVars, Tick, HostArms, TimerFires, WakeSettles, HostRefuses, WakeDropped
  <2>2. now' \in 0..Horizon
    BY <1>10, WakesAssumption DEF Tick, HostArms, TimerFires, WakeSettles, HostRefuses, WakeDropped, RelayInv
  <2>3. due' \in [Holders -> Nat] /\ due'["retry"] = due["retry"]
    BY <2>1 DEF RelayInv
  <2> QED BY <2>1, <2>2, <2>3, RelayFacts, TurnStep
<1>11. CASE RelayLayer
  BY <1>1, <1>2, <1>3, <1>4, <1>5, <1>6, <1>7, <1>11 DEF RelayLayer
<1>12. CASE WakeLayer
  BY <1>8, <1>9, <1>10, <1>12 DEF WakeLayer
<1> QED BY <1>11, <1>12

(* No relay and no wait to begin with. *)
LEMMA RelaysStart == RelaysInit /\ WakesInit => RelayInv
<1> SUFFICES ASSUME RelaysInit, WakesInit PROVE RelayInv
  OBVIOUS
<1>1. /\ home = NoHome /\ conns = [o \in Origins |-> 0] /\ conn = << >> /\ calls = << >>
      /\ now = 0 /\ due = [h \in Holders |-> Never]
  BY DEF RelaysInit, WakesInit
<1>2. due["retry"] = Never /\ Never \in Nat /\ now \in 0..Horizon /\ due \in [Holders -> Nat]
  BY <1>1, RelaysAssumption, WakesAssumption DEF Never
<1>3. conn \in Seq(ConnRec) /\ Len(conn) = 0 /\ CallsOK
  BY <1>1 DEF CallsOK
<1>4. LinksOK(conns, conn, {})
  BY <1>1, <1>3 DEF LinksOK
<1>5. Links0 \in LinksRec
  BY <1>1, <1>2, <1>3 DEF Links0, LinksRec
<1>6. HomeOK(Links0)
  BY <1>1, <1>2 DEF HomeOK, Links0
<1>7. RelayOK(Links0)
  BY <1>4, <1>5, <1>6 DEF RelayOK, Links0
<1> QED BY <1>2, <1>3, <1>7 DEF RelayInv

(* The invariant says what is promised of the relays. *)
LEMMA RelaysImply == RelayInv => HomePursued
<1> SUFFICES ASSUME RelayInv PROVE HomePursued
  OBVIOUS
<1>1. LinksOK(conns, conn, {}) /\ HomeOK(Links0)
  BY RelayFacts
<1>2. home # NoHome => \/ due["retry"] < Never
                       \/ conns[home.origin] # 0 /\ conn[conns[home.origin]].key = home.key
  BY <1>1, RelayFacts DEF HomeOK
<1>3. \A o \in Origins : conns[o] # 0 => Coming(conns[o])
  BY <1>1 DEF LinksOK, Coming
<1>4. \A n \in DOMAIN calls : calls[n].conn \in 1..Len(conn)
  <2> TAKE n \in DOMAIN calls
  <2> DEFINE S == [conn : 1..Len(conn), stage : {"waits", "failed", "called"}]
  <2>1. calls \in Seq(S)
    BY DEF RelayInv, CallsOK
  <2>2. calls[n] \in S
    <3> HIDE DEF S
    <3> QED BY <2>1, ElementOfSeq, LenProperties
  <2> QED BY <2>2
<1>5. \A n \in DOMAIN calls : calls[n].stage = "waits" => Coming(calls[n].conn) \/ conn[calls[n].conn].gone
  BY <1>1, <1>4 DEF LinksOK, Coming
<1>6. OneLink
  BY <1>1 DEF OneLink, LinksOK, ConnIds
<1> QED BY <1>2, <1>3, <1>5, <1>6 DEF HomePursued

(* The other layers leave the relays alone. *)
LEMMA RelaysStutter ==
  ASSUME RelayInv, UNCHANGED <<relayVars, wakeVars>>
  PROVE  RelayInv'
<1>1. home' = home /\ conns' = conns /\ conn' = conn /\ calls' = calls /\ due' = due /\ now' = now
  BY DEF relayVars, wakeVars
<1>2. due' \in [Holders -> Nat] /\ now' \in 0..Horizon /\ due'["retry"] = due["retry"]
  BY <1>1 DEF RelayInv
<1> QED BY <1>1, <1>2, RelayFacts, TurnStep

(* However joins, calls, losses, refusals and wakes interleave with the    *)
(* host's answers (relay.js), a home relay has a link to its key or a      *)
(* redial is due, a link waited for is coming or known gone, and an origin *)
(* has one link.                                                           *)
THEOREM HomeHolds == Spec => []HomePursued
<1>1. Init => RelayInv
  BY RelaysStart DEF Init
<1>2. RelayInv /\ [Next]_vars => RelayInv'
  <2> SUFFICES ASSUME RelayInv, [Next]_vars PROVE RelayInv'
    OBVIOUS
  <2>1. CASE RelayLayer \/ WakeLayer
    BY <2>1, RelaysStep
  <2>2. CASE UNCHANGED <<relayVars, wakeVars>>
    BY <2>2, RelaysStutter
  <2> QED BY <2>1, <2>2 DEF Next, vars
<1>3. RelayInv => HomePursued
  BY RelaysImply
<1> QED BY <1>1, <1>2, <1>3, PTL DEF Spec

(* ---- the one wake ---- *)

Times == 0..(Never - 1)
ArmRec == [wakeAt : Times \union {Never}, owedAt : Times \union {Never}, arms : Seq(Times), refused : BOOLEAN]

(* The wake the host has, or was last asked for. *)
At(a) == IF a.arms # << >> THEN a.arms[Len(a.arms)] ELSE live

(* The realm's wake is the host's, unless it has been handed over and the  *)
(* realm has not run it; it is owed one only when it has none, and only    *)
(* once one was refused.                                                   *)
Over == handed \/ lost
ArmOK(a, hd) ==
    /\ a \in ArmRec
    /\ a.owedAt < Never => a.wakeAt = Never
    /\ ~a.refused => a.owedAt = Never
    /\ a.wakeAt < Never => At(a) = a.wakeAt \/ (hd /\ a.arms = << >> /\ live = Never)

(* A wake comes by x, or was refused once. *)
Covered(a, x) == (a.owedAt < Never \/ a.wakeAt < Never) /\ (~a.refused => a.wakeAt <= x)
Covers(b, a) == \A x \in Nat : Covered(a, x) => Covered(b, x)

(* Times are before Never. *)
LEMMA TimesFacts == Never \in Nat /\ (\A x \in Times : x \in Nat /\ x < Never) /\ (\A x \in Nat : x < Never => x \in Times)
  BY NeverAssumption DEF Times

(* The fields of what is kept of the arm. *)
LEMMA ArmTyped ==
  ASSUME NEW a \in ArmRec
  PROVE  /\ a.wakeAt \in Nat /\ a.owedAt \in Nat /\ a.arms \in Seq(Times) /\ a.refused \in BOOLEAN
         /\ a.wakeAt <= Never /\ a.owedAt <= Never
         /\ a = [wakeAt |-> a.wakeAt, owedAt |-> a.owedAt, arms |-> a.arms, refused |-> a.refused]
  BY TimesFacts DEF ArmRec

(* arm: the wake asked for is the host's latest, or is owed. *)
LEMMA ArmStep ==
  ASSUME NEW a \in ArmRec, NEW at \in Times, NEW no \in BOOLEAN, NEW hd \in BOOLEAN, NEW b, b = arm(a, at, no)
  PROVE  ArmOK(b, hd) /\ Covered(b, at) /\ (b.refused <=> (no \/ a.refused))
<1>1. /\ a = [wakeAt |-> a.wakeAt, owedAt |-> a.owedAt, arms |-> a.arms, refused |-> a.refused]
      /\ a.arms \in Seq(Times) /\ a.refused \in BOOLEAN
  BY ArmTyped
<1>2. at \in Nat /\ at < Never /\ Never \in Nat
  BY TimesFacts
<1>3. CASE no
  <2>1. b = [wakeAt |-> Never, owedAt |-> at, arms |-> a.arms, refused |-> TRUE]
    BY <1>1, <1>3 DEF arm, Refused
  <2>2. b \in ArmRec /\ b.wakeAt = Never /\ b.owedAt = at /\ b.refused
    BY <1>1, <2>1 DEF ArmRec
  <2>3. ~(Never < Never)
    BY <1>2
  <2> QED BY <1>2, <1>3, <2>2, <2>3 DEF ArmOK, Covered
<1>4. CASE ~no
  <2> DEFINE c == Append(a.arms, at)
  <2>1. b = [wakeAt |-> at, owedAt |-> Never, arms |-> c, refused |-> a.refused]
    BY <1>1, <1>4 DEF arm
  <2>2. c \in Seq(Times) /\ c # << >> /\ c[Len(c)] = at
    BY <1>1, AppendProperties
  <2> HIDE DEF c
  <2>3. b \in ArmRec
    BY <1>1, <2>1, <2>2 DEF ArmRec
  <2> QED BY <1>2, <1>4, <2>1, <2>2, <2>3 DEF ArmOK, Covered, At
<1> QED BY <1>3, <1>4

(* A wake by one time is a wake by any later one. *)
LEMMA CoveredLater ==
  ASSUME NEW a \in ArmRec, NEW x \in Nat, NEW y \in Nat, x <= y, Covered(a, x)
  PROVE  Covered(a, y)
  BY ArmTyped DEF Covered

(* wakeBy: a wake comes by the time asked for, and no later than before. *)
LEMMA WakeByStep ==
  ASSUME NEW hd \in BOOLEAN, NEW a, ArmOK(a, hd), NEW at \in Times, NEW no \in BOOLEAN, NEW b, b = wakeBy(a, at, no)
  PROVE  ArmOK(b, hd) /\ Covered(b, at) /\ Covers(b, a)
<1>1. a \in ArmRec /\ a.wakeAt \in Nat /\ at \in Nat /\ at < Never /\ Never \in Nat
  BY ArmTyped, TimesFacts DEF ArmOK
<1>2. CASE at >= a.wakeAt
  <2>1. b = a
    BY <1>2 DEF wakeBy
  <2> QED BY <1>1, <1>2, <2>1 DEF Covered, Covers
<1>3. CASE ~(at >= a.wakeAt)
  <2>1. b = arm(a, at, no)
    BY <1>3 DEF wakeBy
  <2>2. ArmOK(b, hd) /\ Covered(b, at) /\ (b.refused <=> (no \/ a.refused))
    BY <1>1, <2>1, ArmStep
  <2>3. b \in ArmRec
    BY <2>2 DEF ArmOK
  <2>4. ASSUME NEW x \in Nat, Covered(a, x) PROVE Covered(b, x)
    <3>1. CASE b.refused
      BY <2>2, <3>1 DEF Covered
    <3>2. CASE ~b.refused
      <4>1. at <= x
        BY <1>1, <1>3, <2>2, <2>4, <3>2 DEF Covered
      <4> QED BY <1>1, <2>2, <2>3, <4>1, CoveredLater
    <3> QED BY <3>1, <3>2
  <2> QED BY <2>2, <2>4 DEF Covers
<1> QED BY <1>2, <1>3

(* The wake, and each deadline that has one. *)
WakeInv ==
    /\ now \in 0..Horizon /\ due \in [Holders -> Nat] /\ live \in Nat /\ handed \in BOOLEAN /\ lost \in BOOLEAN
    /\ \A h \in Holders : due[h] <= Never
    /\ ArmOK(Arm, Over)
    /\ \A h \in Holders : due[h] < Never => Covered(Arm, due[h])

(* handle asks again for the arm that was refused, and loses no wake. *)
LEMMA EventStep ==
  ASSUME WakeInv, NEW no \in BOOLEAN, NEW b, b = Event(no)
  PROVE  ArmOK(b, Over) /\ Covers(b, Arm)
<1>1. ArmOK(Arm, Over) /\ Arm.owedAt = owedAt /\ Over \in BOOLEAN
  BY DEF WakeInv, Arm, Over
<1>2. owedAt \in Nat
  BY <1>1, ArmTyped DEF ArmOK
<1>3. CASE owedAt < Never
  BY <1>1, <1>2, <1>3, TimesFacts, WakeByStep DEF Event
<1>4. CASE ~(owedAt < Never)
  <2>1. b = Arm
    BY <1>4 DEF Event
  <2> QED BY <1>1, <2>1 DEF Covers
<1> QED BY <1>3, <1>4

(* A turn that leaves each deadline its wake. *)
LEMMA WakeBecomes ==
  ASSUME NEW b, NEW hd \in BOOLEAN, ArmOK(b, hd), Becomes(b), live' = live, live \in Nat, hd => Over',
         handed' \in BOOLEAN, lost' \in BOOLEAN, now' \in 0..Horizon, due' \in [Holders -> Nat],
         \A h \in Holders : due'[h] <= Never /\ (due'[h] < Never => Covered(b, due'[h]))
  PROVE  WakeInv'
<1>1. b \in ArmRec
  BY DEF ArmOK
<1>2. Arm' = b
  BY <1>1, ArmTyped DEF Arm, Becomes
<1>3. ArmOK(Arm, Over)'
  <2>1. ArmOK(b, Over)'
    BY DEF ArmOK, At, ArmRec, Times, Never
  <2> QED BY <1>2, <2>1 DEF ArmOK, At, ArmRec, Times, Never
<1>4. ASSUME NEW h \in Holders, (due[h] < Never)' PROVE Covered(Arm, due[h])'
  BY <1>2, <1>4 DEF Covered, Never
<1> QED BY <1>3, <1>4 DEF WakeInv, Never

(* The same of a turn that ends with the wake still to come. *)
LEMMA WakeTurn ==
  ASSUME WakeInv, NEW b, ArmOK(b, Over), Covers(b, Arm), Becomes(b), live' = live, handed' = handed, lost' = lost,
         now' = now, due' \in [Holders -> Nat],
         \A h \in Holders : due'[h] <= Never /\ (due'[h] < Never => due'[h] = due[h] \/ Covered(b, due'[h]))
  PROVE  WakeInv'
<1>1. \A h \in Holders : due'[h] <= Never /\ (due'[h] < Never => Covered(b, due'[h]))
  BY DEF Covers, WakeInv
<1>2. /\ now' \in 0..Horizon /\ live \in Nat /\ handed' \in BOOLEAN /\ lost' \in BOOLEAN
      /\ Over \in BOOLEAN /\ (Over => Over')
  BY DEF WakeInv, Over
<1> QED BY <1>1, <1>2, WakeBecomes

(* What holds of the arm, and when a wait begun now ends. *)
LEMMA ArmFacts ==
  ASSUME WakeInv
  PROVE  /\ ArmOK(Arm, Over) /\ Covers(Arm, Arm) /\ Over \in BOOLEAN
         /\ "retry" \in Holders /\ due["retry"] \in Nat /\ due["retry"] <= Never
         /\ now \in Nat /\ Never \in Nat /\ \A wait \in Backoffs : now + wait \in Times /\ now + wait <= Never
<1>1. ArmOK(Arm, Over) /\ Over \in BOOLEAN /\ Covers(Arm, Arm)
  BY DEF WakeInv, Covers, Over
<1>2. "retry" \in Holders /\ due["retry"] \in Nat /\ due["retry"] <= Never
  BY RelaysAssumption DEF WakeInv
<1>3. now \in 0..Horizon /\ now \in Nat
  BY WakesAssumption DEF WakeInv
<1> QED BY <1>1, <1>2, <1>3, NeverAssumption, TimesFacts

(* A turn that has begun no wait, and one that may have. *)
LEMMA QuietTurn ==
  ASSUME WakeInv, NEW s, s.retry \in {due["retry"], Never}, NEW b, ArmOK(b, Over), Covers(b, Arm), Turns(s, b),
         live' = live, handed' = handed, lost' = lost, now' = now
  PROVE  WakeInv'
<1>1. due' = [due EXCEPT !["retry"] = s.retry] /\ Becomes(b)
  BY DEF Turns
<1>2. due' \in [Holders -> Nat]
  BY <1>1, ArmFacts DEF WakeInv
<1>3. \A h \in Holders : due'[h] <= Never /\ (due'[h] < Never => due'[h] = due[h])
  BY <1>1, ArmFacts DEF WakeInv
<1> QED BY <1>1, <1>2, <1>3, WakeTurn

(* dueIn: the wait it has begun has its wake. *)
LEMMA WaitTurn ==
  ASSUME WakeInv, NEW s, s.retry \in Nat, s.retry <= Never, NEW no \in BOOLEAN,
         NEW a, ArmOK(a, Over), Covers(a, Arm), Turns(s, Waits(s, a, no)),
         live' = live, handed' = handed, lost' = lost, now' = now
  PROVE  WakeInv'
<1> DEFINE b == Waits(s, a, no)
<1>1. due' = [due EXCEPT !["retry"] = s.retry] /\ Becomes(b)
  BY DEF Turns
<1>2. due' \in [Holders -> Nat] /\ due'["retry"] = s.retry /\ \A h \in Holders : h # "retry" => due'[h] = due[h]
  BY <1>1, ArmFacts DEF WakeInv
<1>3. ArmOK(b, Over) /\ Covers(b, Arm) /\ (s.retry < Never => s.retry = due["retry"] \/ Covered(b, s.retry))
  <2>1. CASE s.retry < due["retry"] \/ (s.retry # due["retry"] /\ s.retry < Never)
    <3>1. b = wakeBy(a, s.retry, no)
      BY <2>1 DEF Waits
    <3>2. s.retry \in Times
      BY <2>1, ArmFacts, TimesFacts
    <3> HIDE DEF b
    <3>3. ArmOK(b, Over) /\ Covered(b, s.retry) /\ Covers(b, a)
      BY <3>1, <3>2, ArmFacts, WakeByStep
    <3> QED BY <3>3 DEF Covers
  <2>2. CASE ~(s.retry < due["retry"] \/ (s.retry # due["retry"] /\ s.retry < Never))
    <3>1. b = a
      BY <2>2 DEF Waits
    <3> HIDE DEF b
    <3> QED BY <2>2, <3>1
  <2> QED BY <2>1, <2>2
<1> HIDE DEF b
<1>4. \A h \in Holders : due'[h] <= Never /\ (due'[h] < Never => due'[h] = due[h] \/ Covered(b, due'[h]))
  BY <1>2, <1>3 DEF WakeInv
<1> QED BY <1>1, <1>2, <1>3, <1>4, WakeTurn

(* A join forgets the wait for the home it leaves. *)
LEMMA JoinWakes ==
  ASSUME RelayInv, WakeInv, NEW a \in Addresses \union {NoHome}, NEW no \in BOOLEAN, Join(a, no)
  PROVE  WakeInv'
<1>1. Turns(Joins(a), Event(no)) /\ now' = now /\ live' = live /\ handed' = handed /\ lost' = lost
  BY DEF Join, Joins
<1>2. ArmOK(Event(no), Over) /\ Covers(Event(no), Arm)
  BY EventStep
<1> QED BY <1>1, <1>2, JoinLinks, QuietTurn

(* onWake: the soonest deadline left is armed, so each has its wake. *)
LEMMA WakeWakes ==
  ASSUME WakeInv, NEW no \in BOOLEAN, Wake(no)
  PROVE  WakeInv'
<1> DEFINE d == [h \in Holders |-> IF h \in Expired THEN Never ELSE due[h]]
           e == Event(no)
           c == [e EXCEPT !.wakeAt = Never]
           b == Walked(e, d, no)
           x == Soonest(d)
<1>1. due' = d /\ Becomes(b) /\ handed' = FALSE /\ lost' = FALSE /\ now' = now /\ live' = live
  BY DEF Wake
<1>2. ArmOK(e, Over)
  BY EventStep
<1>3. d \in [Holders -> Nat] /\ \A h \in Holders : d[h] <= Never
  BY ArmFacts DEF WakeInv
<1> HIDE DEF d, e
<1>4. x \in Nat /\ \A h \in Holders : x <= d[h]
  <2> DEFINE S == {d[h] : h \in Holders}
  <2>1. S \in SUBSET Nat /\ S # {}
    BY <1>3, ArmFacts
  <2> HIDE DEF S
  <2>2. Min(S) \in S /\ \A y \in S : Min(S) <= y
    BY <2>1, MinNat
  <2> QED BY <2>1, <2>2 DEF Soonest, S
<1>5. c \in ArmRec /\ c.wakeAt = Never /\ c.owedAt = e.owedAt /\ (c.refused <=> e.refused)
  BY <1>2, ArmFacts DEF ArmOK, ArmRec
<1>6. ArmOK(c, FALSE)
  BY <1>2, <1>5, ArmFacts DEF ArmOK
<1> HIDE DEF x
<1>7. ArmOK(b, FALSE) /\ \A h \in Holders : d[h] < Never => Covered(b, d[h])
  <2>1. CASE x < Never
    <3>1. b = arm(c, x, no)
      BY <2>1 DEF Walked, x
    <3>2. x \in Times
      BY <1>4, <2>1, TimesFacts
    <3> HIDE DEF b, c
    <3>3. ArmOK(b, FALSE) /\ Covered(b, x)
      BY <1>5, <3>1, <3>2, ArmStep
    <3>4. b \in ArmRec
      BY <3>3 DEF ArmOK
    <3> QED BY <1>3, <1>4, <3>3, <3>4, CoveredLater
  <2>2. CASE ~(x < Never)
    <3>1. b = c
      BY <2>2 DEF Walked, x
    <3> HIDE DEF b, c
    <3>2. Never \in Nat
      BY ArmFacts
    <3>3. \A h \in Holders : ~(d[h] < Never)
      BY <1>3, <1>4, <2>2, <3>2
    <3> QED BY <1>6, <3>1, <3>3
  <2> QED BY <2>1, <2>2
<1> HIDE DEF b, c
<1>8. \A h \in Holders : due'[h] <= Never /\ (due'[h] < Never => Covered(b, due'[h]))
  BY <1>1, <1>3, <1>7
<1>9. due' \in [Holders -> Nat] /\ now' \in 0..Horizon /\ live \in Nat /\ handed' \in BOOLEAN /\ lost' \in BOOLEAN
  BY <1>1, <1>3 DEF WakeInv
<1> QED BY <1>1, <1>7, <1>8, <1>9, WakeBecomes

(* A deadline of another holder. *)
LEMMA DeadlineWakes ==
  ASSUME WakeInv, NEW h \in Holders, NEW wait \in Backoffs, NEW no \in BOOLEAN, Deadline(h, wait, no)
  PROVE  WakeInv'
<1> DEFINE e == Event(no)
           b == wakeBy(e, now + wait, no)
<1>1. due' = [due EXCEPT ![h] = now + wait] /\ Becomes(b) /\ now' = now /\ live' = live /\ handed' = handed /\ lost' = lost
  BY DEF Deadline
<1>2. ArmOK(e, Over) /\ Covers(e, Arm)
  BY EventStep
<1> HIDE DEF e
<1>3. now + wait \in Times /\ now + wait \in Nat /\ now + wait <= Never
  BY ArmFacts, TimesFacts
<1>4. ArmOK(b, Over) /\ Covered(b, now + wait) /\ Covers(b, e)
  BY <1>2, <1>3, ArmFacts, WakeByStep
<1> HIDE DEF b
<1>5. Covers(b, Arm)
  BY <1>2, <1>4 DEF Covers
<1>6. due' \in [Holders -> Nat]
  BY <1>1, <1>3 DEF WakeInv
<1>7. \A k \in Holders : due'[k] <= Never /\ (due'[k] < Never => due'[k] = due[k] \/ Covered(b, due'[k]))
  BY <1>1, <1>3, <1>4 DEF WakeInv
<1> QED BY <1>1, <1>4, <1>5, <1>6, <1>7, WakeTurn

(* Of arms on their way the last stays the last. *)
LEMMA TailLast ==
  ASSUME NEW c \in Seq(Times), c # << >>
  PROVE  /\ Tail(c) \in Seq(Times) /\ Head(c) \in Times /\ Len(c) \in Nat
         /\ Tail(c) # << >> => Len(c) # 1 /\ Tail(c)[Len(Tail(c))] = c[Len(c)]
         /\ Tail(c) = << >> => c[Len(c)] = Head(c)
         /\ Len(c) # 1 => Tail(c) # << >>
<1>1. Tail(c) \in Seq(Times) /\ Head(c) \in Times /\ Len(Tail(c)) = Len(c) - 1 /\ \A i \in 1..Len(Tail(c)) : Tail(c)[i] = c[i + 1]
  BY HeadTailProperties
<1>2. Len(c) \in Nat \ {0} /\ (Tail(c) # << >> => Len(Tail(c)) \in Nat \ {0}) /\ (Tail(c) = << >> => Len(Tail(c)) = 0)
  BY <1>1, EmptySeq
<1>3. Head(c) = c[1]
  OBVIOUS
<1>4. Tail(c) # << >> => Len(c) # 1 /\ Tail(c)[Len(Tail(c))] = c[Len(c)]
  BY <1>1, <1>2
<1>5. Tail(c) = << >> => c[Len(c)] = Head(c)
  BY <1>1, <1>2, <1>3
<1>6. Len(c) # 1 => Tail(c) # << >>
  BY <1>1, <1>2
<1> QED BY <1>1, <1>2, <1>4, <1>5, <1>6

(* The host arms, refuses, fires, drops and settles, and time passes. *)
LEMMA HostWakes ==
  ASSUME WakeInv, Tick \/ HostArms \/ TimerFires \/ WakeSettles \/ HostRefuses \/ WakeDropped
  PROVE  WakeInv'
<1>1. /\ Arm \in ArmRec /\ (owedAt < Never => wakeAt = Never) /\ (~refused => owedAt = Never)
      /\ wakeAt < Never => \/ (IF arms # << >> THEN arms[Len(arms)] ELSE live) = wakeAt
                           \/ (handed \/ lost) /\ arms = << >> /\ live = Never
  BY DEF Over, WakeInv, ArmOK, Arm, At
<1>2. arms \in Seq(Times) /\ refused \in BOOLEAN /\ wakeAt \in Times \union {Never} /\ owedAt \in Times \union {Never}
  BY <1>1 DEF ArmRec, Arm
<1>3. Never \in Nat /\ \A x \in Times : x \in Nat /\ x < Never
  BY TimesFacts
<1>4. /\ due \in [Holders -> Nat] /\ now \in 0..Horizon /\ live \in Nat /\ handed \in BOOLEAN /\ lost \in BOOLEAN
      /\ \A h \in Holders : due[h] <= Never
      /\ \A h \in Holders : due[h] < Never => (owedAt < Never \/ wakeAt < Never) /\ (~refused => wakeAt <= due[h])
  BY DEF WakeInv, Covered, Arm
<1>5. CASE Tick \/ WakeSettles
  <2>1. wakeAt' = wakeAt /\ owedAt' = owedAt /\ arms' = arms /\ refused' = refused /\ due' = due /\ live' = live /\ handed' = handed /\ lost' = lost
    BY <1>5 DEF Tick, WakeSettles
  <2>2. now' \in 0..Horizon
    BY <1>4, <1>5, WakesAssumption DEF Tick, WakeSettles
  <2>3. Arm' = Arm
    BY <2>1 DEF Arm
  <2> QED BY <2>1, <2>2, <2>3 DEF WakeInv, ArmOK, Covered, At, ArmRec, Times, Never, Over
<1>6. CASE TimerFires
  <2>1. /\ wakeAt' = wakeAt /\ owedAt' = owedAt /\ arms' = arms /\ refused' = refused /\ due' = due /\ live' = Never
        /\ handed' = TRUE /\ lost' = lost /\ now' = now
    BY <1>6 DEF TimerFires
  <2>2. Arm' = Arm /\ Arm.owedAt = owedAt /\ Arm.wakeAt = wakeAt /\ (Arm.refused <=> refused)
    BY <2>1 DEF Arm
  <2>3. ArmOK(Arm, Over)'
    BY <1>1, <2>1, <2>2 DEF ArmOK, ArmRec, Times, Never, At, Arm, Over
  <2>4. \A h \in Holders : (due[h] < Never => Covered(Arm, due[h]))'
    BY <1>4, <2>1, <2>2 DEF Covered, Never
  <2> QED BY <1>3, <1>4, <2>1, <2>3, <2>4 DEF WakeInv, Never
<1>7. CASE HostArms
  <2>1. /\ wakeAt' = wakeAt /\ owedAt' = owedAt /\ refused' = refused /\ due' = due /\ handed' = handed /\ lost' = lost /\ now' = now
        /\ arms # << >> /\ live' = Head(arms) /\ arms' = Tail(arms)
    BY <1>7 DEF HostArms
  <2> DEFINE c == Tail(arms)
  <2>2. /\ c \in Seq(Times) /\ Head(arms) \in Times
        /\ (IF c # << >> THEN c[Len(c)] ELSE Head(arms)) = arms[Len(arms)]
    BY <1>2, <2>1, TailLast
  <2> HIDE DEF c
  <2>3. Arm' = [wakeAt |-> wakeAt, owedAt |-> owedAt, arms |-> c, refused |-> refused]
    BY <2>1 DEF Arm, c
  <2>4. Arm' \in ArmRec
    BY <1>2, <2>2, <2>3 DEF ArmRec
  <2>5. ArmOK(Arm, Over)'
    BY <1>1, <2>1, <2>2, <2>3, <2>4 DEF ArmOK, ArmRec, At, Times, Never, Over
  <2>6. ASSUME NEW h \in Holders, (due[h] < Never)' PROVE Covered(Arm, due[h])'
    BY <1>4, <2>1, <2>3, <2>6 DEF Covered, Never
  <2>7. live' \in Nat
    BY <1>3, <2>1, <2>2
  <2> QED BY <1>4, <2>1, <2>5, <2>6, <2>7 DEF WakeInv, Never
<1>8. CASE HostRefuses
  <2> DEFINE c == Tail(arms)
             a == [Arm EXCEPT !.arms = Tail(@)]
             b == IF Len(arms) = 1 THEN Refused(a, Head(arms)) ELSE [a EXCEPT !.refused = TRUE]
  <2>1. /\ Becomes(b) /\ due' = due /\ handed' = handed /\ lost' = lost /\ now' = now /\ live' = live /\ arms # << >>
    BY <1>8 DEF HostRefuses
  <2>0. Over \in BOOLEAN /\ (Over => Over') /\ handed' \in BOOLEAN /\ lost' \in BOOLEAN
    BY <1>4, <2>1 DEF Over
  <2>2. /\ c \in Seq(Times) /\ Head(arms) \in Times
        /\ Len(arms) # 1 => c # << >> /\ c[Len(c)] = arms[Len(arms)]
    BY <1>2, <2>1, TailLast
  <2>3. a = [wakeAt |-> wakeAt, owedAt |-> owedAt, arms |-> c, refused |-> refused]
    <3>1. a = [Arm EXCEPT !.arms = c]
      BY DEF Arm
    <3> HIDE DEF c, a
    <3> QED BY <3>1 DEF Arm
  <2> HIDE DEF a, c
  <2>4. CASE Len(arms) = 1
    <3>1. b = [wakeAt |-> Never, owedAt |-> Head(arms), arms |-> c, refused |-> TRUE]
      BY <2>3, <2>4 DEF Refused
    <3> HIDE DEF b
    <3>2. b \in ArmRec
      BY <2>2, <3>1 DEF ArmRec
    <3>3. b.wakeAt = Never /\ b.owedAt = Head(arms) /\ b.refused /\ Head(arms) < Never /\ ~(Never < Never)
      BY <1>3, <2>2, <3>1
    <3>4. ArmOK(b, Over) /\ \A h \in Holders : Covered(b, due[h])
      BY <3>2, <3>3 DEF ArmOK, Covered
    <3> QED BY <1>4, <2>0, <2>1, <3>4, WakeBecomes
  <2>5. CASE Len(arms) # 1
    <3>1. b = [wakeAt |-> wakeAt, owedAt |-> owedAt, arms |-> c, refused |-> TRUE]
      BY <2>3, <2>5
    <3> HIDE DEF b
    <3>2. b \in ArmRec
      BY <1>2, <2>2, <3>1 DEF ArmRec
    <3>3. b.wakeAt = wakeAt /\ b.owedAt = owedAt /\ b.refused /\ b.arms = c
      BY <3>1
    <3>4. ArmOK(b, Over)
      BY <1>1, <2>1, <2>2, <2>5, <3>2, <3>3 DEF ArmOK, At
    <3>5. \A h \in Holders : due[h] < Never => Covered(b, due[h])
      BY <1>4, <3>3 DEF Covered
    <3> QED BY <1>4, <2>0, <2>1, <3>4, <3>5, WakeBecomes
  <2> QED BY <2>4, <2>5
<1>9. CASE WakeDropped
  <2>1. /\ wakeAt' = wakeAt /\ owedAt' = owedAt /\ arms' = arms /\ refused' = refused /\ due' = due /\ live' = live
        /\ handed' = FALSE /\ lost' = (wakeAt < Never /\ arms = << >> /\ live = Never) /\ now' = now
    BY <1>9 DEF WakeDropped
  <2>2. Arm' = Arm /\ Arm.owedAt = owedAt /\ Arm.wakeAt = wakeAt /\ Arm.arms = arms /\ (Arm.refused <=> refused)
    BY <2>1 DEF Arm
  <2>3. ArmOK(Arm, Over)'
    BY <1>1, <2>1, <2>2 DEF ArmOK, ArmRec, Times, Never, At, Over
  <2>4. \A h \in Holders : (due[h] < Never => Covered(Arm, due[h]))'
    BY <1>4, <2>1, <2>2 DEF Covered, Never
  <2> QED BY <1>3, <1>4, <2>1, <2>3, <2>4 DEF WakeInv, Never
<1> QED BY <1>5, <1>6, <1>7, <1>8, <1>9

(* Every step of the relays, of the wake and of the host's timer keeps     *)
(* each deadline its wake.                                                 *)
LEMMA WakesStep ==
  ASSUME RelayInv, WakeInv, RelayLayer \/ WakeLayer
  PROVE  WakeInv'
<1>1. ASSUME NEW a \in Addresses \union {NoHome}, NEW no \in BOOLEAN, Join(a, no) PROVE WakeInv'
  BY <1>1, JoinWakes
<1>2. ASSUME NEW a \in Addresses, Call(a) PROVE WakeInv'
  <2> DEFINE s == Conn(Links0, a, FALSE)
  <2>1. HasLink(Links0, a, FALSE, s)
    BY RelayFacts, ConnStep
  <2>2. Turns(s, Arm) /\ now' = now /\ live' = live /\ handed' = handed /\ lost' = lost
    BY <1>2 DEF Call
  <2> HIDE DEF s
  <2>3. s.retry = due["retry"]
    BY <2>1, RelayFacts DEF HasLink
  <2> QED BY <2>2, <2>3, ArmFacts, QuietTurn
<1>3. ASSUME NEW i \in ConnIds, NEW wait \in Backoffs, NEW no \in BOOLEAN, NEW found \in BOOLEAN, Opened(i, found, wait, no)
      PROVE  WakeInv'
  <2> DEFINE u == [Links0 EXCEPT !.conn[i].stage = "linked"]
             s == IF found /\ Wanted(i) THEN [u EXCEPT !.conn[i].open = TRUE] ELSE Gone(u, i, wait)
  <2>1. Turns(s, Waits(s, Arm, no)) /\ now' = now /\ live' = live /\ handed' = handed /\ lost' = lost
    BY <1>3 DEF Opened
  <2>2. AtStage(u, i, "linked", {i})
    BY StagedStep DEF Restaged, Stages
  <2> HIDE DEF u
  <2>3. u \in LinksRec /\ LinksOK(u.conns, u.conn, {i}) /\ HomeOK(u) /\ u.retry = due["retry"] /\ i \in 1..Len(u.conn)
    BY <1>3, <2>2 DEF AtStage, ConnIds
  <2>4. s.retry \in {due["retry"], now + wait}
    <3>1. CASE found /\ Wanted(i)
      <4>1. s = [u EXCEPT !.conn[i].open = TRUE]
        BY <3>1
      <4> HIDE DEF s
      <4> QED BY <2>3, <4>1 DEF LinksRec
    <3>2. CASE ~(found /\ Wanted(i))
      <4>1. s = Gone(u, i, wait)
        BY <3>2
      <4> HIDE DEF s
      <4>2. LeavesHome(u, wait, s)
        BY <1>3, <2>3, <4>1, GoneKeeps
      <4> QED BY <2>3, <4>2 DEF LeavesHome
    <3> QED BY <3>1, <3>2
  <2> HIDE DEF s
  <2>5. s.retry \in Nat /\ s.retry <= Never
    BY <1>3, <2>4, ArmFacts, TimesFacts
  <2> QED BY <1>3, <2>1, <2>5, ArmFacts, WaitTurn
<1>4. ASSUME NEW i \in ConnIds, NEW wait \in Backoffs, NEW no \in BOOLEAN, LinkLost(i, wait, no) PROVE WakeInv'
  <2> DEFINE s == Gone(Links0, i, wait)
  <2>1. Turns(s, Waits(s, Event(no), no)) /\ now' = now /\ live' = live /\ handed' = handed /\ lost' = lost
    BY <1>4 DEF LinkLost
  <2>2. i \in 1..Len(Links0.conn) /\ LinksOK(Links0.conns, Links0.conn, {i})
    BY <1>4, RelayFacts DEF ConnIds, LinksOK
  <2>3. LeavesHome(Links0, wait, s)
    BY <1>4, <2>2, RelayFacts, GoneKeeps
  <2> HIDE DEF s
  <2>4. s.retry \in Nat /\ s.retry <= Never
    BY <1>4, <2>3, RelayFacts, ArmFacts, TimesFacts DEF LeavesHome
  <2>5. ArmOK(Event(no), Over) /\ Covers(Event(no), Arm)
    BY <1>4, EventStep
  <2> QED BY <1>4, <2>1, <2>4, <2>5, WaitTurn
<1>5. ASSUME UNCHANGED wakeVars PROVE WakeInv'
  BY <1>5 DEF wakeVars, WakeInv, ArmOK, Covered, At, ArmRec, Times, Never, Arm, Over
<1>6. ASSUME NEW no \in BOOLEAN, Wake(no) PROVE WakeInv'
  BY <1>6, WakeWakes
<1>7. ASSUME NEW h \in Holders, NEW wait \in Backoffs, NEW no \in BOOLEAN, Deadline(h, wait, no) PROVE WakeInv'
  BY <1>7, DeadlineWakes
<1>8. CASE RelayLayer
  <2>1. ASSUME NEW n \in DOMAIN calls, CallGoes(n) PROVE WakeInv'
    BY <1>5, <2>1 DEF CallGoes
  <2>2. ASSUME NEW i \in ConnIds, Registered(i) \/ OpenRefused(i) PROVE WakeInv'
    BY <1>5, <2>2 DEF Registered, OpenRefused
  <2> QED BY <1>1, <1>2, <1>3, <1>4, <1>8, <2>1, <2>2 DEF RelayLayer
<1>9. CASE WakeLayer
  BY <1>6, <1>7, <1>9, HostWakes DEF WakeLayer
<1> QED BY <1>8, <1>9

(* No deadline to begin with. *)
LEMMA WakesStart == WakesInit => WakeInv
<1> SUFFICES ASSUME WakesInit PROVE WakeInv
  OBVIOUS
<1>1. /\ now = 0 /\ due = [h \in Holders |-> Never] /\ live = Never /\ handed = FALSE /\ lost = FALSE
      /\ Arm = [wakeAt |-> Never, owedAt |-> Never, arms |-> << >>, refused |-> FALSE]
  BY DEF WakesInit, Arm
<1>2. Never \in Nat /\ now \in 0..Horizon
  BY <1>1, WakesAssumption DEF Never
<1>3. Arm \in ArmRec
  BY <1>1 DEF ArmRec
<1>4. ArmOK(Arm, Over)
  BY <1>1, <1>2, <1>3 DEF ArmOK, Over
<1>5. due \in [Holders -> Nat] /\ live \in Nat /\ \A h \in Holders : due[h] <= Never /\ ~(due[h] < Never)
  BY <1>1, <1>2
<1> QED BY <1>1, <1>2, <1>4, <1>5 DEF WakeInv

(* The invariant says what is promised of the wake. *)
LEMMA WakesImply == WakeInv => Woken
<1> SUFFICES ASSUME WakeInv, NEW h \in Holders, due[h] < Never, ~handed, ~lost
             PROVE  \/ owedAt < wakeAt
                    \/ LET at == IF arms # << >> THEN Last(arms) ELSE live
                       IN at < Never /\ (~refused => at <= due[h])
  BY DEF Woken, WakeBy
<1>1. ArmOK(Arm, Over) /\ Covered(Arm, due[h])
  BY DEF WakeInv
<1>2. CASE owedAt < Never
  BY <1>1, <1>2 DEF ArmOK, Arm
<1>3. CASE ~(owedAt < Never)
  <2>1. wakeAt < Never /\ (~refused => wakeAt <= due[h])
    BY <1>1, <1>3 DEF Covered, Arm
  <2>2. (IF arms # << >> THEN arms[Len(arms)] ELSE live) = wakeAt
    BY <1>1, <2>1 DEF ArmOK, At, Arm, Over
  <2> QED BY <2>1, <2>2 DEF Last
<1> QED BY <1>2, <1>3

(* However arms, refusals and wakes handed over or dropped cross (core.js  *)
(* wakeBy, arm, onWake with services/timer.ts), no deadline is left        *)
(* without a wake, and none is late unless the host refused an arm; save   *)
(* once the host has dropped the wake of the latest arm.                   *)
THEOREM WokenHolds == Spec => []Woken
<1>1. Init => RelayInv /\ WakeInv
  BY RelaysStart, WakesStart DEF Init
<1>2. RelayInv /\ WakeInv /\ [Next]_vars => RelayInv' /\ WakeInv'
  <2> SUFFICES ASSUME RelayInv, WakeInv, [Next]_vars PROVE RelayInv' /\ WakeInv'
    OBVIOUS
  <2>1. CASE RelayLayer \/ WakeLayer
    BY <2>1, RelaysStep, WakesStep
  <2>2. CASE UNCHANGED <<relayVars, wakeVars>>
    BY <2>2, RelaysStutter DEF relayVars, wakeVars, WakeInv, ArmOK, Covered, At, ArmRec, Times, Never, Arm, Over
  <2> QED BY <2>1, <2>2 DEF Next, vars
<1>3. WakeInv => Woken
  BY WakesImply
<1> QED BY <1>1, <1>2, <1>3, PTL DEF Spec

(* ---- the limiter ---- *)

(* A sequence without its i-th element. *)
LEMMA RemovedIs ==
  ASSUME NEW S, NEW q \in Seq(S), NEW p \in 1..Len(q)
  PROVE  /\ RemoveAt(q, p) \in Seq(S) /\ Len(RemoveAt(q, p)) = Len(q) - 1
         /\ \A k \in 1..(Len(q) - 1) : RemoveAt(q, p)[k] = IF k < p THEN q[k] ELSE q[k + 1]
<1> DEFINE n == Len(q)
           a == SubSeq(q, 1, p - 1)
           b == SubSeq(q, p + 1, n)
           d == a \o b
<1>1. n \in Nat /\ p \in 1..n /\ \A k \in 1..n : q[k] \in S
  OBVIOUS
<1>2. RemoveAt(q, p) = d
  BY DEF RemoveAt
<1>3. a \in Seq(S) /\ Len(a) = p - 1 /\ \A k \in 1..(p - 1) : a[k] = q[k]
  <2>1. p - 1 \in Int /\ 1 \in Int /\ \A k \in 1..(p - 1) : q[k] \in S
    BY <1>1
  <2>2. /\ a \in Seq(S) /\ Len(a) = (IF 1 <= p - 1 THEN p - 1 - 1 + 1 ELSE 0)
        /\ \A k \in 1..(p - 1 - 1 + 1) : a[k] = q[1 + k - 1]
    BY <2>1, SubSeqProperties
  <2> HIDE DEF a
  <2> QED BY <1>1, <2>2
<1>4. b \in Seq(S) /\ Len(b) = n - p /\ \A k \in 1..(n - p) : b[k] = q[p + k]
  <2>1. p + 1 \in Int /\ n \in Int /\ \A k \in (p + 1)..n : q[k] \in S
    BY <1>1
  <2>2. /\ b \in Seq(S) /\ Len(b) = (IF p + 1 <= n THEN n - (p + 1) + 1 ELSE 0)
        /\ \A k \in 1..(n - (p + 1) + 1) : b[k] = q[p + 1 + k - 1]
    BY <2>1, SubSeqProperties
  <2> HIDE DEF b
  <2> QED BY <1>1, <2>2
<1> HIDE DEF a, b, n
<1>5. /\ d \in Seq(S) /\ Len(d) = Len(a) + Len(b)
      /\ \A k \in 1..(Len(a) + Len(b)) : d[k] = IF k <= Len(a) THEN a[k] ELSE b[k - Len(a)]
  BY <1>3, <1>4, ConcatProperties
<1> HIDE DEF d
<1>6. Len(d) = n - 1
  BY <1>1, <1>3, <1>4, <1>5
<1>7. ASSUME NEW k \in 1..(n - 1) PROVE d[k] = IF k < p THEN q[k] ELSE q[k + 1]
  <2>1. k \in 1..(Len(a) + Len(b))
    BY <1>1, <1>3, <1>4
  <2>2. CASE k < p
    <3>1. k <= Len(a) /\ k \in 1..(p - 1)
      BY <1>1, <1>3, <2>2
    <3> QED BY <1>3, <1>5, <2>1, <2>2, <3>1
  <2>3. CASE ~(k < p)
    <3>1. ~(k <= Len(a)) /\ k - Len(a) \in 1..(n - p) /\ p + (k - Len(a)) = k + 1
      BY <1>1, <1>3, <2>3
    <3> QED BY <1>4, <1>5, <2>1, <2>3, <3>1
  <2> QED BY <2>2, <2>3
<1> QED BY <1>2, <1>5, <1>6, <1>7 DEF n

SlotRec == [source : Sources, tier : Tiers, released : BOOLEAN, up : BOOLEAN]

(* A book has each of its slots once. *)
In(q, i) == \E k \in 1..Len(q) : q[k] = i
Once(q) == q \in Seq(Nat) /\ \A j, k \in 1..Len(q) : q[j] = q[k] => j = k

(* A book without one of its slots, and one without a slot it has not. *)
Lacks(q, d, i) == Once(d) /\ Len(q) = Len(d) + 1 /\ \A j : In(d, j) <=> In(q, j) /\ j # i

(* Delete takes one slot out of a book and keeps the rest, once each. *)
LEMMA DeleteOK ==
  ASSUME NEW q, Once(q), NEW i, In(q, i)
  PROVE  Lacks(q, Delete(q, i), i)
<1> DEFINE n == Len(q)
           p == CHOOSE k \in 1..n : q[k] = i
           d == RemoveAt(q, p)
<1>1. q \in Seq(Nat) /\ n \in Nat /\ p \in 1..n /\ q[p] = i /\ \A k \in 1..n : q[k] \in Nat
  BY SMTT(30) DEF Once, In
<1>2. Delete(q, i) = d
  BY DEF Delete, Contains, In
<1> HIDE DEF p
<1>3. d \in Seq(Nat) /\ Len(d) = n - 1
      /\ \A k \in 1..(n - 1) : d[k] = IF k < p THEN q[k] ELSE q[k + 1]
  BY <1>1, RemovedIs
<1> HIDE DEF d, n
<1>4. Once(d)
  <2> SUFFICES ASSUME NEW j \in 1..(n - 1), NEW k \in 1..(n - 1), d[j] = d[k] PROVE j = k
    BY <1>3 DEF Once
  <2> DEFINE f(m) == IF m < p THEN m ELSE m + 1
  <2>1. ASSUME NEW m \in 1..(n - 1) PROVE f(m) \in 1..n /\ d[m] = q[f(m)]
    <3>1. CASE m < p
      BY <1>1, <1>3, <3>1
    <3>2. CASE ~(m < p)
      BY <1>1, <1>3, <3>2
    <3> QED BY <3>1, <3>2
  <2>2. f(j) = f(k)
    BY <2>1 DEF Once, n
  <2> QED BY <1>1, <2>2
<1>5. ASSUME NEW j, In(d, j) PROVE In(q, j) /\ j # i
  <2>1. PICK k \in 1..(n - 1) : d[k] = j
    BY <1>3, <1>5 DEF In
  <2> DEFINE m == IF k < p THEN k ELSE k + 1
  <2>2. m \in 1..n /\ q[m] = j /\ m # p
    BY <1>1, <1>3, <2>1, SMTT(30)
  <2> QED BY <1>1, <2>2 DEF In, Once, n
<1>6. ASSUME NEW j, In(q, j), j # i PROVE In(d, j)
  <2>1. PICK k \in 1..n : q[k] = j
    BY <1>6 DEF In, n
  <2>2. k # p
    BY <1>1, <1>6, <2>1
  <2> DEFINE m == IF k < p THEN k ELSE k - 1
  <2>3. m \in 1..(n - 1) /\ d[m] = j
    BY <1>1, <1>3, <2>1, <2>2, SMTT(30)
  <2> QED BY <1>3, <2>3 DEF In
<1>7. Len(q) = Len(d) + 1
  BY <1>1, <1>3 DEF n
<1> QED BY <1>2, <1>4, <1>5, <1>6, <1>7 DEF Lacks

(* A slot more. *)
Gains(q, d, i) == Once(d) /\ Len(d) = Len(q) + 1 /\ \A j : In(d, j) <=> In(q, j) \/ j = i

(* Appending a slot a book has not keeps it without repeats. *)
LEMMA AppendOK ==
  ASSUME NEW q, Once(q), NEW i \in Nat, ~In(q, i)
  PROVE  Gains(q, Append(q, i), i)
<1> DEFINE n == Len(q)
           d == Append(q, i)
<1>1. d \in Seq(Nat) /\ Len(d) = n + 1 /\ n \in Nat /\ d[n + 1] = i /\ \A k \in 1..n : d[k] = q[k]
  BY DEF Once
<1> HIDE DEF d
<1>2. ASSUME NEW j \in 1..(n + 1), NEW k \in 1..(n + 1), d[j] = d[k] PROVE j = k
  <2>1. CASE j \in 1..n /\ k \in 1..n
    <3>1. q[j] = q[k]
      BY <1>1, <1>2, <2>1
    <3> QED BY <2>1, <3>1 DEF Once
  <2>2. CASE j = n + 1 /\ k \in 1..n
    <3>1. q[k] = i
      BY <1>1, <1>2, <2>2
    <3> QED BY <2>2, <3>1 DEF In
  <2>3. CASE k = n + 1 /\ j \in 1..n
    <3>1. q[j] = i
      BY <1>1, <1>2, <2>3
    <3> QED BY <2>3, <3>1 DEF In
  <2>4. CASE j = n + 1 /\ k = n + 1
    BY <2>4
  <2> QED BY <1>1, <2>1, <2>2, <2>3, <2>4
<1>3. \A j : In(d, j) <=> In(q, j) \/ j = i
  <2>1. ASSUME NEW j, In(d, j) PROVE In(q, j) \/ j = i
    <3>1. PICK k \in 1..(n + 1) : d[k] = j
      BY <1>1, <2>1 DEF In
    <3> QED BY <1>1, <3>1 DEF In
  <2>2. ASSUME NEW j, In(q, j) PROVE In(d, j)
    <3>1. PICK k \in 1..n : q[k] = j
      BY <2>2 DEF In
    <3> QED BY <1>1, <3>1 DEF In
  <2>3. In(d, i)
    BY <1>1 DEF In
  <2> QED BY <2>1, <2>2, <2>3
<1>4. Once(d)
  BY <1>1, <1>2 DEF Once
<1> QED BY <1>1, <1>3, <1>4 DEF Gains, d

(* The limiter: a slot is released once its link is down, a book has the   *)
(* slots of its tier that are up, and a source is charged for its own.     *)
Of(x, s) == {i \in 1..Len(x) : x[i].up /\ x[i].source = s}
Booked(x, q, t) == Once(q) /\ \A j : In(q, j) <=> j \in 1..Len(x) /\ x[j].up /\ x[j].tier = t
SlotsOK(x) == x \in Seq(SlotRec) /\ \A i \in 1..Len(x) : x[i].released = ~x[i].up
BooksOK(x, y) == DOMAIN y = Tiers /\ \A t \in Tiers : Booked(x, y[t], t)
CountsOK(x, z) == z \in [Sources -> Nat] /\ \A s \in Sources : z[s] = Cardinality(Of(x, s))
LimitOK(x, y, z) == SlotsOK(x) /\ BooksOK(x, y) /\ CountsOK(x, z)
Sized(y) == \A t \in Tiers : Len(y[t]) \in Nat /\ Len(y[t]) <= maxTier[t]

(* The books with no entry for slot i. *)
Bookless(x, y, i) ==
    /\ DOMAIN y = Tiers
    /\ \A t \in Tiers : /\ Once(y[t])
                        /\ \A j : In(y[t], j) <=> j \in 1..Len(x) /\ j # i /\ x[j].up /\ x[j].tier = t

(* The books change at one tier, by so many slots. *)
Resized(y, v, t, n) == /\ DOMAIN v = Tiers /\ Len(v[t]) = Len(y[t]) + n
                       /\ \A r \in Tiers : r # t => v[r] = y[r]

(* unbook takes a slot out of the book of its tier and no other. *)
LEMMA Unbooked ==
  ASSUME NEW x, NEW y, BooksOK(x, y), NEW i \in 1..Len(x), x[i].up, x[i].tier \in Tiers,
         NEW v, v = [y EXCEPT ![x[i].tier] = Delete(y[x[i].tier], i)]
  PROVE  Bookless(x, v, i) /\ Resized(y, v, x[i].tier, -1)
<1> DEFINE t == x[i].tier
           d == Delete(y[t], i)
<1>1. Once(y[t]) /\ In(y[t], i) /\ DOMAIN y = Tiers
  BY DEF BooksOK, Booked
<1>2. Lacks(y[t], d, i)
  BY <1>1, DeleteOK
<1>3. v[t] = d /\ DOMAIN v = Tiers /\ \A r \in Tiers : r # t => v[r] = y[r]
  BY <1>1
<1> HIDE DEF d
<1>4. ASSUME NEW r \in Tiers
      PROVE  /\ Once(v[r])
             /\ \A j : In(v[r], j) <=> j \in 1..Len(x) /\ j # i /\ x[j].up /\ x[j].tier = r
  <2>1. Booked(x, y[r], r)
    BY DEF BooksOK
  <2>2. CASE r = t
    BY <1>2, <1>3, <2>1, <2>2 DEF Lacks, Booked
  <2>3. CASE r # t
    BY <1>3, <2>1, <2>3 DEF Booked
  <2> QED BY <2>2, <2>3
<1>5. Len(y[t]) \in Nat /\ Len(d) \in Nat /\ Len(y[t]) = Len(d) + 1
  BY <1>1, <1>2 DEF Once, Lacks
<1>6. Len(v[t]) = Len(y[t]) + (-1)
  BY <1>3, <1>5
<1> QED BY <1>3, <1>4, <1>6 DEF Bookless, Resized

(* Booking a slot that no book has puts the books in order again. *)
LEMMA Rebooked ==
  ASSUME NEW u, NEW v, NEW i \in Nat, NEW t \in Tiers, Bookless(u, v, i), i \in 1..Len(u), u[i].up, u[i].tier = t,
         NEW w, w = [v EXCEPT ![t] = Append(v[t], i)]
  PROVE  BooksOK(u, w) /\ Resized(v, w, t, 1)
<1> DEFINE d == Append(v[t], i)
<1>1. Once(v[t]) /\ ~In(v[t], i) /\ DOMAIN v = Tiers
  BY DEF Bookless
<1>2. Gains(v[t], d, i)
  BY <1>1, AppendOK
<1>3. w[t] = d /\ DOMAIN w = Tiers /\ \A r \in Tiers : r # t => w[r] = v[r]
  BY <1>1
<1> HIDE DEF d
<1>4. ASSUME NEW r \in Tiers PROVE Booked(u, w[r], r)
  <2>1. Once(v[r]) /\ \A j : In(v[r], j) <=> j \in 1..Len(u) /\ j # i /\ u[j].up /\ u[j].tier = r
    BY DEF Bookless
  <2>2. CASE r = t
    BY <1>2, <1>3, <2>1, <2>2 DEF Gains, Booked
  <2>3. CASE r # t
    BY <1>3, <2>1, <2>3 DEF Booked
  <2> QED BY <2>2, <2>3
<1>5. Len(w[t]) = Len(v[t]) + 1
  BY <1>2, <1>3 DEF Gains
<1> QED BY <1>3, <1>4, <1>5 DEF BooksOK, Resized

(* A source's slots are finitely many. *)
LEMMA OfFinite ==
  ASSUME NEW x \in Seq(SlotRec), NEW s
  PROVE  IsFiniteSet(Of(x, s)) /\ Cardinality(Of(x, s)) \in Nat
<1> DEFINE n == Len(x)
           S == Of(x, s)
<1>1. n \in Nat /\ S \in SUBSET (1..n)
  BY DEF Of
<1> HIDE DEF n, S
<1>2. IsFiniteSet(1..n)
  BY <1>1, FS_Interval
<1>3. IsFiniteSet(S)
  BY <1>1, <1>2, FS_Subset
<1>4. Cardinality(S) \in Nat
  BY <1>3, FS_CardinalityType
<1> QED BY <1>3, <1>4 DEF S

(* One slot more, and one less. *)
LEMMA CountMore ==
  ASSUME NEW S, IsFiniteSet(S), Cardinality(S) \in Nat, NEW i, i \notin S
  PROVE  Cardinality(S \union {i}) = Cardinality(S) + 1
BY FS_AddElement

(* Counting a set of slots without one of its members. *)
LEMMA CountLess ==
  ASSUME NEW S, IsFiniteSet(S), Cardinality(S) \in Nat, NEW i, i \in S
  PROVE  Cardinality(S) > 0 /\ Cardinality(S \ {i}) = Cardinality(S) - 1
<1>1. Cardinality(S \ {i}) = Cardinality(S) - 1 /\ IsFiniteSet(S \ {i})
  BY FS_RemoveElement
<1>2. Cardinality(S \ {i}) \in Nat
  BY <1>1, FS_CardinalityType
<1> QED BY <1>1, <1>2

(* A slot that changes. *)
Sets(x, u, i, e) == u \in Seq(SlotRec) /\ Len(u) = Len(x) /\ u[i] = e /\ \A j \in 1..Len(x) : j # i => u[j] = x[j]

(* A table of slots with one of them changed. *)
LEMMA SlotSet ==
  ASSUME NEW x \in Seq(SlotRec), NEW i \in 1..Len(x), NEW e \in SlotRec
  PROVE  Sets(x, [x EXCEPT ![i] = e], i, e)
BY DEF Sets

(* The slot of a link that is down, and the books and charges without it. *)
Fallen(x, u, i) == Sets(x, u, i, [source |-> x[i].source, tier |-> x[i].tier, released |-> TRUE, up |-> FALSE])
Cut(x, y, i) == [y EXCEPT ![x[i].tier] = Delete(y[x[i].tier], i)]
Refunded(x, z, i) == [z EXCEPT ![x[i].source] = z[x[i].source] - 1]

(* When a slot is given up, the books and charges without it are exact. *)
LEMMA Fell ==
  ASSUME NEW x, NEW y, NEW z, LimitOK(x, y, z), NEW i \in 1..Len(x), x[i].up,
         NEW u, Fallen(x, u, i)
  PROVE  LimitOK(u, Cut(x, y, i), Refunded(x, z, i)) /\ Resized(y, Cut(x, y, i), x[i].tier, -1)
<1> DEFINE v == Cut(x, y, i)
           w == Refunded(x, z, i)
           r == x[i].source
<1>1. x \in Seq(SlotRec) /\ x[i] \in SlotRec /\ Len(x) \in Nat
  BY DEF LimitOK, SlotsOK
<1>2. x[i].tier \in Tiers /\ r \in Sources
  BY <1>1 DEF SlotRec
<1>3. /\ u \in Seq(SlotRec) /\ Len(u) = Len(x) /\ ~u[i].up /\ u[i].released
      /\ \A j \in 1..Len(x) : j # i => u[j] = x[j]
  BY DEF Fallen, Sets
<1>4. Bookless(x, v, i) /\ Resized(y, v, x[i].tier, -1)
  BY <1>2, Unbooked DEF LimitOK, Cut
<1> HIDE DEF v
<1>5. BooksOK(u, v)
  <2>1. ASSUME NEW t \in Tiers PROVE Booked(u, v[t], t)
    <3>1. /\ Once(v[t])
          /\ \A j : In(v[t], j) <=> j \in 1..Len(x) /\ j # i /\ x[j].up /\ x[j].tier = t
      BY <1>4 DEF Bookless
    <3>2. \A j : (j \in 1..Len(u) /\ u[j].up /\ u[j].tier = t)
                 <=> (j \in 1..Len(x) /\ j # i /\ x[j].up /\ x[j].tier = t)
      BY <1>3
    <3> QED BY <3>1, <3>2 DEF Booked
  <2> QED BY <1>4, <2>1 DEF Bookless, BooksOK
<1>6. SlotsOK(u)
  <2>1. ASSUME NEW j \in 1..Len(u) PROVE u[j].released = ~u[j].up
    BY <1>3 DEF LimitOK, SlotsOK
  <2> QED BY <1>3, <2>1 DEF SlotsOK
<1>7. CountsOK(u, w)
  <2>1. z \in [Sources -> Nat] /\ \A s \in Sources : z[s] = Cardinality(Of(x, s))
    BY DEF LimitOK, CountsOK
  <2>2. z[r] > 0 /\ Cardinality(Of(u, r)) = z[r] - 1
    <3>1. i \in Of(x, r) /\ Of(u, r) = Of(x, r) \ {i}
      BY <1>3 DEF Of
    <3>2. IsFiniteSet(Of(x, r)) /\ Cardinality(Of(x, r)) \in Nat
      BY <1>1, OfFinite
    <3> QED BY <1>2, <2>1, <3>1, <3>2, CountLess
  <2>3. ASSUME NEW s \in Sources, s # r PROVE Of(u, s) = Of(x, s)
    BY <1>3, <2>3 DEF Of
  <2>4. w \in [Sources -> Nat] /\ w[r] = z[r] - 1 /\ \A s \in Sources : s # r => w[s] = z[s]
    BY <1>2, <2>1, <2>2 DEF Refunded
  <2> HIDE DEF w
  <2>5. ASSUME NEW s \in Sources PROVE w[s] = Cardinality(Of(u, s))
    <3>1. CASE s = r
      BY <2>2, <2>4, <3>1
    <3>2. CASE s # r
      BY <2>1, <2>3, <2>4, <3>2
    <3> QED BY <3>1, <3>2
  <2> QED BY <2>4, <2>5 DEF CountsOK
<1> QED BY <1>4, <1>5, <1>6, <1>7 DEF LimitOK, v

(* The limiter of one turn, by its parts. *)
Lim(x, y, z) == [slot |-> x, books |-> y, perSource |-> z]

(* The parts of the limiter, and each of them changed. *)
LEMMA LimSet ==
  ASSUME NEW x, NEW y, NEW z, NEW a
  PROVE  /\ Lim(x, y, z).slot = x /\ Lim(x, y, z).books = y /\ Lim(x, y, z).perSource = z
         /\ [Lim(x, y, z) EXCEPT !.slot = a] = Lim(a, y, z)
         /\ [Lim(x, y, z) EXCEPT !.books = a] = Lim(x, a, z)
         /\ [Lim(x, y, z) EXCEPT !.perSource = a] = Lim(x, y, a)
BY DEF Lim

(* unbook changes the books alone. *)
LEMMA UnbookIs ==
  ASSUME NEW x, NEW y, NEW z, NEW i
  PROVE  unbook(Lim(x, y, z), i) = Lim(x, Cut(x, y, i), z)
BY DEF unbook, Lim, Cut

(* A field of a slot that changes. *)
LEMMA FieldSet ==
  ASSUME NEW B, NEW e \in [source : Sources, tier : Tiers, released : B, up : B], NEW a
  PROVE  /\ [e EXCEPT !.released = a] = [source |-> e.source, tier |-> e.tier, released |-> a, up |-> e.up]
         /\ [e EXCEPT !.up = a] = [source |-> e.source, tier |-> e.tier, released |-> e.released, up |-> a]
         /\ [e EXCEPT !.tier = a] = [source |-> e.source, tier |-> a, released |-> e.released, up |-> e.up]
OBVIOUS

(* A release gives the slot up, unless it already was. *)
Give(x, i) == [x EXCEPT ![i] = [source |-> x[i].source, tier |-> x[i].tier, released |-> TRUE, up |-> x[i].up]]

(* The slot that release marks, by its fields. *)
LEMMA GiveIs ==
  ASSUME NEW x, NEW i, x[i] \in SlotRec
  PROVE  [x EXCEPT ![i].released = TRUE] = Give(x, i)
<1>1. x[i] \in [source : Sources, tier : Tiers, released : BOOLEAN, up : BOOLEAN]
  BY Zenon DEF SlotRec
<1>2. [x[i] EXCEPT !.released = TRUE] = [source |-> x[i].source, tier |-> x[i].tier, released |-> TRUE, up |-> x[i].up]
  BY <1>1, FieldSet, Zenon
<1> QED BY <1>2, Zenon DEF Give

(* What release does: nothing to a slot already released. *)
LEMMA ReleaseIs ==
  ASSUME NEW x \in Seq(SlotRec), NEW y, NEW z \in [Sources -> Nat], NEW i \in 1..Len(x), z[x[i].source] > 0
  PROVE  Release(Lim(x, y, z), i) = IF x[i].released THEN Lim(x, y, z)
                                    ELSE Lim(Give(x, i), Cut(x, y, i), Refunded(x, z, i))
<1>1. Lim(x, y, z).slot = x
  BY LimSet
<1>2. CASE x[i].released
  BY <1>1, <1>2 DEF Release, Released
<1>3. CASE ~x[i].released
  <2> DEFINE v == Cut(x, y, i)
             r == x[i].source
             g == [x EXCEPT ![i].released = TRUE]
             w == [z EXCEPT ![r] = IF z[r] = 0 THEN 0 ELSE z[r] - 1]
             l == [Lim(x, v, z) EXCEPT !.slot = g]
  <2>1. Release(Lim(x, y, z), i)
          = [Lim(x, v, z) EXCEPT !.slot[i].released = TRUE, !.perSource[r] = IF @ = 0 THEN 0 ELSE @ - 1]
    BY <1>1, <1>3, UnbookIs, ZenonT(40) DEF Release, Released
  <2> HIDE DEF v
  <2>2. Lim(x, v, z).slot = x
    BY LimSet
  <2> HIDE DEF g
  <2>3. l = Lim(g, v, z)
    BY LimSet
  <2>4. l.perSource = z
    BY <2>3, LimSet
  <2> USE DEF g
  <2>5. [Lim(x, v, z) EXCEPT !.slot[i].released = TRUE, !.perSource[r] = IF @ = 0 THEN 0 ELSE @ - 1]
          = [l EXCEPT !.perSource = w]
    BY <2>2, <2>4, Zenon
  <2> HIDE DEF g, w, l
  <2>6. [l EXCEPT !.perSource = w] = Lim(g, v, w)
    BY <2>3, LimSet
  <2>7. x[i] \in SlotRec
    OBVIOUS
  <2>8. g = Give(x, i)
    BY <2>7, GiveIs, Zenon DEF g
  <2>9. w = Refunded(x, z, i)
    <3>1. (IF z[r] = 0 THEN 0 ELSE z[r] - 1) = z[r] - 1
      OBVIOUS
    <3> QED BY <3>1, Zenon DEF Refunded, w
  <2> QED BY <1>3, <2>1, <2>5, <2>6, <2>8, <2>9, Zenon DEF v
<1> QED BY <1>2, <1>3

Fall(x, i) == [x EXCEPT ![i] = [source |-> x[i].source, tier |-> x[i].tier, released |-> x[i].released, up |-> FALSE]]

(* A link's teardown takes it down and releases its slot. *)
LEMMA EndedIs ==
  ASSUME NEW x, NEW y, NEW z, NEW i, x[i] \in SlotRec
  PROVE  Ended(Lim(x, y, z), i) = Release(Lim(Fall(x, i), y, z), i)
<1> DEFINE f == [x EXCEPT ![i].up = FALSE]
<1>1. x[i] \in [source : Sources, tier : Tiers, released : BOOLEAN, up : BOOLEAN]
  BY Zenon DEF SlotRec
<1>2. [x[i] EXCEPT !.up = FALSE] = [source |-> x[i].source, tier |-> x[i].tier, released |-> x[i].released, up |-> FALSE]
  BY <1>1, FieldSet, Zenon
<1>3. f = Fall(x, i)
  BY <1>2, Zenon DEF Fall
<1>4. Lim(x, y, z).slot = x
  BY LimSet
<1>5. [Lim(x, y, z) EXCEPT !.slot[i].up = FALSE] = [Lim(x, y, z) EXCEPT !.slot = f]
  BY <1>4, Zenon
<1> HIDE DEF f
<1>6. [Lim(x, y, z) EXCEPT !.slot = f] = Lim(f, y, z)
  BY LimSet
<1> QED BY <1>3, <1>5, <1>6, Zenon DEF Ended

(* A link's end and an eviction leave its slot the same, given back once. *)
LEMMA EndsIs ==
  ASSUME NEW x, NEW y, NEW z, LimitOK(x, y, z), NEW i \in 1..Len(x), x[i].up
  PROVE  \E u : /\ Fallen(x, u, i)
                /\ Ended(Lim(x, y, z), i) = Lim(u, Cut(x, y, i), Refunded(x, z, i))
                /\ Ended(Release(Lim(x, y, z), i), i) = Lim(u, Cut(x, y, i), Refunded(x, z, i))
<1> DEFINE r == x[i].source
           t == x[i].tier
           e == [source |-> r, tier |-> t, released |-> TRUE, up |-> FALSE]
           u == [x EXCEPT ![i] = e]
           d == Fall(x, i)
           g == Give(x, i)
<1>1. x \in Seq(SlotRec) /\ x[i] \in SlotRec /\ i \in DOMAIN x /\ x[i].released = FALSE /\ x[i].up = TRUE
  <2>1. x \in Seq(SlotRec) /\ x[i].released = ~x[i].up
    BY DEF LimitOK, SlotsOK
  <2>2. x[i] \in SlotRec
    BY <2>1
  <2>3. x[i].up \in BOOLEAN
    BY <2>2 DEF SlotRec
  <2>4. x[i].released = FALSE /\ x[i].up = TRUE
    BY <2>1, <2>3, Zenon
  <2> QED BY <2>1, <2>2, <2>4
<1>2. r \in Sources /\ t \in Tiers /\ e \in SlotRec
  BY <1>1 DEF SlotRec
<1>3. Fallen(x, u, i)
  BY <1>1, <1>2, SlotSet DEF Fallen
<1>4. z \in [Sources -> Nat] /\ z[r] > 0
  <2>1. z \in [Sources -> Nat] /\ z[r] = Cardinality(Of(x, r))
    BY <1>2 DEF LimitOK, CountsOK
  <2>2. i \in Of(x, r)
    BY DEF Of
  <2>3. IsFiniteSet(Of(x, r)) /\ Cardinality(Of(x, r)) \in Nat
    BY <1>1, OfFinite
  <2> QED BY <2>1, <2>2, <2>3, CountLess
<1>5. d[i] = [source |-> r, tier |-> t, released |-> FALSE, up |-> FALSE] /\ d \in Seq(SlotRec) /\ Len(d) = Len(x)
  <2> DEFINE f == [source |-> r, tier |-> t, released |-> FALSE, up |-> FALSE]
  <2>1. f \in SlotRec
    BY <1>2 DEF SlotRec
  <2>2. d = [x EXCEPT ![i] = f]
    BY <1>1, Zenon DEF Fall
  <2> HIDE DEF f
  <2> QED BY <1>1, <2>1, <2>2, SlotSet DEF Sets, f
<1>6. g[i] = [source |-> r, tier |-> t, released |-> TRUE, up |-> TRUE] /\ g \in Seq(SlotRec) /\ Len(g) = Len(x)
  <2> DEFINE f == [source |-> r, tier |-> t, released |-> TRUE, up |-> TRUE]
  <2>1. f \in SlotRec
    BY <1>2 DEF SlotRec
  <2>2. g = [x EXCEPT ![i] = f]
    BY <1>1, Zenon DEF Give
  <2> HIDE DEF f
  <2> QED BY <1>1, <2>1, <2>2, SlotSet DEF Sets, f
<1>7. Give(d, i) = u
  BY <1>1, <1>5 DEF Give, Fall
<1>8. Fall(g, i) = u
  BY <1>1, <1>6 DEF Give, Fall
<1>9. u[i] = e /\ i \in DOMAIN u
  BY <1>1
<1> HIDE DEF d, g, u
<1>10. Ended(Lim(x, y, z), i) = Lim(u, Cut(x, y, i), Refunded(x, z, i))
  <2>1. Ended(Lim(x, y, z), i) = Release(Lim(d, y, z), i)
    BY <1>1, EndedIs, ZenonT(40) DEF d
  <2>2. d[i].source = r /\ d[i].tier = t /\ ~d[i].released
    BY <1>5
  <2>3. Release(Lim(d, y, z), i) = Lim(Give(d, i), Cut(d, y, i), Refunded(d, z, i))
    BY <1>2, <1>4, <1>5, <2>2, ReleaseIs
  <2>4. Cut(d, y, i) = Cut(x, y, i) /\ Refunded(d, z, i) = Refunded(x, z, i)
    BY <2>2 DEF Cut, Refunded
  <2> QED BY <1>7, <2>1, <2>3, <2>4
<1>11. Ended(Release(Lim(x, y, z), i), i) = Lim(u, Cut(x, y, i), Refunded(x, z, i))
  <2> DEFINE v == Cut(x, y, i)
             w == Refunded(x, z, i)
  <2>1. Release(Lim(x, y, z), i) = Lim(g, v, w)
    BY <1>1, <1>2, <1>4, ReleaseIs DEF g
  <2>2. Ended(Lim(g, v, w), i) = Release(Lim(u, v, w), i)
    <3>1. g[i] \in SlotRec
      BY <1>6
    <3> QED BY <1>8, <3>1, EndedIs, ZenonT(40)
  <2>3. Release(Lim(u, v, w), i) = Lim(u, v, w)
    <3>1. Lim(u, v, w).slot = u
      BY DEF Lim
    <3> QED BY <1>9, <3>1 DEF Release, Released
  <2> QED BY <2>1, <2>2, <2>3
<1> QED BY <1>3, <1>10, <1>11

(* A link's end leaves the limiter in order and no tier larger. *)
LEMMA EndsOK ==
  ASSUME NEW x, NEW y, NEW z, LimitOK(x, y, z), Sized(y), NEW i \in 1..Len(x), x[i].up, NEW u, Fallen(x, u, i)
  PROVE  LET v == Cut(x, y, i)
         IN LimitOK(u, v, Refunded(x, z, i)) /\ Sized(v) /\ Len(v[x[i].tier]) = Len(y[x[i].tier]) - 1
<1> DEFINE v == Cut(x, y, i)
           t == x[i].tier
<1>1. LimitOK(u, v, Refunded(x, z, i)) /\ Resized(y, v, t, -1)
  BY Fell
<1>2. t \in Tiers
  <2>1. x[i] \in SlotRec
    BY DEF LimitOK, SlotsOK
  <2> QED BY <2>1 DEF SlotRec
<1> HIDE DEF v, t
<1>3. /\ Len(v[t]) = Len(y[t]) + (-1) /\ \A r \in Tiers : r # t => v[r] = y[r]
  BY <1>1 DEF Resized
<1>4. \A r \in Tiers : Len(v[r]) \in Nat /\ maxTier[r] \in Nat
  BY <1>1, LimiterAssumption DEF LimitOK, BooksOK, Booked, Once
<1>5. Sized(v)
  <2>1. ASSUME NEW r \in Tiers PROVE Len(v[r]) <= maxTier[r]
    <3>1. CASE r = t
      BY <1>2, <1>3, <1>4, <3>1 DEF Sized
    <3>2. CASE r # t
      BY <1>3, <3>2 DEF Sized
    <3> QED BY <3>1, <3>2
  <2> QED BY <1>4, <2>1 DEF Sized
<1>6. Len(v[t]) = Len(y[t]) - 1
  BY <1>2, <1>3 DEF Sized
<1> QED BY <1>1, <1>5, <1>6 DEF v, t

(* What makeRoom leaves: room in the tier, and the slots of other tiers. *)
Roomy(x, u, v, w, t) ==
    /\ LimitOK(u, v, w) /\ Sized(v) /\ Len(v[t]) < maxTier[t] /\ Len(u) = Len(x)
    /\ \A i \in 1..Len(x) : x[i].up /\ x[i].tier # t => u[i] = x[i]

(* makeRoom, with an eviction or without, leaves room in the tier. *)
LEMMA RoomMade ==
  ASSUME NEW x, NEW y, NEW z, LimitOK(x, y, z), Sized(y), NEW t \in Tiers, Room(Lim(x, y, z), t)
  PROVE  \E u, v, w : makeRoom(Lim(x, y, z), t) = Lim(u, v, w) /\ Roomy(x, u, v, w, t)
<1>1. Lim(x, y, z).books = y
  BY LimSet
<1>2. CASE Len(y[t]) < maxTier[t]
  <2>1. makeRoom(Lim(x, y, z), t) = Lim(x, y, z)
    BY <1>1, <1>2 DEF makeRoom
  <2>2. Roomy(x, x, y, z, t)
    BY <1>2 DEF Roomy
  <2> QED BY <2>1, <2>2
<1>3. CASE ~(Len(y[t]) < maxTier[t])
  <2> DEFINE i == Head(y[t])
             v == Cut(x, y, i)
             w == Refunded(x, z, i)
  <2>1. Booked(x, y[t], t)
    BY DEF LimitOK, BooksOK
  <2>2. y[t] # << >> /\ y[t] \in Seq(Nat)
    BY <1>1, <1>3, <2>1 DEF Room, Booked, Once
  <2>3. In(y[t], i)
    <3>1. 1 \in 1..Len(y[t]) /\ y[t][1] = i
      BY <2>2
    <3> QED BY <3>1 DEF In
  <2>4. i \in 1..Len(x) /\ x[i].up /\ x[i].tier = t
    BY <2>1, <2>3 DEF Booked
  <2>5. makeRoom(Lim(x, y, z), t) = Ended(Release(Lim(x, y, z), i), i)
    BY <1>1, <1>3 DEF makeRoom
  <2> HIDE DEF i
  <2>6. PICK u : Fallen(x, u, i) /\ Ended(Release(Lim(x, y, z), i), i) = Lim(u, v, w)
    BY <2>4, EndsIs
  <2>7. LimitOK(u, v, w) /\ Sized(v) /\ Len(v[t]) = Len(y[t]) - 1
    BY <2>4, <2>6, EndsOK
  <2>8. Len(v[t]) < maxTier[t]
    BY <2>7, LimiterAssumption DEF Sized
  <2>9. Len(u) = Len(x) /\ \A j \in 1..Len(x) : j # i => u[j] = x[j]
    BY <2>6 DEF Fallen, Sets
  <2> HIDE DEF v, w
  <2>10. Roomy(x, u, v, w, t)
    BY <2>4, <2>7, <2>8, <2>9 DEF Roomy
  <2> QED BY <2>5, <2>6, <2>10
<1> QED BY <1>2, <1>3

(* A slot that is booked. *)
Placed(x, i, t) == [x EXCEPT ![i] = [source |-> x[i].source, tier |-> t, released |-> x[i].released, up |-> x[i].up]]
Queued(y, i, t) == [y EXCEPT ![t] = Append(y[t], i)]

(* book sets the slot's tier and puts it at the tail of the book. *)
LEMMA BookIs ==
  ASSUME NEW x, NEW y, NEW z, NEW i, x[i] \in SlotRec, NEW t
  PROVE  book(Lim(x, y, z), i, t) = Lim(Placed(x, i, t), Queued(y, i, t), z)
<1> DEFINE p == [x EXCEPT ![i].tier = t]
           q == Queued(y, i, t)
           l == [Lim(x, y, z) EXCEPT !.slot = p]
<1>1. x[i] \in [source : Sources, tier : Tiers, released : BOOLEAN, up : BOOLEAN]
  BY Zenon DEF SlotRec
<1>2. [x[i] EXCEPT !.tier = t] = [source |-> x[i].source, tier |-> t, released |-> x[i].released, up |-> x[i].up]
  BY <1>1, FieldSet, Zenon
<1>3. p = Placed(x, i, t)
  BY <1>2, Zenon DEF Placed
<1>4. Lim(x, y, z).slot = x
  BY LimSet
<1> HIDE DEF p
<1>5. l = Lim(p, y, z)
  BY LimSet
<1>6. l.books = y
  BY <1>5, LimSet
<1> USE DEF p
<1>7. book(Lim(x, y, z), i, t) = [l EXCEPT !.books = q]
  BY <1>4, <1>6, Zenon DEF book, Queued
<1> HIDE DEF p, q, l
<1>8. [l EXCEPT !.books = q] = Lim(p, q, z)
  BY <1>5, LimSet
<1> QED BY <1>3, <1>7, <1>8, Zenon DEF q

(* A slot that goes to a tier with room for it, from another or its own. *)
LEMMA Relocated ==
  ASSUME NEW x, NEW y, NEW z, LimitOK(x, y, z), Sized(y), NEW i \in 1..Len(x), x[i].up, NEW t \in Tiers,
         Len(y[t]) < maxTier[t] \/ x[i].tier = t
  PROVE  \E u, w : book(unbook(Lim(x, y, z), i), i, t) = Lim(u, w, z) /\ LimitOK(u, w, z) /\ Sized(w)
<1> DEFINE v == Cut(x, y, i)
           u == Placed(x, i, t)
           w == Queued(v, i, t)
           r == x[i].tier
           e == [source |-> x[i].source, tier |-> t, released |-> x[i].released, up |-> x[i].up]
<1>1. x \in Seq(SlotRec) /\ x[i] \in SlotRec /\ i \in Nat
  BY DEF LimitOK, SlotsOK
<1>2. r \in Tiers /\ e \in SlotRec
  BY <1>1 DEF SlotRec
<1>3. Sets(x, u, i, e)
  <2> HIDE DEF e
  <2> QED BY <1>1, <1>2, SlotSet DEF Placed, e
<1>4. book(unbook(Lim(x, y, z), i), i, t) = Lim(u, w, z)
  <2>1. unbook(Lim(x, y, z), i) = Lim(x, v, z)
    BY UnbookIs
  <2> HIDE DEF v, e
  <2>2. book(Lim(x, v, z), i, t) = Lim(Placed(x, i, t), Queued(v, i, t), z)
    BY <1>1, BookIs
  <2> QED BY <2>1, <2>2
<1>5. Bookless(x, v, i) /\ Resized(y, v, r, -1)
  BY <1>2, Unbooked DEF LimitOK, Cut
<1> HIDE DEF v, u
<1>6. /\ u \in Seq(SlotRec) /\ Len(u) = Len(x)
      /\ u[i].up /\ u[i].up = x[i].up /\ u[i].tier = t /\ u[i].source = x[i].source /\ u[i].released = x[i].released
      /\ \A j \in 1..Len(x) : j # i => u[j] = x[j]
  BY <1>3 DEF Sets
<1>7. Bookless(u, v, i)
  <2>1. ASSUME NEW q \in Tiers
        PROVE  /\ Once(v[q])
               /\ \A j : In(v[q], j) <=> j \in 1..Len(u) /\ j # i /\ u[j].up /\ u[j].tier = q
    <3>1. /\ Once(v[q])
          /\ \A j : In(v[q], j) <=> j \in 1..Len(x) /\ j # i /\ x[j].up /\ x[j].tier = q
      BY <1>5 DEF Bookless
    <3>2. \A j : (j \in 1..Len(u) /\ j # i /\ u[j].up /\ u[j].tier = q)
                 <=> (j \in 1..Len(x) /\ j # i /\ x[j].up /\ x[j].tier = q)
      BY <1>6
    <3> QED BY <3>1, <3>2
  <2> QED BY <1>5, <2>1 DEF Bookless
<1>8. BooksOK(u, w) /\ Resized(v, w, t, 1)
  BY <1>1, <1>6, <1>7, Rebooked DEF Queued
<1> HIDE DEF w
<1>9. SlotsOK(u)
  <2>1. ASSUME NEW j \in 1..Len(u) PROVE u[j].released = ~u[j].up
    BY <1>6 DEF LimitOK, SlotsOK
  <2> QED BY <1>6, <2>1 DEF SlotsOK
<1>10. CountsOK(u, z)
  <2>1. ASSUME NEW s PROVE Of(u, s) = Of(x, s)
    BY <1>6 DEF Of
  <2> QED BY <2>1 DEF LimitOK, CountsOK
<1>11. Sized(w)
  <2> SUFFICES ASSUME NEW q \in Tiers PROVE Len(w[q]) \in Nat /\ Len(w[q]) <= maxTier[q]
    BY DEF Sized
  <2>1. Len(w[q]) \in Nat /\ Len(v[q]) \in Nat /\ maxTier[q] \in Nat
    BY <1>7, <1>8, LimiterAssumption DEF BooksOK, Booked, Bookless, Once
  <2>2. /\ Len(y[q]) \in Nat /\ Len(y[q]) <= maxTier[q]
        /\ Len(y[r]) \in Nat /\ Len(y[r]) <= maxTier[r]
    BY <1>2 DEF Sized
  <2>3. /\ Len(v[r]) = Len(y[r]) + (-1) /\ (q # r => v[q] = y[q])
        /\ Len(w[t]) = Len(v[t]) + 1 /\ (q # t => w[q] = v[q])
    BY <1>5, <1>8 DEF Resized
  <2>4. CASE q # t
    <3>1. CASE q = r
      BY <2>1, <2>2, <2>3, <2>4, <3>1, SMTT(30)
    <3>2. CASE q # r
      BY <2>1, <2>2, <2>3, <2>4, <3>2
    <3> QED BY <3>1, <3>2
  <2>5. CASE q = t /\ t = r
    BY <2>1, <2>2, <2>3, <2>5
  <2>6. CASE q = t /\ t # r
    BY <2>1, <2>2, <2>3, <2>6, SMTT(30)
  <2> QED BY <2>4, <2>5, <2>6
<1> QED BY <1>4, <1>8, <1>9, <1>10, <1>11 DEF LimitOK

(* A slot acquired. *)
Held(l) == \E u, v, w : l = Lim(u, v, w) /\ LimitOK(u, v, w) /\ Sized(v)

(* acquire, with room in the tier, keeps books and charges exact. *)
LEMMA Acquired ==
  ASSUME NEW x, NEW y, NEW z, LimitOK(x, y, z), Sized(y), NEW s \in Sources, NEW t \in Tiers, Len(y[t]) < maxTier[t],
         NEW new, new = [source |-> s, tier |-> t, released |-> FALSE, up |-> TRUE]
  PROVE  Held(book([Lim(x, y, z) EXCEPT !.slot = Append(@, new), !.perSource[s] = @ + 1], Len(x) + 1, t))
<1> DEFINE n == Len(x) + 1
           a == Append(x, new)
           u == Placed(a, n, t)
           v == Queued(y, n, t)
           w == [z EXCEPT ![s] = z[s] + 1]
           l == [Lim(x, y, z) EXCEPT !.slot = a]
<1>1. x \in Seq(SlotRec) /\ Len(x) \in Nat
  BY DEF LimitOK, SlotsOK
<1>2. new \in SlotRec
  BY DEF SlotRec
<1>3. a \in Seq(SlotRec) /\ Len(a) = n /\ n \in Nat /\ n \in 1..n /\ a[n] = new /\ \A j \in 1..Len(x) : a[j] = x[j]
  BY <1>1, <1>2
<1>4. Lim(x, y, z).slot = x
  BY LimSet
<1> HIDE DEF a
<1>5. l = Lim(a, y, z)
  BY LimSet
<1>6. l.perSource = z
  BY <1>5, LimSet
<1> USE DEF a
<1>7. [Lim(x, y, z) EXCEPT !.slot = Append(@, new), !.perSource[s] = @ + 1] = [l EXCEPT !.perSource = w]
  BY <1>4, <1>6, Zenon
<1> HIDE DEF a, w, l
<1>8. [l EXCEPT !.perSource = w] = Lim(a, y, w)
  BY <1>5, LimSet
<1>9. a[n] \in SlotRec
  BY <1>2, <1>3
<1>10. book(Lim(a, y, w), n, t) = Lim(u, v, w)
  <2> HIDE DEF n
  <2> QED BY <1>9, BookIs
<1>11. Sets(a, u, n, new)
  <2>1. u = [a EXCEPT ![n] = new]
    BY <1>3 DEF Placed
  <2> HIDE DEF u, n
  <2> QED BY <1>2, <1>3, <2>1, SlotSet
<1> HIDE DEF u
<1>12. /\ u \in Seq(SlotRec) /\ Len(u) = n /\ u[n] = new
       /\ \A j \in 1..Len(x) : u[j] = x[j]
  BY <1>1, <1>3, <1>11 DEF Sets
<1>13. BooksOK(u, v) /\ Resized(y, v, t, 1)
  <2>1. Bookless(u, y, n)
    <3>1. ASSUME NEW q \in Tiers
          PROVE  /\ Once(y[q])
                 /\ \A j : In(y[q], j) <=> j \in 1..Len(u) /\ j # n /\ u[j].up /\ u[j].tier = q
      <4>1. Booked(x, y[q], q)
        BY DEF LimitOK, BooksOK
      <4>2. \A j : (j \in 1..Len(u) /\ j # n /\ u[j].up /\ u[j].tier = q)
                   <=> (j \in 1..Len(x) /\ x[j].up /\ x[j].tier = q)
        BY <1>1, <1>12
      <4> QED BY <4>1, <4>2 DEF Booked
    <3> QED BY <3>1 DEF LimitOK, BooksOK, Bookless
  <2>2. n \in 1..Len(u) /\ u[n].up /\ u[n].tier = t
    BY <1>3, <1>12
  <2> HIDE DEF n
  <2> QED BY <1>3, <2>1, <2>2, Rebooked DEF Queued
<1> HIDE DEF v
<1>14. SlotsOK(u)
  <2>1. ASSUME NEW j \in 1..Len(u) PROVE u[j].released = ~u[j].up
    <3>1. CASE j = n
      <4>1. u[j].released = FALSE /\ u[j].up = TRUE
        BY <1>12, <3>1
      <4> QED BY <4>1, Zenon
    <3>2. CASE j # n
      <4>1. j \in 1..Len(x)
        BY <1>1, <1>12, <3>2
      <4> QED BY <1>12, <4>1 DEF LimitOK, SlotsOK
    <3> QED BY <3>1, <3>2
  <2> QED BY <1>12, <2>1 DEF SlotsOK
<1>15. CountsOK(u, w)
  <2>1. z \in [Sources -> Nat] /\ \A q \in Sources : z[q] = Cardinality(Of(x, q))
    BY DEF LimitOK, CountsOK
  <2>2. Cardinality(Of(u, s)) = z[s] + 1
    <3>1. n \notin Of(x, s) /\ Of(u, s) = Of(x, s) \union {n}
      BY <1>1, <1>12 DEF Of
    <3>2. IsFiniteSet(Of(x, s)) /\ Cardinality(Of(x, s)) \in Nat
      BY <1>1, OfFinite
    <3> HIDE DEF n
    <3> QED BY <2>1, <3>1, <3>2, CountMore
  <2>3. ASSUME NEW q \in Sources, q # s PROVE Of(u, q) = Of(x, q)
    BY <1>1, <1>12, <2>3 DEF Of
  <2>4. w \in [Sources -> Nat] /\ w[s] = z[s] + 1 /\ \A q \in Sources : q # s => w[q] = z[q]
    BY <2>1 DEF w
  <2>5. ASSUME NEW q \in Sources PROVE w[q] = Cardinality(Of(u, q))
    <3>1. CASE q = s
      BY <2>2, <2>4, <3>1
    <3>2. CASE q # s
      BY <2>1, <2>3, <2>4, <3>2
    <3> QED BY <3>1, <3>2
  <2> QED BY <2>4, <2>5 DEF CountsOK
<1>16. Sized(v)
  <2> SUFFICES ASSUME NEW q \in Tiers PROVE Len(v[q]) \in Nat /\ Len(v[q]) <= maxTier[q]
    BY DEF Sized
  <2>1. /\ Len(v[q]) \in Nat /\ maxTier[q] \in Nat /\ Len(y[q]) \in Nat /\ Len(y[q]) <= maxTier[q]
    BY <1>13, LimiterAssumption DEF BooksOK, Booked, Once, Sized
  <2>2. Len(v[t]) = Len(y[t]) + 1 /\ (q # t => v[q] = y[q])
    BY <1>13 DEF Resized
  <2>3. CASE q = t
    BY <2>1, <2>2, <2>3
  <2>4. CASE q # t
    BY <2>1, <2>2, <2>4
  <2> QED BY <2>3, <2>4
<1>17. LimitOK(u, v, w)
  BY <1>13, <1>14, <1>15 DEF LimitOK
<1> QED BY <1>7, <1>8, <1>10, <1>16, <1>17, Zenon DEF Held

LimiterInv == LimitOK(slot, books, perSource) /\ Sized(books)

(* The limiter of a turn that keeps to its books is the next state's. *)
LEMMA LimitsHeld ==
  ASSUME NEW l, Held(l), LimitsAre(l)
  PROVE  LimiterInv'
<1>1. PICK u, v, w : l = Lim(u, v, w) /\ LimitOK(u, v, w) /\ Sized(v)
  BY DEF Held
<1>2. slot' = u /\ books' = v /\ perSource' = w
  BY <1>1, LimSet DEF LimitsAre
<1>3. LimitOK(slot', books', perSource') /\ Sized(books')
  BY <1>1, <1>2
<1> QED BY <1>3 DEF LimiterInv, LimitOK, SlotsOK, BooksOK, CountsOK, Sized, Booked, Of, In, Once

(* A new limiter's books are in order. *)
LEMMA LimiterStart == LimiterInit => LimiterInv
<1> SUFFICES ASSUME LimiterInit PROVE LimiterInv
  OBVIOUS
<1>1. slot = << >> /\ books = [t \in Tiers |-> << >>] /\ perSource = [s \in Sources |-> 0]
  BY DEF LimiterInit
<1>2. SlotsOK(slot)
  BY <1>1 DEF SlotsOK
<1>3. BooksOK(slot, books) /\ Sized(books)
  BY <1>1, LimiterAssumption DEF BooksOK, Booked, Once, In, Sized
<1>4. CountsOK(slot, perSource)
  <2>1. \A s \in Sources : Of(slot, s) = {}
    BY <1>1 DEF Of
  <2>2. Cardinality({}) = 0
    BY FS_EmptySet
  <2> QED BY <1>1, <2>1, <2>2 DEF CountsOK
<1> QED BY <1>2, <1>3, <1>4 DEF LimiterInv, LimitOK

(* What a link's end leaves. *)
LEMMA EndHeld ==
  ASSUME LimiterInv, NEW i \in Slots, slot[i].up
  PROVE  Held(Ended(Limits, i))
<1>1. Limits = Lim(slot, books, perSource)
  BY DEF Limits, Lim
<1>2. i \in 1..Len(slot)
  BY DEF Slots
<1>3. PICK u : Fallen(slot, u, i)
               /\ Ended(Limits, i) = Lim(u, Cut(slot, books, i), Refunded(slot, perSource, i))
  BY <1>1, <1>2, EndsIs DEF LimiterInv
<1>4. LimitOK(u, Cut(slot, books, i), Refunded(slot, perSource, i)) /\ Sized(Cut(slot, books, i))
  BY <1>2, <1>3, EndsOK DEF LimiterInv
<1> QED BY <1>3, <1>4 DEF Held

(* An accept, with the eviction it may take. *)
LEMMA AcceptHeld ==
  ASSUME LimiterInv, NEW s \in Sources, Accept(s)
  PROVE  LimiterInv'
<1> DEFINE t == "unverified"
           new == [source |-> s, tier |-> t, released |-> FALSE, up |-> TRUE]
           l == makeRoom(Limits, t)
           m == book([l EXCEPT !.slot = Append(@, new), !.perSource[s] = @ + 1], Len(slot) + 1, t)
<1>1. Limits = Lim(slot, books, perSource) /\ t \in Tiers
  BY DEF Limits, Lim, Tiers
<1>2. Room(Limits, t) /\ LimitsAre(m)
  BY Zenon DEF Accept
<1> HIDE DEF t, new, l
<1>3. PICK x, y, z : l = Lim(x, y, z) /\ Roomy(slot, x, y, z, t)
  BY <1>1, <1>2, RoomMade DEF LimiterInv, l
<1>4. LimitOK(x, y, z) /\ Sized(y) /\ Len(y[t]) < maxTier[t] /\ Len(x) = Len(slot)
  BY <1>3 DEF Roomy
<1>5. new = [source |-> s, tier |-> t, released |-> FALSE, up |-> TRUE]
  BY DEF new
<1>6. Held(book([Lim(x, y, z) EXCEPT !.slot = Append(@, new), !.perSource[s] = @ + 1], Len(x) + 1, t))
  BY <1>1, <1>4, <1>5, Acquired, Zenon
<1>7. Held(m)
  BY <1>3, <1>4, <1>6, Zenon
<1> HIDE DEF m
<1> QED BY <1>2, <1>7, LimitsHeld

(* A promotion, or the end of a link there is no room for. *)
LEMMA MoveHeld ==
  ASSUME LimiterInv, NEW i \in Slots, NEW from \in Tiers, NEW to \in Tiers, from # to, Move(i, from, to)
  PROVE  LimiterInv'
<1>1. Limits = Lim(slot, books, perSource) /\ i \in 1..Len(slot) /\ slot[i].up /\ slot[i].tier = from
  BY DEF Limits, Lim, Slots, Move
<1>2. CASE ~Room(Limits, to)
  <2>1. LimitsAre(Ended(Limits, i))
    BY <1>2 DEF Move
  <2> QED BY <1>1, <2>1, EndHeld, LimitsHeld
<1>3. CASE Room(Limits, to)
  <2> DEFINE m == book(unbook(makeRoom(Limits, to), i), i, to)
  <2>1. LimitsAre(m)
    BY <1>3 DEF Move
  <2>2. PICK x, y, z : makeRoom(Limits, to) = Lim(x, y, z) /\ Roomy(slot, x, y, z, to)
    BY <1>1, <1>3, RoomMade DEF LimiterInv
  <2>3. LimitOK(x, y, z) /\ Sized(y) /\ Len(y[to]) < maxTier[to] /\ Len(x) = Len(slot) /\ x[i] = slot[i]
    BY <1>1, <2>2 DEF Roomy
  <2>4. \E u, w : book(unbook(Lim(x, y, z), i), i, to) = Lim(u, w, z) /\ LimitOK(u, w, z) /\ Sized(w)
    BY <1>1, <2>3, Relocated
  <2>5. Held(m)
    BY <2>2, <2>4 DEF Held
  <2> HIDE DEF m
  <2> QED BY <2>1, <2>5, LimitsHeld
<1> QED BY <1>2, <1>3

(* Traffic takes a slot to the tail of its own tier. *)
LEMMA TouchHeld ==
  ASSUME LimiterInv, NEW i \in Slots, Touch(i)
  PROVE  LimiterInv'
<1> DEFINE m == book(unbook(Limits, i), i, "authed")
<1>1. /\ Limits = Lim(slot, books, perSource) /\ i \in 1..Len(slot) /\ slot[i].up /\ slot[i].tier = "authed"
      /\ "authed" \in Tiers /\ LimitsAre(m)
  BY DEF Limits, Lim, Slots, Touch, Tiers
<1>2. \E u, w : m = Lim(u, w, perSource) /\ LimitOK(u, w, perSource) /\ Sized(w)
  BY <1>1, Relocated DEF LimiterInv
<1>3. Held(m)
  BY <1>2 DEF Held
<1> HIDE DEF m
<1> QED BY <1>1, <1>3, LimitsHeld

(* Every step of the limiter keeps its books. *)
LEMMA LimiterStep ==
  ASSUME LimiterInv, LimiterLayer
  PROVE  LimiterInv'
<1>1. ASSUME NEW s \in Sources, Accept(s) PROVE LimiterInv'
  BY <1>1, AcceptHeld
<1>2. ASSUME NEW i \in Slots, Touch(i) PROVE LimiterInv'
  BY <1>2, TouchHeld
<1>3. ASSUME NEW i \in Slots, Promote(i) \/ Hold(i) PROVE LimiterInv'
  <2>1. {"unverified", "verified", "authed"} \subseteq Tiers
    BY DEF Tiers
  <2>2. CASE Promote(i)
    BY <2>1, <2>2, MoveHeld DEF Promote
  <2>3. CASE Hold(i)
    BY <2>1, <2>3, MoveHeld DEF Hold
  <2> QED BY <1>3, <2>2, <2>3
<1>4. ASSUME NEW i \in Slots, LinkEnds(i) PROVE LimiterInv'
  <2>1. slot[i].up /\ LimitsAre(Ended(Limits, i))
    BY <1>4 DEF LinkEnds
  <2> QED BY <2>1, EndHeld, LimitsHeld
<1> QED BY <1>1, <1>2, <1>3, <1>4 DEF LimiterLayer

(* The books in order, as the property states it. *)
LEMMA LimiterImplies == LimiterInv => SlotsExact
<1> SUFFICES ASSUME LimiterInv PROVE SlotsExact
  OBVIOUS
<1>1. ASSUME NEW t \in Tiers
      PROVE  /\ IsInjective(books[t]) /\ Len(books[t]) <= maxTier[t]
             /\ ToSet(books[t]) = {i \in Slots : slot[i].up /\ slot[i].tier = t}
  <2> DEFINE q == books[t]
  <2>1. /\ Once(q) /\ Len(q) <= maxTier[t]
        /\ \A j : In(q, j) <=> j \in 1..Len(slot) /\ slot[j].up /\ slot[j].tier = t
    BY DEF LimiterInv, LimitOK, BooksOK, Booked, Sized
  <2> HIDE DEF q
  <2>2. DOMAIN q = 1..Len(q)
    BY <2>1 DEF Once
  <2>3. IsInjective(q)
    BY <2>1, <2>2 DEF Once, IsInjective
  <2>4. ToSet(q) = {j \in Slots : In(q, j)}
    BY <2>1, <2>2 DEF ToSet, In, Slots
  <2> QED BY <2>1, <2>3, <2>4 DEF q, Slots
<1>2. ASSUME NEW s \in Sources
      PROVE  perSource[s] = Cardinality({i \in Slots : slot[i].up /\ slot[i].source = s})
  <2>1. perSource[s] = Cardinality(Of(slot, s))
    BY DEF LimiterInv, LimitOK, CountsOK
  <2> QED BY <2>1 DEF Of, Slots
<1> QED BY <1>1, <1>2 DEF SlotsExact

(* However accepts, promotions, evictions and ends of links cross          *)
(* (core.js LinkLimiter), the slots in the books are those of links that   *)
(* are up, each once and within its tier, and every source is charged for  *)
(* exactly its own.                                                        *)
THEOREM SlotsHold == Spec => []SlotsExact
<1>1. Init => LimiterInv
  BY LimiterStart DEF Init
<1>2. LimiterInv /\ [Next]_vars => LimiterInv'
  <2> SUFFICES ASSUME LimiterInv, [Next]_vars PROVE LimiterInv'
    OBVIOUS
  <2>1. CASE LimiterLayer
    BY <2>1, LimiterStep
  <2>2. CASE UNCHANGED limiterVars
    BY <2>2 DEF limiterVars, LimiterInv, LimitOK, SlotsOK, BooksOK, CountsOK, Sized, Booked, Of, In, Once
  <2> QED BY <2>1, <2>2 DEF Next, vars
<1>3. LimiterInv => SlotsExact
  BY LimiterImplies
<1> QED BY <1>1, <1>2, <1>3, PTL DEF Spec

(* ---- requests from peers ---- *)

(* The weights of the requests a host is asked, of all and of one peer's. *)
DeliveryRec == [from : Peers, weight : 1..maxRequestWeight]
Weights(d) == [i \in 1..Len(d) |-> d[i].weight]
WeightsOf(d, p) == [i \in 1..Len(d) |-> IF d[i].from = p THEN d[i].weight ELSE 0]

(* The counts are of the requests that wait, and no peer has so much       *)
(* waiting that another's largest would not fit beside it.                 *)
Counted(d, each, all) ==
    /\ d \in Seq(DeliveryRec)
    /\ all = SumSeq(Weights(d))
    /\ DOMAIN each = Peers
    /\ \A p \in Peers : each[p] = SumSeq(WeightsOf(d, p))
DeliveryInv ==
    /\ Counted(deliveries, delivering, deliveringWeight)
    /\ \A p \in Peers : delivering[p] <= deliveryWindow - maxRequestWeight

(* The sizes, as numbers. *)
LEMMA WindowFacts ==
  /\ maxRequestWeight \in Nat /\ deliveryWindow \in Nat /\ maxRequestWeight > 0
  /\ 2 * maxRequestWeight <= deliveryWindow
  /\ \A w \in Sizes : w \in 1..maxRequestWeight
  BY RequestsAssumption

(* The weights are numbers, and their sums too. *)
LEMMA WeightsTyped ==
  ASSUME NEW d \in Seq(DeliveryRec)
  PROVE  /\ Weights(d) \in Seq(Int) /\ Len(Weights(d)) = Len(d) /\ SumSeq(Weights(d)) \in Nat
         /\ \A p : /\ WeightsOf(d, p) \in Seq(Int) /\ Len(WeightsOf(d, p)) = Len(d)
                   /\ SumSeq(WeightsOf(d, p)) \in Nat
<1>1. \A i \in 1..Len(d) : d[i].weight \in Nat
  <2>1. ASSUME NEW i \in 1..Len(d) PROVE d[i].weight \in Nat
    <3>1. d[i] \in DeliveryRec
      OBVIOUS
    <3> QED BY <3>1, WindowFacts DEF DeliveryRec
  <2> QED BY <2>1
<1>2. /\ Weights(d) \in Seq(Int) /\ Len(Weights(d)) = Len(d)
      /\ \A i \in 1..Len(Weights(d)) : Weights(d)[i] \in Nat
  BY <1>1 DEF Weights
<1>3. SumSeq(Weights(d)) \in Nat
  BY <1>2, SumType
<1>4. ASSUME NEW p
      PROVE  /\ WeightsOf(d, p) \in Seq(Int) /\ Len(WeightsOf(d, p)) = Len(d)
             /\ SumSeq(WeightsOf(d, p)) \in Nat
  <2>1. /\ WeightsOf(d, p) \in Seq(Int) /\ Len(WeightsOf(d, p)) = Len(d)
        /\ \A i \in 1..Len(WeightsOf(d, p)) : WeightsOf(d, p)[i] \in Nat
    BY <1>1 DEF WeightsOf
  <2> QED BY <2>1, SumType
<1> QED BY <1>2, <1>3, <1>4

(* One request more is counted once, for its peer. *)
LEMMA CountedOnce ==
  ASSUME NEW d, NEW each, NEW all, Counted(d, each, all), NEW p \in Peers, NEW w \in 1..maxRequestWeight
  PROVE  Counted(Append(d, [from |-> p, weight |-> w]), [each EXCEPT ![p] = each[p] + w], all + w)
<1> DEFINE e == [from |-> p, weight |-> w]
           t == Append(d, e)
<1>1. e \in DeliveryRec /\ d \in Seq(DeliveryRec) /\ w \in Int
  BY WindowFacts DEF Counted, DeliveryRec
<1>2. t \in Seq(DeliveryRec) /\ Len(t) = Len(d) + 1 /\ Len(d) \in Nat /\ t[Len(d) + 1] = e
      /\ \A i \in 1..Len(d) : t[i] = d[i]
  BY <1>1
<1>3. e.from = p /\ e.weight = w
  OBVIOUS
<1> HIDE DEF t, e
<1>4. Weights(t) = Append(Weights(d), w)
  BY <1>1, <1>2, <1>3 DEF Weights
<1>5. WeightsOf(t, p) = Append(WeightsOf(d, p), w)
  BY <1>1, <1>2, <1>3 DEF WeightsOf
<1>6. \A q : q # p => WeightsOf(t, q) = Append(WeightsOf(d, q), 0)
  BY <1>1, <1>2, <1>3 DEF WeightsOf
<1>7. SumSeq(Weights(t)) = all + w
  BY <1>1, <1>4, SumAppend, WeightsTyped DEF Counted
<1>8. SumSeq(WeightsOf(t, p)) = each[p] + w
  BY <1>1, <1>5, SumAppend, WeightsTyped DEF Counted
<1>9. ASSUME NEW q \in Peers, q # p PROVE SumSeq(WeightsOf(t, q)) = each[q]
  <2>1. WeightsOf(d, q) \in Seq(Int) /\ SumSeq(WeightsOf(d, q)) \in Nat
    BY <1>1, WeightsTyped
  <2> DEFINE x == WeightsOf(d, q)
  <2> HIDE DEF x
  <2>a. x \in Seq(Int) /\ 0 \in Int
    BY <2>1 DEF x
  <2>b. SumSeq(Append(x, 0)) = SumSeq(x) + 0
    BY <2>a, SumAppend
  <2>2. SumSeq(WeightsOf(t, q)) = SumSeq(WeightsOf(d, q)) + 0
    BY <1>6, <1>9, <2>b DEF x
  <2> QED BY <2>1, <2>2 DEF Counted
<1>10. Counted(t, [each EXCEPT ![p] = each[p] + w], all + w)
  BY <1>2, <1>7, <1>8, <1>9 DEF Counted
<1> QED BY <1>10 DEF t, e

(* One answered is no longer counted. *)
LEMMA Uncounted ==
  ASSUME NEW d, NEW each, NEW all, Counted(d, each, all), NEW i \in 1..Len(d), NEW t,
         t = RemoveAt(d, i)
  PROVE  Counted(t, [each EXCEPT ![d[i].from] = each[d[i].from] - d[i].weight], all - d[i].weight)
<1> DEFINE p == d[i].from
           w == d[i].weight
<1>1. d \in Seq(DeliveryRec) /\ d[i] \in DeliveryRec
  BY DEF Counted
<1>2. p \in Peers /\ w \in Int
  BY <1>1, WindowFacts DEF DeliveryRec
<1>3. /\ t \in Seq(DeliveryRec) /\ Len(t) = Len(d) - 1 /\ Len(d) \in Nat
      /\ \A k \in 1..Len(t) : t[k] = IF k < i THEN d[k] ELSE d[k + 1]
  <2>1. Len(d) \in Nat
    BY <1>1
  <2> QED BY <1>1, <2>1, RemovedIs
<1>4. ASSUME NEW x \in Seq(Int), NEW y \in Seq(Int), Len(x) = Len(d), Len(y) = Len(t),
             \A k \in 1..Len(t) : y[k] = IF k < i THEN x[k] ELSE x[k + 1]
      PROVE  SumSeq(y) = SumSeq(x) - x[i]
  <2>1. i \in 1..Len(x) /\ Len(y) = Len(x) - 1 /\ \A k \in 1..Len(y) : y[k] = IF k < i THEN x[k] ELSE x[k + 1]
    BY <1>3, <1>4
  <2> QED BY <2>1, SumRemove
<1>5. \A k \in 1..Len(t) : k + 1 \in 1..Len(d) /\ k \in 1..Len(d)
  BY <1>3
<1>a. /\ Weights(t) \in Seq(Int) /\ Len(Weights(t)) = Len(t) /\ Weights(d) \in Seq(Int) /\ Len(Weights(d)) = Len(d)
      /\ \A q : /\ WeightsOf(t, q) \in Seq(Int) /\ Len(WeightsOf(t, q)) = Len(t)
                /\ WeightsOf(d, q) \in Seq(Int) /\ Len(WeightsOf(d, q)) = Len(d)
  BY <1>1, <1>3, WeightsTyped
<1>6. SumSeq(Weights(t)) = SumSeq(Weights(d)) - w
  <2>1. \A k \in 1..Len(t) : Weights(t)[k] = IF k < i THEN Weights(d)[k] ELSE Weights(d)[k + 1]
    BY <1>3, <1>5 DEF Weights
  <2>2. Weights(d)[i] = w
    BY DEF Weights
  <2> QED BY <1>4, <1>a, <2>1, <2>2
<1>7. ASSUME NEW q PROVE SumSeq(WeightsOf(t, q)) = SumSeq(WeightsOf(d, q)) - (IF q = p THEN w ELSE 0)
  <2>1. \A k \in 1..Len(t) : WeightsOf(t, q)[k] = IF k < i THEN WeightsOf(d, q)[k] ELSE WeightsOf(d, q)[k + 1]
    BY <1>3, <1>5 DEF WeightsOf
  <2>2. WeightsOf(d, q)[i] = IF q = p THEN w ELSE 0
    BY DEF WeightsOf
  <2>3. SumSeq(WeightsOf(t, q)) = SumSeq(WeightsOf(d, q)) - WeightsOf(d, q)[i]
    BY <1>4, <1>a, <2>1
  <2> QED BY <2>2, <2>3
<1> HIDE DEF p, w
<1>8. \A q \in Peers : [each EXCEPT ![p] = each[p] - w][q] = SumSeq(WeightsOf(t, q))
  <2>1. ASSUME NEW q \in Peers PROVE [each EXCEPT ![p] = each[p] - w][q] = SumSeq(WeightsOf(t, q))
    <3>1. each[q] = SumSeq(WeightsOf(d, q)) /\ each[q] \in Nat /\ DOMAIN each = Peers
      BY <1>1, WeightsTyped DEF Counted
    <3>2. SumSeq(WeightsOf(t, q)) = each[q] - (IF q = p THEN w ELSE 0)
      BY <1>7, <3>1
    <3> QED BY <1>2, <3>1, <3>2
  <2> QED BY <2>1
<1>9. Counted(t, [each EXCEPT ![p] = each[p] - w], all - w)
  BY <1>3, <1>6, <1>8 DEF Counted
<1> QED BY <1>9 DEF p, w

(* Counts are never negative, so that taking one off leaves what it says.  *)
LEMMA CountsNatural ==
  ASSUME NEW d, NEW each, NEW all, Counted(d, each, all)
  PROVE  all \in Nat /\ \A p \in Peers : each[p] \in Nat /\ each[p] <= all
<1>1. d \in Seq(DeliveryRec)
  BY DEF Counted
<1>2. all \in Nat /\ \A p \in Peers : each[p] \in Nat
  BY <1>1, WeightsTyped DEF Counted
<1>3. ASSUME NEW p \in Peers PROVE each[p] <= all
  <2>1. ASSUME NEW i \in 1..Len(d) PROVE WeightsOf(d, p)[i] <= Weights(d)[i]
    <3>1. d[i] \in DeliveryRec
      BY <1>1
    <3>2. d[i].weight \in Nat
      BY <3>1, WindowFacts DEF DeliveryRec
    <3> QED BY <3>2 DEF WeightsOf, Weights
  <2>2. SumSeq(WeightsOf(d, p)) <= SumSeq(Weights(d))
    BY <1>1, <2>1, WeightsTyped, SumLess
  <2> QED BY <2>2 DEF Counted
<1> QED BY <1>2, <1>3

(* A request counted onto the window. *)
LEMMA HoldsOn ==
  ASSUME DeliveryInv, NEW p \in Peers, NEW w \in 1..maxRequestWeight, admits(p, w), hold(p, w),
         deliveries' = Append(deliveries, [from |-> p, weight |-> w])
  PROVE  DeliveryInv'
<1>1. Counted(deliveries, delivering, deliveringWeight)
  BY DEF DeliveryInv
<1>2. deliveringWeight \in Nat /\ \A q \in Peers : delivering[q] \in Nat /\ delivering[q] <= deliveringWeight
  BY <1>1, CountsNatural
<1>3. delivering[p] + w > 0 /\ w \in Nat
  BY <1>2, WindowFacts
<1>4. delivering' = [delivering EXCEPT ![p] = delivering[p] + w] /\ deliveringWeight' = deliveringWeight + w
  BY <1>3 DEF hold
<1>5. Counted(deliveries, delivering, deliveringWeight)'
  BY <1>1, <1>4, CountedOnce
<1>6. ASSUME NEW q \in Peers PROVE delivering'[q] <= deliveryWindow - maxRequestWeight
  <2>1. CASE q # p
    BY <1>1, <1>4, <2>1 DEF DeliveryInv, Counted
  <2>2. CASE q = p /\ delivering[p] = 0
    BY <1>1, <1>4, <2>2, WindowFacts DEF Counted
  <2>3. CASE q = p /\ delivering[p] # 0
    <3>1. deliveringWeight + w <= deliveryWindow - maxRequestWeight
      BY <2>3 DEF admits
    <3>2. delivering[p] <= deliveringWeight
      BY <1>2
    <3> QED BY <1>1, <1>2, <1>3, <1>4, <2>3, <3>1, <3>2, WindowFacts DEF Counted
  <2> QED BY <2>1, <2>2, <2>3
<1> QED BY <1>5, <1>6 DEF DeliveryInv

(* A request taken off it. *)
LEMMA HoldsOff ==
  ASSUME DeliveryInv, NEW i \in 1..Len(deliveries), Delivered(i)
  PROVE  DeliveryInv'
<1> DEFINE d == deliveries
           p == d[i].from
           w == d[i].weight
<1>1. Counted(d, delivering, deliveringWeight)
  BY DEF DeliveryInv
<1>2. d[i] \in DeliveryRec
  BY <1>1 DEF Counted
<1>3. p \in Peers /\ w \in Nat
  BY <1>2, WindowFacts DEF DeliveryRec
<1>4. DOMAIN delivering = Peers /\ \A q \in Peers : delivering[q] \in Nat
  BY <1>1, CountsNatural DEF Counted
<1> DEFINE each == [delivering EXCEPT ![p] = delivering[p] - w]
           all == deliveringWeight - w
<1>5. Counted(deliveries', each, all)
  BY <1>1, Uncounted DEF Delivered
<1>6. \A q \in Peers : each[q] \in Nat
  BY <1>5, CountsNatural
<1>7. delivering[p] - w \in Nat
  BY <1>3, <1>4, <1>6
<1>8. delivering' = each /\ deliveringWeight' = all
  <2> DEFINE mine == delivering[p] + -w
  <2>1. mine = delivering[p] - w /\ deliveringWeight \in Nat
    BY <1>1, <1>3, <1>4, CountsNatural
  <2>2. delivering' = [delivering EXCEPT ![p] = IF mine > 0 THEN mine ELSE 0] /\ deliveringWeight' = deliveringWeight + -w
    BY DEF Delivered, hold
  <2>3. (IF mine > 0 THEN mine ELSE 0) = delivering[p] - w
    BY <1>7, <2>1
  <2> QED BY <1>3, <2>1, <2>2, <2>3
<1>9. ASSUME NEW q \in Peers PROVE delivering'[q] <= deliveryWindow - maxRequestWeight
  <2>1. delivering'[q] = IF q = p THEN delivering[p] - w ELSE delivering[q]
    BY <1>4, <1>8
  <2>2. delivering[q] <= deliveryWindow - maxRequestWeight
    BY DEF DeliveryInv
  <2> QED BY <1>3, <1>4, <2>1, <2>2, WindowFacts
<1> HIDE DEF each, all
<1> QED BY <1>5, <1>8, <1>9 DEF DeliveryInv

(* Nothing waits to begin with. *)
LEMMA DeliveryStart == RequestsInit => DeliveryInv
<1> SUFFICES ASSUME RequestsInit PROVE DeliveryInv
  OBVIOUS
<1>1. deliveries = << >> /\ delivering = [p \in Peers |-> 0] /\ deliveringWeight = 0
  BY DEF RequestsInit
<1>2. Weights(<< >>) = << >> /\ \A p : WeightsOf(<< >>, p) = << >>
  BY SMTT(30) DEF Weights, WeightsOf
<1> QED BY <1>1, <1>2, SumEmpty, WindowFacts DEF DeliveryInv, Counted

(* Every step of the request layer keeps the window. *)
LEMMA DeliveryStep ==
  ASSUME DeliveryInv, RequestLayer
  PROVE  DeliveryInv'
<1>1. CASE UNCHANGED deliveryVars
  BY <1>1 DEF DeliveryInv, deliveryVars
<1>2. ASSUME NEW p \in Peers, NEW w \in Sizes, OnRequest(p, w) PROVE DeliveryInv'
  <2>1. CASE admits(p, w)
    BY <1>2, <2>1, HoldsOn, WindowFacts DEF OnRequest
  <2>2. CASE ~admits(p, w)
    BY <1>1, <1>2, <2>2 DEF OnRequest
  <2> QED BY <2>1, <2>2
<1>3. ASSUME NEW i \in DOMAIN deliveries, Delivered(i) PROVE DeliveryInv'
  <2>1. DOMAIN deliveries = 1..Len(deliveries)
    BY DEF DeliveryInv, Counted
  <2> QED BY <1>3, <2>1, HoldsOff
<1> QED BY <1>1, <1>2, <1>3
     DEF RequestLayer, PeerDown, RelayUp, DirectUp, DirectGoes, Request, OnAnswer, Timeout, DialOver, PeerAnswers, deliveryVars

(* With one peer waiting at most, all that waits is its. *)
LEMMA DeliveryImplies == DeliveryInv => RoomForAnother
<1> SUFFICES ASSUME DeliveryInv, NEW p \in Peers \ Waiting, Cardinality(Waiting) <= 1
             PROVE  admits(p, maxRequestWeight)
  BY DEF RoomForAnother
<1> DEFINE d == deliveries
<1>1. Counted(d, delivering, deliveringWeight)
  BY DEF DeliveryInv
<1>2. deliveringWeight \in Nat /\ \A q \in Peers : delivering[q] \in Nat
  BY <1>1, CountsNatural
<1>3. delivering[p] = 0
  BY <1>2 DEF Waiting
<1>4. d \in Seq(DeliveryRec) /\ \A q \in Peers : delivering[q] = SumSeq(WeightsOf(d, q))
  BY <1>1 DEF Counted
<1>5. ASSUME NEW i \in 1..Len(d) PROVE d[i].from \in Waiting
  <2> DEFINE q == d[i].from
  <2>1. \A k \in 1..Len(d) : d[k].from \in Peers /\ d[k].weight \in Nat /\ d[k].weight > 0
    <3>1. ASSUME NEW k \in 1..Len(d) PROVE d[k].from \in Peers /\ d[k].weight \in Nat /\ d[k].weight > 0
      <4>1. d[k] \in DeliveryRec
        BY <1>4
      <4> QED BY <4>1, WindowFacts DEF DeliveryRec
    <3> QED BY <3>1
  <2>2. WeightsOf(d, q)[i] = d[i].weight /\ \A k \in 1..Len(d) : WeightsOf(d, q)[k] \in Nat
    BY <2>1 DEF WeightsOf
  <2>3. WeightsOf(d, q) \in Seq(Int) /\ Len(WeightsOf(d, q)) = Len(d)
    BY <1>4, WeightsTyped
  <2>4. WeightsOf(d, q)[i] <= SumSeq(WeightsOf(d, q))
    BY <2>2, <2>3, SumHas
  <2>5. d[i].weight <= delivering[q] /\ q \in Peers
    BY <1>4, <2>1, <2>2, <2>4
  <2> QED BY <1>2, <2>1, <2>5 DEF Waiting
<1>6. IsFiniteSet(Waiting)
  <2> DEFINE F == {d[i].from : i \in 1..Len(d)}
  <2>1. IsFiniteSet(F)
    <3>1. IsFiniteSet(1..Len(d))
      BY <1>4, FS_Interval
    <3> DEFINE g == [i \in 1..Len(d) |-> d[i].from]
    <3>2. g \in Surjection(1..Len(d), F)
      BY DEF Surjection
    <3> QED BY <3>1, <3>2, FS_Surjection
  <2>2. ASSUME NEW q \in Waiting PROVE q \in F
    <3> SUFFICES ASSUME q \notin F PROVE FALSE
      OBVIOUS
    <3>1. \A i \in 1..Len(d) : WeightsOf(d, q)[i] = 0
      BY DEF WeightsOf
    <3>2. SumSeq(WeightsOf(d, q)) = 0
      BY <1>4, <3>1, WeightsTyped, SumZero
    <3> QED BY <1>4, <3>2 DEF Waiting
  <2> QED BY <2>1, <2>2, FS_Subset
<1>7. deliveringWeight <= deliveryWindow - maxRequestWeight
  <2>1. CASE Len(d) = 0
    <3>1. Weights(d) \in Seq(Int) /\ Len(Weights(d)) = 0
      BY <1>4, <2>1, WeightsTyped
    <3>2. SumSeq(Weights(d)) = 0
      <4>1. \A i \in 1..Len(Weights(d)) : Weights(d)[i] = 0
        BY <3>1
      <4> QED BY <3>1, <4>1, SumZero
    <3> QED BY <1>1, <3>2, WindowFacts DEF Counted
  <2>2. CASE Len(d) # 0
    <3> DEFINE q == d[1].from
    <3>1. 1 \in 1..Len(d)
      BY <1>4, <2>2
    <3>2. q \in Waiting /\ q \in Peers
      BY <1>5, <3>1 DEF Waiting
    <3> HIDE DEF q
    <3>3. Waiting = {q}
      <4>1. /\ IsFiniteSet(Waiting \ {q}) /\ Cardinality(Waiting \ {q}) = Cardinality(Waiting) - 1
            /\ Cardinality(Waiting \ {q}) \in Nat /\ Cardinality(Waiting) \in Nat
        BY <1>6, <3>2, FS_RemoveElement, FS_CardinalityType
      <4>2. Cardinality(Waiting \ {q}) = 0
        BY <4>1
      <4>3. Waiting \ {q} = {}
        BY <4>1, <4>2, FS_EmptySet
      <4> QED BY <3>2, <4>3
    <3>4. WeightsOf(d, q) = Weights(d)
      BY <1>5, <3>3 DEF WeightsOf, Weights
    <3>5. deliveringWeight = delivering[q]
      BY <1>1, <1>4, <3>2, <3>4 DEF Counted
    <3> QED BY <3>2, <3>5 DEF DeliveryInv
  <2> QED BY <2>1, <2>2
<1> QED BY <1>2, <1>3, <1>7, WindowFacts DEF admits

(* "A peer already waiting must leave room for one max-size request from   *)
(* others" (router.js admits): whatever requests come, are answered and    *)
(* refused, and in whatever order, beside one peer that waits the largest  *)
(* request of another is taken.                                            *)
THEOREM RoomHolds == Spec => []RoomForAnother
<1>1. Init => DeliveryInv
  BY DeliveryStart DEF Init
<1>2. DeliveryInv /\ [Next]_vars => DeliveryInv'
  <2> SUFFICES ASSUME DeliveryInv, [Next]_vars PROVE DeliveryInv'
    OBVIOUS
  <2>1. CASE RequestLayer
    BY <2>1, DeliveryStep
  <2>2. CASE UNCHANGED requestVars
    BY <2>2 DEF DeliveryInv, requestVars, deliveryVars
  <2> QED BY <2>1, <2>2 DEF Next, vars
<1>3. DeliveryInv => RoomForAnother
  BY DeliveryImplies
<1> QED BY <1>1, <1>2, <1>3, PTL DEF Spec

(* ---- requests ---- *)

Results == {"none", "answered", "failed"}
ReqRec == [to : Peers, size : Nat, held : BOOLEAN, dialing : BOOLEAN, relayedBytes : Nat,
           result : Results, settled : Nat]
WindowRec == [open : BOOLEAN, bytes : Int, waiting : Seq(Nat)]

(* What a settling, a sending and a dial change of a request. *)
Alike(u, e) == u \in ReqRec /\ u.to = e.to /\ u.size = e.size

(* A request settled. *)
LEMMA SettledIs ==
  ASSUME NEW e \in ReqRec, NEW x \in Results
  PROVE  /\ Alike(Settle(e, x), e) /\ ~Settle(e, x).held /\ Settle(e, x).result = x
         /\ Settle(e, x).settled = e.settled + 1 /\ Settle(e, x).relayedBytes = e.relayedBytes
<1> DEFINE n == e.settled + 1
           u == [e EXCEPT !.result = x, !.settled = n, !.held = FALSE]
<1>1. Settle(e, x) = u
  BY DEF Settle
<1>2. n \in Nat
  BY DEF ReqRec
<1> HIDE DEF n
<1>3. u \in ReqRec /\ u.to = e.to /\ u.size = e.size
  BY <1>2 DEF ReqRec
<1>4. u.result = x /\ u.settled = n /\ u.relayedBytes = e.relayedBytes
  BY <1>2 DEF ReqRec
<1>5. u.held = FALSE
  BY Zenon DEF ReqRec
<1> QED BY <1>1, <1>3, <1>4, <1>5 DEF Alike, n

(* One sent, through a relay or not. *)
SentBy(e, direct) == [e EXCEPT !.held = FALSE, !.relayedBytes = IF direct THEN @ ELSE e.size]
LEMMA SentIs ==
  ASSUME NEW e \in ReqRec, NEW direct \in BOOLEAN
  PROVE  /\ Alike(SentBy(e, direct), e) /\ ~SentBy(e, direct).held /\ SentBy(e, direct).result = e.result
         /\ SentBy(e, direct).settled = e.settled
         /\ SentBy(e, direct).relayedBytes = IF direct THEN e.relayedBytes ELSE e.size
<1> DEFINE b == IF direct THEN e.relayedBytes ELSE e.size
           u == [e EXCEPT !.held = FALSE, !.relayedBytes = b]
<1>1. b \in Nat
  BY DEF ReqRec
<1>2. SentBy(e, direct) = u
  BY DEF SentBy, ReqRec
<1> HIDE DEF b
<1>3. Alike(u, e) /\ ~u.held /\ u.result = e.result /\ u.settled = e.settled /\ u.relayedBytes = b
  BY <1>1 DEF Alike, ReqRec
<1> QED BY <1>2, <1>3 DEF b

(* One whose dial is over. *)
LEMMA DialedIs ==
  ASSUME NEW e \in ReqRec, NEW u, u = [e EXCEPT !.dialing = FALSE]
  PROVE  /\ Alike(u, e) /\ u.held = e.held /\ u.result = e.result
         /\ u.settled = e.settled /\ u.relayedBytes = e.relayedBytes
  BY DEF Alike, ReqRec

(* A new one, held or put. *)
LEMMA NewRequest ==
  ASSUME NEW p \in Peers, NEW n \in Nat, NEW h \in BOOLEAN
  PROVE  /\ request(p, n, h) \in ReqRec /\ request(p, n, h).to = p /\ request(p, n, h).held = h
         /\ request(p, n, h).size = n
         /\ request(p, n, h).relayedBytes = 0 /\ request(p, n, h).result = "none" /\ request(p, n, h).settled = 0
  BY DEF request, ReqRec, Results

LEMMA PutIs ==
  ASSUME NEW e \in ReqRec
  PROVE  /\ Alike(Put(e), e) /\ ~Put(e).held /\ Put(e).result = e.result
         /\ Put(e).settled = e.settled /\ Put(e).relayedBytes = e.relayedBytes
<1> DEFINE b == route[e.to] = "none"
<1>1. b \in BOOLEAN
  OBVIOUS
<1>2. Put(e) = [e EXCEPT !.held = FALSE, !.dialing = b]
  BY DEF Put
<1> HIDE DEF b
<1> QED BY <1>1, <1>2 DEF Alike, ReqRec

(* Settled once, and one held back is neither settled nor sent. *)
Settles(r) == /\ r.settled = IF Pending(r) THEN 0 ELSE 1
              /\ r.held => Pending(r) /\ r.relayedBytes = 0
ReqsOK(R) == R \in Seq(ReqRec) /\ \A c \in 1..Len(R) : Settles(R[c])

(* What of a peer's requests the relay carries, unanswered. *)
Carried(R, p) == [c \in 1..Len(R) |-> IF R[c].to = p /\ Pending(R[c]) THEN R[c].relayedBytes ELSE 0]

(* Those held back wait in their peer's window, which counts no more than  *)
(* is carried.                                                             *)
WindowOK(R, q, p) ==
    /\ q \in WindowRec
    /\ ~q.open => q.bytes = 0 /\ q.waiting = << >>
    /\ Once(q.waiting)
    /\ \A i \in 1..Len(q.waiting) : /\ q.waiting[i] \in 1..Len(R) /\ R[q.waiting[i]].to = p
                                    /\ Pending(R[q.waiting[i]]) => R[q.waiting[i]].held
    /\ \A c \in 1..Len(R) : R[c].to = p /\ R[c].held => In(q.waiting, c)
    /\ q.bytes <= SumSeq(Carried(R, p))

(* Numbers, and their sum. *)
LEMMA CarriedTyped ==
  ASSUME NEW R \in Seq(ReqRec), NEW p
  PROVE  /\ Carried(R, p) \in Seq(Int) /\ Len(Carried(R, p)) = Len(R) /\ SumSeq(Carried(R, p)) \in Nat
         /\ \A c \in 1..Len(R) : Carried(R, p)[c] \in Nat
<1>1. \A c \in 1..Len(R) : R[c].relayedBytes \in Nat
  <2>1. ASSUME NEW c \in 1..Len(R) PROVE R[c].relayedBytes \in Nat
    <3>1. R[c] \in ReqRec
      OBVIOUS
    <3> QED BY <3>1 DEF ReqRec
  <2> QED BY <2>1
<1>2. /\ Carried(R, p) \in Seq(Int) /\ Len(Carried(R, p)) = Len(R)
      /\ \A c \in 1..Len(Carried(R, p)) : Carried(R, p)[c] \in Nat
  BY <1>1 DEF Carried
<1> QED BY <1>2, SumType

(* No window, of a peer with nothing held back. *)
LEMMA NoWindowOK ==
  ASSUME NEW R \in Seq(ReqRec), NEW p, \A c \in 1..Len(R) : R[c].to = p => ~R[c].held
  PROVE  WindowOK(R, NoWindow, p)
<1>1. NoWindow \in WindowRec /\ NoWindow.bytes = 0 /\ NoWindow.waiting = << >> /\ ~NoWindow.open
  BY DEF NoWindow, WindowRec
<1>2. Once(<< >>)
  BY DEF Once
<1>3. SumSeq(Carried(R, p)) \in Nat
  BY CarriedTyped
<1> QED BY <1>1, <1>2, <1>3 DEF WindowOK

(* What happens to the requests of others leaves a window as it was. *)
LEMMA WindowKept ==
  ASSUME NEW R \in Seq(ReqRec), NEW T \in Seq(ReqRec), Len(T) = Len(R), NEW p, NEW q,
         \A c \in 1..Len(R) : T[c].to = R[c].to,
         \A c \in 1..Len(R) : R[c].to = p => T[c] = R[c],
         WindowOK(R, q, p)
  PROVE  WindowOK(T, q, p)
<1>1. Carried(T, p) = Carried(R, p)
  BY DEF Carried
<1> QED BY <1>1, ZenonT(40) DEF WindowOK

(* So does a new request that is not held back there. *)
LEMMA WindowGrows ==
  ASSUME NEW R \in Seq(ReqRec), NEW e \in ReqRec, NEW p, NEW q, WindowOK(R, q, p),
         e.relayedBytes = 0, e.to = p => ~e.held
  PROVE  WindowOK(Append(R, e), q, p)
<1> DEFINE T == Append(R, e)
           N == Len(R)
<1>1. T \in Seq(ReqRec) /\ Len(T) = N + 1 /\ N \in Nat /\ T[N + 1] = e /\ \A c \in 1..N : T[c] = R[c]
  OBVIOUS
<1> HIDE DEF T
<1>2. Carried(T, p) = Append(Carried(R, p), 0)
  BY <1>1 DEF Carried
<1>3. SumSeq(Carried(T, p)) = SumSeq(Carried(R, p))
  <2> DEFINE x == Carried(R, p)
  <2>1. x \in Seq(Int) /\ SumSeq(x) \in Nat
    BY CarriedTyped
  <2> HIDE DEF x
  <2>2. SumSeq(Append(x, 0)) = SumSeq(x) + 0
    BY <2>1, SumAppend
  <2> QED BY <1>2, <2>1, <2>2 DEF x
<1>4. ASSUME NEW i \in 1..Len(q.waiting)
      PROVE  /\ q.waiting[i] \in 1..Len(T) /\ T[q.waiting[i]].to = p
             /\ Pending(T[q.waiting[i]]) => T[q.waiting[i]].held
  <2>1. /\ q.waiting[i] \in 1..N /\ R[q.waiting[i]].to = p
        /\ Pending(R[q.waiting[i]]) => R[q.waiting[i]].held
    BY DEF WindowOK
  <2> QED BY <1>1, <2>1
<1>5. ASSUME NEW c \in 1..Len(T), T[c].to = p, T[c].held PROVE In(q.waiting, c)
  <2>1. c # N + 1
    BY <1>1, <1>5
  <2>2. c \in 1..N
    BY <1>1, <2>1
  <2> QED BY <1>1, <1>5, <2>2 DEF WindowOK
<1>6. WindowOK(T, q, p)
  BY <1>3, <1>4, <1>5 DEF WindowOK
<1> QED BY <1>6 DEF T

(* The requests sent by the first m steps of a walk, and what that makes   *)
(* of them.                                                                *)
Sends(R, q, m) == {q.waiting[i] : i \in {k \in 1..Len(q.waiting) : Pending(R[q.waiting[k]]) /\ k <= m}}
Sent(R, S, direct) == [c \in 1..Len(R) |-> IF c \notin S THEN R[c] ELSE SentBy(R[c], direct)]

(* The sums of the first numbers of a sequence, one by one. *)
LEMMA SumFirst ==
  ASSUME NEW N \in Nat, NEW f \in [1..N -> Int], NEW i \in 1..N
  PROVE  SumSeq([k \in 1..i |-> f[k]]) = SumSeq([k \in 1..(i - 1) |-> f[k]]) + f[i]
<1> DEFINE x == [k \in 1..(i - 1) |-> f[k]]
           y == [k \in 1..i |-> f[k]]
<1>1. i - 1 \in Nat /\ i \in Nat /\ f[i] \in Int /\ \A k \in 1..i : f[k] \in Int
  OBVIOUS
<1>2. x \in Seq(Int) /\ Len(x) = i - 1 /\ \A k \in 1..(i - 1) : x[k] = f[k]
  BY <1>1
<1>3. y \in Seq(Int) /\ Len(y) = i /\ \A k \in 1..i : y[k] = f[k]
  BY <1>1
<1> HIDE DEF x, y
<1>4. /\ Append(x, f[i]) \in Seq(Int) /\ Len(Append(x, f[i])) = (i - 1) + 1 /\ Append(x, f[i])[(i - 1) + 1] = f[i]
      /\ \A k \in 1..(i - 1) : Append(x, f[i])[k] = x[k]
  BY <1>1, <1>2, AppendProperties
<1>5. y = Append(x, f[i])
  <2> DEFINE z == Append(x, f[i])
  <2>1. z \in Seq(Int) /\ Len(z) = i /\ z[i] = f[i] /\ \A k \in 1..(i - 1) : z[k] = f[k]
    BY <1>1, <1>2, <1>4
  <2> HIDE DEF z
  <2>2. \A k \in 1..i : z[k] = f[k]
    BY <1>1, <2>1
  <2>3. y = z
    BY <1>1, <1>3, <2>1, <2>2, SeqEqual
  <2> QED BY <2>3 DEF z
<1>6. SumSeq(y) = SumSeq(x) + f[i]
  BY <1>1, <1>2, <1>5, SumAppend
<1> QED BY <1>6 DEF x, y

(* Each step adds its request's bytes. *)
LEMMA FilledStep ==
  ASSUME NEW R, ReqsOK(R), NEW p, NEW q, WindowOK(R, q, p)
  PROVE  /\ Filled(R, q, 0) = q.bytes
         /\ \A i \in 0..Len(q.waiting) : Filled(R, q, i) \in Int
         /\ \A i \in 1..Len(q.waiting) :
               Filled(R, q, i) = Filled(R, q, i - 1)
                                  + (IF Pending(R[q.waiting[i]]) THEN R[q.waiting[i]].size ELSE 0)
<1> DEFINE w == q.waiting
           N == Len(w)
           f == [k \in 1..N |-> IF Pending(R[w[k]]) THEN R[w[k]].size ELSE 0]
           s(i) == [k \in 1..i |-> f[k]]
<1>1. q.bytes \in Int /\ w \in Seq(Nat) /\ N \in Nat
  BY DEF WindowOK, WindowRec
<1>2. f \in [1..N -> Int]
  <2>1. ASSUME NEW k \in 1..N PROVE (IF Pending(R[w[k]]) THEN R[w[k]].size ELSE 0) \in Int
    <3>1. w[k] \in 1..Len(R)
      BY DEF WindowOK
    <3>2. R[w[k]] \in ReqRec
      BY <3>1 DEF ReqsOK
    <3> QED BY <3>2 DEF ReqRec
  <2> QED BY <2>1
<1>3. ASSUME NEW i \in 0..N PROVE Filled(R, q, i) = q.bytes + SumSeq(s(i))
  <2>1. s(i) = [k \in 1..i |-> IF Pending(R[w[k]]) THEN R[w[k]].size ELSE 0]
    BY <1>1
  <2> QED BY <2>1 DEF Filled
<1>4. \A i \in 1..N : f[i] = IF Pending(R[w[i]]) THEN R[w[i]].size ELSE 0
  OBVIOUS
<1> HIDE DEF N, f
<1>5. ASSUME NEW i \in 0..N PROVE s(i) \in Seq(Int)
  BY <1>1, <1>2
<1>6. s(0) = << >>
  OBVIOUS
<1>7. ASSUME NEW i \in 0..N PROVE Filled(R, q, i) \in Int /\ SumSeq(s(i)) \in Int
  <2> HIDE DEF s
  <2>1. SumSeq(s(i)) \in Int
    BY <1>5, SumType
  <2> QED BY <1>1, <1>3, <2>1
<1>8. Filled(R, q, 0) = q.bytes
  <2>1. SumSeq(s(0)) = 0 /\ 0 \in 0..N
    BY <1>1, <1>6, SumEmpty
  <2> HIDE DEF s
  <2> QED BY <1>1, <1>3, <2>1
<1>9. ASSUME NEW i \in 1..N PROVE Filled(R, q, i) = Filled(R, q, i - 1) + f[i]
  <2>1. i - 1 \in 0..N /\ i \in 0..N
    BY <1>1
  <2>2. SumSeq(s(i)) = SumSeq(s(i - 1)) + f[i]
    BY <1>1, <1>2, SumFirst
  <2>3. f[i] \in Int
    BY <1>2
  <2> HIDE DEF s
  <2> QED BY <1>1, <1>3, <1>7, <2>1, <2>2, <2>3, SMTT(30)
<1> QED BY <1>4, <1>7, <1>8, <1>9 DEF N

(* A request sent, and one that is not. *)
LEMMA SentEach ==
  ASSUME NEW R, ReqsOK(R), NEW S, NEW direct \in BOOLEAN, NEW T, T = Sent(R, S, direct)
  PROVE  /\ T \in Seq(ReqRec) /\ Len(T) = Len(R) /\ ReqsOK(T)
         /\ \A c \in 1..Len(R) :
               /\ c \notin S => T[c] = R[c]
               /\ Alike(T[c], R[c]) /\ T[c].result = R[c].result
               /\ c \in S => ~T[c].held /\ T[c].relayedBytes = IF direct THEN R[c].relayedBytes ELSE R[c].size
<1>1. R \in Seq(ReqRec) /\ \A c \in 1..Len(R) : R[c] \in ReqRec /\ Settles(R[c])
  BY DEF ReqsOK
<1>2. ASSUME NEW c \in 1..Len(R)
      PROVE  /\ c \notin S => T[c] = R[c]
             /\ Alike(T[c], R[c]) /\ T[c].result = R[c].result /\ Settles(T[c])
             /\ c \in S => ~T[c].held /\ T[c].relayedBytes = IF direct THEN R[c].relayedBytes ELSE R[c].size
  <2>1. R[c] \in ReqRec /\ Settles(R[c])
    BY <1>1
  <2>2. CASE c \notin S
    <3>1. T[c] = R[c]
      BY <2>2 DEF Sent
    <3> QED BY <2>1, <2>2, <3>1 DEF Alike
  <2>3. CASE c \in S
    <3> DEFINE e == R[c]
               u == SentBy(e, direct)
    <3>1. T[c] = u
      BY <2>3, Zenon DEF Sent
    <3>2. /\ Alike(u, e) /\ ~u.held /\ u.result = e.result
          /\ u.settled = e.settled /\ u.relayedBytes = IF direct THEN e.relayedBytes ELSE e.size
      BY <2>1, SentIs
    <3> HIDE DEF u
    <3>3. Settles(u)
      BY <2>1, <3>2 DEF Settles, Pending
    <3> QED BY <2>3, <3>1, <3>2, <3>3
  <2> QED BY <2>2, <2>3
<1>3. Len(T) = Len(R) /\ T = [c \in 1..Len(R) |-> T[c]] /\ Len(R) \in Nat
  <2>1. T = [c \in 1..Len(R) |-> T[c]]
    BY Zenon DEF Sent
  <2> QED BY <1>1, <2>1
<1>4. T \in Seq(ReqRec)
  <2>1. \A c \in 1..Len(R) : T[c] \in ReqRec
    BY <1>2 DEF Alike
  <2> QED BY <1>3, <2>1
<1>5. ReqsOK(T)
  BY <1>2, <1>3, <1>4 DEF ReqsOK
<1> QED BY <1>2, <1>3, <1>4, <1>5

(* And through a relay in particular. *)
SentFacts(R, S, T) ==
    /\ T \in Seq(ReqRec) /\ Len(T) = Len(R) /\ ReqsOK(T)
    /\ \A c \in 1..Len(R) :
          /\ c \notin S => T[c] = R[c]
          /\ Alike(T[c], R[c]) /\ T[c].result = R[c].result
          /\ c \in S => ~T[c].held /\ T[c].relayedBytes = R[c].size
LEMMA SentOver ==
  ASSUME NEW R, ReqsOK(R), NEW S
  PROVE  SentFacts(R, S, Sent(R, S, FALSE))
<1> DEFINE no == FALSE
           T == Sent(R, S, no)
<1>1. no \in BOOLEAN /\ ~no
  OBVIOUS
<1> HIDE DEF no
<1>2. /\ T \in Seq(ReqRec) /\ Len(T) = Len(R) /\ ReqsOK(T)
      /\ \A c \in 1..Len(R) :
            /\ c \notin S => T[c] = R[c]
            /\ Alike(T[c], R[c]) /\ T[c].result = R[c].result
            /\ c \in S => ~T[c].held /\ T[c].relayedBytes = IF no THEN R[c].relayedBytes ELSE R[c].size
  BY <1>1, SentEach
<1> HIDE DEF T
<1>3. SentFacts(R, S, T)
  BY <1>1, <1>2 DEF SentFacts
<1> QED BY <1>3 DEF T, no

(* The window counts no more than is carried, at every step of the walk. *)
LEMMA FilledCarried ==
  ASSUME NEW R, ReqsOK(R), NEW p, NEW q, WindowOK(R, q, p), NEW n \in 0..Len(q.waiting)
  PROVE  Filled(R, q, n) <= SumSeq(Carried(Sent(R, Sends(R, q, n), FALSE), p))
<1> DEFINE w == q.waiting
           N == Len(w)
           X(m) == Carried(Sent(R, Sends(R, q, m), FALSE), p)
           T == {m \in 0..N : Filled(R, q, m) <= SumSeq(X(m))}
<1>1. N \in Nat /\ R \in Seq(ReqRec) /\ \A c \in 1..Len(R) : R[c] \in ReqRec /\ Settles(R[c])
  BY DEF WindowOK, WindowRec, ReqsOK
<1>2. \A i \in 1..N : /\ w[i] \in 1..Len(R) /\ R[w[i]].to = p
                      /\ Pending(R[w[i]]) => R[w[i]].relayedBytes = 0
  BY <1>1 DEF WindowOK, Settles
<1>3. \A j, k \in 1..N : w[j] = w[k] => j = k
  BY DEF WindowOK, Once
<1>4. ASSUME NEW m, NEW c \in 1..Len(R)
      PROVE  /\ X(m) \in Seq(Int) /\ Len(X(m)) = Len(R)
             /\ X(m)[c] = IF R[c].to = p /\ Pending(R[c])
                          THEN IF c \in Sends(R, q, m) THEN R[c].size ELSE R[c].relayedBytes
                          ELSE 0
  <2> DEFINE S == Sends(R, q, m)
             Y == Sent(R, S, FALSE)
  <2>1. /\ Y \in Seq(ReqRec) /\ Len(Y) = Len(R) /\ (c \notin S => Y[c] = R[c])
        /\ Alike(Y[c], R[c]) /\ Y[c].result = R[c].result /\ (c \in S => Y[c].relayedBytes = R[c].size)
    BY SentOver, ZenonT(40) DEF SentFacts
  <2> HIDE DEF S, Y
  <2>2. Y[c].to = R[c].to /\ (Pending(Y[c]) <=> Pending(R[c]))
    BY <2>1 DEF Alike, Pending
  <2>3. Carried(Y, p)[c] = IF R[c].to = p /\ Pending(R[c]) THEN Y[c].relayedBytes ELSE 0
    BY <2>1, <2>2 DEF Carried
  <2>4. Carried(Y, p) \in Seq(Int) /\ Len(Carried(Y, p)) = Len(R)
    BY <2>1, CarriedTyped
  <2> QED BY <2>1, <2>3, <2>4 DEF S, Y
<1>5. \A m : X(m) \in Seq(Int) /\ Len(X(m)) = Len(R)
  BY SentOver, CarriedTyped, ZenonT(40) DEF SentFacts
<1>6. 0 \in T
  <2>1. Sends(R, q, 0) = {}
    BY <1>1 DEF Sends
  <2>2. X(0) = Carried(R, p)
    <3>1. \A c \in 1..Len(R) : X(0)[c] = Carried(R, p)[c]
      BY <1>4, <2>1 DEF Carried
    <3>2. Carried(R, p) \in Seq(Int) /\ Len(Carried(R, p)) = Len(R)
      BY <1>1, CarriedTyped
    <3> HIDE DEF X
    <3> QED BY <1>5, <3>1, <3>2, SeqEqual
  <2>3. Filled(R, q, 0) = q.bytes
    BY FilledStep
  <2> HIDE DEF X
  <2> QED BY <1>1, <2>2, <2>3 DEF WindowOK
<1>7. ASSUME NEW m \in 1..N, m - 1 \in T PROVE m \in T
  <2> DEFINE c == w[m]
  <2>1. /\ c \in 1..Len(R) /\ R[c].to = p /\ R[c] \in ReqRec /\ R[c].size \in Nat
        /\ Pending(R[c]) => R[c].relayedBytes = 0
    <3>1. c \in 1..Len(R) /\ R[c].to = p /\ (Pending(R[c]) => R[c].relayedBytes = 0)
      BY <1>2
    <3> HIDE DEF c
    <3>2. R[c] \in ReqRec
      BY <1>1, <3>1
    <3>3. R[c].size \in Nat
      BY <3>2 DEF ReqRec
    <3> QED BY <3>1, <3>2, <3>3
  <2>2. m - 1 \in 0..N /\ m \in 0..N
    BY <1>1
  <2>3. /\ Filled(R, q, m - 1) \in Int
        /\ Filled(R, q, m) = Filled(R, q, m - 1) + (IF Pending(R[c]) THEN R[c].size ELSE 0)
    BY <2>2, FilledStep
  <2>4. \A d : d \in Sends(R, q, m) <=> d \in Sends(R, q, m - 1) \/ (d = c /\ Pending(R[c]))
    BY <1>1, <2>2, SMTT(30) DEF Sends
  <2>5. c \notin Sends(R, q, m - 1)
    <3> SUFFICES ASSUME c \in Sends(R, q, m - 1) PROVE FALSE
      OBVIOUS
    <3>1. PICK i \in 1..N : i <= m - 1 /\ c = w[i]
      BY DEF Sends
    <3>2. i = m
      BY <1>3, <3>1
    <3> QED BY <1>1, <3>1, <3>2
  <2> HIDE DEF c
  <2>6. SumSeq(X(m - 1)) \in Int
    BY <1>5, SumType
  <2>7. CASE Pending(R[c])
    <3> DEFINE x == X(m - 1)
               v == R[c].size
               y == [x EXCEPT ![c] = v]
    <3>a. X(m - 1)[c] = IF R[c].to = p /\ Pending(R[c])
                        THEN IF c \in Sends(R, q, m - 1) THEN R[c].size ELSE R[c].relayedBytes
                        ELSE 0
      BY <1>4, <2>1
    <3>b. X(m - 1)[c] = 0
      BY <2>1, <2>5, <2>7, <3>a
    <3>1. x \in Seq(Int) /\ Len(x) = Len(R) /\ x[c] = 0 /\ v \in Int
      <4>1. X(m - 1) \in Seq(Int) /\ Len(X(m - 1)) = Len(R)
        BY <1>5, Zenon
      <4>2. v \in Int
        BY <2>1
      <4> QED BY <3>b, <4>1, <4>2, Zenon
    <3>2. X(m) = y
      <4>1. ASSUME NEW d \in 1..Len(R) PROVE X(m)[d] = IF d = c THEN v ELSE x[d]
        BY <1>4, <2>1, <2>4, <2>7
      <4> HIDE DEF x, v, X
      <4>2. y \in Seq(Int) /\ Len(y) = Len(R) /\ \A d \in 1..Len(R) : y[d] = IF d = c THEN v ELSE x[d]
        BY <2>1, <3>1, SMTT(30)
      <4> HIDE DEF y
      <4>3. \A d \in 1..Len(X(m)) : X(m)[d] = y[d]
        BY <1>5, <4>1, <4>2
      <4> QED BY <1>5, <4>2, <4>3, SeqEqual
    <3> HIDE DEF x, v, X
    <3>3. SumSeq(y) = SumSeq(x) - x[c] + v
      BY <2>1, <3>1, SumReplace
    <3> HIDE DEF y
    <3>4. SumSeq(x) \in Int /\ Filled(R, q, m - 1) <= SumSeq(x)
      BY <1>7, <2>6 DEF x
    <3>5. Filled(R, q, m) = Filled(R, q, m - 1) + v
      BY <2>3, <2>7 DEF v
    <3>6. Filled(R, q, m) <= SumSeq(X(m))
      BY <2>3, <3>1, <3>2, <3>3, <3>4, <3>5
    <3> QED BY <2>2, <3>6
  <2>8. CASE ~Pending(R[c])
    <3>1. \A d \in 1..Len(R) : X(m)[d] = X(m - 1)[d]
      BY <1>4, <2>4, <2>8
    <3> HIDE DEF X
    <3>2. X(m) = X(m - 1)
      BY <1>5, <3>1, SeqEqual
    <3>3. Filled(R, q, m) = Filled(R, q, m - 1)
      BY <2>3, <2>8
    <3>4. Filled(R, q, m) <= SumSeq(X(m))
      BY <1>7, <3>2, <3>3
    <3> QED BY <2>2, <3>4
  <2> QED BY <2>7, <2>8
<1> HIDE DEF T, N
<1>8. \A m \in 0..N : m \in T
  BY <1>1, <1>6, <1>7, UpTo
<1>9. n \in T
  BY <1>8 DEF N
<1> QED BY <1>9 DEF T

(* The walk goes to some place: what it sends is what waits before, and    *)
(* where it stops before the end the window is not empty.                  *)
Walks(R, q, direct, w, n) ==
    /\ w.sent = Sends(R, q, n)
    /\ w.bytes = IF direct THEN q.bytes ELSE Filled(R, q, n)
    /\ w.rest = SubSeq(q.waiting, n + 1, Len(q.waiting))
    /\ direct => n = Len(q.waiting)
    /\ n < Len(q.waiting) => Filled(R, q, n) > 0
LEMMA WalkIs ==
  ASSUME NEW R, ReqsOK(R), NEW p, NEW q, WindowOK(R, q, p), NEW direct \in BOOLEAN
  PROVE  \E n \in 0..Len(q.waiting) : Walks(R, q, direct, Walk(R, q, direct), n)
<1> DEFINE N == Len(q.waiting)
           alive == {i \in 1..N : Pending(R[q.waiting[i]])}
           stops == {i \in alive : ~direct /\ ~Fits(Filled(R, q, i - 1), R[q.waiting[i]].size)}
           n == IF stops = {} THEN N ELSE Min(stops) - 1
           w == Walk(R, q, direct)
<1>1. N \in Nat
  BY DEF WindowOK, WindowRec
<1>2. /\ w.sent = {q.waiting[i] : i \in {k \in alive : k <= n}}
      /\ w.bytes = IF direct THEN q.bytes ELSE Filled(R, q, n)
      /\ w.rest = SubSeq(q.waiting, n + 1, N)
  BY Zenon DEF Walk
<1>3. w.sent = Sends(R, q, n)
  BY <1>2, Zenon DEF Sends
<1>4. n \in 0..N /\ (direct => n = N) /\ (n < N => Filled(R, q, n) > 0)
  <2>1. CASE stops = {}
    BY <1>1, <2>1
  <2>2. CASE stops # {}
    <3> DEFINE k == Min(stops)
    <3>1. stops \in SUBSET Nat
      BY SMTT(30)
    <3>2. k \in stops
      BY <2>2, <3>1, MinNat
    <3>3. k \in 1..N /\ ~direct /\ ~Fits(Filled(R, q, k - 1), R[q.waiting[k]].size)
      BY <3>2
    <3> HIDE DEF k
    <3>4. k - 1 \in 0..N
      BY <1>1, <3>3
    <3>5. Filled(R, q, k - 1) \in Int
      BY <3>4, FilledStep
    <3>6. Filled(R, q, k - 1) > 0
      BY <3>3, <3>5 DEF Fits
    <3>7. n = k - 1
      BY <2>2 DEF k
    <3> HIDE DEF n
    <3> QED BY <3>3, <3>4, <3>6, <3>7
  <2> QED BY <2>1, <2>2
<1> HIDE DEF n, w
<1>5. Walks(R, q, direct, w, n)
  BY <1>2, <1>3, <1>4 DEF Walks
<1> QED BY <1>4, <1>5 DEF w

(* What is left of those that wait. *)
LEMMA RestIs ==
  ASSUME NEW R, ReqsOK(R), NEW p, NEW q, WindowOK(R, q, p), NEW n \in 0..Len(q.waiting),
         NEW rest, rest = SubSeq(q.waiting, n + 1, Len(q.waiting))
  PROVE  /\ rest \in Seq(Nat) /\ Len(rest) = Len(q.waiting) - n
         /\ \A i \in 1..Len(rest) : n + i \in 1..Len(q.waiting) /\ rest[i] = q.waiting[n + i]
<1> DEFINE w == q.waiting
           N == Len(w)
<1>1. w \in Seq(Nat) /\ N \in Nat /\ \A k \in 1..N : w[k] \in Nat
  BY DEF WindowOK, WindowRec
<1>2. n + 1 \in Int /\ N \in Int /\ \A k \in (n + 1)..N : w[k] \in Nat
  BY <1>1, SMTT(30)
<1> HIDE DEF w, N
<1>3. rest = SubSeq(w, n + 1, N)
  BY DEF w, N
<1>4. /\ rest \in Seq(Nat) /\ Len(rest) = (IF n + 1 <= N THEN N - (n + 1) + 1 ELSE 0)
      /\ \A k \in 1..(N - (n + 1) + 1) : rest[k] = w[n + 1 + k - 1]
  BY <1>2, <1>3, SubSeqProperties, SMTT(30)
<1>5. n \in 0..N
  BY DEF N, w
<1>6. Len(rest) = N - n
  BY <1>1, <1>4, <1>5
<1>7. ASSUME NEW i \in 1..Len(rest) PROVE n + i \in 1..N /\ rest[i] = w[n + i]
  <2>1. i \in 1..(N - n) /\ i \in 1..(N - (n + 1) + 1) /\ n + 1 + i - 1 = n + i /\ n + i \in 1..N
    BY <1>1, <1>5, <1>6
  <2> QED BY <1>4, <2>1
<1> QED BY <1>4, <1>6, <1>7 DEF w, N

(* After the walk those behind where it stopped still wait, and no other   *)
(* is held.                                                                *)
Leaves(T, rest, p) ==
    /\ Once(rest)
    /\ \A i \in 1..Len(rest) : /\ rest[i] \in 1..Len(T) /\ T[rest[i]].to = p
                               /\ Pending(T[rest[i]]) => T[rest[i]].held
    /\ \A c \in 1..Len(T) : T[c].to = p /\ T[c].held => In(rest, c)
LEMMA WalkLeaves ==
  ASSUME NEW R, ReqsOK(R), NEW p, NEW q, WindowOK(R, q, p), NEW n \in 0..Len(q.waiting),
         NEW direct \in BOOLEAN, NEW rest, rest = SubSeq(q.waiting, n + 1, Len(q.waiting)),
         NEW T, T = Sent(R, Sends(R, q, n), direct)
  PROVE  Leaves(T, rest, p)
<1> DEFINE w == q.waiting
           N == Len(w)
           S == Sends(R, q, n)
<1>1. /\ rest \in Seq(Nat) /\ Len(rest) = N - n /\ N \in Nat
      /\ \A i \in 1..Len(rest) : n + i \in 1..N /\ rest[i] = w[n + i]
  BY RestIs, SMTT(30) DEF WindowOK, WindowRec
<1>2. /\ \A j, k \in 1..N : w[j] = w[k] => j = k
      /\ \A i \in 1..N : /\ w[i] \in 1..Len(R) /\ R[w[i]].to = p
                         /\ Pending(R[w[i]]) => R[w[i]].held
  BY DEF WindowOK, Once
<1>3. \A c \in 1..Len(R) : Settles(R[c]) /\ (R[c].to = p /\ R[c].held => In(w, c))
  BY DEF WindowOK, ReqsOK
<1>4. /\ Len(T) = Len(R)
      /\ \A c \in 1..Len(R) : /\ c \notin S => T[c] = R[c]
                              /\ T[c].to = R[c].to
                              /\ c \in S => ~T[c].held
  BY SentEach DEF Alike
<1>5. Once(rest)
  BY <1>1, <1>2, SMTT(30) DEF Once
<1>6. ASSUME NEW i \in 1..Len(rest)
      PROVE  /\ rest[i] \in 1..Len(T) /\ T[rest[i]].to = p
             /\ Pending(T[rest[i]]) => T[rest[i]].held
  <2> DEFINE c == rest[i]
  <2>1. /\ n + i \in 1..N /\ c = w[n + i] /\ c \in 1..Len(R) /\ R[c].to = p
        /\ Pending(R[c]) => R[c].held
    BY <1>1, <1>2, SMTT(30)
  <2>2. c \notin S
    <3> SUFFICES ASSUME c \in S PROVE FALSE
      OBVIOUS
    <3>1. PICK k \in 1..N : k <= n /\ c = w[k]
      BY DEF Sends
    <3>2. k = n + i
      BY <1>2, <2>1, <3>1
    <3> QED BY <1>1, <3>1, <3>2
  <2> HIDE DEF c, S
  <2>3. T[c] = R[c]
    BY <1>4, <2>1, <2>2
  <2>4. c \in 1..Len(T)
    BY <1>4, <2>1
  <2> QED BY <2>1, <2>3, <2>4 DEF c
<1>7. ASSUME NEW c \in 1..Len(T), T[c].to = p, T[c].held PROVE In(rest, c)
  <2>1. c \in 1..Len(R) /\ c \notin S
    BY <1>4, <1>7
  <2>2. T[c] = R[c]
    BY <1>4, <2>1
  <2>3. R[c].to = p /\ R[c].held
    BY <1>7, <2>2
  <2>4. In(w, c) /\ Pending(R[c])
    BY <1>3, <2>1, <2>3 DEF Settles
  <2>5. PICK i \in 1..N : w[i] = c
    BY <2>4 DEF In
  <2>6. ~(i <= n)
    BY <2>1, <2>4, <2>5 DEF Sends
  <2>7. i - n \in 1..Len(rest) /\ n + (i - n) = i
    BY <1>1, <2>6, SMTT(30)
  <2>8. rest[i - n] = c
    BY <1>1, <2>5, <2>7
  <2> QED BY <2>7, <2>8 DEF In
<1> QED BY <1>5, <1>6, <1>7 DEF Leaves

(* What a pump leaves: the window in order, and not empty while some wait. *)
Pumped(R, q, p, direct, r) ==
    /\ ReqsOK(r.req) /\ Len(r.req) = Len(R)
    /\ \A c \in 1..Len(R) : r.req[c].to = R[c].to /\ (R[c].to # p => r.req[c] = R[c])
    /\ WindowOK(r.req, r.window, p)
    /\ r.window.waiting # << >> => r.window.bytes > 0
    /\ r.window.open => q.open /\ ~direct
LEMMA PumpOK ==
  ASSUME NEW R, ReqsOK(R), NEW p, NEW q, WindowOK(R, q, p), NEW direct \in BOOLEAN
  PROVE  Pumped(R, q, p, direct, pumpRelayed(R, q, direct))
<1> DEFINE r == pumpRelayed(R, q, direct)
<1>1. CASE ~q.open
  <2>1. r.req = R /\ r.window = q
    BY <1>1 DEF pumpRelayed
  <2>2. q.waiting = << >>
    BY <1>1 DEF WindowOK
  <2> HIDE DEF r
  <2>3. Pumped(R, q, p, direct, r)
    BY <1>1, <2>1, <2>2 DEF Pumped
  <2> QED BY <2>3 DEF r
<1>2. CASE q.open
  <2> DEFINE w == Walk(R, q, direct)
  <2>1. PICK n \in 0..Len(q.waiting) : Walks(R, q, direct, w, n)
    BY WalkIs
  <2> DEFINE S == Sends(R, q, n)
             T == Sent(R, S, direct)
             rest == w.rest
             u == [q EXCEPT !.bytes = w.bytes, !.waiting = rest]
             win == IF rest = << >> /\ (direct \/ w.bytes = 0) THEN NoWindow ELSE u
  <2>2. DOMAIN R = 1..Len(R) /\ Len(R) \in Nat /\ R \in Seq(ReqRec)
    BY DEF ReqsOK
  <2>3. w.sent = S /\ rest = SubSeq(q.waiting, n + 1, Len(q.waiting))
    BY <2>1 DEF Walks
  <2>4. r.req = T /\ r.window = win
    BY <1>2, <2>2, <2>3, Zenon DEF pumpRelayed, Sent, SentBy
  <2> HIDE DEF r, w, S
  <2>5. /\ ReqsOK(T) /\ Len(T) = Len(R) /\ T \in Seq(ReqRec)
        /\ \A c \in 1..Len(R) : T[c].to = R[c].to /\ (c \notin S => T[c] = R[c])
    BY SentEach DEF Alike
  <2>6. /\ Once(rest)
        /\ \A i \in 1..Len(rest) : /\ rest[i] \in 1..Len(T) /\ T[rest[i]].to = p
                                   /\ Pending(T[rest[i]]) => T[rest[i]].held
        /\ \A c \in 1..Len(T) : T[c].to = p /\ T[c].held => In(rest, c)
    <3>1. rest = SubSeq(q.waiting, n + 1, Len(q.waiting)) /\ T = Sent(R, Sends(R, q, n), direct)
      BY <2>3 DEF S
    <3> HIDE DEF T, rest
    <3>2. Leaves(T, rest, p)
      BY <3>1, WalkLeaves
    <3> QED BY <3>2 DEF Leaves
  <2>7. ASSUME NEW c \in 1..Len(R), R[c].to # p PROVE T[c] = R[c]
    <3>1. c \notin S
      BY <2>7 DEF S, Sends, WindowOK
    <3> QED BY <2>5, <3>1
  <2>8. /\ rest \in Seq(Nat) /\ Len(rest) = Len(q.waiting) - n /\ Len(q.waiting) \in Nat
    BY <2>3, RestIs, SMTT(30) DEF WindowOK, WindowRec
  <2> HIDE DEF T, rest
  <2>9. CASE rest = << >> /\ (direct \/ w.bytes = 0)
    <3>1. win = NoWindow
      BY <2>9
    <3>2. \A c \in 1..Len(T) : T[c].to = p => ~T[c].held
      BY <2>6, <2>9 DEF In
    <3>3. WindowOK(T, NoWindow, p)
      BY <2>5, <3>2, NoWindowOK
    <3>4. NoWindow.waiting = << >> /\ ~NoWindow.open
      BY DEF NoWindow
    <3> QED BY <2>4, <2>5, <2>7, <3>1, <3>3, <3>4 DEF Pumped, r
  <2>10. CASE ~(rest = << >> /\ (direct \/ w.bytes = 0))
    <3>1. ~direct
      BY <2>1, <2>8, <2>10 DEF Walks
    <3>2. w.bytes = Filled(R, q, n) /\ (n < Len(q.waiting) => Filled(R, q, n) > 0) /\ Filled(R, q, n) \in Int
      BY <2>1, <3>1, FilledStep DEF Walks
    <3>3. win = u
      BY <2>10
    <3> DEFINE b == w.bytes
    <3>4. q \in WindowRec /\ b \in Int /\ rest \in Seq(Nat)
      BY <2>8, <3>2 DEF WindowOK
    <3> HIDE DEF b
    <3>5. u = [q EXCEPT !.bytes = b, !.waiting = rest]
      BY DEF b
    <3> HIDE DEF u
    <3>6. u \in WindowRec /\ u.bytes = b /\ u.waiting = rest /\ u.open
      BY <1>2, <3>4, <3>5 DEF WindowRec
    <3>7. b <= SumSeq(Carried(T, p))
      <4>1. direct = FALSE
        BY <3>1
      <4>2. T = Sent(R, Sends(R, q, n), FALSE)
        BY <4>1 DEF T, S
      <4> QED BY <3>2, <4>2, FilledCarried DEF b
    <3>8. WindowOK(T, u, p)
      BY <2>6, <3>6, <3>7 DEF WindowOK
    <3>9. u.waiting # << >> => u.bytes > 0
      BY <2>8, <3>2, <3>6 DEF b
    <3> QED BY <1>2, <2>4, <2>5, <2>7, <3>1, <3>3, <3>6, <3>8, <3>9 DEF Pumped, r
  <2> QED BY <2>9, <2>10
<1> QED BY <1>1, <1>2

(* The requests and windows of all peers. *)
Drains(q) == q.waiting # << >> => q.bytes > 0
RequestsInv ==
    /\ ReqsOK(req)
    /\ DOMAIN relayed = Peers /\ DOMAIN route = Peers
    /\ \A p \in Peers : WindowOK(req, relayed[p], p) /\ Drains(relayed[p])
    /\ \A p \in Peers : relayed[p].open => route[p] = "relayed"

(* Every pump of one peer's window keeps all of them. *)
LEMMA PumpsStep ==
  ASSUME RequestsInv, NEW R, ReqsOK(R), NEW p \in Peers, NEW q, WindowOK(R, q, p),
         \A o \in Peers : o # p => WindowOK(R, relayed[o], o),
         NEW direct \in BOOLEAN, Pumps(p, R, q, direct), DOMAIN route' = Peers,
         \A o \in Peers : o # p => route'[o] = route[o],
         ~direct => route'[p] = "relayed"
  PROVE  RequestsInv'
<1> DEFINE r == pumpRelayed(R, q, direct)
<1>1. Pumped(R, q, p, direct, r)
  BY PumpOK
<1>2. req' = r.req /\ relayed' = [relayed EXCEPT ![p] = r.window] /\ DOMAIN relayed = Peers
  BY DEF Pumps, RequestsInv
<1> HIDE DEF r
<1>3. /\ ReqsOK(r.req) /\ Len(r.req) = Len(R)
      /\ \A c \in 1..Len(R) : r.req[c].to = R[c].to /\ (R[c].to # p => r.req[c] = R[c])
      /\ WindowOK(r.req, r.window, p) /\ Drains(r.window) /\ (r.window.open => ~direct)
  BY <1>1 DEF Pumped, Drains
<1>4. R \in Seq(ReqRec) /\ r.req \in Seq(ReqRec)
  BY <1>3 DEF ReqsOK
<1>5. ASSUME NEW o \in Peers, o # p
      PROVE  WindowOK(req', relayed'[o], o) /\ Drains(relayed'[o]) /\ (relayed'[o].open => route'[o] = "relayed")
  <2>1. relayed'[o] = relayed[o]
    BY <1>2, <1>5
  <2> DEFINE T == r.req
             z == relayed[o]
  <2>2. /\ T \in Seq(ReqRec) /\ Len(T) = Len(R) /\ WindowOK(R, z, o)
        /\ \A c \in 1..Len(R) : T[c].to = R[c].to
        /\ \A c \in 1..Len(R) : R[c].to = o => T[c] = R[c]
    BY <1>3, <1>4, <1>5
  <2> HIDE DEF T, z
  <2>3. WindowOK(T, z, o)
    BY <1>4, <2>2, WindowKept
  <2> QED BY <1>2, <1>5, <2>1, <2>3 DEF RequestsInv, T, z
<1>6. relayed'[p] = r.window
  BY <1>2
<1>7. ASSUME NEW o \in Peers
      PROVE  WindowOK(req', relayed'[o], o) /\ Drains(relayed'[o]) /\ (relayed'[o].open => route'[o] = "relayed")
  <2>1. CASE o = p
    BY <1>2, <1>3, <1>6, <2>1
  <2> QED BY <1>5, <2>1
<1>8. DOMAIN relayed' = Peers /\ ReqsOK(req')
  BY <1>2, <1>3
<1> QED BY <1>7, <1>8 DEF RequestsInv

(* A request more, put: no window changes. *)
LEMMA RequestPut ==
  ASSUME RequestsInv, NEW e \in ReqRec, Settles(e), ~e.held, e.relayedBytes = 0
  PROVE  ReqsOK(Append(req, e)) /\ \A p \in Peers : WindowOK(Append(req, e), relayed[p], p)
<1>1. ReqsOK(Append(req, e))
  <2> DEFINE T == Append(req, e)
             N == Len(req)
  <2>1. /\ req \in Seq(ReqRec) /\ N \in Nat /\ T \in Seq(ReqRec) /\ Len(T) = N + 1 /\ T[N + 1] = e
        /\ \A c \in 1..N : T[c] = req[c]
    BY DEF RequestsInv, ReqsOK
  <2>2. \A c \in 1..N : Settles(req[c])
    BY DEF RequestsInv, ReqsOK
  <2> HIDE DEF T
  <2>3. ASSUME NEW c \in 1..Len(T) PROVE Settles(T[c])
    BY <2>1, <2>2
  <2>4. ReqsOK(T)
    BY <2>1, <2>3 DEF ReqsOK
  <2> QED BY <2>4 DEF T
<1>2. ASSUME NEW p \in Peers PROVE WindowOK(Append(req, e), relayed[p], p)
  BY WindowGrows DEF RequestsInv, ReqsOK
<1> QED BY <1>1, <1>2

(* One held back joins its window's queue. *)
Queues(q, c) == [q EXCEPT !.open = TRUE, !.waiting = Append(@, c)]
LEMMA RequestHeld ==
  ASSUME NEW R, ReqsOK(R), NEW p, NEW q, WindowOK(R, q, p), NEW e \in ReqRec, Settles(e),
         e.to = p, e.held, e.relayedBytes = 0,
         NEW z, z = Queues(q, Len(R) + 1)
  PROVE  ReqsOK(Append(R, e)) /\ WindowOK(Append(R, e), z, p)
<1> DEFINE T == Append(R, e)
           N == Len(R)
           w == q.waiting
           M == Len(w)
           y == Append(w, N + 1)
<1>1. /\ R \in Seq(ReqRec) /\ N \in Nat /\ T \in Seq(ReqRec) /\ Len(T) = N + 1 /\ T[N + 1] = e
      /\ \A c \in 1..N : T[c] = R[c]
  BY DEF ReqsOK
<1>2. \A c \in 1..N : Settles(R[c])
  BY DEF ReqsOK
<1>3. /\ w \in Seq(Nat) /\ M \in Nat /\ \A i \in 1..M : w[i] \in 1..N
  BY DEF WindowOK, WindowRec
<1>4. /\ y \in Seq(Nat) /\ Len(y) = M + 1 /\ y[M + 1] = N + 1 /\ \A i \in 1..M : y[i] = w[i]
  BY <1>1, <1>3
<1> HIDE DEF T, y, N, M
<1>5. ReqsOK(T)
  <2>1. ASSUME NEW c \in 1..Len(T) PROVE Settles(T[c])
    BY <1>1, <1>2
  <2> QED BY <1>1, <2>1 DEF ReqsOK
<1>6. z \in WindowRec /\ z.open /\ z.bytes = q.bytes /\ z.waiting = y
  <2>1. q \in WindowRec
    BY DEF WindowOK
  <2> DEFINE yes == TRUE
  <2>2. z = [q EXCEPT !.open = yes, !.waiting = y]
    BY DEF y, N, Queues
  <2>3. yes \in BOOLEAN
    OBVIOUS
  <2>4. yes
    OBVIOUS
  <2> HIDE DEF yes
  <2>5. z \in WindowRec /\ z.open = yes /\ z.bytes = q.bytes /\ z.waiting = y
    BY <1>4, <2>1, <2>2, <2>3 DEF WindowRec
  <2> QED BY <2>4, <2>5
<1>7. Once(y)
  <2> SUFFICES ASSUME NEW j \in 1..(M + 1), NEW k \in 1..(M + 1), y[j] = y[k] PROVE j = k
    BY <1>4 DEF Once
  <2>1. \A i \in 1..M : y[i] \in 1..N
    BY <1>3, <1>4
  <2>2. CASE j \in 1..M /\ k \in 1..M
    <3>1. \A m, l \in 1..Len(w) : w[m] = w[l] => m = l
      BY DEF WindowOK, Once
    <3> QED BY <1>4, <2>2, <3>1 DEF M
  <2>3. CASE ~(j \in 1..M /\ k \in 1..M)
    <3>1. (j = M + 1 \/ j \in 1..M) /\ (k = M + 1 \/ k \in 1..M)
      BY <1>3
    <3>2. ~(N + 1 \in 1..N)
      BY <1>1
    <3> QED BY <1>4, <2>1, <2>3, <3>1, <3>2
  <2> QED BY <2>2, <2>3
<1>8. ASSUME NEW i \in 1..Len(y)
      PROVE  /\ y[i] \in 1..Len(T) /\ T[y[i]].to = p
             /\ Pending(T[y[i]]) => T[y[i]].held
  <2>1. CASE i \in 1..M
    <3>1. /\ w[i] \in 1..N /\ R[w[i]].to = p
          /\ Pending(R[w[i]]) => R[w[i]].held
      BY <2>1 DEF WindowOK, N, M
    <3> QED BY <1>1, <1>4, <2>1, <3>1, SMTT(30)
  <2>2. CASE i = M + 1
    BY <1>1, <1>4, <2>2
  <2> QED BY <1>3, <1>4, <2>1, <2>2
<1>9. ASSUME NEW c \in 1..Len(T), T[c].to = p, T[c].held PROVE In(y, c)
  <2>1. CASE c \in 1..N
    <3>1. In(w, c)
      BY <1>1, <1>9, <2>1 DEF WindowOK, N
    <3>2. PICK i \in 1..M : w[i] = c
      BY <3>1 DEF In, M
    <3>3. i \in 1..Len(y) /\ y[i] = c
      BY <1>3, <1>4, <3>2
    <3> QED BY <3>3 DEF In
  <2>2. CASE c = N + 1
    <3>1. M + 1 \in 1..Len(y) /\ y[M + 1] = c
      BY <1>3, <1>4, <2>2
    <3> QED BY <3>1 DEF In, M
  <2> QED BY <1>1, <2>1, <2>2
<1>10. q.bytes <= SumSeq(Carried(T, p))
  <2> DEFINE x == Carried(R, p)
  <2>1. x \in Seq(Int) /\ SumSeq(x) \in Nat /\ q.bytes <= SumSeq(x) /\ q.bytes \in Int
    BY <1>1, CarriedTyped DEF WindowOK, WindowRec
  <2>2. Carried(T, p) = Append(x, 0)
    BY <1>1 DEF Carried, N
  <2> HIDE DEF x
  <2>3. SumSeq(Append(x, 0)) = SumSeq(x) + 0
    BY <2>1, SumAppend
  <2> QED BY <2>1, <2>2, <2>3
<1>11. WindowOK(T, z, p)
  BY <1>6, <1>7, <1>8, <1>9, <1>10 DEF WindowOK
<1> QED BY <1>5, <1>11 DEF T

(* A request settled, or its dial over. *)
Changed(u, e) == /\ Alike(u, e) /\ Settles(u) /\ u.relayedBytes = e.relayedBytes
                 /\ u.held => e.held
                 /\ Pending(u) => Pending(e) /\ u.held = e.held

(* Settling one that is pending. *)
LEMMA SettleChanges ==
  ASSUME NEW e \in ReqRec, Settles(e), Pending(e), NEW x \in Results \ {"none"}
  PROVE  Changed(Settle(e, x), e) /\ ~Pending(Settle(e, x))
<1> DEFINE u == Settle(e, x)
<1>1. /\ Alike(u, e) /\ ~u.held /\ u.result = x /\ u.settled = e.settled + 1 /\ u.relayedBytes = e.relayedBytes
  BY SettledIs
<1>2. e.settled = 0
  BY DEF Settles
<1> HIDE DEF u
<1>3. ~Pending(u)
  BY <1>1 DEF Pending
<1>4. Settles(u)
  BY <1>1, <1>2, <1>3 DEF Settles
<1>5. Changed(u, e)
  BY <1>1, <1>3, <1>4 DEF Changed
<1> QED BY <1>3, <1>5 DEF u

(* What a change does to the requests. *)
LEMMA ChangeIs ==
  ASSUME NEW R, ReqsOK(R), NEW c \in 1..Len(R), NEW u, Changed(u, R[c])
  PROVE  LET T == [R EXCEPT ![c] = u]
         IN /\ ReqsOK(T) /\ T \in Seq(ReqRec) /\ Len(T) = Len(R) /\ T[c] = u
            /\ \A d \in 1..Len(R) : d # c => T[d] = R[d]
            /\ \A d \in 1..Len(R) : T[d].to = R[d].to
<1> DEFINE T == [R EXCEPT ![c] = u]
           N == Len(R)
<1>1. R \in Seq(ReqRec) /\ N \in Nat /\ u \in ReqRec /\ u.to = R[c].to /\ Settles(u)
  BY DEF ReqsOK, Changed, Alike
<1>2. \A d \in 1..N : Settles(R[d])
  BY DEF ReqsOK
<1>3. T \in Seq(ReqRec) /\ Len(T) = N /\ T[c] = u /\ \A d \in 1..N : d # c => T[d] = R[d]
  BY <1>1
<1> HIDE DEF T
<1>4. \A d \in 1..N : Settles(T[d]) /\ T[d].to = R[d].to
  BY <1>1, <1>2, <1>3
<1>5. ReqsOK(T)
  BY <1>3, <1>4 DEF ReqsOK
<1> QED BY <1>3, <1>4, <1>5 DEF T

(* A change keeps a window that gives back what the request took of it. *)
LEMMA WindowChanged ==
  ASSUME NEW R, ReqsOK(R), NEW c \in 1..Len(R), NEW u, Changed(u, R[c]),
         NEW p, NEW q, WindowOK(R, q, p),
         NEW z \in WindowRec, z.waiting = q.waiting, z.open = q.open, ~z.open => z.bytes = 0,
         \/ z.bytes = 0
         \/ z.bytes + (IF R[c].to = p /\ Pending(R[c]) /\ ~Pending(u) THEN R[c].relayedBytes ELSE 0) <= q.bytes
  PROVE  WindowOK([R EXCEPT ![c] = u], z, p)
<1> DEFINE T == [R EXCEPT ![c] = u]
           N == Len(R)
<1>1. /\ ReqsOK(T) /\ T \in Seq(ReqRec) /\ Len(T) = N /\ T[c] = u
      /\ \A d \in 1..N : d # c => T[d] = R[d]
      /\ \A d \in 1..N : T[d].to = R[d].to
  BY ChangeIs
<1>2. R \in Seq(ReqRec) /\ N \in Nat
  BY DEF ReqsOK
<1> HIDE DEF T
<1> DEFINE w == q.waiting
<1>3. ASSUME NEW d \in 1..N PROVE (T[d].held => R[d].held) /\ (Pending(T[d]) => Pending(R[d]) /\ T[d].held = R[d].held)
  <2>1. CASE d = c
    BY <1>1, <2>1 DEF Changed
  <2> QED BY <1>1, <2>1
<1>4. ASSUME NEW i \in 1..Len(w)
      PROVE  /\ w[i] \in 1..Len(T) /\ T[w[i]].to = p
             /\ Pending(T[w[i]]) => T[w[i]].held
  <2>1. /\ w[i] \in 1..N /\ R[w[i]].to = p
        /\ Pending(R[w[i]]) => R[w[i]].held
    BY DEF WindowOK
  <2> QED BY <1>1, <1>3, <2>1
<1>5. ASSUME NEW d \in 1..Len(T), T[d].to = p, T[d].held PROVE In(w, d)
  BY <1>1, <1>3, <1>5 DEF WindowOK
<1>6. z.bytes <= SumSeq(Carried(T, p))
  <2> DEFINE x == Carried(R, p)
             y == Carried(T, p)
             v == IF u.to = p /\ Pending(u) THEN u.relayedBytes ELSE 0
  <2>1. x \in Seq(Int) /\ Len(x) = N /\ SumSeq(x) \in Nat /\ SumSeq(y) \in Nat /\ y \in Seq(Int) /\ Len(y) = N
    BY <1>1, <1>2, CarriedTyped
  <2>2. x[c] = (IF R[c].to = p /\ Pending(R[c]) THEN R[c].relayedBytes ELSE 0)
    BY DEF Carried
  <2>3. y[c] = v /\ \A d \in 1..N : d # c => y[d] = x[d]
    BY <1>1 DEF Carried
  <2>4. u.relayedBytes \in Nat /\ R[c].relayedBytes = u.relayedBytes /\ u.to = R[c].to
    BY DEF Changed, Alike, ReqRec
  <2>5. v \in Int
    BY <2>4
  <2> HIDE DEF x, y, v
  <2>6. y = [x EXCEPT ![c] = v]
    <3> DEFINE t == [x EXCEPT ![c] = v]
    <3>1. t \in Seq(Int) /\ Len(t) = N /\ t[c] = v /\ \A d \in 1..N : d # c => t[d] = x[d]
      BY <2>1, <2>5
    <3> HIDE DEF t
    <3>2. \A d \in 1..N : y[d] = t[d]
      BY <2>3, <3>1
    <3>3. y = t
      BY <1>2, <2>1, <3>1, <3>2, SeqEqual
    <3> QED BY <3>3 DEF t
  <2>7. SumSeq(y) = SumSeq(x) - x[c] + v
    BY <2>1, <2>5, <2>6, SumReplace, ZenonT(40)
  <2>8. q.bytes \in Int /\ z.bytes \in Int /\ q.bytes <= SumSeq(x)
    BY DEF WindowOK, WindowRec, x
  <2>9. x[c] - v = IF R[c].to = p /\ Pending(R[c]) /\ ~Pending(u) THEN R[c].relayedBytes ELSE 0
    BY <2>2, <2>4 DEF v, Changed
  <2>10. x[c] \in Int
    BY <2>2, <2>4
  <2> DEFINE take == IF R[c].to = p /\ Pending(R[c]) /\ ~Pending(u) THEN R[c].relayedBytes ELSE 0
  <2>11. take = x[c] - v /\ (z.bytes = 0 \/ z.bytes + take <= q.bytes)
    BY <2>9
  <2> HIDE DEF take
  <2>12. z.bytes <= SumSeq(y)
    <3> DEFINE a == SumSeq(x)
               b == SumSeq(y)
               m == z.bytes
               n == q.bytes
               k == x[c]
    <3>1. /\ {a, b} \subseteq Nat /\ {m, n, k, v} \subseteq Int /\ n <= a /\ b = a - k + v
          /\ m = 0 \/ m + (k - v) <= n
      BY <2>1, <2>5, <2>7, <2>8, <2>10, <2>11
    <3> HIDE DEF a, b, m, n, k
    <3>2. m <= b
      BY <3>1, SMTT(30)
    <3> QED BY <3>2 DEF m, b
  <2> QED BY <2>12 DEF y
<1>7. Once(w)
  BY DEF WindowOK
<1>8. ~z.open => z.bytes = 0 /\ z.waiting = << >>
  BY DEF WindowOK
<1>9. WindowOK(T, z, p)
  BY <1>4, <1>5, <1>6, <1>7, <1>8 DEF WindowOK
<1> QED BY <1>9 DEF T

(* And keeps as they are the windows it takes nothing of. *)
LEMMA ChangeKeeps ==
  ASSUME RequestsInv, NEW c \in Corrs, NEW u, Changed(u, req[c]),
         req' = [req EXCEPT ![c] = u], relayed' = relayed, route' = route,
         Pending(u) \/ ~Pending(req[c]) \/ req[c].relayedBytes = 0 \/ ~relayed[req[c].to].open
  PROVE  RequestsInv'
<1>1. ReqsOK(req) /\ c \in 1..Len(req)
  BY DEF RequestsInv, Corrs
<1>2. ReqsOK(req')
  BY <1>1, ChangeIs
<1>3. ASSUME NEW p \in Peers PROVE WindowOK(req', relayed[p], p)
  <2> DEFINE z == relayed[p]
             take == IF req[c].to = p /\ Pending(req[c]) /\ ~Pending(u) THEN req[c].relayedBytes ELSE 0
  <2>1. WindowOK(req, z, p)
    BY DEF RequestsInv
  <2>2. z \in WindowRec /\ z.bytes \in Int /\ (~z.open => z.bytes = 0)
    BY <2>1 DEF WindowOK, WindowRec
  <2>3. take = 0 \/ ~z.open
    OBVIOUS
  <2>4. z.bytes = 0 \/ z.bytes + take <= z.bytes
    BY <2>2, <2>3
  <2> HIDE DEF z
  <2>5. WindowOK([req EXCEPT ![c] = u], z, p)
    BY <1>1, <2>1, <2>2, <2>4, WindowChanged
  <2> QED BY <2>5 DEF z
<1> QED BY <1>2, <1>3 DEF RequestsInv

(* Nothing of them changes. *)
LEMMA RequestsSame ==
  ASSUME RequestsInv, req' = req, relayed' = relayed, DOMAIN route' = Peers,
         \A p \in Peers : route[p] = "relayed" => route'[p] = "relayed"
  PROVE  RequestsInv'
  BY DEF RequestsInv

(* finish *)
LEMMA FinishKeeps ==
  ASSUME RequestsInv, NEW c \in Corrs, NEW x \in Results \ {"none"}, finish(c, x), route' = route
  PROVE  RequestsInv'
<1> DEFINE e == req[c]
           u == Settle(e, x)
           R == [req EXCEPT ![c] = u]
           p == e.to
           q == relayed[p]
           z == [q EXCEPT !.bytes = @ - e.relayedBytes]
<1>1. ReqsOK(req) /\ c \in 1..Len(req) /\ e \in ReqRec /\ Settles(e)
  BY DEF RequestsInv, Corrs, ReqsOK
<1>2. p \in Peers /\ e.relayedBytes \in Nat
  BY <1>1 DEF ReqRec
<1>3. CASE ~Pending(e)
  <2>1. req' = req /\ relayed' = relayed
    BY <1>3 DEF finish, Finishes
  <2> QED BY <2>1 DEF RequestsInv
<1>4. CASE Pending(e)
  <2>1. Changed(u, e) /\ ~Pending(u)
    BY <1>1, <1>4, SettleChanges
  <2>2. CASE e.relayedBytes > 0 /\ q.open
    <3> DEFINE direct == route[p] # "relayed"
    <3>1. Pumps(p, R, z, direct)
      BY <1>4, <2>2 DEF finish, Finishes
    <3> HIDE DEF e, u
    <3>2. ReqsOK(R)
      BY <1>1, <2>1, ChangeIs DEF e
    <3>3. WindowOK(req, q, p)
      BY <1>2 DEF RequestsInv
    <3>4. z \in WindowRec /\ z.waiting = q.waiting /\ z.open = q.open /\ z.bytes = q.bytes - e.relayedBytes
      <4> DEFINE b == q.bytes - e.relayedBytes
      <4>1. q \in WindowRec /\ b \in Int
        BY <1>2, <3>3 DEF WindowOK, WindowRec
      <4>2. z = [q EXCEPT !.bytes = b]
        OBVIOUS
      <4> HIDE DEF b, z, q
      <4>3. z \in WindowRec /\ z.waiting = q.waiting /\ z.open = q.open /\ z.bytes = b
        BY <4>1, <4>2 DEF WindowRec
      <4> QED BY <4>3 DEF b
    <3>5. WindowOK(R, z, p)
      <4>1. z.bytes + (IF e.to = p /\ Pending(e) /\ ~Pending(u) THEN e.relayedBytes ELSE 0) <= q.bytes
        <5>1. q.bytes \in Int
          BY <3>3 DEF WindowOK, WindowRec
        <5> HIDE DEF z, q
        <5> QED BY <1>2, <1>4, <2>1, <3>4, <5>1
      <4> HIDE DEF z, q, p
      <4> QED BY <1>1, <2>1, <2>2, <3>3, <3>4, <4>1, WindowChanged DEF e
    <3>6. ASSUME NEW o \in Peers, o # p PROVE WindowOK(R, relayed[o], o)
      <4> DEFINE y == relayed[o]
      <4>1. WindowOK(req, y, o)
        BY DEF RequestsInv
      <4>2. y \in WindowRec /\ y.bytes \in Int /\ (~y.open => y.bytes = 0)
        BY <4>1 DEF WindowOK, WindowRec
      <4>3. y.bytes + (IF e.to = o /\ Pending(e) /\ ~Pending(u) THEN e.relayedBytes ELSE 0) <= y.bytes
        BY <3>6, <4>2
      <4> HIDE DEF y
      <4>4. WindowOK(R, y, o)
        BY <1>1, <2>1, <4>1, <4>2, <4>3, WindowChanged DEF e
      <4> QED BY <4>4 DEF y
    <3>7. direct \in BOOLEAN /\ (~direct => route'[p] = "relayed") /\ DOMAIN route' = Peers
      BY DEF RequestsInv
    <3> HIDE DEF direct, R, z, p
    <3> QED BY <1>2, <3>1, <3>2, <3>5, <3>6, <3>7, PumpsStep
  <2>3. CASE ~(e.relayedBytes > 0 /\ q.open)
    <3>1. req' = R /\ relayed' = relayed
      BY <1>4, <2>3 DEF finish, Finishes
    <3>2. e.relayedBytes = 0 \/ ~q.open
      BY <1>2, <2>3
    <3> HIDE DEF u
    <3> QED BY <2>1, <3>1, <3>2, ChangeKeeps
  <2> QED BY <2>2, <2>3
<1> QED BY <1>3, <1>4

(* DialOver *)
LEMMA DialKeeps ==
  ASSUME RequestsInv, NEW c \in Corrs, DialOver(c)
  PROVE  RequestsInv'
<1> DEFINE e == req[c]
           d == [e EXCEPT !.dialing = FALSE]
<1>1. ReqsOK(req) /\ c \in 1..Len(req) /\ e \in ReqRec /\ Settles(e)
  BY DEF RequestsInv, Corrs, ReqsOK
<1>2. e.to \in Peers
  BY <1>1 DEF ReqRec
<1>3. /\ Alike(d, e) /\ d.held = e.held /\ d.result = e.result
      /\ d.settled = e.settled /\ d.relayedBytes = e.relayedBytes
  <2> HIDE DEF e
  <2> QED BY <1>1, DialedIs
<1>4. relayed' = relayed /\ route' = route
  BY DEF DialOver
<1>5. req' = [req EXCEPT ![c] = IF route[e.to] = "none" /\ Pending(d) THEN Settle(d, "failed") ELSE d]
  BY DEF DialOver, Finishes
<1> HIDE DEF d
<1>6. Settles(d) /\ (Pending(d) <=> Pending(e))
  BY <1>1, <1>3 DEF Settles, Pending
<1>7. Changed(d, e)
  BY <1>3, <1>6 DEF Changed
<1>8. CASE route[e.to] = "none" /\ Pending(d)
  <2> DEFINE u == Settle(d, "failed")
  <2>1. d \in ReqRec
    BY <1>3 DEF Alike
  <2>2. Changed(u, d) /\ ~Pending(u)
    BY <1>6, <1>8, <2>1, SettleChanges DEF Results
  <2>3. req' = [req EXCEPT ![c] = u]
    BY <1>5, <1>8
  <2> HIDE DEF u
  <2>4. Changed(u, e)
    BY <1>7, <2>2 DEF Changed, Alike
  <2>5. ~relayed[e.to].open
    BY <1>2, <1>8 DEF RequestsInv
  <2> QED BY <1>4, <2>3, <2>4, <2>5, ChangeKeeps
<1>9. CASE ~(route[e.to] = "none" /\ Pending(d))
  <2>1. req' = [req EXCEPT ![c] = d]
    BY <1>5, <1>9
  <2>2. CASE Pending(d)
    BY <1>4, <1>7, <2>1, <2>2, ChangeKeeps
  <2>3. CASE ~Pending(d)
    BY <1>4, <1>6, <1>7, <2>1, <2>3, ChangeKeeps
  <2> QED BY <2>2, <2>3
<1> QED BY <1>8, <1>9

(* PeerDown *)
LEMMA DownKeeps ==
  ASSUME RequestsInv, NEW p \in Peers, PeerDown(p)
  PROVE  RequestsInv'
<1> DEFINE N == Len(req)
           x == "failed"
           T == [c \in 1..N |-> IF req[c].to = p /\ Pending(req[c]) THEN Settle(req[c], x) ELSE req[c]]
<1>1. ReqsOK(req) /\ req \in Seq(ReqRec) /\ N \in Nat
  BY DEF RequestsInv, ReqsOK
<1>2. ASSUME NEW c \in 1..N
      PROVE  /\ T[c] \in ReqRec /\ Settles(T[c]) /\ T[c].to = req[c].to
             /\ req[c].to # p => T[c] = req[c]
             /\ req[c].to = p => ~T[c].held
  <2> DEFINE e == req[c]
             u == Settle(e, x)
  <2>1. e \in ReqRec /\ Settles(e) /\ x \in Results \ {"none"} /\ x \in Results
    BY <1>1 DEF ReqsOK, Results
  <2>2. T[c] = IF e.to = p /\ Pending(e) THEN u ELSE e
    OBVIOUS
  <2> HIDE DEF T, e, x
  <2>3. CASE e.to = p /\ Pending(e)
    <3>1. Changed(u, e) /\ ~u.held
      BY <2>1, <2>3, SettleChanges, SettledIs
    <3> HIDE DEF u
    <3> QED BY <2>2, <2>3, <3>1 DEF Changed, Alike, e
  <2>4. CASE ~(e.to = p /\ Pending(e))
    <3>1. e.to = p => ~e.held
      BY <2>1, <2>4 DEF Settles
    <3> QED BY <2>1, <2>2, <2>4, <3>1 DEF e
  <2> QED BY <2>3, <2>4
<1>3. req' = T /\ relayed' = [relayed EXCEPT ![p] = NoWindow] /\ route' = [route EXCEPT ![p] = "none"]
  BY DEF PeerDown, Corrs
<1>4. T = [c \in 1..N |-> T[c]]
  OBVIOUS
<1> HIDE DEF T
<1>5. T \in Seq(ReqRec) /\ Len(T) = N
  BY <1>1, <1>2, <1>4
<1>6. ReqsOK(T)
  BY <1>2, <1>5 DEF ReqsOK
<1>7. DOMAIN relayed' = Peers /\ relayed'[p] = NoWindow /\ DOMAIN route' = Peers
      /\ \A o \in Peers : o # p => relayed'[o] = relayed[o] /\ route'[o] = route[o]
  BY <1>3 DEF RequestsInv
<1>8. ASSUME NEW o \in Peers
      PROVE  WindowOK(T, relayed'[o], o) /\ Drains(relayed'[o]) /\ (relayed'[o].open => route'[o] = "relayed")
  <2>1. CASE o = p
    <3>1. WindowOK(T, NoWindow, p)
      BY <1>2, <1>5, NoWindowOK
    <3>2. ~NoWindow.open /\ NoWindow.waiting = << >>
      BY DEF NoWindow
    <3> QED BY <1>7, <2>1, <3>1, <3>2 DEF Drains
  <2>2. CASE o # p
    <3> DEFINE z == relayed[o]
    <3>1. WindowOK(req, z, o) /\ Drains(z) /\ (z.open => route[o] = "relayed")
      BY DEF RequestsInv
    <3> HIDE DEF z
    <3>2. WindowOK(T, z, o)
      BY <1>1, <1>2, <1>5, <2>2, <3>1, WindowKept
    <3> QED BY <1>7, <2>2, <3>1, <3>2 DEF z
  <2> QED BY <2>1, <2>2
<1> QED BY <1>3, <1>6, <1>7, <1>8 DEF RequestsInv

(* DirectUp *)
LEMMA DirectKeeps ==
  ASSUME RequestsInv, NEW p \in Peers, DirectUp(p)
  PROVE  RequestsInv'
<1> DEFINE yes == TRUE
           q == relayed[p]
<1>1. Pumps(p, req, q, yes) /\ yes \in BOOLEAN /\ yes
  BY DEF DirectUp, PumpsDirect
<1>2. ReqsOK(req) /\ \A o \in Peers : WindowOK(req, relayed[o], o)
  BY DEF RequestsInv
<1>3. DOMAIN route' = Peers /\ \A o \in Peers : o # p => route'[o] = route[o]
  BY DEF DirectUp, RequestsInv
<1>4. WindowOK(req, q, p)
  BY <1>2
<1> HIDE DEF yes, q
<1> QED BY <1>1, <1>2, <1>3, <1>4, PumpsStep

(* Request *)
LEMMA RequestKeeps ==
  ASSUME RequestsInv, NEW p \in Peers, NEW n \in Nat, Request(p, n)
  PROVE  RequestsInv'
<1>1. ReqsOK(req) /\ req \in Seq(ReqRec)
  BY DEF RequestsInv, ReqsOK
<1>2. route' = route
  BY DEF Request
<1>3. CASE route[p] = "relayed"
  <2> DEFINE yes == TRUE
             no == FALSE
             e == request(p, n, yes)
             R == Append(req, e)
             q == relayed[p]
             z == Queues(q, Len(req) + 1)
  <2>1. Pumps(p, R, z, no)
    BY <1>3 DEF Request, Queues
  <2>2. no \in BOOLEAN /\ ~no /\ yes \in BOOLEAN /\ yes
    OBVIOUS
  <2> HIDE DEF yes, no
  <2>3. /\ e \in ReqRec /\ e.to = p /\ e.held = yes /\ e.relayedBytes = 0 /\ e.result = "none" /\ e.settled = 0
    BY <2>2, NewRequest, ZenonT(40)
  <2> HIDE DEF e
  <2>4. Settles(e) /\ e.held
    BY <2>2, <2>3 DEF Settles, Pending
  <2>5. WindowOK(req, q, p)
    BY DEF RequestsInv
  <2> HIDE DEF z, q
  <2>6. ReqsOK(R) /\ WindowOK(R, z, p)
    BY <1>1, <2>3, <2>4, <2>5, RequestHeld DEF z
  <2>7. ASSUME NEW o \in Peers, o # p PROVE WindowOK(R, relayed[o], o)
    <3>1. WindowOK(req, relayed[o], o)
      BY DEF RequestsInv
    <3> QED BY <1>1, <2>3, <2>7, <3>1, WindowGrows
  <2>8. DOMAIN route' = Peers /\ route'[p] = "relayed"
    BY <1>2, <1>3 DEF RequestsInv
  <2> HIDE DEF R
  <2> QED BY <1>2, <2>1, <2>2, <2>6, <2>7, <2>8, PumpsStep
<1>4. CASE route[p] # "relayed"
  <2> DEFINE no == FALSE
             d == request(p, n, no)
             e == Put(d)
  <2>1. req' = Append(req, e) /\ relayed' = relayed
    BY <1>4 DEF Request
  <2>2. no \in BOOLEAN
    OBVIOUS
  <2> HIDE DEF no
  <2>3. d \in ReqRec /\ d.relayedBytes = 0 /\ d.result = "none" /\ d.settled = 0
    BY <2>2, NewRequest
  <2> HIDE DEF d
  <2>4. e \in ReqRec /\ ~e.held /\ e.relayedBytes = 0 /\ e.result = "none" /\ e.settled = 0
    BY <2>3, PutIs DEF Alike
  <2> HIDE DEF e
  <2>5. Settles(e)
    BY <2>4 DEF Settles, Pending
  <2>6. ReqsOK(Append(req, e)) /\ \A o \in Peers : WindowOK(Append(req, e), relayed[o], o)
    BY <2>4, <2>5, RequestPut
  <2> QED BY <1>2, <2>1, <2>6 DEF RequestsInv
<1> QED BY <1>3, <1>4

(* The start. *)
LEMMA RequestsStart ==
  ASSUME RequestsInit PROVE RequestsInv
<1>1. req = << >> /\ route = [p \in Peers |-> "none"] /\ relayed = [p \in Peers |-> NoWindow]
  BY DEF RequestsInit
<1>2. req \in Seq(ReqRec) /\ Len(req) = 0
  BY <1>1
<1>3. ASSUME NEW p \in Peers PROVE WindowOK(req, NoWindow, p)
  <2>1. \A c \in 1..Len(req) : req[c].to = p => ~req[c].held
    BY <1>2
  <2> QED BY <1>2, <2>1, NoWindowOK
<1>4. ~NoWindow.open /\ Drains(NoWindow)
  BY DEF NoWindow, Drains
<1>5. ReqsOK(req)
  BY <1>2 DEF ReqsOK
<1>6. ASSUME NEW p \in Peers PROVE relayed[p] = NoWindow
  BY <1>1
<1>7. DOMAIN relayed = Peers /\ DOMAIN route = Peers
  BY <1>1
<1> QED BY <1>3, <1>4, <1>5, <1>6, <1>7 DEF RequestsInv

(* Every step of the request layer. *)
LEMMA RequestsStep ==
  ASSUME RequestsInv, RequestLayer
  PROVE  RequestsInv'
<1>1. ASSUME NEW p \in Peers, PeerDown(p) \/ RelayUp(p) \/ DirectUp(p) \/ DirectGoes(p) PROVE RequestsInv'
  <2>1. CASE PeerDown(p)
    BY <2>1, DownKeeps
  <2>2. CASE DirectUp(p)
    BY <2>2, DirectKeeps
  <2>3. CASE RelayUp(p) \/ DirectGoes(p)
    <3>1. req' = req /\ relayed' = relayed /\ route' = [route EXCEPT ![p] = "relayed"]
      BY <2>3 DEF RelayUp, DirectGoes
    <3> QED BY <3>1, RequestsSame DEF RequestsInv
  <2> QED BY <1>1, <2>1, <2>2, <2>3
<1>2. ASSUME NEW p \in Peers, NEW n \in Sizes, Request(p, n) \/ OnRequest(p, n) PROVE RequestsInv'
  <2>1. n \in Nat
    BY RequestsAssumption
  <2>2. CASE Request(p, n)
    BY <2>1, <2>2, RequestKeeps
  <2>3. CASE OnRequest(p, n)
    BY <2>3, RequestsSame DEF OnRequest, RequestsInv
  <2> QED BY <1>2, <2>2, <2>3
<1>3. ASSUME NEW i \in DOMAIN deliveries, Delivered(i) PROVE RequestsInv'
  BY <1>3, RequestsSame DEF Delivered, RequestsInv
<1>4. ASSUME NEW c \in Corrs, OnAnswer(c) \/ Timeout(c) \/ DialOver(c) \/ PeerAnswers(c) PROVE RequestsInv'
  <2> DEFINE x == "answered"
             y == "failed"
  <2>1. x \in Results \ {"none"} /\ y \in Results \ {"none"}
    BY DEF Results
  <2>2. CASE OnAnswer(c)
    <3>1. finish(c, x) /\ route' = route
      BY <2>2 DEF OnAnswer
    <3> HIDE DEF x
    <3> QED BY <2>1, <3>1, FinishKeeps
  <2>3. CASE Timeout(c)
    <3>1. finish(c, y) /\ route' = route
      BY <2>3 DEF Timeout
    <3> HIDE DEF y
    <3> QED BY <2>1, <3>1, FinishKeeps
  <2>4. CASE DialOver(c)
    BY <2>4, DialKeeps
  <2>5. CASE PeerAnswers(c)
    BY <2>5, RequestsSame DEF PeerAnswers, RequestsInv
  <2> QED BY <1>4, <2>2, <2>3, <2>4, <2>5
<1> QED BY <1>1, <1>2, <1>3, <1>4 DEF RequestLayer

(* One held back has another whose end lets it go. *)
LEMMA RequestsImplies ==
  ASSUME RequestsInv PROVE RequestsSettle
<1>1. ReqsOK(req) /\ req \in Seq(ReqRec)
  BY DEF RequestsInv, ReqsOK
<1> SUFFICES ASSUME NEW c \in 1..Len(req)
             PROVE  /\ req[c].settled = IF Pending(req[c]) THEN 0 ELSE 1
                    /\ req[c].held =>
                         /\ route[req[c].to] = "relayed"
                         /\ \E d \in 1..Len(req) : req[d].to = req[c].to /\ Pending(req[d]) /\ req[d].relayedBytes > 0
  BY DEF RequestsSettle, Corrs
<1>2. Settles(req[c]) /\ req[c] \in ReqRec
  BY <1>1 DEF ReqsOK
<1>3. ASSUME req[c].held
      PROVE  /\ route[req[c].to] = "relayed"
             /\ \E d \in 1..Len(req) : req[d].to = req[c].to /\ Pending(req[d]) /\ req[d].relayedBytes > 0
  <2> DEFINE p == req[c].to
             q == relayed[p]
             x == Carried(req, p)
  <2>1. p \in Peers
    BY <1>2 DEF ReqRec
  <2>2. WindowOK(req, q, p) /\ Drains(q) /\ (q.open => route[p] = "relayed")
    BY <2>1 DEF RequestsInv
  <2>3. /\ x \in Seq(Int) /\ Len(x) = Len(req) /\ \A d \in 1..Len(req) : x[d] \in Nat
    BY <1>1, CarriedTyped
  <2>4. \A d \in 1..Len(req) : x[d] = IF req[d].to = p /\ Pending(req[d]) THEN req[d].relayedBytes ELSE 0
    BY SMTT(30) DEF Carried
  <2>5. In(q.waiting, c) /\ q.bytes <= SumSeq(x) /\ q.bytes \in Int /\ (~q.open => q.waiting = << >>)
    BY <1>3, <2>2 DEF WindowOK, WindowRec
  <2> HIDE DEF x, q
  <2>6. q.waiting # << >>
    BY <2>5 DEF In
  <2>7. q.bytes > 0 /\ q.open
    BY <2>2, <2>5, <2>6 DEF Drains
  <2>8. SumSeq(x) # 0
    <3>1. SumSeq(x) \in Int
      BY <2>3, SumType
    <3> QED BY <2>5, <2>7, <3>1
  <2>9. PICK d \in 1..Len(x) : x[d] # 0
    BY <2>3, <2>8, SumZero
  <2>10. req[d].to = p /\ Pending(req[d]) /\ req[d].relayedBytes > 0
    BY <2>3, <2>4, <2>9
  <2> QED BY <2>2, <2>3, <2>7, <2>9, <2>10
<1> QED BY <1>2, <1>3 DEF Settles

(* Whatever order answers, timeouts, dials, lost peers and links come in,  *)
(* a request is settled once, and none is held back for good (router.js    *)
(* finish, pumpRelayed, peerDown, onAuth).                                 *)
THEOREM RequestsHold == Spec => []RequestsSettle
<1>1. Init => RequestsInv
  BY RequestsStart DEF Init
<1>2. RequestsInv /\ [Next]_vars => RequestsInv'
  <2> SUFFICES ASSUME RequestsInv, [Next]_vars PROVE RequestsInv'
    OBVIOUS
  <2>1. CASE RequestLayer
    BY <2>1, RequestsStep
  <2>2. CASE UNCHANGED requestVars
    BY <2>2 DEF RequestsInv, requestVars
  <2> QED BY <2>1, <2>2 DEF Next, vars
<1>3. RequestsInv => RequestsSettle
  BY RequestsImplies
<1> QED BY <1>1, <1>2, <1>3, PTL DEF Spec

(* ---- framing ---- *)

FrameOps == {"head", "binary", "cont", "ping", "close"}
FrameRec == [op : FrameOps, msg : Nat, size : Nat, fin : BOOLEAN]

(* The units P buffered and S under way, one after the other, are those of *)
(* the frames F; o is where each ends.                                     *)
UnitAt(P, S, k) == IF k <= Len(P) THEN P[k] ELSE S[k - Len(P)]
CutInto(P, S, F, o) ==
    /\ P \in Seq(FrameRec) /\ S \in Seq(FrameRec) /\ F \in Seq(FrameRec)
    /\ o \in [0..Len(F) -> Int] /\ o[0] = 0 /\ o[Len(F)] = Len(P) + Len(S)
    /\ \A i \in 0..Len(F) : o[i] <= Len(P) + Len(S)
    /\ \A i \in 1..Len(F) : o[i] = o[i - 1] + F[i].size + 1
    /\ \A i \in 1..Len(F), k \in 1..(Len(P) + Len(S)) : o[i - 1] < k /\ k <= o[i] => UnitAt(P, S, k) = F[i]

(* A frame of a sequence of them. *)
LEMMA FrameTyped ==
  ASSUME NEW F \in Seq(FrameRec), NEW i \in 1..Len(F)
  PROVE  F[i] \in FrameRec /\ F[i].size \in Nat /\ F[i].msg \in Nat /\ F[i].op \in FrameOps /\ F[i].fin \in BOOLEAN
<1>1. F[i] \in FrameRec
  OBVIOUS
<1> QED BY <1>1 DEF FrameRec

(* The first unit buffered is the first frame's. *)
LEMMA CutFirst ==
  ASSUME NEW P, NEW S, NEW F, NEW o, CutInto(P, S, F, o), P # << >>
  PROVE  F # << >> /\ Len(F) > 0 /\ Head(P) = F[1] /\ o[1] = F[1].size + 1
<1>1. P \in Seq(FrameRec) /\ S \in Seq(FrameRec) /\ Len(P) \in Nat /\ Len(S) \in Nat /\ Len(P) > 0 /\ F \in Seq(FrameRec)
      /\ Len(F) \in Nat
  BY DEF CutInto
<1>2. Len(F) > 0
  BY <1>1 DEF CutInto
<1>3. 1 \in 1..Len(F) /\ 1 \in 1..(Len(P) + Len(S)) /\ F[1].size \in Nat
  BY <1>1, <1>2, FrameTyped
<1>4. o[1] = o[1 - 1] + F[1].size + 1 /\ o[0] = 0 /\ 1 - 1 = 0
  <2>1. o[0] = 0 /\ \A i \in 1..Len(F) : o[i] = o[i - 1] + F[i].size + 1
    BY Zenon DEF CutInto
  <2>2. o[1] = o[1 - 1] + F[1].size + 1
    BY <1>3, <2>1, Zenon
  <2> QED BY <2>1, <2>2
<1>5. o[1 - 1] < 1 /\ 1 <= o[1] /\ o[1] = F[1].size + 1
  BY <1>3, <1>4
<1>6. UnitAt(P, S, 1) = F[1]
  BY <1>3, <1>5 DEF CutInto
<1>7. Head(P) = P[1] /\ UnitAt(P, S, 1) = P[1]
  BY <1>1 DEF UnitAt
<1> QED BY <1>1, <1>2, <1>5, <1>6, <1>7

(* A read moves units from under way to the buffer. *)
LEMMA CutPush ==
  ASSUME NEW P, NEW S, NEW F, NEW o, CutInto(P, S, F, o), NEW n \in 1..Len(S)
  PROVE  CutInto(P \o SubSeq(S, 1, n), SubSeq(S, n + 1, Len(S)), F, o)
<1> DEFINE A == SubSeq(S, 1, n)
           B == SubSeq(S, n + 1, Len(S))
           Q == P \o A
           p == Len(P)
           l == Len(S)
<1>1. P \in Seq(FrameRec) /\ S \in Seq(FrameRec) /\ p \in Nat /\ l \in Nat /\ n \in Nat /\ n <= l
  BY DEF CutInto
<1>2. A \in Seq(FrameRec) /\ Len(A) = n /\ \A k \in 1..n : A[k] = S[k]
  BY <1>1
<1>3. B \in Seq(FrameRec) /\ Len(B) = l - n /\ \A k \in 1..(l - n) : B[k] = S[n + k]
  BY <1>1
<1> HIDE DEF A, B
<1>4. /\ Q \in Seq(FrameRec) /\ Len(Q) = p + n
      /\ \A k \in 1..(p + n) : Q[k] = IF k <= p THEN P[k] ELSE A[k - p]
  BY <1>1, <1>2, SMTT(30)
<1> HIDE DEF Q
<1>5. ASSUME NEW k \in 1..(p + l) PROVE UnitAt(Q, B, k) = UnitAt(P, S, k)
  <2>1. CASE k <= p
    <3>1. k \in 1..(p + n) /\ k <= p + n
      BY <1>1, <2>1
    <3> QED BY <1>4, <2>1, <3>1 DEF UnitAt
  <2>2. CASE p < k /\ k <= p + n
    <3>1. k \in 1..(p + n) /\ k - p \in 1..n /\ ~(k <= p)
      BY <1>1, <2>2
    <3> QED BY <1>2, <1>4, <2>2, <3>1 DEF UnitAt
  <2>3. CASE p + n < k
    <3>1. ~(k <= p + n) /\ ~(k <= p) /\ k - (p + n) \in 1..(l - n) /\ n + (k - (p + n)) = k - p
      BY <1>1, <2>3
    <3>2. UnitAt(Q, B, k) = B[k - (p + n)] /\ UnitAt(P, S, k) = S[k - p]
      BY <1>4, <3>1 DEF UnitAt
    <3> QED BY <1>3, <3>1, <3>2
  <2> QED BY <1>1, <2>1, <2>2, <2>3
<1>6. Len(Q) + Len(B) = p + l
  BY <1>1, <1>3, <1>4
<1> HIDE DEF p, l
<1>7. CutInto(Q, B, F, o)
  <2>1. o[Len(F)] = p + l /\ (\A i \in 0..Len(F) : o[i] <= p + l)
        /\ \A i \in 1..Len(F), k \in 1..(p + l) : o[i - 1] < k /\ k <= o[i] => UnitAt(P, S, k) = F[i]
    BY DEF CutInto, p, l
  <2>2. \A i \in 1..Len(F), k \in 1..(p + l) : o[i - 1] < k /\ k <= o[i] => UnitAt(Q, B, k) = F[i]
    BY <1>5, <2>1
  <2> QED BY <1>3, <1>4, <1>6, <2>1, <2>2 DEF CutInto
<1> QED BY <1>7 DEF Q, A, B

(* A frame put, at the end. *)
LEMMA CutPut ==
  ASSUME NEW P, NEW S, NEW F, NEW o, CutInto(P, S, F, o), NEW f \in FrameRec
  PROVE  \E t : CutInto(P, S \o Units(f), Append(F, f), t)
<1> DEFINE U == Units(f)
           T == S \o U
           G == Append(F, f)
           N == Len(F)
           e == Len(P) + Len(S)
           t == [i \in 0..(N + 1) |-> IF i <= N THEN o[i] ELSE e + f.size + 1]
<1>1. /\ P \in Seq(FrameRec) /\ S \in Seq(FrameRec) /\ F \in Seq(FrameRec) /\ N \in Nat /\ e \in Nat
      /\ Len(P) \in Nat /\ Len(S) \in Nat /\ f.size \in Nat /\ o \in [0..N -> Int] /\ o[N] = e
  BY DEF CutInto, FrameRec
<1>2. U \in Seq(FrameRec) /\ Len(U) = f.size + 1 /\ \A k \in 1..(f.size + 1) : U[k] = f
  <2> DEFINE n == f.size + 1
  <2>1. n \in Nat /\ U = [k \in 1..n |-> f]
    BY <1>1 DEF Units
  <2> HIDE DEF n, U
  <2>2. U \in Seq(FrameRec) /\ Len(U) = n /\ \A k \in 1..n : U[k] = f
    BY <2>1
  <2> QED BY <2>2 DEF n
<1> HIDE DEF U
<1>3. /\ T \in Seq(FrameRec) /\ Len(T) = Len(S) + (f.size + 1)
      /\ \A k \in 1..(Len(S) + (f.size + 1)) : T[k] = IF k <= Len(S) THEN S[k] ELSE U[k - Len(S)]
  BY <1>1, <1>2, SMTT(30)
<1>4. G \in Seq(FrameRec) /\ Len(G) = N + 1 /\ G[N + 1] = f /\ \A i \in 1..N : G[i] = F[i]
  BY <1>1
<1>5. t \in [0..(N + 1) -> Int] /\ t[N + 1] = e + f.size + 1 /\ \A i \in 0..N : t[i] = o[i]
  BY <1>1, SMTT(30)
<1> HIDE DEF T, G, t
<1>6. ASSUME NEW k \in 1..e PROVE UnitAt(P, T, k) = UnitAt(P, S, k)
  <2>1. CASE k <= Len(P)
    BY <2>1 DEF UnitAt
  <2>2. CASE ~(k <= Len(P))
    <3>1. k - Len(P) \in 1..(Len(S) + (f.size + 1)) /\ k - Len(P) <= Len(S)
      BY <1>1, <2>2
    <3> QED BY <1>3, <2>2, <3>1 DEF UnitAt
  <2> QED BY <2>1, <2>2
<1>7. ASSUME NEW k \in (e + 1)..(e + f.size + 1) PROVE UnitAt(P, T, k) = f
  <2>1. /\ ~(k <= Len(P)) /\ k - Len(P) \in 1..(Len(S) + (f.size + 1)) /\ ~(k - Len(P) <= Len(S))
        /\ (k - Len(P)) - Len(S) \in 1..(f.size + 1)
    BY <1>1, SMTT(30)
  <2>2. UnitAt(P, T, k) = T[k - Len(P)]
    BY <2>1 DEF UnitAt
  <2> QED BY <1>2, <1>3, <2>1, <2>2
<1>8. Len(P) + Len(T) = e + f.size + 1
  BY <1>1, <1>3, SMTT(30)
<1>9. ASSUME NEW i \in 1..(N + 1), NEW k \in 1..(e + f.size + 1), t[i - 1] < k, k <= t[i]
      PROVE  UnitAt(P, T, k) = G[i]
  <2>1. CASE i \in 1..N
    <3>1. i - 1 \in 0..N /\ i \in 0..N
      BY <1>1, <2>1
    <3>2. t[i - 1] = o[i - 1] /\ t[i] = o[i] /\ o[i] \in Int
      BY <1>1, <1>5, <3>1
    <3>3. CASE k \in 1..e
      <4>1. UnitAt(P, S, k) = F[i]
        BY <1>9, <2>1, <3>2, <3>3 DEF CutInto
      <4> QED BY <1>4, <1>6, <2>1, <3>3, <4>1
    <3>4. CASE ~(k \in 1..e)
      <4>1. o[i] <= e
        BY <3>1 DEF CutInto
      <4>2. k \in Nat /\ k >= 1 /\ k <= e
        BY <1>1, <1>9, <3>2, <4>1
      <4> QED BY <1>1, <3>4, <4>2
    <3> QED BY <3>3, <3>4
  <2>2. CASE i = N + 1
    <3>1. i - 1 = N /\ t[i - 1] = e
      BY <1>1, <1>5, <2>2
    <3>2. k \in (e + 1)..(e + f.size + 1)
      BY <1>1, <1>9, <3>1
    <3> QED BY <1>4, <1>7, <2>2, <3>2
  <2> QED BY <1>1, <2>1, <2>2
<1>10. ASSUME NEW i \in 1..(N + 1) PROVE t[i] = t[i - 1] + G[i].size + 1
  <2>1. CASE i \in 1..N
    <3>1. i - 1 \in 0..N /\ i \in 0..N /\ o[i] = o[i - 1] + F[i].size + 1
      BY <1>1, <2>1 DEF CutInto
    <3> QED BY <1>4, <1>5, <2>1, <3>1, SMTT(30)
  <2>2. CASE i = N + 1
    <3>1. i - 1 = N /\ t[i - 1] = e /\ t[i] = e + f.size + 1
      BY <1>1, <1>5, <2>2
    <3> QED BY <1>4, <2>2, <3>1
  <2> QED BY <1>1, <2>1, <2>2
<1>11. t[0] = 0 /\ t[Len(G)] = Len(P) + Len(T)
  BY <1>1, <1>4, <1>5, <1>8 DEF CutInto
<1>12. ASSUME NEW i \in 0..(N + 1) PROVE t[i] <= e + f.size + 1
  <2>1. CASE i \in 0..N
    <3>1. o[i] <= e /\ o[i] \in Int
      BY <1>1, <2>1 DEF CutInto
    <3> QED BY <1>1, <1>5, <2>1, <3>1, SMTT(30)
  <2>2. CASE i = N + 1
    BY <1>1, <1>5, <2>2
  <2> QED BY <1>1, <2>1, <2>2
<1>13. CutInto(P, T, G, t)
  BY <1>1, <1>3, <1>4, <1>5, <1>8, <1>9, <1>10, <1>11, <1>12 DEF CutInto
<1> QED BY <1>13 DEF T, U, G

(* The first frame taken, once all of it is buffered. *)
LEMMA CutTake ==
  ASSUME NEW P, NEW S, NEW F, NEW o, CutInto(P, S, F, o), P # << >>, Len(P) >= Head(P).size + 1
  PROVE  \E t : CutInto(SubSeq(P, Head(P).size + 2, Len(P)), S, Tail(F), t)
<1> DEFINE n == F[1].size + 1
           Q == SubSeq(P, n + 1, Len(P))
           G == Tail(F)
           N == Len(F)
           e == Len(P) + Len(S)
           t == [i \in 0..(N - 1) |-> o[i + 1] - n]
<1>1. F # << >> /\ N > 0 /\ Head(P) = F[1] /\ o[1] = n
  BY CutFirst
<1>2. /\ P \in Seq(FrameRec) /\ S \in Seq(FrameRec) /\ F \in Seq(FrameRec) /\ N \in Nat /\ e \in Nat
      /\ Len(P) \in Nat /\ Len(S) \in Nat /\ o \in [0..N -> Int] /\ o[N] = e
  BY DEF CutInto
<1>3. n \in Nat /\ n >= 1 /\ n <= Len(P)
  <2>1. 1 \in 1..N
    BY <1>1, <1>2
  <2>2. F[1].size \in Nat
    BY <1>2, <2>1, FrameTyped
  <2> QED BY <1>1, <2>2
<1> HIDE DEF n
<1>4. Q \in Seq(FrameRec) /\ Len(Q) = Len(P) - n /\ \A k \in 1..(Len(P) - n) : Q[k] = P[n + k]
  <2>1. n + 1 \in Int /\ Len(P) \in Int /\ \A k \in (n + 1)..Len(P) : P[k] \in FrameRec
    BY <1>2, <1>3
  <2>2. /\ Q \in Seq(FrameRec) /\ Len(Q) = (IF n + 1 <= Len(P) THEN Len(P) - (n + 1) + 1 ELSE 0)
        /\ \A k \in 1..(Len(P) - (n + 1) + 1) : Q[k] = P[n + 1 + k - 1]
    BY <2>1, SubSeqProperties, SMTT(30)
  <2> HIDE DEF Q
  <2>3. Len(P) - (n + 1) + 1 = Len(P) - n /\ Len(Q) = Len(P) - n
    BY <1>2, <1>3, <2>2
  <2>4. ASSUME NEW k \in 1..(Len(P) - n) PROVE Q[k] = P[n + k]
    <3>1. n + 1 + k - 1 = n + k
      BY <1>3
    <3> QED BY <2>2, <2>3, <3>1
  <2> QED BY <2>2, <2>3, <2>4
<1>5. G \in Seq(FrameRec) /\ Len(G) = N - 1 /\ \A i \in 1..(N - 1) : G[i] = F[i + 1]
  BY <1>1, <1>2
<1>6. t \in [0..(N - 1) -> Int] /\ \A i \in 0..(N - 1) : t[i] = o[i + 1] - n
  BY <1>1, <1>2, <1>3, SMTT(30)
<1> HIDE DEF Q, G, t
<1>7. ASSUME NEW k \in 1..(e - n) PROVE UnitAt(Q, S, k) = UnitAt(P, S, k + n)
  <2>1. CASE k <= Len(P) - n
    <3>1. k + n <= Len(P) /\ k \in 1..(Len(P) - n) /\ n + k = k + n
      BY <1>2, <1>3, <2>1
    <3> QED BY <1>4, <2>1, <3>1 DEF UnitAt
  <2>2. CASE ~(k <= Len(P) - n)
    <3>1. ~(k + n <= Len(P)) /\ k - (Len(P) - n) = (k + n) - Len(P)
      BY <1>2, <1>3, <2>2
    <3> QED BY <1>4, <2>2, <3>1 DEF UnitAt
  <2> QED BY <2>1, <2>2
<1>8. Len(Q) + Len(S) = e - n
  BY <1>2, <1>3, <1>4
<1>9. ASSUME NEW i \in 1..(N - 1), NEW k \in 1..(e - n), t[i - 1] < k, k <= t[i]
      PROVE  UnitAt(Q, S, k) = G[i]
  <2>1. i - 1 \in 0..(N - 1) /\ i \in 0..(N - 1) /\ (i - 1) + 1 = i /\ i + 1 \in 1..N /\ (i + 1) - 1 = i /\ i \in 0..N /\ i + 1 \in 0..N
    BY <1>2
  <2>2. t[i - 1] = o[i] - n /\ t[i] = o[i + 1] - n /\ o[i] \in Int /\ o[i + 1] \in Int
    BY <1>2, <1>6, <2>1
  <2>3. o[i] < k + n /\ k + n <= o[i + 1] /\ k + n \in 1..e
    BY <1>2, <1>3, <1>9, <2>2, SMTT(30)
  <2>4. UnitAt(P, S, k + n) = F[i + 1]
    BY <2>1, <2>3 DEF CutInto
  <2> QED BY <1>5, <1>7, <2>4
<1>10. ASSUME NEW i \in 1..(N - 1) PROVE t[i] = t[i - 1] + G[i].size + 1
  <2>1. i - 1 \in 0..(N - 1) /\ i \in 0..(N - 1) /\ (i - 1) + 1 = i /\ i + 1 \in 1..N /\ (i + 1) - 1 = i /\ i \in 0..N /\ i + 1 \in 0..N
    BY <1>2
  <2>2. o[i + 1] = o[i] + F[i + 1].size + 1 /\ o[i] \in Int
    BY <2>1 DEF CutInto
  <2>3. F[i + 1].size \in Nat
    BY <1>2, <2>1, FrameTyped
  <2>4. t[i] = o[i + 1] - n /\ t[i - 1] = o[i] - n /\ G[i] = F[i + 1]
    BY <1>5, <1>6, <2>1
  <2> QED BY <1>3, <2>2, <2>3, <2>4, SMTT(30)
<1>11. t[0] = 0 /\ t[Len(G)] = Len(Q) + Len(S)
  <2>1. 0 \in 0..(N - 1) /\ 0 + 1 = 1 /\ N - 1 \in 0..(N - 1) /\ (N - 1) + 1 = N
    BY <1>1, <1>2
  <2>2. t[0] = o[1] - n /\ t[N - 1] = o[N] - n
    BY <1>6, <2>1
  <2> QED BY <1>1, <1>2, <1>3, <1>5, <1>8, <2>2
<1>12. ASSUME NEW i \in 0..(N - 1) PROVE t[i] <= e - n
  <2>1. i + 1 \in 0..N
    BY <1>2
  <2>2. o[i + 1] <= e /\ o[i + 1] \in Int
    BY <1>2, <2>1 DEF CutInto
  <2> QED BY <1>2, <1>3, <1>6, <2>2
<1>13. CutInto(Q, S, G, t)
  BY <1>2, <1>4, <1>5, <1>6, <1>8, <1>9, <1>10, <1>11, <1>12 DEF CutInto
<1>14. SubSeq(P, Head(P).size + 2, Len(P)) = Q
  <2>1. F[1].size + 2 = n + 1
    <3>1. 1 \in 1..N
      BY <1>1, <1>2
    <3>2. F[1].size \in Nat
      BY <1>2, <3>1, FrameTyped
    <3> QED BY <3>2 DEF n
  <2> QED BY <1>1, <2>1 DEF Q
<1> QED BY <1>13, <1>14 DEF G

(* How far a frame takes an end that has m messages before it, and g of    *)
(* the payload of the next (-1 for none of it): the frames of a peer that  *)
(* keeps to the rules, then, from one that does not (y), a frame out of    *)
(* order, past which all is lost (-2).                                     *)
Lost == -2
Limit(d, m) == IF m <= (IF d THEN 1 ELSE 2) THEN maxHandshakeFrame ELSE maxFrame
FrameStep(d, y, m, g, f, n, h) ==
    \/ g = Lost /\ h = Lost
    \/ /\ g # Lost /\ f.op \in {"head", "ping", "close"} /\ f.size <= 1 /\ (f.op = "close" => g = -1)
       /\ n = m /\ h = g
    \/ /\ f.op = "binary" /\ f.fin /\ g = -1 /\ f.msg = m + 1 /\ f.size <= Limit(d, m + 1)
       /\ n = m + 1 /\ h = -1
    \/ /\ f.op = "binary" /\ ~f.fin /\ g = -1 /\ f.msg = m + 1 /\ f.size + 1 <= Limit(d, m + 1)
       /\ n = m /\ h = f.size
    \/ /\ f.op = "cont" /\ f.fin /\ g >= 0 /\ f.msg = m + 1 /\ f.size = 1 /\ g + 1 <= Limit(d, m + 1)
       /\ n = m + 1 /\ h = -1
    \/ /\ y /\ g # Lost /\ f.op = (IF g >= 0 THEN "binary" ELSE "cont") /\ f.fin /\ f.size = 1
       /\ h = Lost

(* The frames q, one after the other, by the counts a and b of each; and   *)
(* from where to where they take an end.                                   *)
Run(d, y, q, a, b) ==
    /\ q \in Seq(FrameRec) /\ a \in [0..Len(q) -> Nat] /\ b \in [0..Len(q) -> Int]
    /\ \A i \in 1..Len(q) : FrameStep(d, y, a[i - 1], b[i - 1], q[i], a[i], b[i])
    /\ \A i \in 0..Len(q) : b[i] = Lost => y
Runs(d, y, q, m, g, n, h) ==
    \E a, b : Run(d, y, q, a, b) /\ a[0] = m /\ b[0] = g /\ a[Len(q)] = n /\ b[Len(q)] = h

(* No frames. *)
LEMMA RunsNone ==
  ASSUME NEW d, NEW y, NEW m \in Nat, NEW g \in Int, g = Lost => y
  PROVE  Runs(d, y, << >>, m, g, m, g)
<1> DEFINE a == [i \in 0..0 |-> m]
           b == [i \in 0..0 |-> g]
<1>1. Run(d, y, << >>, a, b) /\ a[0] = m /\ b[0] = g /\ Len(<< >>) = 0
  BY DEF Run
<1> HIDE DEF a, b
<1> QED BY <1>1 DEF Runs

(* What they take it to is counts again, the same if there are none. *)
LEMMA RunsTyped ==
  ASSUME NEW d, NEW y, NEW q, NEW m, NEW g, NEW n, NEW h, Runs(d, y, q, m, g, n, h)
  PROVE  /\ m \in Nat /\ n \in Nat /\ g \in Int /\ h \in Int /\ (g = Lost => y) /\ (h = Lost => y)
         /\ q \in Seq(FrameRec)
         /\ q = << >> => m = n /\ g = h
<1>1. PICK a, b : Run(d, y, q, a, b) /\ a[0] = m /\ b[0] = g /\ a[Len(q)] = n /\ b[Len(q)] = h
  BY DEF Runs
<1>2. q \in Seq(FrameRec) /\ Len(q) \in Nat /\ 0 \in 0..Len(q) /\ Len(q) \in 0..Len(q)
  BY <1>1 DEF Run
<1>3. a[0] \in Nat /\ a[Len(q)] \in Nat /\ b[0] \in Int /\ b[Len(q)] \in Int
  BY <1>1, <1>2 DEF Run
<1>4. (b[0] = Lost => y) /\ (b[Len(q)] = Lost => y)
  BY <1>1, <1>2 DEF Run
<1>5. q = << >> => Len(q) = 0
  OBVIOUS
<1> QED BY <1>1, <1>2, <1>3, <1>4, <1>5

(* A frame more. *)
LEMMA RunsMore ==
  ASSUME NEW d, NEW y, NEW q, NEW m, NEW g, NEW n, NEW h, Runs(d, y, q, m, g, n, h),
         NEW f \in FrameRec, NEW k \in Nat, NEW l \in Int, FrameStep(d, y, n, h, f, k, l), l = Lost => y
  PROVE  Runs(d, y, Append(q, f), m, g, k, l)
<1>1. PICK a, b : Run(d, y, q, a, b) /\ a[0] = m /\ b[0] = g /\ a[Len(q)] = n /\ b[Len(q)] = h
  BY DEF Runs
<1> DEFINE N == Len(q)
           z == Append(q, f)
           c == [i \in 0..(N + 1) |-> IF i <= N THEN a[i] ELSE k]
           e == [i \in 0..(N + 1) |-> IF i <= N THEN b[i] ELSE l]
<1>2. q \in Seq(FrameRec) /\ N \in Nat /\ a \in [0..N -> Nat] /\ b \in [0..N -> Int]
  BY <1>1 DEF Run
<1>3. z \in Seq(FrameRec) /\ Len(z) = N + 1 /\ z[N + 1] = f /\ \A i \in 1..N : z[i] = q[i]
  BY <1>2
<1>4. c \in [0..(N + 1) -> Nat] /\ e \in [0..(N + 1) -> Int] /\ c[N + 1] = k /\ e[N + 1] = l
      /\ \A i \in 0..N : c[i] = a[i] /\ e[i] = b[i]
  BY <1>2
<1> HIDE DEF z, c, e
<1>5. ASSUME NEW i \in 1..(N + 1) PROVE FrameStep(d, y, c[i - 1], e[i - 1], z[i], c[i], e[i])
  <2>1. CASE i \in 1..N
    <3>1. i - 1 \in 0..N /\ i \in 0..N
      BY <1>2, <2>1
    <3>2. FrameStep(d, y, a[i - 1], b[i - 1], q[i], a[i], b[i])
      BY <1>1, <2>1 DEF Run
    <3> QED BY <1>3, <1>4, <2>1, <3>1, <3>2
  <2>2. CASE i = N + 1
    <3>1. i - 1 = N /\ N \in 0..N
      BY <1>2, <2>2
    <3>2. c[i - 1] = n /\ e[i - 1] = h /\ z[i] = f /\ c[i] = k /\ e[i] = l
      BY <1>1, <1>3, <1>4, <2>2, <3>1
    <3> QED BY <3>2
  <2> QED BY <1>2, <2>1, <2>2
<1>6. ASSUME NEW i \in 0..(N + 1), e[i] = Lost PROVE y
  <2>1. CASE i \in 0..N
    BY <1>1, <1>4, <1>6, <2>1 DEF Run
  <2>2. CASE i = N + 1
    BY <1>4, <1>6, <2>2
  <2> QED BY <1>2, <2>1, <2>2
<1>7. Run(d, y, z, c, e)
  BY <1>3, <1>4, <1>5, <1>6 DEF Run
<1>8. c[0] = m /\ e[0] = g /\ c[Len(z)] = k /\ e[Len(z)] = l
  BY <1>1, <1>2, <1>3, <1>4
<1>9. Runs(d, y, z, m, g, k, l)
  BY <1>7, <1>8 DEF Runs
<1> QED BY <1>9 DEF z

(* The first of them, and the rest. *)
LEMMA RunsFirst ==
  ASSUME NEW d, NEW y, NEW q, NEW m, NEW g, NEW n, NEW h, Runs(d, y, q, m, g, n, h), q # << >>
  PROVE  /\ Head(q) \in FrameRec
         /\ \E k \in Nat, l \in Int : FrameStep(d, y, m, g, Head(q), k, l) /\ Runs(d, y, Tail(q), k, l, n, h)
<1>1. PICK a, b : Run(d, y, q, a, b) /\ a[0] = m /\ b[0] = g /\ a[Len(q)] = n /\ b[Len(q)] = h
  BY DEF Runs
<1> DEFINE N == Len(q)
           z == Tail(q)
           c == [i \in 0..(N - 1) |-> a[i + 1]]
           e == [i \in 0..(N - 1) |-> b[i + 1]]
<1>2. q \in Seq(FrameRec) /\ N \in Nat /\ a \in [0..N -> Nat] /\ b \in [0..N -> Int] /\ N > 0
  BY <1>1 DEF Run
<1>3. z \in Seq(FrameRec) /\ Len(z) = N - 1 /\ (\A i \in 1..(N - 1) : z[i] = q[i + 1]) /\ Head(q) = q[1] /\ q[1] \in FrameRec
  BY <1>2
<1>4. c \in [0..(N - 1) -> Nat] /\ e \in [0..(N - 1) -> Int]
      /\ \A i \in 0..(N - 1) : c[i] = a[i + 1] /\ e[i] = b[i + 1]
  BY <1>2
<1> HIDE DEF z, c, e
<1>5. ASSUME NEW i \in 1..(N - 1) PROVE FrameStep(d, y, c[i - 1], e[i - 1], z[i], c[i], e[i])
  <2>1. i - 1 \in 0..(N - 1) /\ i \in 0..(N - 1) /\ i + 1 \in 1..N /\ (i - 1) + 1 = i /\ (i + 1) - 1 = i
    BY <1>2
  <2>2. FrameStep(d, y, a[(i + 1) - 1], b[(i + 1) - 1], q[i + 1], a[i + 1], b[i + 1])
    BY <1>1, <2>1 DEF Run
  <2>3. c[i - 1] = a[i] /\ e[i - 1] = b[i] /\ z[i] = q[i + 1] /\ c[i] = a[i + 1] /\ e[i] = b[i + 1]
    BY <1>3, <1>4, <2>1
  <2> QED BY <2>1, <2>2, <2>3
<1>6. ASSUME NEW i \in 0..(N - 1), e[i] = Lost PROVE y
  <2>1. i + 1 \in 0..N
    BY <1>2
  <2> QED BY <1>1, <1>4, <1>6, <2>1 DEF Run
<1>7. Run(d, y, z, c, e)
  BY <1>3, <1>4, <1>5, <1>6 DEF Run
<1>8. /\ 0 \in 0..(N - 1) /\ N - 1 \in 0..(N - 1) /\ 0 + 1 = 1 /\ (N - 1) + 1 = N /\ 1 \in 1..N /\ 1 - 1 = 0 /\ 1 \in 0..N
  BY <1>2
<1>9. c[0] = a[1] /\ e[0] = b[1] /\ c[Len(z)] = n /\ e[Len(z)] = h
  BY <1>1, <1>3, <1>4, <1>8
<1>10. Runs(d, y, z, a[1], b[1], n, h)
  BY <1>7, <1>9 DEF Runs
<1>11. FrameStep(d, y, a[1 - 1], b[1 - 1], q[1], a[1], b[1])
  BY <1>1, <1>8 DEF Run
<1>12. FrameStep(d, y, m, g, Head(q), a[1], b[1]) /\ a[1] \in Nat /\ b[1] \in Int
  BY <1>1, <1>2, <1>3, <1>8, <1>11
<1> QED BY <1>3, <1>10, <1>12 DEF z

(* Behind a frame out of order. *)
LEMMA RunsLost ==
  ASSUME NEW d, NEW y, y, NEW q \in Seq(FrameRec), NEW m \in Nat
  PROVE  Runs(d, y, q, m, Lost, m, Lost)
<1> DEFINE a == [i \in 0..Len(q) |-> m]
           b == [i \in 0..Len(q) |-> Lost]
<1>1. Len(q) \in Nat /\ Lost \in Int
  BY DEF Lost
<1>2. a \in [0..Len(q) -> Nat] /\ b \in [0..Len(q) -> Int] /\ \A i \in 0..Len(q) : a[i] = m /\ b[i] = Lost
  BY <1>1
<1> HIDE DEF a, b
<1>3. ASSUME NEW i \in 1..Len(q) PROVE FrameStep(d, y, a[i - 1], b[i - 1], q[i], a[i], b[i])
  <2>1. i - 1 \in 0..Len(q) /\ i \in 0..Len(q)
    BY <1>1
  <2>2. b[i - 1] = Lost /\ b[i] = Lost
    BY <1>2, <2>1
  <2> QED BY <2>2 DEF FrameStep
<1>4. Run(d, y, q, a, b)
  BY <1>2, <1>3 DEF Run
<1>5. 0 \in 0..Len(q) /\ Len(q) \in 0..Len(q)
  BY <1>1
<1>6. a[0] = m /\ b[0] = Lost /\ a[Len(q)] = m /\ b[Len(q)] = Lost
  BY <1>2, <1>5
<1> QED BY <1>4, <1>6 DEF Runs

(* A peer that keeps to the rules no longer. *)
LEMMA RunsStrayed ==
  ASSUME NEW d, NEW y, NEW q, NEW m, NEW g, NEW n, NEW h, Runs(d, y, q, m, g, n, h), NEW x, y => x
  PROVE  Runs(d, x, q, m, g, n, h)
<1>1. PICK a, b : Run(d, y, q, a, b) /\ a[0] = m /\ b[0] = g /\ a[Len(q)] = n /\ b[Len(q)] = h
  BY DEF Runs
<1>2. ASSUME NEW i \in 1..Len(q) PROVE FrameStep(d, x, a[i - 1], b[i - 1], q[i], a[i], b[i])
  <2>1. FrameStep(d, y, a[i - 1], b[i - 1], q[i], a[i], b[i])
    BY <1>1 DEF Run
  <2> QED BY <2>1 DEF FrameStep
<1>3. Run(d, x, q, a, b)
  BY <1>1, <1>2 DEF Run
<1> QED BY <1>1, <1>3 DEF Runs

(* ---- the two framers ---- *)

Ats == {"idle", "parse", "upgrade", "unmask", "pong", "step"}
ReaderRec == [open : BOOLEAN, parts : Seq(FrameRec), cap : Nat, frag : Int, at : Ats,
              taken : Seq(FrameRec), refused : {"no", "cap", "order", "close"}]
WriterRec == [open : BOOLEAN, head : BOOLEAN, waiting : Seq(FrameRec), writes : Seq(FrameRec),
              sent : Nat, closed : BOOLEAN, stray : BOOLEAN]

(* Frames only a peer's messages and its close are made of. *)
Plain(q) == \A i \in 1..Len(q) : q[i].op \in {"binary", "cont", "close"}

(* What the peer has yet to put. *)
Rest(w) == IF w.open THEN w.writes ELSE w.waiting
WriterOK(w, c, d) ==
    /\ w \in WriterRec
    /\ IF w.open THEN w.waiting = << >> ELSE w.writes = << >>
    /\ w.stray => w.closed
    /\ Plain(Rest(w))
    /\ c = "ws" /\ ~w.head => ~w.open
    /\ c = "ws" /\ d => (w.head => w.open) /\ (~w.open => w.waiting = << >>)

ReaderOK(r, work1, n, d) ==
    /\ r \in ReaderRec /\ r.frag >= -1
    /\ r.at = "idle" /\ r.open => ~Complete(r.parts)
    /\ r.cap = IF n >= (IF d THEN 1 ELSE 2) THEN maxFrame ELSE maxHandshakeFrame
    /\ r.at # "step" /\ r.cap # maxFrame => work1 = << >>
    /\ IF r.at = "unmask" THEN Len(r.taken) = 1 /\ r.taken[1].op # "head" ELSE r.taken = << >>
    /\ r.at \in {"parse", "unmask", "pong", "step"} => r.open
    /\ r.at = "upgrade" => ~r.open /\ Complete(r.parts)
    /\ r.refused # "no" => r.at = "idle"

(* The head comes first, and is there until the reader has upgraded. *)
Heads(F, open, head, c) ==
    /\ \A i \in 1..Len(F) : F[i].op = "head" => i = 1 /\ ~open
    /\ c = "ws" /\ ~open => IF head THEN F # << >> /\ F[1].op = "head" ELSE F = << >>

(* The frames F on the line, and what the peer has yet to put, take an end *)
(* from n and g to all that was sent.                                      *)
Behind(d, w, F, n, g) ==
    \E k, h, j, l : /\ Runs(d, w.stray, F, n, g, k, h)
                    /\ Runs(d, w.stray, Rest(w), k, h, j, l)
                    /\ ~w.closed => j = w.sent /\ l = -1
Enters(d, y, m, g, t, n, h) == IF t = << >> THEN n = m /\ h = g ELSE FrameStep(d, y, m, g, t[1], n, h)
Flows(c, d, r, S, w, m, F) ==
    /\ \E o : CutInto(r.parts, S, F, o)
    /\ Heads(F, r.open, w.head, c)
    /\ \E n, g : Enters(d, w.stray, m, r.frag, r.taken, n, g) /\ Behind(d, w, F, n, g)

FramingInv ==
    /\ codec \in {"none", "length", "ws", "message"} /\ weDialed \in BOOLEAN /\ stream \in Seq(FrameRec)
    /\ work \in Seq(Nat) /\ handled \in Seq(Nat)
    /\ codec = "none" => FramingInit
    /\ codec \notin {"none", "ws"} => writer.open /\ reader.open
    /\ codec = "ws" /\ ~writer.head => ~reader.open
    /\ WriterOK(writer, codec, weDialed)
    /\ ReaderOK(reader, work, Len(handled), weDialed)
    /\ \A k \in 1..Len(handled) : handled[k] = k
    /\ reader.refused \in {"cap", "order"} => writer.stray
    /\ reader.refused = "no" =>
         /\ \A k \in 1..Len(work) : work[k] = Len(handled) + k
         /\ \E F : Flows(codec, weDialed, reader, stream, writer, Len(handled) + Len(work), F)

(* The peer has more to put, or less, or none. *)
LEMMA FlowRest ==
  ASSUME NEW c, NEW d, NEW r, NEW S, NEW w, NEW m, NEW F, Flows(c, d, r, S, w, m, F),
         NEW u, u.stray = w.stray, u.head = w.head,
         \A k, h, j, l : Runs(d, w.stray, Rest(w), k, h, j, l) /\ (~w.closed => j = w.sent /\ l = -1)
            => \E j1, l1 : Runs(d, w.stray, Rest(u), k, h, j1, l1) /\ (~u.closed => j1 = u.sent /\ l1 = -1)
  PROVE  Flows(c, d, r, S, u, m, F)
<1>1. PICK n, g : Enters(d, w.stray, m, r.frag, r.taken, n, g) /\ Behind(d, w, F, n, g)
  BY DEF Flows
<1>2. Behind(d, u, F, n, g)
  <2>1. PICK k, h, j, l : /\ Runs(d, w.stray, F, n, g, k, h)
                          /\ Runs(d, w.stray, Rest(w), k, h, j, l)
                          /\ ~w.closed => j = w.sent /\ l = -1
    BY <1>1 DEF Behind
  <2>2. PICK j1, l1 : Runs(d, w.stray, Rest(u), k, h, j1, l1) /\ (~u.closed => j1 = u.sent /\ l1 = -1)
    BY <2>1
  <2> QED BY <2>1, <2>2 DEF Behind
<1> QED BY <1>1, <1>2 DEF Flows

(* A frame is put on the line. *)
Onward(d, y, f, k, h, u) ==
    \E k1, h1, j1, l1 : /\ k1 \in Nat /\ h1 \in Int /\ FrameStep(d, y, k, h, f, k1, h1) /\ (h1 = Lost => y)
                        /\ Runs(d, y, Rest(u), k1, h1, j1, l1)
                        /\ ~u.closed => j1 = u.sent /\ l1 = -1
LEMMA FlowPut ==
  ASSUME NEW c, NEW d, NEW r, NEW S, NEW w, NEW m, NEW F, Flows(c, d, r, S, w, m, F),
         NEW f \in FrameRec, NEW u, w.stray => u.stray, Heads(Append(F, f), r.open, u.head, c),
         \A k, h, j, l : Runs(d, w.stray, Rest(w), k, h, j, l) /\ (~w.closed => j = w.sent /\ l = -1)
            => Onward(d, u.stray, f, k, h, u)
  PROVE  Flows(c, d, r, S \o Units(f), u, m, Append(F, f))
<1>1. PICK n, g : Enters(d, w.stray, m, r.frag, r.taken, n, g) /\ Behind(d, w, F, n, g)
  BY DEF Flows
<1>2. Enters(d, u.stray, m, r.frag, r.taken, n, g)
  BY <1>1 DEF Enters, FrameStep
<1>3. Behind(d, u, Append(F, f), n, g)
  <2>1. PICK k, h, j, l : /\ Runs(d, w.stray, F, n, g, k, h)
                          /\ Runs(d, w.stray, Rest(w), k, h, j, l)
                          /\ ~w.closed => j = w.sent /\ l = -1
    BY <1>1 DEF Behind
  <2>2. PICK k1, h1, j1, l1 :
                /\ k1 \in Nat /\ h1 \in Int
                /\ FrameStep(d, u.stray, k, h, f, k1, h1) /\ (h1 = Lost => u.stray)
                /\ Runs(d, u.stray, Rest(u), k1, h1, j1, l1)
                /\ ~u.closed => j1 = u.sent /\ l1 = -1
    BY <2>1 DEF Onward
  <2>3. Runs(d, u.stray, F, n, g, k, h)
    BY <2>1, RunsStrayed
  <2>4. Runs(d, u.stray, Append(F, f), n, g, k1, h1)
    BY <2>2, <2>3, RunsMore
  <2> QED BY <2>2, <2>4 DEF Behind
<1>4. \E o : CutInto(r.parts, S \o Units(f), Append(F, f), o)
  BY CutPut DEF Flows
<1> QED BY <1>2, <1>3, <1>4 DEF Flows

(* The first frame, all of it buffered, is taken off the line. *)
TakesTo(c, d, r, S, w, m, F, f) ==
    /\ f \in FrameRec /\ f = F[1] /\ F # << >> /\ Len(F) > 0
    /\ \E o : CutInto(SubSeq(r.parts, f.size + 2, Len(r.parts)), S, Tail(F), o)
    /\ \E k \in Nat, l \in Int : FrameStep(d, w.stray, m, r.frag, f, k, l) /\ Behind(d, w, Tail(F), k, l)
LEMMA FlowTake ==
  ASSUME NEW c, NEW d, NEW r, NEW S, NEW w, NEW m, NEW F, Flows(c, d, r, S, w, m, F),
         r.taken = << >>, r.parts # << >>, Len(r.parts) >= Head(r.parts).size + 1
  PROVE  TakesTo(c, d, r, S, w, m, F, Head(r.parts))
<1> DEFINE f == Head(r.parts)
<1>1. PICK o : CutInto(r.parts, S, F, o)
  BY DEF Flows
<1>2. F # << >> /\ Len(F) > 0 /\ f = F[1] /\ F \in Seq(FrameRec)
  <2>1. F \in Seq(FrameRec)
    BY <1>1 DEF CutInto
  <2> QED BY <1>1, <2>1, CutFirst
<1>3. \E t : CutInto(SubSeq(r.parts, f.size + 2, Len(r.parts)), S, Tail(F), t)
  <2> DEFINE P == r.parts
  <2>1. CutInto(P, S, F, o) /\ P # << >> /\ Len(P) >= Head(P).size + 1
    BY <1>1
  <2> HIDE DEF P
  <2>2. \E t : CutInto(SubSeq(P, Head(P).size + 2, Len(P)), S, Tail(F), t)
    BY <2>1, CutTake
  <2> QED BY <2>2 DEF P
<1>4. PICK k, h, j, l : /\ Runs(d, w.stray, F, m, r.frag, k, h)
                        /\ Runs(d, w.stray, Rest(w), k, h, j, l)
                        /\ ~w.closed => j = w.sent /\ l = -1
  BY DEF Flows, Enters, Behind
<1>5. Head(F) = F[1]
  BY <1>2
<1>6. PICK k1 \in Nat, l1 \in Int : FrameStep(d, w.stray, m, r.frag, Head(F), k1, l1) /\ Runs(d, w.stray, Tail(F), k1, l1, k, h)
  BY <1>2, <1>4, RunsFirst
<1>7. Behind(d, w, Tail(F), k1, l1)
  BY <1>4, <1>6 DEF Behind
<1>8. f \in FrameRec
  BY <1>2, <1>4, <1>5, RunsFirst
<1> HIDE DEF f
<1>9. TakesTo(c, d, r, S, w, m, F, f)
  BY <1>2, <1>3, <1>5, <1>6, <1>7, <1>8 DEF TakesTo
<1> QED BY <1>9 DEF f

(* A framer's fields, changed. *)
WriterAs(u, open, head, waiting, writes, sent, closed, stray) ==
    /\ u \in WriterRec /\ u.open = open /\ u.head = head /\ u.waiting = waiting /\ u.writes = writes
    /\ u.sent = sent /\ u.closed = closed /\ u.stray = stray
LEMMA WriterIs ==
  ASSUME NEW w \in WriterRec, NEW q \in Seq(FrameRec), NEW e \in Seq(FrameRec), NEW n \in Nat,
         NEW x \in BOOLEAN, NEW y \in BOOLEAN
  PROVE  /\ WriterAs([w EXCEPT !.sent = n, !.writes = q], w.open, w.head, w.waiting, q, n, w.closed, w.stray)
         /\ WriterAs([w EXCEPT !.sent = n, !.waiting = q], w.open, w.head, q, w.writes, n, w.closed, w.stray)
         /\ WriterAs([w EXCEPT !.writes = q], w.open, w.head, w.waiting, q, w.sent, w.closed, w.stray)
         /\ WriterAs([w EXCEPT !.open = x, !.writes = q, !.waiting = e], x, w.head, e, q, w.sent, w.closed, w.stray)
         /\ WriterAs([w EXCEPT !.closed = x, !.sent = n, !.writes = q], w.open, w.head, w.waiting, q, n, x, w.stray)
         /\ WriterAs([w EXCEPT !.closed = x, !.waiting = e, !.writes = e], w.open, w.head, e, e, w.sent, x, w.stray)
         /\ WriterAs([w EXCEPT !.stray = y, !.closed = x], w.open, w.head, w.waiting, w.writes, w.sent, x, y)
         /\ WriterAs([w EXCEPT !.head = x, !.open = y], y, x, w.waiting, w.writes, w.sent, w.closed, w.stray)
         /\ WriterAs([w EXCEPT !.open = x], x, w.head, w.waiting, w.writes, w.sent, w.closed, w.stray)
<1>1. WriterAs([w EXCEPT !.sent = n, !.writes = q], w.open, w.head, w.waiting, q, n, w.closed, w.stray)
  BY DEF WriterAs, WriterRec
<1>2. WriterAs([w EXCEPT !.sent = n, !.waiting = q], w.open, w.head, q, w.writes, n, w.closed, w.stray)
  BY DEF WriterAs, WriterRec
<1>3. WriterAs([w EXCEPT !.writes = q], w.open, w.head, w.waiting, q, w.sent, w.closed, w.stray)
  BY DEF WriterAs, WriterRec
<1>4. WriterAs([w EXCEPT !.open = x, !.writes = q, !.waiting = e], x, w.head, e, q, w.sent, w.closed, w.stray)
  BY DEF WriterAs, WriterRec
<1>5. WriterAs([w EXCEPT !.closed = x, !.sent = n, !.writes = q], w.open, w.head, w.waiting, q, n, x, w.stray)
  BY DEF WriterAs, WriterRec
<1>6. WriterAs([w EXCEPT !.closed = x, !.waiting = e, !.writes = e], w.open, w.head, e, e, w.sent, x, w.stray)
  BY DEF WriterAs, WriterRec
<1>7. WriterAs([w EXCEPT !.stray = y, !.closed = x], w.open, w.head, w.waiting, w.writes, w.sent, x, y)
  BY DEF WriterAs, WriterRec
<1>8. WriterAs([w EXCEPT !.head = x, !.open = y], y, x, w.waiting, w.writes, w.sent, w.closed, w.stray)
  BY DEF WriterAs, WriterRec
<1>9. WriterAs([w EXCEPT !.open = x], x, w.head, w.waiting, w.writes, w.sent, w.closed, w.stray)
  BY DEF WriterAs, WriterRec
<1> QED BY <1>1, <1>2, <1>3, <1>4, <1>5, <1>6, <1>7, <1>8, <1>9

(* A frame's fields. *)
LEMMA FrameIs ==
  ASSUME NEW op \in FrameOps, NEW m \in Nat, NEW n \in Nat, NEW fin \in BOOLEAN
  PROVE  /\ Frame(op, m, n, fin) \in FrameRec /\ Frame(op, m, n, fin).op = op /\ Frame(op, m, n, fin).msg = m
         /\ Frame(op, m, n, fin).size = n /\ Frame(op, m, n, fin).fin = fin
  BY DEF Frame, FrameRec

(* One or two frames more, one by one. *)
LEMMA AddOne ==
  ASSUME NEW q \in Seq(FrameRec), NEW f \in FrameRec
  PROVE  q \o <<f>> = Append(q, f)
<1> DEFINE a == q \o <<f>>
           b == Append(q, f)
           N == Len(q)
<1>1. N \in Nat /\ <<f>> \in Seq(FrameRec) /\ Len(<<f>>) = 1 /\ <<f>>[1] = f
  OBVIOUS
<1>2. a \in Seq(FrameRec) /\ Len(a) = N + 1 /\ \A i \in 1..(N + 1) : a[i] = IF i <= N THEN q[i] ELSE <<f>>[i - N]
  BY <1>1, ConcatProperties
<1>3. b \in Seq(FrameRec) /\ Len(b) = N + 1 /\ b[N + 1] = f /\ \A i \in 1..N : b[i] = q[i]
  BY AppendProperties
<1> HIDE DEF a, b
<1>4. ASSUME NEW i \in 1..(N + 1) PROVE a[i] = b[i]
  <2>1. CASE i \in 1..N
    BY <1>1, <1>2, <1>3, <2>1
  <2>2. CASE i = N + 1
    <3>1. ~(i <= N) /\ i - N = 1
      BY <1>1, <2>2
    <3> QED BY <1>1, <1>2, <1>3, <2>2, <3>1
  <2> QED BY <1>1, <2>1, <2>2
<1>5. a = b
  BY <1>1, <1>2, <1>3, <1>4, SeqEqual
<1> QED BY <1>5 DEF a, b

LEMMA AddTwo ==
  ASSUME NEW q \in Seq(FrameRec), NEW f \in FrameRec, NEW g \in FrameRec
  PROVE  q \o <<f, g>> = Append(Append(q, f), g)
<1> DEFINE a == q \o <<f, g>>
           c == Append(q, f)
           b == Append(c, g)
           z == <<f, g>>
           N == Len(q)
<1>1. N \in Nat /\ z \in Seq(FrameRec) /\ Len(z) = 2 /\ z[1] = f /\ z[2] = g
  OBVIOUS
<1> HIDE DEF z
<1>2. a \in Seq(FrameRec) /\ Len(a) = N + 2 /\ \A i \in 1..(N + 2) : a[i] = IF i <= N THEN q[i] ELSE z[i - N]
  BY <1>1, ConcatProperties DEF z
<1>3. c \in Seq(FrameRec) /\ Len(c) = N + 1 /\ c[N + 1] = f /\ \A i \in 1..N : c[i] = q[i]
  BY AppendProperties
<1> HIDE DEF c
<1>4. b \in Seq(FrameRec) /\ Len(b) = N + 1 + 1 /\ b[N + 1 + 1] = g /\ \A i \in 1..(N + 1) : b[i] = c[i]
  BY <1>3, AppendProperties
<1> HIDE DEF a, b
<1>5. ASSUME NEW i \in 1..(N + 2) PROVE a[i] = b[i]
  <2>1. CASE i \in 1..N
    <3>1. i <= N /\ i \in 1..(N + 1)
      BY <1>1, <2>1
    <3> QED BY <1>2, <1>3, <1>4, <2>1, <3>1
  <2>2. CASE i = N + 1
    <3>1. ~(i <= N) /\ i - N = 1 /\ i \in 1..(N + 1)
      BY <1>1, <2>2
    <3> QED BY <1>1, <1>2, <1>3, <1>4, <2>2, <3>1
  <2>3. CASE i = N + 2
    <3>1. ~(i <= N) /\ i - N = 2 /\ i = N + 1 + 1
      BY <1>1, <2>3
    <3> QED BY <1>1, <1>2, <1>4, <3>1
  <2> QED BY <1>1, <2>1, <2>2, <2>3, SMTT(30)
<1>6. Len(b) = N + 2
  BY <1>1, <1>4
<1>7. a = b
  BY <1>1, <1>2, <1>4, <1>5, <1>6, SeqEqual
<1> QED BY <1>7 DEF a, b, c

(* One such frame more. *)
LEMMA PlainMore ==
  ASSUME NEW q \in Seq(FrameRec), Plain(q), NEW f \in FrameRec, f.op \in {"binary", "cont", "close"}
  PROVE  Plain(Append(q, f)) /\ Append(q, f) \in Seq(FrameRec)
<1> DEFINE z == Append(q, f)
           N == Len(q)
<1>1. z \in Seq(FrameRec) /\ N \in Nat /\ Len(z) = N + 1 /\ z[N + 1] = f /\ \A i \in 1..N : z[i] = q[i]
  OBVIOUS
<1> HIDE DEF z
<1>2. ASSUME NEW i \in 1..(N + 1) PROVE z[i].op \in {"binary", "cont", "close"}
  <2>1. CASE i \in 1..N
    BY <1>1, <2>1 DEF Plain
  <2>2. CASE i = N + 1
    BY <1>1, <2>2
  <2> QED BY <1>1, <2>1, <2>2
<1>3. Plain(z)
  BY <1>1, <1>2 DEF Plain
<1> QED BY <1>1, <1>3 DEF z

(* A message of a permitted size, whole or in two fragments. *)
LEMMA MessageRuns ==
  ASSUME NEW d, NEW y, NEW q, NEW k, NEW h, NEW n, Runs(d, y, q, k, h, n, -1), Plain(q),
         NEW size \in Nat, size >= 1, size <= Limit(d, n + 1),
         NEW cut \in BOOLEAN, NEW z, z = q \o (IF cut THEN Fragments(n + 1, size) ELSE Whole(n + 1, size))
  PROVE  Runs(d, y, z, k, h, n + 1, -1) /\ Plain(z) /\ z \in Seq(FrameRec)
<1>1. n \in Nat /\ n + 1 \in Nat /\ q \in Seq(FrameRec) /\ size - 1 \in Nat /\ 1 \in Nat
  BY RunsTyped
<1> DEFINE yes == TRUE
           no == FALSE
           b == "binary"
           c == "cont"
           f == Frame(b, n + 1, size, yes)
           e == Frame(b, n + 1, size - 1, no)
           g == Frame(c, n + 1, 1, yes)
<1>2. yes \in BOOLEAN /\ no \in BOOLEAN /\ b \in FrameOps /\ c \in FrameOps
  BY DEF FrameOps
<1>3. z = IF cut THEN q \o <<e, g>> ELSE q \o <<f>>
  BY DEF Fragments, Whole
<1>4. yes /\ ~no
  OBVIOUS
<1>5. ~(-1 = Lost) /\ -1 \in Int
  BY DEF Lost
<1> HIDE DEF yes, no
<1>6. f \in FrameRec /\ f.op = b /\ f.msg = n + 1 /\ f.size = size /\ f.fin
  <2>1. f \in FrameRec /\ f.op = b /\ f.msg = n + 1 /\ f.size = size /\ f.fin = yes
    BY <1>1, <1>2, FrameIs, SMTT(30)
  <2> QED BY <1>4, <2>1
<1>7. e \in FrameRec /\ e.op = b /\ e.msg = n + 1 /\ e.size = size - 1 /\ ~e.fin
  BY <1>1, <1>2, <1>4, FrameIs, SMTT(30)
<1>8. g \in FrameRec /\ g.op = c /\ g.msg = n + 1 /\ g.size = 1 /\ g.fin
  <2>1. g \in FrameRec /\ g.op = c /\ g.msg = n + 1 /\ g.size = 1 /\ g.fin = yes
    BY <1>1, <1>2, FrameIs, SMTT(30)
  <2> QED BY <1>4, <2>1
<1> HIDE DEF e, f, g
<1>9. CASE ~cut
  <2>1. z = Append(q, f)
    BY <1>1, <1>3, <1>6, <1>9, AddOne
  <2>2. FrameStep(d, y, n, -1, f, n + 1, -1)
    BY <1>6 DEF FrameStep
  <2>3. Runs(d, y, Append(q, f), k, h, n + 1, -1)
    BY <1>1, <1>5, <1>6, <2>2, RunsMore
  <2>4. Plain(Append(q, f)) /\ Append(q, f) \in Seq(FrameRec)
    BY <1>1, <1>6, PlainMore
  <2> QED BY <2>1, <2>3, <2>4
<1>10. CASE cut
  <2>1. z = Append(Append(q, e), g)
    BY <1>1, <1>3, <1>7, <1>8, <1>10, AddTwo
  <2>2. FrameStep(d, y, n, -1, e, n, size - 1)
    BY <1>1, <1>7 DEF FrameStep
  <2>3. size - 1 \in Int /\ ~(size - 1 = Lost)
    BY <1>1 DEF Lost
  <2>4. Runs(d, y, Append(q, e), k, h, n, size - 1) /\ Plain(Append(q, e)) /\ Append(q, e) \in Seq(FrameRec)
    BY <1>1, <1>7, <2>2, <2>3, RunsMore, PlainMore
  <2>5. FrameStep(d, y, n, size - 1, g, n + 1, -1)
    BY <1>1, <1>8 DEF FrameStep
  <2> DEFINE p == Append(q, e)
  <2>6. Runs(d, y, p, k, h, n, size - 1) /\ Plain(p) /\ p \in Seq(FrameRec)
    BY <2>4
  <2> HIDE DEF p
  <2>7. Runs(d, y, Append(p, g), k, h, n + 1, -1)
    BY <1>1, <1>5, <1>8, <2>5, <2>6, RunsMore
  <2>8. Plain(Append(p, g)) /\ Append(p, g) \in Seq(FrameRec)
    BY <1>8, <2>6, PlainMore
  <2> QED BY <2>1, <2>7, <2>8 DEF p
<1> QED BY <1>9, <1>10

(* Frames behind the head. *)
LEMMA HeadsMore ==
  ASSUME NEW F \in Seq(FrameRec), NEW open, NEW head, NEW c, Heads(F, open, head, c),
         NEW f \in FrameRec, f.op # "head", c = "ws" /\ ~open => head
  PROVE  Heads(Append(F, f), open, head, c)
<1> DEFINE z == Append(F, f)
           N == Len(F)
<1>1. z \in Seq(FrameRec) /\ N \in Nat /\ Len(z) = N + 1 /\ z[N + 1] = f /\ (\A i \in 1..N : z[i] = F[i]) /\ z # << >>
  OBVIOUS
<1> HIDE DEF z
<1>2. ASSUME NEW i \in 1..(N + 1), z[i].op = "head" PROVE i = 1 /\ ~open
  <2>1. i \in 1..N
    BY <1>1, <1>2
  <2> QED BY <1>1, <1>2, <2>1 DEF Heads
<1>3. ASSUME c = "ws", ~open PROVE z[1].op = "head"
  <2>1. F # << >> /\ F[1].op = "head"
    BY <1>3 DEF Heads
  <2>2. 1 \in 1..N
    BY <1>1, <2>1
  <2> QED BY <1>1, <2>1, <2>2
<1>4. Heads(z, open, head, c)
  BY <1>1, <1>2, <1>3 DEF Heads
<1> QED BY <1>4 DEF z

(* A step of the peer alone. *)
LEMMA WriterMoves ==
  ASSUME FramingInv, codec # "none", UNCHANGED <<codec, weDialed, reader, work, handled>>,
         WriterOK(writer', codec, weDialed), stream' \in Seq(FrameRec), writer.stray => writer'.stray,
         codec \notin {"none", "ws"} => writer'.open, codec = "ws" /\ ~writer'.head => ~reader.open,
         reader.refused = "no" =>
            \E F : Flows(codec, weDialed, reader, stream', writer', Len(handled) + Len(work), F)
  PROVE  FramingInv'
  BY DEF FramingInv

(* Send: a message, at the end of what is yet to be put. *)
LEMMA SendKeeps ==
  ASSUME FramingInv, NEW size \in 1..maxFrame, NEW cut \in BOOLEAN, Send(size, cut)
  PROVE  FramingInv'
<1> DEFINE w == writer
           u == writer'
           n == w.sent
           frames == IF cut THEN Fragments(n + 1, size) ELSE Whole(n + 1, size)
           q == Rest(w)
           z == q \o frames
<1>1. /\ WriterOK(w, codec, weDialed) /\ w \in WriterRec /\ q \in Seq(FrameRec) /\ Plain(q) /\ n \in Nat
      /\ n + 1 \in Nat /\ w.closed \in BOOLEAN /\ w.open \in BOOLEAN
  BY DEF FramingInv, WriterOK, WriterRec, Rest
<1>2. codec # "none" /\ ~w.closed /\ size \in Nat /\ size >= 1 /\ size <= Limit(weDialed, n + 1)
  BY FramingAssumption DEF Send, MaySend, MaxSize, AuthAt, Limit
<1>3. UNCHANGED <<codec, weDialed, reader, work, handled>> /\ stream' = stream
  BY DEF Send
<1>4. u = IF w.open THEN [w EXCEPT !.sent = n + 1, !.writes = @ \o frames]
          ELSE [w EXCEPT !.sent = n + 1, !.waiting = @ \o frames]
  BY DEF Send
<1>5. ASSUME NEW k, NEW h, NEW j, NEW l, Runs(weDialed, w.stray, q, k, h, j, l), j = n, l = -1
      PROVE  Runs(weDialed, w.stray, z, k, h, n + 1, -1)
  <2> HIDE DEF frames, q
  <2>1. Runs(weDialed, w.stray, q, k, h, n, -1)
    BY <1>5
  <2> QED BY <1>1, <1>2, <2>1, MessageRuns DEF frames
<1>6. Plain(z) /\ z \in Seq(FrameRec)
  <2> DEFINE k == n
             no == FALSE
             h == -1
  <2>0. k \in Nat /\ h \in Int /\ ~(h = Lost)
    BY <1>1 DEF Lost
  <2> HIDE DEF k, h, no
  <2>1. Runs(weDialed, no, << >>, k, h, k, h)
    BY <2>0, RunsNone
  <2>2. frames \in Seq(FrameRec) /\ Plain(frames)
    <3> DEFINE e == << >> \o frames
    <3>1. e = frames
      BY DEF Fragments, Whole
    <3>2. Plain(<< >>)
      BY DEF Plain
    <3>3. Runs(weDialed, no, << >>, k, h, n, -1)
      BY <2>1 DEF k, h
    <3> HIDE DEF no
    <3>4. Plain(e) /\ e \in Seq(FrameRec)
      BY <1>1, <1>2, <3>2, <3>3, MessageRuns
    <3> QED BY <3>1, <3>4
  <2> HIDE DEF frames, q
  <2>3. /\ z \in Seq(FrameRec) /\ Len(z) = Len(q) + Len(frames) /\ Len(q) \in Nat /\ Len(frames) \in Nat
        /\ \A i \in 1..(Len(q) + Len(frames)) : z[i] = IF i <= Len(q) THEN q[i] ELSE frames[i - Len(q)]
    BY <1>1, <2>2, ConcatProperties
  <2> HIDE DEF z
  <2>4. ASSUME NEW i \in 1..Len(z) PROVE z[i].op \in {"binary", "cont", "close"}
    <3>1. CASE i <= Len(q)
      <4>1. i \in 1..Len(q)
        BY <2>3, <3>1
      <4> QED BY <1>1, <2>3, <3>1, <4>1 DEF Plain
    <3>2. CASE ~(i <= Len(q))
      <4>1. i - Len(q) \in 1..Len(frames)
        BY <2>3, <3>2
      <4> QED BY <2>2, <2>3, <3>2, <4>1 DEF Plain
    <3> QED BY <3>1, <3>2
  <2> QED BY <2>3, <2>4 DEF Plain
<1> HIDE DEF frames
<1>7. /\ u \in WriterRec /\ Rest(u) = z /\ u.open = w.open /\ u.head = w.head /\ u.closed = w.closed /\ u.stray = w.stray
      /\ u.sent = n + 1
      /\ IF u.open THEN u.waiting = << >> ELSE u.writes = << >>
      /\ ~u.open => z = u.waiting
  <2>1. CASE w.open
    <3>1. z = w.writes \o frames /\ w.waiting = << >>
      BY <1>1, <2>1 DEF Rest, WriterOK
    <3>2. u = [w EXCEPT !.sent = n + 1, !.writes = z]
      BY <1>4, <2>1, <3>1, SMTT(30)
    <3> HIDE DEF z, u
    <3>3. WriterAs(u, w.open, w.head, w.waiting, z, n + 1, w.closed, w.stray)
      BY <1>1, <1>6, <3>2, WriterIs
    <3> QED BY <2>1, <3>1, <3>3 DEF WriterAs, Rest
  <2>2. CASE ~w.open
    <3>1. z = w.waiting \o frames /\ w.writes = << >>
      BY <1>1, <2>2, SMTT(30) DEF Rest, WriterOK
    <3>2. u = [w EXCEPT !.sent = n + 1, !.waiting = z]
      BY <1>4, <2>2, <3>1
    <3> HIDE DEF z, u
    <3>3. WriterAs(u, w.open, w.head, z, w.writes, n + 1, w.closed, w.stray)
      BY <1>1, <1>6, <3>2, WriterIs
    <3> QED BY <2>2, <3>1, <3>3 DEF WriterAs, Rest
  <2> QED BY <2>1, <2>2
<1> HIDE DEF z, u, q
<1>8. WriterOK(u, codec, weDialed)
  <2>1. codec = "ws" /\ weDialed => u.open
    <3>1. codec = "ws" /\ weDialed => reader.open /\ w.head
      BY DEF Send, MaySend, FramingInv
    <3> QED BY <1>1, <1>7, <3>1 DEF WriterOK
  <2> QED BY <1>1, <1>6, <1>7, <2>1 DEF WriterOK
<1>9. ASSUME reader.refused = "no"
      PROVE  \E F : Flows(codec, weDialed, reader, stream, u, Len(handled) + Len(work), F)
  <2>1. PICK F : Flows(codec, weDialed, reader, stream, w, Len(handled) + Len(work), F)
    BY <1>9 DEF FramingInv
  <2>2. ASSUME NEW k, NEW h, NEW j, NEW l, Runs(weDialed, w.stray, Rest(w), k, h, j, l), ~w.closed => j = w.sent /\ l = -1
        PROVE  Runs(weDialed, w.stray, Rest(u), k, h, n + 1, -1)
    BY <1>2, <1>5, <1>7, <2>2 DEF q
  <2>3. Flows(codec, weDialed, reader, stream, u, Len(handled) + Len(work), F)
    BY <1>7, <2>1, <2>2, FlowRest
  <2> QED BY <2>3
<1>10. stream \in Seq(FrameRec) /\ (codec \notin {"none", "ws"} => w.open) /\ (codec = "ws" /\ ~w.head => ~reader.open)
  BY DEF FramingInv
<1> QED BY <1>2, <1>3, <1>7, <1>8, <1>9, <1>10, WriterMoves DEF u

LEMMA WriterTyped ==
  ASSUME FramingInv
  PROVE  /\ WriterOK(writer, codec, weDialed) /\ writer \in WriterRec /\ Rest(writer) \in Seq(FrameRec)
         /\ Plain(Rest(writer)) /\ writer.sent \in Nat /\ writer.closed \in BOOLEAN /\ writer.open \in BOOLEAN
         /\ writer.head \in BOOLEAN /\ writer.stray \in BOOLEAN
         /\ writer.writes \in Seq(FrameRec) /\ writer.waiting \in Seq(FrameRec)
         /\ stream \in Seq(FrameRec) /\ weDialed \in BOOLEAN
         /\ (codec \notin {"none", "ws"} => writer.open /\ reader.open)
         /\ (codec = "ws" /\ ~writer.head => ~reader.open)
  BY DEF FramingInv, WriterOK, WriterRec, Rest

(* The 101 reaches the peer. *)
LEMMA PeerOpensKeeps ==
  ASSUME FramingInv, PeerOpens
  PROVE  FramingInv'
<1> DEFINE w == writer
           u == writer'
           q == w.waiting
           yes == TRUE
           e == << >>
<1>1. WriterOK(w, codec, weDialed) /\ w \in WriterRec /\ q \in Seq(FrameRec) /\ Plain(Rest(w)) /\ stream \in Seq(FrameRec)
      /\ ~w.open /\ w.writes = << >> /\ Rest(w) = q /\ codec = "ws" /\ ~weDialed /\ reader.open /\ ~w.closed
  BY WriterTyped DEF PeerOpens, WriterOK, Rest
<1>2. w.writes \o q = q
  BY <1>1
<1>3. u = [w EXCEPT !.open = yes, !.writes = q, !.waiting = e]
  BY <1>2 DEF PeerOpens
<1>4. yes \in BOOLEAN /\ yes /\ e \in Seq(FrameRec)
  BY SMTT(30)
<1> HIDE DEF yes, e, q, u
<1>5. WriterAs(u, yes, w.head, e, q, w.sent, w.closed, w.stray)
  BY <1>1, <1>3, <1>4, WriterIs
<1>6. u \in WriterRec /\ u.open /\ u.head = w.head /\ u.waiting = << >> /\ Rest(u) = q /\ u.sent = w.sent
      /\ u.closed = w.closed /\ u.stray = w.stray
  <2>1. u.open = yes /\ u.waiting = e /\ u.writes = q
    BY <1>5 DEF WriterAs
  <2>2. u.open
    BY <1>4, <2>1
  <2> QED BY <1>5, <2>1, <2>2 DEF WriterAs, Rest, e
<1>7. UNCHANGED <<codec, weDialed, reader, work, handled>> /\ stream' = stream
  BY DEF PeerOpens
<1>8. WriterOK(u, codec, weDialed)
  <2>1. codec = "ws" /\ ~w.head => ~reader.open
    BY WriterTyped
  <2> QED BY <1>1, <1>6, <2>1 DEF WriterOK
<1>9. ASSUME reader.refused = "no"
      PROVE  \E F : Flows(codec, weDialed, reader, stream, u, Len(handled) + Len(work), F)
  <2>1. PICK F : Flows(codec, weDialed, reader, stream, w, Len(handled) + Len(work), F)
    BY <1>9 DEF FramingInv
  <2>2. Flows(codec, weDialed, reader, stream, u, Len(handled) + Len(work), F)
    BY <1>1, <1>6, <2>1, FlowRest
  <2> QED BY <2>2
<1>10. codec = "ws" /\ ~u.head => ~reader.open
  BY <1>6, WriterTyped
<1> QED BY <1>1, <1>6, <1>7, <1>8, <1>9, <1>10, WriterMoves DEF u

(* The peer's link ends. *)
LEMMA PeerEndsKeeps ==
  ASSUME FramingInv, NEW farewell \in BOOLEAN, PeerEnds(farewell)
  PROVE  FramingInv'
<1> DEFINE w == writer
           u == writer'
           n == w.sent
           q == Rest(w)
           yes == TRUE
           no == FALSE
           e == << >>
<1>1. /\ WriterOK(w, codec, weDialed) /\ w \in WriterRec /\ q \in Seq(FrameRec) /\ Plain(q) /\ n \in Nat
      /\ n + 1 \in Nat /\ w.open \in BOOLEAN /\ stream \in Seq(FrameRec)
  BY WriterTyped
<1>2. codec # "none" /\ ~w.closed
  BY DEF PeerEnds
<1>3. UNCHANGED <<codec, weDialed, reader, work, handled>> /\ stream' = stream
  BY DEF PeerEnds
<1>4. yes \in BOOLEAN /\ yes /\ no \in BOOLEAN /\ ~no /\ e \in Seq(FrameRec)
  OBVIOUS
<1>5. CASE farewell
  <2> DEFINE one == 1
             zero == 0
             bin == "binary"
             end == "close"
             z == q \o Whole(n + 1, one)
             f == Frame(bin, n + 1, one, yes)
             g == Frame(end, zero, zero, yes)
             x == z \o Goodbye
  <2>1. w.open /\ q = w.writes /\ w.waiting = << >>
    BY <1>1, <1>5 DEF PeerEnds, Rest, WriterOK
  <2>2. u = [w EXCEPT !.closed = yes, !.sent = n + 1, !.writes = x]
    BY <1>5, <2>1 DEF PeerEnds
  <2>3. /\ one \in Nat /\ one >= 1 /\ one <= Limit(weDialed, n + 1) /\ zero \in Nat /\ zero <= 1 /\ bin \in FrameOps
        /\ end \in FrameOps /\ bin \in {"binary", "cont", "close"} /\ end \in {"binary", "cont", "close"}
    BY FramingAssumption DEF Limit, FrameOps
  <2>4. z = q \o (IF no THEN Fragments(n + 1, one) ELSE Whole(n + 1, one))
    OBVIOUS
  <2>6. Whole(n + 1, one) = <<f>> /\ Goodbye = IF codec = "ws" THEN <<g>> ELSE << >>
    BY DEF Whole, Goodbye
  <2> HIDE DEF no, q, one, zero, yes, bin, end
  <2>5. ASSUME NEW y, NEW k, NEW h, Runs(weDialed, y, q, k, h, n, -1)
        PROVE  Runs(weDialed, y, z, k, h, n + 1, -1)
    <3> HIDE DEF z
    <3> QED BY <1>1, <1>4, <2>3, <2>4, <2>5, MessageRuns
  <2>7. f \in FrameRec /\ f.op = bin /\ g \in FrameRec /\ g.op = end /\ g.size = zero
    <3> DEFINE m == n + 1
    <3>0. yes \in BOOLEAN /\ m \in Nat /\ f = Frame(bin, m, one, yes)
      BY <1>1 DEF yes
    <3> HIDE DEF m
    <3>1. f \in FrameRec /\ f.op = bin
      BY <3>0, <2>3, FrameIs
    <3>2. g \in FrameRec /\ g.op = end /\ g.size = zero
      BY <2>3, <3>0, FrameIs
    <3> QED BY <3>1, <3>2
  <2> HIDE DEF f, g
  <2>8. z \in Seq(FrameRec) /\ Plain(z)
    <3>1. z = Append(q, f)
      BY <1>1, <2>6, <2>7, AddOne
    <3> QED BY <1>1, <2>3, <2>7, <3>1, PlainMore
  <2> HIDE DEF z
  <2>9. ~(-1 = Lost) /\ -1 \in Int
    BY DEF Lost
  <2>10. /\ x \in Seq(FrameRec) /\ Plain(x)
         /\ \A y, k, h : Runs(weDialed, y, q, k, h, n, -1) => Runs(weDialed, y, x, k, h, n + 1, -1)
    <3>1. CASE codec = "ws"
      <4>1. x = Append(z, g)
        BY <2>6, <2>7, <2>8, <3>1, AddOne
      <4>3. ASSUME NEW y, NEW k, NEW h, Runs(weDialed, y, q, k, h, n, -1) PROVE Runs(weDialed, y, x, k, h, n + 1, -1)
        <5>1. Runs(weDialed, y, z, k, h, n + 1, -1)
          BY <2>5, <4>3
        <5>2. FrameStep(weDialed, y, n + 1, -1, g, n + 1, -1)
          BY <2>3, <2>7, <2>9 DEF FrameStep, end
        <5> QED BY <1>1, <2>7, <2>9, <4>1, <5>1, <5>2, RunsMore
      <4> QED BY <2>3, <2>7, <2>8, <4>1, <4>3, PlainMore
    <3>2. CASE codec # "ws"
      <4>1. x = z
        BY <2>6, <2>8, <3>2, SMTT(30)
      <4> QED BY <2>5, <2>8, <4>1
    <3> QED BY <3>1, <3>2
  <2> HIDE DEF x, yes, u
  <2>11. WriterAs(u, w.open, w.head, w.waiting, x, n + 1, yes, w.stray)
    BY <1>1, <1>4, <2>2, <2>10, WriterIs
  <2>12. /\ u \in WriterRec /\ u.open = w.open /\ u.head = w.head /\ u.waiting = << >> /\ Rest(u) = x /\ u.sent = n + 1
         /\ u.closed /\ u.stray = w.stray
    <3>1. u.closed = yes /\ u.open = w.open /\ u.writes = x
      BY <2>11 DEF WriterAs
    <3>2. u.closed
      BY <1>4, <3>1
    <3> QED BY <2>1, <2>11, <3>1, <3>2 DEF WriterAs, Rest
  <2>13. WriterOK(u, codec, weDialed)
    BY <1>1, <2>1, <2>10, <2>12 DEF WriterOK
  <2>14. ASSUME reader.refused = "no"
        PROVE  \E F : Flows(codec, weDialed, reader, stream, u, Len(handled) + Len(work), F)
    <3>1. PICK F : Flows(codec, weDialed, reader, stream, w, Len(handled) + Len(work), F)
      BY <2>14 DEF FramingInv
    <3>2. ASSUME NEW k, NEW h, NEW j, NEW l, Runs(weDialed, w.stray, Rest(w), k, h, j, l), ~w.closed => j = w.sent /\ l = -1
          PROVE  Runs(weDialed, w.stray, Rest(u), k, h, n + 1, -1)
      BY <1>2, <2>10, <2>12, <3>2 DEF q
    <3>3. Flows(codec, weDialed, reader, stream, u, Len(handled) + Len(work), F)
      BY <2>12, <3>1, <3>2, FlowRest
    <3> QED BY <3>3
  <2>15. (codec \notin {"none", "ws"} => u.open) /\ (codec = "ws" /\ ~u.head => ~reader.open)
    BY <2>12, WriterTyped
  <2> QED BY <1>1, <1>2, <1>3, <2>12, <2>13, <2>14, <2>15, WriterMoves DEF u
<1>6. CASE ~farewell
  <2>1. u = [w EXCEPT !.closed = yes, !.waiting = e, !.writes = e]
    BY <1>6, SMTT(30) DEF PeerEnds
  <2> HIDE DEF yes, e, u
  <2>2. WriterAs(u, w.open, w.head, e, e, w.sent, yes, w.stray)
    BY <1>1, <1>4, <2>1, WriterIs
  <2>3. /\ u \in WriterRec /\ u.open = w.open /\ u.head = w.head /\ u.waiting = << >> /\ u.writes = << >> /\ Rest(u) = << >>
        /\ u.closed /\ u.stray = w.stray
    <3>1. u.closed = yes /\ u.waiting = e /\ u.writes = e
      BY <2>2 DEF WriterAs
    <3>2. u.closed
      BY <1>4, <3>1
    <3> QED BY <2>2, <3>1, <3>2 DEF WriterAs, Rest, e
  <2>4. WriterOK(u, codec, weDialed)
    <3>1. Plain(Rest(u))
      BY <2>3 DEF Plain
    <3> QED BY <1>1, <2>3, <3>1 DEF WriterOK
  <2>5. ASSUME reader.refused = "no"
        PROVE  \E F : Flows(codec, weDialed, reader, stream, u, Len(handled) + Len(work), F)
    <3>1. PICK F : Flows(codec, weDialed, reader, stream, w, Len(handled) + Len(work), F)
      BY <2>5 DEF FramingInv
    <3>2. ASSUME NEW k, NEW h, NEW j, NEW l, Runs(weDialed, w.stray, Rest(w), k, h, j, l)
          PROVE  Runs(weDialed, w.stray, Rest(u), k, h, k, h)
      <4>1. k \in Nat /\ h \in Int /\ (h = Lost => w.stray)
        BY <3>2, RunsTyped
      <4> QED BY <2>3, <4>1, RunsNone
    <3>3. Flows(codec, weDialed, reader, stream, u, Len(handled) + Len(work), F)
      BY <2>3, <3>1, <3>2, FlowRest
    <3> QED BY <3>3
  <2>6. (codec \notin {"none", "ws"} => u.open) /\ (codec = "ws" /\ ~u.head => ~reader.open)
    BY <2>3, WriterTyped
  <2> QED BY <1>1, <1>2, <1>3, <2>3, <2>4, <2>5, <2>6, WriterMoves DEF u
<1> QED BY <1>5, <1>6

(* A frame is put on the line. *)
LEMMA FramePut ==
  ASSUME FramingInv, codec # "none", UNCHANGED <<codec, weDialed, reader, work, handled>>,
         NEW f \in FrameRec, stream' = stream \o Units(f),
         WriterOK(writer', codec, weDialed), writer.stray => writer'.stray,
         codec \notin {"none", "ws"} => writer'.open, codec = "ws" /\ ~writer'.head => ~reader.open,
         \A F \in Seq(FrameRec) : Heads(F, reader.open, writer.head, codec) =>
             Heads(Append(F, f), reader.open, writer'.head, codec),
         \A k, h, j, l : Runs(weDialed, writer.stray, Rest(writer), k, h, j, l)
                          /\ (~writer.closed => j = writer.sent /\ l = -1)
            => Onward(weDialed, writer'.stray, f, k, h, writer')
  PROVE  FramingInv'
<1> DEFINE w == writer
           u == writer'
           m == Len(handled) + Len(work)
           T == stream \o Units(f)
<1>1. T \in Seq(FrameRec)
  <2>1. f.size \in Nat /\ stream \in Seq(FrameRec)
    BY WriterTyped DEF FrameRec
  <2> DEFINE n == f.size + 1
  <2>2. n \in Nat /\ Units(f) = [k \in 1..n |-> f]
    BY <2>1 DEF Units
  <2> HIDE DEF n
  <2>3. Units(f) \in Seq(FrameRec)
    BY <2>2
  <2> QED BY <2>1, <2>3
<1>2. ASSUME reader.refused = "no"
      PROVE  \E F : Flows(codec, weDialed, reader, T, u, m, F)
  <2>1. PICK F : Flows(codec, weDialed, reader, stream, w, m, F)
    BY <1>2 DEF FramingInv
  <2>2. F \in Seq(FrameRec) /\ Heads(F, reader.open, w.head, codec)
    BY <2>1 DEF Flows, CutInto
  <2>3. Heads(Append(F, f), reader.open, u.head, codec)
    BY <2>2
  <2> HIDE DEF w, u, m
  <2>4. Flows(codec, weDialed, reader, stream \o Units(f), u, m, Append(F, f))
    BY <2>1, <2>3, FlowPut DEF w, u
  <2> QED BY <2>4
<1>3. stream' \in Seq(FrameRec) /\ (reader.refused = "no" => \E F : Flows(codec, weDialed, reader, stream', u, m, F))
  BY <1>1, <1>2
<1> QED BY <1>3, WriterMoves

(* A frame that is no message leaves an end where it was. *)
LEMMA StepStays ==
  ASSUME NEW d, NEW y, NEW q, NEW k, NEW h, NEW j, NEW l, Runs(d, y, q, k, h, j, l),
         NEW f, f.op \in {"head", "ping"}, f.size <= 1
  PROVE  FrameStep(d, y, k, h, f, k, h) /\ k \in Nat /\ h \in Int /\ (h = Lost => y)
<1>1. k \in Nat /\ h \in Int /\ (h = Lost => y)
  BY RunsTyped
<1>2. FrameStep(d, y, k, h, f, k, h)
  BY DEF FrameStep
<1> QED BY <1>1, <1>2

LEMMA PingsKeeps ==
  ASSUME FramingInv, Pings
  PROVE  FramingInv'
<1> DEFINE yes == TRUE
           zero == 0
           ping == "ping"
           f == Frame(ping, zero, zero, yes)
<1>1. yes \in BOOLEAN /\ zero \in Nat /\ zero <= 1 /\ ping \in FrameOps /\ ping \in {"head", "ping"} /\ ping # "head"
  BY DEF FrameOps
<1>2. stream' = stream \o Units(f) /\ codec = "ws" /\ writer.open /\ UNCHANGED <<codec, weDialed, writer, reader, work, handled>>
  BY DEF Pings
<1> HIDE DEF yes, zero, ping
<1>3. f \in FrameRec /\ f.op = ping /\ f.size = zero
  BY <1>1, FrameIs
<1> HIDE DEF f
<1>4. writer.head /\ WriterOK(writer, codec, weDialed)
  BY <1>2, WriterTyped DEF WriterOK
<1>5. ASSUME NEW F \in Seq(FrameRec), Heads(F, reader.open, writer.head, codec)
      PROVE  Heads(Append(F, f), reader.open, writer.head, codec)
  <2>1. f.op # "head"
    BY <1>1, <1>3
  <2> QED BY <1>3, <1>4, <1>5, <2>1, HeadsMore
<1>6. ASSUME NEW k, NEW h, NEW j, NEW l, Runs(weDialed, writer.stray, Rest(writer), k, h, j, l),
             ~writer.closed => j = writer.sent /\ l = -1
      PROVE  Onward(weDialed, writer.stray, f, k, h, writer)
  <2>1. FrameStep(weDialed, writer.stray, k, h, f, k, h) /\ k \in Nat /\ h \in Int /\ (h = Lost => writer.stray)
    BY <1>1, <1>3, <1>6, StepStays
  <2> QED BY <1>6, <2>1 DEF Onward
<1>7. writer' = writer /\ codec # "none" /\ ~(codec = "ws" /\ ~writer.head) /\ (codec \notin {"none", "ws"} => writer.open)
  BY <1>2, <1>4
<1> QED BY <1>2, <1>3, <1>4, <1>5, <1>6, <1>7, FramePut

LEMMA PutHeadKeeps ==
  ASSUME FramingInv, PutHead
  PROVE  FramingInv'
<1> DEFINE w == writer
           u == writer'
           yes == TRUE
           zero == 0
           one == 1
           hd == "head"
           f == Frame(hd, zero, one, yes)
<1>1. yes \in BOOLEAN /\ zero \in Nat /\ one \in Nat /\ one <= 1 /\ hd \in FrameOps /\ hd \in {"head", "ping"}
  BY DEF FrameOps
<1>2. /\ stream' = stream \o Units(f) /\ codec = "ws" /\ ~w.head /\ UNCHANGED <<codec, weDialed, reader, work, handled>>
      /\ u = [w EXCEPT !.head = yes, !.open = weDialed]
  BY DEF PutHead
<1>3. yes
  OBVIOUS
<1> HIDE DEF yes, zero, one, u
<1>4. f \in FrameRec /\ f.op = hd /\ f.size = one
  BY <1>1, FrameIs
<1>5. f.op = "head"
  BY <1>4
<1> HIDE DEF f, hd
<1>6. WriterOK(w, codec, weDialed) /\ w \in WriterRec /\ weDialed \in BOOLEAN /\ ~w.open /\ ~reader.open
  BY <1>2, WriterTyped, SMTT(30) DEF WriterOK
<1>7. WriterAs(u, weDialed, yes, w.waiting, w.writes, w.sent, w.closed, w.stray)
  <2>1. w.writes \in Seq(FrameRec) /\ w.sent \in Nat /\ yes \in BOOLEAN
    BY <1>1, WriterTyped
  <2> QED BY <1>2, <1>6, <2>1, WriterIs
<1>8. /\ u \in WriterRec /\ u.open = weDialed /\ u.head /\ u.waiting = w.waiting /\ u.writes = w.writes
      /\ u.sent = w.sent /\ u.closed = w.closed /\ u.stray = w.stray
  <2>1. u.head = yes
    BY <1>7 DEF WriterAs
  <2>2. u.head
    BY <1>3, <2>1
  <2> QED BY <1>7, <2>2 DEF WriterAs
<1>9. w.writes = << >> /\ (weDialed => w.waiting = << >>)
  BY <1>2, <1>6 DEF WriterOK
<1>10. Rest(u) = Rest(w)
  BY <1>6, <1>8, <1>9 DEF Rest
<1>11. WriterOK(u, codec, weDialed)
  BY <1>2, <1>6, <1>8, <1>9, <1>10 DEF WriterOK
<1>12. ASSUME NEW F \in Seq(FrameRec), Heads(F, reader.open, w.head, codec)
       PROVE  Heads(Append(F, f), reader.open, u.head, codec)
  <2>1. F = << >>
    BY <1>2, <1>6, <1>12 DEF Heads
  <2> DEFINE z == Append(F, f)
  <2>2. z = <<f>> /\ Len(z) = 1 /\ z[1] = f /\ z # << >>
    BY <1>4, <2>1
  <2> HIDE DEF z
  <2>3. Heads(z, reader.open, u.head, codec)
    BY <1>5, <1>6, <1>8, <2>2 DEF Heads
  <2> QED BY <2>3 DEF z
<1>13. ASSUME NEW k, NEW h, NEW j, NEW l, Runs(weDialed, w.stray, Rest(w), k, h, j, l),
             ~w.closed => j = w.sent /\ l = -1
      PROVE  Onward(weDialed, u.stray, f, k, h, u)
  <2>1. FrameStep(weDialed, w.stray, k, h, f, k, h) /\ k \in Nat /\ h \in Int /\ (h = Lost => w.stray)
    BY <1>1, <1>4, <1>13, StepStays
  <2> QED BY <1>8, <1>10, <1>13, <2>1 DEF Onward
<1> QED BY <1>2, <1>4, <1>8, <1>11, <1>12, <1>13, FramePut DEF u

LEMMA PutsKeeps ==
  ASSUME FramingInv, Puts
  PROVE  FramingInv'
<1> DEFINE w == writer
           u == writer'
           f == Head(w.writes)
           z == Tail(w.writes)
           N == Len(w.writes)
<1>1. /\ stream' = stream \o Units(f) /\ w.writes # << >> /\ UNCHANGED <<codec, weDialed, reader, work, handled>>
      /\ u = [w EXCEPT !.writes = z]
  BY DEF Puts
<1>2. /\ WriterOK(w, codec, weDialed) /\ w \in WriterRec /\ w.open /\ Rest(w) = w.writes /\ w.writes \in Seq(FrameRec)
      /\ Plain(w.writes) /\ w.waiting = << >>
  <2>1. w.open
    BY <1>1, WriterTyped DEF WriterOK
  <2> QED BY <2>1, WriterTyped DEF WriterOK, Rest
<1>3. /\ f \in FrameRec /\ f = w.writes[1] /\ N \in Nat /\ 1 \in 1..N /\ z \in Seq(FrameRec) /\ Len(z) = N - 1
      /\ \A i \in 1..(N - 1) : z[i] = w.writes[i + 1]
  BY <1>1, <1>2
<1>4. f.op # "head"
  BY <1>2, <1>3 DEF Plain
<1> HIDE DEF f, u, z
<1>5. Plain(z)
  <2>1. ASSUME NEW i \in 1..(N - 1) PROVE z[i].op \in {"binary", "cont", "close"}
    <3>1. i + 1 \in 1..N
      BY <1>3, SMTT(30)
    <3> QED BY <1>2, <1>3, <3>1 DEF Plain
  <2> QED BY <1>3, <2>1 DEF Plain
<1>6. WriterAs(u, w.open, w.head, w.waiting, z, w.sent, w.closed, w.stray)
  BY <1>1, <1>2, <1>3, WriterIs
<1>7. /\ u \in WriterRec /\ u.open /\ u.head = w.head /\ u.waiting = << >> /\ Rest(u) = z
      /\ u.sent = w.sent /\ u.closed = w.closed /\ u.stray = w.stray
  BY <1>2, <1>6 DEF WriterAs, Rest
<1>8. codec # "none" /\ (codec = "ws" => w.head)
  <2>1. codec # "none"
    <3>1. codec = "none" => writer = NewWriter
      BY DEF FramingInv, FramingInit
    <3>2. NewWriter.writes = << >>
      BY DEF NewWriter
    <3> QED BY <1>1, <3>1, <3>2
  <2> QED BY <1>2, <2>1 DEF WriterOK
<1>9. WriterOK(u, codec, weDialed)
  BY <1>2, <1>5, <1>7, <1>8 DEF WriterOK
<1>10. ASSUME NEW F \in Seq(FrameRec), Heads(F, reader.open, w.head, codec)
       PROVE  Heads(Append(F, f), reader.open, u.head, codec)
  BY <1>3, <1>4, <1>7, <1>8, <1>10, HeadsMore
<1>11. ASSUME NEW k, NEW h, NEW j, NEW l, Runs(weDialed, w.stray, Rest(w), k, h, j, l),
             ~w.closed => j = w.sent /\ l = -1
      PROVE  Onward(weDialed, u.stray, f, k, h, u)
  <2>1. PICK k1 \in Nat, l1 \in Int : FrameStep(weDialed, w.stray, k, h, f, k1, l1) /\ Runs(weDialed, w.stray, z, k1, l1, j, l)
    BY <1>1, <1>2, <1>11, RunsFirst DEF f, z
  <2>2. l1 = Lost => w.stray
    BY <2>1, RunsTyped
  <2> QED BY <1>7, <1>11, <2>1, <2>2 DEF Onward
<1>12. codec = "ws" /\ ~u.head => ~reader.open
  BY <1>7, <1>8
<1> QED BY <1>1, <1>3, <1>7, <1>8, <1>9, <1>10, <1>11, <1>12, FramePut DEF u

LEMMA StraysKeeps ==
  ASSUME FramingInv, Strays
  PROVE  FramingInv'
<1> DEFINE w == writer
           u == writer'
           q == Rest(w)
           yes == TRUE
           zero == 0
           one == 1
           amid == w.writes # << >> /\ Head(w.writes).op = "cont"
           op == IF amid THEN "binary" ELSE "cont"
           f == Frame(op, zero, one, yes)
<1>1. yes \in BOOLEAN /\ zero \in Nat /\ one \in Nat /\ one = 1 /\ op \in FrameOps /\ op \in {"binary", "cont"}
  BY DEF FrameOps
<1>2. /\ stream' = stream \o Units(f) /\ codec = "ws" /\ w.open /\ ~w.closed /\ UNCHANGED <<codec, weDialed, reader, work, handled>>
      /\ u = [w EXCEPT !.stray = yes, !.closed = yes]
  BY DEF Strays
<1>3. yes
  OBVIOUS
<1>4. /\ WriterOK(w, codec, weDialed) /\ w \in WriterRec /\ w.head /\ q = w.writes /\ q \in Seq(FrameRec) /\ Plain(q)
      /\ w.waiting = << >> /\ ~w.stray
  BY <1>2, WriterTyped DEF WriterOK, Rest
<1> HIDE DEF yes, zero, one, u, op, amid
<1>5. f \in FrameRec /\ f.op = op /\ f.size = one /\ f.fin = yes
  BY <1>1, FrameIs
<1>6. f.size = 1 /\ f.fin /\ f.op # "head"
  BY <1>1, <1>3, <1>5
<1> HIDE DEF f
<1>7. WriterAs(u, w.open, w.head, w.waiting, w.writes, w.sent, yes, yes)
  BY <1>1, <1>2, <1>4, WriterIs
<1>8. /\ u \in WriterRec /\ u.open /\ u.head = w.head /\ u.waiting = << >> /\ Rest(u) = q
      /\ u.closed /\ u.stray
  <2>1. u.stray = yes /\ u.closed = yes
    BY <1>7 DEF WriterAs
  <2>2. u.stray /\ u.closed
    BY <1>3, <2>1
  <2> QED BY <1>2, <1>4, <1>7, <2>2 DEF WriterAs, Rest
<1> HIDE DEF q
<1>9. WriterOK(u, codec, weDialed)
  BY <1>4, <1>8 DEF WriterOK
<1>10. ASSUME NEW F \in Seq(FrameRec), Heads(F, reader.open, w.head, codec)
       PROVE  Heads(Append(F, f), reader.open, u.head, codec)
  BY <1>4, <1>5, <1>6, <1>8, <1>10, HeadsMore
<1>11. ASSUME NEW k, NEW h, NEW j, NEW l, Runs(weDialed, w.stray, q, k, h, j, l),
             ~w.closed => j = w.sent /\ l = -1
      PROVE  Onward(weDialed, u.stray, f, k, h, u)
  <2>1. k \in Nat /\ h \in Int /\ h # Lost /\ l = -1 /\ (q = << >> => h = -1)
    BY <1>2, <1>4, <1>11, RunsTyped
  <2>2. IF amid THEN h >= 0 ELSE h = -1
    <3>1. CASE q = << >>
      BY <1>4, <2>1, <3>1 DEF amid
    <3>2. CASE q # << >>
      <4>1. PICK k1 \in Nat, l1 \in Int : FrameStep(weDialed, w.stray, k, h, Head(q), k1, l1)
        BY <1>11, <3>2, RunsFirst
      <4>2. Head(q).op \in {"binary", "cont", "close"}
        <5>1. Head(q) = q[1] /\ 1 \in 1..Len(q)
          BY <1>4, <3>2
        <5> QED BY <1>4, <5>1 DEF Plain
      <4>3. IF Head(q).op = "cont" THEN h >= 0 ELSE h = -1
        BY <1>4, <2>1, <4>1, <4>2 DEF FrameStep
      <4> QED BY <1>4, <3>2, <4>3 DEF amid
    <3> QED BY <3>1, <3>2
  <2>3. f.op = IF h >= 0 THEN "binary" ELSE "cont"
    BY <1>5, <2>2 DEF op
  <2>4. FrameStep(weDialed, u.stray, k, h, f, k, Lost)
    BY <1>6, <1>8, <2>1, <2>3 DEF FrameStep
  <2>5. Runs(weDialed, u.stray, q, k, Lost, k, Lost)
    BY <1>4, <1>8, <2>1, RunsLost
  <2>6. Lost \in Int
    BY DEF Lost
  <2> QED BY <1>8, <2>1, <2>4, <2>5, <2>6 DEF Onward
<1>12. codec # "none" /\ ~(codec = "ws" /\ ~u.head) /\ (codec \notin {"none", "ws"} => u.open) /\ (w.stray => u.stray)
  BY <1>2, <1>4, <1>8
<1> QED BY <1>2, <1>5, <1>8, <1>9, <1>10, <1>11, <1>12, FramePut DEF u, q

(* ---- a link made ---- *)

FreshReader(r, x) ==
    /\ r \in ReaderRec /\ r.open = x /\ r.parts = << >> /\ r.cap = maxHandshakeFrame /\ r.frag = -1
    /\ r.at = "idle" /\ r.taken = << >> /\ r.refused = "no"
FreshWriter(w, x) ==
    /\ w \in WriterRec /\ w.open = x /\ ~w.head /\ w.waiting = << >> /\ w.writes = << >>
    /\ w.sent = 0 /\ ~w.closed /\ ~w.stray

LEMMA FreshFlows ==
  ASSUME NEW c, NEW d \in BOOLEAN, NEW r, NEW w, NEW x \in BOOLEAN, FreshReader(r, x), FreshWriter(w, x), c = "ws" => ~x
  PROVE  WriterOK(w, c, d) /\ ReaderOK(r, << >>, 0, d) /\ Flows(c, d, r, << >>, w, 0, << >>)
<1>1. WriterOK(w, c, d)
  <2>1. Rest(w) = << >>
    BY DEF FreshWriter, Rest
  <2>2. Plain(Rest(w))
    BY <2>1 DEF Plain
  <2> QED BY <2>2 DEF FreshWriter, WriterOK
<1>2. ReaderOK(r, << >>, 0, d)
  <2>1. ~Complete(r.parts)
    BY DEF FreshReader, Complete
  <2> QED BY <2>1 DEF FreshReader, ReaderOK
<1>3. Flows(c, d, r, << >>, w, 0, << >>)
  <2> DEFINE o == [i \in 0..0 |-> 0]
             e == << >>
             m == 0
             g == -1
             y == w.stray
  <2>1. CutInto(e, e, e, o)
    BY DEF CutInto
  <2>2. m \in Nat /\ g \in Int /\ g # Lost
    BY DEF Lost
  <2> HIDE DEF m, g, o
  <2>3. Runs(d, y, e, m, g, m, g)
    BY <2>2, RunsNone
  <2>4. Rest(w) = e /\ r.parts = e /\ r.taken = e /\ r.frag = g /\ w.sent = m
    BY DEF FreshWriter, FreshReader, Rest, m, g
  <2>5. Behind(d, w, e, m, g)
    BY <2>3, <2>4 DEF Behind, g
  <2>6. Enters(d, y, m, r.frag, r.taken, m, g)
    BY <2>4 DEF Enters
  <2>7. Heads(e, r.open, w.head, c)
    BY DEF Heads, FreshWriter
  <2>8. \E t : CutInto(r.parts, e, e, t)
    BY <2>1, <2>4
  <2>9. Flows(c, d, r, e, w, m, e)
    <3> HIDE DEF e
    <3> QED BY <2>5, <2>6, <2>7, <2>8 DEF Flows
  <2> QED BY <2>9 DEF m, e
<1> QED BY <1>1, <1>2, <1>3

LEMMA FreshNew ==
  ASSUME NEW x \in BOOLEAN
  PROVE  /\ FreshReader([NewReader EXCEPT !.open = x], x) /\ FreshWriter([NewWriter EXCEPT !.open = x], x)
         /\ FreshReader(NewReader, FALSE) /\ FreshWriter(NewWriter, FALSE)
<1>1. maxHandshakeFrame \in Nat
  BY FramingAssumption
<1>2. /\ NewReader \in ReaderRec /\ NewReader.open = FALSE /\ NewReader.parts = << >> /\ NewReader.cap = maxHandshakeFrame
      /\ NewReader.frag = -1 /\ NewReader.at = "idle" /\ NewReader.taken = << >> /\ NewReader.refused = "no"
  BY <1>1 DEF NewReader, ReaderRec, Ats
<1>3. /\ NewWriter \in WriterRec /\ NewWriter.open = FALSE /\ NewWriter.head = FALSE /\ NewWriter.waiting = << >>
      /\ NewWriter.writes = << >> /\ NewWriter.sent = 0 /\ NewWriter.closed = FALSE /\ NewWriter.stray = FALSE
  BY DEF NewWriter, WriterRec
<1>4. FreshReader(NewReader, FALSE)
  BY <1>2 DEF FreshReader
<1>5. FreshWriter(NewWriter, FALSE)
  BY <1>3 DEF FreshWriter
<1> DEFINE r == NewReader
           w == NewWriter
           u == [r EXCEPT !.open = x]
<1> HIDE DEF r, w
<1>6. FreshReader([r EXCEPT !.open = x], x)
  <2>1. r \in ReaderRec
    BY <1>2 DEF r
  <2>2. /\ u \in ReaderRec /\ u.open = x /\ u.parts = r.parts /\ u.cap = r.cap /\ u.frag = r.frag /\ u.at = r.at
        /\ u.taken = r.taken /\ u.refused = r.refused
    BY <2>1 DEF ReaderRec
  <2> HIDE DEF u
  <2>3. FreshReader(u, x)
    BY <1>2, <2>2 DEF FreshReader, r
  <2> QED BY <2>3 DEF u
<1>7. FreshWriter([w EXCEPT !.open = x], x)
  <2> DEFINE v == [w EXCEPT !.open = x]
  <2>1. w \in WriterRec /\ ~w.head /\ w.waiting = << >> /\ w.writes = << >> /\ w.sent = 0 /\ ~w.closed /\ ~w.stray
    BY <1>3 DEF w
  <2>2. w.writes \in Seq(FrameRec) /\ w.sent \in Nat
    BY <2>1, SMTT(30)
  <2>3. WriterAs(v, x, w.head, w.waiting, w.writes, w.sent, w.closed, w.stray)
    BY <2>1, <2>2, WriterIs
  <2> HIDE DEF v
  <2>4. FreshWriter(v, x)
    BY <2>1, <2>3 DEF WriterAs, FreshWriter
  <2> QED BY <2>4 DEF v
<1> QED BY <1>4, <1>5, <1>6, <1>7 DEF r, w

LEMMA FramingStarts ==
  ASSUME FramingInit
  PROVE  FramingInv
<1> DEFINE no == FALSE
<1>1. FreshReader(NewReader, no) /\ FreshWriter(NewWriter, no) /\ no \in BOOLEAN /\ ~no
  BY FreshNew
<1> HIDE DEF no
<1>2. /\ codec = "none" /\ weDialed = no /\ writer = NewWriter /\ reader = NewReader /\ stream = << >>
      /\ work = << >> /\ handled = << >>
  BY DEF FramingInit, no
<1>3. /\ WriterOK(writer, codec, weDialed) /\ ReaderOK(reader, << >>, 0, weDialed)
      /\ Flows(codec, weDialed, reader, << >>, writer, 0, << >>)
  BY <1>1, <1>2, FreshFlows
<1>4. reader.refused = "no" /\ ~reader.open
  BY <1>1, <1>2 DEF FreshReader
<1>5. Len(handled) = 0 /\ Len(work) = 0
  BY <1>2
<1>6. \E F : Flows(codec, weDialed, reader, stream, writer, Len(handled) + Len(work), F)
  <2>1. Len(handled) + Len(work) = 0
    BY <1>5
  <2> QED BY <1>2, <1>3, <2>1
<1>7. ReaderOK(reader, work, Len(handled), weDialed)
  BY <1>2, <1>3, <1>5
<1>8. /\ codec \in {"none", "length", "ws", "message"} /\ weDialed \in BOOLEAN /\ stream \in Seq(FrameRec)
      /\ work \in Seq(Nat) /\ handled \in Seq(Nat)
  BY <1>1, <1>2
<1> QED BY <1>2, <1>3, <1>4, <1>5, <1>6, <1>7, <1>8 DEF FramingInv

LEMMA LinkMadeKeeps ==
  ASSUME FramingInv, NEW c \in {"length", "ws", "message"}, NEW d \in BOOLEAN, LinkMade(c, d)
  PROVE  FramingInv'
<1> DEFINE x == c # "ws"
           r == reader'
           w == writer'
<1>1. /\ writer = NewWriter /\ reader = NewReader /\ stream = << >> /\ work = << >> /\ handled = << >>
  BY DEF FramingInv, FramingInit, LinkMade
<1>2. /\ codec' = c /\ weDialed' = d /\ r = [NewReader EXCEPT !.open = x] /\ w = [NewWriter EXCEPT !.open = x]
      /\ stream' = << >> /\ work' = << >> /\ handled' = << >>
  BY <1>1 DEF LinkMade
<1>3. x \in BOOLEAN /\ (c = "ws" => ~x) /\ (c # "ws" => x)
  OBVIOUS
<1> HIDE DEF x, r, w
<1>4. FreshReader(r, x) /\ FreshWriter(w, x)
  BY <1>2, <1>3, FreshNew
<1>5. WriterOK(w, c, d) /\ ReaderOK(r, << >>, 0, d) /\ Flows(c, d, r, << >>, w, 0, << >>)
  BY <1>3, <1>4, FreshFlows
<1>6. r.refused = "no" /\ r.open = x /\ w.open = x
  BY <1>4 DEF FreshReader, FreshWriter
<1>7. Len(handled') = 0 /\ Len(work') = 0
  BY <1>2
<1>8. \E F : Flows(c, d, r, stream', w, Len(handled') + Len(work'), F)
  <2>1. Len(handled') + Len(work') = 0
    BY <1>7
  <2> QED BY <1>2, <1>5, <2>1
<1>9. ReaderOK(r, work', Len(handled'), d)
  BY <1>2, <1>5, <1>7
<1>10. /\ codec' \in {"none", "length", "ws", "message"} /\ weDialed' \in BOOLEAN /\ stream' \in Seq(FrameRec)
      /\ work' \in Seq(Nat) /\ handled' \in Seq(Nat) /\ codec' # "none"
  BY <1>2
<1>11. (c \notin {"none", "ws"} => w.open /\ r.open) /\ (c = "ws" => ~r.open)
  BY <1>3, <1>6
<1>12. WriterOK(writer', codec', weDialed') /\ ReaderOK(reader', work', Len(handled'), weDialed')
  BY <1>2, <1>5, <1>9 DEF r, w
<1>13. \E F : Flows(codec', weDialed', reader', stream', writer', Len(handled') + Len(work'), F)
  BY <1>2, <1>8 DEF r, w
<1>14. (codec' \notin {"none", "ws"} => writer'.open /\ reader'.open) /\ (codec' = "ws" => ~reader'.open) /\ reader'.refused = "no"
  BY <1>2, <1>6, <1>11 DEF r, w
<1>15. (\A k \in 1..Len(handled') : handled'[k] = k) /\ (\A k \in 1..Len(work') : work'[k] = Len(handled') + k)
  BY <1>7
<1>16. reader'.refused \in {"cap", "order"} => writer'.stray
  BY <1>14
<1> QED BY <1>10, <1>12, <1>13, <1>14, <1>15, <1>16 DEF FramingInv

(* ---- the reading end ---- *)

ReaderAs(u, open, parts, cap, frag, at, taken, why) ==
    /\ u \in ReaderRec /\ u.open = open /\ u.parts = parts /\ u.cap = cap /\ u.frag = frag /\ u.at = at
    /\ u.taken = taken /\ u.refused = why
LEMMA ReaderIs ==
  ASSUME NEW r \in ReaderRec, NEW q \in Seq(FrameRec), NEW n \in Nat, NEW g \in Int, NEW a \in Ats,
         NEW x \in BOOLEAN, NEW y \in {"no", "cap", "order", "close"}
  PROVE  /\ ReaderAs([r EXCEPT !.parts = q], r.open, q, r.cap, r.frag, r.at, r.taken, r.refused)
         /\ ReaderAs([r EXCEPT !.at = a], r.open, r.parts, r.cap, r.frag, a, r.taken, r.refused)
         /\ ReaderAs([r EXCEPT !.open = x, !.at = a], x, r.parts, r.cap, r.frag, a, r.taken, r.refused)
         /\ ReaderAs([r EXCEPT !.refused = y, !.at = a, !.parts = q, !.frag = g], r.open, q, r.cap, g, a, r.taken, y)
         /\ ReaderAs([r EXCEPT !.at = a, !.frag = g], r.open, r.parts, r.cap, g, a, r.taken, r.refused)
         /\ ReaderAs([r EXCEPT !.frag = g, !.at = a], r.open, r.parts, r.cap, g, a, r.taken, r.refused)
         /\ ReaderAs([r EXCEPT !.at = a, !.taken = q], r.open, r.parts, r.cap, r.frag, a, q, r.refused)
         /\ ReaderAs([r EXCEPT !.taken = q], r.open, r.parts, r.cap, r.frag, r.at, q, r.refused)
         /\ ReaderAs([r EXCEPT !.cap = n], r.open, r.parts, n, r.frag, r.at, r.taken, r.refused)
<1>1. ReaderAs([r EXCEPT !.parts = q], r.open, q, r.cap, r.frag, r.at, r.taken, r.refused)
  BY DEF ReaderAs, ReaderRec
<1>2. ReaderAs([r EXCEPT !.at = a], r.open, r.parts, r.cap, r.frag, a, r.taken, r.refused)
  BY DEF ReaderAs, ReaderRec
<1>3. ReaderAs([r EXCEPT !.open = x, !.at = a], x, r.parts, r.cap, r.frag, a, r.taken, r.refused)
  BY DEF ReaderAs, ReaderRec
<1>4. ReaderAs([r EXCEPT !.refused = y, !.at = a, !.parts = q, !.frag = g], r.open, q, r.cap, g, a, r.taken, y)
  BY DEF ReaderAs, ReaderRec
<1>5. ReaderAs([r EXCEPT !.at = a, !.frag = g], r.open, r.parts, r.cap, g, a, r.taken, r.refused)
  BY DEF ReaderAs, ReaderRec
<1>6. ReaderAs([r EXCEPT !.frag = g, !.at = a], r.open, r.parts, r.cap, g, a, r.taken, r.refused)
  BY DEF ReaderAs, ReaderRec
<1>7. ReaderAs([r EXCEPT !.at = a, !.taken = q], r.open, r.parts, r.cap, r.frag, a, q, r.refused)
  BY DEF ReaderAs, ReaderRec
<1>8. ReaderAs([r EXCEPT !.taken = q], r.open, r.parts, r.cap, r.frag, r.at, q, r.refused)
  BY DEF ReaderAs, ReaderRec
<1>9. ReaderAs([r EXCEPT !.cap = n], r.open, r.parts, n, r.frag, r.at, r.taken, r.refused)
  BY DEF ReaderAs, ReaderRec
<1> QED BY <1>1, <1>2, <1>3, <1>4, <1>5, <1>6, <1>7, <1>8, <1>9

LEMMA ReaderTyped ==
  ASSUME FramingInv
  PROVE  /\ ReaderOK(reader, work, Len(handled), weDialed) /\ reader \in ReaderRec
         /\ reader.parts \in Seq(FrameRec) /\ reader.taken \in Seq(FrameRec) /\ reader.cap \in Nat /\ reader.frag \in Int
         /\ reader.at \in Ats /\ reader.open \in BOOLEAN /\ reader.refused \in {"no", "cap", "order", "close"}
         /\ work \in Seq(Nat) /\ handled \in Seq(Nat) /\ Len(work) \in Nat /\ Len(handled) \in Nat /\ stream \in Seq(FrameRec)
         /\ weDialed \in BOOLEAN
  BY SMTT(30) DEF FramingInv, ReaderOK, ReaderRec

(* A step of the reading end alone. *)
LEMMA ReaderMoves ==
  ASSUME FramingInv, codec # "none", UNCHANGED <<codec, weDialed, writer, handled>>,
         stream' \in Seq(FrameRec), work' \in Seq(Nat), reader'.open = reader.open,
         ReaderOK(reader', work', Len(handled), weDialed),
         reader'.refused \in {"cap", "order"} => writer.stray,
         reader'.refused = "no" =>
            /\ \A k \in 1..Len(work') : work'[k] = Len(handled) + k
            /\ \E F : Flows(codec, weDialed, reader', stream', writer, Len(handled) + Len(work'), F)
  PROVE  FramingInv'
  BY DEF FramingInv

(* What is on the line, and where the end is, depend on these alone. *)
LEMMA FlowSame ==
  ASSUME NEW c, NEW d, NEW r, NEW S, NEW w, NEW m, NEW F, Flows(c, d, r, S, w, m, F),
         NEW u, u.parts = r.parts, u.open = r.open, u.frag = r.frag, u.taken = r.taken
  PROVE  Flows(c, d, u, S, w, m, F)
  BY DEF Flows

(* Until the link is up there is nothing to read. *)
LEMMA LinkThere ==
  ASSUME FramingInv, stream # << >> \/ reader.at # "idle" \/ work # << >>
  PROVE  codec # "none"
<1>1. NewReader.at = "idle"
  BY DEF NewReader
<1> QED BY <1>1 DEF FramingInv, FramingInit

LEMMA PushKeeps ==
  ASSUME FramingInv, NEW n \in 1..Len(stream), Push(n)
  PROVE  FramingInv'
<1> DEFINE r == reader
           A == SubSeq(stream, 1, n)
           B == SubSeq(stream, n + 1, Len(stream))
           Q == r.parts \o A
           p == [r EXCEPT !.parts = Q]
           a == IF p.open THEN "parse" ELSE IF HeadWhole(p.parts) THEN "upgrade" ELSE "idle"
           u == reader'
<1>1. /\ ReaderOK(r, work, Len(handled), weDialed) /\ r \in ReaderRec /\ r.parts \in Seq(FrameRec) /\ stream \in Seq(FrameRec)
      /\ r.at = "idle" /\ r.refused = "no" /\ work = << >> /\ n \in Nat /\ n <= Len(stream) /\ Len(stream) \in Nat
      /\ r.cap \in Nat /\ r.frag \in Int /\ r.open \in BOOLEAN
  BY ReaderTyped DEF Push
<1>2. u = [p EXCEPT !.at = a] /\ stream' = B /\ UNCHANGED <<codec, weDialed, writer, work, handled>>
  BY DEF Push, Begins, Pushed
<1>3. A \in Seq(FrameRec) /\ B \in Seq(FrameRec)
  BY <1>1
<1>4. Q \in Seq(FrameRec)
  BY <1>1, <1>3
<1>5. PICK F : Flows(codec, weDialed, r, stream, writer, Len(handled) + Len(work), F)
  BY <1>1 DEF FramingInv
<1>6. \E o : CutInto(Q, B, F, o)
  <2>1. PICK o : CutInto(r.parts, stream, F, o)
    BY <1>5 DEF Flows
  <2> QED BY <2>1, CutPush
<1>7. codec # "none"
  BY <1>1, LinkThere
<1>8. a \in Ats
  BY SMTT(30) DEF Ats
<1> HIDE DEF Q, B, p, u
<1>9. ReaderAs(p, r.open, Q, r.cap, r.frag, r.at, r.taken, r.refused)
  <2> HIDE DEF a
  <2> QED BY <1>1, <1>4, <1>8, ReaderIs DEF p
<1>10. p.open = r.open /\ p.parts = Q /\ p \in ReaderRec
  BY <1>9 DEF ReaderAs
<1>11. /\ (r.open => a = "parse") /\ (~r.open /\ Complete(Q) => a = "upgrade") /\ (~r.open /\ ~Complete(Q) => a = "idle")
  BY <1>10, SMTT(30) DEF HeadWhole
<1> HIDE DEF a
<1>12. ReaderAs(u, p.open, p.parts, p.cap, p.frag, a, p.taken, p.refused)
  BY <1>1, <1>2, <1>4, <1>8, <1>10, ReaderIs
<1>13. ReaderAs(u, r.open, Q, r.cap, r.frag, a, r.taken, r.refused)
  BY <1>9, <1>12 DEF ReaderAs
<1>14. ReaderOK(u, work, Len(handled), weDialed)
  <2>1. r.open \/ (~r.open /\ Complete(Q)) \/ (~r.open /\ ~Complete(Q))
    BY <1>1
  <2>2. r.taken = << >>
    BY <1>1 DEF ReaderOK
  <2> QED BY <1>1, <1>11, <1>13, <2>1, <2>2 DEF ReaderOK, ReaderAs
<1>15. Flows(codec, weDialed, u, B, writer, Len(handled) + Len(work), F)
  BY <1>5, <1>6, <1>13 DEF Flows, ReaderAs
<1>16. u.refused = "no" /\ u.open = r.open /\ \A k \in 1..Len(work) : work[k] = Len(handled) + k
  BY <1>1, <1>13 DEF ReaderAs, FramingInv
<1>17. work \in Seq(Nat)
  BY ReaderTyped
<1> QED BY <1>2, <1>3, <1>7, <1>14, <1>15, <1>16, <1>17, ReaderMoves DEF u

(* The frames behind the first. *)
LEMMA HeadsTail ==
  ASSUME NEW F \in Seq(FrameRec), F # << >>, NEW open, NEW head, NEW c, Heads(F, open, head, c), NEW x, x
  PROVE  Heads(Tail(F), x, head, c)
<1> DEFINE z == Tail(F)
           N == Len(F)
<1>1. z \in Seq(FrameRec) /\ N \in Nat /\ Len(z) = N - 1 /\ \A i \in 1..(N - 1) : z[i] = F[i + 1]
  OBVIOUS
<1> HIDE DEF z
<1>2. ASSUME NEW i \in 1..(N - 1) PROVE z[i].op # "head"
  <2>1. i + 1 \in 1..N /\ i + 1 # 1
    BY <1>1
  <2> QED BY <1>1, <2>1 DEF Heads
<1>3. Heads(z, x, head, c)
  BY <1>1, <1>2 DEF Heads
<1> QED BY <1>3 DEF z

LEMMA UpgradesKeeps ==
  ASSUME FramingInv, Upgrades
  PROVE  FramingInv'
<1> DEFINE r == reader
           w == writer
           f == Head(r.parts)
           Q == SubSeq(r.parts, f.size + 1 + 1, Len(r.parts))
           p == [r EXCEPT !.parts = Q]
           yes == TRUE
           a == "parse"
           u == reader'
           m == Len(handled) + Len(work)
<1>1. /\ ReaderOK(r, work, Len(handled), weDialed) /\ r \in ReaderRec /\ r.parts \in Seq(FrameRec) /\ stream \in Seq(FrameRec)
      /\ r.at = "upgrade" /\ r.cap \in Nat /\ r.frag \in Int /\ work \in Seq(Nat) /\ handled \in Seq(Nat) /\ weDialed \in BOOLEAN
  BY ReaderTyped DEF Upgrades
<1>2. r.refused = "no" /\ ~r.open /\ Complete(r.parts) /\ r.taken = << >> /\ r.frag >= -1
  BY <1>1 DEF ReaderOK
<1>3. u = [p EXCEPT !.open = yes, !.at = a] /\ UNCHANGED <<codec, weDialed, writer, stream, work, handled>>
  BY DEF Upgrades, Taken
<1>4. codec = "ws"
  <2>1. codec # "none"
    BY <1>1, LinkThere
  <2> QED BY <1>2, <2>1 DEF FramingInv
<1>5. PICK F : Flows(codec, weDialed, r, stream, w, m, F)
  BY <1>2 DEF FramingInv
<1>6. TakesTo(codec, weDialed, r, stream, w, m, F, f)
  <2>1. r.parts # << >> /\ Len(r.parts) >= Head(r.parts).size + 1
    BY <1>2 DEF Complete
  <2> HIDE DEF m, w
  <2> QED BY <1>2, <1>5, <2>1, FlowTake
<1>7. F \in Seq(FrameRec) /\ Heads(F, r.open, w.head, codec)
  BY <1>5 DEF Flows, CutInto
<1>8. f \in FrameRec /\ f = F[1] /\ F # << >> /\ f.size \in Nat
  BY <1>6 DEF TakesTo, FrameRec
<1>9. w.head /\ f.op = "head"
  BY <1>2, <1>4, <1>7, <1>8 DEF Heads
<1>10. f.size + 1 + 1 = f.size + 2
  BY <1>8
<1>11. \E o : CutInto(Q, stream, Tail(F), o)
  BY <1>6, <1>10 DEF TakesTo
<1>12. Q \in Seq(FrameRec)
  BY <1>11 DEF CutInto
<1>13. PICK k \in Nat, l \in Int : FrameStep(weDialed, w.stray, m, r.frag, f, k, l) /\ Behind(weDialed, w, Tail(F), k, l)
  BY <1>6 DEF TakesTo
<1>14. k = m /\ l = r.frag
  BY <1>1, <1>2, <1>9, <1>13, SMTT(30) DEF FrameStep, Lost
<1>15. yes \in BOOLEAN /\ yes /\ a \in Ats
  BY DEF Ats
<1> HIDE DEF Q, p, u, f, yes, a, w
<1>16. ReaderAs(p, r.open, Q, r.cap, r.frag, r.at, r.taken, r.refused)
  BY <1>1, <1>12, <1>15, ReaderIs DEF p
<1>17. p \in ReaderRec
  BY <1>16, SMTT(30) DEF ReaderAs
<1>18. ReaderAs(u, yes, p.parts, p.cap, p.frag, a, p.taken, p.refused)
  <2>1. yes \in BOOLEAN
    BY <1>15
  <2> QED BY <1>1, <1>3, <1>12, <1>15, <1>17, <2>1, ReaderIs
<1>19. ReaderAs(u, yes, Q, r.cap, r.frag, a, r.taken, r.refused)
  BY <1>16, <1>18 DEF ReaderAs
<1>20. u \in ReaderRec /\ u.open /\ u.parts = Q /\ u.cap = r.cap /\ u.frag = r.frag /\ u.at = "parse" /\ u.taken = << >> /\ u.refused = "no"
  <2>1. u.open = yes /\ u.at = a
    BY <1>19 DEF ReaderAs
  <2>2. u.open
    BY <1>15, <2>1
  <2> QED BY <1>2, <1>19, <2>1, <2>2 DEF ReaderAs, a
<1>21. ReaderOK(u, work, Len(handled), weDialed)
  BY <1>1, <1>2, <1>20 DEF ReaderOK
<1>22. Heads(Tail(F), u.open, w.head, codec)
  BY <1>7, <1>8, <1>20, HeadsTail
<1>23. Flows(codec, weDialed, u, stream, w, m, Tail(F))
  <2>1. Enters(weDialed, w.stray, m, u.frag, u.taken, m, r.frag)
    BY <1>20 DEF Enters
  <2> HIDE DEF m
  <2> QED BY <1>11, <1>13, <1>14, <1>20, <1>22, <2>1 DEF Flows
<1>24. \A i \in 1..Len(work) : work[i] = Len(handled) + i
  BY <1>2 DEF FramingInv
<1>25. /\ WriterOK(writer, codec, weDialed) /\ \A i \in 1..Len(handled) : handled[i] = i
  BY DEF FramingInv
<1> QED BY <1>1, <1>3, <1>4, <1>9, <1>20, <1>21, <1>23, <1>24, <1>25 DEF FramingInv, u, w

(* While a frame is measured or taken, the cap is no less than the next    *)
(* message may be long: where it is not the higher one, no message waits.  *)
LEMMA CapEnough ==
  ASSUME FramingInv, reader.at # "step"
  PROVE  /\ Limit(weDialed, Len(handled) + Len(work) + 1) \in Nat /\ reader.cap >= 1
         /\ Limit(weDialed, Len(handled) + Len(work) + 1) <= reader.cap
<1>1. /\ reader.cap = IF Len(handled) >= (IF weDialed THEN 1 ELSE 2) THEN maxFrame ELSE maxHandshakeFrame
      /\ reader.cap # maxFrame => work = << >>
  BY ReaderTyped DEF ReaderOK
<1>2. maxFrame \in Nat /\ maxHandshakeFrame \in Nat /\ maxHandshakeFrame < maxFrame /\ maxHandshakeFrame >= 1
  BY FramingAssumption
<1>3. Len(handled) \in Nat /\ Len(work) \in Nat /\ (work = << >> => Len(work) = 0)
  BY ReaderTyped
<1>4. CASE reader.cap = maxFrame
  BY <1>2, <1>4 DEF Limit
<1>5. CASE reader.cap # maxFrame
  <2>1. reader.cap = maxHandshakeFrame /\ Len(handled) + Len(work) + 1 <= (IF weDialed THEN 1 ELSE 2)
    BY <1>1, <1>3, <1>5
  <2> QED BY <1>2, <2>1 DEF Limit
<1> QED BY <1>4, <1>5

(* The reading end has refused to read on. *)
LEMMA RefuseKeeps ==
  ASSUME FramingInv, codec # "none", reader.at # "step", NEW r \in ReaderRec, r.open = reader.open, r.cap = reader.cap,
         r.taken = << >>, NEW y \in {"cap", "order", "close"}, y # "close" => writer.stray,
         Goes(Refuse(r, y)), UNCHANGED <<codec, weDialed, writer, stream, handled>>
  PROVE  FramingInv'
<1> DEFINE e == << >>
           a == "idle"
           g == -1
           u == reader'
<1>1. u = [r EXCEPT !.refused = y, !.at = a, !.parts = e, !.frag = g] /\ work' = work
  BY DEF Goes, Refuse
<1>2. e \in Seq(FrameRec) /\ a \in Ats /\ g \in Int /\ y \in {"no", "cap", "order", "close"} /\ g >= -1 /\ y # "no"
  BY DEF Ats
<1>3. reader.cap \in Nat /\ reader.open \in BOOLEAN /\ ReaderOK(reader, work, Len(handled), weDialed) /\ work \in Seq(Nat)
      /\ stream \in Seq(FrameRec)
  BY ReaderTyped
<1>4. ~Complete(e)
  BY SMTT(30) DEF Complete
<1> HIDE DEF e, a, g, u
<1>5. ReaderAs(u, r.open, e, r.cap, g, a, r.taken, y)
  BY <1>1, <1>2, <1>3, ReaderIs, ZenonT(40)
<1>6. a = "idle"
  BY DEF a
<1>7. ReaderOK(u, work, Len(handled), weDialed)
  BY <1>2, <1>3, <1>4, <1>5, <1>6 DEF ReaderOK, ReaderAs
<1>8. u.refused = y /\ u.open = reader.open
  BY <1>5 DEF ReaderAs
<1>9. y \in {"cap", "order"} => writer.stray
  OBVIOUS
<1> QED BY <1>1, <1>2, <1>3, <1>7, <1>8, <1>9, ReaderMoves DEF u

(* A whole frame, taken: r is the framer with it off the line. *)
Off(r, f, k, l, G) ==
    /\ r \in ReaderRec /\ r.open /\ reader.open /\ r.cap = reader.cap /\ r.frag = reader.frag /\ r.refused = "no"
    /\ \E o : CutInto(r.parts, stream, G, o)
    /\ Heads(G, TRUE, writer.head, codec)
    /\ f \in FrameRec
    /\ FrameStep(weDialed, writer.stray, Len(handled) + Len(work), r.frag, f, k, l)
    /\ Behind(weDialed, writer, G, k, l)
LEMMA OffFlows ==
  ASSUME NEW r, NEW f, NEW k, NEW l, NEW G, Off(r, f, k, l, G),
         NEW u \in ReaderRec, u.open = r.open, u.parts = r.parts, u.frag = l, u.taken = << >>
  PROVE  Flows(codec, weDialed, u, stream, writer, k, G)
<1>1. Enters(weDialed, writer.stray, k, u.frag, u.taken, k, l)
  BY DEF Enters
<1>2. u.open = TRUE /\ Heads(G, TRUE, writer.head, codec)
  BY DEF Off, ReaderRec
<1>3. Heads(G, u.open, writer.head, codec)
  BY <1>2
<1> QED BY <1>1, <1>3 DEF Flows, Off

LEMMA DispatchKeeps ==
  ASSUME FramingInv, reader.at \in {"parse", "unmask"}, NEW r, NEW f, NEW k, NEW l, NEW G, Off(r, f, k, l, G),
         f.op # "head", r.taken = << >>,
         Dispatch(r, f), UNCHANGED <<codec, weDialed, writer, stream, handled>>
  PROVE  FramingInv'
<1> DEFINE m == Len(handled) + Len(work)
           u == reader'
           q == r.parts
<1>1. /\ codec # "none" /\ reader.at # "step" /\ reader.refused = "no" /\ r \in ReaderRec /\ r.open = reader.open /\ r.cap = reader.cap
      /\ r.frag \in Int /\ r.frag >= -1 /\ r.cap \in Nat /\ r.open \in BOOLEAN /\ r.refused = "no" /\ q \in Seq(FrameRec)
      /\ work \in Seq(Nat) /\ handled \in Seq(Nat) /\ stream \in Seq(FrameRec) /\ Len(work) \in Nat /\ Len(handled) \in Nat
      /\ r.frag = reader.frag
  <2>1. codec # "none"
    BY LinkThere
  <2>2. r \in ReaderRec /\ r.open /\ reader.open /\ r.cap = reader.cap /\ r.frag = reader.frag /\ r.refused = "no"
    BY DEF Off
  <2>3. r.open \in BOOLEAN /\ reader.open \in BOOLEAN /\ q \in Seq(FrameRec)
    BY <2>2, ReaderTyped DEF ReaderRec
  <2>4. r.open = reader.open
    BY <2>2, <2>3
  <2>5. reader.refused = "no" /\ reader.frag >= -1
    BY ReaderTyped DEF ReaderOK
  <2> QED BY <2>1, <2>2, <2>3, <2>4, <2>5, ReaderTyped
<1>2. FrameStep(weDialed, writer.stray, m, r.frag, f, k, l) /\ f.op \in FrameOps /\ f.size \in Nat /\ f.fin \in BOOLEAN
      /\ f.msg \in Nat /\ m \in Nat
  BY <1>1 DEF Off, FrameRec
<1>3. Limit(weDialed, m + 1) \in Nat /\ Limit(weDialed, m + 1) <= r.cap
  BY <1>1, CapEnough
<1>4. ReaderOK(reader, work, Len(handled), weDialed) /\ \A i \in 1..Len(work) : work[i] = Len(handled) + i
  BY <1>1 DEF FramingInv
<1>5. ASSUME NEW a \in {"parse", "pong"}, u = [r EXCEPT !.frag = l, !.at = a] \/ (u = [r EXCEPT !.at = a] /\ r.frag = l),
             k = m, l \in Int, l >= -1, work' = work
      PROVE  FramingInv'
  <2>1. a \in Ats /\ "no" \in {"no", "cap", "order", "close"}
    BY DEF Ats
  <2> HIDE DEF u, q
  <2>2. ReaderAs(u, r.open, q, r.cap, l, a, r.taken, r.refused)
    BY <1>1, <1>5, <2>1, ReaderIs, ZenonT(40) DEF q
  <2>3. u \in ReaderRec /\ u.open = r.open /\ u.parts = q /\ u.frag = l /\ u.taken = << >> /\ u.refused = "no" /\ u.at = a
        /\ u.cap = reader.cap /\ u.open
    <3>1. r.open
      BY DEF Off
    <3>2. u.open = r.open
      BY <2>2 DEF ReaderAs
    <3> QED BY <1>1, <2>2, <3>1, <3>2 DEF ReaderAs
  <2>4. ReaderOK(u, work, Len(handled), weDialed)
    BY <1>1, <1>4, <1>5, <2>3 DEF ReaderOK
  <2>5. Flows(codec, weDialed, u, stream, writer, k, G)
    BY <2>3, OffFlows DEF q
  <2> QED BY <1>1, <1>4, <1>5, <2>3, <2>4, <2>5, ReaderMoves DEF u
<1>6. ASSUME Delivers(r, f.msg), f.msg = m + 1, k = m + 1, l = -1
      PROVE  FramingInv'
  <2> DEFINE a == AwaitsStep(r)
             W == Append(work, m + 1)
             g == -1
             N == Len(work)
  <2>1. u = [r EXCEPT !.at = a, !.frag = g] /\ work' = W
    BY <1>6 DEF Delivers
  <2>2. a \in Ats /\ "no" \in {"no", "cap", "order", "close"} /\ g \in Int /\ g >= -1 /\ l = g
    BY <1>6 DEF Ats, AwaitsStep
  <2>3. (r.cap # maxFrame => a = "step") /\ a \in {"parse", "step"}
    BY DEF AwaitsStep
  <2>4. W \in Seq(Nat) /\ Len(W) = N + 1 /\ W[N + 1] = m + 1 /\ (\A i \in 1..N : W[i] = work[i]) /\ N \in Nat
    BY <1>1
  <2>5. ASSUME NEW i \in 1..(N + 1) PROVE W[i] = Len(handled) + i
    <3> HIDE DEF W
    <3>1. CASE i \in 1..N
      BY <1>4, <2>4, <3>1
    <3>2. CASE i = N + 1
      BY <1>1, <2>4, <3>2
    <3> QED BY <2>4, <3>1, <3>2
  <2> HIDE DEF u, q, a, g, W
  <2>6. ReaderAs(u, r.open, q, r.cap, g, a, r.taken, r.refused)
    BY <1>1, <2>1, <2>2, ReaderIs DEF q
  <2>7. u \in ReaderRec /\ u.open = r.open /\ u.parts = q /\ u.frag = l /\ u.taken = << >> /\ u.refused = "no" /\ u.at = a
        /\ u.cap = reader.cap /\ u.open
    <3>1. r.open
      BY DEF Off
    <3>2. u.open = r.open
      BY <2>6 DEF ReaderAs
    <3> QED BY <1>1, <2>2, <2>6, <3>1, <3>2 DEF ReaderAs
  <2>8. ReaderOK(u, W, Len(handled), weDialed)
    BY <1>1, <1>4, <2>2, <2>3, <2>7 DEF ReaderOK
  <2>9. Flows(codec, weDialed, u, stream, writer, k, G)
    BY <2>7, OffFlows DEF q
  <2>10. Len(handled) + Len(W) = k
    BY <1>1, <1>6, <2>4
  <2>11. \A i \in 1..Len(W) : W[i] = Len(handled) + i
    BY <2>4, <2>5
  <2> QED BY <1>1, <2>1, <2>4, <2>7, <2>8, <2>9, <2>10, <2>11, ReaderMoves DEF u
<1>7. ASSUME NEW y \in {"cap", "order", "close"}, y # "close" => writer.stray, Goes(Refuse(r, y))
      PROVE  FramingInv'
  BY <1>1, <1>7, RefuseKeeps
<1>8. CASE f.op = "cont"
  <2>1. CASE r.frag < 0
    <3>1. Goes(Refuse(r, "order"))
      BY <1>8, <2>1 DEF Dispatch
    <3>2. writer.stray
      BY <1>1, <1>2, <1>8, <2>1 DEF FrameStep, Lost
    <3> QED BY <1>7, <3>1, <3>2
  <2>2. CASE r.frag >= 0
    <3>1. f.fin /\ f.msg = m + 1 /\ f.size = 1 /\ r.frag + 1 <= Limit(weDialed, m + 1) /\ k = m + 1 /\ l = -1
      BY <1>1, <1>2, <1>8, <2>2 DEF FrameStep, Lost
    <3>2. ~(r.frag < 0) /\ ~(r.frag + f.size > r.cap)
      BY <1>1, <1>3, <2>2, <3>1, SMTT(30)
    <3>3. Delivers(r, f.msg)
      BY <1>8, <3>1, <3>2 DEF Dispatch
    <3> QED BY <1>6, <3>1, <3>3
  <2> QED BY <1>1, <2>1, <2>2
<1>9. CASE f.op = "ping"
  <2>1. Goes([r EXCEPT !.at = "pong"])
    BY <1>9 DEF Dispatch
  <2>2. k = m /\ l = r.frag
    BY <1>1, <1>2, <1>9 DEF FrameStep, Lost
  <2>3. u = [r EXCEPT !.at = "pong"] /\ work' = work
    BY <2>1 DEF Goes
  <2> QED BY <1>1, <1>5, <2>2, <2>3
<1>10. CASE f.op = "close"
  <2>1. Goes(Refuse(r, "close"))
    BY <1>10 DEF Dispatch
  <2> QED BY <1>7, <2>1
<1>11. CASE f.op = "binary"
  <2>1. CASE r.frag >= 0
    <3>1. Goes(Refuse(r, "order"))
      BY <1>11, <2>1 DEF Dispatch
    <3>2. writer.stray
      BY <1>1, <1>2, <1>11, <2>1 DEF FrameStep, Lost
    <3> QED BY <1>7, <3>1, <3>2
  <2>2. CASE ~(r.frag >= 0) /\ f.fin
    <3>1. Delivers(r, f.msg)
      BY <1>11, <2>2 DEF Dispatch
    <3>2. f.msg = m + 1 /\ k = m + 1 /\ l = -1
      BY <1>1, <1>2, <1>11, <2>2 DEF FrameStep, Lost
    <3> QED BY <1>6, <3>1, <3>2
  <2>3. CASE ~(r.frag >= 0) /\ ~f.fin
    <3>1. Goes([r EXCEPT !.frag = f.size, !.at = "parse"])
      BY <1>11, <2>3 DEF Dispatch
    <3>2. k = m /\ l = f.size
      BY <1>1, <1>2, <1>11, <2>3 DEF FrameStep, Lost
    <3>3. u = [r EXCEPT !.frag = l, !.at = "parse"] /\ work' = work /\ l \in Int /\ l >= -1
      BY <1>2, <3>1, <3>2 DEF Goes
    <3> QED BY <1>5, <3>2, <3>3
  <2> QED BY <1>2, <2>1, <2>2, <2>3
<1> QED BY <1>2, <1>8, <1>9, <1>10, <1>11 DEF FrameOps

LEMMA ParseKeeps ==
  ASSUME FramingInv, Parse
  PROVE  FramingInv'
<1> DEFINE r == reader
           w == writer
           m == Len(handled) + Len(work)
           f == Head(r.parts)
           u == reader'
<1>1. /\ ReaderOK(r, work, Len(handled), weDialed) /\ r \in ReaderRec /\ r.parts \in Seq(FrameRec) /\ stream \in Seq(FrameRec)
      /\ r.at = "parse" /\ r.cap \in Nat /\ r.frag \in Int /\ work \in Seq(Nat) /\ Len(work) \in Nat /\ Len(handled) \in Nat
      /\ r.taken \in Seq(FrameRec) /\ r.open \in BOOLEAN
  BY ReaderTyped DEF Parse
<1>2. r.refused = "no" /\ r.open /\ r.taken = << >> /\ r.frag >= -1
  BY <1>1 DEF ReaderOK
<1>3. codec # "none" /\ UNCHANGED <<codec, weDialed, writer, stream, handled>>
  BY <1>1, LinkThere DEF Parse
<1>4. PICK F : Flows(codec, weDialed, r, stream, w, m, F)
  BY <1>2 DEF FramingInv
<1>5. F \in Seq(FrameRec) /\ Heads(F, r.open, w.head, codec)
  BY <1>4 DEF Flows, CutInto
<1>6. \A i \in 1..Len(work) : work[i] = Len(handled) + i
  BY <1>2 DEF FramingInv
<1>7. CASE OverCap(r)
  <2>1. Goes(Refuse(r, "cap")) /\ r.parts # << >> /\ f.size > r.cap
    BY <1>7 DEF Parse, OverCap
  <2>2. F # << >> /\ f = F[1] /\ Head(F) = F[1] /\ f.size \in Nat
    <3>1. PICK o : CutInto(r.parts, stream, F, o)
      BY <1>4 DEF Flows
    <3>2. F # << >> /\ Len(F) > 0 /\ f = F[1]
      BY <2>1, <3>1, CutFirst
    <3>3. 1 \in 1..Len(F) /\ Head(F) = F[1]
      BY <1>5, <3>2
    <3>4. F[1].size \in Nat
      BY <1>5, <3>3, FrameTyped
    <3> QED BY <3>2, <3>3, <3>4
  <2>3. PICK k, h : Runs(weDialed, w.stray, F, m, r.frag, k, h)
    BY <1>2, <1>4 DEF Flows, Enters, Behind
  <2>4. PICK k1 \in Nat, l1 \in Int : FrameStep(weDialed, w.stray, m, r.frag, f, k1, l1)
    BY <2>2, <2>3, RunsFirst
  <2>5. Limit(weDialed, m + 1) \in Nat /\ Limit(weDialed, m + 1) <= r.cap /\ r.cap >= 1
    BY <1>1, CapEnough
  <2>6. w.stray
    <3> HIDE DEF m, f
    <3>1. ~(f.size <= 1) /\ ~(f.size <= Limit(weDialed, m + 1)) /\ ~(f.size + 1 <= Limit(weDialed, m + 1)) /\ r.frag # Lost
          /\ f.size # 1
      BY <1>1, <1>2, <2>1, <2>2, <2>5, SMTT(30) DEF Lost
    <3> QED BY <2>4, <3>1 DEF FrameStep
  <2> QED BY <1>1, <1>2, <1>3, <2>1, <2>6, RefuseKeeps
<1>8. CASE ~OverCap(r) /\ ~Complete(r.parts)
  <2> DEFINE a == "idle"
  <2>1. u = [r EXCEPT !.at = a] /\ work' = work
    BY <1>8 DEF Parse, Goes
  <2>2. a \in Ats /\ a = "idle"
    BY DEF Ats
  <2> HIDE DEF a, u
  <2>3. ReaderAs(u, r.open, r.parts, r.cap, r.frag, a, r.taken, r.refused)
    BY <1>1, <2>1, <2>2, ReaderIs
  <2>4. ReaderOK(u, work, Len(handled), weDialed)
    BY <1>1, <1>2, <1>8, <2>2, <2>3 DEF ReaderOK, ReaderAs
  <2>5. u.refused = "no" /\ u.open = r.open /\ u.parts = r.parts /\ u.frag = r.frag /\ u.taken = r.taken
    BY <1>2, <2>3 DEF ReaderAs
  <2>6. Flows(codec, weDialed, u, stream, w, m, F)
    BY <1>4, <2>5, FlowSame
  <2> QED BY <1>1, <1>3, <1>6, <2>1, <2>4, <2>5, <2>6, ReaderMoves DEF u
<1>9. CASE ~OverCap(r) /\ Complete(r.parts)
  <2> DEFINE Q == SubSeq(r.parts, f.size + 1 + 1, Len(r.parts))
             p == [r EXCEPT !.parts = Q]
  <2>1. TakesTo(codec, weDialed, r, stream, w, m, F, f)
    <3>1. r.parts # << >> /\ Len(r.parts) >= Head(r.parts).size + 1
      BY <1>9 DEF Complete
    <3> HIDE DEF m, w
    <3> QED BY <1>2, <1>4, <3>1, FlowTake
  <2>2. f \in FrameRec /\ f = F[1] /\ F # << >> /\ f.size \in Nat /\ Len(F) > 0
    BY <2>1 DEF TakesTo, FrameRec
  <2>3. f.op # "head"
    <3>1. 1 \in 1..Len(F)
      BY <1>5, <2>2
    <3> QED BY <1>2, <1>5, <2>2, <3>1 DEF Heads
  <2>4. \E o : CutInto(Q, stream, Tail(F), o)
    <3>1. f.size + 1 + 1 = f.size + 2
      BY <2>2, SMTT(30)
    <3> QED BY <2>1, <3>1 DEF TakesTo
  <2>5. Q \in Seq(FrameRec)
    BY <2>4 DEF CutInto
  <2>6. PICK k \in Nat, l \in Int : FrameStep(weDialed, w.stray, m, r.frag, f, k, l) /\ Behind(weDialed, w, Tail(F), k, l)
    BY <2>1 DEF TakesTo
  <2>7. Heads(Tail(F), TRUE, w.head, codec)
    BY <1>5, <2>2, HeadsTail
  <2>8. IF codec = "ws" /\ ~weDialed THEN Goes([p EXCEPT !.at = "unmask", !.taken = <<f>>]) ELSE Dispatch(p, f)
    BY <1>9 DEF Parse, Taken
  <2>9. "unmask" \in Ats /\ <<f>> \in Seq(FrameRec) /\ Len(<<f>>) = 1 /\ <<f>>[1] = f
    BY <2>2, SMTT(30) DEF Ats
  <2> HIDE DEF Q, p, f
  <2>10. ReaderAs(p, r.open, Q, r.cap, r.frag, r.at, r.taken, r.refused)
    BY <1>1, <2>5, <2>9, ReaderIs DEF p
  <2>11. p \in ReaderRec /\ p.open /\ p.cap = r.cap /\ p.frag = r.frag /\ p.refused = "no" /\ p.parts = Q /\ p.taken = << >>
    <3>1. p.open = r.open
      BY <2>10 DEF ReaderAs
    <3> QED BY <1>2, <2>10, <3>1 DEF ReaderAs
  <2>12. Off(p, f, k, l, Tail(F))
    BY <1>2, <2>2, <2>4, <2>6, <2>7, <2>11 DEF Off
  <2>13. CASE ~(codec = "ws" /\ ~weDialed)
    <3>1. Dispatch(p, f)
      BY <2>8, <2>13
    <3> QED BY <1>1, <1>3, <2>3, <2>11, <2>12, <3>1, DispatchKeeps
  <2>14. CASE codec = "ws" /\ ~weDialed
    <3> DEFINE a == "unmask"
               t == <<f>>
    <3>1. u = [p EXCEPT !.at = a, !.taken = t] /\ work' = work
      BY <2>8, <2>14 DEF Goes
    <3>2. a \in Ats /\ a = "unmask" /\ t \in Seq(FrameRec) /\ Len(t) = 1 /\ t[1] = f /\ t # << >>
      BY <2>9, SMTT(30)
    <3> HIDE DEF a, u, t
    <3>3. ReaderAs(u, p.open, p.parts, p.cap, p.frag, a, t, p.refused)
      BY <1>1, <2>11, <3>1, <3>2, ReaderIs
    <3>4. ReaderAs(u, r.open, Q, r.cap, r.frag, a, t, r.refused)
      BY <2>10, <3>3 DEF ReaderAs
    <3>5. ReaderOK(u, work, Len(handled), weDialed)
      BY <1>1, <1>2, <2>3, <3>2, <3>4, SMTT(30) DEF ReaderOK, ReaderAs
    <3>6. u.refused = "no" /\ u.open = r.open /\ u.parts = Q /\ u.frag = r.frag /\ u.taken = t
      BY <1>2, <3>4 DEF ReaderAs
    <3>7. Enters(weDialed, w.stray, m, u.frag, u.taken, k, l)
      BY <2>6, <3>2, <3>6 DEF Enters
    <3>8. Heads(Tail(F), u.open, w.head, codec)
      <4>1. u.open = TRUE
        BY <1>1, <1>2, <3>6
      <4> QED BY <2>7, <4>1
    <3>9. Flows(codec, weDialed, u, stream, w, m, Tail(F))
      BY <2>4, <2>6, <3>6, <3>7, <3>8 DEF Flows
    <3> QED BY <1>1, <1>3, <1>6, <3>1, <3>5, <3>6, <3>9, ReaderMoves DEF u
  <2> QED BY <2>13, <2>14
<1> QED BY <1>7, <1>8, <1>9

LEMMA UnmaskedKeeps ==
  ASSUME FramingInv, Unmasked
  PROVE  FramingInv'
<1> DEFINE r == reader
           w == writer
           m == Len(handled) + Len(work)
           f == Head(r.taken)
           e == << >>
           p == [r EXCEPT !.taken = e]
<1>1. /\ ReaderOK(r, work, Len(handled), weDialed) /\ r \in ReaderRec /\ r.at = "unmask" /\ r.taken \in Seq(FrameRec)
      /\ r.cap \in Nat /\ r.frag \in Int /\ r.open \in BOOLEAN
  BY ReaderTyped DEF Unmasked
<1>2. r.refused = "no" /\ r.open /\ Len(r.taken) = 1 /\ r.taken[1].op # "head"
  BY <1>1 DEF ReaderOK
<1>3. f = r.taken[1] /\ f \in FrameRec /\ f.op # "head" /\ r.taken # << >>
  BY <1>1, <1>2
<1>4. Dispatch(p, f) /\ UNCHANGED <<codec, weDialed, writer, stream, handled>>
  BY DEF Unmasked
<1>5. e \in Seq(FrameRec) /\ e = << >> /\ "parse" \in Ats
  BY DEF Ats
<1>6. PICK F : Flows(codec, weDialed, r, stream, w, m, F)
  BY <1>2 DEF FramingInv
<1>7. PICK k, l : FrameStep(weDialed, w.stray, m, r.frag, f, k, l) /\ Behind(weDialed, w, F, k, l)
  BY <1>3, <1>6, SMTT(30) DEF Flows, Enters
<1> HIDE DEF p, e, f
<1>8. ReaderAs(p, r.open, r.parts, r.cap, r.frag, r.at, e, r.refused)
  BY <1>1, <1>5, ReaderIs DEF p
<1>9. p \in ReaderRec /\ p.open /\ p.cap = r.cap /\ p.frag = r.frag /\ p.refused = "no" /\ p.parts = r.parts /\ p.taken = << >>
  <2>1. p.open = r.open
    BY <1>8 DEF ReaderAs
  <2> QED BY <1>2, <1>5, <1>8, <2>1 DEF ReaderAs
<1>10. Heads(F, TRUE, w.head, codec)
  <2>1. r.open = TRUE
    BY <1>1, <1>2
  <2> QED BY <1>6, <2>1 DEF Flows
<1>11. Off(p, f, k, l, F)
  BY <1>2, <1>3, <1>6, <1>7, <1>9, <1>10 DEF Off, Flows
<1> QED BY <1>1, <1>3, <1>4, <1>9, <1>11, DispatchKeeps

LEMMA ResumesKeeps ==
  ASSUME FramingInv, Resumes
  PROVE  FramingInv'
<1> DEFINE r == reader
           a == "parse"
           u == reader'
           m == Len(handled) + Len(work)
<1>1. /\ ReaderOK(r, work, Len(handled), weDialed) /\ r \in ReaderRec /\ r.at \in {"step", "pong"} /\ (r.at = "step" => work = << >>)
      /\ r.parts \in Seq(FrameRec) /\ r.cap \in Nat /\ r.frag \in Int /\ r.open \in BOOLEAN /\ work \in Seq(Nat) /\ stream \in Seq(FrameRec)
  BY ReaderTyped DEF Resumes
<1>2. r.refused = "no" /\ r.open /\ r.taken = << >>
  BY <1>1 DEF ReaderOK
<1>3. u = [r EXCEPT !.at = a] /\ UNCHANGED <<codec, weDialed, writer, stream, work, handled>>
  BY DEF Resumes
<1>4. a \in Ats /\ a = "parse"
  BY DEF Ats
<1>5. codec # "none"
  BY <1>1, LinkThere
<1>6. (\A i \in 1..Len(work) : work[i] = Len(handled) + i) /\ \E F : Flows(codec, weDialed, r, stream, writer, m, F)
  BY <1>2, SMTT(30) DEF FramingInv
<1> HIDE DEF a, u
<1>7. ReaderAs(u, r.open, r.parts, r.cap, r.frag, a, r.taken, r.refused)
  BY <1>1, <1>3, <1>4, ReaderIs
<1>8. ReaderOK(u, work, Len(handled), weDialed)
  BY <1>1, <1>2, <1>4, <1>7 DEF ReaderOK, ReaderAs
<1>9. u.refused = "no" /\ u.open = r.open /\ u.parts = r.parts /\ u.frag = r.frag /\ u.taken = r.taken
  BY <1>2, <1>7 DEF ReaderAs
<1>10. \E F : Flows(codec, weDialed, u, stream, writer, m, F)
  <2>1. PICK F : Flows(codec, weDialed, r, stream, writer, m, F)
    BY <1>6
  <2>2. Flows(codec, weDialed, u, stream, writer, m, F)
    BY <1>9, <2>1, FlowSame
  <2> QED BY <2>2
<1> QED BY <1>1, <1>3, <1>5, <1>6, <1>8, <1>9, <1>10, ReaderMoves DEF u

LEMMA OnMessageKeeps ==
  ASSUME FramingInv, OnMessage
  PROVE  FramingInv'
<1> DEFINE r == reader
           u == reader'
           W == Tail(work)
           N == Len(work)
           n == Len(handled)
<1>1. /\ ReaderOK(r, work, n, weDialed) /\ r \in ReaderRec /\ work \in Seq(Nat) /\ handled \in Seq(Nat) /\ n \in Nat /\ N \in Nat
      /\ stream \in Seq(FrameRec) /\ r.cap \in Nat /\ r.frag \in Int /\ r.open \in BOOLEAN /\ weDialed \in BOOLEAN
      /\ r.parts \in Seq(FrameRec) /\ r.at \in Ats
  BY ReaderTyped
<1>2. work # << >> /\ work' = W /\ UNCHANGED <<codec, weDialed, writer, stream>>
  BY DEF OnMessage
<1>3. W \in Seq(Nat) /\ Len(W) = N - 1 /\ N > 0 /\ Head(work) = work[1] /\ 1 \in 1..N /\ \A i \in 1..(N - 1) : W[i] = work[i + 1]
  BY <1>1, <1>2
<1>4. codec # "none"
  BY <1>2, LinkThere
<1>5. r.at = "step" \/ r.cap = maxFrame
  BY <1>1, <1>2 DEF ReaderOK
<1> HIDE DEF W
<1>6. CASE r.refused # "no"
  <2>1. u = r /\ handled' = handled
    BY <1>6 DEF OnMessage
  <2>2. ReaderOK(r, W, n, weDialed)
    BY <1>1, <1>5 DEF ReaderOK
  <2>3. r.refused \in {"cap", "order"} => writer.stray
    BY DEF FramingInv
  <2> QED BY <1>1, <1>2, <1>3, <1>4, <1>6, <2>1, <2>2, <2>3, ReaderMoves
<1>7. CASE r.refused = "no"
  <2> DEFINE H == Append(handled, Head(work))
             auth == IF weDialed THEN 1 ELSE 2
             c == IF n + 1 >= auth THEN maxFrame ELSE maxHandshakeFrame
  <2>1. /\ \A i \in 1..N : work[i] = n + i
        /\ \E F : Flows(codec, weDialed, r, stream, writer, n + N, F)
        /\ \A i \in 1..n : handled[i] = i
    BY <1>7 DEF FramingInv
  <2>2. Head(work) = n + 1
    BY <1>3, <2>1
  <2>3. handled' = H /\ u = IF n + 1 = auth THEN [r EXCEPT !.cap = maxFrame] ELSE r
    BY <1>7, <2>2 DEF OnMessage, Raises, AuthAt
  <2>4. H \in Seq(Nat) /\ Len(H) = n + 1 /\ H[n + 1] = n + 1 /\ \A i \in 1..n : H[i] = handled[i]
    BY <1>1, <2>2, SMTT(30)
  <2> HIDE DEF H, u
  <2>5. ASSUME NEW i \in 1..(n + 1) PROVE H[i] = i
    <3>1. CASE i \in 1..n
      BY <2>1, <2>4, <3>1
    <3>2. CASE i = n + 1
      BY <2>4, <3>2
    <3> QED BY <1>1, <3>1, <3>2
  <2>6. ASSUME NEW i \in 1..(N - 1) PROVE W[i] = (n + 1) + i
    <3>1. i + 1 \in 1..N
      BY <1>1
    <3>2. W[i] = work[i + 1] /\ work[i + 1] = n + (i + 1)
      BY <1>3, <2>1, <3>1
    <3> QED BY <1>1, <3>2
  <2>7. maxFrame \in Nat
    BY FramingAssumption
  <2>8. ReaderAs(u, r.open, r.parts, c, r.frag, r.at, r.taken, r.refused)
    <3>1. r.cap = IF n >= auth THEN maxFrame ELSE maxHandshakeFrame
      BY <1>1 DEF ReaderOK
    <3>2. CASE n + 1 = auth
      <4>1. ReaderAs([r EXCEPT !.cap = maxFrame], r.open, r.parts, maxFrame, r.frag, r.at, r.taken, r.refused)
        BY <1>1, <2>7, ReaderIs
      <4>2. c = maxFrame
        BY <1>1, <3>2
      <4> QED BY <2>3, <3>2, <4>1, <4>2, SMTT(30)
    <3>3. CASE n + 1 # auth
      <4>1. (n + 1 >= auth) = (n >= auth)
        BY <1>1, <3>3
      <4>2. c = r.cap
        BY <3>1, <4>1
      <4> QED BY <1>1, <2>3, <3>3, <4>2 DEF ReaderAs
    <3> QED BY <3>2, <3>3
  <2>9. r.at = "step" \/ c = maxFrame
    <3>1. r.cap = IF n >= auth THEN maxFrame ELSE maxHandshakeFrame
      BY <1>1 DEF ReaderOK
    <3> QED BY <1>1, <1>5, <3>1, FramingAssumption
  <2>10. ReaderOK(u, W, n + 1, weDialed)
    BY <1>1, <2>8, <2>9 DEF ReaderOK, ReaderAs
  <2>11. u.refused = "no" /\ u.open = r.open /\ u.parts = r.parts /\ u.frag = r.frag /\ u.taken = r.taken
    BY <1>7, <2>8 DEF ReaderAs
  <2>12. \E F : Flows(codec, weDialed, u, stream, writer, Len(H) + Len(W), F)
    <3>1. PICK F : Flows(codec, weDialed, r, stream, writer, n + N, F)
      BY <2>1
    <3>2. Flows(codec, weDialed, u, stream, writer, n + N, F)
      BY <2>11, <3>1, FlowSame
    <3>3. Len(H) + Len(W) = n + N
      BY <1>1, <1>3, <2>4
    <3> QED BY <3>2, <3>3
  <2>13. (\A i \in 1..Len(H) : H[i] = i) /\ \A i \in 1..Len(W) : W[i] = Len(H) + i
    BY <1>3, <2>4, <2>5, <2>6
  <2>14. ReaderOK(u, W, Len(H), weDialed)
    BY <2>4, <2>10
  <2> HIDE DEF n, N, c, auth
  <2> QED BY <1>1, <1>2, <1>3, <1>4, <2>3, <2>4, <2>11, <2>12, <2>13, <2>14 DEF FramingInv, u
<1> QED BY <1>6, <1>7

(* FramingInv is kept. *)
LEMMA FramingSteps ==
  ASSUME FramingInv, FramingLayer
  PROVE  FramingInv'
<1>1. ASSUME NEW c \in {"length", "ws", "message"}, NEW d \in BOOLEAN, LinkMade(c, d) PROVE FramingInv'
  BY <1>1, LinkMadeKeeps
<1>2. ASSUME NEW size \in 1..maxFrame, NEW cut \in BOOLEAN, Send(size, cut) PROVE FramingInv'
  BY <1>2, SendKeeps
<1>3. ASSUME NEW farewell \in BOOLEAN, PeerEnds(farewell) PROVE FramingInv'
  BY <1>3, PeerEndsKeeps
<1>4. ASSUME NEW n \in 1..Len(stream), Push(n) PROVE FramingInv'
  BY <1>4, PushKeeps
<1>5. ASSUME Pings \/ Strays \/ PutHead \/ PeerOpens \/ Puts PROVE FramingInv'
  BY <1>5, PingsKeeps, StraysKeeps, PutHeadKeeps, PeerOpensKeeps, PutsKeeps
<1>6. ASSUME Upgrades \/ Parse \/ Unmasked \/ Resumes \/ OnMessage PROVE FramingInv'
  BY <1>6, UpgradesKeeps, ParseKeeps, UnmaskedKeeps, ResumesKeeps, OnMessageKeeps
<1> QED BY <1>1, <1>2, <1>3, <1>4, <1>5, <1>6 DEF FramingLayer

LEMMA FramingStays ==
  ASSUME FramingInv, UNCHANGED framingVars
  PROVE  FramingInv'
  BY DEF FramingInv, FramingInit, framingVars

(* FramesKept, of every run: however a peer's bytes are cut into reads and *)
(* its messages into fragments (framing.js read, frames, deliver; ake.js   *)
(* onWire, onMessage), they are handled in order, none left out; a peer    *)
(* that keeps to the rules is not refused; and no whole frame is left.     *)
THEOREM FramesHold == Spec => []FramesKept
<1>1. Init => FramingInv
  BY FramingStarts DEF Init
<1>2. FramingInv /\ [Next]_vars => FramingInv'
  <2>1. ASSUME FramingInv, Next PROVE FramingInv'
    <3>1. FramingLayer \/ UNCHANGED framingVars
      BY <2>1 DEF Next
    <3> QED BY <2>1, <3>1, FramingSteps, FramingStays
  <2>2. ASSUME FramingInv, UNCHANGED vars PROVE FramingInv'
    BY <2>2, FramingStays DEF vars
  <2> QED BY <2>1, <2>2
<1>3. FramingInv => FramesKept
  <2> SUFFICES ASSUME FramingInv PROVE FramesKept
    OBVIOUS
  <2>1. DOMAIN handled = 1..Len(handled)
    BY ReaderTyped
  <2>2. (\A k \in 1..Len(handled) : handled[k] = k) /\ (reader.refused \in {"cap", "order"} => writer.stray)
    BY DEF FramingInv
  <2>3. reader.at = "idle" /\ reader.open => ~Complete(reader.parts)
    BY ReaderTyped DEF ReaderOK
  <2> QED BY <2>1, <2>2, <2>3 DEF FramesKept
<1> QED BY <1>1, <1>2, <1>3, PTL DEF Spec
=============================================================================
