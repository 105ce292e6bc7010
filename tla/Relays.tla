------------------------------- MODULE Relays -------------------------------
(***************************************************************************)
(* A node's links to relays (transport/src/relay.js): the home relay it    *)
(* stays registered on, dialed again after a wait whenever it is lost, and *)
(* the relays it calls peers through, one link to each.                    *)
(*                                                                         *)
(* The code awaits the host and the relay between its steps; each action   *)
(* is one turn of the realm, and joins, calls, wakes and losses come       *)
(* between them in any order.  An address is an origin and the key its     *)
(* relay must prove.  A backoff is 1 or more ticks of the clock.           *)
(***************************************************************************)
EXTENDS Wakes

CONSTANTS
    Origins, Keys,
    MaxConns     \* relay links begun in a behaviour

ASSUME RelaysAssumption == "retry" \in Holders /\ MaxConns \in Nat /\ "none" \notin Origins

VARIABLES
    home,      \* the address of the home relay, or NoHome
    conns,     \* by origin: its one RelayConn, or 0
    conn,      \* the RelayConns made, in order: see NewConn
    calls      \* calls under way: [conn, stage], see Call

relayVars == <<home, conns, conn, calls>>

NoHome == [origin |-> "none", key |-> "none"]

(* `stage` is "opening" until the host answers, then "linked", and         *)
(* "registered"; `open` is its channel at the host.                        *)
NewConn(o, k) == [origin |-> o, key |-> k, stage |-> "opening", open |-> FALSE, gone |-> FALSE]
ConnIds == 1..Len(conn)

RelaysInit == /\ home = NoHome /\ conns = [o \in Origins |-> 0]
              /\ conn = << >> /\ calls = << >>

(* The links a turn may change, and the wait it may begin. *)
Links0 == [home |-> home, conns |-> conns, conn |-> conn, retry |-> due["retry"]]

(* onGone: one that is still its origin's leaves the map, and the home     *)
(* relay is dialed again `wait` from now.                                  *)
OnGoneQuiet(s, i, wait) == IF s.conns[s.conn[i].origin] # i THEN s ELSE [s EXCEPT !.conns[s.conn[i].origin] = 0]
OnGone(s, i, wait) ==
    LET o == s.conn[i].origin
    IN IF s.conns[o] # i THEN s
       ELSE [s EXCEPT !.conns[o] = 0, !.retry = IF s.home.origin = o THEN now + wait ELSE @]

(* onLinkClosed, once, with the channel closed. *)
Gone(s, i, wait) ==
    LET t == [s EXCEPT !.conn[i].open = FALSE]
    IN IF s.conn[i].gone THEN t ELSE OnGone([t EXCEPT !.conn[i].gone = TRUE], i, wait)

(* drop: off the map first, so that it is not taken for a lost one. *)
Drop(s, i) == Gone([s EXCEPT !.conns[s.conn[i].origin] = 0], i, 0)

(* conn: the link at an address, begun if there is none; one to another    *)
(* key is replaced for the home relay alone, and no call's.                *)
Conn(s, a, isHome) ==
    LET i == s.conns[a.origin]
        t == IF i # 0 /\ s.conn[i].key # a.key /\ isHome THEN Drop(s, i) ELSE s
    IN IF t.conns[a.origin] # 0 THEN t
       ELSE [t EXCEPT !.conn = Append(@, NewConn(a.origin, a.key)), !.conns[a.origin] = Len(t.conn) + 1]

DialHome(s) == Conn(s, s.home, TRUE)

(* Its turn: s is what it makes of the links, a of the arm. *)
Turns(s, a) ==
    /\ Len(s.conn) <= MaxConns
    /\ home' = s.home /\ conns' = s.conns /\ conn' = s.conn
    /\ due' = [due EXCEPT !["retry"] = s.retry]
    /\ Becomes(a)

(* dueIn, for a turn that has begun a wait. *)
Waits(s, a, no) == IF s.retry < due["retry"] \/ (s.retry # due["retry"] /\ s.retry < Never)
                   THEN wakeBy(a, s.retry, no) ELSE a

(* ---- the home relay ---- *)

(* join: another home is left, a wait for it forgotten, and it is dialed;  *)
(* or none is joined.                                                      *)
Join(a, no) ==
    /\ LET i == IF home.origin \in Origins /\ home.origin # a.origin THEN conns[home.origin] ELSE 0
           s == [(IF i # 0 THEN Drop(Links0, i) ELSE Links0) EXCEPT !.home = a, !.retry = Never]
       IN Turns(IF a = NoHome THEN s ELSE DialHome(s), Event(no))
    /\ UNCHANGED <<calls, now, live, firing, handed, lost>>

(* The wake: the walk of the deadlines, and a redial that is due. *)
Wake(no) ==
    /\ handed /\ handed' = FALSE /\ lost' = FALSE
    /\ LET s == IF "retry" \in Expired THEN DialHome([Links0 EXCEPT !.retry = Never]) ELSE Links0
           d == [h \in Holders |-> IF h \in Expired THEN Never ELSE due[h]]
       IN /\ Len(s.conn) <= MaxConns
          /\ home' = s.home /\ conns' = s.conns /\ conn' = s.conn
          /\ due' = d
          /\ Becomes(Walked(Event(no), d, no))
    /\ UNCHANGED <<calls, now, live, firing>>

(* Another holder's deadline: a link's, a waiter's, a request's. *)
Deadline(h, wait, no) ==
    /\ h # "retry"
    /\ due' = [due EXCEPT ![h] = now + wait]
    /\ Becomes(wakeBy(Event(no), now + wait, no))
    /\ UNCHANGED <<relayVars, now, live, firing, handed, lost>>

(* ---- a relay link ---- *)

(* open, as the host answers: it is linked, unless there is no route or it *)
(* was dropped meanwhile.                                                  *)
Wanted(i) == ~conn[i].gone
Opened(i, found, wait, no) ==
    /\ conn[i].stage = "opening"
    /\ LET s == IF found /\ Wanted(i)
                THEN [Links0 EXCEPT !.conn[i].stage = "linked", !.conn[i].open = TRUE]
                ELSE Gone([Links0 EXCEPT !.conn[i].stage = "linked"], i, wait)
       IN Turns(s, Waits(s, Arm, no))
    /\ UNCHANGED <<calls, now, live, firing, handed, lost>>

(* The host refuses the call: open rejects, and nothing takes it further;  *)
(* it is "refused" from then on, and not gone.                             *)
OpenRefused(i) ==
    /\ conn[i].stage = "opening"
    /\ conn' = [conn EXCEPT ![i].stage = "refused"]
    /\ UNCHANGED <<home, conns, calls, wakeVars>>

Registered(i) ==
    /\ conn[i].stage = "linked" /\ conn[i].open
    /\ conn' = [conn EXCEPT ![i].stage = "registered"]
    /\ UNCHANGED <<home, conns, calls, wakeVars>>

(* The link closes: lost, refused its handshake, or idle, which the home   *)
(* relay's never is.                                                       *)
LinkLost(i, wait, no) ==
    /\ conn[i].open
    /\ LET s == Gone(Links0, i, wait) IN Turns(s, Waits(s, Event(no), no))
    /\ UNCHANGED <<calls, now, live, firing, handed, lost>>

(* ---- calls ---- *)

(* call, from a dial: the relay's link is found or begun; an address that  *)
(* names another key gets none.                                            *)
Call(a) ==
    /\ LET s == Conn(Links0, a, FALSE)
       IN /\ Turns(s, Arm)
          /\ calls' = IF s.conn[s.conns[a.origin]].key # a.key THEN calls
                      ELSE Append(calls, [conn |-> s.conns[a.origin], stage |-> "waits"])
    /\ UNCHANGED <<now, live, firing, handed, lost>>

Ready(c) == c.gone \/ c.stage = "registered"

(* ready answers: its call goes on the wire, or there is no link to put it *)
(* on; then its splice socket is opened.                                   *)
CallGoes(n) ==
    /\ calls[n].stage = "waits"
    /\ LET c == conn[calls[n].conn]
       IN /\ Ready(c)
          /\ calls' = [calls EXCEPT ![n].stage = IF c.gone \/ ~c.open THEN "failed" ELSE "called"]
    /\ UNCHANGED <<home, conns, conn, wakeVars>>
-----------------------------------------------------------------------------
(* "origin to its one RelayConn" (Relays): a link that is open is the one  *)
(* its origin has, however joins, calls and losses overtook its dial.      *)
OneLink == \A i \in ConnIds : conn[i].open => conns[conn[i].origin] = i

(* "Stay registered on the relay" (join): while there is a home relay it   *)
(* has a link or a redial is due; the link an origin has, or a call waits  *)
(* for, is being opened, is open or is known gone, save one whose open the *)
(* host refused; and an origin has one link.                               *)
Coming(i) == conn[i].stage \in {"opening", "refused"} \/ conn[i].open
HomePursued ==
    /\ home # NoHome => \/ due["retry"] < Never
                        \/ conns[home.origin] # 0 /\ conn[conns[home.origin]].key = home.key
    /\ \A o \in Origins : conns[o] # 0 => Coming(conns[o])
    /\ \A n \in DOMAIN calls : calls[n].stage = "waits" => Coming(calls[n].conn) \/ conn[calls[n].conn].gone
    /\ OneLink

(* "Resolves once registered there, or once that attempt has failed and a  *)
(* redial is due" (join): an attempt at the home relay that the host       *)
(* refused has left a redial due.  Refuted: see README.                    *)
RedialDue == \A i \in ConnIds :
    (conns[conn[i].origin] = i /\ conn[i].origin = home.origin /\ conn[i].stage = "refused") => due["retry"] < Never
=============================================================================
