------------------------------- MODULE Dials --------------------------------
(***************************************************************************)
(* The address book and the dials of the transport (transport/src/core.js  *)
(* dial, dialNow, dialDest, openLink, forgetPeer): a peer is dialed up to  *)
(* connsPerPeer links, one dial at a time, its senders sharing it, while   *)
(* it may be forgotten and added again.                                    *)
(***************************************************************************)
EXTENDS Integers, FiniteSets

CONSTANTS
    Contacts,        \* peers of the address book
    connsPerPeer

ASSUME DialsAssumption == connsPerPeer \in Nat \ {0}

VARIABLES
    addrs,       \* the contacts known
    dialed,      \* by contact: links this node dialed, handshaking or up
    accepted,    \* by contact: links it has accepted, up
    dialing      \* by contact: links the dial in flight has still to open, 0 for no dial

dialVars == <<addrs, dialed, accepted, dialing>>

DialsInit == /\ addrs = {} /\ dialed = [p \in Contacts |-> 0]
             /\ accepted = [p \in Contacts |-> 0] /\ dialing = [p \in Contacts |-> 0]

AddAddr(p) == /\ addrs' = addrs \union {p}
              /\ UNCHANGED <<dialed, accepted, dialing>>

(* forgetPeer: the address goes, and every link. *)
ForgetPeer(p) == /\ addrs' = addrs \ {p}
                 /\ dialed' = [dialed EXCEPT ![p] = 0] /\ accepted' = [accepted EXCEPT ![p] = 0]
                 /\ UNCHANGED dialing

(* dial: the one in flight is shared; else what is missing is opened, as   *)
(* counted now.                                                            *)
Shared(p) == dialing[p] > 0
Missing(p) == connsPerPeer - (dialed[p] + accepted[p])
Dial(p) == /\ p \in addrs /\ ~Shared(p) /\ Missing(p) > 0
           /\ dialing' = [dialing EXCEPT ![p] = @ + Missing(p)]
           /\ UNCHANGED <<addrs, dialed, accepted>>

(* dialDest: the channel is open; a peer forgotten meanwhile wants none,   *)
(* which ends the dial, as no route does.                                  *)
WantedStill(p) == TRUE
StillWanted(p) == p \in addrs
DialOpens(p, found) ==
    /\ dialing[p] > 0
    /\ IF found /\ StillWanted(p)
       THEN dialing' = [dialing EXCEPT ![p] = @ - 1] /\ dialed' = [dialed EXCEPT ![p] = @ + 1]
       ELSE dialing' = [dialing EXCEPT ![p] = 0] /\ UNCHANGED dialed
    /\ UNCHANGED <<addrs, accepted>>

PeerDials(p) == /\ accepted' = [accepted EXCEPT ![p] = @ + 1]
                /\ UNCHANGED <<addrs, dialed, dialing>>
DialedGoes(p) == /\ dialed[p] > 0 /\ dialed' = [dialed EXCEPT ![p] = @ - 1]
                 /\ UNCHANGED <<addrs, accepted, dialing>>
AcceptedGoes(p) == /\ accepted[p] > 0 /\ accepted' = [accepted EXCEPT ![p] = @ - 1]
                   /\ UNCHANGED <<addrs, dialed, dialing>>
-----------------------------------------------------------------------------
(* "one dial per peer at a time" (dial) and "nothing wants this link now"  *)
(* (dialDest): however senders, accepts and losses come between, a peer is *)
(* dialed no more links than it may have, and a peer forgotten while its   *)
(* dial was in flight has none.                                            *)
DialsKept == \A p \in Contacts : /\ dialed[p] + dialing[p] <= connsPerPeer
                                 /\ p \notin addrs => dialed[p] = 0
=============================================================================
