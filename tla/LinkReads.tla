----------------------------- MODULE LinkReads ------------------------------
(***************************************************************************)
(* The inbound half of the link driver: reads from every socket handed to  *)
(* the one transport realm under a driver-wide budget                      *)
(* (WASM/services/link.ts TransportHost; WASM/host/platform.ts tcpChannels *)
(* and native/tcp.go for the read token of a pausable socket).             *)
(*                                                                         *)
(* Reads have one size, so the byte ceiling is the slice ceiling.  Each    *)
(* link's reads are numbered as the platform delivers them.  A local close *)
(* never fires onClose (platform.ts, tcp.go, net-channel.ts).  No link is  *)
(* live while no occupant is bound, so the synchronous end of a read with  *)
(* nothing bound does not arise.                                           *)
(***************************************************************************)
EXTENDS Integers, Sequences, FiniteSets, Functions

CONSTANTS
    ReadLinks,  \* link ids
    Pausable,   \* the links whose adapter has setReadable
    Budget,     \* MAX_INBOUND_HOLD_SLICES
    MaxRawLinks,
    MaxReads,   \* bound: reads delivered per link
    ReadBinds,  \* bound: occupants bound
    MaxStarved, \* bound: entries a resume may leave in line for room
    MaxPaused   \* bound: links the occupant has paused at once

ASSUME LinkReadsAssumption ==
    /\ IsFiniteSet(ReadLinks)
    /\ Pausable \subseteq ReadLinks
    /\ Budget \in Nat \ {0}
    /\ MaxRawLinks \in Nat
    /\ MaxReads \in Nat
    /\ ReadBinds \in Nat
    /\ MaxStarved \in Nat
    /\ MaxPaused \in Nat

VARIABLES
    occupied,   \* an occupant is bound (call !== null)
    binds,      \* occupants bound so far
    readLink,   \* "none", "live" (in the table) or "gone"
    open,       \* links whose channel has not been closed
    closing,    \* links whose channelClosed is queued by link/close
    paused,     \* links the occupant paused
    token,      \* pausable links whose reader may begin another read (readGate)
    coming,     \* reads begun and not yet delivered, on a pausable link
    came,       \* how many reads the platform has delivered on each link
    held,       \* the reads waiting in the driver
    reading,    \* the read in the realm, 0 for none (activeBytes)
    starved,    \* pausable links waiting for room in the budget
    charged,    \* inboundReadSlices
    told        \* history: the last read the realm was handed

readVars == <<occupied, binds, readLink, open, closing, paused, token, coming, came, held, reading,
              starved, charged, told>>

TypeOK ==
    /\ occupied \in BOOLEAN
    /\ binds \in 0..ReadBinds
    /\ readLink \in [ReadLinks -> {"none", "live", "gone"}]
    /\ open \subseteq {l \in ReadLinks : readLink[l] = "live"}
    /\ closing \subseteq ReadLinks
    /\ paused \subseteq ReadLinks
    /\ token \subseteq Pausable
    /\ coming \in [ReadLinks -> 0..MaxReads]
    /\ came \in [ReadLinks -> 0..MaxReads]
    /\ held \in [ReadLinks -> Seq(1..MaxReads)]
    /\ reading \in [ReadLinks -> 0..MaxReads]
    /\ starved \in Seq(Pausable)
    /\ charged \in Nat
    /\ told \in [ReadLinks -> 0..MaxReads]

ReadsInit ==
    /\ occupied = FALSE
    /\ binds = 0
    /\ readLink = [l \in ReadLinks |-> "none"]
    /\ open = {}
    /\ closing = {}
    /\ paused = {}
    /\ token = {}
    /\ coming = [l \in ReadLinks |-> 0]
    /\ came = [l \in ReadLinks |-> 0]
    /\ held = [l \in ReadLinks |-> << >>]
    /\ reading = [l \in ReadLinks |-> 0]
    /\ starved = << >>
    /\ charged = 0
    /\ told = [l \in ReadLinks |-> 0]

LiveLinks == {l \in ReadLinks : readLink[l] = "live"}

-----------------------------------------------------------------------------
(* The budget.  n is what has been charged.                                *)

Spent(n) == n >= Budget

(* reserveInboundRead: whether a read of link l is admitted. *)
Reserves(l, n) == l \in Pausable \/ ~Spent(n)

ResumedOldest(n) ==
    IF Spent(n) \/ starved = << >> THEN {}
    ELSE {Head(starved)} \intersect (open \ paused)

(* The starved links that resume when the charge falls to n: resume()      *)
(* passes over one that is paused or closed.                               *)
Resumed(n) ==
    IF Spent(n) THEN {}
    ELSE Range(starved) \intersect (open \ paused)

StarvedAfter(n) == IF Spent(n) THEN starved ELSE << >>

-----------------------------------------------------------------------------
(* Links.                                                                  *)

(* activate(): the previous occupant's links go first (release, reset).    *)
Activate ==
    /\ binds < ReadBinds
    /\ binds' = binds + 1
    /\ occupied' = TRUE
    /\ readLink' = [l \in ReadLinks |-> IF l \in LiveLinks THEN "gone" ELSE readLink[l]]
    /\ open' = {}
    /\ token' = {}
    /\ coming' = [l \in ReadLinks |-> 0]
    /\ starved' = << >>
    /\ UNCHANGED <<closing, paused, came, held, reading, charged, told>>

(* release(), or close(): nothing is bound and every link is dropped. *)
Unbind ==
    /\ occupied
    /\ occupied' = FALSE
    /\ readLink' = [l \in ReadLinks |-> IF l \in LiveLinks THEN "gone" ELSE readLink[l]]
    /\ open' = {}
    /\ token' = {}
    /\ coming' = [l \in ReadLinks |-> 0]
    /\ starved' = << >>
    /\ UNCHANGED <<binds, closing, paused, came, held, reading, charged, told>>

(* register(): a dialled or accepted channel, whose first read is granted. *)
Register(l) ==
    /\ occupied
    /\ readLink[l] = "none"
    /\ Cardinality(LiveLinks) < MaxRawLinks
    /\ readLink' = [readLink EXCEPT ![l] = "live"]
    /\ open' = open \union {l}
    /\ token' = IF l \in Pausable THEN token \union {l} ELSE token
    /\ UNCHANGED <<occupied, binds, closing, paused, coming, came, held, reading, starved, charged, told>>

(* dropHeld(): what is charged once link l's held reads are released. *)
DropHeld(l, n) == n - Len(held[l])

(* The link leaves the table with its held reads, n being charged before:  *)
(* onClose and failReadSide.                                               *)
Drops(l, n) ==
    LET m == DropHeld(l, n) IN
    /\ readLink' = [readLink EXCEPT ![l] = "gone"]
    /\ open' = open \ {l}
    /\ token' = (token \union Resumed(m)) \ {l}
    /\ coming' = [coming EXCEPT ![l] = 0]
    /\ held' = [held EXCEPT ![l] = << >>]
    /\ charged' = m
    /\ starved' = StarvedAfter(m)

(* The peer or the platform closes the channel: onClose. *)
RemoteClose(l) ==
    /\ l \in open
    /\ Drops(l, charged)
    /\ UNCHANGED <<occupied, binds, closing, paused, came, reading, told>>

(* link/close: the channel is closed now, the table told on a later turn.  *)
CloseLink(l) ==
    /\ occupied
    /\ readLink[l] = "live"
    /\ open' = open \ {l}
    /\ token' = token \ {l}
    /\ coming' = [coming EXCEPT ![l] = 0]
    /\ closing' = closing \union {l}
    /\ UNCHANGED <<occupied, binds, readLink, paused, came, held, reading, starved, charged, told>>

(* ... channelClosed, whose racing callback is a no-op. *)
ChannelClosed(l) ==
    /\ l \in closing
    /\ closing' = closing \ {l}
    /\ readLink' = [readLink EXCEPT ![l] = "gone"]
    /\ UNCHANGED <<occupied, binds, open, paused, token, coming, came, held, reading, starved, charged, told>>

-----------------------------------------------------------------------------
(* Reads.                                                                  *)

(* dispatchRead(): read r of link l goes to the realm. *)
Dispatch(l, r) ==
    /\ reading' = [reading EXCEPT ![l] = r]
    /\ told' = [told EXCEPT ![l] = r]

DispatchNewest(l) ==
    /\ Dispatch(l, held[l][Len(held[l])])
    /\ held' = [held EXCEPT ![l] = SubSeq(@, 1, Len(@) - 1)]

(* The oldest held read of link l goes to the realm. *)
DispatchHeld(l) ==
    /\ Dispatch(l, Head(held[l]))
    /\ held' = [held EXCEPT ![l] = Tail(@)]

(* A pausable socket's reader takes its token and begins a read            *)
(* (waitReadable; on Node the read is one 'data' event of a resumed socket).*)
TakeToken(l) ==
    /\ l \in token
    /\ came[l] + coming[l] < MaxReads
    /\ token' = token \ {l}
    /\ coming' = [coming EXCEPT ![l] = @ + 1]
    /\ UNCHANGED <<occupied, binds, readLink, open, closing, paused, came, held, reading, starved, charged, told>>

(* The platform delivers a read on link l. *)
PlatformReads(l) ==
    /\ l \in open
    /\ IF l \in Pausable THEN coming[l] > 0 ELSE came[l] < MaxReads
    /\ came' = [came EXCEPT ![l] = @ + 1]

(* Whether onData() hands a read over at once. *)
Direct(l) == reading[l] = 0 /\ l \notin paused

(* onData(): a read past the budget fails a link that cannot pause, and so *)
(* does a message, framed by the platform, above MAX_LINK_READ_BYTES.      *)
ReadRefused(l) ==
    /\ PlatformReads(l)
    /\ l \notin Pausable
    /\ Drops(l, charged)
    /\ UNCHANGED <<occupied, binds, closing, paused, reading, told>>

(* ... and otherwise it goes to the realm, or is held behind the read      *)
(* already there or the occupant's pause.                                  *)
Read(l) ==
    /\ PlatformReads(l)
    /\ Reserves(l, charged)
    /\ charged' = charged + 1
    /\ coming' = [coming EXCEPT ![l] = IF l \in Pausable THEN @ - 1 ELSE 0]
    /\ IF Direct(l)
       THEN Dispatch(l, came'[l]) /\ UNCHANGED held
       ELSE held' = [held EXCEPT ![l] = Append(@, came'[l])] /\ UNCHANGED <<reading, told>>
    /\ UNCHANGED <<occupied, binds, readLink, open, closing, paused, token, starved>>

(* The end of releaseRead() with nothing held, n being charged and st      *)
(* starved: the link is read again, a pausable one once there is room.     *)
ReadAgain(l, n, st) ==
    /\ starved' = IF l \in Pausable /\ Spent(n) THEN Append(st, l) ELSE st
    /\ token' = token \union (IF Spent(n) THEN {} ELSE Resumed(n) \union ({l} \intersect Pausable \intersect open))

(* Whether releaseRead() goes on past the occupant's pause. *)
GoesOn(l) == l \notin paused

(* What is charged once releaseActive() has let go of a read. *)
Released(n) == n - 1

(* The realm settles the read it was handed, or fails it on disposal:      *)
(* releaseRead().  Held reads of a link that has gone are dropped, ...     *)
SettleGone(l) ==
    LET n == DropHeld(l, Released(charged)) IN
    /\ reading[l] # 0
    /\ readLink[l] # "live"
    /\ reading' = [reading EXCEPT ![l] = 0]
    /\ held' = [held EXCEPT ![l] = << >>]
    /\ charged' = n
    /\ starved' = StarvedAfter(n)
    /\ token' = token \union Resumed(n)
    /\ UNCHANGED <<occupied, binds, readLink, open, closing, paused, coming, came, told>>

(* ... those of a paused link wait, ...                                    *)
SettlePaused(l) ==
    LET n == Released(charged) IN
    /\ reading[l] # 0
    /\ readLink[l] = "live" /\ ~GoesOn(l)
    /\ reading' = [reading EXCEPT ![l] = 0]
    /\ charged' = n
    /\ starved' = StarvedAfter(n)
    /\ token' = token \union Resumed(n)
    /\ UNCHANGED <<occupied, binds, readLink, open, closing, paused, coming, came, held, told>>

(* ... and the oldest goes next, or the link is read again.                *)
SettleNext(l) ==
    LET n == Released(charged) IN
    /\ reading[l] # 0
    /\ readLink[l] = "live" /\ GoesOn(l)
    /\ charged' = n
    /\ IF held[l] # << >>
       THEN /\ DispatchHeld(l)
            /\ starved' = StarvedAfter(n)
            /\ token' = token \union Resumed(n)
       ELSE /\ reading' = [reading EXCEPT ![l] = 0]
            /\ ReadAgain(l, n, StarvedAfter(n))
            /\ UNCHANGED <<held, told>>
    /\ UNCHANGED <<occupied, binds, readLink, open, closing, paused, coming, came>>

Settle(l) == SettleGone(l) \/ SettlePaused(l) \/ SettleNext(l)

(* link/pause. *)
Pause(l) ==
    /\ occupied /\ Cardinality(paused) < MaxPaused
    /\ readLink[l] = "live"
    /\ l \notin paused
    /\ paused' = paused \union {l}
    /\ UNCHANGED <<occupied, binds, readLink, open, closing, token, coming, came, held, reading, starved, charged, told>>

Unpause(l) ==
    /\ occupied
    /\ readLink[l] = "live"
    /\ l \in paused
    /\ Len(starved) < MaxStarved
    /\ paused' = paused \ {l}
    /\ IF reading[l] # 0
       THEN UNCHANGED <<token, held, reading, starved, charged, told>>
       ELSE \/ /\ held[l] # << >>
               /\ DispatchHeld(l)
               /\ UNCHANGED <<token, starved, charged>>
            \/ /\ held[l] = << >>
               /\ ReadAgain(l, charged, starved)
               /\ UNCHANGED <<held, reading, charged, told>>
    /\ UNCHANGED <<occupied, binds, readLink, open, closing, coming, came>>

-----------------------------------------------------------------------------
ReadsNext ==
    \/ Activate
    \/ Unbind
    \/ \E l \in ReadLinks :
         \/ Register(l)
         \/ RemoteClose(l)
         \/ CloseLink(l)
         \/ ChannelClosed(l)
         \/ TakeToken(l)
         \/ Read(l)
         \/ ReadRefused(l)
         \/ Settle(l)
         \/ Pause(l)
         \/ Unpause(l)

(* The realm settles every read it is handed (its entry deadline), and the *)
(* microtasks run.                                                         *)
ReadsFairness == \A l \in ReadLinks : WF_readVars(Settle(l)) /\ WF_readVars(ChannelClosed(l))

ReadsSpec == ReadsInit /\ [][ReadsNext]_readVars

ReadsFairSpec == ReadsSpec /\ ReadsFairness

-----------------------------------------------------------------------------
(* Properties.                                                             *)

Outstanding(l) == (Range(held[l]) \union {reading[l]}) \ {0}

(* No read is lost, repeated, out of order or wrongly charged: whatever is *)
(* held of a link is the contiguous run that follows the last read handed  *)
(* over, and the budget counts exactly the reads in the realm and in the   *)
(* driver, so it drifts neither up, starving the node, nor down, whichever *)
(* way reads end (dispatchRead, releaseActive, dropHeld).                  *)
ReadsKept ==
    /\ charged = Cardinality({p \in ReadLinks \X (1..MaxReads) : p[2] \in Outstanding(p[1])})
    /\ \A l \in ReadLinks : readLink[l] = "live" =>
         held[l] = [i \in 1..(came[l] - told[l]) |-> told[l] + i]

(* A pausable link that is idle is read again: no finished read, pause or  *)
(* release, and no wait for room in the budget, leaves it unread for good, *)
(* unless the occupant pauses some link, whose reads may keep the room     *)
(* (releaseRead, resume).                                                  *)
ReadAgainInTime ==
    \A l \in Pausable :
       (l \in open /\ reading[l] = 0 /\ held[l] = << >>)
          ~> (l \in token \/ coming[l] > 0 \/ l \notin open \/ paused # {})

(* "Reservations release when the dispatched call settles or held input is *)
(* dropped" (docs/RUNTIME.md): a link that is gone, with nothing left in   *)
(* the realm, holds none.  Refuted: see "Seen while modelling" in README.  *)
ReservationsReturn ==
    \A l \in ReadLinks : readLink[l] = "gone" /\ reading[l] = 0 => held[l] = << >>
=============================================================================
