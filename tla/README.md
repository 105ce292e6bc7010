# seedkernel, in TLA+

A verification project for seedkernel: a small host that boots from one file,
confines signed app bundles in realms of their own, carries their messages over an
authenticated transport that is itself a bundle, and updates itself from blobs an
app stages. The modules here model the parts of it whose correctness depends on the
order things happen in. TLC checks them on small instances; TLAPS proves the safety of
the host loader, the shell, the realm, the outbound and datagram halves of the link driver,
the transport's realm, its UDP paths and its stream for every value of their constants.

Paths below are relative to the repository: `host/` is `WASM/host/`, `services/` is
`WASM/services/`, `transport/` is `WASM/transport/src/`, `native/` is `native/`.

## 1. Inventory

| part | state it keeps | operations | how it interacts |
|---|---|---|---|
| **host loader** (`host/slots.ts`, `loader-node.ts`, `native/main.go`, `hostslots.go`) | `committed.skb`, `pending.skb`, the mark `tried`; in memory the trial, `serving`, `bootAfterFlow`, the boot count, health timers | choose, stage, ended, failed, commit | boots a host blob; the host stages its successor; the driver (Node or native) restarts in place |
| **shell** (`host/shell-core.ts`, `slot-table.ts`, `policy.ts`) | slots, the two claim books, the holder of `link`, open seams | install, replace, uninstall, revoke, close, boot | awaits admission, modules and a realm between its checks and its commit; activates the link driver |
| **freshness store** (`host/bundle.ts`) | version marks, revoked authors, their file | set, revoke, reload | asked before an install loads and again before it commits |
| **realm queue** (`host/realm-queue.ts`) | a FIFO of entries, the occupant, two deadline queues with one timer each | call, enterNext, release, expire, settleByDeadline | one guest turn at a time per realm |
| **realm engine** (`host/engine-realm.ts`, `native/qjs/csrc/realm.c`) | open invocations, parked host calls, the C ledger of them | invoke, hostCall, settle, dispose | turns come from the queue, host calls leave to services |
| **link driver** (`services/link.ts`, `host/platform.ts`, `native/tcp.go`) | links, reads held and in the realm, the inbound and outbound budgets, starved links, sockets for datagrams | open, read, pause, close, activate, release | hands socket events to the one realm that holds `link` |
| **transport** (`transport/core.js`, `router.js`, `ake.js`, `direct.js`, `relay.js`, `udp.js`, `stream.js`) | per peer the pool of links, held links, dials, address book; per link handshake progress, queue, work chain, keys; requests by correlation; negotiations; UDP streams | dial, handshake, promote, retire, send, close, request, respond, upgrade | runs in its realm, through the link driver, against another node's transport |
| **module table** (`host/module-table.ts`) | per module a worker, the call it was given, the queue behind it | build, call, deadline, reload, teardown | a slot's pure modules on worker threads |
| **realm timers** (`services/timer.ts`) | one replaceable wake per realm | arm, fire | wakes the transport for its earliest deadline |
| **file store, seam, control socket, channels** | small tables | see their sources | services a realm calls |
| **cryptography, encodings, engine binding, build scripts** | none, or memory layout | pure functions | used as ideal operations |

What is hard here: nothing runs in parallel inside a host, but almost every operation
awaits something in its middle, so its checks may be stale when it commits; deadlines,
answers and disposal race to settle the same promise; the loader must survive a crash
between any two file operations, and on Node keeps several boot loops alive at once;
and two nodes must agree, without asking, on which of their links to keep while records
are in flight on all of them. `PROJECT.json` lists these hazards line by line with the
properties that would catch them.

For each part, what makes it correct:

* loader: never run below the committed version; try a blob once; drop it only for
  cause; commit only what served through its window;
* shell: books equal to the installed manifests, nothing left behind by a failed or
  overtaken install, guards that neither a race nor a crash can rewind;
* realm: one invocation inside at a time, every caller settled once and in the end,
  each continuation resumed once;
* link driver: an exact budget, reads in order, nobody left unread;
* module table: a call answered by the worker it was given to, none left running;
* transport: no record lost or doubled by the tie-break or a change of path, both ends
  on the same links, a deliberate close that delivers what came before it; every request
  settled once, every deadline woken for, every slot and socket given back; a direct path
  both ends agree on, and a stream on it that is a byte stream.

## 2. Modules

| module | models | run by | proofs |
|---|---|---|---|
| `HostLoader` | `class Loader` and both drivers | itself | `HostLoaderProofs` |
| `DeadlineQueue` | `createDeadlineQueue`, as operators on a queue | through `Realm` | |
| `Realm` | `serializeCalls`, `settleByDeadline`, `engine-realm.ts` | `MCRealm` | `RealmProofs` |
| `Shell` | `bootShell`, the slot table, the freshness store | `MCShell` | `ShellProofs` |
| `ModuleTable` | `module-table.ts` and `moduleSet` on worker threads | itself | `ShellProofs` |
| `LinkReads` | the inbound half of `TransportHost` | itself | `LinkDriverProofs` |
| `LinkWrites` | the outbound budget, over the native dial and writer goroutines | through `LinkDriver` | `LinkDriverProofs` |
| `Datagrams` | the datagram sockets of an occupant, on Node and native | through `LinkDriver` | `LinkDriverProofs` |
| `LinkDriver` | the two composed: one occupant has both, and they go together | `MCLinkDriver` | `LinkDriverProofs` |
| `PeerLinks` | `Core`, `Router`, `Link`, `Direct` of two nodes | `MCPeerLinks` | |
| `Requests` | `ReqRes`: correlations, the relay window, the delivery window | through `Core` | `CoreProofs` |
| `Wakes` | `wakeBy`, `arm`, `onWake`, and `services/timer.ts` | through `Core` | `CoreProofs` |
| `Relays` | `relay.js`: the home relay, redials, calls | through `Core` | `CoreProofs` |
| `Limiter` | `LinkLimiter` and the links that hold its slots | through `Core` | `CoreProofs` |
| `Dials` | `dial`, `dialNow`, `dialDest`, `forgetPeer` | through `Core` | `CoreProofs` |
| `Framing` | `framing.js`: both codecs, and the message each read completes | through `Core` | `CoreProofs` |
| `Core` | these six in one realm, `Relays` waking by `Wakes` | `MCCore` | `CoreProofs` |
| `Negotiations` | `direct.js` and the sockets of `udp.js` at one node | `MCNegotiations` | `UdpPathsProofs` |
| `UdpPaths` | `UdpNegotiation` at both ends: punching, challenges, following | `MCUdpPaths` | `UdpPathsProofs` |
| `UdpStream` | `stream.js`, one direction between two ends | `MCUdpStream` | `UdpStreamProofs` |
| `ByteStream` | what a stream promises the link above it | refined by `UdpStream` | `UdpStreamProofs` |
| `Sums` | the sum of a sequence of numbers, for `LinkWrites`, `Datagrams` and `Requests` | | `SetLemmas` |

A module that several behaviours start from takes its bounds from the initial state:
`left`, chosen from the constant `Bounds` (`negLeft` and `NegBounds` in `Negotiations`),
counts what the environment may still do, and each `MC` module lists the scenarios. One run then asks its question of all of them. Modules
whose constants are plain numbers and sets are run by their `.cfg` alone ("itself" above).
`LinkReads`, `Negotiations` and `ModuleTable` name their specifications apart (`ReadsSpec`,
`NegotiationsSpec`, `ModuleTableSpec`), because the module with their proofs extends a
second component too.

### HostLoader

The disk is `committed`, `pending`, `tried`; the record `m` is the process's memory and
is lost in a crash. A method of `Loader` runs uninterrupted, so it is one action, but
each action also has the outcomes in which the process dies between two of its file
operations, or a read, a write or (`RemoveMayFail`) a removal fails. `Choose` is
`choose()` followed by the driver's boot of its answer, and is part of every action that
boots: `Start`, `Restart`, `FlowEnds`, `Failed`. A boot is named by the value of `gen`
it got. On Node the boot loop that awaits a replaced host's flow lives on, so `flows` is a
set there; the native driver has at most one. `fate` and `dropped` are history: what
became of the blob that `pending.skb` holds, and why the last one left.
A blob is its version and ABI. The fixed `--host` mode and the arguments are left out.

### Realm and DeadlineQueue

Calls are numbered as they are made. A queued microtask or promise reaction is implied
by the state that queued it (`pumping`, `yields`, an invocation `"answered"`, a host call
`"late"`), and they run in any order, which includes the engine's. The clock is a
counter; a timer set for `t` may fire at any later tick. A guest turn takes no model
time; it may answer itself or a deferred invocation, park on a host call, fault, be
interrupted, or trap. Each invocation makes at most one host call. The byte and call
ledger of `realm.c` is not in the model.

### Shell

An install is a process in phases separated by the awaits of `installBundle`: admission,
modules, realm. All of its checks and commits between two awaits are one step. A slot
is named by the install that made it. A candidate is a verified bundle; that its modules
build, its realm stands and its mark can be written are choices. `Crash` loses memory and
`Boot`/`BootTransport` read the store back.

### ModuleTable

A module is its present worker and the call that worker was given; calls of one module
queue behind each other, and a call that finds no worker loads a fresh one under the
load's own deadline. Workers are the environment's: a message a worker posted may
arrive after it was killed, which `Current` (the identity check in `onmessage`) is for.

### The link driver: LinkReads, LinkWrites, Datagrams, LinkDriver

In `LinkReads` each link is idle, live or gone; `held` and `reading` are its reads in the
driver and in the realm, `charged` the driver's counter of them, `token` and `coming` the
read gate of a pausable socket in `tcp.go`. Closing is two steps where the code queues
`channelClosed`. Reads have one size, so the byte ceiling is the slice ceiling.

`LinkWrites` has the charges of `LinkOutboundOwner` per link and for the node beside the
socket itself: its queue, the batch the writer has taken, the backlog counter and the
dial. The writer and the dial are goroutines, each critical section or system call an
action; a send is two actions, the write and the report of the drain after it, with the
writer free to run between them. `Datagrams` has each socket's bind, its answer, the
driver hearing of it, the datagrams held by the platform and by the driver, and the one
`datagrams` event in the realm; `socketGen` tells occupants apart, as in the code.

### PeerLinks

Two nodes, `"a"` the smaller identity. What a node's code changes in one turn is one
record, and the methods of `Core`, `Router` and `Link` are operators on it
(`Promotes`, `Removes`, `Forgets`, `Ends`, ...), called from each other as in the source. A
link is a FIFO wire each way and, at each end, a pre-auth queue and a work chain:
`SealRecord` puts its next record on the wire, `Teardown` is the chain's last step,
which says goodbye and closes the channel. A channel closed without a goodbye, or cut,
loses what it carried. A handshake step is atomic: what the awaits inside it could let
in (a close, a deadline) is modelled before or after it. Peers are honest, so nothing
is refused, and rekeying is left out. `sent`, `failed`, `dropped`, `via`, `parted` and
`broken` are history.

### Core: Requests, Wakes, Relays, Limiter, Dials, Framing

`Core` is the rest of the transport's realm at one node, a step being one turn of it or
of its host. `Requests` takes routes as its environment: a peer is reached directly,
through relays, or not at all; while only relays reach it, requests past the window are
held and go as others settle. Requests of peers are delivered under weights counted per
peer and in all, as the code keeps them. `Relays` keeps one link to each origin and a home relay
dialed again after a wait; its redial is one of the deadlines of `Wakes`, whose arms the
host answers in order and may refuse, at once or later, with `owedAt` remembering what
was refused. A wake the host has handed over may be dropped before the realm runs it
(`WakeDropped`), and `lost` records that the realm's latest arm went with it. `Limiter` moves accepted links through its three tiers, evicting the stalest
of a full one. In `Dials` a peer may be forgotten and added again while its one dial is
being opened.

`Framing` is one direction of one link: the peer's framer, the units of the stream as they
are cut into reads, the reading framer with its awaits (an unmasking, a pong, the step that
handles a message), and the work chain behind it. A frame is its head and its payload's
units; a message may be fragmented, pinged between, too long for the cap that stands, or
followed by a close.

### Negotiations and UdpPaths

`Negotiations` is one node's: upgrades asked for by authenticated relayed links, signals
of peers queued one at a time, openings the host answers later, birthday sockets bound a
few at a time and the node's budget of them, and every way a negotiation ends. An opening
comes to a negotiation, to none (`OpenFails`), or, for `rtc:` links, to a refusal by the
host-call budget that leaves the peer's entry as it was (`OpenRejects`, stage `refused`).
Whether its path is found is a choice there. `UdpPaths` is two ends finding it: routes stand for
pairs of addresses, an end behind a hard NAT has a socket on each, challenges and answers
may be lost, late or out of order, and an end that hears its peer from elsewhere follows
it. Answers to a challenge that a later move has replaced leave the network with it, since
`udp.js` ignores them by their challenge; that comparison itself is thus not tested. Of times only `FOLLOW_MS` counts.

### UdpStream and ByteStream

One direction, writing end `s` and reading end `r`, over a bag of datagrams that are lost,
repeated and reordered, on a path that may carry only small packets, move or die. A byte
of the model is what a packet of `BASE_PACKET` carries. Packet numbers, chunks and their
splitting, acks as ranges, loss by packets passed and by time, probe timeouts, the search
for the packet size, credit, reassembly, the decoding reader, and both closes are
modelled; when a timer fires is a choice, and each flush meets some congestion window.
`ByteStream` is the abstract specification: bytes are handed to the reader once each and
in order, and all of them unless the reading end stops. `IsByteStream` is the refinement,
under the mapping `written <- s.written`, `got <- r.got`, `over <- r.gone`.

## 3. Runs

| run | instance | what it shows |
|---|---|---|
| `native_next` | native loader, `--host-updates next`, two ABIs, three versions | The floor never falls through loader upgrades and crashes; a blob is tried once, dropped only for cause, committed only after its own flow ended serving. |
| `node_now` | Node loader, `--host-updates now` | Queued restarts, several boot loops and late flows interleave, and nothing below the floor boots. |
| `hostcalls` | two calls with 0-2 ms or no deadline, host calls of 1 ms or without one, late timers, faults, traps, disposal | The realm is held by one and never idle before a waiting call; a continuation runs at most once; a call with a deadline, and on disposal every call, is settled. |
| `shell` | four installs of four bundles (two transports, an app in two versions, all after one claim) on a table of two | Overlapping at every await with uninstalls, revocation, close, crash and reboot, the books equal the manifests, nothing is left behind and the guards hold. |
| `modules` | two modules, three calls, five workers | A call is answered by its own worker, no worker is left after teardown, and every call is answered. |
| `reads` | three links, two pausable, a budget of two reads, two occupants, pauses | No read is lost, reordered or wrongly charged, and a link left idle or waiting for room is read again. |
| `driver` | two links written past every limit; one that fails and is replaced with its occupant; three sockets of two occupants, on either platform | The budget covers what the platform holds and, but while a closed link is still in the table, refuses for nothing else; a graceful close flushes; occupants are kept apart; every close comes to rest. |
| `peer` | two nodes, two links of any kind, two frames, one cut, abort, idle close or forgotten peer at any point | No record is lost by the tie-break or the handover or arrives twice, a deliberate close delivers what came before it, and once quiet both ends route over the same links. |
| `core` | three requests over changing routes; six from peers; two homes, a call and a lost link; refused arms and dropped wakes; a refused open; four accepted links; a peer forgotten and added again while dialed; three messages framed by either codec, pinged, closed or broken between | Each request is settled once and none stranded, no peer starves another, the home relay is linked or due, one link per origin, a wake comes for every deadline unless the host dropped the last one, slots are given back once, a forgotten peer keeps no link, and a peer's messages are handled in order however they are cut into reads and fragments. |
| `negotiations` | two peers, three negotiations, a budget of three birthday sockets | Sockets and the budget come back however a negotiation ends, a peer's entry is being opened, is recorded or was refused by the host, and each negotiation but a refused one comes to a link or to its end. |
| `paths` | two routes, punching plainly or at a hard NAT, losses, a rebind, a close | A path is taken only on an answer to its own challenge, and the ends settle on one route. |
| `stream` | three or four bytes, with a loss, a repeat, a move, a worsening path, an early timer or a close | The stream implements `ByteStream`, a drained close left everything at the other end, and neither end outlives the other. |

Deadlock checking is off where the system may stop: all bounded models end once their
bounds are used up, a closed node stays closed, and quiet nodes have nothing to do. In
`HostLoader` a process can always be started, so there it is on.

**Bounds.** Three versions let a committed host, one on trial and its successor exist
at once, and four boots let a successor be tried after a failed trial with one to
spare. Two calls are enough for every race the realm has: a holder and a waiter, or a
deferred invocation and its successor; the clock outlives the longest deadline by the
lateness of a timer. Two slots and four installs put a replacement, its target, a rival
for the same claim and a second generation after a restart in one behaviour. Two reads
per link put one in the realm and one held, and a third link lets one open in the place
of another. Two links make a double connect and a move from a relayed link to a direct
one. Three requests are one on the relay, one held behind it and one that a direct link
lets go at once; six deliveries fill a window that leaves room for one. Three messages are
the two of a handshake, under caps of one and then two units, and the record right behind
them. `core` is checked up to a renaming of peers, origins, keys and sources, which nothing
in the model tells apart. Three writes of
up to two bytes against limits of three bytes and two writes, for a link and for the node,
reach each limit: on one link its own, on two the node's. Three negotiations make an offer, its rival and a successor; a budget of three
cannot hold two birthdays of two. Three bytes give a gap, a packet behind it and an ack
of ranges; four let a probed packet of two be split while its first copy is under way.
The credit is at its cap from the start; its doubling is in the model and in the proofs alone.
`MaxQueue` is one, so a full pre-auth queue happens. The paths' `MaxFlight` of one bounds
datagrams of one kind on a route, which a second would only repeat.

**Fairness.** `Realm!FairSpec` assumes only the clock, timers and microtasks of the event
loop; no guest is obliged to answer and no handler to settle. `LinkReads!ReadsFairSpec`
assumes that a read handed to the realm settles, which is what `EveryCallSettles` says of
the realm's entry deadline, and that microtasks run. `LinkDriver!FairSpec` assumes that
goroutines that can run do, a dial ends, and the turns already queued are taken.
`NegotiationsFairSpec` assumes what the host is asked answers, deadlines pass, and a data
link authenticates or ends, which its own link's deadline makes it do. `ModuleTableSpec`
assumes that turns are taken and deadlines pass; no worker need ever answer.
`UdpStream!FairSpec` assumes that what is under way arrives or is lost, the reader
finishes what it decodes, and a timer that is set goes off. `UdpPaths!FairSpec` assumes
rounds of probes while an end has no path, the signalling link, data sent by a stream
that has some, datagrams arriving or lost, and, strongly, a pause longer than `FOLLOW_MS`
with nothing under way (`Quiets`): what ends an exchange of paths is that pause. The
two streams may break such a silence at one moment only as often as the bound `cross`
says (`Crosses`): `FOLLOW_MS` is a rule of time, and without that bound TLC shows the two
ends swapping paths for ever, each time by packets that cross again. No fairness excludes
losses beyond the scenario's bound on them.

**Mutants.** Every property of every run has a mutant: a plausible slip in the code (a
dropped guard, a missing reset, a swapped order), written beside the operator it changes,
with which TLC finds the property violated.

## 4. Proofs

Each theorem holds for every value of the constants that the named `ASSUME` of the module
allows (`TLC` evaluates them in the runs), and for any bounds. An invariant a run checks is
seldom inductive; what had to be added is said with each. A preservation proof has one step
per action, and under it one lemma per operator the action is built from.

**Host loader** (`HostLoaderProofs`), for every set of versions and ABIs:

* `TypeCorrect`: `Spec => []TypeOK`;
* `FloorHolds`: `Spec => []RunningAtOrAboveFloor`. The step that commits needs to know that
  the host on trial is the one running, of this loader's ABI and above the committed one;
  `FloorInv` adds that. `FloorRises`: `Spec => FloorNeverFalls`, from the same invariant;
* `TrialRunsOnce`: `Spec => TriedOnce`, for the native driver with removals that do what
  they are asked (`Target = "native"`, `~RemoveMayFail`). It rests on `Marked` (a blob
  whose run began carries the mark on disk until the blob is gone, which is the order of
  the two removals in `clearPending`) and on `OneFlow` (the native driver awaits no flow
  but the last boot's). On Node a late flow can clear the mark, and the theorem fails;
* `CommitsServe`: `Spec => CommittedAfterServing`, for the native driver. `Healthy` adds that
  a health timer runs only for a boot whose own flow ended serving, and that no flow is
  awaited while one serves or is to restart. On Node it is refuted (section 5);
* `DropsForCause`: `Spec => []DroppedForCause`, for the native driver, removals that do not
  fail and `Mode # "now"`. `CauseInv` adds that a blob that waits for its trial is not
  marked and that one staged by the host on trial is newer than it, which is how
  `holdsPending` tells them apart. Under `now` it is refuted (section 5).

**Shell** (`ShellProofs`), for any bundles, any number of installs and any crashes:
`BooksHold`, `NothingLeaksHolds`, `GuardsAlwaysHold` and the action property
`StoreNeverRewound`. `ShellInv` is the three invariants with `Phased` (an install is a slot
exactly while its phase says so, and a node that is down has none) and `Occupied`: each of
the three needs the others, since a commit is sound only because the gates are asked again
after the last await.

**Module table** (`ShellProofs`, whose slots these modules belong to), for any finite set of
modules, any number of calls and of workers: `AnsweredByItsOwnHolds` and `NoWorkerLeftHolds`.
`ModInv` is about the set (`SetOK`: calls are made of a built set only, and
a released module has neither worker nor call), the modules (`RefOK`: a module's worker is one of
its own, and its call one that runs), the calls (`Runs`, `Awaits`, `InTurn`: a call runs on its
module's present worker, or waits for a load under way, with those before it answered) and the
workers. Of these, `Says` is what late messages need: a result not yet read, posted by the worker
its module has now, is of the one call that runs, and any other worker's is read by nobody.
`Held`, `Loads` and `Wanted` are what a teardown needs: a live worker is its module's, and one
whose spawn or load is under way is known to the first load or to a call, which will find the
module released and kill it.

**Realm** (`RealmProofs`), for any number of calls, deadlines and handlers:
`NoIdleWaitHolds`, `ExclusiveHolds`, `ResumedOnceHolds`, and `DeadlinesHold`, the safety half
of `EveryCallSettles`: every deadline promised is in its queue, whose one timer goes off at
most a tick late. `RealmInv` adds `Ordered` (the queue holds calls once each, a queued
release names an entry that has held the realm) and `Unresumed` (a host call still parked
has not been resumed), without which a stale release could let a second holder in.

**Transport's realm** (`CoreProofs`): `DialsHold`; `HomeHolds`, where `RelayInv` adds that an
origin's entry is a link to that origin that is not gone, so that a loss is either the home
relay's, and a redial is due, or no concern of its; `WokenHolds`, where `WakeInv` adds that
the earliest time asked of the host is its latest arm, under way to it, owed, or else that of
a wake handed over or lost with nothing armed since (`ArmOK`), and that every deadline is
covered by one of these; and `SlotsHold`, for tiers of
any size, none included. `LimiterInv` adds that a slot is released exactly when its link is
down, by which an eviction and the end it brings (`EndsIs`) give the slot back once, and
that a source is charged for at least the slot being given back. Three more, for any peers,
sizes, windows and messages:

* `RoomHolds`: `DeliveryInv` says that the weights counted, per peer and in all, are the sums
  of those of the requests that wait, and that each peer leaves the weight of one largest
  request free;
* `RequestsHold`: `RequestsInv` says of each peer's window (`WindowOK`) that it counts no more
  than the relay carries unanswered, that what is held waits in it, that its bytes are not
  zero while something is held, and that it is open only while the route is relayed. So
  whatever is held has a request ahead of it whose end lets it go;
* `FramesHold`: `FramingInv` says that the units buffered and under way are those of whole
  frames (`CutInto`), and that `Runs`, an automaton that takes one frame at a time, leads the
  reading end from what it has handled through the line and what its peer has yet to put to
  all that was sent. A frame is measured by a cap that is enough for it (`CapEnough`), because
  the framer stops at each message of the handshake until it has been handled.

**UDP paths** (`UdpPathsProofs`): `PathAnsweredHolds`. That an end's path was answered is not
inductive: an answer under way must be one to the challenge its end now holds
(`AcksHonoured`), which each new challenge re-establishes. It uses that the name for no
path is not a route (`PathsAssumption`).

**Negotiations** (`UdpPathsProofs`, whose paths these negotiate), for any peers, budget
and number of negotiations: `BudgetExactHolds` and `NothingLeftHolds`. `NegInv` says of each
negotiation (`NegOK`) that the sockets it has, with those it has yet to bind and those being
bound, are at most its own and what it reserved, that a dead one has neither and one on a path
keeps one socket and no reservation (`SocketsOK`), and that one whose opening was answered is recorded or gone, and recorded while
it lives (`RecordOK`); that each peer's entry is one of its own that is
not gone; and that the budget is whole. Reserving once is part of it: `asked` only behind a hard
NAT and `spraying` only towards one, so that one field serves for both reservations.

**UDP stream** (`UdpStreamProofs`): `StreamSafe`, `Spec => Bytes!Init /\ [][Bytes!Next]_...`:
every step of either end, of a timer or of the network is a step of `ByteStream` or a
stutter. `StreamInv` says that each chunk, lost or under way or in a packet, is cut from
bytes that have been written, and that what the receiver holds ahead starts behind what it
has handed over; it says nothing of packet numbers, windows or timers, so no fault in those
can make the stream anything but slow. `StreamRefines` puts it as the refinement the run
checks: with the abstract progress condition `Bytes!Progress`, which is liveness and is
shown by the run alone, `IsByteStream`.
`DrainedHolds`, `Spec => []DrainedReceived`, does need the packet numbers: `LinkInv` says that
while both ends live they agree (`Agree`). Each byte ever cut is with the reading end or in a
chunk the writing end still has (`Covered`); an ACK under way, or about to be sent, names only
packets in flight whose chunk the reading end has, as far as it has not been split off since
(`Known`); two chunks of two bytes never overlap in one (`Apart`), and the gap the reading end
waits at is neither where a chunk past it starts nor inside one (`Past`). The last two are what
makes it right to drop a chunk as known by its offset alone, and with no chunk left they put
the gap at the last byte written.

**Link driver** (`LinkDriverProofs`), for any number of links, sockets, occupants and writes:

* `ChargedHolds`: `WritesInv` relates each link to its channel; what a writer takes off the
  channel is reported later, so charges may only exceed what it holds;
* `FlushedWholeHolds`: `Flushes` counts a write as on the wire, in the writer's batch or in
  its queue, wherever the writer stands, until a hard close or a failed write;
* `OccupantsApartHolds`: `SocketsInv` (an open socket is the occupant's, awaited or closing),
  `HeldInv` (the native count is the sum of what the sockets hold) and `EventsInv`, which
  adds that no read is due while one is in the realm, that events are of occupants there
  have been, and so that a new occupant has none;
* `RefusedWhenFullHolds`: `HoldsInv` says what a channel holds and not only how much: until
  the occupant closes it, the last of the writes charged to its link, or nothing once it is
  dead. A report therefore leaves charged exactly what the channel holds (`SettledTo`), and
  the sums over the table are those over the channels when the sweep has been round;
* `ReadsHold`, about `LinkReads`: `ReadsInv` says of
  each link (`ReadsOK`) that the realm has the read last handed over or none, that what is held
  is the run after it, of a gone link too, and that nothing is held behind an idle realm but by
  a pause, which is why a read may go straight through; and what is charged is the number of
  all the links' outstanding reads, which changes as one link's does (`PairsMove`).

`SetLemmas` has what these share: least and greatest elements, and how the sum of a sequence
changes when an element is replaced, appended, removed or taken off the front, when the
sequence is split, and when each element is at most another's. A sum over a fold
could not be proved about; `Sums!SumSeq` is a recursive function, and its lemmas follow from
the least place at which two such functions would differ.

Only model-checked:

* liveness (`EveryCallSettles`, `ComesToRest`, `PathsMeet`, `BothEnd`, `Bytes!Progress` and
  the other temporal properties of the runs), which is outside what the proof system
  handles here, as are `ENABLED` and induction over data;
* `PeerLinks` (`NoRecordLost`, `FarewellArrives`, `RoutesAgree`): what it promises is about the
  records left in the queues of two nodes after folds and filters (`SelectSeq`) have been over
  them, and what such a fold leaves needs induction over the sequence.

## 5. Seen while modelling

Statements of the repository that the code does not keep. Each has a configuration of its
own, under which TLC finds the named formula violated; they are run by hand.

| configuration, formula | statement | what happens |
|---|---|---|
| `HostLoader_native_now_dropped`, `DroppedForCause` | `docs/RUNTIME.md:428` "A blob it staged meanwhile stays pending for a trial of its own" | A host on trial stages a successor during its flow, and the flow then fails. `failed()` (`slots.ts:201`) leaves `bootAfterFlow` set; the next boot tries the successor, and the end of its flow reboots at once, before any health window, and `choose()` drops the blob as tried. |
| `HostLoader_node_now_served`, `CommittedAfterServing` | `host/slots.ts:10` "committed only after a health window it served through" | On Node a failure restarts (`loader-node.ts:93`) while the failed host's flow is still awaited. When that flow ends, `ended()` arms the timer for whatever boot is current, and a host whose own flow never ended is committed. |
| `LinkReads_leak`, `ReservationsReturn` | `docs/RUNTIME.md:339` "Reservations release when the dispatched call settles or held input is dropped" | A link closed locally, or dropped with its occupant, while paused over a held read, with none in the realm, has nothing to settle (`link.ts:558`) and gets no `onClose`: its read stays charged. The shipped transport does not use `link/pause`. |
| `MCUdpStream_small_packets`, `HonestSpared` | `stream.js:21` "a reader still decoding the last read stops the sender" | `onChunk` (`stream.js:333`) also fails the stream once the slices held, at `MIN_CHUNK` each, pass two credits, and `flush` sends every small write as a packet of its own: a sender of packets under half of `MIN_CHUNK` that keeps to its credit is cut off, not stopped. |
| `MCUdpStream_farewell`, `FarewellRead` | `docs/TRANSPORT.md:118` "a frame sent and a peer forgotten right after still arrives" | On a UDP path `close(true)` waits only for acks (`stream.js:246`), which the far end gives for bytes it holds while its reader is decoding; the `CLOSE` that follows makes it fail, and those bytes are not handed over. |
| `MCNegotiations_two_upgrades`, `OffersInOrder` | `direct.js:5` "A node offers the first it has, and the next when the peer declines" | `upgrade` checks `byPeer` before it awaits the sid and not after (`direct.js:109`), so two upgrades of a peer both open; the first finds itself replaced, takes that for no route, goes on to `rtc` and replaces the second in turn. |
| `MCCore_refused_open`, `RedialDue` | `relay.js:180` "Resolves once registered there, or once that attempt has failed and a redial is due" | A relay link whose open the host refuses (`relay.js:93`, `217`) stays in `conns`, not gone and with no channel; later joins and calls at that origin wait on it and no redial is due. |
| `MCCore_ws_goodbye`, `ClosedBehind` | `docs/TRANSPORT.md:118` "a frame sent and a peer forgotten right after still arrives" | Over WebSocket framing a peer's CLOSE frame makes the reading framer refuse the stream at once (`framing.js:328`), and messages still on the link's work chain are dropped (`ake.js:509`). `PeerLinks!FarewellArrives` is about channels whose codec has no close of its own. |

And, with no configuration of their own:

* Loader: on Node each staging queues a restart, so two stagings in one turn end the
  first trial at the second restart; the native health timer may fire between a host's
  failure and `main` hearing of it, and commits; `clearPending` ignores a removal that
  failed, after which the blob is tried again; only `ended()` drops a completed `--op`,
  so one that ran in a flow which then failed runs again under the committed host; a
  failed commit leaves the mark, and the next start drops a healthy host.
* Deadline queue: `add` leaves the timer for a deadline less than a tick earlier, so the
  earlier one is late by up to that tick.
* Modules: tearing the set down while a call reloads its worker settles that call only
  at the load's deadline (`module-table.ts:311`), never when that is infinite.
* Writes: what is sent on a link the occupant has closed gracefully, before the driver takes
  it out of the table on a later turn, is charged and dropped by the channel, where
  `link.ts:184` has the backlog a suffix of what was admitted. Until that turn a write on
  another link may be refused though the channels have room, which is why `RefusedWhenFull`
  speaks of moments when no link in the table is closed.
* Links: toggling `link/pause` on an idle link appends it to `starved` each time and may
  return a read token that is out already.
* Datagrams on Node: two binds begun together where there is no IPv6 share `dualStack`
  (`datagrams-node.ts:37`); the second to fail is refused where IPv4 would do.
* Wakes: of two `dueIn` in one turn whose arms are both refused, the earlier deadline is
  forgotten and the later is what the next event asks for (`core.js:158`), so `Woken`
  promises the deadline itself only when no arm was refused. And `AlwaysWoken`, which is
  `Woken` without the exception `lost`, is violated under `MCCore_core.cfg`, where
  `core.js:141` has "Make sure a wake comes by `at`". A wake that expires in the realm's
  queue (`realm-queue.ts:245-258`) or whose turn fails is logged (`shell-core.ts:218`) and
  settles like any other (`timer.ts:82-84`), but `onWake` has not run: `wakeAt` stays in the
  past, every later `wakeBy` returns at `core.js:143`, and the realm is never woken again. A
  turn cut short inside `onWake` is not modelled.
* Negotiations: `EntriesTimed` is violated under `MCNegotiations_negotiations.cfg`, where
  `direct.js:43` gives a negotiation "for either kind the deadline its data link has to open
  by". When the host-call budget refuses `link/open`, `HostNegotiation.open` rejects
  (`direct.js:250`) and `Direct.open` throws at line 171, before it would free the peer. The
  entry stays in `byPeer` with neither a link nor a deadline, counts in `pending()`, and
  makes later upgrades of that peer return at line 109, until the peer offers with a new
  sid, overflows its signals or is forgotten. `NothingLeft` and `EverySettles` name it.
* Relays: calls that fail at the home relay's origin postpone its redial each time
  (`relay.js:243`). A direct link that authenticates starts a
  fresh window, forgetting the requests a relay still carries, so if it lapses while the
  relayed link is up the relay may carry more than `maxFrameBytes` awaiting an answer
  (`docs/TRANSPORT.md:223`) until those settle.
* Paths: `FOLLOW_MS` (`udp.js:68`) is shorter than `KEEPALIVE_MS`, so on idle streams the
  answering end is always free to follow; keepalives that cross make both ends follow,
  and they swap again for as long as that repeats (the bound `cross`).
* Transport: after a direct link fails the two ends may write on different relayed
  links, each reading the other's; a held link that is routed again can be one the peer has
  closed, losing a record until its request times out; records the accepting end of a
  double connect's loser has in flight are lost when the dialing end closes it (the
  exception `NoRecordLost` names); with three links a relayed one may stay listed at one
  end and held at the other until it is idle.

## 6. Not modelled

The file store (its writes are atomic at the platform; `Shell` has their failure), key
agreement, concealment and rekeying, a relay's own protocol, ICE and the `rtc:`
connection, the congestion window's arithmetic, parsing and signature checks of bundles,
byte layouts, cryptography, the command line and control socket, message channels of the
browser, the ledger and memory layout of the engine binding, build scripts.
`PROJECT.json` gives the reason for each.

## 7. What is open

* `PeerLinks` is model-checked for two nodes and two links of any kind. A proof would first need its
  queues in closed form, as the module table's teardown and the relay window of `Requests` have
  been put: sets of places taken out of a queue instead of folds along it.
* Liveness rests on the runs alone. The safety half is proved where it could be separated:
  `DeadlinesHold` for `EveryCallSettles`, `RequestsHold` for what the relay window holds,
  `StreamSafe` for `IsByteStream`.
* The parts listed in section 6, of which the relay's own protocol and the rekeying of a link
  have the most control to model.
