----------------------------- MODULE HostLoader -----------------------------
(***************************************************************************)
(* Host updates: which host blob each boot runs, and the trial that        *)
(* commits a staged blob or drops it (WASM/host/slots.ts, class Loader),   *)
(* driven by the Node loader (WASM/host/loader-node.ts) or the native one  *)
(* (native/main.go, native/hostslots.go).                                  *)
(*                                                                         *)
(* The slot files survive a crash; everything in the record m is the       *)
(* process's memory and is lost with it.  A handler runs without           *)
(* interruption, but the process may die between any two file operations,  *)
(* and a read, a write or (RemoveMayFail) a removal may fail.  The host's  *)
(* arguments, from which a reboot drops a completed --op, are left out.    *)
(***************************************************************************)
EXTENDS Naturals, FiniteSets

CONSTANTS
    Versions,       \* version numbers blobs carry
    Abis,           \* platform ABIs blobs and loaders are built for
    Target,         \* the driver: "node" or "native"
    Mode,           \* --host-updates: "off", "next" or "now"
    RemoveMayFail,  \* whether SlotFiles.remove may leave the file in place
    MaxBoots,       \* bound: boots in one process
    MaxRestarts     \* bound: restarts queued on Node's event loop

ASSUME VersionsAssumption == Versions \subseteq Nat \ {0}
ASSUME AbisAssumption == Abis \subseteq Nat \ {0}
ASSUME LoaderAssumption ==
    /\ Target \in {"node", "native"}
    /\ Mode \in {"off", "next", "now"}
    /\ RemoveMayFail \in BOOLEAN
    /\ MaxBoots \in Nat
    /\ MaxRestarts \in Nat

VARIABLES
    committed,  \* committed.skb
    pending,    \* pending.skb
    tried,      \* whether the mark `tried` exists
    genesis,    \* the blob the loader was built with, its ABI the loader's
    up,         \* whether the process runs
    m,          \* the process's memory, see Memory
    fate,       \* history: what became of the blob in pending.skb so far
    dropped     \* history: the fate of the last blob dropped from pending.skb

disk == <<committed, pending, tried>>
vars == <<committed, pending, tried, genesis, up, m, fate, dropped>>

Blob == [version : Versions, abi : Abis]
NoBlob == [version |-> 0, abi |-> 0]
Slot == Blob \union {NoBlob}

(* Fates of a staged blob.  "partial": stage() died before it returned;    *)
(* "trying": booted, its run not over; "failed": its own run failed, or    *)
(* the process died during it; "committed": written to committed.skb.      *)
Fate == {"none", "partial", "staged", "trying", "failed", "committed"}
Reason == Fate \union {"floor", "unreadable"}

(* The Loader's fields (trial .. gen), the driver's (running .. err) and    *)
(* per-process history.  A boot is named by the value of gen it got.       *)
Memory == [trial : Slot,              \* the pending host on trial
           serving : BOOLEAN,         \* its operator flow ended serving
           bootAfterFlow : BOOLEAN,   \* staged under "now" during a flow
           gen : Nat,                 \* counts boots
           running : Slot,            \* the booted blob
           flows : SUBSET Nat,        \* boots whose runMain is awaited
           timers : SUBSET Nat,       \* boots a health timer would commit
           restarts : Nat,            \* restarts queued by stageHost
           err : BOOLEAN,             \* native: the loop stopped on a failure
           served : SUBSET Nat]       \* history: boots whose flow ended serving

Off == [trial |-> NoBlob, serving |-> FALSE, bootAfterFlow |-> FALSE, gen |-> 0,
        running |-> NoBlob, flows |-> {}, timers |-> {},
        restarts |-> 0, err |-> FALSE, served |-> {}]

TypeOK ==
    /\ committed \in Slot
    /\ pending \in Slot
    /\ tried \in BOOLEAN
    /\ genesis \in Blob
    /\ up \in BOOLEAN
    /\ m \in Memory
    /\ fate \in Fate
    /\ dropped \in Reason

-----------------------------------------------------------------------------
(* Pieces of the Loader's methods.                                         *)

(* load(name) for this loader's ABI; an absent slot has ABI 0. *)
Loads(slot, g) == slot.abi = g.abi

BaseIsGenesis(g) == g

Base(g) ==
    IF Loads(committed, g) /\ committed.version > g.version THEN committed ELSE g

(* The process ends, leaving pending.skb and tried as given. *)
Dies(p, t, f) ==
    /\ pending' = p
    /\ tried' = t
    /\ fate' = IF p = NoBlob THEN "none" ELSE IF f = "trying" THEN "failed" ELSE f
    /\ up' = FALSE
    /\ m' = Off

Lives(mem, p, t, f) ==
    /\ pending' = p
    /\ tried' = t
    /\ fate' = IF p = NoBlob THEN "none" ELSE f
    /\ up' = TRUE
    /\ m' = mem

ClearsMarkFirst(p, t, x, y, dies) ==
    \/ x = NoBlob /\ ~y /\ ~dies
    \/ x = p /\ ~y /\ dies

(* clearPending() turns the slots p and t into x and y: pending.skb is     *)
(* removed, then the mark, and the process may die in between.             *)
Clears(p, t, x, y, dies) ==
    \/ x = NoBlob /\ ~y /\ ~dies
    \/ x = NoBlob /\ (y <=> t) /\ dies
    \/ RemoveMayFail /\ x \in {p, NoBlob} /\ (y => t) /\ ~dies

(* discard(reason), which choose() follows with the boot of the base host. *)
Discards(boot, p, t, f, why) ==
    /\ dropped' = why
    /\ \E x \in {p, NoBlob}, y, dies \in BOOLEAN :
         /\ Clears(p, t, x, y, dies)
         /\ IF dies THEN Dies(x, y, f) ELSE Lives(boot, x, y, f)

(* The memory once choose() has answered b, on trial or not, and the       *)
(* driver has booted it and awaits its flow.                               *)
Boot(mem, b, trial) ==
    [mem EXCEPT !.serving = FALSE, !.gen = mem.gen + 1, !.trial = trial,
                !.running = b, !.err = FALSE,
                !.flows = mem.flows \union {mem.gen + 1},
                !.restarts = IF Target = "native" THEN 0 ELSE mem.restarts]

(* choose(), then the driver's boot of its answer.  mem, p, t, f and d are *)
(* what the caller has made of the memory, the slots and the history.      *)
Choose(g, mem, p, t, f, d) ==
    LET base == Base(g)
        boot == Boot(mem, base, NoBlob)
    IN
    /\ mem.gen < MaxBoots
    /\ genesis' = g
    /\ UNCHANGED committed
    /\ \/ /\ committed # NoBlob       \* unreadable: choose() throws, which is fatal
          /\ Dies(p, t, f)
          /\ dropped' = d
       \/ /\ p = NoBlob
          /\ Lives(boot, p, t, f)
          /\ dropped' = d
       \/ /\ p # NoBlob /\ t
          /\ Discards(boot, p, t, f, f)
       \/ /\ p # NoBlob /\ ~t
          /\ Discards(boot, p, t, f, "unreadable")
       \/ /\ p # NoBlob /\ ~t
          /\ ~Loads(p, g) \/ p.version <= base.version
          /\ Discards(boot, p, t, f, "floor")
       \/ /\ p # NoBlob /\ ~t
          /\ Loads(p, g) /\ p.version > base.version
          /\ \/ Lives(boot, p, t, f)          \* the mark cannot be written
             \/ Lives(Boot(mem, p, p), p, TRUE, "trying")
          /\ dropped' = d

HoldsPendingUnchecked == TRUE

(* holdsPending(trial), of a slot that can be read; an unreadable one is   *)
(* taken for a successor's.                                                *)
HoldsPending == Loads(pending, genesis) /\ pending.version = m.trial.version

(* failed(reason) and what both drivers do next: boot again when a host on *)
(* trial failed, or else end the process.  f is the fate the failure       *)
(* leaves the pending blob with.                                           *)
Failed(mem, f) ==
    \/ /\ m.trial = NoBlob
       /\ Dies(pending, tried, f)
       /\ UNCHANGED <<committed, genesis, dropped>>
    \/ /\ m.trial # NoBlob
       /\ HoldsPending
       /\ \E x \in {pending, NoBlob}, y, dies \in BOOLEAN :
            /\ Clears(pending, tried, x, y, dies)
            /\ \/ /\ dies
                  /\ Dies(x, y, f)
                  /\ dropped' = f
                  /\ UNCHANGED <<committed, genesis>>
               \/ /\ ~dies
                  /\ Choose(genesis, [mem EXCEPT !.trial = NoBlob], x, y, f, f)
    \/ /\ m.trial # NoBlob       \* a successor, or unreadable
       /\ Choose(genesis, [mem EXCEPT !.trial = NoBlob], pending, tried, f, dropped)

(* Whether the booted host's code runs: in its operator flow, or serving.  *)
HostRuns == up /\ m.gen > 0 /\ ~m.err /\ (m.gen \in m.flows \/ m.serving)

(* The fate the failure of boot b's host leaves the pending blob with: it  *)
(* tells against the blob only when b is the boot that tries it.           *)
Blamed(b) == IF b = m.gen /\ fate = "trying" THEN "failed" ELSE fate

-----------------------------------------------------------------------------
Init ==
    /\ committed = NoBlob
    /\ pending = NoBlob
    /\ tried = FALSE
    /\ genesis \in Blob
    /\ up = FALSE
    /\ m = Off
    /\ fate = "none"
    /\ dropped = "none"

(* The process starts, with the loader binary the operator has installed.  *)
Start(g) ==
    /\ ~up
    /\ Choose(g, Off, pending, tried, fate, dropped)

(* A crash, a power loss or Ctrl-C. *)
Crash ==
    /\ up
    /\ Dies(pending, tried, fate)
    /\ UNCHANGED <<committed, genesis, dropped>>

(* What staging leaves for the driver to do, under each mode. *)
Staged(mem) ==
    IF Mode = "next" THEN mem
    ELSE IF mem.serving
         THEN [mem EXCEPT !.restarts = IF Target = "native" THEN 1 ELSE mem.restarts + 1]
         ELSE [mem EXCEPT !.bootAfterFlow = TRUE]

(* stage(env): an app hands the running host a blob, which the host checks *)
(* (checkStagedHost) and the loader keeps.                                 *)
Stage(b) ==
    /\ HostRuns
    /\ Mode # "off"
    /\ b.abi = genesis.abi /\ b.version > m.running.version
    /\ m.restarts < MaxRestarts
    /\ UNCHANGED <<committed, genesis, dropped>>
    /\ \/ Dies(b, tried, "partial")
       \/ \E t \in BOOLEAN :
            /\ t => RemoveMayFail /\ tried
            /\ Lives(Staged(m), b, t, "staged")

(* A restart queued by stageHost: Node's setImmediate, or the native loop  *)
(* that stops after the turn.                                              *)
Restart ==
    /\ up /\ m.restarts > 0 /\ ~m.err
    /\ Choose(genesis, [m EXCEPT !.restarts = m.restarts - 1], pending, tried, fate, dropped)

(* ended(serving), for the flow of boot b, and the driver's next move.     *)
(* Only on Node can b be a boot before the last.                           *)
FlowEnds(b, serving) ==
    LET again == serving /\ m.bootAfterFlow
        after == [m EXCEPT !.bootAfterFlow = FALSE,
                           !.serving = serving /\ ~again,
                           !.flows = m.flows \ {b},
                           !.served = IF serving THEN m.served \union {b} ELSE m.served]
        unblamed == IF b = m.gen /\ fate = "trying" THEN "staged" ELSE fate
        exits == after.flows = {} /\ after.restarts = 0
    IN
    /\ up /\ ~m.err
    /\ b \in m.flows
    /\ \/ /\ again
          /\ Choose(genesis, after, pending, tried, fate, dropped)
       \/ /\ serving /\ ~again
          /\ m' = [after EXCEPT !.timers = IF m.trial # NoBlob THEN m.timers \union {m.gen} ELSE m.timers]
          /\ UNCHANGED <<committed, pending, tried, genesis, up, fate, dropped>>
       \/ /\ ~serving
          /\ UNCHANGED <<committed, genesis, dropped>>
          /\ \E t \in BOOLEAN :
               /\ IF m.trial = NoBlob THEN t <=> tried ELSE t => RemoveMayFail /\ tried
               /\ IF exits THEN Dies(pending, t, unblamed)
                          ELSE Lives([after EXCEPT !.trial = NoBlob], pending, t, unblamed)

(* runMain of boot b rejects, on Node. *)
FlowRejects(b) ==
    /\ Target = "node"
    /\ up
    /\ b \in m.flows
    /\ Failed([m EXCEPT !.flows = m.flows \ {b}], Blamed(b))

(* An uncaught exception or unhandled rejection of the host on Node.  The  *)
(* loop that awaits its flow, if any, keeps waiting.                       *)
HostFailsOnNode ==
    /\ Target = "node"
    /\ HostRuns
    /\ Failed(m, Blamed(m.gen))

(* The native host fails, in its flow or serving: the loop stops, and only *)
(* then does main call failed().                                           *)
HostFailsOnNative ==
    /\ Target = "native"
    /\ HostRuns
    /\ m' = [m EXCEPT !.err = TRUE]
    /\ fate' = Blamed(m.gen)
    /\ UNCHANGED <<committed, pending, tried, genesis, up, dropped>>

NativeFailure ==
    /\ up /\ m.err
    /\ Failed([m EXCEPT !.flows = {}], fate)

CommitsAnyBoot(b) == m.trial # NoBlob

(* The guard of commit(gen): the trial is the one the timer was armed for. *)
Commits(b) == m.trial # NoBlob /\ m.gen = b

(* commit(b), when the health timer armed in boot b fires. *)
HealthTimer(b) ==
    LET fired == [m EXCEPT !.timers = m.timers \ {b}]
        done == [fired EXCEPT !.trial = NoBlob]
    IN
    /\ up
    /\ b \in m.timers
    /\ UNCHANGED genesis
    /\ \/ /\ m' = fired       \* a stale timer, or the write failed
          /\ UNCHANGED <<committed, pending, tried, up, fate, dropped>>
       \/ /\ Commits(b)
          /\ committed' = m.trial
          /\ UNCHANGED dropped
          /\ \/ Dies(pending, tried, IF fate = "trying" THEN "committed" ELSE fate)
             \/ /\ HoldsPending
                /\ \E x \in {pending, NoBlob}, y, dies \in BOOLEAN :
                     /\ Clears(pending, tried, x, y, dies)
                     /\ IF dies THEN Dies(x, y, "committed") ELSE Lives(done, x, y, "committed")
             \/ Lives(done, pending, tried, IF fate = "trying" THEN "committed" ELSE fate)

Next ==
    \/ \E g \in Blob : Start(g)
    \/ Crash
    \/ \E b \in Blob : Stage(b)
    \/ Restart
    \/ \E b \in 1..MaxBoots : \/ \E serving \in BOOLEAN : FlowEnds(b, serving)
                              \/ FlowRejects(b)
                              \/ HealthTimer(b)
    \/ HostFailsOnNode
    \/ HostFailsOnNative
    \/ NativeFailure

Spec == Init /\ [][Next]_vars

-----------------------------------------------------------------------------
(* "The running host is never older than the committed one, so that        *)
(* version is the floor" (RUNTIME 12.9): what choose() boots, through      *)
(* crashes, restarts, loader upgrades and commits, is at or above every    *)
(* host this loader's ABI can run that was committed.                      *)
RunningAtOrAboveFloor ==
    up /\ Loads(committed, genesis) => m.running.version >= committed.version

(* Committing never lowers the floor: commit() replaces a host of the      *)
(* loader's ABI only by a newer one.                                       *)
FloorNeverFalls ==
    [][committed' # committed /\ Loads(committed, genesis)
         => committed'.version > committed.version]_vars

(* "Tried once": a staged blob that was booted, and whose run did not end  *)
(* as a mere one-shot op, is never put on trial again.                     *)
TriedOnce ==
    [][m'.gen > m.gen /\ m'.trial # NoBlob => fate \in {"staged", "partial"}]_vars

(* A blob is dropped from pending.skb only for cause: its own run failed   *)
(* or was cut short, it is at the floor or unreadable, or its staging was. *)
DroppedForCause == dropped \notin {"staged", "trying"}

(* "Committed only after a health window it served through": the boot that *)
(* commits is one whose own operator flow ended serving.                   *)
CommittedAfterServing ==
    [][committed' # committed => m.gen \in m.served]_vars
=============================================================================
