---------------------------- MODULE ModuleTable -----------------------------
(***************************************************************************)
(* One slot's pure modules on worker threads (host/module-table.ts, with   *)
(* bundle.ts moduleSet): built all or none, called one at a time each, and *)
(* killed at a deadline, after which the next call loads a fresh worker.   *)
(*                                                                         *)
(* Workers are the environment's: they answer, hang, crash, or answer too  *)
(* late, and what one has posted may arrive after it was killed.  A        *)
(* deadline may pass at any time.  A payload too large for the module is   *)
(* refused before anything is asked of it, and not modelled.               *)
(***************************************************************************)
EXTENDS Integers, Sequences, FiniteSets, SequencesExt

CONSTANTS
    Modules,
    MaxCalls,     \* calls made in a behaviour
    MaxWorkers    \* workers spawned in it

ASSUME ModuleTableAssumption == IsFiniteSet(Modules) /\ MaxCalls \in Nat /\ MaxWorkers \in Nat

VARIABLES
    set,        \* the set: "building", "failed", "built" or "disposed"
    ref,        \* by module: [made, worker, dead, pending], see spawn
    worker,     \* the workers: [mod, load, alive, posted], see Spawn
    call        \* the calls, in order: [mod, stage, worker, answer]

moduleTableVars == <<set, ref, worker, call>>

(* `made` is how its first load ended; `worker` and `pending` are 0 when   *)
(* there is none.                                                          *)
spawn == [made |-> "loading", worker |-> 0, dead |-> FALSE, pending |-> 0]

(* An answer is the number of the call it was computed for, or one of      *)
(* these.                                                                  *)
NoAnswer == 0
MODULE_FAILED == -1

Workers == 1..Len(worker)
Calls == 1..Len(call)

(* load begins: the worker is being started.  `load` is then "spawning",   *)
(* "loading", and "loaded" or "failed"; `posted` is what it has sent and   *)
(* the host has not read.                                                  *)
Spawn(m) == [mod |-> m, load |-> "spawning", alive |-> FALSE, posted |-> {}]

ModuleTableInit == /\ set = "building"
                   /\ ref = [m \in Modules |-> spawn]
                   /\ worker = SetToSeq({Spawn(m) : m \in Modules})
                   /\ call = << >>

(* The table in the midst of a turn. *)
Table == [ref |-> ref, worker |-> worker, call |-> call]
TableIs(t) == ref' = t.ref /\ worker' = t.worker /\ call' = t.call

Kill(t, w) == IF w = 0 THEN t ELSE [t EXCEPT !.worker[w].alive = FALSE]

(* answer: the call in flight, if there is one, settles. *)
Done(t, c, result) == [t EXCEPT !.call[c] = [@ EXCEPT !.stage = "done", !.answer = result]]
answer(t, m, result) ==
    LET c == t.ref[m].pending
    IN IF c = 0 THEN t ELSE Done([t EXCEPT !.ref[m].pending = 0], c, result)

(* teardown, of each of some modules: the call in flight fails, the worker *)
(* is killed, and a load in flight finds the module released.              *)
Teardown(t, released) ==
    LET failed == {t.ref[m].pending : m \in released}
        killed == {t.ref[m].worker : m \in released}
    IN [ref |-> [m \in Modules |-> IF m \in released
                                  THEN [t.ref[m] EXCEPT !.dead = TRUE, !.pending = 0, !.worker = 0] ELSE t.ref[m]],
        worker |-> [w \in 1..Len(t.worker) |-> IF w \in killed THEN [t.worker[w] EXCEPT !.alive = FALSE]
                                               ELSE t.worker[w]],
        call |-> [c \in 1..Len(t.call) |-> IF c \in failed
                                           THEN [t.call[c] EXCEPT !.stage = "done", !.answer = MODULE_FAILED]
                                           ELSE t.call[c]]]

(* ---- calls, one at a time per module ---- *)

First(m) == {c \in Calls : call[c].mod = m /\ call[c].stage # "done" /\
                           \A d \in 1..(c - 1) : call[d].mod = m => call[d].stage = "done"}

CallModule(m) ==
    /\ set = "built" /\ Len(call) < MaxCalls
    /\ call' = Append(call, [mod |-> m, stage |-> "queued", worker |-> 0, answer |-> NoAnswer])
    /\ UNCHANGED <<set, ref, worker>>

(* It is posted to the worker, under its bound. *)
Post(t, c, w) == [t EXCEPT !.call[c] = [@ EXCEPT !.stage = "running", !.worker = w], !.ref[t.call[c].mod].pending = c]

(* Its turn: there is a worker, or one is loaded for it. *)
Turn(c) ==
    LET m == call[c].mod
    IN /\ call[c].stage = "queued" /\ c \in First(m)
       /\ IF ref[m].dead THEN TableIs(Done(Table, c, MODULE_FAILED))
          ELSE IF ref[m].worker # 0 THEN TableIs(Post(Table, c, ref[m].worker))
          ELSE /\ Len(worker) < MaxWorkers
               /\ TableIs([Table EXCEPT !.worker = Append(@, Spawn(m)),
                                        !.call[c] = [@ EXCEPT !.stage = "loading", !.worker = Len(worker) + 1]])
       /\ UNCHANGED set

ExpiresSilent(c) ==
    /\ call[c].stage = "running"
    /\ TableIs(Kill([Table EXCEPT !.ref[call[c].mod].worker = 0], call[c].worker))
    /\ UNCHANGED set

(* The bound passes: the call answers empty, and its worker is killed. *)
Expires(c) ==
    /\ call[c].stage = "running"
    /\ LET t == [answer(Table, call[c].mod, MODULE_FAILED) EXCEPT !.ref[call[c].mod].worker = 0]
       IN TableIs(Kill(t, call[c].worker))
    /\ UNCHANGED set

(* ---- loads ---- *)

Loader(w) == {c \in Calls : call[c].stage = "loading" /\ call[c].worker = w}

(* A load that fails has killed its worker; it failed the module's build,  *)
(* or the call it was for.                                                 *)
LoadFails(t, w) ==
    LET m == t.worker[w].mod
        failed == [Kill(t, w) EXCEPT !.worker[w].load = "failed"]
    IN IF Loader(w) = {} THEN [failed EXCEPT !.ref[m].made = "failed"]
       ELSE LET c == CHOOSE c \in Loader(w) : TRUE
            IN Done([failed EXCEPT !.ref[m].worker = 0], c, MODULE_FAILED)

LoadEnds(t, w) ==
    LET m == t.worker[w].mod
        loaded == [t EXCEPT !.worker[w].load = "loaded"]
    IN IF Loader(w) = {} THEN [loaded EXCEPT !.ref[m].made = "loaded"]
       ELSE Post(loaded, CHOOSE c \in Loader(w) : TRUE, w)

(* spawnWorker answers: attached, unless the module was released. *)
ReleasedIgnored(m) == FALSE
ModuleReleased(m) == ref[m].dead
Spawned(w) ==
    /\ worker[w].load = "spawning"
    /\ LET m == worker[w].mod
           up == [Table EXCEPT !.worker[w].alive = TRUE, !.worker[w].load = "loading"]
       IN TableIs(IF ModuleReleased(m) THEN LoadFails(up, w) ELSE [up EXCEPT !.ref[m].worker = w])
    /\ UNCHANGED set

(* It could not be started at all. *)
SpawnFails(w) == /\ worker[w].load = "spawning"
                 /\ TableIs(LoadFails(Table, w))
                 /\ UNCHANGED set

LoadExpires(w) == /\ worker[w].load = "loading"
                  /\ TableIs(LoadFails(Table, w))
                  /\ UNCHANGED set

(* ---- what a worker posts, and the host reads ---- *)

(* A live worker answers what it was asked, or crashes, once. *)
Posts(w, msg) ==
    /\ worker[w].alive
    /\ \/ msg.type \in {"ready", "loadError"} /\ worker[w].load = "loading" /\ worker[w].posted = {}
       \/ /\ msg.type = "result"
          /\ call[msg.of].stage = "running" /\ call[msg.of].worker = w /\ msg \notin worker[w].posted
    /\ worker' = [worker EXCEPT ![w].posted = @ \union {msg}]
    /\ UNCHANGED <<set, ref, call>>
Crashes(w) ==
    /\ worker[w].alive /\ worker[w].load \in {"loading", "loaded"}
    /\ worker' = [worker EXCEPT ![w].alive = FALSE, ![w].posted = @ \union {[type |-> "error", of |-> 0]}]
    /\ UNCHANGED <<set, ref, call>>

(* Only the module's present worker may answer. *)
AnyWorker(t, w) == TRUE
Current(t, w) == t.ref[t.worker[w].mod].worker = w

OnResult(t, w, c) == IF Current(t, w) THEN answer(t, t.worker[w].mod, c) ELSE t
OnReady(t, w) == IF t.worker[w].load # "loading" THEN t
                 ELSE IF ModuleReleased(t.worker[w].mod) THEN LoadFails(t, w)
                 ELSE LoadEnds(t, w)
OnError(t, w) ==
    LET m == t.worker[w].mod
    IN IF t.worker[w].load = "loading" THEN LoadFails(t, w)
       ELSE IF t.worker[w].load = "loaded" /\ Current(t, w)
       THEN answer([t EXCEPT !.ref[m].worker = 0], m, MODULE_FAILED)
       ELSE t

Reads(w, msg) ==
    /\ LET t == [Table EXCEPT !.worker[w].posted = @ \ {msg}]
       IN \/ msg.type = "result" /\ TableIs(OnResult(t, w, msg.of))
          \/ msg.type = "ready" /\ TableIs(OnReady(t, w))
          \/ msg.type = "loadError" /\ TableIs(IF t.worker[w].load = "loading" THEN LoadFails(t, w) ELSE t)
          \/ msg.type = "error" /\ TableIs(OnError(t, w))
    /\ UNCHANGED set

(* ---- the set ---- *)

(* Every first load has ended: with one failed, the rest are released. *)
Built(t) == Teardown(t, {m \in Modules : ref[m].made = "loaded"})
BuildEnds ==
    /\ set = "building" /\ \A m \in Modules : ref[m].made # "loading"
    /\ IF \E m \in Modules : ref[m].made = "failed"
       THEN set' = "failed" /\ TableIs(Built(Table))
       ELSE set' = "built" /\ UNCHANGED <<ref, worker, call>>

Dispose == /\ set = "built"
           /\ set' = "disposed" /\ TableIs(Built(Table))

Messages == [type : {"ready", "loadError", "error"}, of : {0}] \union [type : {"result"}, of : Calls]

ModuleTableNext == \/ \E m \in Modules : CallModule(m)
                   \/ \E c \in Calls : Turn(c) \/ Expires(c)
                   \/ \E w \in Workers : Spawned(w) \/ SpawnFails(w) \/ LoadExpires(w) \/ Crashes(w)
                   \/ \E w \in Workers, msg \in Messages : Posts(w, msg)
                   \/ \E w \in Workers : \E msg \in worker[w].posted : Reads(w, msg)
                   \/ BuildEnds \/ Dispose

(* Deadlines are finite: they pass, spawns are answered, turns come.  Of   *)
(* a worker nothing is expected.                                           *)
ModuleTableSpec == /\ ModuleTableInit /\ [][ModuleTableNext]_moduleTableVars
                   /\ WF_moduleTableVars(\E c \in Calls : Turn(c) \/ Expires(c))
                   /\ WF_moduleTableVars(\E w \in Workers : Spawned(w) \/ LoadExpires(w))
-----------------------------------------------------------------------------
(* "a killed or crashed worker can still deliver a late reply, which must  *)
(* not settle the next call" (load): what answers a call, if not a         *)
(* failure, is what it made its worker compute; and a call that runs is    *)
(* the one its module's present worker was given, so that its deadline     *)
(* kills no other (call).                                                  *)
AnsweredByItsOwn == \A c \in Calls :
    /\ call[c].answer \in {NoAnswer, MODULE_FAILED, c}
    /\ call[c].stage = "running" => /\ ref[call[c].mod].pending = c
                                    /\ ref[call[c].mod].worker = call[c].worker

(* "so a refused bundle leaves no orphaned workers" (build, teardown,      *)
(* load): a worker that runs is its module's, and once the set has failed  *)
(* or was disposed none runs.                                              *)
NoWorkerLeft == \A w \in Workers : worker[w].alive =>
    /\ ref[worker[w].mod].worker = w
    /\ set \notin {"failed", "disposed"}

(* "Never rejects" (call), "so no caller hangs" (teardown): every call is  *)
(* answered in the end, whatever its worker does.                          *)
EveryCallAnswered == <>[](\A c \in Calls : call[c].stage = "done")
=============================================================================
