------------------------------- MODULE Realm --------------------------------
(***************************************************************************)
(* Entry into one confined guest realm: serialized invocations and parked  *)
(* host calls under their deadlines (WASM/host/realm-queue.ts              *)
(* serializeCalls and settleByDeadline, WASM/host/engine-realm.ts).        *)
(*                                                                         *)
(* Calls are numbered in the order they are made.  A promise reaction or   *)
(* microtask is implied by the state that queued it: enterNext by pumping, *)
(* the reaction to an invocation's result by inv = "answered" or           *)
(* "rejected", the release of a deferred invocation by yields, and the     *)
(* settlement of an expired host call by hc = "late".  They may run in any *)
(* order, which includes the engine's.  A guest turn takes no model time;  *)
(* one that overruns ends in the "interrupt" outcome.                      *)
(***************************************************************************)
EXTENDS Integers, Sequences, DeadlineQueue

CONSTANTS
    NCalls,     \* bound: calls made on the realm
    MaxTime,    \* bound: the clock, in milliseconds
    CallMs,     \* the deadlines callers supply; Never for none
    HostMs,     \* what is left of a segment when a host call is made
    Ceiling,    \* defaultDeadlineMs, the realm's own; Never for none
    OwnTurns    \* RealmOptions.ownTurns

ASSUME RealmAssumption ==
    /\ NCalls \in Nat
    /\ MaxTime \in Nat
    /\ CallMs \subseteq Nat \union {Never}
    /\ HostMs \subseteq (Nat \ {0}) \union {Never}
    /\ Ceiling \in Nat \union {Never}
    /\ OwnTurns \in BOOLEAN

VARIABLES
    now,        \* monotonicMs()
    alive,      \* the realm has not been discarded
    made,       \* calls made so far
    at,         \* when each call's deadline passes
    state,      \* what each caller has been told
    waiting,    \* the FIFO of entries
    running,    \* the entry that holds the realm, 0 for none
    pumping,    \* enterNext is queued
    inv,        \* each call's invocation
    deferred,   \* calls whose invocation set __deferred
    yields,     \* deferred calls whose release is queued
    eq,         \* the entry deadlines
    hc,         \* the one host call each invocation may park
    fresh,      \* host calls that were detached: they resume as a new turn
    hat,        \* when each host call is late
    hq,         \* the host-call deadlines
    resumed     \* history: how often each host call's continuation ran

vars == <<now, alive, made, at, state, waiting, running, pumping, inv, deferred,
          yields, eq, hc, fresh, hat, hq, resumed>>

hostCalls == <<hc, fresh, hat, hq, resumed>>

Calls == 1..NCalls
Deadlines == Nat \union {Never}

(* The state's types; a queue holds only deadlines that are still awaited. *)
TypeOK ==
    /\ now \in Nat
    /\ alive \in BOOLEAN
    /\ made \in 0..NCalls
    /\ at \in [Calls -> Deadlines]
    /\ state \in [Calls -> {"unmade", "open", "answered", "failed", "late", "refused"}]
    /\ waiting \in Seq(Calls)
    /\ running \in Calls \union {0}
    /\ pumping \in BOOLEAN
    /\ inv \in [Calls -> {"none", "open", "answered", "rejected", "over"}]
    /\ deferred \in SUBSET Calls
    /\ yields \in SUBSET Calls
    /\ eq \in Queue({c \in Calls : state[c] = "open"})
    /\ hc \in [Calls -> {"none", "parked", "late", "settled"}]
    /\ fresh \in SUBSET Calls
    /\ hat \in [Calls -> Deadlines]
    /\ hq \in Queue({c \in Calls : hc[c] = "parked"})
    /\ resumed \in [Calls -> Nat]

Init ==
    /\ now = 0
    /\ alive = TRUE
    /\ made = 0
    /\ at = [c \in Calls |-> Never]
    /\ state = [c \in Calls |-> "unmade"]
    /\ waiting = << >>
    /\ running = 0
    /\ pumping = FALSE
    /\ inv = [c \in Calls |-> "none"]
    /\ deferred = {}
    /\ yields = {}
    /\ eq = EmptyQueue
    /\ hc = [c \in Calls |-> "none"]
    /\ fresh = {}
    /\ hat = [c \in Calls |-> Never]
    /\ hq = EmptyQueue
    /\ resumed = [c \in Calls |-> 0]

-----------------------------------------------------------------------------
(* The queue.                                                              *)

(* Math.min over durations, Never standing for Infinity. *)
Sooner(a, b) == IF a = Never \/ (b # Never /\ b < a) THEN b ELSE a

DeadlineAt(ms) == IF Sooner(ms, Ceiling) = Never THEN Never ELSE now + Sooner(ms, Ceiling)

PumpsBehindOne(w, r) == r = 0 /\ Len(w) > 1

(* Whether pump() queues enterNext. *)
Pumps(w, r) == r = 0 /\ w # << >>

Pump(w, r) == pumping' = (pumping \/ Pumps(w, r))

(* finish(): what caller c, told st so far, has been told afterwards. *)
Finish(st, c, told) == IF st[c] = "open" THEN told ELSE st[c]

ReleaseAlways(r, X) == IF X = {} THEN r ELSE 0

(* release() of the entries X when r holds the realm. *)
Release(r, X) == IF r \in X THEN 0 ELSE r

(* expire() of the entries X: each caller is told, its invocation          *)
(* cancelled, and the realm released when the entry held it.               *)
Expire(X, st) ==
    /\ state' = [c \in Calls |-> IF c \in X THEN Finish(st, c, "late") ELSE st[c]]
    /\ inv' = [c \in Calls |-> IF c \in X /\ inv[c] = "open" THEN "rejected" ELSE inv[c]]
    /\ running' = Release(running, X)

(* A call on a discarded realm is refused at admission. *)
CallRefused ==
    /\ made < NCalls
    /\ ~alive
    /\ made' = made + 1
    /\ state' = [state EXCEPT ![made + 1] = "refused"]
    /\ UNCHANGED <<now, alive, at, waiting, running, pumping, inv, deferred, yields, eq, hostCalls>>

(* A call with ms left to its caller is admitted: its deadline starts, and *)
(* unless that is spent already it is queued.                              *)
Call(ms) ==
    LET c == made + 1
        at1 == [at EXCEPT ![c] = DeadlineAt(ms)]
        late == IF at1[c] = Never THEN {} ELSE AddExpires(eq, at1, now, c)
    IN
    /\ made < NCalls
    /\ alive
    /\ at1[c] < MaxTime
    /\ made' = c
    /\ at' = at1
    /\ eq' = IF at1[c] = Never THEN eq ELSE Added(eq, at1, now, c)
    /\ Expire(late, [state EXCEPT ![c] = "open"])
    /\ waiting' = IF c \in late THEN waiting ELSE Append(waiting, c)
    /\ Pump(waiting', running')
    /\ UNCHANGED <<now, alive, deferred, yields, hostCalls>>

(* arm(), when the entry queue's timer fires. *)
EntryTimer ==
    /\ eq.timer # Never /\ now >= eq.timer
    /\ Expire(DueAt(eq, at, now), state)
    /\ eq' = Armed(eq, at, now)
    /\ Pump(waiting, running')
    /\ UNCHANGED <<now, alive, made, at, waiting, deferred, yields, hostCalls>>

Tick ==
    /\ now < MaxTime
    /\ now' = now + 1
    /\ UNCHANGED <<alive, made, at, state, waiting, running, pumping, inv, deferred,
                   yields, eq, hostCalls>>

-----------------------------------------------------------------------------
(* The realm.                                                              *)

(* discard(): every invocation still open in `in` is rejected and every    *)
(* deadline disarmed.                                                      *)
Discard(in) ==
    /\ alive' = FALSE
    /\ inv' = [c \in Calls |-> IF in[c] = "open" THEN "rejected" ELSE in[c]]
    /\ eq' = EmptyQueue
    /\ hq' = EmptyQueue

Dispose ==
    /\ alive
    /\ Discard(inv)
    /\ UNCHANGED <<now, made, at, state, waiting, running, pumping, deferred, yields,
                   hc, fresh, hat, resumed>>

(* One guest turn over the invocations `in`: it answers or rejects at most *)
(* one open invocation, its own or a deferred one, then ends or faults.    *)
Turns(in) ==
    {in} \union
    {[in EXCEPT ![c] = r] : c \in {d \in Calls : in[d] = "open"}, r \in {"answered", "rejected"}}

(* What is left of the segment an invocation of call c has just started. *)
SegmentMs(c) == IF OwnTurns THEN Ceiling ELSE IF at[c] = Never THEN Never ELSE at[c] - now

(* settleByDeadline(): the host call c's invocation made is parked with ms *)
(* left, against a deadline unless ms is Infinity.                         *)
Park(c, ms) ==
    LET at1 == [hat EXCEPT ![c] = IF ms = Never THEN Never ELSE now + ms]
        late == IF ms = Never THEN {} ELSE AddExpires(hq, at1, now, c)
    IN
    /\ hat' = at1
    /\ hq' = IF ms = Never THEN hq ELSE Added(hq, at1, now, c)
    /\ hc' = [d \in Calls |-> IF d \in late THEN "late" ELSE IF d = c THEN "parked" ELSE hc[d]]
    /\ fresh' \in {fresh, fresh \union {c}}
    /\ UNCHANGED resumed

(* Whether enterNext lets entry c in: unsettled, in time, the realm alive. *)
Enters(c) == state[c] = "open" /\ (at[c] = Never \/ now < at[c]) /\ alive

(* The first k entries, none of which enterNext lets in. *)
Skips(k) == \A i \in 1..k : ~Enters(waiting[i])

Skipped(c, k) == \E i \in 1..k : waiting[i] = c

(* What enterNext tells the first k entries, which it passes over. *)
SettleSkipped(k) ==
    state' = [c \in Calls |->
                IF Skipped(c, k)
                THEN Finish(state, c, IF at[c] # Never /\ now >= at[c] THEN "late" ELSE "refused")
                ELSE state[c]]

(* ... and it stops watching them. *)
Unwatch(q, k) == [q EXCEPT !.pending = {c \in @ : ~Skipped(c, k)}]

(* enterNext finds the realm held, or nobody to let in. *)
EnterNobody ==
    /\ pumping
    /\ pumping' = FALSE
    /\ \/ /\ running # 0
          /\ UNCHANGED <<state, eq, waiting>>
       \/ /\ running = 0
          /\ Skips(Len(waiting))
          /\ SettleSkipped(Len(waiting))
          /\ eq' = Unwatch(eq, Len(waiting))
          /\ waiting' = << >>
    /\ UNCHANGED <<now, alive, made, at, running, inv, deferred, yields, hostCalls>>

(* enterNext lets in the entry behind the k it passes over. *)
Admit(k) ==
    /\ pumping /\ running = 0
    /\ k < Len(waiting)
    /\ Skips(k) /\ Enters(waiting[k + 1])
    /\ pumping' = FALSE
    /\ running' = waiting[k + 1]
    /\ waiting' = SubSeq(waiting, k + 2, Len(waiting))
    /\ SettleSkipped(k)
    /\ UNCHANGED <<now, made, at>>

(* invoke() of the call let in: its turn ends, deferring its answer or not.*)
EnterRuns(k, defers) ==
    LET c == waiting[k + 1] IN
    /\ Admit(k)
    /\ inv' \in Turns([inv EXCEPT ![c] = "open"])
    /\ eq' = Unwatch(eq, k)
    /\ deferred' = IF defers THEN deferred \union {c} ELSE deferred
    /\ yields' = IF defers THEN yields \union {c} ELSE yields
    /\ UNCHANGED <<alive, hostCalls>>

(* ... having parked on a host call. *)
EnterParks(k, defers, ms) ==
    LET c == waiting[k + 1] IN
    /\ Admit(k)
    /\ inv' = [inv EXCEPT ![c] = "open"]
    /\ eq' = Unwatch(eq, k)
    /\ deferred' = IF defers THEN deferred \union {c} ELSE deferred
    /\ yields' = IF defers THEN yields \union {c} ELSE yields
    /\ SegmentMs(c) = Never <=> ms = Never
    /\ ms <= SegmentMs(c)
    /\ Park(c, ms)
    /\ UNCHANGED alive

(* ... interrupted or out of memory: the call fails unless it has answered.*)
EnterFaults(k) ==
    LET c == waiting[k + 1] IN
    /\ Admit(k)
    /\ inv' \in {[inv EXCEPT ![c] = r] : r \in {"answered", "rejected"}}
    /\ eq' = Unwatch(eq, k)
    /\ UNCHANGED <<alive, deferred, yields, hostCalls>>

(* ... or the engine trapped, which discards the realm. *)
EnterTraps(k) ==
    /\ Admit(k)
    /\ Discard([inv EXCEPT ![waiting[k + 1]] = "open"])
    /\ UNCHANGED <<deferred, yields, hc, fresh, hat, resumed>>

(* The reaction to an invocation's result. *)
Result(c) ==
    /\ inv[c] \in {"answered", "rejected"}
    /\ inv' = [inv EXCEPT ![c] = "over"]
    /\ state' = [state EXCEPT ![c] =
                   Finish(state, c, IF inv[c] = "answered" THEN "answered" ELSE "failed")]
    /\ eq' = Dropped(eq, c)
    /\ running' = Release(running, {c})
    /\ Pump(waiting, running')
    /\ UNCHANGED <<now, alive, made, at, waiting, deferred, yields, hostCalls>>

(* A deferred invocation's synchronous part is over: it lets the realm go. *)
Yield(c) ==
    /\ c \in yields
    /\ yields' = yields \ {c}
    /\ running' = Release(running, {c})
    /\ Pump(waiting, running')
    /\ UNCHANGED <<now, alive, made, at, state, waiting, inv, deferred, eq, hostCalls>>

-----------------------------------------------------------------------------
(* Parked host calls.                                                      *)

HostCallTimer ==
    /\ hq.timer # Never /\ now >= hq.timer
    /\ hc' = [c \in Calls |-> IF c \in DueAt(hq, hat, now) THEN "late" ELSE hc[c]]
    /\ hq' = Armed(hq, hat, now)
    /\ UNCHANGED <<now, alive, made, at, state, waiting, running, pumping, inv, deferred,
                   yields, eq, fresh, hat, resumed>>

(* settle() finds the realm discarded. *)
SettleDead(c) ==
    /\ ~alive
    /\ hc' = [hc EXCEPT ![c] = "settled"]
    /\ UNCHANGED <<alive, inv, eq, resumed>>

(* settle(): the continuation runs under the invocation that made the      *)
(* call, or under a fresh one when the call was detached.  A fault fails   *)
(* that invocation, or every open one when it is not open itself.          *)
SettleFault(c, in) ==
    IF c \notin fresh /\ in[c] = "open"
    THEN [in EXCEPT ![c] = "rejected"]
    ELSE [d \in Calls |-> IF in[d] = "open" THEN "rejected" ELSE in[d]]

SettleRuns(c, q) ==
    /\ alive
    /\ hc' = [hc EXCEPT ![c] = "settled"]
    /\ resumed' = [resumed EXCEPT ![c] = @ + 1]
    /\ \/ inv' \in Turns(inv) /\ hq' = q /\ UNCHANGED <<alive, eq>>
       \/ /\ \E in \in Turns(inv) : inv' = SettleFault(c, in)
          /\ hq' = q
          /\ UNCHANGED <<alive, eq>>
       \/ Discard(inv)

HasDeadlineUnchecked(c) == hc[c] # "none"

(* Whoever takes the deadline out of its queue settles the call. *)
HasDeadline(c) == c \in hq.pending \/ (hat[c] = Never /\ hc[c] = "parked")

(* The handler's answer arrives, before the deadline took the call.    *)
HostAnswers(c) ==
    /\ HasDeadline(c)
    /\ LET q == Dropped(hq, c) IN
       \/ SettleRuns(c, q)
       \/ SettleDead(c) /\ hq' = q
    /\ UNCHANGED <<now, made, at, state, waiting, running, pumping, deferred, yields, fresh, hat>>

(* The microtask of an expired host call. *)
LateSettle(c) ==
    /\ hc[c] = "late"
    /\ \/ SettleRuns(c, hq)
       \/ SettleDead(c) /\ UNCHANGED hq
    /\ UNCHANGED <<now, made, at, state, waiting, running, pumping, deferred, yields, fresh, hat>>

-----------------------------------------------------------------------------
EnterNext ==
    \/ EnterNobody
    \/ \E k \in 0..(NCalls - 1) :
         \/ \E defers \in BOOLEAN : EnterRuns(k, defers)
         \/ \E defers \in BOOLEAN, ms \in HostMs : EnterParks(k, defers, ms)
         \/ EnterFaults(k)
         \/ EnterTraps(k)

Next ==
    \/ CallRefused
    \/ \E ms \in CallMs : Call(ms)
    \/ Tick
    \/ EntryTimer
    \/ HostCallTimer
    \/ Dispose
    \/ EnterNext
    \/ \E c \in Calls : Result(c) \/ Yield(c) \/ HostAnswers(c) \/ LateSettle(c)

(* The clock advances, and the event loop fires its timers and runs its    *)
(* jobs.  Nothing obliges a guest to answer or a handler to settle.        *)
Fairness ==
    /\ WF_vars(Tick)
    /\ WF_vars(EntryTimer)
    /\ WF_vars(HostCallTimer)
    /\ WF_vars(EnterNext)
    /\ \A c \in Calls : WF_vars(Result(c)) /\ WF_vars(Yield(c)) /\ WF_vars(LateSettle(c))

Spec == Init /\ [][Next]_vars

FairSpec == Spec /\ Fairness

-----------------------------------------------------------------------------
(* Properties.                                                             *)

(* An idle realm never leaves an entry waiting: with entries queued and    *)
(* nobody inside, enterNext is on its way (pump, release, expire).         *)
NoIdleWait == waiting # << >> /\ running = 0 => pumping

(* Execution is serialized: an invocation that has neither answered,       *)
(* expired nor yielded is the one that holds the realm, even when a stale  *)
(* release of another entry runs late (release's check of the occupant).   *)
Exclusive ==
    \A c \in Calls : inv[c] = "open" /\ c \notin (deferred \ yields) => running = c

(* A host call's continuation runs at most once, however its answer and    *)
(* its deadline race (settleByDeadline).                                   *)
ResumedOnce == \A c \in Calls : resumed[c] <= 1

(* A call with a deadline is settled, whatever the guest and the handlers  *)
(* do, by its answer, its deadline or disposal; and disposal, although it  *)
(* disarms the timers, settles every call (discard, enterNext's notReady). *)
EveryCallSettles ==
    \A c \in Calls :
       (state[c] = "open" /\ (at[c] # Never \/ ~alive)) ~> state[c] # "open"
=============================================================================
