---------------------------- MODULE RealmProofs -----------------------------
(***************************************************************************)
(* Proofs about Realm: for any number of calls, any deadlines and any      *)
(* handlers the realm is never idle with entries waiting, runs one         *)
(* invocation at a time, resumes a host call at most once and watches      *)
(* every deadline it has promised.                                         *)
(***************************************************************************)
EXTENDS Realm, SetLemmas, SequenceTheorems, TLAPS

-----------------------------------------------------------------------------
(* The inductive invariant.                                                *)

Invs == {"none", "open", "answered", "rejected", "over"}
States == {"unmade", "open", "answered", "failed", "late", "refused"}
HostStates == {"none", "parked", "late", "settled"}

(* The types, what the queues hold apart. *)
Typed ==
    /\ now \in Nat
    /\ alive \in BOOLEAN
    /\ made \in 0..NCalls
    /\ at \in [Calls -> Deadlines]
    /\ state \in [Calls -> States]
    /\ waiting \in Seq(Calls)
    /\ running \in Calls \union {0}
    /\ pumping \in BOOLEAN
    /\ inv \in [Calls -> Invs]
    /\ deferred \in SUBSET Calls
    /\ yields \in SUBSET deferred
    /\ eq \in Queue(Calls)
    /\ hc \in [Calls -> HostStates]
    /\ fresh \in SUBSET Calls
    /\ hat \in [Calls -> Deadlines]
    /\ hq \in Queue(Calls)
    /\ resumed \in [Calls -> Nat]

(* Queued calls w, of the m made: each once, before it has run. *)
Queued(w, m, in, h) ==
    /\ \A i \in 1..Len(w) : w[i] =< m /\ in[w[i]] = "none" /\ h[w[i]] = "none"
    /\ \A i, j \in 1..Len(w) : w[i] = w[j] => i = j

(* A call not made yet has done nothing. *)
Unmade(m, st, in, h) ==
    \A c \in Calls : c > m => st[c] = "unmade" /\ in[c] = "none" /\ h[c] = "none"

Ordered == Queued(waiting, made, inv, hc) /\ Unmade(made, state, inv, hc)

(* A host call that is not settled has not been resumed. *)
Unresumed == \A c \in Calls : resumed[c] =< 1 /\ (hc[c] # "settled" => resumed[c] = 0)

OpenIn(st) == {c \in Calls : st[c] = "open"}
ParkedIn(h) == {c \in Calls : h[c] = "parked"}

(* Queue q watches the deadlines of D: each is pending, and the timer that *)
(* all share fires no later than a tick after the earliest.                *)
Watches(q, due, D) ==
    /\ q.pending = {d \in D : due[d] # Never}
    /\ \A d \in q.pending : q.timer # Never /\ q.timer =< due[d] + 1

(* While the realm lives its two queues watch the calls whose callers are  *)
(* still waiting and the host calls still parked; afterwards, nothing.     *)
DeadlinesWatched ==
    IF alive THEN Watches(eq, at, OpenIn(state)) /\ Watches(hq, hat, ParkedIn(hc))
             ELSE eq = EmptyQueue /\ hq = EmptyQueue

RealmInv ==
    /\ Typed
    /\ Ordered
    /\ Unresumed
    /\ DeadlinesWatched
    /\ NoIdleWait
    /\ Exclusive

-----------------------------------------------------------------------------
(* The deadline queue.                                                     *)

(* The timer's target is the least of the deadlines that remain. *)
LEMMA SoonestIs ==
    ASSUME NEW D, NEW due, D # {}, \A d \in D : due[d] \in Nat
    PROVE  Soonest(D, due) \in Nat /\ \A d \in D : Soonest(D, due) =< due[d]
  <1> DEFINE S == {due[d] : d \in D}
  <1>1. S \in SUBSET Nat /\ S # {}
    OBVIOUS
  <1>2. Min(S) \in S /\ \A y \in S : Min(S) =< y
    BY <1>1, MinNat
  <1>3. \E t \in S : \A d \in D : t =< due[d]
    BY <1>2
  <1> QED
    BY <1>1, <1>3 DEF Soonest

(* arm(): what is due goes, and the timer is set for the earliest of the   *)
(* rest.                                                                   *)
LEMMA ArmedWatches ==
    ASSUME NEW D \in SUBSET Calls, NEW due \in [Calls -> Deadlines], NEW t \in Nat,
           NEW q \in Queue(Calls), q.pending = {d \in D : due[d] # Never}
    PROVE  /\ Armed(q, due, t) \in Queue(Calls)
           /\ Watches(Armed(q, due, t), due, D \ DueAt(q, due, t))
           /\ DueAt(q, due, t) \subseteq D
  <1> DEFINE left == q.pending \ DueAt(q, due, t)
  <1>1. left \subseteq Calls /\ (\A d \in left : due[d] \in Nat) /\ left = {d \in D \ DueAt(q, due, t) : due[d] # Never}
    BY DEF Queue, Deadlines, DueAt
  <1>2. left # {} => Soonest(left, due) \in Nat /\ \A d \in left : Soonest(left, due) =< due[d]
    BY <1>1, SoonestIs
  <1> DEFINE timer == IF left = {} THEN Never ELSE Soonest(left, due)
  <1>3. Armed(q, due, t) = [pending |-> left, timer |-> timer]
    BY DEF Armed
  <1>4. timer \in Nat \union {Never}
    BY <1>2
  <1>5. \A d \in left : timer # Never /\ timer =< due[d] + 1
    BY <1>1, <1>2 DEF Never
  <1> HIDE DEF left, timer
  <1>8. Armed(q, due, t) \in Queue(Calls)
    BY <1>1, <1>3, <1>4 DEF Queue
  <1>6. Watches(Armed(q, due, t), due, D \ DueAt(q, due, t))
    <2>1. Armed(q, due, t).pending = left /\ Armed(q, due, t).timer = timer
      BY <1>3
    <2> QED
      BY <1>1, <1>5, <2>1 DEF Watches
  <1>7. DueAt(q, due, t) \subseteq D
    BY DEF DueAt
  <1> QED
    BY <1>6, <1>7, <1>8

(* add(): a deadline added watches itself too, whether or not it moves the *)
(* timer; one that would move it by less than a tick is covered by the     *)
(* tick's slack.                                                           *)
LEMMA AddedWatches ==
    ASSUME NEW D \in SUBSET Calls, NEW due \in [Calls -> Deadlines], NEW t \in Nat,
           NEW q \in Queue(Calls), NEW c \in Calls, due[c] # Never, Watches(q, due, D)
    PROVE  /\ Added(q, due, t, c) \in Queue(Calls)
           /\ Watches(Added(q, due, t, c), due, (D \union {c}) \ AddExpires(q, due, t, c))
           /\ AddExpires(q, due, t, c) \subseteq D \union {c}
  <1>1. With(q, c) \in Queue(Calls) /\ With(q, c).pending = q.pending \union {c} /\ With(q, c).timer = q.timer
    BY DEF With, Queue
  <1>2. With(q, c).pending = {d \in D \union {c} : due[d] # Never}
    BY <1>1 DEF Watches
  <1>3. CASE Rearms(q, due, c)
    <2>1. D \union {c} \in SUBSET Calls
      OBVIOUS
    <2> QED
      BY <1>1, <1>2, <1>3, <2>1, ArmedWatches DEF Added, AddExpires
  <1>4. CASE ~Rearms(q, due, c)
    <2>1. q.timer \in Nat \union {Never} /\ due[c] \in Nat \union {Never}
      BY DEF Queue, Deadlines
    <2>2. q.timer # Never /\ q.timer =< due[c] + 1
      BY <1>4, <2>1 DEF Rearms, Never
    <2>3. \A d \in q.pending \union {c} : q.timer # Never /\ q.timer =< due[d] + 1
      BY <2>2 DEF Watches
    <2> QED
      BY <1>1, <1>2, <1>4, <2>3 DEF Watches, Added, AddExpires
  <1> QED
    BY <1>3, <1>4

(* A queue that drops deadlines and leaves its timer alone watches the     *)
(* rest: the timer may fire early, never late.                             *)
LEMMA KeptWatches ==
    ASSUME NEW D, NEW due, NEW X, NEW q, NEW p, Watches(q, due, D),
           p.timer = q.timer, p.pending = q.pending \ X
    PROVE  Watches(p, due, D \ X)
  BY DEF Watches

-----------------------------------------------------------------------------
(* The queue of entries.                                                   *)

(* Entries stay queued in order while other calls go on. *)
LEMMA QueuedLater ==
    ASSUME NEW w \in Seq(Calls), NEW m \in Int, NEW in, NEW h, NEW in2, NEW h2, Queued(w, m, in, h),
           \A c \in Calls : (in[c] = "none" => in2[c] = "none") /\ (h[c] = "none" => h2[c] = "none")
    PROVE  Queued(w, m, in2, h2)
  BY ElementOfSeq DEF Queued

(* What is left behind the entry w[k + 1] when that one enters. *)
Behind(w, k, m, in, h) ==
    /\ w[k + 1] \in Calls
    /\ SubSeq(w, k + 2, Len(w)) \in Seq(Calls)
    /\ Queued(SubSeq(w, k + 2, Len(w)), m, in, h)

(* The entries behind the one that enters. *)
LEMMA QueuedBehind ==
    ASSUME NEW w \in Seq(Calls), NEW m \in Int, NEW in, NEW h, NEW in2, NEW h2, Queued(w, m, in, h),
           NEW k \in Nat, k < Len(w),
           \A c \in Calls : c # w[k + 1] => (in[c] = "none" => in2[c] = "none") /\ (h[c] = "none" => h2[c] = "none")
    PROVE  Behind(w, k, m, in2, h2)
  <1> DEFINE v == SubSeq(w, k + 2, Len(w))
  <1>1. Len(w) \in Nat /\ w[k + 1] \in Calls /\ k + 1 \in 1..Len(w)
    BY ElementOfSeq, LenProperties
  <1>2. v \in Seq(Calls) /\ Len(v) = Len(w) - k - 1 /\ \A i \in 1..Len(v) : v[i] = w[i + k + 1] /\ i + k + 1 \in 1..Len(w)
    <2>1. \A i \in (k + 2)..Len(w) : w[i] \in Calls
      <3> SUFFICES ASSUME NEW i \in (k + 2)..Len(w) PROVE w[i] \in Calls
        OBVIOUS
      <3>1. i \in 1..Len(w)
        BY <1>1
      <3> QED
        BY <3>1, ElementOfSeq
    <2>2. k + 2 \in Int /\ Len(w) \in Int
      BY <1>1
    <2>3. /\ v \in Seq(Calls) /\ Len(v) = IF k + 2 <= Len(w) THEN Len(w) - (k + 2) + 1 ELSE 0
          /\ \A i \in 1..(Len(w) - (k + 2) + 1) : v[i] = w[k + 2 + i - 1]
      BY <2>1, <2>2, SubSeqProperties, SMTT(30)
    <2> HIDE DEF v
    <2>4. Len(v) = Len(w) - k - 1
      BY <1>1, <2>3
    <2>5. \A i \in 1..Len(v) : i \in 1..(Len(w) - (k + 2) + 1) /\ k + 2 + i - 1 = i + k + 1 /\ i + k + 1 \in 1..Len(w)
      BY <1>1, <2>4
    <2> QED
      BY <2>3, <2>4, <2>5
  <1>3. \A i \in 1..Len(v) : v[i] # w[k + 1] /\ v[i] \in Calls
    BY <1>1, <1>2, ElementOfSeq DEF Queued
  <1> HIDE DEF v
  <1>4. Queued(v, m, in2, h2)
    <2>1. \A i \in 1..Len(v) : v[i] =< m /\ in2[v[i]] = "none" /\ h2[v[i]] = "none"
      <3> SUFFICES ASSUME NEW i \in 1..Len(v)
                   PROVE  v[i] =< m /\ in2[v[i]] = "none" /\ h2[v[i]] = "none"
        OBVIOUS
      <3>1. v[i] =< m /\ in[v[i]] = "none" /\ h[v[i]] = "none"
        BY <1>2 DEF Queued
      <3> QED
        BY <1>3, <3>1
    <2>2. \A i, j \in 1..Len(v) : v[i] = v[j] => i = j
      BY <1>1, <1>2 DEF Queued
    <2> QED
      BY <2>1, <2>2 DEF Queued
  <1> QED
    BY <1>1, <1>2, <1>4 DEF v, Behind

(* The call just made goes to the end of the queue. *)
LEMMA QueuedNext ==
    ASSUME NEW w \in Seq(Calls), NEW m \in Int, NEW in, NEW h, NEW c \in Calls, Queued(w, m, in, h),
           c = m + 1, in[c] = "none", h[c] = "none"
    PROVE  Append(w, c) \in Seq(Calls) /\ Queued(Append(w, c), c, in, h)
  <1>1. /\ Append(w, c) \in Seq(Calls) /\ Len(Append(w, c)) = Len(w) + 1 /\ Len(w) \in Nat
        /\ \A i \in 1..Len(w) : Append(w, c)[i] = w[i]
        /\ Append(w, c)[Len(w) + 1] = c
    BY AppendProperties, LenProperties
  <1>2. \A i \in 1..Len(w) : w[i] \in Int /\ w[i] =< m
    <2>1. \A i \in 1..Len(w) : w[i] \in Calls
      BY ElementOfSeq
    <2> QED
      BY <2>1, RealmAssumption DEF Queued, Calls
  <1>3. \A i \in 1..Len(Append(w, c)) : i \in 1..Len(w) \/ i = Len(w) + 1
    BY <1>1
  <1>4. c \in Int
    BY DEF Calls
  <1> HIDE DEF Queued
  <1>5. \A i \in 1..Len(w) : in[w[i]] = "none" /\ h[w[i]] = "none"
    BY DEF Queued
  <1>6. \A i, j \in 1..Len(w) : w[i] = w[j] => i = j
    BY DEF Queued
  <1>7. \A i \in 1..Len(Append(w, c)) : /\ Append(w, c)[i] =< c /\ in[Append(w, c)[i]] = "none"
                                        /\ h[Append(w, c)[i]] = "none"
    BY <1>1, <1>2, <1>3, <1>4, <1>5
  <1>8. \A i, j \in 1..Len(Append(w, c)) : Append(w, c)[i] = Append(w, c)[j] => i = j
    BY <1>1, <1>2, <1>3, <1>4, <1>6
  <1> QED
    BY <1>1, <1>7, <1>8 DEF Queued

-----------------------------------------------------------------------------
(* The guest's turns.                                                      *)

(* The invocations `out` differ from `in` only by some that have ended. *)
Closes(in, out) ==
    /\ out \in [Calls -> Invs]
    /\ \A c \in Calls : /\ out[c] = "open" => in[c] = "open"
                        /\ in[c] = "none" => out[c] = "none"

(* A guest turn begins no invocation and reopens none. *)
LEMMA TurnsClose ==
    ASSUME NEW in \in [Calls -> Invs], NEW out \in Turns(in)
    PROVE  Closes(in, out)
  BY DEF Turns, Closes, Invs

(* A fault in a resumed turn only ends invocations. *)
LEMMA FaultCloses ==
    ASSUME NEW in \in [Calls -> Invs], NEW mid, Closes(in, mid), NEW c \in Calls
    PROVE  Closes(in, SettleFault(c, mid))
  BY DEF SettleFault, Closes, Invs

(* So does an expiry. *)
LEMMA RejectedCloses ==
    ASSUME NEW in \in [Calls -> Invs], NEW X
    PROVE  Closes(in, [c \in Calls |-> IF c \in X /\ in[c] = "open" THEN "rejected" ELSE in[c]])
  BY DEF Closes, Invs

(* So does the discarding of the realm. *)
LEMMA ClosedAll ==
    ASSUME NEW in \in [Calls -> Invs]
    PROVE  Closes(in, [c \in Calls |-> IF in[c] = "open" THEN "rejected" ELSE in[c]])
  BY DEF Closes, Invs

-----------------------------------------------------------------------------
(* One lemma per step.                                                     *)

(* An empty queue, and one a deadline was dropped from, are queues. *)
LEMMA QueueTypes == EmptyQueue \in Queue(Calls) /\ \A q \in Queue(Calls), c \in Calls : Dropped(q, c) \in Queue(Calls)
  BY DEF Queue, EmptyQueue, Dropped, Never

(* A realm nobody has called satisfies the invariant. *)
LEMMA InitHolds == Init => RealmInv
  <1> SUFFICES ASSUME Init PROVE RealmInv
    OBVIOUS
  <1>1. Typed
    <2>1. << >> \in Seq(Calls) /\ EmptyQueue \in Queue(Calls)
      BY EmptySeq, QueueTypes
    <2>2. 0 \in 0..NCalls
      BY RealmAssumption
    <2> QED
      BY <2>1, <2>2 DEF Init, Typed, Deadlines, States, Invs, HostStates
  <1>2. Ordered
    BY EmptySeq DEF Init, Ordered, Queued, Unmade
  <1>3. DeadlinesWatched
    BY DEF Init, DeadlinesWatched, Watches, OpenIn, ParkedIn, EmptyQueue
  <1> QED
    BY <1>1, <1>2, <1>3 DEF Init, RealmInv, Unresumed, NoIdleWait, Exclusive

(* A call refused at admission touches nothing else. *)
LEMMA CallRefusedKeeps == RealmInv /\ CallRefused => RealmInv'
  <1> SUFFICES ASSUME RealmInv, CallRefused PROVE RealmInv'
    OBVIOUS
  <1>0. Typed /\ made + 1 \in Calls /\ made' = made + 1 /\ made' \in 0..NCalls /\ made \in Int
    <2>1. Typed
      BY DEF RealmInv
    <2>2. made \in 0..NCalls /\ made < NCalls /\ made' = made + 1
      BY <2>1 DEF Typed, CallRefused
    <2> QED
      BY <2>1, <2>2, RealmAssumption DEF Calls
  <1>1. Typed'
    BY <1>0 DEF Typed, CallRefused, hostCalls, States
  <1>2. Ordered'
    <2>1. Queued(waiting', made', inv', hc')
      <3>1. \A i \in 1..Len(waiting) : waiting[i] \in Int
        BY <1>0, ElementOfSeq, RealmAssumption DEF Typed, Calls
      <3> QED
        BY <1>0, <3>1 DEF CallRefused, hostCalls, RealmInv, Ordered, Queued
    <2>2. Unmade(made', state', inv', hc')
      BY <1>0, RealmAssumption DEF CallRefused, hostCalls, RealmInv, Ordered, Unmade, Typed, Calls
    <2> QED
      BY <2>1, <2>2 DEF Ordered
  <1>3. Unresumed'
    BY DEF RealmInv, Unresumed, CallRefused, hostCalls
  <1>4. DeadlinesWatched'
    BY DEF RealmInv, DeadlinesWatched, CallRefused, hostCalls
  <1> QED
    BY <1>1, <1>2, <1>3, <1>4 DEF RealmInv, NoIdleWait, Exclusive, CallRefused

(* Time alone breaks no promise: what is late is still watched. *)
LEMMA TickKeeps == RealmInv /\ Tick => RealmInv'
  BY DEF RealmInv, Typed, Ordered, Unresumed, DeadlinesWatched, NoIdleWait, Exclusive, Tick, hostCalls

(* dispose() rejects every open invocation and disarms every deadline; the *)
(* entries it leaves queued have enterNext on its way.                     *)
LEMMA DisposeKeeps == RealmInv /\ Dispose => RealmInv'
  <1> SUFFICES ASSUME RealmInv, Dispose PROVE RealmInv'
    OBVIOUS
  <1>0. Typed /\ Closes(inv, inv') /\ \A c \in Calls : inv'[c] # "open"
    BY ClosedAll DEF RealmInv, Typed, Dispose, Discard
  <1>1. Typed'
    BY <1>0, QueueTypes DEF Typed, Dispose, Discard, Closes
  <1>2. Ordered'
    <2>1. Queued(waiting, made, inv', hc)
      BY <1>0, QueuedLater DEF Closes, RealmInv, Ordered, Typed
    <2> QED
      BY <1>0, <2>1 DEF Dispose, RealmInv, Ordered, Unmade, Closes
  <1> QED
    BY <1>0, <1>1, <1>2 DEF RealmInv, Unresumed, DeadlinesWatched, NoIdleWait, Exclusive, Dispose, Discard

(* How an entry queue is left: of the callers only those of X have been    *)
(* told, and of the queue only they are gone.                              *)
Told(X, st, st2) ==
    /\ st2 \in [Calls -> States]
    /\ \A c \in Calls : st2[c] = "unmade" <=> st[c] = "unmade"
    /\ OpenIn(st2) = OpenIn(st) \ X

(* finish(): a caller is told once, and one that has not called is told    *)
(* nothing.                                                                *)
LEMMA FinishTells ==
    ASSUME NEW st \in [Calls -> States], NEW X, NEW told \in [Calls -> {"answered", "failed", "late", "refused"}]
    PROVE  Told(X, st, [c \in Calls |-> IF c \in X THEN Finish(st, c, told[c]) ELSE st[c]])
  <1> DEFINE st2 == [c \in Calls |-> IF c \in X THEN Finish(st, c, told[c]) ELSE st[c]]
  <1>1. \A c \in Calls : /\ st2[c] \in States
                         /\ st2[c] = "unmade" <=> st[c] = "unmade"
                         /\ st2[c] = "open" <=> st[c] = "open" /\ c \notin X
    BY DEF Finish, States
  <1> QED
    BY <1>1 DEF Told, OpenIn

(* expire(): the callers of X have been told, their invocations ended, and *)
(* the realm is let go only by an invocation that is over.                 *)
LEMMA ExpireFacts ==
    ASSUME Typed, NEW st \in [Calls -> States], NEW X, Expire(X, st)
    PROVE  /\ Told(X, st, state')
           /\ Closes(inv, inv')
           /\ running' \in Calls \union {0}
           /\ running' # running => inv'[running] # "open"
           /\ running # 0 => running' \in {0, running}
           /\ running = 0 => running' = 0
  <1>1. Told(X, st, state')
    <2>1. [c \in Calls |-> "late"] \in [Calls -> {"answered", "failed", "late", "refused"}]
      OBVIOUS
    <2>2. Told(X, st, [c \in Calls |-> IF c \in X THEN Finish(st, c, [d \in Calls |-> "late"][c]) ELSE st[c]])
      BY <2>1, FinishTells
    <2> QED
      BY <2>2 DEF Expire
  <1>2. Closes(inv, inv')
    BY RejectedCloses DEF Expire, Typed
  <1>3. running' \in Calls \union {0} /\ (running # 0 => running' \in {0, running}) /\ (running = 0 => running' = 0)
    BY DEF Typed, Expire, Release
  <1>4. running' # running => inv'[running] # "open"
    <2>1. ASSUME running' # running PROVE running \in X /\ running \in Calls
      BY <2>1 DEF Typed, Expire, Release
    <2> QED
      BY <2>1 DEF Typed, Expire, Invs
  <1> QED
    BY <1>1, <1>2, <1>3, <1>4

(* The entry timer fires. *)
LEMMA EntryTimerKeeps == RealmInv /\ EntryTimer => RealmInv'
  <1> SUFFICES ASSUME RealmInv, EntryTimer PROVE RealmInv'
    OBVIOUS
  <1> DEFINE X == DueAt(eq, at, now)
  <1>0. Typed /\ Expire(X, state) /\ eq' = Armed(eq, at, now) /\ Pump(waiting, running')
        /\ UNCHANGED <<now, alive, made, at, waiting, deferred, yields, hostCalls>>
    BY DEF RealmInv, EntryTimer
  <1>1. /\ Told(X, state, state')
        /\ Closes(inv, inv')
        /\ running' \in Calls \union {0}
        /\ running' # running => inv'[running] # "open"
        /\ running # 0 => running' \in {0, running}
    BY <1>0, ExpireFacts DEF Typed
  <1>a. alive
    <2>1. eq # EmptyQueue
      BY DEF EntryTimer, EmptyQueue
    <2> QED
      BY <2>1 DEF RealmInv, DeadlinesWatched
  <1>2. eq' \in Queue(Calls) /\ Watches(eq', at, OpenIn(state) \ X)
    <2>1. /\ at \in [Calls -> Deadlines] /\ now \in Nat /\ eq \in Queue(Calls) /\ OpenIn(state) \in SUBSET Calls
          /\ eq.pending = {d \in OpenIn(state) : at[d] # Never}
      BY <1>0, <1>a DEF RealmInv, DeadlinesWatched, Watches, Typed, OpenIn
    <2> QED
      BY <1>0, <2>1, ArmedWatches
  <1>3. Typed'
    <2>1. pumping' \in BOOLEAN
      BY <1>0 DEF Pump, Pumps, Typed
    <2> QED
      BY <1>0, <1>1, <1>2, <2>1 DEF Typed, Told, Closes, hostCalls
  <1>4. Ordered'
    <2>1. Queued(waiting, made, inv', hc)
      BY <1>0, <1>1, QueuedLater DEF Closes, RealmInv, Ordered, Typed
    <2>2. Unmade(made, state', inv', hc)
      BY <1>1 DEF RealmInv, Ordered, Unmade, Closes, Told
    <2> QED
      BY <1>0, <2>1, <2>2 DEF Ordered, hostCalls
  <1>5. DeadlinesWatched'
    BY <1>0, <1>1, <1>2, <1>a DEF DeadlinesWatched, RealmInv, Told, hostCalls
  <1>6. NoIdleWait'
    BY <1>0 DEF NoIdleWait, Pump, Pumps
  <1>7. Exclusive'
    BY <1>0, <1>1 DEF RealmInv, Exclusive, Closes
  <1>8. Unresumed'
    BY <1>0 DEF RealmInv, Unresumed, hostCalls
  <1> QED
    BY <1>3, <1>4, <1>5, <1>6, <1>7, <1>8 DEF RealmInv

(* An invocation's result: its caller told, its deadline dropped, the      *)
(* realm let go only if it held it.                                        *)
LEMMA ResultKeeps ==
    ASSUME RealmInv, NEW c \in Calls, Result(c)
    PROVE  RealmInv'
  <1> DEFINE told == IF inv[c] = "answered" THEN "answered" ELSE "failed"
  <1>0. /\ Typed /\ inv[c] \in {"answered", "rejected"} /\ inv' = [inv EXCEPT ![c] = "over"]
        /\ eq' = Dropped(eq, c) /\ running' = Release(running, {c}) /\ Pump(waiting, running')
        /\ state' = [state EXCEPT ![c] = Finish(state, c, told)]
        /\ UNCHANGED <<now, alive, made, at, waiting, deferred, yields, hostCalls>>
    BY DEF RealmInv, Result
  <1>1. Told({c}, state, state')
    <2> DEFINE tells == [d \in Calls |-> told]
    <2>1. tells \in [Calls -> {"answered", "failed", "late", "refused"}] /\ tells[c] = told
      OBVIOUS
    <2> HIDE DEF tells, told
    <2>a. state \in [Calls -> States]
      BY <1>0 DEF Typed
    <2>2. Told({c}, state, [d \in Calls |-> IF d \in {c} THEN Finish(state, d, tells[d]) ELSE state[d]])
      BY <2>a, <2>1, FinishTells
    <2>3. state' = [d \in Calls |-> IF d \in {c} THEN Finish(state, d, tells[d]) ELSE state[d]]
      BY <1>0, <2>a, <2>1
    <2> QED
      BY <2>2, <2>3
  <1>2. Closes(inv, inv') /\ inv'[c] # "open"
    BY <1>0 DEF Closes, Typed, Invs
  <1>3. eq' \in Queue(Calls) /\ eq'.timer = eq.timer /\ eq'.pending = eq.pending \ {c}
    BY <1>0, QueueTypes DEF Dropped, Typed, Queue
  <1>4. Typed'
    <2>1. pumping' \in BOOLEAN /\ running' \in Calls \union {0}
      BY <1>0 DEF Pump, Pumps, Typed, Release
    <2> QED
      BY <1>0, <1>1, <1>2, <1>3, <2>1 DEF Typed, Told, Closes, hostCalls
  <1>5. Ordered'
    <2>1. Queued(waiting, made, inv', hc)
      <3>1. waiting \in Seq(Calls) /\ made \in Int /\ Queued(waiting, made, inv, hc)
        BY <1>0 DEF RealmInv, Ordered, Typed
      <3>2. \A d \in Calls : inv[d] = "none" => inv'[d] = "none"
        BY <1>2 DEF Closes
      <3> QED
        BY <3>1, <3>2, QueuedLater
    <2>2. Unmade(made, state', inv', hc)
      BY <1>1, <1>2 DEF RealmInv, Ordered, Unmade, Closes, Told
    <2> QED
      BY <1>0, <2>1, <2>2 DEF Ordered, hostCalls
  <1>6. DeadlinesWatched'
    <2>1. CASE alive
      <3>1. Watches(eq', at, OpenIn(state) \ {c})
        BY <1>3, <2>1, KeptWatches DEF RealmInv, DeadlinesWatched
      <3> QED
        BY <1>0, <1>1, <2>1, <3>1 DEF RealmInv, DeadlinesWatched, Told, hostCalls
    <2>2. CASE ~alive
      BY <1>0, <2>2 DEF RealmInv, DeadlinesWatched, hostCalls, EmptyQueue, Dropped
    <2> QED
      BY <2>1, <2>2
  <1>7. NoIdleWait'
    BY <1>0 DEF NoIdleWait, Pump, Pumps
  <1>8. Exclusive'
    BY <1>0, <1>2 DEF RealmInv, Exclusive, Closes, Release
  <1>9. Unresumed'
    BY <1>0 DEF RealmInv, Unresumed, hostCalls
  <1> QED
    BY <1>4, <1>5, <1>6, <1>7, <1>8, <1>9 DEF RealmInv

(* A deferred invocation lets go of the realm; from then on it may be open *)
(* beside another.                                                         *)
LEMMA YieldKeeps ==
    ASSUME RealmInv, NEW c \in Calls, Yield(c)
    PROVE  RealmInv'
  <1>0. /\ Typed /\ c \in yields /\ yields' = yields \ {c}
        /\ running' = Release(running, {c}) /\ Pump(waiting, running')
        /\ UNCHANGED <<now, alive, made, at, state, waiting, inv, deferred, eq, hostCalls>>
    BY DEF RealmInv, Yield
  <1>1. Typed'
    <2>1. pumping' \in BOOLEAN /\ running' \in Calls \union {0}
      BY <1>0 DEF Pump, Pumps, Typed, Release
    <2> QED
      BY <1>0, <2>1 DEF Typed, hostCalls
  <1>2. Ordered' /\ Unresumed' /\ DeadlinesWatched'
    BY <1>0 DEF RealmInv, Ordered, Unresumed, DeadlinesWatched, hostCalls
  <1>3. NoIdleWait'
    BY <1>0 DEF NoIdleWait, Pump, Pumps
  <1>4. Exclusive'
    BY <1>0 DEF RealmInv, Exclusive, Release, Typed
  <1> QED
    BY <1>1, <1>2, <1>3, <1>4 DEF RealmInv

(* The queue after deadline c, if it has one, is added, and who is late. *)
AddedTo(q, due, t, c) == IF due[c] = Never THEN q ELSE Added(q, due, t, c)
LateWith(q, due, t, c) == IF due[c] = Never THEN {} ELSE AddExpires(q, due, t, c)

AddedRight(q, due, t, c, D) ==
    /\ AddedTo(q, due, t, c) \in Queue(Calls)
    /\ Watches(AddedTo(q, due, t, c), due, (D \union {c}) \ LateWith(q, due, t, c))
    /\ LateWith(q, due, t, c) \subseteq D \union {c}

(* A deadline added beside those already watched, or none to add. *)
LEMMA WatchesLater ==
    ASSUME NEW D \in SUBSET Calls, NEW due, NEW due1 \in [Calls -> Deadlines],
           NEW t \in Nat, NEW q \in Queue(Calls), NEW c \in Calls, c \notin D, Watches(q, due, D),
           \A d \in Calls : d # c => due1[d] = due[d]
    PROVE  AddedRight(q, due1, t, c, D)
  <1>1. \A d \in D : due1[d] = due[d]
    OBVIOUS
  <1>2. Watches(q, due1, D)
    BY <1>1 DEF Watches
  <1>3. CASE due1[c] = Never
    BY <1>1, <1>2, <1>3 DEF Watches, AddedRight, AddedTo, LateWith
  <1>4. CASE due1[c] # Never
    BY <1>2, <1>4, AddedWatches DEF AddedRight, AddedTo, LateWith
  <1> QED
    BY <1>3, <1>4

(* A deadline is a time or Never. *)
LEMMA DeadlineTyped ==
    ASSUME Typed, NEW ms \in CallMs
    PROVE  DeadlineAt(ms) \in Deadlines
  BY RealmAssumption DEF Typed, DeadlineAt, Sooner, Deadlines, Never

(* A call admitted: queued behind the others and watched, or late in the   *)
(* call itself.                                                            *)
LEMMA CallKeeps ==
    ASSUME RealmInv, NEW ms \in CallMs, Call(ms)
    PROVE  RealmInv'
  <1> DEFINE c == made + 1
             at1 == [at EXCEPT ![c] = DeadlineAt(ms)]
             late == LateWith(eq, at1, now, c)
             st == [state EXCEPT ![c] = "open"]
             D == OpenIn(state)
  <1>0. /\ Typed /\ made < NCalls /\ alive /\ made' = c /\ at' = at1
        /\ eq' = AddedTo(eq, at1, now, c)
        /\ Expire(late, st)
        /\ waiting' = IF c \in late THEN waiting ELSE Append(waiting, c)
        /\ Pump(waiting', running')
        /\ UNCHANGED <<now, alive, deferred, yields, hostCalls>>
    BY DEF RealmInv, Call, AddedTo, LateWith
  <1>1. c \in Calls /\ made \in Int /\ c \in 0..NCalls
    <2>1. made \in 0..NCalls
      BY <1>0 DEF Typed
    <2> QED
      BY <1>0, <2>1, RealmAssumption DEF Calls
  <1>2. state[c] = "unmade" /\ inv[c] = "none" /\ hc[c] = "none"
    BY <1>1 DEF RealmInv, Ordered, Unmade
  <1>3. at1 \in [Calls -> Deadlines] /\ \A d \in Calls : d # c => at1[d] = at[d]
    BY <1>0, <1>1, DeadlineTyped DEF Typed
  <1>4. st \in [Calls -> States] /\ OpenIn(st) = D \union {c} /\ D \in SUBSET Calls /\ c \notin D
    BY <1>0, <1>1, <1>2 DEF Typed, States, OpenIn
  <1>5. eq' \in Queue(Calls) /\ Watches(eq', at1, (D \union {c}) \ late)
    <2>1. at \in [Calls -> Deadlines] /\ now \in Nat /\ eq \in Queue(Calls) /\ Watches(eq, at, D)
      BY <1>0 DEF Typed, RealmInv, DeadlinesWatched
    <2> HIDE DEF c, at1, D
    <2>2. AddedRight(eq, at1, now, c, D)
      BY <1>1, <1>3, <1>4, <2>1, WatchesLater
    <2> QED
      BY <1>0, <2>2 DEF AddedRight
  <1> HIDE DEF at1, late, D
  <1>6. /\ Told(late, st, state')
        /\ Closes(inv, inv')
        /\ running' \in Calls \union {0}
        /\ running' # running => inv'[running] # "open"
    <2> HIDE DEF st
    <2> QED
      BY <1>0, <1>4, ExpireFacts
  <1>7. waiting' \in Seq(Calls) /\ Queued(waiting', c, inv', hc)
    <2>1. waiting \in Seq(Calls) /\ Queued(waiting, made, inv, hc)
      BY <1>0 DEF RealmInv, Ordered, Typed
    <2>2. inv'[c] = "none" /\ \A d \in Calls : inv[d] = "none" => inv'[d] = "none"
      BY <1>1, <1>2, <1>6 DEF Closes
    <2>3. Queued(waiting, made, inv', hc)
      BY <1>1, <2>1, <2>2, QueuedLater
    <2>4. Append(waiting, c) \in Seq(Calls) /\ Queued(Append(waiting, c), c, inv', hc)
      BY <1>1, <1>2, <2>1, <2>2, <2>3, QueuedNext
    <2>5. Queued(waiting, c, inv', hc)
      <3>1. \A i \in 1..Len(waiting) : waiting[i] \in Int
        BY <2>1, ElementOfSeq, RealmAssumption DEF Calls
      <3> QED
        BY <1>1, <2>3, <3>1 DEF Queued
    <2> QED
      BY <1>0, <2>1, <2>4, <2>5
  <1>8. Typed'
    <2>1. pumping' \in BOOLEAN
      BY <1>0 DEF Pump, Pumps, Typed
    <2> HIDE DEF c, st
    <2> QED
      BY <1>0, <1>1, <1>3, <1>5, <1>6, <1>7, <2>1 DEF Typed, Told, Closes, hostCalls
  <1>9. Ordered'
    <2>1. Unmade(c, state', inv', hc)
      <3> SUFFICES ASSUME NEW d \in Calls, d > c PROVE state'[d] = "unmade" /\ inv'[d] = "none" /\ hc[d] = "none"
        BY DEF Unmade
      <3>1. d > made /\ d # c
        BY <1>1, RealmAssumption DEF Calls
      <3>2. state[d] = "unmade" /\ inv[d] = "none" /\ hc[d] = "none"
        BY <3>1 DEF RealmInv, Ordered, Unmade
      <3>3. st[d] = "unmade"
        BY <1>0, <3>1, <3>2 DEF Typed
      <3> QED
        BY <1>6, <3>2, <3>3 DEF Told, Closes
    <2> QED
      BY <1>0, <1>7, <2>1 DEF Ordered, hostCalls
  <1>10. DeadlinesWatched'
    <2> HIDE DEF c, st
    <2> QED
      BY <1>0, <1>4, <1>5, <1>6 DEF DeadlinesWatched, RealmInv, Told, hostCalls
  <1>11. NoIdleWait'
    BY <1>0 DEF NoIdleWait, Pump, Pumps
  <1>12. Exclusive'
    BY <1>0, <1>6 DEF RealmInv, Exclusive, Closes
  <1>13. Unresumed'
    BY <1>0 DEF RealmInv, Unresumed, hostCalls
  <1> QED
    BY <1>8, <1>9, <1>10, <1>11, <1>12, <1>13 DEF RealmInv

(* enterNext tells the entries it passes over, and stops watching just     *)
(* those.                                                                  *)
LEMMA SkippedFacts ==
    ASSUME Typed, NEW k, SettleSkipped(k), NEW X, X = {c \in Calls : Skipped(c, k)}
    PROVE  /\ Told(X, state, state')
           /\ Unwatch(eq, k) \in Queue(Calls)
           /\ Unwatch(eq, k).timer = eq.timer
           /\ Unwatch(eq, k).pending = eq.pending \ X
  <1> DEFINE tells == [c \in Calls |-> IF at[c] # Never /\ now >= at[c] THEN "late" ELSE "refused"]
  <1>1. /\ tells \in [Calls -> {"answered", "failed", "late", "refused"}]
        /\ \A c \in Calls : tells[c] = IF at[c] # Never /\ now >= at[c] THEN "late" ELSE "refused"
    OBVIOUS
  <1>2. state \in [Calls -> States] /\ eq \in Queue(Calls)
    BY DEF Typed
  <1> HIDE DEF tells
  <1>3. state' = [c \in Calls |-> IF c \in X THEN Finish(state, c, tells[c]) ELSE state[c]]
    BY <1>1 DEF SettleSkipped
  <1>4. Told(X, state, state')
    BY <1>1, <1>2, <1>3, FinishTells
  <1>5. /\ Unwatch(eq, k) \in Queue(Calls) /\ Unwatch(eq, k).timer = eq.timer
        /\ Unwatch(eq, k).pending = eq.pending \ X
    BY <1>2 DEF Unwatch, Queue
  <1> QED
    BY <1>4, <1>5

(* enterNext lets nobody in: the realm is held, or the queue is emptied. *)
LEMMA EnterNobodyKeeps == RealmInv /\ EnterNobody => RealmInv'
  <1> SUFFICES ASSUME RealmInv, EnterNobody PROVE RealmInv'
    OBVIOUS
  <1>0. Typed /\ pumping' = FALSE /\ UNCHANGED <<now, alive, made, at, running, inv, deferred, yields, hostCalls>>
    BY DEF RealmInv, EnterNobody
  <1>1. CASE running # 0 /\ UNCHANGED <<state, eq, waiting>>
    BY <1>0, <1>1 DEF RealmInv, Typed, Ordered, Unresumed, DeadlinesWatched, NoIdleWait, Exclusive, hostCalls
  <1>2. CASE running = 0 /\ SettleSkipped(Len(waiting)) /\ eq' = Unwatch(eq, Len(waiting)) /\ waiting' = << >>
    <2> DEFINE X == {c \in Calls : Skipped(c, Len(waiting))}
    <2>1. /\ Told(X, state, state') /\ eq' \in Queue(Calls) /\ eq'.timer = eq.timer
          /\ eq'.pending = eq.pending \ X
      BY <1>0, <1>2, SkippedFacts
    <2>2. << >> \in Seq(Calls) /\ Len(<< >>) = 0
      BY EmptySeq
    <2> HIDE DEF X
    <2>3. Typed'
      BY <1>0, <1>2, <2>1, <2>2 DEF Typed, Told, hostCalls
    <2>4. Ordered'
      BY <1>0, <1>2, <2>1, <2>2 DEF RealmInv, Ordered, Queued, Unmade, Told, hostCalls
    <2>5. DeadlinesWatched'
      <3>1. CASE alive
        <4>1. Watches(eq', at, OpenIn(state) \ X)
          BY <2>1, <3>1, KeptWatches DEF RealmInv, DeadlinesWatched
        <4> QED
          BY <1>0, <2>1, <3>1, <4>1 DEF RealmInv, DeadlinesWatched, Told, hostCalls
      <3>2. CASE ~alive
        <4>1. eq = EmptyQueue /\ hq = EmptyQueue
          BY <3>2 DEF RealmInv, DeadlinesWatched
        <4>2. eq' = EmptyQueue
          BY <1>2, <4>1 DEF EmptyQueue, Unwatch
        <4> QED
          BY <1>0, <3>2, <4>1, <4>2 DEF DeadlinesWatched, hostCalls
      <3> QED
        BY <3>1, <3>2
    <2> QED
      BY <1>0, <1>2, <2>3, <2>4, <2>5 DEF RealmInv, Unresumed, NoIdleWait, Exclusive, hostCalls
  <1> QED
    BY <1>1, <1>2 DEF EnterNobody

(* enterNext lets an entry in: it has not run, it is nobody else's turn,   *)
(* and the entry deadlines are those of the callers not yet told.          *)
LEMMA AdmitFacts ==
    ASSUME RealmInv, NEW k \in 0..(NCalls - 1), Admit(k), NEW X, X = {c \in Calls : Skipped(c, k)}
    PROVE  /\ waiting[k + 1] \in Calls /\ waiting[k + 1] =< made
           /\ inv[waiting[k + 1]] = "none" /\ hc[waiting[k + 1]] = "none"
           /\ alive /\ running = 0 /\ running' = waiting[k + 1] /\ pumping' = FALSE
           /\ waiting' = SubSeq(waiting, k + 2, Len(waiting))
           /\ UNCHANGED <<now, made, at>>
           /\ Told(X, state, state')
           /\ Unwatch(eq, k) \in Queue(Calls)
           /\ Watches(Unwatch(eq, k), at, OpenIn(state'))
  <1>1. Typed /\ k < Len(waiting) /\ k \in Nat /\ alive
    BY RealmAssumption DEF RealmInv, Admit, Enters
  <1>2. k + 1 \in 1..Len(waiting)
    BY <1>1, LenProperties DEF Typed
  <1>3. waiting[k + 1] \in Calls
    BY <1>1, <1>2, ElementOfSeq DEF Typed
  <1>4. waiting[k + 1] =< made /\ inv[waiting[k + 1]] = "none" /\ hc[waiting[k + 1]] = "none"
    BY <1>2 DEF RealmInv, Ordered, Queued
  <1>5. /\ Told(X, state, state') /\ Unwatch(eq, k) \in Queue(Calls)
        /\ Unwatch(eq, k).timer = eq.timer /\ Unwatch(eq, k).pending = eq.pending \ X
    BY <1>1, SkippedFacts DEF Admit
  <1>6. Watches(Unwatch(eq, k), at, OpenIn(state) \ X)
    BY <1>1, <1>5, KeptWatches DEF RealmInv, DeadlinesWatched
  <1> QED
    BY <1>1, <1>3, <1>4, <1>5, <1>6 DEF Admit, Told

(* What entering leaves: call c's invocation and host call aside, nothing  *)
(* has begun that had not.                                                 *)
OnlyBegins(c, old, new) == \A d \in Calls : d # c => (old[d] = "none" => new[d] = "none")

(* Whatever the turn does, entering keeps the invariant so long as only    *)
(* the entered call begins anything and the deadlines are watched: with    *)
(* the realm let go, every other open invocation has yielded.              *)
LEMMA EnterKeeps ==
    ASSUME RealmInv, NEW k \in 0..(NCalls - 1), Admit(k), NEW c \in Calls, c = waiting[k + 1],
           inv' \in [Calls -> Invs], OnlyBegins(c, inv, inv'),
           \A d \in Calls : d # c => (inv'[d] = "open" => inv[d] = "open"),
           \/ UNCHANGED <<deferred, yields>>
           \/ deferred' = deferred \union {c} /\ yields' = yields \union {c},
           hc' \in [Calls -> HostStates], OnlyBegins(c, hc, hc'),
           \A d \in Calls : hc'[d] # "settled" => hc[d] # "settled",
           hat' \in [Calls -> Deadlines], fresh' \in SUBSET Calls, UNCHANGED resumed,
           alive' \in BOOLEAN, eq' \in Queue(Calls), hq' \in Queue(Calls), DeadlinesWatched'
    PROVE  RealmInv'
  <1> DEFINE X == {d \in Calls : Skipped(d, k)}
  <1>1. /\ c =< made /\ running = 0 /\ running' = c /\ pumping' = FALSE
        /\ waiting' = SubSeq(waiting, k + 2, Len(waiting)) /\ UNCHANGED <<now, made, at>>
        /\ Told(X, state, state')
    BY AdmitFacts
  <1> HIDE DEF X
  <1>2. waiting \in Seq(Calls) /\ made \in Int /\ Queued(waiting, made, inv, hc) /\ k \in Nat /\ k < Len(waiting)
    BY RealmAssumption DEF RealmInv, Typed, Ordered, Admit
  <1>3. waiting' \in Seq(Calls) /\ Queued(waiting', made, inv', hc')
    <2>1. \A d \in Calls : d # waiting[k + 1] => (inv[d] = "none" => inv'[d] = "none") /\ (hc[d] = "none" => hc'[d] = "none")
      BY DEF OnlyBegins
    <2>2. Behind(waiting, k, made, inv', hc')
      BY <1>2, <2>1, QueuedBehind
    <2> QED
      BY <1>1, <2>2 DEF Behind
  <1>4. Typed'
    BY <1>1, <1>3 DEF RealmInv, Typed, Told
  <1>5. Ordered'
    <2>1. \A d \in Calls : d > made => d # c
      BY <1>1, <1>2, RealmAssumption DEF Calls
    <2>2. Unmade(made, state', inv', hc')
      BY <1>1, <2>1 DEF RealmInv, Ordered, Unmade, Told, OnlyBegins
    <2> QED
      BY <1>1, <1>3, <2>2 DEF Ordered
  <1>6. Exclusive'
    <2> SUFFICES ASSUME NEW d \in Calls, inv'[d] = "open", d \notin (deferred' \ yields'), d # c PROVE FALSE
      BY <1>1 DEF Exclusive
    <2>1. inv[d] = "open" /\ running # d
      BY <1>1, RealmAssumption DEF Calls
    <2>2. d \in deferred \ yields
      BY <2>1 DEF RealmInv, Exclusive
    <2> QED
      BY <2>2
  <1>7. NoIdleWait'
    BY <1>1, RealmAssumption DEF NoIdleWait, Calls
  <1>8. Unresumed'
    BY DEF RealmInv, Unresumed
  <1> QED
    BY <1>4, <1>5, <1>6, <1>7, <1>8 DEF RealmInv

(* settleByDeadline: a host call is parked once and watched, unless it has *)
(* no deadline; those the arming finds late are no longer parked.          *)
LEMMA ParkFacts ==
    ASSUME RealmInv, alive, NEW c \in Calls, hc[c] = "none", NEW ms \in HostMs, Park(c, ms)
    PROVE  /\ hat' \in [Calls -> Deadlines]
           /\ hq' \in Queue(Calls)
           /\ hc' \in [Calls -> HostStates]
           /\ fresh' \in SUBSET Calls
           /\ resumed' = resumed
           /\ OnlyBegins(c, hc, hc')
           /\ \A d \in Calls : hc'[d] # "settled" => hc[d] # "settled"
           /\ Watches(hq', hat', ParkedIn(hc'))
  <1> DEFINE at1 == [hat EXCEPT ![c] = IF ms = Never THEN Never ELSE now + ms]
             late == LateWith(hq, at1, now, c)
             D == ParkedIn(hc)
  <1>0. /\ now \in Nat /\ hat \in [Calls -> Deadlines] /\ hq \in Queue(Calls) /\ hc \in [Calls -> HostStates]
        /\ fresh \in SUBSET Calls /\ Watches(hq, hat, D) /\ D \in SUBSET Calls /\ c \notin D
    BY DEF RealmInv, Typed, DeadlinesWatched, ParkedIn
  <1>1. /\ at1 \in [Calls -> Deadlines] /\ (\A d \in Calls : d # c => at1[d] = hat[d])
        /\ at1[c] = Never <=> ms = Never
    BY <1>0, RealmAssumption DEF Deadlines, Never
  <1>2. /\ hat' = at1
        /\ hq' = AddedTo(hq, at1, now, c)
        /\ hc' = [d \in Calls |-> IF d \in late THEN "late" ELSE IF d = c THEN "parked" ELSE hc[d]]
        /\ fresh' \in {fresh, fresh \union {c}} /\ resumed' = resumed
    BY <1>1 DEF Park, AddedTo, LateWith
  <1> HIDE DEF at1, late, D
  <1>4. hq' \in Queue(Calls) /\ Watches(hq', at1, (D \union {c}) \ late) /\ late \subseteq D \union {c}
    <2>1. AddedRight(hq, at1, now, c, D)
      BY <1>0, <1>1, WatchesLater
    <2> QED
      BY <1>2, <2>1 DEF AddedRight, late
  <1>5. \A d \in Calls : d \in D <=> hc[d] = "parked"
    BY DEF D, ParkedIn
  <1>6. hc' \in [Calls -> HostStates] /\ \A d \in Calls : hc'[d] = "parked" <=> d \in (D \union {c}) \ late
    BY <1>0, <1>2, <1>5 DEF HostStates
  <1>7. ParkedIn(hc') = (D \union {c}) \ late
    BY <1>0, <1>6 DEF ParkedIn
  <1>8. OnlyBegins(c, hc, hc') /\ \A d \in Calls : hc'[d] # "settled" => hc[d] # "settled"
    BY <1>2, <1>4, <1>5 DEF OnlyBegins
  <1> QED
    BY <1>0, <1>1, <1>2, <1>4, <1>6, <1>7, <1>8

(* The turn ends, deferring its answer or not. *)
LEMMA EnterRunsKeeps ==
    ASSUME RealmInv, NEW k \in 0..(NCalls - 1), NEW defers \in BOOLEAN, EnterRuns(k, defers)
    PROVE  RealmInv'
  <1> DEFINE c == waiting[k + 1]
             in == [inv EXCEPT ![c] = "open"]
  <1>0. /\ Admit(k) /\ inv' \in Turns(in) /\ eq' = Unwatch(eq, k) /\ UNCHANGED <<alive, hostCalls>>
        /\ \/ UNCHANGED <<deferred, yields>>
           \/ deferred' = deferred \union {c} /\ yields' = yields \union {c}
    BY DEF EnterRuns
  <1>1. c \in Calls /\ alive /\ at' = at /\ eq' \in Queue(Calls) /\ Watches(eq', at, OpenIn(state'))
    BY <1>0, AdmitFacts
  <1>2. Typed /\ DeadlinesWatched
    BY DEF RealmInv
  <1>3. in \in [Calls -> Invs] /\ \A d \in Calls : d # c => in[d] = inv[d]
    BY <1>1, <1>2 DEF Typed, Invs
  <1> HIDE DEF c, in
  <1>4. Closes(in, inv')
    BY <1>0, <1>3, TurnsClose
  <1>5. DeadlinesWatched'
    BY <1>0, <1>1, <1>2 DEF DeadlinesWatched, hostCalls
  <1>6. /\ inv' \in [Calls -> Invs] /\ OnlyBegins(c, inv, inv')
        /\ \A d \in Calls : d # c => (inv'[d] = "open" => inv[d] = "open")
    BY <1>3, <1>4 DEF Closes, OnlyBegins
  <1>7. /\ hc' \in [Calls -> HostStates] /\ OnlyBegins(c, hc, hc')
        /\ \A d \in Calls : hc'[d] # "settled" => hc[d] # "settled"
        /\ hat' \in [Calls -> Deadlines] /\ fresh' \in SUBSET Calls /\ resumed' = resumed
        /\ alive' \in BOOLEAN /\ hq' \in Queue(Calls)
    BY <1>0, <1>2 DEF Typed, hostCalls, OnlyBegins
  <1> QED
    BY <1>0, <1>1, <1>5, <1>6, <1>7, EnterKeeps DEF c

(* The turn parks on a host call. *)
LEMMA EnterParksKeeps ==
    ASSUME RealmInv, NEW k \in 0..(NCalls - 1), NEW defers \in BOOLEAN, NEW ms \in HostMs, EnterParks(k, defers, ms)
    PROVE  RealmInv'
  <1> DEFINE c == waiting[k + 1]
  <1>0. /\ Admit(k) /\ inv' = [inv EXCEPT ![c] = "open"] /\ eq' = Unwatch(eq, k) /\ UNCHANGED alive
        /\ Park(c, ms)
        /\ \/ UNCHANGED <<deferred, yields>>
           \/ deferred' = deferred \union {c} /\ yields' = yields \union {c}
    BY DEF EnterParks
  <1>1. c \in Calls /\ hc[c] = "none" /\ alive /\ at' = at /\ eq' \in Queue(Calls) /\ Watches(eq', at, OpenIn(state'))
    BY <1>0, AdmitFacts
  <1> HIDE DEF c
  <1>2. /\ hat' \in [Calls -> Deadlines] /\ hq' \in Queue(Calls)
        /\ hc' \in [Calls -> HostStates] /\ fresh' \in SUBSET Calls /\ resumed' = resumed
        /\ OnlyBegins(c, hc, hc')
        /\ \A d \in Calls : hc'[d] # "settled" => hc[d] # "settled"
        /\ Watches(hq', hat', ParkedIn(hc'))
    BY <1>0, <1>1, ParkFacts
  <1>3. DeadlinesWatched'
    BY <1>0, <1>1, <1>2 DEF DeadlinesWatched
  <1>4. /\ inv' \in [Calls -> Invs] /\ OnlyBegins(c, inv, inv')
        /\ \A d \in Calls : d # c => (inv'[d] = "open" => inv[d] = "open")
    BY <1>0, <1>1 DEF RealmInv, Typed, OnlyBegins, Invs
  <1> QED
    BY <1>0, <1>1, <1>2, <1>3, <1>4, EnterKeeps DEF c

(* The turn is interrupted or out of memory. *)
LEMMA EnterFaultsKeeps ==
    ASSUME RealmInv, NEW k \in 0..(NCalls - 1), EnterFaults(k)
    PROVE  RealmInv'
  <1> DEFINE c == waiting[k + 1]
  <1>0. /\ Admit(k) /\ eq' = Unwatch(eq, k) /\ UNCHANGED <<alive, deferred, yields, hostCalls>>
        /\ \E r \in {"answered", "rejected"} : inv' = [inv EXCEPT ![c] = r]
    BY DEF EnterFaults
  <1>1. c \in Calls /\ alive /\ at' = at /\ eq' \in Queue(Calls) /\ Watches(eq', at, OpenIn(state'))
    BY <1>0, AdmitFacts
  <1> HIDE DEF c
  <1>2. Typed /\ DeadlinesWatched
    BY DEF RealmInv
  <1>3. DeadlinesWatched'
    BY <1>0, <1>1, <1>2 DEF DeadlinesWatched, hostCalls
  <1>4. /\ inv' \in [Calls -> Invs] /\ OnlyBegins(c, inv, inv')
        /\ \A d \in Calls : d # c => (inv'[d] = "open" => inv[d] = "open")
    BY <1>0, <1>1 DEF RealmInv, Typed, OnlyBegins, Invs
  <1>5. /\ hc' \in [Calls -> HostStates] /\ OnlyBegins(c, hc, hc')
        /\ \A d \in Calls : hc'[d] # "settled" => hc[d] # "settled"
        /\ hat' \in [Calls -> Deadlines] /\ fresh' \in SUBSET Calls /\ resumed' = resumed
        /\ alive' \in BOOLEAN /\ hq' \in Queue(Calls)
    BY <1>0, <1>2 DEF Typed, hostCalls, OnlyBegins
  <1> QED
    BY <1>0, <1>1, <1>3, <1>4, <1>5, EnterKeeps DEF c

(* The engine traps, and the realm is discarded. *)
LEMMA EnterTrapsKeeps ==
    ASSUME RealmInv, NEW k \in 0..(NCalls - 1), EnterTraps(k)
    PROVE  RealmInv'
  <1> DEFINE c == waiting[k + 1]
             in == [inv EXCEPT ![c] = "open"]
  <1>0. /\ Admit(k) /\ UNCHANGED <<deferred, yields, hc, fresh, hat, resumed>>
        /\ ~alive' /\ alive' \in BOOLEAN /\ eq' = EmptyQueue /\ hq' = EmptyQueue
        /\ inv' = [d \in Calls |-> IF in[d] = "open" THEN "rejected" ELSE in[d]]
    BY DEF EnterTraps, Discard
  <1>1. c \in Calls
    BY <1>0, AdmitFacts
  <1>2. Typed
    BY DEF RealmInv
  <1>3. in \in [Calls -> Invs] /\ \A d \in Calls : d # c => in[d] = inv[d]
    BY <1>1, <1>2 DEF Typed, Invs
  <1> HIDE DEF c, in
  <1>4. Closes(in, inv')
    BY <1>0, <1>3, ClosedAll
  <1>5. DeadlinesWatched' /\ eq' \in Queue(Calls) /\ hq' \in Queue(Calls)
    BY <1>0, QueueTypes DEF DeadlinesWatched
  <1>6. /\ inv' \in [Calls -> Invs] /\ OnlyBegins(c, inv, inv')
        /\ \A d \in Calls : d # c => (inv'[d] = "open" => inv[d] = "open")
    BY <1>3, <1>4 DEF Closes, OnlyBegins
  <1>7. /\ hc' \in [Calls -> HostStates] /\ OnlyBegins(c, hc, hc')
        /\ \A d \in Calls : hc'[d] # "settled" => hc[d] # "settled"
        /\ hat' \in [Calls -> Deadlines] /\ fresh' \in SUBSET Calls
    BY <1>0, <1>2 DEF Typed, OnlyBegins
  <1> QED
    BY <1>0, <1>1, <1>5, <1>6, <1>7, EnterKeeps DEF c

-----------------------------------------------------------------------------
(* Parked host calls.                                                      *)

(* The host-call timer fires: what is late is settled by its own           *)
(* microtask.                                                              *)
LEMMA HostCallTimerKeeps == RealmInv /\ HostCallTimer => RealmInv'
  <1> SUFFICES ASSUME RealmInv, HostCallTimer PROVE RealmInv'
    OBVIOUS
  <1> DEFINE X == DueAt(hq, hat, now)
             D == ParkedIn(hc)
  <1>0. /\ Typed /\ hc' = [c \in Calls |-> IF c \in X THEN "late" ELSE hc[c]] /\ hq' = Armed(hq, hat, now)
        /\ UNCHANGED <<now, alive, made, at, state, waiting, running, pumping, inv, deferred,
                       yields, eq, fresh, hat, resumed>>
    BY DEF RealmInv, HostCallTimer
  <1>1. alive /\ Watches(eq, at, OpenIn(state)) /\ Watches(hq, hat, D)
    <2>1. hq # EmptyQueue
      BY DEF HostCallTimer, EmptyQueue
    <2> QED
      BY <2>1 DEF RealmInv, DeadlinesWatched
  <1>2. hq' \in Queue(Calls) /\ Watches(hq', hat, D \ X) /\ X \subseteq D
    <2>1. hat \in [Calls -> Deadlines] /\ now \in Nat /\ hq \in Queue(Calls) /\ D \in SUBSET Calls
      BY <1>0 DEF Typed, ParkedIn
    <2>2. hq.pending = {d \in D : hat[d] # Never}
      BY <1>1 DEF Watches
    <2> HIDE DEF D
    <2> QED
      BY <1>0, <2>1, <2>2, ArmedWatches
  <1> HIDE DEF X
  <1>3. /\ hc' \in [Calls -> HostStates] /\ ParkedIn(hc') = D \ X
        /\ \A c \in Calls : (hc[c] = "none" => hc'[c] = "none") /\ (hc'[c] # "settled" => hc[c] # "settled")
    BY <1>0, <1>2 DEF Typed, ParkedIn, HostStates
  <1>4. Typed'
    BY <1>0, <1>2, <1>3 DEF Typed
  <1>5. Ordered'
    <2>1. waiting \in Seq(Calls) /\ made \in Int /\ Queued(waiting, made, inv, hc)
      BY <1>0 DEF RealmInv, Ordered, Typed
    <2>2. Queued(waiting, made, inv, hc')
      BY <1>3, <2>1, QueuedLater
    <2> QED
      BY <1>0, <1>3, <2>2 DEF RealmInv, Ordered, Unmade
  <1>6. DeadlinesWatched'
    BY <1>0, <1>1, <1>2, <1>3 DEF DeadlinesWatched
  <1> QED
    BY <1>0, <1>3, <1>4, <1>5, <1>6 DEF RealmInv, Unresumed, NoIdleWait, Exclusive

(* A host call that is parked or late settles once: it has not been        *)
(* resumed before, and is in neither state again.                          *)
LEMMA SettleKeeps ==
    ASSUME RealmInv, NEW c \in Calls, hc[c] \in {"parked", "late"},
           hc' = [hc EXCEPT ![c] = "settled"], Closes(inv, inv'),
           resumed' \in {resumed, [resumed EXCEPT ![c] = resumed[c] + 1]},
           UNCHANGED <<now, made, at, state, waiting, running, pumping, deferred, yields, fresh, hat>>,
           \/ /\ alive /\ alive' = alive /\ eq' = eq
              /\ hq' \in Queue(Calls) /\ hq'.timer = hq.timer /\ hq'.pending = hq.pending \ {c}
           \/ ~alive' /\ alive' \in BOOLEAN /\ eq' = EmptyQueue /\ hq' = EmptyQueue
    PROVE  RealmInv'
  <1>0. Typed
    BY DEF RealmInv
  <1>1. /\ hc' \in [Calls -> HostStates] /\ ParkedIn(hc') = ParkedIn(hc) \ {c}
        /\ \A d \in Calls : hc[d] = "none" => hc'[d] = "none"
    BY <1>0 DEF Typed, HostStates, ParkedIn
  <1>2. resumed[c] = 0 /\ resumed' \in [Calls -> Nat] /\ resumed'[c] =< 1 /\ \A d \in Calls : d # c => resumed'[d] = resumed[d]
    <2>1. resumed[c] = 0 /\ resumed \in [Calls -> Nat]
      BY <1>0 DEF RealmInv, Unresumed, Typed
    <2> QED
      BY <2>1
  <1>3. Unresumed'
    <2>1. \A d \in Calls : d # c => hc'[d] = hc[d]
      BY <1>0 DEF Typed
    <2>2. hc'[c] = "settled"
      BY <1>0 DEF Typed
    <2> QED
      BY <1>2, <2>1, <2>2 DEF RealmInv, Unresumed
  <1>4. Typed'
    BY <1>0, <1>1, <1>2, QueueTypes DEF Typed, Closes
  <1>5. Ordered'
    <2>1. waiting \in Seq(Calls) /\ made \in Int /\ Queued(waiting, made, inv, hc)
      BY <1>0 DEF RealmInv, Ordered, Typed
    <2>2. Queued(waiting, made, inv', hc')
      BY <1>1, <2>1, QueuedLater, ZenonT(40) DEF Closes
    <2>3. Unmade(made, state, inv', hc')
      BY <1>1 DEF RealmInv, Ordered, Unmade, Closes
    <2> QED
      BY <2>2, <2>3 DEF Ordered
  <1>6. DeadlinesWatched'
    <2>1. CASE alive /\ alive'
      <3>1. Watches(eq, at, OpenIn(state)) /\ Watches(hq, hat, ParkedIn(hc))
        BY <2>1 DEF RealmInv, DeadlinesWatched
      <3>2. hq'.timer = hq.timer /\ hq'.pending = hq.pending \ {c} /\ eq' = eq
        BY <2>1
      <3>3. Watches(hq', hat, ParkedIn(hc) \ {c})
        BY <3>1, <3>2, KeptWatches
      <3> QED
        BY <1>1, <2>1, <3>1, <3>2, <3>3 DEF DeadlinesWatched
    <2>2. CASE ~alive'
      BY <2>2 DEF DeadlinesWatched
    <2> QED
      BY <2>1, <2>2
  <1>7. NoIdleWait' /\ Exclusive'
    BY DEF RealmInv, NoIdleWait, Exclusive, Closes
  <1> QED
    BY <1>3, <1>4, <1>5, <1>6, <1>7 DEF RealmInv

(* What settling under a live realm may do. *)
LEMMA SettleRunsFacts ==
    ASSUME RealmInv, NEW c \in Calls, NEW q, SettleRuns(c, q)
    PROVE  /\ alive /\ Closes(inv, inv') /\ hc' = [hc EXCEPT ![c] = "settled"]
           /\ resumed' = [resumed EXCEPT ![c] = resumed[c] + 1]
           /\ \/ alive' = alive /\ eq' = eq /\ hq' = q
              \/ ~alive' /\ alive' \in BOOLEAN /\ eq' = EmptyQueue /\ hq' = EmptyQueue
  <1>0. inv \in [Calls -> Invs]
    BY DEF RealmInv, Typed
  <1>1. CASE inv' \in Turns(inv) /\ hq' = q /\ UNCHANGED <<alive, eq>>
    BY <1>0, <1>1, TurnsClose DEF SettleRuns
  <1>2. CASE /\ \E in \in Turns(inv) : inv' = SettleFault(c, in)
             /\ hq' = q /\ UNCHANGED <<alive, eq>>
    BY <1>0, <1>2, TurnsClose, FaultCloses DEF SettleRuns
  <1>3. CASE Discard(inv)
    BY <1>0, <1>3, ClosedAll DEF SettleRuns, Discard
  <1> QED
    BY <1>1, <1>2, <1>3 DEF SettleRuns

(* The answer settles a call only while its deadline is still queued, the  *)
(* deadline's microtask only one it took out of the queue.                 *)
LEMMA HostSettleKeeps ==
    ASSUME RealmInv, NEW c \in Calls, HostAnswers(c) \/ LateSettle(c)
    PROVE  RealmInv'
  <1> DEFINE q == IF HostAnswers(c) THEN Dropped(hq, c) ELSE hq
  <1>0. /\ Typed /\ UNCHANGED <<now, made, at, state, waiting, running, pumping, deferred, yields, fresh, hat>>
        /\ inv \in [Calls -> Invs] /\ hq \in Queue(Calls)
    BY DEF RealmInv, Typed, HostAnswers, LateSettle
  <1>1. hc[c] \in {"parked", "late"} /\ (~HostAnswers(c) => hc[c] = "late")
    <2>1. \A d \in hq.pending : hc[d] = "parked"
      BY DEF RealmInv, DeadlinesWatched, Watches, ParkedIn, EmptyQueue
    <2> QED
      BY <2>1 DEF HostAnswers, LateSettle, HasDeadline
  <1>2. alive => q \in Queue(Calls) /\ q.timer = hq.timer /\ q.pending = hq.pending \ {c}
    <2>1. CASE HostAnswers(c)
      BY <1>0, <2>1, QueueTypes DEF Dropped, Queue
    <2>2. CASE ~HostAnswers(c)
      <3>1. alive => c \notin hq.pending
        BY <1>1, <2>2 DEF RealmInv, DeadlinesWatched, Watches, ParkedIn
      <3> QED
        BY <1>0, <2>2, <3>1
    <2> QED
      BY <2>1, <2>2
  <1>3. SettleRuns(c, q) \/ (SettleDead(c) /\ hq' = q)
    BY DEF HostAnswers, LateSettle
  <1>4. CASE SettleRuns(c, q)
    <2> HIDE DEF q
    <2>1. /\ alive /\ Closes(inv, inv') /\ hc' = [hc EXCEPT ![c] = "settled"]
          /\ resumed' = [resumed EXCEPT ![c] = resumed[c] + 1]
          /\ \/ alive' = alive /\ eq' = eq /\ hq' = q
             \/ ~alive' /\ alive' \in BOOLEAN /\ eq' = EmptyQueue /\ hq' = EmptyQueue
      BY <1>4, SettleRunsFacts
    <2> QED
      BY <1>0, <1>1, <1>2, <2>1, SettleKeeps
  <1>5. CASE SettleDead(c) /\ hq' = q
    <2>1. ~alive /\ eq = EmptyQueue /\ hq = EmptyQueue /\ alive \in BOOLEAN
      BY <1>0, <1>5 DEF SettleDead, RealmInv, DeadlinesWatched, Typed
    <2>2. hq' = EmptyQueue
      BY <1>5, <2>1 DEF Dropped, EmptyQueue
    <2>3. Closes(inv, inv') /\ hc' = [hc EXCEPT ![c] = "settled"] /\ resumed' = resumed /\ alive' = alive /\ eq' = eq
      BY <1>0, <1>5 DEF SettleDead, Closes
    <2> HIDE DEF q
    <2> QED
      BY <1>0, <1>1, <2>1, <2>2, <2>3, SettleKeeps
  <1> QED
    BY <1>3, <1>4, <1>5

(* Every step keeps the invariant. *)
LEMMA StepHolds == RealmInv /\ [Next]_vars => RealmInv'
  <1> SUFFICES ASSUME RealmInv, [Next]_vars PROVE RealmInv'
    OBVIOUS
  <1>1. CASE UNCHANGED vars
    BY <1>1 DEF vars, RealmInv, Typed, Ordered, Unresumed, DeadlinesWatched, NoIdleWait, Exclusive
  <1>2. CASE EnterNext
    BY <1>2, EnterNobodyKeeps, EnterRunsKeeps, EnterParksKeeps, EnterFaultsKeeps, EnterTrapsKeeps DEF EnterNext
  <1>3. CASE \E c \in Calls : Result(c) \/ Yield(c) \/ HostAnswers(c) \/ LateSettle(c)
    BY <1>3, ResultKeeps, YieldKeeps, HostSettleKeeps
  <1>4. CASE CallRefused \/ Tick \/ EntryTimer \/ HostCallTimer \/ Dispose
    BY <1>4, CallRefusedKeeps, TickKeeps, EntryTimerKeeps, HostCallTimerKeeps, DisposeKeeps
  <1>5. CASE \E ms \in CallMs : Call(ms)
    BY <1>5, CallKeeps
  <1> QED
    BY <1>1, <1>2, <1>3, <1>4, <1>5 DEF Next

-----------------------------------------------------------------------------
(* The invariant holds in every behaviour, for any calls, deadlines and    *)
(* clock.                                                                  *)
THEOREM RealmHolds == Spec => []RealmInv
  BY InitHolds, StepHolds, PTL DEF Spec

(* The types hold; in particular a queue holds only deadlines that are     *)
(* still awaited (realm-queue.ts createDeadlineQueue).                     *)
THEOREM TypesHold == Spec => []TypeOK
  <1>1. RealmInv => TypeOK
    <2> SUFFICES ASSUME RealmInv PROVE TypeOK
      OBVIOUS
    <2>1. eq.pending \subseteq OpenIn(state) /\ hq.pending \subseteq ParkedIn(hc)
      BY DEF RealmInv, DeadlinesWatched, Watches, EmptyQueue
    <2>2. eq \in Queue({c \in Calls : state[c] = "open"}) /\ hq \in Queue({c \in Calls : hc[c] = "parked"})
      BY <2>1 DEF RealmInv, Typed, Queue, OpenIn, ParkedIn
    <2> QED
      BY <2>2 DEF RealmInv, Typed, TypeOK, States, Invs, HostStates
  <1> QED
    BY <1>1, RealmHolds, PTL

(* With entries waiting and nobody inside, enterNext is always on its way, *)
(* whatever expiries, releases and results cross (realm-queue.ts pump).    *)
THEOREM NoIdleWaitHolds == Spec => []NoIdleWait
  <1>1. RealmInv => NoIdleWait
    BY DEF RealmInv
  <1> QED
    BY <1>1, RealmHolds, PTL

(* At most one invocation that has not yielded is ever open, and it is the *)
(* one that holds the realm (realm-queue.ts release).                      *)
THEOREM ExclusiveHolds == Spec => []Exclusive
  <1>1. RealmInv => Exclusive
    BY DEF RealmInv
  <1> QED
    BY <1>1, RealmHolds, PTL

(* However a host call's answer and its deadline race, and however the     *)
(* realm ends, its continuation runs at most once (realm-queue.ts          *)
(* settleByDeadline).                                                      *)
THEOREM ResumedOnceHolds == Spec => []ResumedOnce
  <1>1. RealmInv => ResumedOnce
    BY DEF RealmInv, Unresumed, ResumedOnce
  <1> QED
    BY <1>1, RealmHolds, PTL

(* Every deadline promised to a waiting caller or a parked host call is    *)
(* queued, and the one timer of its queue is armed to fire no later than a *)
(* tick after it; a discarded realm has no timer (realm-queue.ts           *)
(* createDeadlineQueue). It is the safety half of EveryCallSettles.        *)
THEOREM DeadlinesHold == Spec => []DeadlinesWatched
  <1>1. RealmInv => DeadlinesWatched
    BY DEF RealmInv
  <1> QED
    BY <1>1, RealmHolds, PTL
=============================================================================
