--------------------------- MODULE DeadlineQueue ----------------------------
(***************************************************************************)
(* One tier's deadlines sharing one timer (WASM/host/realm-queue.ts        *)
(* createDeadlineQueue).  A queue is a record: the deadlines pending, and  *)
(* when its timer is to fire (Never when none is armed).  Time is in whole *)
(* milliseconds, setTimeout's resolution; at[d] is when deadline d is due. *)
(***************************************************************************)
EXTENDS Integers

Never == -1

Queue(D) == [pending : SUBSET D, timer : Nat \union {Never}]

EmptyQueue == [pending |-> {}, timer |-> Never]

(* The deadlines arm() expires at time now. *)
DueAt(q, at, now) == {d \in q.pending : at[d] - now < 1}

Soonest(D, at) == CHOOSE t \in {at[d] : d \in D} : \A d \in D : t <= at[d]

ArmedOnce(q, at, now) ==
    LET due == DueAt(q, at, now) IN
    [pending |-> q.pending \ due,
     timer |-> IF due # {} \/ q.pending = {} THEN Never ELSE Soonest(q.pending, at)]

(* arm(): expire what is due, and re-arm for the earliest that remains. *)
Armed(q, at, now) ==
    LET left == q.pending \ DueAt(q, at, now) IN
    [pending |-> left, timer |-> IF left = {} THEN Never ELSE Soonest(left, at)]

(* Whether add(d) re-arms: only when that moves the timer by a whole tick. *)
Rearms(q, at, d) == q.timer = Never \/ at[d] < q.timer - 1

With(q, d) == [q EXCEPT !.pending = q.pending \union {d}]

(* add(d), and the deadlines it expires in the call. *)
Added(q, at, now, d) ==
    IF Rearms(q, at, d) THEN Armed(With(q, d), at, now) ELSE With(q, d)

AddExpires(q, at, now, d) ==
    IF Rearms(q, at, d) THEN DueAt(With(q, d), at, now) ELSE {}

Dropped(q, d) == [q EXCEPT !.pending = q.pending \ {d}]

=============================================================================
