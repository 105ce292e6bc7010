------------------------------- MODULE Wakes --------------------------------
(***************************************************************************)
(* The one wake of the transport's realm: its deadlines and the arm it     *)
(* keeps at the host (transport/src/core.js wakeBy, arm, onWake), and the  *)
(* host's replaceable timer (services/timer.ts).                           *)
(*                                                                         *)
(* Time is a small clock.  The host answers arms in the order it was       *)
(* asked, and may refuse one at once or later; a wake it has handed over   *)
(* cannot be taken back, but may be dropped before the realm has run it.   *)
(* Pacing only delays a wake that is due.  What happens at a deadline is   *)
(* its holder's, see module Relays.                                        *)
(***************************************************************************)
EXTENDS Integers, Sequences, FiniteSets, FiniteSetsExt, SequencesExt

CONSTANTS
    Holders,     \* who may have a deadline
    Horizon      \* the clock stops here

ASSUME WakesAssumption == Horizon \in Nat \ {0}

VARIABLES
    now,
    due,         \* by holder: its deadline, or Never
    wakeAt,      \* when the armed wake fires, as the realm believes
    owedAt,      \* the latest arm was refused; the next event asks again for this
    arms,        \* arms the host has not answered, the last of them the latest
    live,        \* the host's timer, or Never
    firing,      \* a wake has been handed over, and has not settled
    handed,      \* ... and the realm has not run it
    refused,     \* history: some arm was refused
    lost         \* history: the wake the realm still counts on was dropped

wakeVars == <<now, due, wakeAt, owedAt, arms, live, firing, handed, refused, lost>>

Never == 2 * Horizon + 2     \* past every deadline

WakesInit == /\ now = 0 /\ due = [h \in Holders |-> Never]
             /\ wakeAt = Never /\ owedAt = Never /\ arms = << >>
             /\ live = Never /\ firing = FALSE /\ handed = FALSE /\ refused = FALSE /\ lost = FALSE

(* What the realm keeps of its arm, through the calls of one turn. *)
Arm == [wakeAt |-> wakeAt, owedAt |-> owedAt, arms |-> arms, refused |-> refused]

(* arm: a call to the host, which may refuse it there and then. *)
RefusedForgets(a, at) == [a EXCEPT !.owedAt = at, !.refused = TRUE]
Refused(a, at) == [a EXCEPT !.wakeAt = Never, !.owedAt = at, !.refused = TRUE]
arm(a, at, no) == LET asked == [a EXCEPT !.owedAt = Never, !.wakeAt = at]
                  IN IF no THEN Refused(asked, at) ELSE [asked EXCEPT !.arms = Append(@, at)]
wakeBy(a, at, no) == IF at >= a.wakeAt THEN a ELSE arm(a, at, no)

(* handle: every event first asks again for an arm that was refused. *)
Event(no) == IF owedAt < Never THEN wakeBy(Arm, owedAt, no) ELSE Arm

Becomes(a) == /\ wakeAt' = a.wakeAt /\ owedAt' = a.owedAt
              /\ arms' = a.arms /\ refused' = a.refused

(* onWake: those due expire, and one arm is made for the soonest left. *)
Expired == {h \in Holders : due[h] <= now}
Soonest(d) == Min({d[h] : h \in Holders})
Walked(a, d, no) == LET cleared == [a EXCEPT !.wakeAt = Never]
                    IN IF Soonest(d) < Never THEN arm(cleared, Soonest(d), no) ELSE cleared

(* ---- the host ---- *)

Tick == /\ now < Horizon /\ now' = now + 1
        /\ UNCHANGED <<due, wakeAt, owedAt, arms, live, firing, handed, refused, lost>>

(* timer/arm replaces the timer, or the call is refused after all, which   *)
(* counts for the latest alone.                                            *)
HostArms == /\ arms # << >>
            /\ live' = Head(arms) /\ arms' = Tail(arms)
            /\ UNCHANGED <<now, due, wakeAt, owedAt, firing, handed, refused, lost>>
HostRefuses ==
    /\ arms # << >>
    /\ LET a == [Arm EXCEPT !.arms = Tail(@)]
       IN Becomes(IF Len(arms) = 1 THEN Refused(a, Head(arms)) ELSE [a EXCEPT !.refused = TRUE])
    /\ UNCHANGED <<now, due, live, firing, handed, lost>>

(* attempt, and release once the wake has settled, by an answer or not. *)
TimerFires == /\ live <= now /\ ~firing
              /\ live' = Never /\ firing' = TRUE /\ handed' = TRUE
              /\ UNCHANGED <<now, due, wakeAt, owedAt, arms, refused, lost>>
WakeSettles == /\ firing /\ ~handed /\ firing' = FALSE
               /\ UNCHANGED <<now, due, wakeAt, owedAt, arms, live, handed, refused, lost>>

(* ... and without the realm having run it: its entry expired in the       *)
(* realm's queue, the realm was not ready, or the turn failed.  The error  *)
(* is logged.  The realm still takes its own wakeAt for armed.             *)
WakeDropped == /\ handed /\ handed' = FALSE
               /\ lost' = (wakeAt < Never /\ arms = << >> /\ live = Never)
               /\ UNCHANGED <<now, due, wakeAt, owedAt, arms, live, firing, refused>>
-----------------------------------------------------------------------------
(* A wake is handed over, armed, on its way to the host or asked for by    *)
(* the next event, and by the deadline d if no arm was refused.            *)
WakeBy(d) ==
    \/ handed
    \/ owedAt < wakeAt
    \/ LET at == IF arms # << >> THEN Last(arms) ELSE live
       IN at < Never /\ (~refused => at <= d)

(* Every deadline has its wake, however arms, their refusals and wakes     *)
(* handed over cross, until the host drops the very wake the realm's       *)
(* latest arm asked for (wakeBy, arm, onWake; timer.ts).                   *)
Woken == \A h \in Holders : due[h] < Never => lost \/ WakeBy(due[h])

(* "Make sure a wake comes by `at`" (core.js, wakeBy), with no exception.  *)
(* Refuted: see README.                                                    *)
AlwaysWoken == \A h \in Holders : due[h] < Never => WakeBy(due[h])
=============================================================================
