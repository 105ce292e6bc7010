----------------------------- MODULE ByteStream -----------------------------
(***************************************************************************)
(* What a stream promises the link above it: the bytes written at one end  *)
(* are handed to the reader of the other once each and in order, and all   *)
(* of them unless the reading end stops.  Byte k carries the value k.      *)
(***************************************************************************)
EXTENDS Integers, Sequences

VARIABLES
    written,   \* how many bytes the writing end has taken
    got,       \* what the reader has been handed
    over       \* whether the reading end has stopped

streamVars == <<written, got, over>>

Init == written = 0 /\ got = << >> /\ over = FALSE

Write == /\ written' > written
         /\ UNCHANGED <<got, over>>

(* A read hands over the bytes that follow the last read. *)
Hand == /\ ~over
        /\ got # got'
        /\ got' = [k \in 1..Len(got') |-> k]
        /\ Len(got) < Len(got') /\ Len(got') <= written
        /\ UNCHANGED <<written, over>>

Stop == ~over /\ over' /\ UNCHANGED <<written, got>>

Next == Write \/ Hand \/ Stop

(* What has been written is read in the end, or the reading end stops. *)
Progress == []<>(Len(got) = written \/ over)

Spec == Init /\ [][Next]_streamVars /\ Progress
=============================================================================
