------------------------------ MODULE MCRealm -------------------------------
(* Realm for TLC: callers with time to spare, with none left and without a *)
(* deadline, on a realm that sets none of its own.                         *)
EXTENDS Realm

MCNever == Never
MCCallMs == {0, 1, 2, Never}
MCHostMs == {1, Never}
=============================================================================
