--------------------------- MODULE MCNegotiations ---------------------------
(* Model-checking instance of Negotiations. *)
EXTENDS Negotiations

MCPeers == {"p", "q"}
MCLarger == {"p"}
(* Two upgrades at once, more signals than the queue takes, opens the host *)
(* refuses, and NATs of every kind behind two negotiations that compete    *)
(* for the budget.                                                         *)
MCBounds == {[begin |-> 3, upgrade |-> 2, signal |-> 1, unsent |-> 1, refuse |-> 1, learn |-> 0],
             [begin |-> 3, upgrade |-> 1, signal |-> 2, unsent |-> 0, refuse |-> 1, learn |-> 0],
             [begin |-> 2, upgrade |-> 1, signal |-> 2, unsent |-> 0, refuse |-> 0, learn |-> 4]}
MCUpgrades == {[begin |-> 3, upgrade |-> 2, signal |-> 0, unsent |-> 0, refuse |-> 0, learn |-> 0]}
=============================================================================
