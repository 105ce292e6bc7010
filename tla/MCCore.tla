------------------------------- MODULE MCCore -------------------------------
(* Model-checking instance of Core. *)
EXTENDS Core

MCSizes == {1, 3}
MCHolders == {"retry", "ready"}
MCTiers == [t \in Tiers |-> IF t = "unverified" THEN 2 ELSE 1]
(* A scenario with what it has more than none of. *)
Only(b) == [k \in Kinds |-> IF k \in DOMAIN b THEN b[k] ELSE 0]
(* Requests over routes that come and go, requests from peers; homes joined *)
(* and links lost while others call; deadlines whose arms are refused, and  *)
(* whose wake is dropped; an open that is refused; accepted links past      *)
(* every tier's budget; a peer forgotten and added again while it is        *)
(* dialed; a link's messages, pinged, closed or broken between.             *)
MCBounds == {Only([request |-> 3, route |-> 2]), Only([request |-> 2, route |-> 2, lapse |-> 1]),
             Only([route |-> 2, receive |-> 6]),
             Only([join |-> 2, call |-> 1, lost |-> 1]),
             Only([join |-> 1, deadline |-> 2, arm |-> 2, lost |-> 1]),
             Only([join |-> 1, deadline |-> 2, arm |-> 1, drop |-> 2, lost |-> 1]),
             Only([join |-> 2, open |-> 1]), Only([accept |-> 4, touch |-> 1]),
             Only([address |-> 4, contact |-> 4]),
             Only([framed |-> 1, message |-> 3, ping |-> 1, end |-> 1]),
             Only([framed |-> 1, message |-> 3, stray |-> 1])}
(* Nothing tells peers, origins, keys or sources apart. *)
MCSymmetry == Permutations(Peers) \union Permutations(Origins) \union Permutations(Keys) \union Permutations(Sources)
MCFramed == {b \in MCBounds : b["framed"] > 0}
MCOpenRefused == {Only([join |-> 1, open |-> 1])}
=============================================================================
