---------------------------- MODULE MCPeerLinks -----------------------------
(* PeerLinks for TLC: each end may dial the other, over a relay or not.    *)
EXTENDS PeerLinks

CONSTANTS f1, f2

MCFrames == {f1, f2}
MCAnyKind == BOOLEAN

(* No action tells one frame from another. *)
Sym == Permutations(MCFrames)
=============================================================================
