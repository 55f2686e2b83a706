--------------------------- MODULE MCFollowServer ---------------------------
(* Instances of FollowServer for TLC: wallets and leaders as model values.   *)
EXTENDS FollowServer

CONSTANTS alice, bob, ansem, cented
=============================================================================
