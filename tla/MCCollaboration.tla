-------------------------- MODULE MCCollaboration --------------------------
(* A grid that subscribes twice, and another client beside it.             *)
EXTENDS Collaboration, TLC

CONSTANTS page, other

LineBound == page :> 2 @@ other :> 1
=============================================================================
