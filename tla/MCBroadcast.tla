----------------------------- MODULE MCBroadcast -----------------------------
(* Two connections: of one client, that connects again under its id, or of *)
(* two that listen to the same table.                                      *)
EXTENDS Broadcast, TLC

CONSTANTS a, b, alice, bob, table

Once == [ids |-> a :> alice @@ b :> alice, early |-> {a}, lost |-> {}, here |-> {a}, happened |-> 1]
Again == [ids |-> a :> alice @@ b :> alice, early |-> {a}, lost |-> {a}, here |-> {b}, happened |-> 2]
Both == [ids |-> a :> alice @@ b :> bob, early |-> {a, b}, lost |-> {}, here |-> {a, b}, happened |-> 2]
Beginnings == {Once, Again, Both}

ToTable == [e \in Events |-> <<table>>]
=============================================================================
