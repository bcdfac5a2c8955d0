--------------------------- MODULE MCRecordStore ----------------------------
(* Small instances of RecordStore for TLC. *)
EXTENDS RecordStore

CONSTANTS a, b, c

\* The link cell of b points to a.
BLinksToA == [r \in Recs |-> IF r = a THEN {b} ELSE {}]

NoLinks == [r \in Recs |-> {}]
=============================================================================
