--------------------------- MODULE VersionedTable ---------------------------
(***************************************************************************)
(* What optimistic locking promises the users of a table: every request    *)
(* takes effect at one instant, on the rows as they are at that instant,   *)
(* and moves the version of each row it changes up by one.                 *)
(***************************************************************************)
EXTENDS Naturals

CONSTANTS
  Requests,   \* the requests
  Recs,       \* the records
  Absent      \* no such row

VARIABLES
  table,      \* the rows: version, and the requests whose change they contain
  told        \* the requests that were told their change is made

vars == <<table, told>>

Init ==
  /\ \E present \in SUBSET Recs :
       table = [r \in Recs |->
                  IF r \in present THEN [version |-> 1, applied |-> {}] ELSE Absent]
  /\ told = {}

AppliedIn(q, r) == table[r] # Absent /\ q \in table[r].applied

Applied(q) == \E r \in Recs : AppliedIn(q, r)

\* A request changes some rows, all at once, and no request does so twice.
Update(q, S) ==
  /\ ~ Applied(q)
  /\ \A r \in S : table[r] # Absent
  /\ table' = [r \in Recs |->
                 IF r \in S THEN [version |-> table[r].version + 1,
                                  applied |-> table[r].applied \union {q}]
                            ELSE table[r]]
  /\ UNCHANGED told

\* A new row; computing its computed fields may count as a first change.
Create(q, r) ==
  /\ ~ Applied(q)
  /\ table[r] = Absent
  /\ \E v \in {1, 2} : table' = [table EXCEPT ![r] = [version |-> v, applied |-> {q}]]
  /\ UNCHANGED told

\* Success is told only to a request whose change is in the table.
Tell(q) ==
  /\ Applied(q)
  /\ told' = told \union {q}
  /\ UNCHANGED table

Next ==
  \E q \in Requests :
    \/ \E S \in (SUBSET Recs) \ {{}} : Update(q, S)
    \/ \E r \in Recs : Create(q, r)
    \/ Tell(q)

Spec == Init /\ [][Next]_vars
=============================================================================
