----------------------------- MODULE UnitOfWork -----------------------------
(***************************************************************************)
(* What database.Transaction promises to a request, whatever happens       *)
(* inside it: the work of a request becomes durable at most once, effects  *)
(* outside the database are seen only for durable work, and a request that *)
(* was told "error" has told nobody anything.                              *)
(***************************************************************************)
CONSTANT Txs

VARIABLES
  durable,   \* the requests whose work is committed
  told,      \* the requests whose work was announced outside the database
  reply      \* what the caller of Transaction was answered

vars == <<durable, told, reply>>

Init ==
  /\ durable = {}
  /\ told = {}
  /\ reply = [t \in Txs |-> "none"]

Commit(t) ==
  /\ reply[t] = "none"
  /\ t \notin durable
  /\ durable' = durable \union {t}
  /\ UNCHANGED <<told, reply>>

Announce(t) ==
  /\ reply[t] = "none"
  /\ t \in durable
  /\ told' = told \union {t}
  /\ UNCHANGED <<durable, reply>>

AnswerOk(t) ==
  /\ reply[t] = "none"
  /\ t \in durable
  /\ reply' = [reply EXCEPT ![t] = "ok"]
  /\ UNCHANGED <<durable, told>>

\* The answer is an error; the answer of a commit can be lost on its way, so
\* the work may be durable all the same.
AnswerError(t) ==
  /\ reply[t] = "none"
  /\ t \notin durable
  /\ durable' \in {durable, durable \union {t}}
  /\ reply' = [reply EXCEPT ![t] = "err"]
  /\ UNCHANGED told

Next ==
  \E t \in Txs : Commit(t) \/ Announce(t) \/ AnswerOk(t) \/ AnswerError(t)

Spec == Init /\ [][Next]_vars
=============================================================================
