----------------------------- MODULE TxContext ------------------------------
(***************************************************************************)
(* pkg/database/tx_context.go: Transaction runs a function fn inside a     *)
(* database transaction, runs it again when the database reports a         *)
(* deadlock, and runs the callbacks fn registered once the transaction has *)
(* committed.  One TxContext, with its Events and Callbacks, serves all    *)
(* the attempts of a Transaction call.                                     *)
(*                                                                         *)
(* fn is any function: it writes rows, adds events and callbacks, calls    *)
(* Transaction or TransactionWithCallback again, swallows or returns the   *)
(* errors it meets.  The database (row locks, deadlock detection, commit)  *)
(* is external and modelled by what the code relies on.                    *)
(***************************************************************************)
EXTENDS Naturals, Sequences

CONSTANTS
  Txs,          \* the requests, each of which calls Transaction once
  Rows,         \* the rows they write
  MaxRetries,   \* opts.MaxRetries
  FnOps,        \* the kinds of operation fn does, of those of FnStep
  MaxOps,       \* bound: what one attempt of fn does, in operations
  None          \* "no row", "no callback"

ASSUME TxAssumption ==
  /\ MaxRetries \in Nat
  /\ MaxOps \in Nat
  /\ None \notin Rows

Attempts == 0 .. MaxRetries

\* An event (event_queue.go) with the attempt that added it.
Event == [row : Rows, attempt : Attempts]

\* A callback: publishes the record event of a row, publishes the queue of
\* events (PublishEventsAfterTx), or is the afterCommit of
\* TransactionWithCallback.  op tells apart those of one attempt.
Callback ==
  [kind : {"notify", "publish", "afterCommit"}, row : Rows \union {None},
   attempt : Attempts, op : 0 .. MaxOps]

VARIABLES
  pc,          \* where the Transaction call of a request is
  attempt,     \* the loop variable of the retry loop
  withCb,      \* the request called TransactionWithCallback
  ops,         \* operations done by the current attempt (bounded by MaxOps)
  scopes,      \* nested calls: the afterCommit of each, None if it has none
  failed,      \* afterCommit callbacks whose own fn returned an error
  events,      \* TxContext.Events
  callbacks,   \* TxContext.Callbacks
  next,        \* index of the next callback ExecuteCallbacks calls
  ran,         \* callbacks whose effect took place, in order
  published,   \* events handed to the publisher by a "publish" callback
  held,        \* database: rows written and locked by the open transaction
  waits,       \* database: the row whose lock a request waits for
  aborted,     \* database: the open transaction was chosen as deadlock victim
  committed    \* database: the attempts that committed, as <<tx, attempt>>

fnVars == <<attempt, withCb, ops, scopes, failed>>
ctxVars == <<events, callbacks>>
outVars == <<next, ran, published>>
dbVars == <<held, waits, aborted, committed>>
vars == <<pc, fnVars, ctxVars, outVars, dbVars>>

TypeOK ==
  /\ pc \in [Txs -> {"idle", "running", "callbacks", "ok", "err", "crashed"}]
  /\ attempt \in [Txs -> Attempts]
  /\ withCb \in [Txs -> BOOLEAN]
  /\ ops \in [Txs -> 0 .. MaxOps]
  /\ scopes \in [Txs -> Seq(Callback \union {None})]
  /\ failed \in [Txs -> SUBSET Callback]
  /\ events \in [Txs -> Seq(Event)]
  /\ callbacks \in [Txs -> Seq(Callback)]
  /\ next \in [Txs -> Nat \ {0}]
  /\ ran \in [Txs -> Seq(Callback)]
  /\ published \in [Txs -> SUBSET Event]
  /\ held \in [Txs -> SUBSET Rows]
  /\ waits \in [Txs -> Rows \union {None}]
  /\ aborted \in [Txs -> BOOLEAN]
  /\ committed \in SUBSET (Txs \X Attempts)

Init ==
  /\ pc = [t \in Txs |-> "idle"]
  /\ attempt = [t \in Txs |-> 0]
  /\ withCb = [t \in Txs |-> FALSE]
  /\ ops = [t \in Txs |-> 0]
  /\ scopes = [t \in Txs |-> << >>]
  /\ failed = [t \in Txs |-> {}]
  /\ events = [t \in Txs |-> << >>]
  /\ callbacks = [t \in Txs |-> << >>]
  /\ next = [t \in Txs |-> 1]
  /\ ran = [t \in Txs |-> << >>]
  /\ published = [t \in Txs |-> {}]
  /\ held = [t \in Txs |-> {}]
  /\ waits = [t \in Txs |-> None]
  /\ aborted = [t \in Txs |-> FALSE]
  /\ committed = {}

-----------------------------------------------------------------------------
(* What fn does.  Working(t): fn runs and no statement of it is blocked.   *)

Working(t) == pc[t] = "running" /\ waits[t] = None

\* One more operation of fn, within the bound.
Operate(t) ==
  /\ Working(t)
  /\ ops[t] < MaxOps
  /\ ops' = [ops EXCEPT ![t] = @ + 1]

NewCallback(t, kind, r) ==
  [kind |-> kind, row |-> r, attempt |-> attempt[t], op |-> ops[t] + 1]

AfterCommit(a) ==
  [kind |-> "afterCommit", row |-> None, attempt |-> a, op |-> 0]

\* Transaction, or TransactionWithCallback, is called outside a transaction:
\* a new TxContext, and the first attempt starts.
Begin(t) ==
  /\ pc[t] = "idle"
  /\ pc' = [pc EXCEPT ![t] = "running"]
  /\ \E w \in BOOLEAN :
       /\ withCb' = [withCb EXCEPT ![t] = w]
       /\ callbacks' =
            [callbacks EXCEPT ![t] = IF w THEN <<AfterCommit(0)>> ELSE << >>]
  /\ UNCHANGED <<attempt, ops, scopes, failed, events, outVars, dbVars>>

LockedByOther(t, r) == \E u \in Txs \ {t} : r \in held[u]

\* fn writes a row: the statement takes the row's lock or waits for it.
Write(t, r) ==
  /\ Operate(t)
  /\ ~ aborted[t]
  /\ IF LockedByOther(t, r)
       THEN waits' = [waits EXCEPT ![t] = r] /\ UNCHANGED held
       ELSE held' = [held EXCEPT ![t] = @ \union {r}] /\ UNCHANGED waits
  /\ UNCHANGED <<pc, attempt, withCb, scopes, failed, ctxVars, outVars, aborted, committed>>

LockGranted(t) ==
  /\ pc[t] = "running"
  /\ waits[t] # None
  /\ ~ LockedByOther(t, waits[t])
  /\ held' = [held EXCEPT ![t] = @ \union {waits[t]}]
  /\ waits' = [waits EXCEPT ![t] = None]
  /\ UNCHANGED <<pc, fnVars, ctxVars, outVars, aborted, committed>>

\* t waits in a cycle of requests, each waiting for a row the next one holds.
InCycle(t) ==
  \E S \in SUBSET Txs :
    /\ t \in S
    /\ \A u \in S : \E v \in S \ {u} : waits[u] \in held[v]
    /\ \A v \in S : \E u \in S \ {v} : waits[u] \in held[v]

\* The database rolls the transaction back and fails the waiting statement.
DeadlockVictim(t) ==
  /\ pc[t] = "running"
  /\ InCycle(t)
  /\ aborted' = [aborted EXCEPT ![t] = TRUE]
  /\ held' = [held EXCEPT ![t] = {}]
  /\ waits' = [waits EXCEPT ![t] = None]
  /\ UNCHANGED <<pc, fnVars, ctxVars, outVars, committed>>

AddEvent(t, r) ==
  /\ Operate(t)
  /\ events' = [events EXCEPT ![t] = Append(@, [row |-> r, attempt |-> attempt[t]])]
  /\ UNCHANGED <<pc, attempt, withCb, scopes, failed, callbacks, outVars, dbVars>>

AddCallback(t, cb) ==
  callbacks' = [callbacks EXCEPT ![t] = Append(@, cb)]

AddTxCallback(t, r) ==
  /\ Operate(t)
  /\ AddCallback(t, NewCallback(t, "notify", r))
  /\ UNCHANGED <<pc, attempt, withCb, scopes, failed, events, outVars, dbVars>>

PublishEventsAfterTx(t) ==
  /\ Operate(t)
  /\ AddCallback(t, NewCallback(t, "publish", None))
  /\ UNCHANGED <<pc, attempt, withCb, scopes, failed, events, outVars, dbVars>>

\* A nested Transaction: the function is called with the same context.
EnterNested(t) ==
  /\ Operate(t)
  /\ scopes' = [scopes EXCEPT ![t] = Append(@, None)]
  /\ UNCHANGED <<pc, attempt, withCb, failed, ctxVars, outVars, dbVars>>

\* A nested TransactionWithCallback adds its afterCommit, then calls fn.
EnterNestedWithCallback(t) ==
  LET cb == NewCallback(t, "afterCommit", None)
  IN  /\ Operate(t)
      /\ AddCallback(t, cb)
      /\ scopes' = [scopes EXCEPT ![t] = Append(@, cb)]
      /\ UNCHANGED <<pc, attempt, withCb, failed, events, outVars, dbVars>>

\* The nested function returns; its caller, which is fn, may swallow an error.
LeaveNested(t) ==
  /\ Working(t)
  /\ scopes[t] # << >>
  /\ LET inner == scopes[t][Len(scopes[t])]
     IN  \/ UNCHANGED failed
         \/ /\ inner # None
            /\ failed' = [failed EXCEPT ![t] = @ \union {inner}]
  /\ scopes' = [scopes EXCEPT ![t] = SubSeq(@, 1, Len(@) - 1)]
  /\ UNCHANGED <<pc, attempt, withCb, ops, ctxVars, outVars, dbVars>>

-----------------------------------------------------------------------------
(* How an attempt ends: fn returns from its outermost level, the database  *)
(* commits or rolls back, and the loop of Transaction goes on or stops.    *)

FnReturns(t) == Working(t) /\ scopes[t] = << >>

\* The transaction is over, rolled back or committed: its locks are released.
ReleaseLocks(t) ==
  /\ held' = [held EXCEPT ![t] = {}]
  /\ aborted' = [aborted EXCEPT ![t] = FALSE]
  /\ UNCHANGED waits

\* fn returns nil and the commit succeeds: ExecuteCallbacks starts.
Commit(t) ==
  /\ FnReturns(t)
  /\ ~ aborted[t]
  /\ committed' = committed \union {<<t, attempt[t]>>}
  /\ ReleaseLocks(t)
  /\ pc' = [pc EXCEPT ![t] = "callbacks"]
  /\ UNCHANGED <<fnVars, ctxVars, outVars>>

\* Seeded fault: an error falls through to ExecuteCallbacks.
ErrorRunsCallbacks(t) ==
  /\ FnReturns(t)
  /\ UNCHANGED committed
  /\ ReleaseLocks(t)
  /\ pc' = [pc EXCEPT ![t] = "callbacks"]
  /\ UNCHANGED <<fnVars, ctxVars, outVars>>

\* Seeded fault: the loop retries on every error, not on deadlocks only.
RetryOnAnyError(t) ==
  /\ FnReturns(t)
  /\ attempt[t] < MaxRetries
  /\ committed' \in {committed, committed \union {<<t, attempt[t]>>}}
  /\ attempt' = [attempt EXCEPT ![t] = @ + 1]
  /\ ReleaseLocks(t)
  /\ UNCHANGED <<pc, withCb, ops, scopes, failed, ctxVars, outVars>>

\* Seeded fault: an error is returned and the transaction left open.
ErrorLeavesOpen(t) ==
  /\ FnReturns(t)
  /\ pc' = [pc EXCEPT ![t] = "err"]
  /\ UNCHANGED <<fnVars, ctxVars, outVars, dbVars>>

\* fn or the commit returns an error that is no deadlock: no further attempt.
\* A commit whose answer is lost has committed all the same.
ReturnError(t) ==
  /\ FnReturns(t)
  /\ \/ UNCHANGED committed
     \/ ~ aborted[t] /\ committed' = committed \union {<<t, attempt[t]>>}
  /\ ReleaseLocks(t)
  /\ pc' = [pc EXCEPT ![t] = "err"]
  /\ UNCHANGED <<fnVars, ctxVars, outVars>>

\* Seeded fault: the retry loop has no bound.
RetryForever(t) ==
  /\ FnReturns(t)
  /\ ops' = [ops EXCEPT ![t] = 0]
  /\ ReleaseLocks(t)
  /\ UNCHANGED <<pc, attempt, withCb, scopes, failed, ctxVars, outVars, committed>>

\* Seeded fault: the bound of the retry loop is off by one.
RetryOnceTooOften(t) ==
  /\ FnReturns(t)
  /\ attempt[t] <= MaxRetries
  /\ attempt' = [attempt EXCEPT ![t] = @ + 1]
  /\ ReleaseLocks(t)
  /\ UNCHANGED <<pc, withCb, ops, scopes, failed, ctxVars, outVars, committed>>

\* IsDeadlock(err), from a statement of fn or from a commit the database
\* refused: the next attempt runs fn again, with the same TxContext.
RetryOnDeadlock(t) ==
  /\ FnReturns(t)
  /\ attempt[t] < MaxRetries
  /\ attempt' = [attempt EXCEPT ![t] = @ + 1]
  /\ ops' = [ops EXCEPT ![t] = 0]
  /\ callbacks' = [callbacks EXCEPT ![t] =
                     IF withCb[t] THEN Append(@, AfterCommit(attempt[t] + 1)) ELSE @]
  /\ ReleaseLocks(t)
  /\ UNCHANGED <<pc, withCb, scopes, failed, events, outVars, committed>>

\* Seeded fault: leaving the loop is taken for success.
ExhaustedRunsCallbacks(t) ==
  /\ FnReturns(t)
  /\ attempt[t] >= MaxRetries
  /\ ReleaseLocks(t)
  /\ pc' = [pc EXCEPT ![t] = "callbacks"]
  /\ UNCHANGED <<fnVars, ctxVars, outVars, committed>>

\* A deadlock in the last attempt: the retries are used up.
RetriesExhausted(t) ==
  /\ FnReturns(t)
  /\ attempt[t] >= MaxRetries
  /\ ReleaseLocks(t)
  /\ pc' = [pc EXCEPT ![t] = "err"]
  /\ UNCHANGED <<fnVars, ctxVars, outVars, committed>>

\* Seeded fault: Deduplicate keeps the first event of a key.
FirstOfEachRow(evs) ==
  {evs[i] : i \in {j \in DOMAIN evs :
                     \A k \in DOMAIN evs : k < j => evs[k].row # evs[j].row}}

\* Deduplicate keeps, of the events with the same key, the last one.
LastOfEachRow(evs) ==
  {evs[i] : i \in {j \in DOMAIN evs :
                     \A k \in DOMAIN evs : k > j => evs[k].row # evs[j].row}}

\* Seeded fault: a callback that panics ends the loop.
PanicEndsCallbacks(t) ==
  /\ pc[t] = "callbacks"
  /\ next[t] <= Len(callbacks[t])
  /\ \/ /\ next' = [next EXCEPT ![t] = @ + 1]
        /\ ran' = [ran EXCEPT ![t] = Append(@, callbacks[t][next[t]])]
        /\ UNCHANGED pc
     \/ /\ pc' = [pc EXCEPT ![t] = "ok"]
        /\ UNCHANGED <<next, ran>>
  /\ UNCHANGED <<published, fnVars, ctxVars, dbVars>>

\* ExecuteCallbacks calls the callbacks in turn; one that panics is recovered
\* and the loop goes on.
RunCallback(t) ==
  /\ pc[t] = "callbacks"
  /\ next[t] <= Len(callbacks[t])
  /\ next' = [next EXCEPT ![t] = @ + 1]
  /\ \/ UNCHANGED <<ran, published>>
     \/ LET cb == callbacks[t][next[t]]
        IN  /\ ran' = [ran EXCEPT ![t] = Append(@, cb)]
            /\ published' = [published EXCEPT ![t] =
                 IF cb.kind = "publish" THEN LastOfEachRow(events[t]) ELSE @]
  /\ UNCHANGED <<pc, fnVars, ctxVars, dbVars>>

ReturnOk(t) ==
  /\ pc[t] = "callbacks"
  /\ next[t] > Len(callbacks[t])
  /\ pc' = [pc EXCEPT ![t] = "ok"]
  /\ UNCHANGED <<fnVars, ctxVars, outVars, dbVars>>

\* The server process dies: open transactions are rolled back by the
\* database, callbacks that have not run are lost.
Crash ==
  /\ \E t \in Txs : pc[t] \in {"running", "callbacks"}
  /\ pc' = [t \in Txs |-> IF pc[t] \in {"running", "callbacks"}
                            THEN "crashed" ELSE pc[t]]
  /\ held' = [t \in Txs |-> {}]
  /\ waits' = [t \in Txs |-> None]
  /\ aborted' = [t \in Txs |-> FALSE]
  /\ UNCHANGED <<fnVars, ctxVars, outVars, committed>>

-----------------------------------------------------------------------------
FnStep(t) ==
  \/ "write" \in FnOps /\ \E r \in Rows : Write(t, r)
  \/ "event" \in FnOps /\ \E r \in Rows : AddEvent(t, r)
  \/ "callback" \in FnOps /\ \E r \in Rows : AddTxCallback(t, r)
  \/ "publish" \in FnOps /\ PublishEventsAfterTx(t)
  \/ "nested" \in FnOps /\ (EnterNested(t) \/ EnterNestedWithCallback(t))
  \/ LeaveNested(t)

DbStep(t) == LockGranted(t) \/ DeadlockVictim(t)

EndStep(t) ==
  Commit(t) \/ ReturnError(t) \/ RetryOnDeadlock(t) \/ RetriesExhausted(t)

AfterStep(t) == RunCallback(t) \/ ReturnOk(t)

Next ==
  \/ \E t \in Txs : Begin(t) \/ FnStep(t) \/ DbStep(t) \/ EndStep(t) \/ AfterStep(t)
  \/ Crash

Spec == Init /\ [][Next]_vars

\* The goroutine of a request keeps running, fn ends, and the database grants
\* or breaks the locks it waits for.
Fairness ==
  \A t \in Txs :
    WF_vars(FnStep(t) \/ DbStep(t) \/ EndStep(t) \/ AfterStep(t))

FairSpec == Spec /\ Fairness

-----------------------------------------------------------------------------
(* Properties *)

Open == {t \in Txs : pc[t] \in {"running", "callbacks"}}

Blocked(t) == pc[t] = "running" /\ waits[t] # None /\ LockedByOther(t, waits[t])

\* While a Transaction call is open some call can go on, or is one the database
\* has to fail: the locks the others wait for are never those of a call that has
\* returned, and calls that all wait for one another wait in a cycle.
NeverStuck == Open # {} => \E t \in Open : ~ Blocked(t) \/ InCycle(t)

\* The steps left to t, at most: an operation of fn may wait, be returned from
\* and leave a callback to run; every attempt left may do MaxOps operations.
StepsLeft == [t \in Txs |->
  CASE pc[t] = "running" ->
         (MaxRetries - attempt[t]) * (3 * MaxOps + 2) + 3 * (MaxOps - ops[t])
           + Len(scopes[t]) + (IF waits[t] = None THEN 0 ELSE 1)
           + Len(callbacks[t]) + 2
    [] pc[t] = "callbacks" -> Len(callbacks[t]) + 2 - next[t]
    [] OTHER -> 0]

\* No step of a call is for nothing: each one brings its end nearer, though a
\* deadlock starts fn again and callbacks pile up over the attempts, and nothing
\* puts it off.
StepsRunOut ==
  [][\A t \in Open :
       /\ StepsLeft'[t] \in 0 .. StepsLeft[t]
       /\ FnStep(t) \/ DbStep(t) \/ EndStep(t) \/ AfterStep(t) =>
            StepsLeft'[t] < StepsLeft[t]]_vars

Committed(t) == \E a \in Attempts : <<t, a>> \in committed

CommittedAttempt(t) == CHOOSE a \in Attempts : <<t, a>> \in committed

\* A callback takes effect only for a request whose work is committed, however
\* the attempts before ended (ExecuteCallbacks is called on err == nil only).
EffectsNeedCommit ==
  \A t \in Txs : ran[t] # << >> => Committed(t)

\* The work of a request commits at most once: the retry loop never runs fn
\* again after a commit, not even after one whose answer was lost.
CommitOnce ==
  \A t \in Txs : \A a, b \in Attempts :
    <<t, a>> \in committed /\ <<t, b>> \in committed => a = b

\* Deduplicate keeps the last event of a key, so an event left in TxContext by
\* an aborted attempt never hides the event the committed attempt added.
CommittedEventWins ==
  \A t \in Txs : \A e \in published[t] :
    (\E i \in DOMAIN events[t] : /\ events[t][i].row = e.row
                                /\ events[t][i].attempt = CommittedAttempt(t))
      => e.attempt = CommittedAttempt(t)

\* Transaction answers whatever the database does: a deadlock is broken, the
\* retries are bounded, and the wait for a lock ends.
Terminates ==
  \A t \in Txs :
    (pc[t] = "running") ~> (pc[t] \in {"callbacks", "ok", "err", "crashed"})

\* After a commit every registered callback is called, those behind a callback
\* that panics too, unless the process dies.
CallbacksDrain ==
  \A t \in Txs :
    (pc[t] = "callbacks") ~> (pc[t] = "crashed" \/ next[t] > Len(callbacks[t]))

\* What the comments of event_queue.go and of TransactionWithCallback say: what
\* takes effect was registered by the work that committed, and the callback of
\* a nested call only if its function has succeeded.
OnlyCommittedWorkAnnounced ==
  \A t \in Txs : \A i \in DOMAIN ran[t] :
    /\ ran[t][i].attempt = CommittedAttempt(t)
    /\ ran[t][i] \notin failed[t]

\* Transaction implements the unit of work its callers rely on.
UOW == INSTANCE UnitOfWork WITH
  durable <- {t \in Txs : Committed(t)},
  told <- {t \in Txs : ran[t] # << >>},
  reply <- [t \in Txs |-> IF pc[t] \in {"ok", "err"} THEN pc[t] ELSE "none"]

ImplementsUnitOfWork == UOW!Spec
=============================================================================
