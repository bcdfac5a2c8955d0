-------------------------- MODULE TxContextProofs ---------------------------
(***************************************************************************)
(* For every set of requests and rows and every retry bound: the work of a *)
(* Transaction call commits at most once, its callbacks take effect only   *)
(* after that commit, what they publish of a row is the event of the       *)
(* attempt that committed, and the whole refines UnitOfWork.  No set of    *)
(* calls waits for ever, and each step of a call brings its end nearer.    *)
(***************************************************************************)
EXTENDS TxContext, SequenceTheorems, Waiting, TLAPS

\* A request that still runs fn has not committed, and one whose callbacks run
\* or have run has: what makes CommitOnce and EffectsNeedCommit inductive.
PhaseInv ==
  \A t \in Txs :
    /\ pc[t] \in {"idle", "running"} => ~ Committed(t)
    /\ pc[t] \in {"callbacks", "ok"} => Committed(t)
    /\ pc[t] \notin {"callbacks", "ok", "crashed"} => ran[t] = << >>

IInv == TypeOK /\ PhaseInv /\ CommitOnce /\ EffectsNeedCommit

\* The initial state has the right types.
LEMMA InitTypeOK == Init => TypeOK
  BY TxAssumption, SMT DEF Init, TypeOK, Attempts, Event, Callback

\* An operation of fn leaves the operation counter within its bound.
LEMMA OperateTypeOK ==
  ASSUME TypeOK, NEW t \in Txs, Operate(t)
  PROVE  ops' \in [Txs -> 0 .. MaxOps]
  BY TxAssumption DEF TypeOK, Operate

\* The steps of fn keep the types.
LEMMA FnStepTypeOK ==
  ASSUME TypeOK, NEW t \in Txs, FnStep(t)
  PROVE  TypeOK'
<1> USE DEF fnVars, ctxVars, outVars, dbVars
<1>1. ASSUME NEW r \in Rows, Write(t, r) PROVE TypeOK'
  <2>1. CASE LockedByOther(t, r)
    <3>1. waits' \in [Txs -> Rows \union {None}] /\ UNCHANGED held
      BY <1>1, <2>1 DEF Write, TypeOK
    <3> QED
      BY <1>1, <3>1, OperateTypeOK DEF Write, TypeOK
  <2>2. CASE ~ LockedByOther(t, r)
    <3>1. held[t] \union {r} \in SUBSET Rows
      BY DEF TypeOK
    <3>2. held' = [held EXCEPT ![t] = held[t] \union {r}] /\ UNCHANGED waits
      BY <1>1, <2>2 DEF Write
    <3> QED
      BY <1>1, <3>1, <3>2, OperateTypeOK DEF Write, TypeOK
  <2> QED
    BY <2>1, <2>2
<1>2. ASSUME NEW r \in Rows, AddEvent(t, r) PROVE TypeOK'
  <2>1. [row |-> r, attempt |-> attempt[t]] \in Event
    BY DEF TypeOK, Event
  <2>2. events' \in [Txs -> Seq(Event)]
    BY <1>2, <2>1 DEF AddEvent, TypeOK
  <2> QED
    BY <1>2, <2>2, OperateTypeOK DEF AddEvent, TypeOK
<1>3. ASSUME NEW r \in Rows, AddTxCallback(t, r) PROVE TypeOK'
  <2>1. NewCallback(t, "notify", r) \in Callback
    BY <1>3, TxAssumption
    DEF TypeOK, AddTxCallback, Operate, NewCallback, Callback
  <2>2. callbacks' \in [Txs -> Seq(Callback)]
    BY <1>3, <2>1 DEF AddTxCallback, AddCallback, TypeOK
  <2> QED
    BY <1>3, <2>2, OperateTypeOK DEF AddTxCallback, TypeOK
<1>4. CASE PublishEventsAfterTx(t)
  <2>1. NewCallback(t, "publish", None) \in Callback
    BY <1>4, TxAssumption
    DEF TypeOK, PublishEventsAfterTx, Operate, NewCallback, Callback
  <2>2. callbacks' \in [Txs -> Seq(Callback)]
    BY <1>4, <2>1 DEF PublishEventsAfterTx, AddCallback, TypeOK
  <2> QED
    BY <1>4, <2>2, OperateTypeOK DEF PublishEventsAfterTx, TypeOK
<1>5. CASE EnterNested(t)
  <2>1. scopes' \in [Txs -> Seq(Callback \union {None})]
    BY <1>5 DEF EnterNested, TypeOK
  <2> QED
    BY <1>5, <2>1, OperateTypeOK DEF EnterNested, TypeOK
<1>6. CASE EnterNestedWithCallback(t)
  <2>1. NewCallback(t, "afterCommit", None) \in Callback
    BY <1>6, TxAssumption
    DEF TypeOK, EnterNestedWithCallback, Operate, NewCallback, Callback
  <2>2. /\ callbacks' \in [Txs -> Seq(Callback)]
        /\ scopes' \in [Txs -> Seq(Callback \union {None})]
    BY <1>6, <2>1 DEF EnterNestedWithCallback, AddCallback, TypeOK
  <2> QED
    BY <1>6, <2>2, OperateTypeOK DEF EnterNestedWithCallback, TypeOK
<1>7. CASE LeaveNested(t)
  <2> DEFINE inner == scopes[t][Len(scopes[t])]
  <2>1. scopes[t] \in Seq(Callback \union {None}) /\ scopes[t] # << >>
    BY <1>7 DEF LeaveNested, TypeOK
  <2>2. Len(scopes[t]) \in Nat \ {0}
    BY <2>1, EmptySeq
  <2>3. inner \in Callback \union {None}
    BY <2>1, <2>2, ElementOfSeq
  <2>4. SubSeq(scopes[t], 1, Len(scopes[t]) - 1) \in Seq(Callback \union {None})
    BY <2>1, <2>2
  <2>5. scopes' \in [Txs -> Seq(Callback \union {None})]
    BY <1>7, <2>4 DEF LeaveNested, TypeOK
  <2>6. \/ UNCHANGED failed
        \/ inner # None /\ failed' = [failed EXCEPT ![t] = failed[t] \union {inner}]
    BY <1>7 DEF LeaveNested
  <2>7. failed' \in [Txs -> SUBSET Callback]
    <3>1. CASE UNCHANGED failed
      BY <3>1 DEF TypeOK
    <3>2. CASE inner # None /\ failed' = [failed EXCEPT ![t] = failed[t] \union {inner}]
      <4>1. failed[t] \union {inner} \in SUBSET Callback
        BY <2>3, <3>2 DEF TypeOK
      <4> HIDE DEF inner
      <4> QED
        BY <3>2, <4>1 DEF TypeOK
    <3> QED
      BY <2>6, <3>1, <3>2
  <2> QED
    BY <1>7, <2>5, <2>7 DEF LeaveNested, TypeOK
<1> QED
  BY <1>1, <1>2, <1>3, <1>4, <1>5, <1>6, <1>7 DEF FnStep

\* The steps of the database keep the types.
LEMMA DbStepTypeOK ==
  ASSUME TypeOK, NEW t \in Txs, DbStep(t)
  PROVE  TypeOK'
<1> USE DEF fnVars, ctxVars, outVars
<1>1. CASE LockGranted(t)
  <2>1. held[t] \union {waits[t]} \in SUBSET Rows
    BY <1>1 DEF LockGranted, TypeOK
  <2> QED
    BY <1>1, <2>1 DEF LockGranted, TypeOK
<1>2. CASE DeadlockVictim(t)
  BY <1>2 DEF DeadlockVictim, TypeOK
<1> QED
  BY <1>1, <1>2 DEF DbStep

\* The ends of an attempt keep the types.
LEMMA EndStepTypeOK ==
  ASSUME TypeOK, NEW t \in Txs, EndStep(t)
  PROVE  TypeOK'
<1> USE DEF fnVars, ctxVars, outVars, ReleaseLocks
<1>1. <<t, attempt[t]>> \in Txs \X Attempts
  BY DEF TypeOK
<1>2. CASE Commit(t)
  BY <1>1, <1>2 DEF Commit, TypeOK
<1>3. CASE ReturnError(t)
  BY <1>1, <1>3 DEF ReturnError, TypeOK
<1>4. CASE RetryOnDeadlock(t)
  <2>1. attempt[t] + 1 \in Attempts
    BY <1>4, TxAssumption DEF RetryOnDeadlock, TypeOK, Attempts
  <2>2. AfterCommit(attempt[t] + 1) \in Callback
    BY <2>1, TxAssumption DEF AfterCommit, Callback
  <2>3. callbacks' \in [Txs -> Seq(Callback)]
    BY <1>4, <2>2 DEF RetryOnDeadlock, TypeOK
  <2>4. attempt' \in [Txs -> Attempts] /\ ops' \in [Txs -> 0 .. MaxOps]
    BY <1>4, <2>1, TxAssumption DEF RetryOnDeadlock, TypeOK
  <2> QED
    BY <1>4, <2>3, <2>4 DEF RetryOnDeadlock, TypeOK
<1>5. CASE RetriesExhausted(t)
  BY <1>5 DEF RetriesExhausted, TypeOK
<1> QED
  BY <1>2, <1>3, <1>4, <1>5 DEF EndStep

\* Running the callbacks keeps the types.
LEMMA AfterStepTypeOK ==
  ASSUME TypeOK, NEW t \in Txs, AfterStep(t)
  PROVE  TypeOK'
<1> USE DEF fnVars, ctxVars, dbVars
<1>1. CASE RunCallback(t)
  <2> DEFINE cb == callbacks[t][next[t]]
  <2>1. next[t] \in 1 .. Len(callbacks[t]) /\ callbacks[t] \in Seq(Callback)
    BY <1>1 DEF RunCallback, TypeOK
  <2>2. cb \in Callback
    BY <2>1, ElementOfSeq
  <2>3. LastOfEachRow(events[t]) \in SUBSET Event
    BY DEF LastOfEachRow, TypeOK
  <2>4. next' \in [Txs -> Nat \ {0}]
    BY <1>1 DEF RunCallback, TypeOK
  <2>5. CASE UNCHANGED <<ran, published>>
    BY <1>1, <2>4, <2>5 DEF RunCallback, TypeOK
  <2>6. CASE ~ UNCHANGED <<ran, published>>
    <3>1. ran' = [ran EXCEPT ![t] = Append(ran[t], cb)]
      BY <1>1, <2>6 DEF RunCallback
    <3>2. ran' \in [Txs -> Seq(Callback)]
      BY <2>2, <3>1 DEF TypeOK
    <3>3. published' = [published EXCEPT ![t] =
            IF cb.kind = "publish" THEN LastOfEachRow(events[t]) ELSE published[t]]
      BY <1>1, <2>6 DEF RunCallback
    <3>4. published' \in [Txs -> SUBSET Event]
      BY <2>3, <3>3 DEF TypeOK
    <3> QED
      BY <1>1, <2>4, <3>2, <3>4 DEF RunCallback, TypeOK
  <2> QED
    BY <2>5, <2>6
<1>2. CASE ReturnOk(t)
  BY <1>2 DEF ReturnOk, outVars, TypeOK
<1> QED
  BY <1>1, <1>2 DEF AfterStep

\* Every step keeps the types.
LEMMA NextTypeOK == TypeOK /\ [Next]_vars => TypeOK'
<1> SUFFICES ASSUME TypeOK, [Next]_vars PROVE TypeOK'
  OBVIOUS
<1>1. ASSUME NEW t \in Txs, Begin(t) PROVE TypeOK'
  <2>1. AfterCommit(0) \in Callback
    BY TxAssumption DEF AfterCommit, Callback, Attempts
  <2>2. PICK w \in BOOLEAN :
          /\ withCb' = [withCb EXCEPT ![t] = w]
          /\ callbacks' =
               [callbacks EXCEPT ![t] = IF w THEN <<AfterCommit(0)>> ELSE << >>]
    BY <1>1 DEF Begin
  <2>3. (IF w THEN <<AfterCommit(0)>> ELSE << >>) \in Seq(Callback)
    BY <2>1
  <2>4. withCb' \in [Txs -> BOOLEAN] /\ callbacks' \in [Txs -> Seq(Callback)]
    BY <2>2, <2>3 DEF TypeOK
  <2> QED
    BY <1>1, <2>4 DEF Begin, TypeOK, outVars, dbVars
<1>2. CASE Crash
  BY <1>2 DEF Crash, TypeOK, fnVars, ctxVars, outVars
<1>3. CASE UNCHANGED vars
  BY <1>3 DEF vars, fnVars, ctxVars, outVars, dbVars, TypeOK
<1> QED
  BY <1>1, <1>2, <1>3, FnStepTypeOK, DbStepTypeOK, EndStepTypeOK, AfterStepTypeOK
  DEF Next

\* Every reachable state of pkg/database/tx_context.go's Transaction is well
\* typed; in particular the loop never runs an attempt beyond MaxRetries.
THEOREM TxTypeOK == Spec => []TypeOK
<1>1. TypeOK /\ [Next]_vars => TypeOK'
  BY NextTypeOK
<1> QED
  BY InitTypeOK, <1>1, PTL DEF Spec

-----------------------------------------------------------------------------
(* The inductive invariant.                                                *)

\* Initially nothing has run and nothing is committed.
LEMMA InitIInv == Init => IInv
  BY InitTypeOK DEF Init, IInv, PhaseInv, CommitOnce, EffectsNeedCommit, Committed

\* A step that commits nothing, runs no callback and moves a request only along
\* the phases that need no commit.
Quiet ==
  /\ UNCHANGED <<committed, ran>>
  /\ \A u \in Txs : \/ pc'[u] = pc[u]
                    \/ pc[u] = "idle" /\ pc'[u] = "running"
                    \/ pc[u] = "running" /\ pc'[u] = "err"
                    \/ pc[u] = "callbacks" /\ pc'[u] = "ok"
                    \/ pc[u] \in {"running", "callbacks"} /\ pc'[u] = "crashed"

\* What a step must keep beside the types.
Safe == PhaseInv /\ CommitOnce /\ EffectsNeedCommit

\* A quiet step keeps the invariant.
LEMMA QuietStep == IInv /\ Quiet => Safe'
<1> SUFFICES ASSUME IInv, Quiet PROVE Safe'
  OBVIOUS
<1>1. \A u \in Txs : Committed(u)' <=> Committed(u)
  BY DEF Committed, Quiet
<1> QED
  BY <1>1 DEF IInv, PhaseInv, CommitOnce, EffectsNeedCommit, Quiet, Safe

\* A commit of the current attempt is the first of its request.
LEMMA CommitStep ==
  ASSUME IInv, NEW t \in Txs, pc[t] = "running",
         committed' = committed \union {<<t, attempt[t]>>}, UNCHANGED ran,
         NEW q \in {"callbacks", "err"}, pc' = [pc EXCEPT ![t] = q]
  PROVE  Safe'
<1>1. attempt[t] \in Attempts
  BY DEF IInv, TypeOK
<1>2. Committed(t)' /\ ~ Committed(t)
  BY <1>1 DEF Committed, IInv, PhaseInv
<1>3. \A u \in Txs \ {t} : Committed(u)' <=> Committed(u)
  BY DEF Committed
<1>4. pc'[t] = q /\ \A u \in Txs \ {t} : pc'[u] = pc[u]
  BY DEF IInv, TypeOK
<1>5. PhaseInv'
  BY <1>2, <1>3, <1>4 DEF IInv, PhaseInv
<1>6. CommitOnce'
  BY <1>2 DEF IInv, CommitOnce, Committed
<1>7. EffectsNeedCommit'
  BY <1>2, <1>3 DEF IInv, EffectsNeedCommit
<1> QED
  BY <1>5, <1>6, <1>7 DEF Safe

\* Every step keeps the invariant.
LEMMA NextIInv == IInv /\ [Next]_vars => IInv'
<1> SUFFICES ASSUME IInv, [Next]_vars PROVE Safe'
  BY NextTypeOK DEF IInv, Safe
<1> USE DEF fnVars, ctxVars, outVars, dbVars
<1> pc \in [Txs -> {"idle", "running", "callbacks", "ok", "err", "crashed"}]
  BY DEF IInv, TypeOK
<1>1. ASSUME NEW t \in Txs, Begin(t) PROVE Safe'
  <2>1. Quiet
    BY <1>1 DEF Begin, Quiet
  <2> QED
    BY <2>1, QuietStep
<1>2. ASSUME NEW t \in Txs, FnStep(t) PROVE Safe'
  <2>1. UNCHANGED <<pc, committed, ran>>
    BY <1>2 DEF FnStep, Write, AddEvent, AddTxCallback, PublishEventsAfterTx,
                EnterNested, EnterNestedWithCallback, LeaveNested
  <2>2. Quiet
    BY <2>1 DEF Quiet
  <2> QED
    BY <2>2, QuietStep
<1>3. ASSUME NEW t \in Txs, DbStep(t) PROVE Safe'
  <2>1. Quiet
    BY <1>3 DEF Quiet, DbStep, LockGranted, DeadlockVictim
  <2> QED
    BY <2>1, QuietStep
<1>4. ASSUME NEW t \in Txs, Commit(t) PROVE Safe'
  <2>1. /\ pc[t] = "running"
        /\ committed' = committed \union {<<t, attempt[t]>>}
        /\ UNCHANGED ran
        /\ pc' = [pc EXCEPT ![t] = "callbacks"]
    BY <1>4 DEF Commit, FnReturns, Working
  <2> QED
    BY <2>1, CommitStep
<1>5. ASSUME NEW t \in Txs, ReturnError(t) PROVE Safe'
  <2>1. /\ pc[t] = "running"
        /\ UNCHANGED ran
        /\ pc' = [pc EXCEPT ![t] = "err"]
    BY <1>5 DEF ReturnError, FnReturns, Working
  <2>2. CASE UNCHANGED committed
    <3>1. Quiet
      BY <2>1, <2>2 DEF Quiet
    <3> QED
      BY <3>1, QuietStep
  <2>3. CASE committed' = committed \union {<<t, attempt[t]>>}
    BY <2>1, <2>3, CommitStep
  <2> QED
    BY <1>5, <2>2, <2>3 DEF ReturnError
<1>6. ASSUME NEW t \in Txs, RetryOnDeadlock(t) PROVE Safe'
  <2>1. Quiet
    BY <1>6 DEF Quiet, RetryOnDeadlock, ReleaseLocks
  <2> QED
    BY <2>1, QuietStep
<1>7. ASSUME NEW t \in Txs, RetriesExhausted(t) PROVE Safe'
  <2>1. Quiet
    BY <1>7 DEF Quiet, RetriesExhausted, FnReturns, Working
  <2> QED
    BY <2>1, QuietStep
<1>8. ASSUME NEW t \in Txs, RunCallback(t) PROVE Safe'
  <2>1. UNCHANGED <<pc, committed>> /\ pc[t] = "callbacks"
    BY <1>8 DEF RunCallback
  <2>2. \A u \in Txs \ {t} : ran'[u] = ran[u]
    BY <1>8 DEF RunCallback, IInv, TypeOK
  <2>3. \A u \in Txs : Committed(u)' <=> Committed(u)
    BY <2>1 DEF Committed
  <2> QED
    BY <2>1, <2>2, <2>3 DEF IInv, PhaseInv, CommitOnce, EffectsNeedCommit, Safe
<1>9. ASSUME NEW t \in Txs, ReturnOk(t) PROVE Safe'
  <2>1. Quiet
    BY <1>9 DEF Quiet, ReturnOk
  <2> QED
    BY <2>1, QuietStep
<1>10. CASE Crash
  <2>1. Quiet
    BY <1>10 DEF Quiet, Crash
  <2> QED
    BY <2>1, QuietStep
<1>11. CASE UNCHANGED vars
  <2>1. Quiet
    BY <1>11 DEF Quiet, vars
  <2> QED
    BY <2>1, QuietStep
<1> QED
  BY <1>1, <1>2, <1>3, <1>4, <1>5, <1>6, <1>7, <1>8, <1>9, <1>10, <1>11
  DEF Next, EndStep, AfterStep

\* The invariant holds in every reachable state.
THEOREM TxIInv == Spec => []IInv
<1>1. IInv /\ [Next]_vars => IInv'
  BY NextIInv
<1> QED
  BY InitIInv, <1>1, PTL DEF Spec

\* A callback takes effect only for a request whose work is committed.
THEOREM TxEffectsNeedCommit == Spec => []EffectsNeedCommit
<1>1. IInv => EffectsNeedCommit
  BY DEF IInv
<1> QED
  BY TxIInv, <1>1, PTL

\* The retry loop never does the work of a request twice.
THEOREM TxCommitOnce == Spec => []CommitOnce
<1>1. IInv => CommitOnce
  BY DEF IInv
<1> QED
  BY TxIInv, <1>1, PTL

-----------------------------------------------------------------------------
(* Events of aborted attempts never hide those of the committed one: they  *)
(* are in the queue before them, and Deduplicate keeps the last of a key.  *)

EventsAt(t) ==
  /\ \A i, j \in DOMAIN events[t] :
       i <= j => events[t][i].attempt <= events[t][j].attempt
  /\ \A i \in DOMAIN events[t] : events[t][i].attempt <= attempt[t]
  /\ \A a \in Attempts : <<t, a>> \in committed => a = attempt[t]
  /\ published[t] # {} =>
       Committed(t) /\ published[t] \subseteq LastOfEachRow(events[t])

EventInv == \A t \in Txs : EventsAt(t)

\* The queue, what was published of it and the attempt stay.
LEMMA EventsStay ==
  ASSUME NEW t \in Txs, EventsAt(t), committed' = committed,
         events'[t] = events[t], published'[t] = published[t], attempt'[t] = attempt[t]
  PROVE  EventsAt(t)'
BY DEF EventsAt, Committed, LastOfEachRow

\* An event goes to the end of the queue, with the attempt that adds it.
LEMMA EventsGrow ==
  ASSUME IInv, NEW t \in Txs, EventsAt(t), pc[t] = "running",
         NEW e \in Event, e.attempt = attempt[t], events'[t] = Append(events[t], e),
         UNCHANGED <<attempt, committed, published>>
  PROVE  EventsAt(t)'
<1>1. TypeOK /\ published[t] = {}
  BY DEF IInv, PhaseInv, EventsAt
<1>2. events[t] \in Seq(Event) /\ \A i \in DOMAIN events[t] : events[t][i].attempt \in Nat
  <2>1. events[t] \in Seq(Event)
    BY <1>1 DEF TypeOK
  <2>2. \A i \in DOMAIN events[t] : events[t][i] \in Event
    BY <2>1, ElementOfSeq, LenProperties
  <2> QED
    BY <2>1, <2>2, TxAssumption DEF Event, Attempts
<1> DEFINE n == Len(events[t])
<1>3. /\ n \in Nat
      /\ DOMAIN events[t] = 1 .. n
      /\ DOMAIN events'[t] = 1 .. (n + 1)
      /\ \A i \in 1 .. n : events'[t][i] = events[t][i]
      /\ events'[t][n + 1] = e
  BY <1>2, AppendProperties, LenProperties
<1>4. attempt[t] \in Nat
  BY <1>1, TxAssumption DEF TypeOK, Attempts
<1>5. \A i \in DOMAIN events'[t] : /\ events'[t][i].attempt \in Nat
                                    /\ events'[t][i].attempt <= attempt[t]
  BY <1>2, <1>3, <1>4 DEF EventsAt
<1>6. \A i, j \in DOMAIN events'[t] :
        i <= j => events'[t][i].attempt <= events'[t][j].attempt
  <2> SUFFICES ASSUME NEW i \in 1 .. (n + 1), NEW j \in 1 .. (n + 1), i <= j
               PROVE  events'[t][i].attempt <= events'[t][j].attempt
    BY <1>3
  <2>1. CASE j = n + 1
    BY <1>3, <1>5, <2>1
  <2>2. CASE j # n + 1
    <3>1. i \in 1 .. n /\ j \in 1 .. n
      BY <1>3, <2>2
    <3> QED
      BY <1>3, <3>1 DEF EventsAt
  <2> QED
    BY <2>1, <2>2
<1> QED
  BY <1>1, <1>5, <1>6 DEF EventsAt, Committed

\* The current attempt commits.
LEMMA EventsCommit ==
  ASSUME IInv, NEW t \in Txs, EventsAt(t), NEW u \in Txs,
         committed' = committed \union {<<u, attempt[u]>>},
         UNCHANGED <<attempt, events, published>>
  PROVE  EventsAt(t)'
<1>1. Committed(t) => Committed(t)'
  BY DEF Committed
<1> QED
  BY <1>1 DEF EventsAt, LastOfEachRow

LEMMA InitEvents == Init => EventInv
<1> SUFFICES ASSUME Init, NEW t \in Txs
             PROVE  EventsAt(t)
  BY DEF EventInv
<1>1. events[t] = << >> /\ published[t] = {} /\ committed = {}
  BY DEF Init
<1>2. DOMAIN events[t] = {}
  BY <1>1
<1> QED
  BY <1>1, <1>2 DEF EventsAt

LEMMA NextEvents == IInv /\ EventInv /\ [Next]_vars => EventInv'
<1> SUFFICES ASSUME IInv, EventInv, [Next]_vars, NEW u \in Txs
             PROVE  EventsAt(u)'
  BY DEF EventInv
<1> USE DEF fnVars, ctxVars, outVars, dbVars
<1>0. TypeOK /\ EventsAt(u)
  BY DEF IInv, EventInv
<1>1. CASE UNCHANGED <<attempt, events, published, committed>>
  BY <1>0, <1>1, EventsStay
<1>2. ASSUME NEW t \in Txs, NEW r \in Rows, AddEvent(t, r)
      PROVE  EventsAt(u)'
  <2> DEFINE e == [row |-> r, attempt |-> attempt[t]]
  <2>1. /\ pc[t] = "running"
        /\ events' = [events EXCEPT ![t] = Append(events[t], e)]
        /\ UNCHANGED <<attempt, published, committed>>
    BY <1>2 DEF AddEvent, Operate, Working
  <2>2. e \in Event
    BY <1>0 DEF Event, TypeOK
  <2>3. CASE u = t
    <3>1. events'[t] = Append(events[t], e)
      BY <1>0, <2>1 DEF TypeOK
    <3> QED
      BY <1>0, <2>1, <2>2, <2>3, <3>1, EventsGrow
  <2>4. CASE u # t
    BY <1>0, <2>1, <2>4, EventsStay DEF TypeOK
  <2> QED
    BY <2>3, <2>4
<1>3. ASSUME NEW t \in Txs, Commit(t) \/ ReturnError(t)
      PROVE  EventsAt(u)'
  <2>1. /\ \/ committed' = committed \union {<<t, attempt[t]>>}
           \/ UNCHANGED committed
        /\ UNCHANGED <<attempt, events, published>>
    BY <1>3 DEF Commit, ReturnError
  <2> QED
    BY <1>0, <1>1, <2>1, EventsCommit
<1>4. ASSUME NEW t \in Txs, RetryOnDeadlock(t)
      PROVE  EventsAt(u)'
  <2>1. /\ pc[t] = "running"
        /\ attempt' = [attempt EXCEPT ![t] = attempt[t] + 1]
        /\ UNCHANGED <<events, published, committed>>
    BY <1>4 DEF RetryOnDeadlock, FnReturns, Working
  <2>2. CASE u = t
    <3>1. attempt'[t] = attempt[t] + 1 /\ attempt[t] \in Nat
      BY <1>0, <2>1, TxAssumption DEF TypeOK, Attempts
    <3>2. ~ Committed(t) /\ published[t] = {}
      BY <1>0, <2>1, <2>2 DEF IInv, PhaseInv, EventsAt
    <3>3. \A i \in DOMAIN events[t] : events[t][i].attempt \in Nat
      <4>1. events[t] \in Seq(Event)
        BY <1>0 DEF TypeOK
      <4>2. \A i \in DOMAIN events[t] : events[t][i] \in Event
        BY <4>1, ElementOfSeq, LenProperties
      <4> QED
        BY <4>2, TxAssumption DEF Event, Attempts
    <3>4. \A i \in DOMAIN events[t] : events[t][i].attempt <= attempt'[t]
      BY <1>0, <2>2, <3>1, <3>3 DEF EventsAt
    <3> QED
      BY <1>0, <2>1, <2>2, <3>2, <3>4 DEF EventsAt, Committed
  <2>3. CASE u # t
    BY <1>0, <2>1, <2>3, EventsStay DEF TypeOK
  <2> QED
    BY <2>2, <2>3
<1>5. ASSUME NEW t \in Txs, RunCallback(t)
      PROVE  EventsAt(u)'
  <2>1. /\ pc[t] = "callbacks"
        /\ UNCHANGED <<attempt, events, committed>>
        /\ \A s \in Txs : \/ published'[s] = published[s]
                          \/ s = t /\ published'[s] = LastOfEachRow(events[s])
    BY <1>0, <1>5 DEF RunCallback, TypeOK
  <2>2. CASE published'[u] = published[u]
    BY <1>0, <2>1, <2>2, EventsStay
  <2>3. CASE u = t /\ published'[u] = LastOfEachRow(events[u])
    <3>1. Committed(u)
      BY <2>1, <2>3 DEF IInv, PhaseInv
    <3> QED
      BY <1>0, <2>1, <2>3, <3>1 DEF EventsAt, Committed, LastOfEachRow
  <2> QED
    BY <2>1, <2>2, <2>3
<1>6. ASSUME NEW t \in Txs, FnStep(t)
      PROVE  EventsAt(u)'
  BY <1>1, <1>2, <1>6 DEF FnStep, Write, AddTxCallback, PublishEventsAfterTx,
                          EnterNested, EnterNestedWithCallback, LeaveNested
<1>7. ASSUME NEW t \in Txs, Begin(t) \/ DbStep(t) \/ RetriesExhausted(t) \/ ReturnOk(t)
      PROVE  EventsAt(u)'
  BY <1>1, <1>7 DEF Begin, DbStep, LockGranted, DeadlockVictim, RetriesExhausted, ReturnOk
<1>8. CASE Crash \/ UNCHANGED vars
  BY <1>1, <1>8 DEF Crash, vars
<1> QED
  BY <1>3, <1>4, <1>5, <1>6, <1>7, <1>8 DEF Next, EndStep, AfterStep

\* What is published of a row is the event of the committed attempt, if that
\* attempt has added one, whatever the aborted attempts left in the queue.
THEOREM TxCommittedEventWins == Spec => []CommittedEventWins
<1>1. IInv /\ EventInv => CommittedEventWins
  <2> SUFFICES ASSUME IInv, EventInv, NEW t \in Txs, NEW e \in published[t],
                      NEW j \in DOMAIN events[t], events[t][j].row = e.row,
                      events[t][j].attempt = CommittedAttempt(t)
               PROVE  e.attempt = CommittedAttempt(t)
    BY DEF CommittedEventWins
  <2>1. TypeOK /\ EventsAt(t) /\ Committed(t)
    BY DEF IInv, EventInv, EventsAt
  <2>2. CommittedAttempt(t) = attempt[t]
    BY <2>1 DEF Committed, CommittedAttempt, EventsAt
  <2>3. PICK i \in DOMAIN events[t] :
          /\ e = events[t][i]
          /\ \A k \in DOMAIN events[t] : k > i => events[t][k].row # events[t][i].row
    BY <2>1 DEF EventsAt, LastOfEachRow
  <2>4. events[t] \in Seq(Event)
    BY <2>1 DEF TypeOK
  <2>5. i \in Nat /\ j \in Nat /\ e.attempt \in Nat /\ attempt[t] \in Nat
    BY <2>1, <2>3, <2>4, ElementOfSeq, LenProperties, TxAssumption
    DEF TypeOK, Event, Attempts
  <2>6. j <= i
    BY <2>3, <2>5
  <2>7. attempt[t] <= e.attempt /\ e.attempt <= attempt[t]
    BY <2>1, <2>2, <2>3, <2>6 DEF EventsAt
  <2> QED
    BY <2>2, <2>5, <2>7
<1> QED
  BY TxIInv, InitEvents, NextEvents, <1>1, PTL DEF Spec

-----------------------------------------------------------------------------
(* Refinement: every step of TxContext is a step of UnitOfWork or changes  *)
(* nothing UnitOfWork sees.                                                *)

Durable == {t \in Txs : Committed(t)}
Told == {t \in Txs : ran[t] # << >>}
Reply == [t \in Txs |-> IF pc[t] \in {"ok", "err"} THEN pc[t] ELSE "none"]

\* A quiet step that answers nobody is invisible.
LEMMA InvisibleStep ==
  ASSUME UNCHANGED <<committed, ran>>,
         \A u \in Txs : \/ pc'[u] = pc[u]
                         \/ {pc[u], pc'[u]} \cap {"ok", "err"} = {}
  PROVE  UNCHANGED <<Durable, Told, Reply>>
<1>1. \A u \in Txs : Committed(u)' <=> Committed(u)
  BY DEF Committed
<1>2. Reply' = Reply
  BY DEF Reply
<1>3. Durable' = Durable
  BY <1>1 DEF Durable
<1>4. Told' = Told
  BY DEF Told
<1> QED
  BY <1>2, <1>3, <1>4

\* Only the reply to t changes, and it becomes q.
LEMMA ReplyStep ==
  ASSUME TypeOK, NEW t \in Txs, NEW q \in {"ok", "err"}, pc' = [pc EXCEPT ![t] = q]
  PROVE  Reply' = [Reply EXCEPT ![t] = q]
  BY DEF Reply, TypeOK

\* Every step of Transaction is a step of the unit of work or invisible.
LEMMA StepSimulation == IInv /\ [Next]_vars => [UOW!Next]_UOW!vars
<1> SUFFICES ASSUME IInv, [Next]_vars PROVE [UOW!Next]_<<Durable, Told, Reply>>
  BY DEF UOW!vars, Durable, Told, Reply
<1> USE DEF fnVars, ctxVars, outVars, dbVars
<1>0. TypeOK /\ pc \in [Txs -> {"idle", "running", "callbacks", "ok", "err", "crashed"}]
  BY DEF IInv, TypeOK
<1>1. ASSUME NEW t \in Txs, Begin(t) PROVE UNCHANGED <<Durable, Told, Reply>>
  <2>1. \A u \in Txs : \/ pc'[u] = pc[u]
                        \/ {pc[u], pc'[u]} \cap {"ok", "err"} = {}
    BY <1>0, <1>1 DEF Begin
  <2> QED
    BY <1>1, <2>1, InvisibleStep DEF Begin
<1>2. ASSUME NEW t \in Txs, FnStep(t) \/ DbStep(t)
      PROVE  UNCHANGED <<Durable, Told, Reply>>
  <2>1. UNCHANGED <<pc, committed, ran>>
    BY <1>2 DEF FnStep, Write, AddEvent, AddTxCallback, PublishEventsAfterTx,
                EnterNested, EnterNestedWithCallback, LeaveNested,
                DbStep, LockGranted, DeadlockVictim
  <2>2. \A u \in Txs : pc'[u] = pc[u]
    BY <2>1
  <2> QED
    BY <2>1, <2>2, InvisibleStep
<1>3. ASSUME NEW t \in Txs, Commit(t) PROVE UOW!Commit(t)
  <2>1. /\ pc[t] = "running"
        /\ committed' = committed \union {<<t, attempt[t]>>}
        /\ UNCHANGED ran
        /\ pc' = [pc EXCEPT ![t] = "callbacks"]
    BY <1>3 DEF Commit, FnReturns, Working
  <2>2. Reply' = Reply /\ Reply[t] = "none"
    BY <1>0, <2>1 DEF Reply
  <2>3. Durable' = Durable \union {t} /\ t \notin Durable
    BY <1>0, <2>1 DEF Durable, Committed, IInv, PhaseInv, TypeOK
  <2>4. Told' = Told
    BY <2>1 DEF Told
  <2> QED
    BY <2>2, <2>3, <2>4 DEF UOW!Commit, Durable, Told, Reply
<1>4. ASSUME NEW t \in Txs, ReturnError(t) \/ RetriesExhausted(t) PROVE UOW!AnswerError(t)
  <2>1. /\ pc[t] = "running"
        /\ committed' \in {committed, committed \union {<<t, attempt[t]>>}}
        /\ UNCHANGED ran
        /\ pc' = [pc EXCEPT ![t] = "err"]
    BY <1>4 DEF ReturnError, RetriesExhausted, FnReturns, Working
  <2>2. Reply' = [Reply EXCEPT ![t] = "err"] /\ Reply[t] = "none"
    BY <1>0, <2>1, ReplyStep DEF Reply
  <2>3. t \notin Durable
    BY <2>1 DEF Durable, IInv, PhaseInv
  <2>4. Durable' \in {Durable, Durable \union {t}}
    BY <1>0, <2>1 DEF Durable, Committed, TypeOK
  <2>5. Told' = Told
    BY <2>1 DEF Told
  <2> QED
    BY <2>2, <2>3, <2>4, <2>5 DEF UOW!AnswerError, Durable, Told, Reply
<1>5. ASSUME NEW t \in Txs, RetryOnDeadlock(t) PROVE UNCHANGED <<Durable, Told, Reply>>
  <2>1. UNCHANGED <<pc, committed, ran>>
    BY <1>5 DEF RetryOnDeadlock
  <2>2. \A u \in Txs : pc'[u] = pc[u]
    BY <2>1
  <2> QED
    BY <2>1, <2>2, InvisibleStep
<1>6. ASSUME NEW t \in Txs, RunCallback(t)
      PROVE  UOW!Announce(t) \/ UNCHANGED <<Durable, Told, Reply>>
  <2>1. UNCHANGED <<pc, committed>> /\ pc[t] = "callbacks"
    BY <1>6 DEF RunCallback
  <2>2. Reply' = Reply /\ Durable' = Durable
    BY <2>1 DEF Reply, Durable, Committed
  <2>3. Reply[t] = "none" /\ t \in Durable
    BY <2>1 DEF Reply, Durable, IInv, PhaseInv
  <2>4. CASE UNCHANGED ran
    BY <2>2, <2>4 DEF Told
  <2>5. CASE ~ UNCHANGED ran
    <3> DEFINE cb == callbacks[t][next[t]]
    <3>1. ran' = [ran EXCEPT ![t] = Append(ran[t], cb)]
      BY <1>6, <2>5 DEF RunCallback
    <3>2. next[t] \in 1 .. Len(callbacks[t]) /\ callbacks[t] \in Seq(Callback)
      BY <1>0, <1>6 DEF RunCallback, TypeOK
    <3>3. cb \in Callback
      BY <3>2, ElementOfSeq
    <3> HIDE DEF cb
    <3>r. ran[t] \in Seq(Callback)
      BY <1>0 DEF TypeOK
    <3>4. Append(ran[t], cb) # << >>
      BY <3>3, <3>r, AppendProperties
    <3>5. ran'[t] # << >> /\ \A u \in Txs \ {t} : ran'[u] = ran[u]
      BY <1>0, <3>1, <3>4 DEF TypeOK
    <3>6. Told' = Told \union {t}
      BY <3>5 DEF Told
    <3> QED
      BY <2>2, <2>3, <3>6 DEF UOW!Announce, Durable, Told, Reply
  <2> QED
    BY <2>4, <2>5
<1>7. ASSUME NEW t \in Txs, ReturnOk(t) PROVE UOW!AnswerOk(t)
  <2>1. pc[t] = "callbacks" /\ pc' = [pc EXCEPT ![t] = "ok"] /\ UNCHANGED <<committed, ran>>
    BY <1>7 DEF ReturnOk
  <2>2. Reply' = [Reply EXCEPT ![t] = "ok"] /\ Reply[t] = "none"
    BY <1>0, <2>1, ReplyStep DEF Reply
  <2>3. t \in Durable /\ Durable' = Durable /\ Told' = Told
    BY <2>1 DEF Durable, Told, Committed, IInv, PhaseInv
  <2> QED
    BY <2>2, <2>3 DEF UOW!AnswerOk, Durable, Told, Reply
<1>8. CASE Crash
  <2>1. \A u \in Txs : \/ pc'[u] = pc[u]
                        \/ {pc[u], pc'[u]} \cap {"ok", "err"} = {}
    BY <1>0, <1>8 DEF Crash
  <2> QED
    BY <1>8, <2>1, InvisibleStep DEF Crash
<1>9. CASE UNCHANGED vars
  BY <1>9, InvisibleStep DEF vars
<1> QED
  BY <1>1, <1>2, <1>3, <1>4, <1>5, <1>6, <1>7, <1>8, <1>9
  DEF Next, EndStep, AfterStep, UOW!Next

\* Transaction implements the unit of work: whatever fn, the database and the
\* scheduler do, work is durable at most once, announced only when durable, and
\* never announced by a request that was answered with an error.
THEOREM TxRefinesUnitOfWork == Spec => ImplementsUnitOfWork
<1>1. Init => UOW!Init
  BY DEF Init, UOW!Init, Committed
<1>2. IInv /\ [Next]_vars => [UOW!Next]_UOW!vars
  BY StepSimulation
<1> QED
  BY TxIInv, <1>1, <1>2, PTL DEF Spec, UOW!Spec, ImplementsUnitOfWork
-----------------------------------------------------------------------------
(* Deadlocks: locks belong to open transactions, so calls that cannot go   *)
(* on all wait for one another, and some of them wait in a cycle.          *)

LocksAt(t) == held[t] # {} \/ waits[t] # None => pc[t] = "running"

LockInv == \A t \in Txs : LocksAt(t)

\* Every step keeps the locks with the open transactions.
LEMMA NextLockInv == TypeOK /\ LockInv /\ [Next]_vars => LockInv'
<1> SUFFICES ASSUME TypeOK, LockInv, [Next]_vars, NEW u \in Txs
             PROVE  LocksAt(u)'
  BY DEF LockInv
<1> USE DEF LocksAt
<1>0. /\ LocksAt(u)
      /\ pc \in [Txs -> {"idle", "running", "callbacks", "ok", "err", "crashed"}]
      /\ held \in [Txs -> SUBSET Rows]
      /\ waits \in [Txs -> Rows \union {None}]
  BY DEF LockInv, TypeOK
<1>1. ASSUME NEW t \in Txs, Begin(t) PROVE LocksAt(u)'
  BY <1>0, <1>1 DEF Begin, dbVars
<1>2. ASSUME NEW t \in Txs, FnStep(t) PROVE LocksAt(u)'
  <2>1. ASSUME NEW r \in Rows, Write(t, r) PROVE LocksAt(u)'
    <3>1. pc[t] = "running" /\ UNCHANGED pc
      BY <2>1 DEF Write, Operate, Working
    <3>2. u # t => held'[u] = held[u] /\ waits'[u] = waits[u]
      BY <1>0, <2>1 DEF Write
    <3> QED
      BY <1>0, <3>1, <3>2
  <2>2. CASE UNCHANGED <<pc, held, waits>>
    BY <1>0, <2>2
  <2> QED
    BY <1>2, <2>1, <2>2 DEF FnStep, AddEvent, AddTxCallback, PublishEventsAfterTx,
      EnterNested, EnterNestedWithCallback, LeaveNested, dbVars
<1>3. ASSUME NEW t \in Txs, DbStep(t) PROVE LocksAt(u)'
  BY <1>0, <1>3 DEF DbStep, LockGranted, DeadlockVictim
<1>4. ASSUME NEW t \in Txs, EndStep(t) PROVE LocksAt(u)'
  <2>1. waits[t] = None /\ waits' = waits /\ held' = [held EXCEPT ![t] = {}]
    BY <1>4 DEF EndStep, Commit, ReturnError, RetryOnDeadlock, RetriesExhausted,
                FnReturns, Working, ReleaseLocks
  <2>2. u # t => pc'[u] = pc[u]
    BY <1>0, <1>4 DEF EndStep, Commit, ReturnError, RetryOnDeadlock, RetriesExhausted
  <2> QED
    BY <1>0, <2>1, <2>2
<1>5. ASSUME NEW t \in Txs, AfterStep(t) PROVE LocksAt(u)'
  BY <1>0, <1>5 DEF AfterStep, RunCallback, ReturnOk, dbVars
<1>6. CASE Crash
  BY <1>6 DEF Crash
<1>7. CASE UNCHANGED vars
  BY <1>0, <1>7 DEF vars, dbVars
<1> QED
  BY <1>1, <1>2, <1>3, <1>4, <1>5, <1>6, <1>7 DEF Next

\* Where every open call is blocked, one of them waits in a cycle.
LEMMA BlockedInCycle ==
  ASSUME IsFiniteSet(Txs), TypeOK, LockInv, Open # {},
         \A t \in Open : Blocked(t)
  PROVE  \E t \in Open : InCycle(t)
<1> DEFINE W == {w \in Txs \X Txs : waits[w[1]] \in held[w[2]]}
<1>1. Open \subseteq Txs /\ IsFiniteSet(Open)
  BY FS_Subset DEF Open
<1>2. \A t \in Open : \E u \in Open \ {t} : <<t, u>> \in W
  BY DEF Open, Blocked, LockedByOther, LockInv, LocksAt
<1>3. PICK S \in SUBSET Open :
        /\ S # {}
        /\ \A t \in S : \E u \in S \ {t} : <<t, u>> \in W
        /\ \A u \in S : \E t \in S \ {u} : <<t, u>> \in W
  <2> HIDE DEF W
  <2> QED
    BY <1>1, <1>2, CycleOfWaits
<1>4. \A t \in S : InCycle(t)
  BY <1>1, <1>3 DEF InCycle
<1> QED
  BY <1>3, <1>4

\* While a Transaction call is open one of them can go on, or the database can
\* break the deadlock: with any number of requests.
THEOREM TxNeverStuck ==
  ASSUME IsFiniteSet(Txs) PROVE Spec => []NeverStuck
<1>1. Init => LockInv
  BY DEF Init, LockInv, LocksAt
<1>2. TypeOK /\ LockInv => NeverStuck
  BY BlockedInCycle DEF NeverStuck
<1> QED
  BY TxTypeOK, NextLockInv, <1>1, <1>2, PTL DEF Spec

-----------------------------------------------------------------------------
(* Every step of an open call brings its end nearer.                       *)

\* The callbacks are called in turn, and none of them before the commit.
NextAt(t) ==
  /\ pc[t] \in {"idle", "running"} => next[t] = 1
  /\ pc[t] = "callbacks" => next[t] <= Len(callbacks[t]) + 1

NextInv == \A t \in Txs : NextAt(t)

\* StepsLeft of a call that runs fn: attempt a, o operations done, s scopes
\* open, w statements blocked, c callbacks registered.
Left(a, o, s, w, c) ==
  (MaxRetries - a) * (3 * MaxOps + 2) + 3 * (MaxOps - o) + s + w + c + 2

Waits == [t \in Txs |-> IF waits[t] = None THEN 0 ELSE 1]

\* StepsLeft counts.
LEMMA LeftBounds ==
  ASSUME NEW a \in Attempts, NEW o \in 0 .. MaxOps, NEW s \in Nat, NEW w \in Nat, NEW c \in Nat
  PROVE  Left(a, o, s, w, c) \in Nat /\ Left(a, o, s, w, c) >= s + w + c + 2
<1>1. MaxRetries - a \in Nat /\ 3 * MaxOps + 2 \in Nat /\ MaxOps - o \in Nat
  BY TxAssumption DEF Attempts
<1>2. \A x, y \in Nat : x * y \in Nat
  OBVIOUS
<1>3. (MaxRetries - a) * (3 * MaxOps + 2) \in Nat
  BY <1>1, <1>2
<1> QED
  BY <1>1, <1>3 DEF Left

\* A new attempt costs more than it brings.
LEMMA LeftRetry ==
  ASSUME NEW a \in Attempts, a < MaxRetries, NEW o \in 0 .. MaxOps, NEW s \in Nat,
         NEW w \in Nat, NEW c \in Nat, NEW d \in {c, c + 1}
  PROVE  Left(a + 1, 0, s, w, d) < Left(a, o, s, w, c)
<1> DEFINE x == MaxRetries - (a + 1)
           k == 3 * MaxOps + 2
<1>1. x \in Nat /\ k \in Nat /\ MaxRetries - a = x + 1
  BY TxAssumption DEF Attempts
<1>2. \A m, n \in Nat : (m + 1) * n = m * n + n /\ m * n \in Nat
  OBVIOUS
<1>3. (MaxRetries - a) * k = x * k + k /\ x * k \in Nat
  <2> HIDE DEF x, k
  <2> QED
    BY <1>1, <1>2
<1> QED
  BY <1>1, <1>3, TxAssumption DEF Left

\* Append adds one element, whatever it is.
LEMMA LenAppend ==
  ASSUME NEW S, NEW q \in Seq(S), NEW e
  PROVE  Len(Append(q, e)) = Len(q) + 1
<1>1. q \in Seq(S \union {e})
  OBVIOUS
<1> QED
  BY <1>1, AppendProperties

\* StepsLeft of an open call, in these terms.
LEMMA StepsLeftIs ==
  ASSUME TypeOK, NEW t \in Txs
  PROVE  /\ attempt[t] \in Attempts /\ ops[t] \in 0 .. MaxOps
         /\ Len(scopes[t]) \in Nat /\ Waits[t] \in Nat /\ Len(callbacks[t]) \in Nat
         /\ pc[t] = "running" => StepsLeft[t] =
              Left(attempt[t], ops[t], Len(scopes[t]), Waits[t], Len(callbacks[t]))
         /\ pc[t] = "callbacks" => StepsLeft[t] = Len(callbacks[t]) + 2 - next[t]
         /\ pc[t] \notin {"running", "callbacks"} => StepsLeft[t] = 0
<1>1. scopes[t] \in Seq(Callback \union {None}) /\ callbacks[t] \in Seq(Callback)
  BY DEF TypeOK
<1>2. Len(scopes[t]) \in Nat /\ Len(callbacks[t]) \in Nat
  BY <1>1, LenProperties
<1> QED
  BY <1>2 DEF TypeOK, StepsLeft, Left, Waits

\* Within an attempt the count falls when an operation, worth three steps, is
\* done for at most two others, or one of the others is.
LEMMA LeftFalls ==
  ASSUME NEW a \in Attempts, NEW o \in 0 .. MaxOps, NEW p \in 0 .. MaxOps,
         NEW s \in Nat, NEW w \in Nat, NEW c \in Nat,
         NEW r \in Nat, NEW v \in Nat, NEW d \in Nat,
         r + v + d + 3 * o < s + w + c + 3 * p
  PROVE  Left(a, p, r, v, d) < Left(a, o, s, w, c)
<1>1. Left(a, 0, 0, 0, 0) \in Nat
  BY LeftBounds, TxAssumption
<1>2. /\ Left(a, p, r, v, d) = Left(a, 0, 0, 0, 0) - 3 * p + r + v + d
      /\ Left(a, o, s, w, c) = Left(a, 0, 0, 0, 0) - 3 * o + s + w + c
  <2> DEFINE k == (MaxRetries - a) * (3 * MaxOps + 2)
  <2>1. k \in Nat
    BY TxAssumption, LeftBounds, \A x, y \in Nat : x * y \in Nat DEF Attempts
  <2> HIDE DEF k
  <2>2. /\ Left(a, p, r, v, d) = k + 3 * (MaxOps - p) + r + v + d + 2
        /\ Left(a, o, s, w, c) = k + 3 * (MaxOps - o) + s + w + c + 2
        /\ Left(a, 0, 0, 0, 0) = k + 3 * (MaxOps - 0) + 0 + 0 + 0 + 2
    BY DEF Left, k
  <2> QED
    BY <2>1, <2>2, TxAssumption
<1> QED
  BY <1>1, <1>2

\* What a step that is worth something does to the call t.
Falls(t) == StepsLeft'[t] \in 0 .. (StepsLeft[t] - 1)

\* A step within an attempt, in the terms of LeftFalls.
Less(t) ==
  Len(scopes'[t]) + Waits'[t] + Len(callbacks'[t]) + 3 * ops[t]
    < Len(scopes[t]) + Waits[t] + Len(callbacks[t]) + 3 * ops'[t]

\* It brings the end nearer.
LEMMA AttemptFalls ==
  ASSUME TypeOK, TypeOK', NEW t \in Txs, pc[t] = "running", UNCHANGED <<pc, attempt>>,
         Less(t)
  PROVE  Falls(t)
<1> DEFINE a == attempt[t]
           n == StepsLeft[t]
           m == StepsLeft'[t]
<1>1. /\ a \in Attempts /\ ops[t] \in 0 .. MaxOps
      /\ Len(scopes[t]) \in Nat /\ Waits[t] \in Nat /\ Len(callbacks[t]) \in Nat
      /\ n = Left(a, ops[t], Len(scopes[t]), Waits[t], Len(callbacks[t]))
  BY StepsLeftIs
<1>2. /\ ops'[t] \in 0 .. MaxOps
      /\ Len(scopes'[t]) \in Nat /\ Waits'[t] \in Nat /\ Len(callbacks'[t]) \in Nat
      /\ m = Left(a, ops'[t], Len(scopes'[t]), Waits'[t], Len(callbacks'[t]))
  <2>1. scopes'[t] \in Seq(Callback \union {None}) /\ callbacks'[t] \in Seq(Callback)
    BY DEF TypeOK
  <2>2. Len(scopes'[t]) \in Nat /\ Len(callbacks'[t]) \in Nat
    BY <2>1, LenProperties
  <2> QED
    BY <2>2 DEF TypeOK, StepsLeft, Left, Waits
<1> HIDE DEF a, n, m
<1>3. Left(a, ops'[t], Len(scopes'[t]), Waits'[t], Len(callbacks'[t]))
        < Left(a, ops[t], Len(scopes[t]), Waits[t], Len(callbacks[t]))
  BY <1>1, <1>2, LeftFalls DEF Less
<1>4. m \in Nat
  BY <1>1, <1>2, LeftBounds
<1>5. n \in Nat
  BY <1>1, LeftBounds
<1>6. m \in 0 .. (n - 1)
  BY <1>1, <1>2, <1>3, <1>4, <1>5
<1> QED
  BY <1>6 DEF Falls, m, n

\* The end of the callbacks: none is left, or the call is over.
LEMMA EndFalls ==
  ASSUME TypeOK, TypeOK', NEW t \in Txs, NextAt(t), NextAt(t)', UNCHANGED callbacks,
         \/ /\ pc[t] = "running"
            /\ pc'[t] \in {"callbacks", "err", "crashed"}
         \/ /\ pc[t] = "callbacks"
            /\ \/ pc'[t] = "callbacks" /\ next'[t] = next[t] + 1
               \/ pc'[t] \in {"ok", "crashed"}
  PROVE  Falls(t)
<1> DEFINE n == StepsLeft[t]
           m == StepsLeft'[t]
           c == Len(callbacks[t])
<1>1. /\ c \in Nat
      /\ pc[t] = "running" => n \in Nat /\ n >= c + 2
      /\ pc[t] = "callbacks" => n = c + 2 - next[t]
  <2> DEFINE l == Left(attempt[t], ops[t], Len(scopes[t]), Waits[t], c)
  <2>1. /\ attempt[t] \in Attempts /\ ops[t] \in 0 .. MaxOps
        /\ Len(scopes[t]) \in Nat /\ Waits[t] \in Nat /\ c \in Nat
        /\ pc[t] = "running" => n = l
        /\ pc[t] = "callbacks" => n = c + 2 - next[t]
    BY StepsLeftIs
  <2>2. l \in Nat /\ l >= Len(scopes[t]) + Waits[t] + c + 2
    BY <2>1, LeftBounds
  <2> HIDE DEF l, c, n
  <2> QED
    BY <2>1, <2>2
<1>2. /\ pc'[t] = "callbacks" => m = c + 2 - next'[t]
      /\ pc'[t] \in {"ok", "err", "crashed"} => m = 0
  BY DEF TypeOK, StepsLeft
<1>3. next[t] \in Nat \ {0} /\ next'[t] \in Nat \ {0}
  BY DEF TypeOK
<1> HIDE DEF n, m, c
<1>4. /\ pc[t] = "callbacks" => next[t] <= c + 1
      /\ pc'[t] = "callbacks" => next'[t] <= c + 1
  BY DEF NextAt, c
<1>5. m \in 0 .. (n - 1)
  BY <1>1, <1>2, <1>3, <1>4
<1> QED
  BY <1>5 DEF Falls, m, n

\* Every step keeps the place in the list of callbacks.
LEMMA NextNextInv == TypeOK /\ NextInv /\ [Next]_vars => NextInv'
<1> SUFFICES ASSUME TypeOK, NextInv, [Next]_vars, NEW u \in Txs
             PROVE  NextAt(u)'
  BY DEF NextInv
<1> USE DEF NextAt
<1>0. /\ NextAt(u)
      /\ pc \in [Txs -> {"idle", "running", "callbacks", "ok", "err", "crashed"}]
      /\ next \in [Txs -> Nat \ {0}]
      /\ callbacks \in [Txs -> Seq(Callback)]
  BY DEF NextInv, TypeOK
<1>c. Len(callbacks[u]) \in Nat
  BY <1>0, LenProperties
<1>1. ASSUME NEW t \in Txs, Begin(t) PROVE NextAt(u)'
  BY <1>0, <1>1 DEF Begin, outVars
<1>2. ASSUME NEW t \in Txs, FnStep(t) PROVE NextAt(u)'
  <2>1. UNCHANGED <<pc, next>> /\ pc[t] = "running"
    BY <1>2 DEF FnStep, Write, AddEvent, AddTxCallback, PublishEventsAfterTx,
      EnterNested, EnterNestedWithCallback, LeaveNested, Operate, Working, outVars
  <2>2. u # t => callbacks'[u] = callbacks[u]
    BY <1>0, <1>2 DEF FnStep, Write, AddEvent, AddTxCallback, PublishEventsAfterTx,
      EnterNested, EnterNestedWithCallback, LeaveNested, AddCallback, ctxVars
  <2> QED
    BY <1>0, <2>1, <2>2
<1>3. ASSUME NEW t \in Txs, DbStep(t) PROVE NextAt(u)'
  BY <1>0, <1>3 DEF DbStep, LockGranted, DeadlockVictim, ctxVars, outVars
<1>4. ASSUME NEW t \in Txs, EndStep(t) PROVE NextAt(u)'
  <2>1. /\ pc[t] = "running" /\ UNCHANGED next
        /\ u # t => pc'[u] = pc[u] /\ callbacks'[u] = callbacks[u]
        /\ pc'[t] = "callbacks" => callbacks' = callbacks
    BY <1>0, <1>4 DEF EndStep, Commit, ReturnError, RetryOnDeadlock, RetriesExhausted,
                      FnReturns, Working, ctxVars, outVars
  <2>2. pc' \in [Txs -> {"idle", "running", "callbacks", "ok", "err", "crashed"}]
    BY NextTypeOK DEF TypeOK
  <2> QED
    BY <1>0, <1>c, <2>1, <2>2
<1>5. ASSUME NEW t \in Txs, AfterStep(t) PROVE NextAt(u)'
  BY <1>0, <1>c, <1>5 DEF AfterStep, RunCallback, ReturnOk, ctxVars, outVars
<1>6. CASE Crash
  BY <1>0, <1>6 DEF Crash, ctxVars, outVars
<1>7. CASE UNCHANGED vars
  BY <1>0, <1>7 DEF vars, ctxVars, outVars
<1> QED
  BY <1>1, <1>2, <1>3, <1>4, <1>5, <1>6, <1>7 DEF Next

\* A step of fn, or of the database for it, is worth something.
LEMMA FnFalls ==
  ASSUME TypeOK, TypeOK', NEW t \in Txs, FnStep(t) \/ DbStep(t)
  PROVE  Falls(t)
<1>1. pc[t] = "running" /\ UNCHANGED <<pc, attempt>>
  BY DEF FnStep, Write, AddEvent, AddTxCallback, PublishEventsAfterTx, EnterNested,
    EnterNestedWithCallback, LeaveNested, Operate, Working, DbStep, LockGranted,
    DeadlockVictim, InCycle, fnVars
<1>0. /\ ops \in [Txs -> 0 .. MaxOps]
      /\ scopes[t] \in Seq(Callback \union {None})
      /\ callbacks[t] \in Seq(Callback)
      /\ waits \in [Txs -> Rows \union {None}]
      /\ scopes \in [Txs -> Seq(Callback \union {None})]
      /\ callbacks \in [Txs -> Seq(Callback)]
  BY DEF TypeOK
<1> DEFINE s == Len(scopes[t])
           c == Len(callbacks[t])
<1>2. s \in Nat /\ c \in Nat /\ ops[t] \in Nat
  BY <1>0, LenProperties, TxAssumption
<1>3. SUFFICES Less(t)
  BY <1>1, AttemptFalls
<1>4. ASSUME Operate(t), Len(scopes'[t]) \in {s, s + 1}, Len(callbacks'[t]) \in {c, c + 1},
             Waits'[t] \in {0, 1}, Waits'[t] = 0 \/ Len(scopes'[t]) = s
      PROVE  Less(t)
  <2>1. ops'[t] = ops[t] + 1 /\ Waits[t] = 0
    BY <1>0, <1>4 DEF Operate, Working, Waits
  <2>2. \A m, n, v, i, j, k \in Nat :
          /\ m \in {i, i + 1} /\ n \in {j, j + 1}
          /\ v = 0 \/ (v = 1 /\ m = i)
          => m + v + n + 3 * k < i + 0 + j + 3 * (k + 1)
    OBVIOUS
  <2>3. Waits'[t] \in Nat /\ (Waits'[t] = 0 \/ (Waits'[t] = 1 /\ Len(scopes'[t]) = s))
    <3> HIDE DEF s, c
    <3> QED
      BY <1>4
  <2>4. Len(scopes'[t]) \in Nat /\ Len(callbacks'[t]) \in Nat
    <3> HIDE DEF s, c
    <3> QED
      BY <1>2, <1>4
  <2>5. Len(scopes'[t]) + Waits'[t] + Len(callbacks'[t]) + 3 * ops[t]
          < s + 0 + c + 3 * (ops[t] + 1)
    <3> HIDE DEF s, c
    <3> QED
      BY <1>2, <1>4, <2>2, <2>3, <2>4
  <2> QED
    BY <2>1, <2>5 DEF Less
<1>a. scopes' = scopes => Len(scopes'[t]) = s
  OBVIOUS
<1>b. callbacks' = callbacks => Len(callbacks'[t]) = c
  OBVIOUS
<1>5. ASSUME NEW r \in Rows, Write(t, r) PROVE Less(t)
  <2>1. /\ Operate(t) /\ scopes' = scopes /\ callbacks' = callbacks
        /\ Waits'[t] \in {0, 1}
    BY <1>5 DEF Write, ctxVars, Waits
  <2> HIDE DEF s, c
  <2> QED
    BY <1>4, <1>a, <1>b, <2>1
<1>6. ASSUME NEW r \in Rows, AddEvent(t, r) PROVE Less(t)
  <2>1. /\ Operate(t) /\ scopes' = scopes /\ callbacks' = callbacks
        /\ Waits'[t] = 0
    BY <1>6 DEF AddEvent, Operate, Working, dbVars, Waits
  <2> HIDE DEF s, c
  <2> QED
    BY <1>4, <1>a, <1>b, <2>1
<1>7. ASSUME NEW cb, Operate(t), AddCallback(t, cb), UNCHANGED waits,
             scopes' = scopes \/ scopes' = [scopes EXCEPT ![t] = Append(scopes[t], cb)]
      PROVE  Less(t)
  <2>1. Waits'[t] = 0
    BY <1>7 DEF Operate, Working, Waits
  <2>2. Len(callbacks'[t]) = c + 1
    <3>1. callbacks'[t] = Append(callbacks[t], cb)
      BY <1>0, <1>7 DEF AddCallback
    <3> QED
      BY <1>0, <3>1, LenAppend
  <2>3. Len(scopes'[t]) \in {s, s + 1}
    <3>1. scopes' = scopes \/ scopes'[t] = Append(scopes[t], cb)
      BY <1>0, <1>7
    <3>2. Len(Append(scopes[t], cb)) = s + 1
      BY <1>0, LenAppend
    <3> QED
      BY <3>1, <3>2
  <2> HIDE DEF s, c
  <2> QED
    BY <1>4, <1>7, <2>1, <2>2, <2>3
<1>8. CASE EnterNested(t)
  <2>1. Operate(t) /\ callbacks' = callbacks /\ Waits'[t] = 0
    BY <1>8 DEF EnterNested, Operate, Working, ctxVars, dbVars, Waits
  <2>2. Len(scopes'[t]) = s + 1
    <3>1. scopes'[t] = Append(scopes[t], None)
      BY <1>0, <1>8 DEF EnterNested
    <3> QED
      BY <1>0, <3>1, LenAppend
  <2> HIDE DEF s, c
  <2> QED
    BY <1>4, <1>b, <2>1, <2>2
<1>9. CASE LeaveNested(t)
  <2>1. ops' = ops /\ callbacks' = callbacks /\ waits' = waits /\ scopes[t] # << >>
    BY <1>9 DEF LeaveNested, ctxVars, dbVars
  <2>2. s - 1 \in Nat
    BY <1>0, <2>1, EmptySeq
  <2>3. Len(scopes'[t]) = s - 1
    <3>1. scopes'[t] = SubSeq(scopes[t], 1, s - 1)
      BY <1>0, <1>9 DEF LeaveNested
    <3> HIDE DEF s
    <3>2. Len(SubSeq(scopes[t], 1, s - 1)) = s - 1
      BY <1>0, <1>2, <2>2, SubSeqProperties
    <3> QED
      BY <3>1, <3>2
  <2>4. Waits'[t] = Waits[t] /\ Waits[t] \in Nat
    BY <2>1 DEF Waits
  <2>5. s - 1 + Waits[t] + c + 3 * ops[t] < s + Waits[t] + c + 3 * ops[t]
    <3> HIDE DEF s, c
    <3> QED
      BY <1>2, <2>2, <2>4
  <2> QED
    BY <1>b, <2>1, <2>3, <2>4, <2>5 DEF Less
<1>10. CASE DbStep(t)
  <2>1. /\ ops' = ops /\ scopes' = scopes /\ callbacks' = callbacks
        /\ waits[t] # None /\ waits'[t] = None
    BY <1>0, <1>10, TxAssumption
    DEF DbStep, LockGranted, DeadlockVictim, InCycle, fnVars, ctxVars, TypeOK
  <2>2. Waits[t] = 1 /\ Waits'[t] = 0
    BY <2>1 DEF Waits
  <2>3. s + 0 + c + 3 * ops[t] < s + 1 + c + 3 * ops[t]
    <3> HIDE DEF s, c
    <3> QED
      BY <1>2
  <2> QED
    BY <1>a, <1>b, <2>1, <2>2, <2>3 DEF Less
<1>11. ASSUME NEW r \in Rows, AddTxCallback(t, r)
       PROVE  \E cb : /\ Operate(t) /\ AddCallback(t, cb) /\ UNCHANGED waits
                      /\ scopes' = scopes
  BY <1>11 DEF AddTxCallback, dbVars
<1>12. ASSUME PublishEventsAfterTx(t) \/ EnterNestedWithCallback(t)
       PROVE  \E cb : /\ Operate(t) /\ AddCallback(t, cb) /\ UNCHANGED waits
                      /\ \/ scopes' = scopes
                         \/ scopes' = [scopes EXCEPT ![t] = Append(scopes[t], cb)]
  BY <1>12 DEF PublishEventsAfterTx, EnterNestedWithCallback, dbVars
<1> QED
  BY <1>5, <1>6, <1>7, <1>8, <1>9, <1>10, <1>11, <1>12 DEF FnStep

\* So is a new attempt.
LEMMA RetryFalls ==
  ASSUME TypeOK, TypeOK', NEW t \in Txs, RetryOnDeadlock(t)
  PROVE  Falls(t)
<1> DEFINE s == Len(scopes[t])
           c == Len(callbacks[t])
           d == Len(callbacks'[t])
           n == StepsLeft[t]
           m == StepsLeft'[t]
<1>1. /\ pc[t] = "running" /\ pc'[t] = "running"
      /\ attempt[t] < MaxRetries /\ attempt'[t] = attempt[t] + 1
      /\ ops'[t] = 0
      /\ UNCHANGED <<scopes, waits>>
      /\ Waits'[t] = Waits[t]
      /\ callbacks'[t] = callbacks[t] \/ \E cb : callbacks'[t] = Append(callbacks[t], cb)
  BY DEF TypeOK, RetryOnDeadlock, FnReturns, Working, ReleaseLocks, Waits
<1>2. d \in {c, c + 1}
  BY <1>1, LenAppend DEF TypeOK
<1>3. /\ attempt[t] \in Attempts /\ ops[t] \in 0 .. MaxOps
      /\ s \in Nat /\ Waits[t] \in Nat /\ c \in Nat
      /\ n = Left(attempt[t], ops[t], s, Waits[t], c)
  BY <1>1, StepsLeftIs
<1>4. /\ m = Left(attempt[t] + 1, 0, s, Waits[t], d)
      /\ attempt[t] + 1 \in Attempts
  BY <1>1 DEF TypeOK, StepsLeft, Left, Waits
<1> HIDE DEF s, c, d, n, m
<1>5. m < n
  BY <1>1, <1>2, <1>3, <1>4, LeftRetry
<1>6. d \in Nat /\ 0 \in 0 .. MaxOps
  BY <1>2, <1>3, TxAssumption
<1>7. m \in Nat
  BY <1>3, <1>4, <1>6, LeftBounds
<1>8. n \in Nat
  BY <1>3, LeftBounds
<1>9. m \in 0 .. (n - 1)
  BY <1>5, <1>7, <1>8
<1> QED
  BY <1>9 DEF Falls, m, n

\* What StepsLeft depends on stays.
SameCall(u) ==
  /\ pc'[u] = pc[u] /\ attempt'[u] = attempt[u] /\ ops'[u] = ops[u]
  /\ scopes'[u] = scopes[u] /\ waits'[u] = waits[u]
  /\ callbacks'[u] = callbacks[u] /\ next'[u] = next[u]

\* A step leaves the others where they are.
LEMMA OthersStay ==
  ASSUME TypeOK, NEW t \in Txs, NEW u \in Txs \ {t},
         Begin(t) \/ FnStep(t) \/ DbStep(t) \/ EndStep(t) \/ AfterStep(t)
  PROVE  SameCall(u)
<1> USE DEF fnVars, ctxVars, outVars, dbVars, TypeOK
<1>1. CASE Begin(t)
  BY <1>1 DEF Begin, SameCall
<1>2. CASE FnStep(t)
  BY <1>2 DEF FnStep, Write, AddEvent, AddTxCallback, PublishEventsAfterTx, EnterNested,
    EnterNestedWithCallback, LeaveNested, Operate, AddCallback, SameCall
<1>3. CASE DbStep(t)
  BY <1>3 DEF DbStep, LockGranted, DeadlockVictim, SameCall
<1>4. CASE EndStep(t)
  BY <1>4 DEF EndStep, Commit, ReturnError, RetryOnDeadlock, RetriesExhausted,
    ReleaseLocks, SameCall
<1>5. CASE AfterStep(t)
  BY <1>5 DEF AfterStep, RunCallback, ReturnOk, SameCall
<1> QED
  BY <1>1, <1>2, <1>3, <1>4, <1>5

\* An open call has a step left at least.
LEMMA StepIsLeft ==
  ASSUME TypeOK, NEW t \in Open, NextAt(t)
  PROVE  StepsLeft[t] \in Nat
<1>1. t \in Txs /\ pc[t] \in {"running", "callbacks"}
  BY DEF Open
<1>2. CASE pc[t] = "running"
  <2>1. StepsLeft[t] = Left(attempt[t], ops[t], Len(scopes[t]), Waits[t], Len(callbacks[t]))
    BY <1>1, <1>2, StepsLeftIs
  <2>2. /\ attempt[t] \in Attempts /\ ops[t] \in 0 .. MaxOps
        /\ Len(scopes[t]) \in Nat /\ Waits[t] \in Nat /\ Len(callbacks[t]) \in Nat
    BY <1>1, StepsLeftIs
  <2>3. Left(attempt[t], ops[t], Len(scopes[t]), Waits[t], Len(callbacks[t])) \in Nat
    BY <2>2, LeftBounds
  <2> QED
    BY <2>1, <2>3
<1>3. CASE pc[t] = "callbacks"
  <2>1. /\ StepsLeft[t] = Len(callbacks[t]) + 2 - next[t]
        /\ Len(callbacks[t]) \in Nat /\ next[t] \in Nat \ {0}
        /\ next[t] <= Len(callbacks[t]) + 1
    BY <1>1, <1>3, StepsLeftIs DEF NextAt, TypeOK
  <2>2. \A c, n \in Nat : n <= c + 1 => c + 2 - n \in Nat
    OBVIOUS
  <2> QED
    BY <2>1, <2>2
<1> QED
  BY <1>1, <1>2, <1>3

\* A step of a call, and a crash, brings its end nearer; the steps of the others
\* leave it where it is.
LEMMA NextFalls ==
  ASSUME TypeOK, TypeOK', NextInv, NextInv', [Next]_vars, NEW u \in Open
  PROVE  /\ StepsLeft'[u] \in 0 .. StepsLeft[u]
         /\ FnStep(u) \/ DbStep(u) \/ EndStep(u) \/ AfterStep(u) =>
              StepsLeft'[u] < StepsLeft[u]
<1>0. u \in Txs /\ pc[u] \in {"running", "callbacks"} /\ NextAt(u) /\ NextAt(u)'
  BY DEF Open, NextInv
<1>1. ASSUME FnStep(u) \/ DbStep(u)
      PROVE  Falls(u)
  BY <1>0, <1>1, FnFalls
<1>2. ASSUME RetryOnDeadlock(u)
      PROVE  Falls(u)
  BY <1>0, <1>2, RetryFalls
<1>3. ASSUME Commit(u) \/ ReturnError(u) \/ RetriesExhausted(u) \/ AfterStep(u)
      PROVE  Falls(u)
  <2>1. /\ UNCHANGED callbacks
        /\ \/ pc[u] = "running" /\ pc'[u] \in {"callbacks", "err", "crashed"}
           \/ /\ pc[u] = "callbacks"
              /\ \/ pc'[u] = "callbacks" /\ next'[u] = next[u] + 1
                 \/ pc'[u] \in {"ok", "crashed"}
    BY <1>0, <1>3 DEF TypeOK, Commit, ReturnError, RetriesExhausted, FnReturns, Working,
      AfterStep, RunCallback, ReturnOk, ctxVars
  <2> QED
    BY <1>0, <2>1, EndFalls
<1>4. ASSUME Crash
      PROVE  Falls(u)
  <2>1. pc'[u] = "crashed" /\ UNCHANGED callbacks
    BY <1>0, <1>4 DEF Crash, ctxVars
  <2> QED
    BY <1>0, <2>1, EndFalls
<1>5. ASSUME \/ \E t \in Txs \ {u} :
                  Begin(t) \/ FnStep(t) \/ DbStep(t) \/ EndStep(t) \/ AfterStep(t)
             \/ UNCHANGED vars
      PROVE  StepsLeft'[u] = StepsLeft[u]
  <2>1. SameCall(u)
    BY <1>0, <1>5, OthersStay DEF vars, fnVars, ctxVars, outVars, dbVars, SameCall
  <2> QED
    BY <1>0, <2>1 DEF SameCall, StepsLeft
<1>6. ~ Begin(u)
  BY <1>0 DEF Begin
<1>7. Falls(u) \/ StepsLeft'[u] = StepsLeft[u]
  BY <1>1, <1>2, <1>3, <1>4, <1>5, <1>6 DEF Next, EndStep
<1>8. StepsLeft[u] \in Nat
  BY <1>0, StepIsLeft
<1>9. FnStep(u) \/ DbStep(u) \/ EndStep(u) \/ AfterStep(u) => Falls(u)
  BY <1>1, <1>2, <1>3 DEF EndStep
<1> QED
  BY <1>7, <1>8, <1>9 DEF Falls

\* Every step of an open Transaction call brings its end nearer, and nothing puts
\* it off: with TxNeverStuck, calls that run on are answered.
THEOREM TxStepsRunOut == Spec => StepsRunOut
<1> DEFINE Nearer == \A t \in Open :
                       /\ StepsLeft'[t] \in 0 .. StepsLeft[t]
                       /\ FnStep(t) \/ DbStep(t) \/ EndStep(t) \/ AfterStep(t) =>
                            StepsLeft'[t] < StepsLeft[t]
<1>1. Init => NextInv
  BY DEF Init, NextInv, NextAt
<1>2. TypeOK /\ TypeOK' /\ NextInv /\ NextInv' /\ [Next]_vars => [Nearer]_vars
  BY NextFalls
<1>3. Spec => []NextInv
  BY TxTypeOK, NextNextInv, <1>1, PTL DEF Spec
<1> HIDE DEF Nearer
<1>4. Spec => [][Nearer]_vars
  BY TxTypeOK, <1>2, <1>3, PTL DEF Spec
<1> QED
  BY <1>4 DEF StepsRunOut, Nearer

=============================================================================
