------------------------- MODULE CollaborationProofs -------------------------
(***************************************************************************)
(* What Collaboration keeps, for any clients, edits, buffers and bounds,   *)
(* and that a subscribed document gets what is announced.                  *)
(***************************************************************************)
EXTENDS Collaboration, TLAPS

USE DEF NoValues

\* What is on its way to a row or to a client is the contents of a record, and an
\* edit that a page waits for has a value to go back to.
Ready ==
  /\ \A c \in Clients : busy[c].does = "reply" => busy[c].v \in Contents
  /\ \A c \in reading : data[c] \in Contents
  /\ \A e \in Edits : author[e] # None => before[e] \in Values

TInv == TypeOK /\ Ready

-----------------------------------------------------------------------------
(* Lemmas *)

\* A client that may subscribe again has a line left for it.
LEMMA LineLeft ==
  ASSUME TypeOK, NEW c \in Clients, made[c] < MaxLines[c]
  PROVE  <<c, made[c] + 1>> \in Lines
  <1>1. made[c] + 1 \in 1 .. MaxLines[c]
    BY CollaborationAssumption DEF TypeOK
  <1>2. <<c, made[c] + 1>> \in {c} \X (1 .. MaxLines[c])
    BY <1>1
  <1> QED
    BY <1>2 DEF Lines

\* A line is a client's.
LEMMA LineOfClient == \A l \in Lines : l[1] \in Clients
  BY DEF Lines

\* What the record holds is a value.
LEMMA RecordIsValue ==
  ASSUME log \in Seq(Edits)
  PROVE  Record \in Values /\ Record \in Committed \union {Origin}
  BY DEF Record, Values, Committed

\* The place of a value is a number.
LEMMA PositionIsPlace ==
  ASSUME log \in Seq(Edits), NEW v
  PROVE  Position(v) \in Nat
  <1>1. CASE v \in Committed
    <2>1. \E i \in DOMAIN log : log[i] = v
      BY <1>1 DEF Committed
    <2>2. DOMAIN log \subseteq Nat
      OBVIOUS
    <2> QED
      BY <1>1, <2>1, <2>2 DEF Position
  <1>2. CASE v \notin Committed
    BY <1>2 DEF Position
  <1> QED
    BY <1>1, <1>2

LEMMA PayKeepsType ==
  ASSUME owed \in [Clients -> Nat \union {None}], NEW c \in Clients, NEW v
  PROVE  Pay(c, v) \in [Clients -> Nat \union {None}]
  BY DEF Pay

-----------------------------------------------------------------------------
(* Types *)

LEMMA InitTInv == Init => TInv
  BY CollaborationAssumption DEF Init, TInv, TypeOK, Ready, Idle, Values, Contents, Message

LEMMA LosesAllKeepsTypes ==
  ASSUME TInv, LosesAll, events' \in 0 .. MaxEvents
  PROVE  TInv'
  BY CollaborationAssumption DEF LosesAll, TInv, TypeOK, Ready, Idle, editVars, docVars, rowVars, Message

LEMMA SubscribeDocKeepsTypes ==
  ASSUME TInv, NEW c \in Clients, SubscribeDoc(c)
  PROVE  /\ subscribed' \in [Clients -> BOOLEAN]
         /\ timed' \subseteq Clients
         /\ up' \in [Clients -> Seq({"s", "us"})]
         /\ owed' \in [Clients -> Nat \union {None}]
  BY DEF SubscribeDoc, TInv, TypeOK

LEMMA SubscribeRecordKeepsTypes ==
  ASSUME TInv, NEW c \in Pages, SubscribeRecord(c),
         rendered' \subseteq Pages, refreshing' \subseteq Pages
  PROVE  TInv'
  <1>1. c \in Clients
    BY CollaborationAssumption
  <1>2. /\ subscribed' \in [Clients -> BOOLEAN]
        /\ timed' \subseteq Clients
        /\ up' \in [Clients -> Seq({"s", "us"})]
        /\ owed' \in [Clients -> Nat \union {None}]
    <2>1. CASE SubscribeDoc(c)
      BY <1>1, <2>1, SubscribeDocKeepsTypes
    <2>2. CASE UNCHANGED <<subscribed, timed, up, owed>>
      BY <2>2 DEF TInv, TypeOK
    <2> QED
      BY <2>1, <2>2 DEF SubscribeRecord
  <1>3. reading' \subseteq Pages /\ \A d \in reading' : data'[d] \in Contents
    BY <1>1 DEF SubscribeRecord, Notify, TInv, TypeOK, Ready
  <1> QED
    BY <1>2, <1>3 DEF SubscribeRecord, TInv, TypeOK, Ready, editVars, lineVars

LEMMA NextTInv ==
  ASSUME TInv, [Next]_vars
  PROVE  TInv'
  <1> USE CollaborationAssumption
  <1> USE DEF TInv, TypeOK, Ready
  <1>1. CASE UNCHANGED vars
    BY <1>1 DEF vars, editVars, lineVars, wireVars, docVars, rowVars
  <1>2. ASSUME NEW e \in Edits, NEW c \in Pages, EditCell(c, e)
        PROVE  TInv'
    BY <1>2 DEF EditCell, SetRow, Happens, lineVars, wireVars, docVars, Values
  <1>3. ASSUME NEW e \in Edits, Commit(e)
        PROVE  TInv'
    <2>1. Len(log) + 2 \in Nat /\ log' \in Seq(Edits)
      BY <1>3 DEF Commit
    <2>2. owed' \in [Clients -> Nat \union {None}]
      BY <1>3, <2>1 DEF Commit, Owe
    <2>3. stage' \in [Edits -> {"new", "sent", "refused", "stored", "publishing", "done"}]
      BY <1>3 DEF Commit
    <2> QED
      BY <1>3, <2>1, <2>2, <2>3 DEF Commit, Happens, lineVars, wireVars, docVars, rowVars
  <1>4. ASSUME NEW e \in Edits, Refuse(e)
        PROVE  TInv'
    BY <1>4 DEF Refuse, lineVars, wireVars, docVars, rowVars
  <1>5. ASSUME NEW e \in Edits, Answer(e)
        PROVE  TInv'
    BY <1>5 DEF Answer, lineVars, wireVars, docVars, rowVars
  <1>6. ASSUME NEW e \in Edits, Fail(e)
        PROVE  TInv'
    BY <1>6 DEF Fail, SetRow, lineVars, wireVars, docVars
  <1>7. ASSUME NEW e \in Edits, Publish(e)
        PROVE  TInv'
    BY <1>7 DEF Publish, lineVars, wireVars, docVars, rowVars
  <1>8. ASSUME NEW e \in Edits, NEW l \in Lines, Offer(e, l)
        PROVE  TInv'
    <2>1. queue' \in [Lines -> Seq(Edits)]
      <3>1. queue[l] \in Seq(Edits) /\ Append(queue[l], e) \in Seq(Edits)
        OBVIOUS
      <3>2. queue' = queue \/ queue' = [queue EXCEPT ![l] = Append(queue[l], e)]
        BY <1>8 DEF Offer
      <3> QED
        BY <3>1, <3>2
    <2>2. l[1] \in Clients
      BY LineOfClient
    <2>3. owed' \in [Clients -> Nat \union {None}]
      BY <1>8, <2>2 DEF Offer
    <2>4. offers' \in [Edits -> SUBSET Lines]
      BY <1>8 DEF Offer
    <2> QED
      BY <1>8, <2>1, <2>3, <2>4 DEF Offer, editVars, wireVars, docVars, rowVars
  <1>9. ASSUME NEW e \in Edits, EndPublish(e)
        PROVE  TInv'
    BY <1>9 DEF EndPublish, lineVars, wireVars, docVars, rowVars
  <1>10. ASSUME NEW c \in Clients, TakeSubscribe(c)
         PROVE  TInv'
    BY <1>10 DEF TakeSubscribe, LinesOf, Idle, editVars, docVars, rowVars
  <1>11. ASSUME NEW c \in Clients, Register(c)
         PROVE  TInv'
    <2>1. PICK l \in Lines : l = <<c, made[c] + 1>>
      BY <1>11, LineLeft DEF Register
    <2>2. listed' = listed \union {l} /\ live' = live \union {l}
      BY <1>11, <2>1 DEF Register
    <2>3. made' \in [Clients -> Nat]
      BY <1>11 DEF Register
    <2>4. /\ busy' \in [Clients -> [does : {"read", "register", "snapshot", "reply"},
                                   v : Contents \union {None}]]
          /\ \A d \in Clients : busy'[d].does = "reply" => busy'[d] = busy[d]
      BY <1>11 DEF Register, Idle
    <2> QED
      BY <1>11, <2>2, <2>3, <2>4 DEF Register, editVars, docVars, rowVars
  <1>12. ASSUME NEW c \in Clients, ReadSnapshot(c)
         PROVE  TInv'
    BY <1>12, RecordIsValue DEF ReadSnapshot, Contents, editVars, lineVars, docVars, rowVars
  <1>13. ASSUME NEW c \in Clients, Reply(c)
         PROVE  TInv'
    <2>1. busy[c].v \in Contents
      BY <1>13 DEF Reply
    <2>2. [a |-> "s", v |-> busy[c].v] \in Message
      BY <2>1 DEF Message
    <2>3. down' \in [Clients -> Seq(Message)]
      BY <1>13, <2>2 DEF Reply
    <2> QED
      BY <1>13, <2>3 DEF Reply, Idle, editVars, lineVars, docVars, rowVars
  <1>14. ASSUME NEW c \in Clients, TakeUnsubscribe(c)
         PROVE  TInv'
    BY <1>14 DEF TakeUnsubscribe, editVars, docVars, rowVars
  <1>15. ASSUME NEW l \in Lines, Deliver(l)
         PROVE  TInv'
    <2>1. Head(queue[l]) \in Contents /\ Tail(queue[l]) \in Seq(Edits)
      BY <1>15 DEF Deliver, Values, Contents
    <2>2. [a |-> "op", v |-> Head(queue[l])] \in Message
      BY <2>1 DEF Message
    <2>3. l[1] \in Clients
      BY LineOfClient
    <2>4. down' \in [Clients -> Seq(Message)]
      BY <1>15, <2>2, <2>3 DEF Deliver
    <2>5. queue' \in [Lines -> Seq(Edits)]
      BY <1>15, <2>1 DEF Deliver
    <2> QED
      BY <1>15, <2>4, <2>5 DEF Deliver, editVars, docVars, rowVars
  <1>16. ASSUME NEW l \in Lines, Stop(l)
         PROVE  TInv'
    <2>1. CASE LosesAll
      BY <1>16, <2>1, LosesAllKeepsTypes DEF Stop
    <2>2. CASE ~ (l \in closed /\ listed # {})
      <3>1. queue' \in [Lines -> Seq(Edits)]
        <4>1. <<>> \in Seq(Edits)
          OBVIOUS
        <4>2. queue' = [queue EXCEPT ![l] = <<>>]
          BY <1>16, <2>2 DEF Stop
        <4> QED
          BY <4>1, <4>2
      <3> QED
        BY <1>16, <2>2, <3>1 DEF Stop, editVars, wireVars, docVars, rowVars
    <2> QED
      BY <1>16, <2>1, <2>2 DEF Stop
  <1>17. CASE Crash
    BY <1>17, LosesAllKeepsTypes DEF Crash, Happens
  <1>18. ASSUME NEW c \in Clients, Cut(c)
         PROVE  TInv'
    BY <1>18 DEF Cut, LinesOf, Happens, editVars, docVars, rowVars
  <1>19. ASSUME NEW c \in Clients, Subscribe(c)
         PROVE  TInv'
    BY <1>19, SubscribeDocKeepsTypes DEF Subscribe, Happens, editVars, lineVars, rowVars
  <1>20. ASSUME NEW c \in Clients, Unsubscribe(c)
         PROVE  TInv'
    BY <1>20 DEF Unsubscribe, Happens, editVars, lineVars
  <1>21. ASSUME NEW c \in Clients, Receive(c)
         PROVE  TInv'
    <2>1. Head(down[c]) \in Message /\ Tail(down[c]) \in Seq(Message)
      BY <1>21 DEF Receive
    <2>2. Head(down[c]).v \in Contents
      BY <2>1 DEF Message
    <2>3. owed' \in [Clients -> Nat \union {None}]
      BY <1>21, PayKeepsType DEF Receive
    <2>4. /\ data' \in [Clients -> Contents \union {NoData}]
          /\ down' \in [Clients -> Seq(Message)]
      BY <1>21, <2>1, <2>2 DEF Receive
    <2>5. reading' \subseteq Pages /\ \A d \in reading' : data'[d] \in Contents
      BY <1>21, <2>2 DEF Receive, Notify
    <2> QED
      BY <1>21, <2>3, <2>4, <2>5 DEF Receive, editVars, lineVars, rowVars
  <1>22. ASSUME NEW c \in Pages, ReadRow(c)
         PROVE  TInv'
    <2>1. (IF data[c] = Empty THEN shown[c] ELSE data[c]) \in Values
      BY <1>22 DEF ReadRow, Contents
    <2>2. shown' \in [Pages -> Values]
      BY <1>22, <2>1 DEF ReadRow, SetRow
    <2> QED
      BY <1>22, <2>2 DEF ReadRow, SetRow, editVars, lineVars, wireVars
  <1>23. ASSUME NEW c \in Clients, Reopen(c)
         PROVE  TInv'
    BY <1>23 DEF Reopen, editVars, lineVars, docVars, rowVars
  <1>24. ASSUME NEW c \in Pages, Reload(c)
         PROVE  TInv'
    BY <1>24, RecordIsValue DEF Reload, SetRow, lineVars
  <1>25. ASSUME NEW c \in Clients, ReadFails(c)
         PROVE  TInv'
    BY <1>25 DEF ReadFails, Happens, Contents, editVars, lineVars, docVars, rowVars
  <1>26. ASSUME NEW c \in Clients, LoadTimeout(c)
         PROVE  TInv'
    BY <1>26 DEF LoadTimeout, Notify, Contents, editVars, lineVars, wireVars, rowVars
  <1>27. ASSUME NEW c \in Pages, RunEffect(c)
         PROVE  TInv'
    BY <1>27, SubscribeRecordKeepsTypes DEF RunEffect
  <1>28. ASSUME NEW c \in Pages, EndRefresh(c)
         PROVE  TInv'
    BY <1>28, SubscribeRecordKeepsTypes DEF EndRefresh
  <1> QED
    BY <1>1, <1>2, <1>3, <1>4, <1>5, <1>6, <1>7, <1>8, <1>9, <1>10, <1>11, <1>12, <1>13,
       <1>14, <1>15, <1>16, <1>17, <1>18, <1>19, <1>20, <1>21, <1>22, <1>23, <1>24, <1>25,
       <1>26, <1>27, <1>28
       DEF Next, Edit, Serve, Client, Page

\* The variables stay within their types, for any number of clients and edits:
\* a row takes a document's data only when the document has some, and a page
\* goes back only to a row it had.
THEOREM CollaborationTypeOK == Spec => []TypeOK
  <1>1. TInv => TypeOK
    BY DEF TInv
  <1> QED
    BY InitTInv, NextTInv, <1>1, PTL DEF Spec

-----------------------------------------------------------------------------
(* Documents hold what was committed *)

Kept == Committed \union {Origin, Empty}

\* What is announced was committed, and so was what is on its way to a document.
Announced ==
  /\ \A e \in Edits : stage[e] \in {"stored", "publishing"} => e \in Committed
  /\ \A l \in Lines : \A i \in DOMAIN queue[l] : queue[l][i] \in Committed
  /\ \A c \in Clients : \A i \in DOMAIN down[c] : down[c][i].v \in Kept
  /\ \A c \in Clients : busy[c].does = "reply" => busy[c].v \in Kept
  /\ HoldsCommitted

CInv == TInv /\ Announced

\* What is committed stays committed.
LEMMA CommittedGrows ==
  ASSUME TInv, [Next]_vars
  PROVE  Committed \subseteq Committed' /\ Kept \subseteq Kept'
  <1>1. log' = log \/ \E e \in Edits : log' = Append(log, e)
    BY DEF Next, vars, editVars, Edit, Serve, Client, Page, EditCell, Commit, Refuse, Answer,
       Fail, Publish, Offer, EndPublish, TakeSubscribe, Register, ReadSnapshot, ReadFails, Reply,
       TakeUnsubscribe, Deliver, Stop, Crash, LosesAll, Cut, Subscribe, Unsubscribe,
       Receive, LoadTimeout, SubscribeRecord, RunEffect, EndRefresh, ReadRow, Reopen, Reload
  <1>2. log \in Seq(Edits)
    BY DEF TInv, TypeOK
  <1>3. Committed \subseteq Committed'
    <2>1. CASE log' = log
      BY <2>1 DEF Committed
    <2>2. ASSUME NEW e \in Edits, log' = Append(log, e)
          PROVE  Committed \subseteq Committed'
      <3>1. \A i \in DOMAIN log : i \in DOMAIN log' /\ log'[i] = log[i]
        BY <1>2, <2>2
      <3> QED
        BY <3>1 DEF Committed
    <2> QED
      BY <1>1, <2>1, <2>2
  <1> QED
    BY <1>3 DEF Kept

LEMMA LosesAllKeepsAnnounced ==
  ASSUME CInv, LosesAll, Kept \subseteq Kept'
  PROVE  Announced'
  BY DEF LosesAll, CInv, TInv, TypeOK, Announced, HoldsCommitted, Idle, Kept, docVars

LEMMA NextAnnounced ==
  ASSUME CInv, [Next]_vars
  PROVE  Announced'
  <1>0. /\ TInv /\ TypeOK /\ TInv'
        /\ Committed \subseteq Committed' /\ Kept \subseteq Kept'
    BY CommittedGrows, NextTInv DEF CInv, TInv
  <1> USE CollaborationAssumption
  <1> DEFINE Others ==
        \/ \E e \in Edits : Refuse(e) \/ Answer(e) \/ Fail(e) \/ Publish(e) \/ EndPublish(e)
        \/ \E e \in Edits, c \in Pages : EditCell(c, e)
        \/ \E c \in Clients : \/ TakeSubscribe(c) \/ TakeUnsubscribe(c) \/ Subscribe(c)
                              \/ Unsubscribe(c) \/ Reopen(c) \/ Register(c) \/ Cut(c)
                              \/ LoadTimeout(c)
        \/ \E c \in Pages : SubscribeRecord(c) \/ ReadRow(c) \/ Reload(c)
        \/ UNCHANGED vars
  <1>1. CASE Others
    <2>1. queue' = queue
      BY <1>1 DEF Refuse, Answer, Fail, Publish, EndPublish, EditCell, TakeSubscribe,
         TakeUnsubscribe, Subscribe, Unsubscribe, Reopen, Register, Cut, LoadTimeout,
         SubscribeRecord, ReadRow, Reload, vars, lineVars
    <2>2. \A c \in Clients : down'[c] = down[c] \/ down'[c] = <<>>
      BY <1>0, <1>1 DEF TypeOK, Refuse, Answer, Fail, Publish, EndPublish, EditCell, TakeSubscribe,
         TakeUnsubscribe, Subscribe, Unsubscribe, Reopen, Register, Cut, LoadTimeout,
         SubscribeRecord, ReadRow, Reload, vars, wireVars
    <2>3. \A c \in Clients : busy'[c] = busy[c] \/ busy'[c].does # "reply"
      BY <1>0, <1>1 DEF TypeOK, Refuse, Answer, Fail, Publish, EndPublish, EditCell, TakeSubscribe,
         TakeUnsubscribe, Subscribe, Unsubscribe, Reopen, Register, Cut, LoadTimeout,
         SubscribeRecord, ReadRow, Reload, vars, wireVars, Idle
    <2>4. \A c \in Clients : data'[c] = data[c] \/ data'[c] \in {Empty, NoData}
      BY <1>0, <1>1 DEF TypeOK, Refuse, Answer, Fail, Publish, EndPublish, EditCell, TakeSubscribe,
         TakeUnsubscribe, Subscribe, Unsubscribe, Reopen, Register, Cut, LoadTimeout,
         SubscribeRecord, ReadRow, Reload, vars, docVars
    <2>5. \A e \in Edits : stage'[e] \in {"stored", "publishing"} => stage[e] \in {"stored", "publishing"}
      BY <1>0, <1>1 DEF TypeOK, Refuse, Answer, Fail, Publish, EndPublish, EditCell, TakeSubscribe,
         TakeUnsubscribe, Subscribe, Unsubscribe, Reopen, Register, Cut, LoadTimeout,
         SubscribeRecord, ReadRow, Reload, vars, editVars
    <2> QED
      BY <1>0, <2>1, <2>2, <2>3, <2>4, <2>5 DEF CInv, Announced, HoldsCommitted, Kept
  <1>2. ASSUME NEW e \in Edits, Commit(e)
        PROVE  Announced'
    <2>1. e \in Committed'
      <3>1. log \in Seq(Edits) /\ log' = Append(log, e)
        BY <1>0, <1>2 DEF Commit, TypeOK
      <3>2. Len(log) + 1 \in DOMAIN log' /\ log'[Len(log) + 1] = e
        BY <3>1
      <3> QED
        BY <3>2 DEF Committed
    <2>2. \A f \in Edits : stage'[f] \in {"stored", "publishing"} => f = e \/ stage[f] \in {"stored", "publishing"}
      BY <1>0, <1>2 DEF Commit, TypeOK
    <2> QED
      BY <1>0, <1>2, <2>1, <2>2 DEF Commit, CInv, Announced, HoldsCommitted, Kept, lineVars, wireVars, docVars
  <1>3. ASSUME NEW e \in Edits, NEW l \in Lines, Offer(e, l)
        PROVE  Announced'
    <2>1. e \in Committed
      BY <1>3 DEF Offer, CInv, Announced
    <2>2. queue' = [queue EXCEPT ![l] = Append(queue[l], e)] \/ queue' = queue
      BY <1>3 DEF Offer
    <2>3. \A m \in Lines : \A i \in DOMAIN queue'[m] : queue'[m][i] \in Committed
      <3>1. queue \in [Lines -> Seq(Edits)] /\ \A m \in Lines : \A i \in DOMAIN queue[m] : queue[m][i] \in Committed
        BY <1>0 DEF TypeOK, CInv, Announced
      <3>2. PICK q : q = Append(queue[l], e)
        OBVIOUS
      <3>3. \A i \in DOMAIN q : q[i] \in Committed
        BY <2>1, <3>1, <3>2
      <3>4. queue' = [queue EXCEPT ![l] = q] \/ queue' = queue
        BY <2>2, <3>2
      <3> QED
        BY <3>1, <3>3, <3>4
    <2> QED
      BY <1>0, <1>3, <2>3 DEF Offer, CInv, Announced, HoldsCommitted, Kept, editVars, wireVars, docVars
  <1>4. ASSUME NEW c \in Clients, ReadSnapshot(c)
        PROVE  Announced'
    <2>1. Record \in Kept
      BY <1>0, RecordIsValue DEF TypeOK, Kept
    <2>2. \A d \in Clients : busy'[d] = busy[d] \/ busy'[d].v = Record
      BY <1>0, <1>4 DEF ReadSnapshot, TypeOK
    <2> QED
      BY <1>0, <1>4, <2>1, <2>2 DEF ReadSnapshot, CInv, Announced, HoldsCommitted, Kept, editVars, lineVars, docVars
  <1>5. ASSUME NEW c \in Clients, Reply(c)
        PROVE  Announced'
    <2>1. busy[c].v \in Kept
      BY <1>5 DEF Reply, CInv, Announced
    <2>2. \A d \in Clients : \A i \in DOMAIN down'[d] :
            \/ i \in DOMAIN down[d] /\ down'[d][i] = down[d][i]
            \/ down'[d][i].v = busy[c].v
      BY <1>0, <1>5 DEF Reply, TypeOK
    <2>3. \A d \in Clients : busy'[d] = busy[d] \/ busy'[d].does = "read"
      BY <1>0, <1>5 DEF Reply, TypeOK, Idle
    <2> QED
      BY <1>0, <1>5, <2>1, <2>2, <2>3 DEF Reply, CInv, Announced, HoldsCommitted, Kept, editVars, lineVars, docVars
  <1>6. ASSUME NEW l \in Lines, Deliver(l)
        PROVE  Announced'
    <2>1. Head(queue[l]) \in Committed
      BY <1>0, <1>6 DEF Deliver, CInv, Announced, TypeOK
    <2>2. \A m \in Lines : \A i \in DOMAIN queue'[m] : queue'[m][i] \in Committed
      BY <1>0, <1>6 DEF Deliver, CInv, Announced, TypeOK
    <2>3. \A d \in Clients : \A i \in DOMAIN down'[d] :
            \/ i \in DOMAIN down[d] /\ down'[d][i] = down[d][i]
            \/ down'[d][i].v = Head(queue[l])
      BY <1>0, <1>6 DEF Deliver, TypeOK
    <2> QED
      BY <1>0, <1>6, <2>1, <2>2, <2>3 DEF Deliver, CInv, Announced, HoldsCommitted, Kept, editVars, docVars
  <1>7. ASSUME NEW l \in Lines, Stop(l)
        PROVE  Announced'
    <2>1. CASE LosesAll
      BY <1>0, <2>1, LosesAllKeepsAnnounced
    <2>2. CASE ~ (l \in closed /\ listed # {})
      <3>1. \A m \in Lines : queue'[m] = queue[m] \/ queue'[m] = <<>>
        BY <1>0, <1>7, <2>2 DEF Stop, TypeOK
      <3> QED
        BY <1>0, <1>7, <2>2, <3>1 DEF Stop, CInv, Announced, HoldsCommitted, Kept, editVars, wireVars, docVars
    <2> QED
      BY <1>7, <2>1, <2>2 DEF Stop
  <1>8. CASE Crash
    BY <1>0, <1>8, LosesAllKeepsAnnounced DEF Crash
  <1>9. ASSUME NEW c \in Clients, Receive(c)
        PROVE  Announced'
    <2>1. Head(down[c]).v \in Kept
      BY <1>0, <1>9 DEF Receive, CInv, Announced, TypeOK
    <2>2. \A d \in Clients : \A i \in DOMAIN down'[d] : down'[d][i].v \in Kept
      BY <1>0, <1>9 DEF Receive, CInv, Announced, TypeOK
    <2>3. \A d \in Clients : data'[d] = data[d] \/ data'[d] = Head(down[c]).v
      BY <1>0, <1>9 DEF Receive, TypeOK
    <2> QED
      BY <1>0, <1>9, <2>1, <2>2, <2>3 DEF Receive, CInv, Announced, HoldsCommitted, Kept, editVars, lineVars
  <1>10. ASSUME NEW c \in Clients, ReadFails(c)
         PROVE  Announced'
    <2>1. \A d \in Clients : busy'[d] = busy[d] \/ busy'[d].v = Empty
      BY <1>0, <1>10 DEF ReadFails, TypeOK
    <2> QED
      BY <1>0, <1>10, <2>1 DEF ReadFails, CInv, Announced, HoldsCommitted, Kept, editVars, lineVars, docVars
  <1> QED
    BY <1>1, <1>2, <1>3, <1>4, <1>5, <1>6, <1>7, <1>8, <1>9, <1>10
       DEF Next, Edit, Serve, Client, Page, RunEffect, EndRefresh, CInv

\* A document holds only what was committed, whatever is lost, full, cancelled,
\* unsubscribed or started again: no announcement goes ahead of its commit.
THEOREM CollaborationHoldsCommitted == Spec => []HoldsCommitted
  <1>1. Init => CInv
    <2>1. Init => Announced
      BY DEF Init, Announced, HoldsCommitted, Idle, Kept
    <2> QED
      BY <2>1, InitTInv DEF CInv
  <1>2. CInv /\ [Next]_vars => CInv'
    BY NextTInv, NextAnnounced DEF CInv
  <1>3. CInv => HoldsCommitted
    BY DEF CInv, Announced
  <1> QED
    BY <1>1, <1>2, <1>3, PTL DEF Spec

-----------------------------------------------------------------------------
(* Rows *)

\* A row follows its document, for any number of pages: whatever changes the
\* data of a document leaves an event behind, the row reads the data when it gets
\* to it, not the data of the event, and what the page writes into the row itself
\* lasts until it subscribes again.
THEOREM CollaborationRowFollowsDocument == Spec => []RowFollowsDocument
  <1> USE CollaborationAssumption
  <1>1. Init => RowFollowsDocument
    BY DEF Init, RowFollowsDocument, Values
  <1>2. ASSUME TInv, RowFollowsDocument, [Next]_vars
        PROVE  RowFollowsDocument'
    <2>0. TypeOK
      BY <1>2 DEF TInv
    <2>1. CASE UNCHANGED <<docVars, rowVars>> /\ \A c \in Pages : conn'[c] => conn[c]
      BY <1>2, <2>1 DEF docVars, rowVars, RowFollowsDocument
    <2>2. ASSUME NEW c \in Pages, NEW e \in Edits, EditCell(c, e)
          PROVE  RowFollowsDocument'
      BY <1>2, <2>0, <2>2 DEF EditCell, SetRow, TypeOK, RowFollowsDocument, docVars, wireVars
    <2>3. ASSUME NEW e \in Edits, Fail(e)
          PROVE  RowFollowsDocument'
      BY <1>2, <2>0, <2>3 DEF Fail, SetRow, TypeOK, RowFollowsDocument, docVars, wireVars
    <2>4. ASSUME NEW c \in Clients, Subscribe(c) \/ Unsubscribe(c)
          PROVE  RowFollowsDocument'
      BY <1>2, <2>0, <2>4 DEF Subscribe, Unsubscribe, TypeOK, RowFollowsDocument, rowVars
    <2>5. ASSUME NEW c \in Clients, Receive(c)
          PROVE  RowFollowsDocument'
      BY <1>2, <2>0, <2>5 DEF Receive, Notify, TypeOK, RowFollowsDocument, rowVars
    <2>6. ASSUME NEW c \in Clients, LoadTimeout(c)
          PROVE  RowFollowsDocument'
      BY <1>2, <2>0, <2>6 DEF LoadTimeout, Notify, TypeOK, RowFollowsDocument, rowVars, wireVars
    <2>7. ASSUME NEW c \in Pages, SubscribeRecord(c), rendered \ {c} \subseteq rendered'
          PROVE  RowFollowsDocument'
      <3>1. \A d \in Pages : /\ data'[d] = data[d] /\ shown'[d] = shown[d] /\ conn'[d] = conn[d]
                             /\ d \in local => d \in local'
                             /\ d \in reading => d \in reading'
        BY <2>0, <2>7 DEF SubscribeRecord, Notify, TypeOK
      <3>2. conn[c] /\ data[c] # NoData => c \in reading'
        BY <2>7 DEF SubscribeRecord, Notify
      <3> QED
        BY <1>2, <2>7, <3>1, <3>2 DEF RowFollowsDocument
    <2>8. ASSUME NEW c \in Pages, ReadRow(c)
          PROVE  RowFollowsDocument'
      BY <1>2, <2>0, <2>8 DEF ReadRow, SetRow, TypeOK, RowFollowsDocument, wireVars
    <2>9. ASSUME NEW c \in Pages, Reload(c)
          PROVE  RowFollowsDocument'
      BY <1>2, <2>0, <2>9 DEF Reload, SetRow, TypeOK, RowFollowsDocument
    <2> DEFINE Elsewhere ==
          \/ \E e \in Edits : \/ Commit(e) \/ Refuse(e) \/ Answer(e) \/ Publish(e) \/ EndPublish(e)
                              \/ \E l \in Lines : Offer(e, l)
          \/ \E c \in Clients : \/ TakeSubscribe(c) \/ Register(c) \/ ReadSnapshot(c) \/ Reply(c)
                                \/ ReadFails(c) \/ TakeUnsubscribe(c) \/ Cut(c) \/ Reopen(c)
          \/ \E l \in Lines : Deliver(l) \/ Stop(l)
          \/ Crash
          \/ UNCHANGED vars
    <2>10. CASE Elsewhere
      <3>1. UNCHANGED <<docVars, rowVars>>
        BY <2>10 DEF Commit, Refuse, Answer, Publish, EndPublish, Offer, TakeSubscribe, Register,
           ReadSnapshot, ReadFails, Reply, TakeUnsubscribe, Cut, Reopen, Deliver, Stop, Crash,
           LosesAll, vars
      <3>2. \A c \in Pages : conn'[c] => conn[c]
        BY <2>0, <2>10 DEF Commit, Refuse, Answer, Publish, EndPublish, Offer, TakeSubscribe, Register,
           ReadSnapshot, ReadFails, Reply, TakeUnsubscribe, Cut, Reopen, Deliver, Stop, Crash,
           LosesAll, vars, wireVars, TypeOK
      <3> QED
        BY <2>1, <3>1, <3>2
    <2>11. ASSUME NEW c \in Pages, RunEffect(c) \/ EndRefresh(c)
           PROVE  RowFollowsDocument'
      BY <2>7, <2>11 DEF RunEffect, EndRefresh
    <2> QED
      BY <1>2, <2>2, <2>3, <2>4, <2>5, <2>6, <2>8, <2>9, <2>10, <2>11
         DEF Next, Edit, Serve, Client, Page
  <1> QED
    BY InitTInv, NextTInv, <1>1, <1>2, PTL DEF Spec

-----------------------------------------------------------------------------
(* Refused edits *)

\* An edit is in the log exactly when it was stored.  One that is not there is
\* shown by the page that awaits its answer, or underneath another edit.
Shown ==
  /\ \A e \in Edits : stage[e] \in {"new", "sent", "refused"} <=> e \notin Committed
  /\ \A e \in Edits : stage[e] = "new" => author[e] = None /\ before[e] = None
  /\ \A e \in Edits \ Committed : \A c \in Pages :
       shown[c] = e => author[e] = c \/ \E f \in Edits : before[f] = e

SInv == CInv /\ Shown

\* A refused edit leaves the screen.
LEMMA ShownIsEnough == SInv => RefusedEditIsRemoved
  BY CollaborationAssumption DEF SInv, Shown, RefusedEditIsRemoved

LEMMA InitSInv == Init => SInv
  <1>1. Init => Announced
    BY DEF Init, Announced, HoldsCommitted, Idle, Kept
  <1>2. Init => Shown
    BY CollaborationAssumption DEF Init, Shown, Committed, Values
  <1> QED
    BY <1>1, <1>2, InitTInv DEF SInv, CInv

LEMMA NextShown ==
  ASSUME SInv, [Next]_vars
  PROVE  Shown'
  <1>0. /\ TypeOK /\ TInv /\ Shown /\ HoldsCommitted
        /\ NoValues \intersect Values = {} /\ Edits \subseteq Values /\ Origin \notin Edits
        /\ Pages \subseteq Clients /\ None \notin Clients
    BY CollaborationAssumption DEF SInv, CInv, TInv, Announced, Values
  <1>1. CASE UNCHANGED <<editVars, shown>>
    BY <1>0, <1>1 DEF Shown, Committed, editVars
  <1>2. ASSUME NEW e \in Edits, Commit(e)
        PROVE  Shown'
    <2>1. Committed' = Committed \union {e}
      <3>1. log \in Seq(Edits) /\ log' = Append(log, e)
        BY <1>0, <1>2 DEF Commit, TypeOK
      <3>2. DOMAIN log' = DOMAIN log \union {Len(log) + 1} /\ log'[Len(log) + 1] = e
        BY <3>1
      <3>3. \A i \in DOMAIN log : log'[i] = log[i]
        BY <3>1
      <3> QED
        BY <3>2, <3>3 DEF Committed
    <2>2. /\ stage'[e] \in {"stored", "done"}
          /\ \A f \in Edits \ {e} : stage'[f] = stage[f]
      BY <1>0, <1>2 DEF Commit, TypeOK
    <2> QED
      BY <1>0, <1>2, <2>1, <2>2 DEF Commit, Shown, rowVars
  <1>3. ASSUME NEW e \in Edits, Refuse(e) \/ Publish(e) \/ EndPublish(e)
        PROVE  Shown'
    <2>1. /\ stage'[e] \in {"new", "sent", "refused"} <=> stage[e] \in {"new", "sent", "refused"}
          /\ stage'[e] # "new"
          /\ \A f \in Edits \ {e} : stage'[f] = stage[f]
      BY <1>0, <1>3 DEF Refuse, Publish, EndPublish, TypeOK
    <2>2. UNCHANGED <<log, author, before, shown>>
      BY <1>3 DEF Refuse, Publish, EndPublish, rowVars
    <2> QED
      BY <1>0, <2>1, <2>2 DEF Shown, Committed
  <1>4. ASSUME NEW e \in Edits, Answer(e)
        PROVE  Shown'
    <2>1. e \in Committed
      BY <1>0, <1>4 DEF Answer, Shown
    <2> QED
      <3>1. /\ UNCHANGED <<log, stage, before, shown>>
            /\ author'[e] = None /\ \A f \in Edits \ {e} : author'[f] = author[f]
        BY <1>0, <1>4 DEF Answer, TypeOK, rowVars
      <3> QED
        BY <1>0, <2>1, <3>1 DEF Shown, Committed
  <1>5. ASSUME NEW e \in Edits, Fail(e)
        PROVE  Shown'
    <2>1. author[e] \in Pages
      BY <1>0, <1>5 DEF Fail, TypeOK
    <2>2. /\ UNCHANGED <<log, stage, before>>
          /\ author'[e] = None /\ \A f \in Edits \ {e} : author'[f] = author[f]
          /\ shown'[author[e]] = before[e] /\ \A c \in Pages \ {author[e]} : shown'[c] = shown[c]
      BY <1>0, <1>5, <2>1 DEF Fail, SetRow, TypeOK
    <2> QED
      BY <1>0, <2>1, <2>2 DEF Shown, Committed
  <1>6. ASSUME NEW c \in Pages, NEW e \in Edits, EditCell(c, e)
        PROVE  Shown'
    <2>1. /\ UNCHANGED log
          /\ stage[e] = "new" /\ stage'[e] = "sent" /\ \A f \in Edits \ {e} : stage'[f] = stage[f]
          /\ author'[e] = c /\ \A f \in Edits \ {e} : author'[f] = author[f]
          /\ \A f \in Edits \ {e} : before'[f] = before[f]
          /\ shown'[c] = e /\ \A d \in Pages \ {c} : shown'[d] = shown[d]
      BY <1>0, <1>6 DEF EditCell, SetRow, TypeOK
    <2>2. author[e] = None /\ before[e] = None
      BY <1>0, <2>1 DEF Shown
    <2> QED
      BY <1>0, <2>1, <2>2 DEF Shown, Committed
  <1>7. ASSUME NEW c \in Pages, ReadRow(c)
        PROVE  Shown'
    <2>1. /\ UNCHANGED editVars
          /\ shown'[c] \in {data[c], shown[c]} /\ \A d \in Pages \ {c} : shown'[d] = shown[d]
      BY <1>0, <1>7 DEF ReadRow, SetRow, TypeOK
    <2>2. \A e \in Edits \ Committed : data[c] # e
      BY <1>0 DEF HoldsCommitted
    <2> QED
      BY <1>0, <2>1, <2>2 DEF Shown, Committed, editVars
  <1>8. ASSUME NEW c \in Pages, Reload(c)
        PROVE  Shown'
    <2>1. /\ UNCHANGED <<log, stage, before>>
          /\ \A e \in Edits : author'[e] = IF author[e] = c THEN None ELSE author[e]
          /\ shown'[c] = Record /\ \A d \in Pages \ {c} : shown'[d] = shown[d]
      BY <1>0, <1>8 DEF Reload, SetRow, TypeOK
    <2>2. \A e \in Edits \ Committed : Record # e
      BY <1>0, RecordIsValue DEF TypeOK
    <2> QED
      BY <1>0, <2>1, <2>2 DEF Shown, Committed
  <1>9. CASE LosesAll
    <2>1. UNCHANGED <<log, author, before, shown>>
      BY <1>9 DEF LosesAll, rowVars
    <2>2. \A e \in Edits : /\ stage'[e] \in {"new", "sent", "refused"} <=> stage[e] \in {"new", "sent", "refused"}
                           /\ stage'[e] = "new" => stage[e] = "new"
      BY <1>0, <1>9 DEF LosesAll, TypeOK
    <2> QED
      BY <1>0, <2>1, <2>2 DEF Shown, Committed
  <1> DEFINE Elsewhere ==
        \/ \E e \in Edits : \E l \in Lines : Offer(e, l)
        \/ \E c \in Clients : \/ TakeSubscribe(c) \/ Register(c) \/ ReadSnapshot(c) \/ Reply(c)
                              \/ TakeUnsubscribe(c) \/ Cut(c) \/ Reopen(c) \/ ReadFails(c)
                              \/ Subscribe(c) \/ Unsubscribe(c) \/ Receive(c) \/ LoadTimeout(c)
        \/ \E c \in Pages : SubscribeRecord(c)
        \/ \E l \in Lines : Deliver(l) \/ (Stop(l) /\ ~LosesAll)
        \/ UNCHANGED vars
  <1>10. CASE Elsewhere
    <2>1. UNCHANGED <<editVars, shown>>
      BY <1>10 DEF Offer, TakeSubscribe, Register, ReadSnapshot, Reply, TakeUnsubscribe, Cut, Reopen,
         ReadFails, Subscribe, Unsubscribe, Receive, LoadTimeout, SubscribeRecord, Deliver, Stop,
         vars, rowVars
    <2> QED
      BY <1>1, <2>1
  <1> QED
    BY <1>2, <1>3, <1>4, <1>5, <1>6, <1>7, <1>8, <1>9, <1>10
       DEF SInv, Next, Edit, Serve, Client, Page, RunEffect, EndRefresh, Crash

\* An edit that was refused, and whose page knows, is on no screen unless another
\* one had been made on top of it, whatever the order of answers, events, crashes
\* and reloads: what a document brings to a row was committed, and a refused edit
\* never is.
THEOREM CollaborationRefusedEditIsRemoved == Spec => []RefusedEditIsRemoved
  <1>1. SInv /\ [Next]_vars => SInv'
    BY NextTInv, NextAnnounced, NextShown DEF SInv, CInv
  <1> QED
    BY <1>1, InitSInv, ShownIsEnough, PTL DEF Spec

-----------------------------------------------------------------------------
(* A subscribed document gets what is announced *)

\* The subscriptions of a client that go on.
Heard(c) == LinesOf(c) \ cancelled

\* The server has yet to register the client's subscription.
Asked(c) == busy[c].does = "register" \/ up[c] # <<>>

\* A value that will be brought to the client's document: in a snapshot, in an
\* announcement that is yet to begin or on its way.
Approaches(v, c) ==
  \/ busy[c].does = "reply" /\ busy[c].v = v
  \/ \E i \in DOMAIN down[c] : down[c][i].v = v
  \/ v \in Edits /\ stage[v] = "stored"
  \/ v \in Edits /\ stage[v] = "publishing" /\ offers[v] \intersect Heard(c) # {}
  \/ \E l \in Heard(c) : \E i \in DOMAIN queue[l] : queue[l][i] = v

\* A document that is owed something has it, or it will come: by the snapshot of
\* a subscription that is not read yet, or as a value new enough.
Coming(c) ==
  \/ Settled(c)
  \/ Asked(c)
  \/ busy[c].does = "snapshot"
  \/ \E v \in Contents : Approaches(v, c) /\ Position(v) >= owed[c]

\* Whoever is owed something is connected, and listens or is about to; its last
\* message was not to unsubscribe.
Listens(c) ==
  /\ conn[c]
  /\ owed[c] <= Len(log) + 1
  /\ up[c] # <<>> => up[c][Len(up[c])] = "s"
  /\ Asked(c) \/ Heard(c) \intersect listed # {}

Owing == \A c \in Clients : owed[c] # None => Listens(c) /\ Coming(c)

\* The lines: those whose connection is gone are cancelled, and none has a number
\* that was not given.
LinesOK ==
  /\ gone \subseteq cancelled
  /\ cancelled \subseteq live
  /\ \A l \in live : l[2] <= made[l[1]]

\* No edit is stored twice.
Once == \A i, j \in DOMAIN log : log[i] = log[j] => i = j

DInv == SInv /\ LinesOK /\ Once /\ Owing

-----------------------------------------------------------------------------
(* Places in the log *)

\* The place of an edit is after that of Origin and of those before it.
LEMMA PlaceInLog ==
  ASSUME log \in Seq(Edits), Once, NEW i \in DOMAIN log
  PROVE  Position(log[i]) = 1 + i
  <1>1. log[i] \in Committed
    BY DEF Committed
  <1>2. \A j \in DOMAIN log : log[j] = log[i] <=> j = i
    BY DEF Once
  <1>3. (CHOOSE j \in DOMAIN log : log[j] = log[i]) = i
    BY <1>2
  <1> QED
    BY <1>1, <1>3 DEF Position

\* A snapshot is as new as anything that is owed.
LEMMA SnapshotIsNew ==
  ASSUME log \in Seq(Edits), Once
  PROVE  Position(Record) >= Len(log) + 1
  <1>1. CASE log = <<>>
    BY <1>1 DEF Position, Record, Committed
  <1>2. CASE log # <<>>
    <2>1. Len(log) \in DOMAIN log /\ Record = log[Len(log)]
      BY <1>2 DEF Record
    <2>2. Position(Record) = 1 + Len(log)
      BY <2>1, PlaceInLog
    <2> QED
      BY <2>2
  <1> QED
    BY <1>1, <1>2

\* The log grows at its end by an edit that is not in it: nothing changes place.
LEMMA PlacesStay ==
  ASSUME log \in Seq(Edits), Once, NEW e \in Edits, e \notin Committed, log' = Append(log, e)
  PROVE  /\ Once'
         /\ Len(log') = Len(log) + 1
         /\ (Position(e))' = Len(log) + 2
         /\ \A v \in Contents : (Position(v))' >= Position(v)
  <1>1. /\ log' \in Seq(Edits) /\ Len(log') = Len(log) + 1
        /\ DOMAIN log = 1 .. Len(log) /\ DOMAIN log' = 1 .. (Len(log) + 1)
        /\ log'[Len(log) + 1] = e
        /\ \A i \in DOMAIN log : log'[i] = log[i]
        /\ Len(log) \in Nat
    OBVIOUS
  <1>2. \A i \in DOMAIN log : log[i] # e
    BY DEF Committed
  <1>3. Once'
    <2> SUFFICES ASSUME NEW i \in DOMAIN log', NEW j \in DOMAIN log', log'[i] = log'[j]
                 PROVE  i = j
      BY DEF Once
    <2>1. CASE i \in DOMAIN log /\ j \in DOMAIN log
      BY <1>1, <2>1 DEF Once
    <2>2. CASE i = Len(log) + 1 \/ j = Len(log) + 1
      BY <1>1, <1>2, <2>2
    <2> QED
      BY <1>1, <2>1, <2>2
  <1>4. ASSUME NEW v, NEW i \in DOMAIN log', log'[i] = v
        PROVE  (Position(v))' = 1 + i
    <2>1. \A j \in DOMAIN log' : log'[j] = v <=> j = i
      BY <1>3, <1>4 DEF Once
    <2>2. (CHOOSE j \in DOMAIN log' : log'[j] = v) = i
      BY <2>1
    <2>3. v \in Committed'
      BY <1>4 DEF Committed
    <2> QED
      BY <2>2, <2>3 DEF Position
  <1>5. (Position(e))' = Len(log) + 2
    <2>1. Len(log) + 1 \in DOMAIN log'
      BY <1>1
    <2> QED
      BY <1>1, <1>4, <2>1
  <1>6. ASSUME NEW v \in Contents
        PROVE  (Position(v))' >= Position(v)
    <2>1. CASE v \in Committed
      <3>1. PICK i \in DOMAIN log : log[i] = v
        BY <2>1 DEF Committed
      <3>2. Position(v) = 1 + i
        BY <3>1, PlaceInLog
      <3>3. i \in DOMAIN log' /\ log'[i] = v
        BY <1>1, <3>1
      <3>4. (Position(v))' = 1 + i
        BY <1>4, <3>3
      <3> QED
        BY <1>1, <3>2, <3>4
    <2>2. CASE v \notin Committed
      <3>1. Position(v) = 1
        BY <2>2 DEF Position
      <3>2. (Position(v))' \in Nat /\ (Position(v))' >= 1
        <4>1. CASE v \in Committed'
          <5>1. PICK i \in DOMAIN log' : log'[i] = v
            BY <4>1 DEF Committed
          <5>2. (Position(v))' = 1 + i
            BY <1>4, <5>1
          <5> QED
            BY <1>1, <5>2
        <4>2. CASE v \notin Committed'
          BY <4>2 DEF Position
        <4> QED
          BY <4>1, <4>2
      <3> QED
        BY <3>1, <3>2
    <2> QED
      BY <2>1, <2>2
  <1> QED
    BY <1>1, <1>3, <1>5, <1>6

\* An edit that is to be stored is not in the log.
LEMMA StoredOnce ==
  ASSUME SInv, NEW e \in Edits, Commit(e)
  PROVE  e \notin Committed
  BY DEF SInv, Shown, Commit

LEMMA NextOnce ==
  ASSUME SInv, Once, [Next]_vars
  PROVE  Once'
  <1>1. log \in Seq(Edits)
    BY DEF SInv, CInv, TInv, TypeOK
  <1>2. log' = log \/ \E e \in Edits : Commit(e)
    BY DEF Next, vars, editVars, Edit, Serve, Client, Page, EditCell, Refuse, Answer, Fail,
       Publish, Offer, EndPublish, TakeSubscribe, Register, ReadSnapshot, ReadFails, Reply,
       TakeUnsubscribe, Deliver, Stop, Crash, LosesAll, Cut, Subscribe, Unsubscribe,
       Receive, LoadTimeout, SubscribeRecord, RunEffect, EndRefresh, ReadRow, Reopen, Reload
  <1>3. CASE log' = log
    BY <1>3 DEF Once
  <1>4. ASSUME NEW e \in Edits, Commit(e)
        PROVE  Once'
    BY <1>1, <1>4, StoredOnce, PlacesStay DEF Commit
  <1> QED
    BY <1>2, <1>3, <1>4

-----------------------------------------------------------------------------
(* Lines *)

LEMMA NextLinesOK ==
  ASSUME TInv, LinesOK, [Next]_vars
  PROVE  LinesOK'
  <1>0. /\ made \in [Clients -> Nat] /\ live \subseteq Lines
        /\ \A l \in Lines : l[1] \in Clients /\ l[2] \in Nat
    BY CollaborationAssumption DEF TInv, TypeOK, Lines
  <1>1. CASE UNCHANGED lineVars
    BY <1>1 DEF LinesOK, lineVars
  <1>2. ASSUME NEW e \in Edits, NEW l \in Lines, Offer(e, l)
        PROVE  LinesOK'
    BY <1>2 DEF Offer, LinesOK
  <1>3. ASSUME NEW c \in Clients, TakeSubscribe(c)
        PROVE  LinesOK'
    BY <1>3 DEF TakeSubscribe, LinesOf, LinesOK
  <1>4. ASSUME NEW c \in Clients, Register(c)
        PROVE  LinesOK'
    <2>1. /\ made'[c] = made[c] + 1 /\ \A d \in Clients : made'[d] >= made[d]
          /\ made \in [Clients -> Nat] /\ made' \in [Clients -> Nat]
      BY <1>0, <1>4 DEF Register
    <2>2. live' = live \union {<<c, made[c] + 1>>} /\ UNCHANGED <<cancelled, gone>>
      BY <1>4 DEF Register
    <2>3. \A l \in live : l[2] <= made'[l[1]]
      BY <1>0, <2>1 DEF LinesOK
    <2> QED
      BY <2>1, <2>2, <2>3 DEF LinesOK
  <1>5. ASSUME NEW c \in Clients, TakeUnsubscribe(c)
        PROVE  LinesOK'
    BY <1>5 DEF TakeUnsubscribe, LinesOK
  <1>6. ASSUME NEW l \in Lines, Deliver(l)
        PROVE  LinesOK'
    BY <1>6 DEF Deliver, LinesOK
  <1>7. ASSUME NEW l \in Lines, Stop(l)
        PROVE  LinesOK'
    BY <1>7 DEF Stop, LosesAll, LinesOK
  <1>8. CASE Crash
    BY <1>8 DEF Crash, LosesAll, LinesOK
  <1>9. ASSUME NEW c \in Clients, Cut(c)
        PROVE  LinesOK'
    BY <1>9 DEF Cut, LinesOf, LinesOK
  <1> DEFINE Others ==
        \/ \E e \in Edits : \/ \E c \in Pages : EditCell(c, e)
                            \/ Commit(e) \/ Refuse(e) \/ Answer(e) \/ Fail(e)
                            \/ Publish(e) \/ EndPublish(e)
        \/ \E c \in Clients : \/ ReadSnapshot(c) \/ Reply(c) \/ Subscribe(c) \/ Unsubscribe(c)
                              \/ Receive(c) \/ Reopen(c) \/ ReadFails(c) \/ LoadTimeout(c)
        \/ \E c \in Pages : SubscribeRecord(c) \/ ReadRow(c) \/ Reload(c)
        \/ UNCHANGED vars
  <1>10. CASE Others
    BY <1>1, <1>10 DEF EditCell, Commit, Refuse, Answer, Fail, Publish, EndPublish,
       ReadSnapshot, ReadFails, Reply, Subscribe, Unsubscribe, Receive, LoadTimeout, Reopen,
       SubscribeRecord, ReadRow, Reload, vars
  <1> QED
    BY <1>2, <1>3, <1>4, <1>5, <1>6, <1>7, <1>8, <1>9, <1>10
       DEF Next, Edit, Serve, Client, Page, RunEffect, EndRefresh

-----------------------------------------------------------------------------
(* What is owed is on its way *)

\* A step that leaves alone all that a client is owed by.
LeavesAlone(d) ==
  /\ owed'[d] = owed[d] /\ log' = log
  /\ conn[d] => conn'[d]
  /\ up'[d] = up[d] /\ busy'[d] = busy[d] /\ down'[d] = down[d]
  /\ Heard(d)' = Heard(d)
  /\ Heard(d) \intersect listed \subseteq listed'
  /\ \A l \in Heard(d) : queue'[l] = queue[l]
  /\ \A e \in Edits :
       /\ stage[e] = "stored" => stage'[e] = "stored"
       /\ stage[e] = "publishing" /\ offers[e] # {} =>
            stage'[e] = "publishing" /\ offers'[e] = offers[e]

\* The invariant of a client goes on when nothing that approaches it is lost.
LEMMA StillComing ==
  ASSUME NEW d \in Clients, Listens(d), Coming(d),
         owed'[d] = owed[d], log' = log, conn[d] => conn'[d],
         up'[d] = up[d], busy'[d] = busy[d],
         Heard(d) \intersect listed \subseteq (Heard(d) \intersect listed)',
         \A v \in Contents : Approaches(v, d) => Approaches(v, d)' \/ Asked(d)
  PROVE  Listens(d)' /\ Coming(d)'
  <1>1. Asked(d)' <=> Asked(d)
    BY DEF Asked
  <1>2. Listens(d)'
    BY <1>1 DEF Listens
  <1>3. Settled(d)' <=> Settled(d)
    BY DEF Settled
  <1>4. \A v \in Contents : (Position(v))' = Position(v)
    BY DEF Position, Committed
  <1> QED
    BY <1>1, <1>2, <1>3, <1>4 DEF Coming

LEMMA LeftAlone ==
  ASSUME NEW d \in Clients, Listens(d), Coming(d), LeavesAlone(d)
  PROVE  Listens(d)' /\ Coming(d)'
  <1>1. ASSUME NEW v \in Contents, Approaches(v, d)
        PROVE  Approaches(v, d)'
    <2>1. CASE busy[d].does = "reply" /\ busy[d].v = v
      BY <2>1 DEF LeavesAlone, Approaches
    <2>2. CASE \E i \in DOMAIN down[d] : down[d][i].v = v
      BY <2>2 DEF LeavesAlone, Approaches
    <2>3. CASE v \in Edits /\ stage[v] = "stored"
      BY <2>3 DEF LeavesAlone, Approaches
    <2>4. CASE v \in Edits /\ stage[v] = "publishing" /\ offers[v] \intersect Heard(d) # {}
      <3>1. stage'[v] = "publishing" /\ offers'[v] = offers[v] /\ Heard(d)' = Heard(d)
        BY <2>4 DEF LeavesAlone
      <3> QED
        BY <2>4, <3>1 DEF Approaches
    <2>5. CASE \E l \in Heard(d) : \E i \in DOMAIN queue[l] : queue[l][i] = v
      <3>1. \A l \in Heard(d) : l \in Heard(d)' /\ queue'[l] = queue[l]
        BY DEF LeavesAlone
      <3> QED
        BY <2>5, <3>1 DEF Approaches
    <2> QED
      BY <1>1, <2>1, <2>2, <2>3, <2>4, <2>5 DEF Approaches
  <1>2. Heard(d) \intersect listed \subseteq (Heard(d) \intersect listed)'
    BY DEF LeavesAlone
  <1> QED
    BY <1>1, <1>2, StillComing DEF LeavesAlone

\* Lines of different clients differ.
LEMMA OwnLines ==
  ASSUME NEW c \in Clients, NEW d \in Clients, c # d
  PROVE  \A l \in LinesOf(d) : l \notin LinesOf(c)
  BY DEF LinesOf

\* What leaves all clients alone that were owed something and still are.
LEMMA AllLeftAlone ==
  ASSUME Owing, \A d \in Clients : owed'[d] # None => owed[d] # None /\ LeavesAlone(d)
  PROVE  Owing'
  <1>1. ASSUME NEW d \in Clients, owed'[d] # None
        PROVE  Listens(d)' /\ Coming(d)'
    <2>1. Listens(d) /\ Coming(d) /\ LeavesAlone(d)
      BY <1>1 DEF Owing
    <2> QED
      BY <2>1, LeftAlone
  <1> QED
    BY <1>1 DEF Owing

\* Edits and pages: nothing that is owed is touched.
LEMMA QuietSteps ==
  ASSUME DInv,
         \/ \E e \in Edits : Refuse(e) \/ Answer(e) \/ Fail(e) \/ EndPublish(e)
         \/ \E e \in Edits, c \in Pages : EditCell(c, e)
         \/ \E c \in Clients : Reopen(c) \/ LoadTimeout(c)
         \/ \E c \in Pages : ReadRow(c) \/ Reload(c)
         \/ UNCHANGED vars
  PROVE  Owing'
  <1>0. TypeOK /\ Owing
    BY DEF DInv, SInv, CInv, TInv
  <1>1. ASSUME NEW d \in Clients, owed'[d] # None
        PROVE  owed[d] # None /\ LeavesAlone(d)
    <2>1. owed' = owed /\ log' = log /\ up' = up /\ busy' = busy /\ down' = down /\ offers' = offers
          /\ UNCHANGED <<live, cancelled, listed, queue>>
      BY DEF Refuse, Answer, Fail, EndPublish, EditCell, Reopen, LoadTimeout, ReadRow, Reload, vars,
         editVars, lineVars, wireVars
    <2>2. conn[d]
      BY <1>0, <1>1, <2>1 DEF Owing, Listens
    <2>3. conn'[d]
      BY <1>0, <2>2 DEF TypeOK, Refuse, Answer, Fail, EndPublish, EditCell, Reopen, LoadTimeout, ReadRow, Reload, vars,
         wireVars
    <2>4. \A e \in Edits :
            /\ stage[e] = "stored" => stage'[e] = "stored"
            /\ stage[e] = "publishing" /\ offers[e] # {} => stage'[e] = "publishing"
      BY <1>0 DEF TypeOK, Refuse, Answer, Fail, EndPublish, EditCell, Reopen, LoadTimeout, ReadRow, Reload, vars,
         editVars
    <2>5. Heard(d)' = Heard(d)
      BY <2>1 DEF Heard, LinesOf
    <2> QED
      BY <1>1, <2>1, <2>3, <2>4, <2>5 DEF LeavesAlone
  <1> QED
    BY <1>0, <1>1, AllLeftAlone

\* A commit owes its edit to whoever was owed something.
LEMMA CommitOwes ==
  ASSUME DInv, NEW e \in Edits, Commit(e)
  PROVE  Owing'
  <1>6. TypeOK /\ Owing /\ Once /\ log' = Append(log, e)
    BY DEF DInv, SInv, CInv, TInv, Commit
  <1>7. e \notin Committed
    BY StoredOnce DEF DInv
  <1>0. /\ TypeOK /\ Owing /\ Once /\ log \in Seq(Edits) /\ Len(log) \in Nat
        /\ e \in Values /\ e \notin Committed /\ log' = Append(log, e)
    BY <1>6, <1>7 DEF TypeOK, Values
  <1>1. /\ Len(log') = Len(log) + 1
        /\ (Position(e))' = Len(log) + 2
        /\ \A v \in Contents : (Position(v))' >= Position(v)
    BY <1>0, PlacesStay
  <1>2. UNCHANGED <<conn, up, busy, down, offers, live, cancelled, listed, queue>>
    BY DEF Commit, lineVars, wireVars, docVars
  <1> SUFFICES ASSUME NEW d \in Clients, owed'[d] # None
               PROVE  Listens(d)' /\ Coming(d)'
    BY DEF Owing
  <1>3. Heard(d)' = Heard(d) /\ (Asked(d)' <=> Asked(d))
    BY <1>2 DEF Heard, LinesOf, Asked
  <1>4. CASE e \in Single
    <2>1. owed' = Owe(Len(log) + 2) /\ stage' = [stage EXCEPT ![e] = "stored"]
      BY <1>4 DEF Commit
    <2>2. owed[d] # None /\ owed'[d] = Len(log) + 2
      BY <2>1 DEF Owe
    <2>3. Listens(d)
      BY <1>0, <2>2 DEF Owing
    <2>4. Listens(d)'
      BY <1>0, <1>1, <1>2, <1>3, <2>2, <2>3 DEF Listens
    <2>5. Approaches(e, d)'
      BY <1>0, <2>1 DEF Approaches, TypeOK
    <2>6. (Position(e))' >= owed'[d]
      BY <1>0, <1>1, <2>2
    <2> QED
      BY <1>0, <2>4, <2>5, <2>6 DEF Coming, Values, Contents
  <1>5. CASE e \notin Single
    <2>1. owed' = owed /\ stage[e] = "sent" /\ \A f \in Edits \ {e} : stage'[f] = stage[f]
      BY <1>0, <1>5 DEF Commit, TypeOK
    <2>2. owed[d] # None /\ owed'[d] = owed[d] /\ owed[d] \in Nat \union {None}
      BY <1>0, <2>1 DEF TypeOK
    <2>3. Listens(d) /\ Coming(d)
      BY <1>0, <2>2 DEF Owing
    <2>4. Listens(d)'
      BY <1>0, <1>1, <1>2, <1>3, <2>2, <2>3 DEF Listens
    <2>5. ASSUME NEW v \in Contents, Approaches(v, d), Position(v) >= owed[d]
          PROVE  Approaches(v, d)' /\ (Position(v))' >= owed'[d]
      <3>1. Approaches(v, d)'
        BY <1>2, <1>3, <2>1, <2>5 DEF Approaches
      <3>2. Position(v) \in Nat /\ (Position(v))' >= Position(v) /\ owed[d] \in Nat
        BY <1>0, <1>1, <2>2, PositionIsPlace
      <3>3. (Position(v))' \in Nat
        <4>1. log' \in Seq(Edits)
          BY <1>0
        <4> QED
          BY <4>1 DEF Position, Committed
      <3> QED
        BY <2>2, <2>5, <3>1, <3>2, <3>3
    <2>6. Settled(d)' <=> Settled(d)
      BY <1>2, <2>2 DEF Settled
    <2> QED
      BY <1>2, <1>3, <2>3, <2>4, <2>5, <2>6 DEF Coming
  <1> QED
    BY <1>4, <1>5

\* A publication that begins has every listener before it; who does not listen
\* yet gets a snapshot.
LEMMA PublishOwes ==
  ASSUME DInv, NEW e \in Edits, Publish(e)
  PROVE  Owing'
  <1>0. TypeOK /\ Owing
    BY DEF DInv, SInv, CInv, TInv
  <1>1. UNCHANGED <<log, owed, conn, up, busy, down, live, cancelled, listed, queue>>
    BY DEF Publish, lineVars, wireVars, docVars
  <1>2. /\ stage[e] = "stored" /\ stage' = [stage EXCEPT ![e] = "publishing"]
        /\ offers' = [offers EXCEPT ![e] = listed]
    BY DEF Publish
  <1> SUFFICES ASSUME NEW d \in Clients, owed'[d] # None
               PROVE  Listens(d)' /\ Coming(d)'
    BY DEF Owing
  <1>3. Listens(d) /\ Coming(d)
    BY <1>0, <1>1 DEF Owing
  <1>4. Heard(d)' = Heard(d)
    BY <1>1 DEF Heard, LinesOf
  <1>5. ASSUME NEW v \in Contents, Approaches(v, d)
        PROVE  Approaches(v, d)' \/ Asked(d)
    <2>1. CASE v = e
      <3>1. CASE Asked(d)
        BY <3>1
      <3>2. CASE Heard(d) \intersect listed # {}
        <4>1. stage'[e] = "publishing" /\ offers'[e] = listed
          BY <1>0, <1>2 DEF TypeOK
        <4> QED
          BY <1>4, <2>1, <3>2, <4>1 DEF Approaches
      <3> QED
        BY <1>3, <3>1, <3>2 DEF Listens
    <2>2. CASE v # e
      <3>1. v \in Edits => stage'[v] = stage[v] /\ offers'[v] = offers[v]
        BY <1>0, <1>2, <2>2 DEF TypeOK
      <3> QED
        BY <1>1, <1>4, <1>5, <3>1 DEF Approaches
    <2> QED
      BY <2>1, <2>2
  <1> QED
    BY <1>1, <1>3, <1>4, <1>5, StillComing

\* An operation that is offered is in the buffer, or the client was full and is
\* not owed anything.
LEMMA OfferOwes ==
  ASSUME DInv, NEW e \in Edits, NEW l \in Lines, Offer(e, l)
  PROVE  Owing'
  <1>0. TypeOK /\ Owing /\ l[1] \in Clients
    BY LineOfClient DEF DInv, SInv, CInv, TInv
  <1>1. UNCHANGED <<log, stage, conn, up, busy, down, live, cancelled, listed>>
    BY DEF Offer, editVars, wireVars, docVars
  <1>2. stage[e] = "publishing" /\ offers' = [offers EXCEPT ![e] = offers[e] \ {l}]
    BY DEF Offer
  <1>3. \/ queue' = [queue EXCEPT ![l] = Append(queue[l], e)] /\ owed' = owed
        \/ queue' = queue /\ owed' = IF l \in cancelled THEN owed ELSE [owed EXCEPT ![l[1]] = None]
    BY DEF Offer
  <1> SUFFICES ASSUME NEW d \in Clients, owed'[d] # None
               PROVE  Listens(d)' /\ Coming(d)'
    BY DEF Owing
  <1>4. Heard(d)' = Heard(d) /\ \A m \in Heard(d) : m \in Lines /\ m[1] = d
    BY <1>0, <1>1 DEF Heard, LinesOf, TypeOK
  <1>5. owed'[d] = owed[d]
    BY <1>0, <1>3 DEF TypeOK
  <1>6. Listens(d) /\ Coming(d)
    BY <1>0, <1>5 DEF Owing
  <1>7. \A m \in Lines : \A i \in DOMAIN queue[m] : i \in DOMAIN queue'[m] /\ queue'[m][i] = queue[m][i]
    <2>1. queue \in [Lines -> Seq(Edits)]
      BY <1>0 DEF TypeOK
    <2>2. PICK q : q = Append(queue[l], e)
      OBVIOUS
    <2>3. \A i \in DOMAIN queue[l] : i \in DOMAIN q /\ q[i] = queue[l][i]
      BY <2>1, <2>2
    <2>4. queue' = queue \/ queue' = [queue EXCEPT ![l] = q]
      BY <1>3, <2>2
    <2> QED
      BY <2>1, <2>3, <2>4
  <1>8. ASSUME NEW v \in Contents, Approaches(v, d)
        PROVE  Approaches(v, d)'
    <2>1. CASE v = e /\ l \in Heard(d)
      <3>1. l \notin cancelled /\ l[1] = d
        BY <1>4, <2>1 DEF Heard
      <3>2. queue' = [queue EXCEPT ![l] = Append(queue[l], e)]
        BY <1>0, <1>3, <3>1 DEF TypeOK
      <3>3. queue[l] \in Seq(Edits)
        BY <1>0 DEF TypeOK
      <3>4. PICK q : q = Append(queue[l], e)
        OBVIOUS
      <3>5. Len(queue[l]) + 1 \in DOMAIN q /\ q[Len(queue[l]) + 1] = e
        BY <3>3, <3>4
      <3>6. queue'[l] = q
        BY <1>0, <3>2, <3>4 DEF TypeOK
      <3>7. \E i \in DOMAIN queue'[l] : queue'[l][i] = v
        BY <2>1, <3>5, <3>6
      <3> QED
        BY <1>4, <2>1, <3>7 DEF Approaches
    <2>2. CASE v \in Edits /\ stage[v] = "publishing" /\ offers[v] \intersect Heard(d) # {}
               /\ ~ (v = e /\ l \in Heard(d))
      <3>1. offers'[v] \intersect Heard(d) # {}
        BY <1>0, <1>2, <2>2 DEF TypeOK
      <3> QED
        BY <1>1, <1>4, <2>2, <3>1 DEF Approaches
    <2>3. CASE \E m \in Heard(d) : \E i \in DOMAIN queue[m] : queue[m][i] = v
      BY <1>4, <1>7, <2>3 DEF Approaches
    <2>4. CASE \/ busy[d].does = "reply" /\ busy[d].v = v
               \/ \E i \in DOMAIN down[d] : down[d][i].v = v
               \/ v \in Edits /\ stage[v] = "stored"
      BY <1>1, <2>4 DEF Approaches
    <2> QED
      BY <1>8, <2>1, <2>2, <2>3, <2>4 DEF Approaches
  <1> QED
    BY <1>1, <1>4, <1>5, <1>6, <1>8, StillComing

\* A client that subscribes is owed what is stored, and gets a snapshot.
LEMMA ServeOwes ==
  ASSUME DInv, NEW c \in Clients,
         TakeSubscribe(c) \/ Register(c) \/ ReadSnapshot(c) \/ Reply(c)
  PROVE  Owing'
  <1>0. /\ TypeOK /\ Owing /\ LinesOK /\ Once /\ log \in Seq(Edits)
        /\ \A l \in Lines : l[1] \in Clients
    BY LineOfClient DEF DInv, SInv, CInv, TInv, TypeOK
  <1>1. UNCHANGED <<log, stage, offers, owed, conn, queue>>
    BY DEF TakeSubscribe, Register, ReadSnapshot, Reply, editVars, lineVars, docVars
  <1> SUFFICES ASSUME NEW d \in Clients, owed'[d] # None
               PROVE  Listens(d)' /\ Coming(d)'
    BY DEF Owing
  <1>2. Listens(d) /\ Coming(d) /\ owed'[d] = owed[d]
    BY <1>0, <1>1 DEF Owing
  <1>3. CASE c # d
    <2>1. up'[d] = up[d] /\ busy'[d] = busy[d] /\ down'[d] = down[d]
      BY <1>0, <1>3 DEF TypeOK, TakeSubscribe, Register, ReadSnapshot, Reply
    <2>2. Heard(d)' = Heard(d) /\ listed \subseteq listed'
      BY <1>3 DEF TakeSubscribe, Register, ReadSnapshot, Reply, Heard, LinesOf, lineVars
    <2>3. LeavesAlone(d)
      BY <1>1, <2>1, <2>2 DEF LeavesAlone
    <2> QED
      BY <1>2, <2>3, LeftAlone
  <1>4. CASE c = d /\ TakeSubscribe(c)
    <2>1. Asked(d)'
      BY <1>0, <1>4 DEF TakeSubscribe, Asked, TypeOK, Idle
    <2>2. up'[d] # <<>> => up'[d][Len(up'[d])] = "s"
      <3>1. up[d] \in Seq({"s", "us"}) /\ up[d] # <<>> /\ up[d][Len(up[d])] = "s"
        BY <1>0, <1>2, <1>4 DEF TakeSubscribe, Listens, TypeOK
      <3>2. PICK u : u = Tail(up[d])
        OBVIOUS
      <3>3. u # <<>> => u[Len(u)] = "s"
        BY <3>1, <3>2
      <3>4. up'[d] = u
        BY <1>0, <1>4, <3>2 DEF TakeSubscribe, TypeOK
      <3> QED
        BY <3>3, <3>4
    <2> QED
      BY <1>1, <1>2, <2>1, <2>2 DEF Listens, Coming
  <1>5. CASE c = d /\ Register(c)
    <2>1. PICK l : l = <<d, made[d] + 1>>
      OBVIOUS
    <2>2. /\ listed' = listed \union {l} /\ live' = live \union {l} /\ cancelled' = cancelled
          /\ up' = up
      BY <1>5, <2>1 DEF Register
    <2>3. l \notin cancelled
      <3>1. made[d] \in Nat /\ l[1] = d /\ l[2] = made[d] + 1
        BY <1>0, <2>1 DEF TypeOK
      <3> QED
        BY <1>0, <3>1 DEF LinesOK
    <2>4. l \in Heard(d)'
      BY <2>1, <2>2, <2>3 DEF Heard, LinesOf
    <2>5. busy'[d].does = "snapshot"
      BY <1>0, <1>5 DEF Register, TypeOK, Idle
    <2>6. Listens(d)'
      BY <1>1, <1>2, <2>2, <2>4 DEF Listens
    <2> QED
      BY <2>5, <2>6 DEF Coming
  <1>6. CASE c = d /\ ReadSnapshot(c)
    <2>1. /\ busy[d].does = "snapshot" /\ busy'[d] = [does |-> "reply", v |-> Record]
          /\ UNCHANGED <<up, live, cancelled, listed>>
      BY <1>0, <1>6 DEF ReadSnapshot, TypeOK, lineVars
    <2>2. Listens(d)'
      BY <1>1, <1>2, <2>1 DEF Listens, Asked, Heard, LinesOf
    <2>3. Record \in Values /\ (Position(Record) >= owed[d])
      <3>1. Record \in Values /\ Position(Record) >= Len(log) + 1 /\ Position(Record) \in Nat
        BY <1>0, RecordIsValue, SnapshotIsNew, PositionIsPlace
      <3>2. owed[d] <= Len(log) + 1 /\ owed[d] \in Nat \union {None}
        BY <1>0, <1>2 DEF Listens, TypeOK
      <3>3. owed[d] \in Nat /\ Len(log) \in Nat
        BY <1>0, <1>1, <1>2, <3>2
      <3> QED
        BY <3>1, <3>2, <3>3
    <2>4. PICK r : r = Record
      OBVIOUS
    <2>5. Approaches(r, d)' /\ r \in Contents
      BY <2>1, <2>3, <2>4 DEF Approaches, Contents
    <2>6. (Position(r))' >= owed'[d]
      BY <1>1, <1>2, <2>3, <2>4 DEF Position, Committed
    <2> QED
      BY <2>2, <2>5, <2>6 DEF Coming
  <1>7. CASE c = d /\ Reply(c)
    <2>1. /\ busy[d].does = "reply" /\ busy'[d] = Idle
          /\ down' = [down EXCEPT ![d] = Append(down[d], [a |-> "s", v |-> busy[d].v])]
          /\ UNCHANGED <<up, live, cancelled, listed>>
      BY <1>0, <1>7 DEF Reply, TypeOK, lineVars
    <2>2. Heard(d)' = Heard(d) /\ (Asked(d)' <=> Asked(d))
      BY <2>1 DEF Heard, LinesOf, Asked, Idle
    <2>3. Listens(d)'
      BY <1>1, <1>2, <2>1, <2>2 DEF Listens
    <2>4. PICK m : m = [a |-> "s", v |-> busy[d].v]
      OBVIOUS
    <2>5. PICK q : q = Append(down[d], m)
      OBVIOUS
    <2>6. /\ \A i \in DOMAIN down[d] : i \in DOMAIN q /\ q[i] = down[d][i]
          /\ Len(down[d]) + 1 \in DOMAIN q /\ q[Len(down[d]) + 1] = m
      <3>1. down[d] \in Seq(Message)
        BY <1>0 DEF TypeOK
      <3> QED
        BY <2>5, <3>1
    <2>7. down'[d] = q
      BY <1>0, <2>1, <2>4, <2>5 DEF TypeOK
    <2>8. ASSUME NEW v \in Contents, Approaches(v, d)
          PROVE  Approaches(v, d)'
      <3>1. CASE busy[d].v = v
        BY <2>4, <2>6, <2>7, <3>1 DEF Approaches
      <3>2. CASE \E i \in DOMAIN down[d] : down[d][i].v = v
        BY <2>6, <2>7, <3>2 DEF Approaches
      <3>3. CASE \/ v \in Edits /\ stage[v] = "stored"
                 \/ v \in Edits /\ stage[v] = "publishing" /\ offers[v] \intersect Heard(d) # {}
                 \/ \E l \in Heard(d) : \E i \in DOMAIN queue[l] : queue[l][i] = v
        BY <1>1, <2>2, <3>3 DEF Approaches
      <3> QED
        BY <2>8, <3>1, <3>2, <3>3 DEF Approaches
    <2>9. \A v \in Contents : (Position(v))' = Position(v)
      BY <1>1 DEF Position, Committed
    <2>10. (Settled(d)' <=> Settled(d)) /\ busy[d].does # "snapshot"
      BY <1>1, <2>1 DEF Settled
    <2> QED
      BY <1>2, <2>2, <2>3, <2>8, <2>9, <2>10 DEF Coming
  <1> QED
    BY <1>3, <1>4, <1>5, <1>6, <1>7

\* An empty snapshot is promised no more than it brings.
LEMMA ReadFailsOwes ==
  ASSUME DInv, NEW c \in Clients, ReadFails(c)
  PROVE  Owing'
  <1>0. TypeOK /\ Owing
    BY DEF DInv, SInv, CInv, TInv
  <1>1. UNCHANGED <<log, stage, offers, conn, up, down, queue, live, cancelled, listed>>
    BY DEF ReadFails, editVars, lineVars
  <1> SUFFICES ASSUME NEW d \in Clients, owed'[d] # None
               PROVE  Listens(d)' /\ Coming(d)'
    BY DEF Owing
  <1>2. /\ Heard(d)' = Heard(d)
        /\ owed'[d] = IF c = d THEN 1 ELSE owed[d]
        /\ owed[d] # None
    BY <1>0, <1>1 DEF ReadFails, TypeOK, Heard, LinesOf
  <1>3. Listens(d) /\ Coming(d)
    BY <1>0, <1>2 DEF Owing
  <1>4. CASE c # d
    <2>1. busy'[d] = busy[d]
      BY <1>0, <1>4 DEF ReadFails, TypeOK
    <2> QED
      BY <1>1, <1>2, <1>3, <1>4, <2>1, LeftAlone DEF LeavesAlone
  <1>5. CASE c = d
    <2>1. busy[d].does = "snapshot" /\ busy'[d] = [does |-> "reply", v |-> Empty]
      BY <1>0, <1>5 DEF ReadFails, TypeOK
    <2>2. 1 <= Len(log) + 1
      BY <1>0 DEF TypeOK
    <2>3. Listens(d)'
      BY <1>1, <1>2, <1>3, <1>5, <2>1, <2>2 DEF Listens, Asked
    <2>4. PICK r : r = Empty
      OBVIOUS
    <2>5. Approaches(r, d)' /\ r \in Contents
      BY <2>1, <2>4 DEF Approaches, Contents
    <2>6. (Position(r))' >= owed'[d]
      <3>1. r \notin Committed'
        <4>1. r \notin Edits /\ log' \in Seq(Edits)
          BY <1>0, <1>1, <2>4, CollaborationAssumption DEF TypeOK, Values
        <4> QED
          BY <4>1 DEF Committed
      <3>2. (Position(r))' = 1
        BY <3>1 DEF Position
      <3> QED
        BY <1>2, <1>5, <3>2
    <2> QED
      BY <2>3, <2>5, <2>6 DEF Coming
  <1> QED
    BY <1>4, <1>5

\* An unsubscription takes what others are owed, unless they are about to be
\* subscribed; the client's own was made before it subscribed again.
LEMMA UnsubscribeOwes ==
  ASSUME DInv, NEW c \in Clients, TakeUnsubscribe(c)
  PROVE  Owing'
  <1>0. TypeOK /\ Owing
    BY DEF DInv, SInv, CInv, TInv
  <1>1. UNCHANGED <<log, stage, offers, conn, queue, busy, down, live, cancelled>>
    BY DEF TakeUnsubscribe, editVars, docVars
  <1> SUFFICES ASSUME NEW d \in Clients, owed'[d] # None
               PROVE  Listens(d)' /\ Coming(d)'
    BY DEF Owing
  <1>2. owed'[d] = owed[d] /\ (d # c => ~ \E l \in listed \ cancelled : l[1] = d)
    BY DEF TakeUnsubscribe
  <1>3. Listens(d) /\ Coming(d)
    BY <1>0, <1>2 DEF Owing
  <1>4. up'[d] # <<>> => up'[d][Len(up'[d])] = "s"
    <2>1. CASE d # c
      BY <1>0, <1>3, <2>1 DEF TakeUnsubscribe, Listens, TypeOK
    <2>2. CASE d = c
      <3>1. up[d] \in Seq({"s", "us"}) /\ up[d] # <<>> /\ up[d][Len(up[d])] = "s"
        BY <1>0, <1>3, <2>2 DEF TakeUnsubscribe, Listens, TypeOK
      <3>2. PICK u : u = Tail(up[d])
        OBVIOUS
      <3>3. u # <<>> => u[Len(u)] = "s"
        BY <3>1, <3>2
      <3>4. up'[d] = u
        BY <1>0, <2>2, <3>2 DEF TakeUnsubscribe, TypeOK
      <3> QED
        BY <3>3, <3>4
    <2> QED
      BY <2>1, <2>2
  <1>5. Asked(d)'
    <2>1. CASE d # c
      <3>1. Heard(d) \intersect listed = {}
        BY <1>2, <2>1 DEF Heard, LinesOf
      <3>2. up'[d] = up[d]
        BY <1>0, <2>1 DEF TakeUnsubscribe, TypeOK
      <3> QED
        BY <1>1, <1>3, <3>1, <3>2 DEF Listens, Asked
    <2>2. CASE d = c
      <3>1. /\ up[d] \in Seq({"s", "us"}) /\ up[d] # <<>> /\ up[d][Len(up[d])] = "s"
            /\ Head(up[d]) = "us"
        BY <1>0, <1>3, <2>2 DEF TakeUnsubscribe, Listens, TypeOK
      <3>2. PICK u : u = Tail(up[d])
        OBVIOUS
      <3>3. up[d][1] = "us" /\ Len(up[d]) # 1 /\ Len(up[d]) # 0 /\ Len(up[d]) \in Nat
        BY <3>1
      <3>4. u # <<>>
        <4>1. Len(u) = Len(up[d]) - 1
          BY <3>1, <3>2
        <4>2. Len(u) # 0
          BY <3>3, <4>1
        <4>3. ASSUME u = <<>>
              PROVE  FALSE
          BY <4>2, <4>3
        <4> QED
          BY <4>3
      <3>5. up'[d] = u
        BY <1>0, <2>2, <3>2 DEF TakeUnsubscribe, TypeOK
      <3> QED
        BY <3>4, <3>5 DEF Asked
    <2> QED
      BY <2>1, <2>2
  <1> QED
    BY <1>1, <1>2, <1>3, <1>4, <1>5 DEF Listens, Coming

\* An operation goes from the buffer to the wire.
LEMMA DeliverOwes ==
  ASSUME DInv, NEW l \in Lines, Deliver(l)
  PROVE  Owing'
  <1>0. TypeOK /\ Owing /\ LinesOK /\ l[1] \in Clients
    BY LineOfClient DEF DInv, SInv, CInv, TInv
  <1>1. UNCHANGED <<log, stage, offers, owed, conn, up, busy, live, cancelled, listed>>
    BY DEF Deliver, editVars, docVars
  <1> SUFFICES ASSUME NEW d \in Clients, owed'[d] # None
               PROVE  Listens(d)' /\ Coming(d)'
    BY DEF Owing
  <1>2. Listens(d) /\ Coming(d)
    BY <1>0, <1>1 DEF Owing
  <1>3. Heard(d)' = Heard(d) /\ \A m \in Heard(d) : m \in Lines /\ m[1] = d
    BY <1>0, <1>1 DEF Heard, LinesOf, TypeOK
  <1>4. PICK x : x = Head(queue[l])
    OBVIOUS
  <1>5. PICK q : q = Tail(queue[l])
    OBVIOUS
  <1>6. queue[l] \in Seq(Edits) /\ queue[l] # <<>>
    BY <1>0 DEF Deliver, TypeOK
  <1>7. \A i \in DOMAIN queue[l] : queue[l][i] = x \/ \E j \in DOMAIN q : q[j] = queue[l][i]
    <2>1. ASSUME NEW i \in DOMAIN queue[l], i # 1
          PROVE  i - 1 \in DOMAIN q /\ q[i - 1] = queue[l][i]
      BY <1>5, <1>6, <2>1
    <2>2. queue[l][1] = x
      BY <1>4, <1>6
    <2> QED
      BY <2>1, <2>2
  <1>8. queue' = [queue EXCEPT ![l] = q]
    BY <1>5 DEF Deliver
  <1>9. PICK m : m = [a |-> "op", v |-> x]
    OBVIOUS
  <1>10. PICK w : w = Append(down[l[1]], m)
    OBVIOUS
  <1>11. /\ \A i \in DOMAIN down[l[1]] : i \in DOMAIN w /\ w[i] = down[l[1]][i]
         /\ \E i \in DOMAIN w : w[i].v = x
    <2>1. down[l[1]] \in Seq(Message)
      BY <1>0 DEF TypeOK
    <2>2. Len(down[l[1]]) + 1 \in DOMAIN w /\ w[Len(down[l[1]]) + 1] = m
      BY <1>10, <2>1
    <2>3. \A i \in DOMAIN down[l[1]] : i \in DOMAIN w /\ w[i] = down[l[1]][i]
      BY <1>10, <2>1
    <2> QED
      BY <1>9, <2>2, <2>3
  <1>12. /\ l \in gone => down' = down
         /\ l \notin gone => down' = [down EXCEPT ![l[1]] = w]
    BY <1>4, <1>9, <1>10 DEF Deliver
  <1>13. \A i \in DOMAIN down[d] : i \in DOMAIN down'[d] /\ down'[d][i] = down[d][i]
    BY <1>0, <1>11, <1>12 DEF TypeOK
  <1>14. ASSUME NEW v \in Contents, Approaches(v, d)
         PROVE  Approaches(v, d)'
    <2>1. CASE \E k \in Heard(d) : \E i \in DOMAIN queue[k] : queue[k][i] = v
      <3>1. PICK k \in Heard(d) : \E i \in DOMAIN queue[k] : queue[k][i] = v
        BY <2>1
      <3>2. k \in Lines /\ k[1] = d /\ k \notin gone
        BY <1>0, <1>3, <3>1 DEF Heard, LinesOK
      <3>3. CASE k # l
        <4>1. queue'[k] = queue[k]
          BY <1>0, <1>8, <3>2, <3>3 DEF TypeOK
        <4> QED
          BY <1>3, <3>1, <4>1 DEF Approaches
      <3>4. CASE k = l /\ v = x
        <4>1. down'[d] = w
          BY <1>0, <1>12, <3>2, <3>4 DEF TypeOK
        <4> QED
          BY <1>11, <3>4, <4>1 DEF Approaches
      <3>5. CASE k = l /\ v # x
        <4>1. queue'[k] = q
          BY <1>0, <1>8, <3>5 DEF TypeOK
        <4>2. \E j \in DOMAIN q : q[j] = v
          BY <1>7, <3>1, <3>5
        <4> QED
          BY <1>3, <3>1, <4>1, <4>2 DEF Approaches
      <3> QED
        BY <3>3, <3>4, <3>5
    <2>2. CASE \E i \in DOMAIN down[d] : down[d][i].v = v
      BY <1>13, <2>2 DEF Approaches
    <2>3. CASE \/ busy[d].does = "reply" /\ busy[d].v = v
               \/ v \in Edits /\ stage[v] = "stored"
               \/ v \in Edits /\ stage[v] = "publishing" /\ offers[v] \intersect Heard(d) # {}
      BY <1>1, <1>3, <2>3 DEF Approaches
    <2> QED
      BY <1>14, <2>1, <2>2, <2>3 DEF Approaches
  <1> QED
    BY <1>1, <1>2, <1>3, <1>14, StillComing

\* A goroutine ends; or its panic ends the server, and all that is owed.
LEMMA StopOwes ==
  ASSUME DInv, NEW l \in Lines, Stop(l)
  PROVE  Owing'
  <1>0. TypeOK /\ Owing /\ l \in cancelled
    BY DEF DInv, SInv, CInv, TInv, Stop
  <1>1. CASE LosesAll
    BY <1>1 DEF LosesAll, Owing
  <1>2. CASE ~ (l \in closed /\ listed # {})
    <2>1. /\ UNCHANGED <<log, stage, offers, owed, conn, up, busy, down>>
          /\ listed' = listed \ {l} /\ live' = live \ {l} /\ cancelled' = cancelled \ {l}
          /\ queue' = [queue EXCEPT ![l] = <<>>]
      BY <1>2 DEF Stop, editVars, wireVars, docVars
    <2>2. ASSUME NEW d \in Clients
          PROVE  LeavesAlone(d)
      <3>1. Heard(d)' = Heard(d) /\ l \notin Heard(d)
        BY <1>0, <2>1 DEF Heard, LinesOf
      <3>2. \A k \in Heard(d) : k \in Lines
        BY <1>0 DEF Heard, LinesOf, TypeOK
      <3>3. \A k \in Heard(d) : queue'[k] = queue[k]
        BY <1>0, <2>1, <3>1, <3>2 DEF TypeOK
      <3> QED
        BY <2>1, <3>1, <3>3 DEF LeavesAlone
    <2> QED
      BY <1>0, <2>1, <2>2, AllLeftAlone
  <1> QED
    BY <1>1, <1>2 DEF Stop

\* A client that subscribes asks for what it is owed.
LEMMA SubscribeDocOwes ==
  ASSUME DInv, NEW c \in Clients, SubscribeDoc(c),
         UNCHANGED <<editVars, offers, lineVars, conn, down, busy>>
  PROVE  Owing'
  <1>0. TypeOK /\ Owing
    BY DEF DInv, SInv, CInv, TInv
  <1>1. /\ UNCHANGED <<log, stage, offers, conn, down, busy, queue, live, listed, cancelled>>
        /\ \A d \in Clients : Heard(d)' = Heard(d)
    BY DEF editVars, lineVars, Heard, LinesOf
  <1> SUFFICES ASSUME NEW d \in Clients, owed'[d] # None
               PROVE  Listens(d)' /\ Coming(d)'
    BY DEF Owing
  <1>2. CASE c # d \/ ~conn[c]
    <2>1. owed'[d] = owed[d] /\ up'[d] = up[d]
      BY <1>0, <1>2 DEF TypeOK, SubscribeDoc
    <2>2. LeavesAlone(d)
      BY <1>1, <2>1 DEF LeavesAlone
    <2>3. Listens(d) /\ Coming(d)
      BY <1>0, <2>1 DEF Owing
    <2> QED
      BY <2>2, <2>3, LeftAlone
  <1>3. CASE c = d /\ conn[c]
    <2>1. PICK u : u = Append(up[d], "s")
      OBVIOUS
    <2>2. u # <<>> /\ u[Len(u)] = "s"
      <3>1. up[d] \in Seq({"s", "us"})
        BY <1>0 DEF TypeOK
      <3> QED
        BY <2>1, <3>1
    <2>3. up'[d] = u /\ conn'[d] /\ owed'[d] = Len(log) + 1 /\ Len(log) \in Nat
      BY <1>0, <1>1, <1>3, <2>1 DEF SubscribeDoc, TypeOK
    <2>4. Asked(d)'
      BY <2>2, <2>3 DEF Asked
    <2> QED
      BY <1>1, <2>2, <2>3, <2>4 DEF Listens, Coming
  <1> QED
    BY <1>2, <1>3

\* A page subscribes again, or finds its document subscribed, or no connection.
LEMMA SubscribeRecordOwes ==
  ASSUME DInv, NEW c \in Pages, SubscribeRecord(c)
  PROVE  Owing'
  <1>1. CASE SubscribeDoc(c)
    BY <1>1, SubscribeDocOwes, CollaborationAssumption DEF SubscribeRecord
  <1>2. CASE UNCHANGED <<up, owed>>
    <2>1. /\ UNCHANGED <<log, stage, offers, owed, up, conn, down, busy, queue, live, listed>>
          /\ UNCHANGED cancelled
      BY <1>2 DEF SubscribeRecord, editVars, lineVars
    <2>2. \A d \in Clients : LeavesAlone(d)
      BY <2>1 DEF LeavesAlone, Heard, LinesOf
    <2> QED
      BY <2>1, <2>2, AllLeftAlone DEF DInv
  <1> QED
    BY <1>1, <1>2 DEF SubscribeRecord

\* A client subscribes, unsubscribes or loses its connection.
LEMMA ClientOwes ==
  ASSUME DInv, NEW c \in Clients, Subscribe(c) \/ Unsubscribe(c) \/ Cut(c)
  PROVE  Owing'
  <1>0. TypeOK /\ Owing
    BY DEF DInv, SInv, CInv, TInv
  <1>1. CASE Subscribe(c)
    BY <1>1, SubscribeDocOwes DEF Subscribe
  <1>2. CASE Unsubscribe(c) \/ Cut(c)
    <2>1. UNCHANGED <<log, stage, offers, busy, queue, live, listed>>
      BY <1>2 DEF Unsubscribe, Cut, editVars, lineVars
    <2>2. owed'[c] = None
      BY <1>0, <1>2 DEF Unsubscribe, Cut, TypeOK
    <2>3. ASSUME NEW d \in Clients, d # c
          PROVE  owed'[d] = owed[d] /\ LeavesAlone(d)
      <3>1. owed'[d] = owed[d] /\ conn'[d] = conn[d] /\ up'[d] = up[d] /\ down'[d] = down[d]
        BY <1>0, <1>2, <2>3 DEF TypeOK, Unsubscribe, Cut
      <3>2. Heard(d)' = Heard(d)
        BY <1>2, <2>1, <2>3 DEF Unsubscribe, Cut, Heard, LinesOf, lineVars
      <3> QED
        BY <2>1, <3>1, <3>2 DEF LeavesAlone
    <2> QED
      BY <1>0, <2>2, <2>3, AllLeftAlone
  <1> QED
    BY <1>1, <1>2

\* A message is new enough, or something else is.
LEMMA ReceiveOwes ==
  ASSUME DInv, NEW c \in Clients, Receive(c)
  PROVE  Owing'
  <1>0. TypeOK /\ Owing /\ log \in Seq(Edits)
    BY DEF DInv, SInv, CInv, TInv, TypeOK
  <1>1. UNCHANGED <<log, stage, offers, conn, up, busy, queue, live, listed, cancelled>>
    BY DEF Receive, editVars, lineVars
  <1>2. PICK x : x = Head(down[c]).v
    OBVIOUS
  <1>3. PICK w : w = Tail(down[c])
    OBVIOUS
  <1>4. down[c] \in Seq(Message) /\ down[c] # <<>>
    BY <1>0 DEF Receive, TypeOK
  <1>5. x \in Contents
    <2>1. Head(down[c]) \in Message
      BY <1>4
    <2> QED
      BY <1>2, <2>1 DEF Message
  <1>6. \A i \in DOMAIN down[c] : down[c][i].v = x \/ \E j \in DOMAIN w : w[j].v = down[c][i].v
    <2>1. ASSUME NEW i \in DOMAIN down[c], i # 1
          PROVE  i - 1 \in DOMAIN w /\ w[i - 1] = down[c][i]
      BY <1>3, <1>4, <2>1
    <2>2. down[c][1].v = x
      BY <1>2, <1>4
    <2> QED
      BY <2>1, <2>2
  <1>7. owed' = Pay(c, x) /\ down' = [down EXCEPT ![c] = w]
    BY <1>2, <1>3 DEF Receive
  <1>8. Position(x) \in Nat /\ \A v \in Contents : (Position(v))' = Position(v)
    BY <1>0, <1>1, PositionIsPlace DEF Position, Committed
  <1> SUFFICES ASSUME NEW d \in Clients, owed'[d] # None
               PROVE  Listens(d)' /\ Coming(d)'
    BY DEF Owing
  <1>9. Heard(d)' = Heard(d) /\ (Asked(d)' <=> Asked(d))
    BY <1>1 DEF Heard, LinesOf, Asked
  <1>10. CASE c # d
    <2>1. owed'[d] = owed[d] /\ down'[d] = down[d]
      BY <1>0, <1>7, <1>10 DEF Pay, TypeOK
    <2>2. LeavesAlone(d)
      BY <1>1, <1>9, <2>1 DEF LeavesAlone
    <2>3. Listens(d) /\ Coming(d)
      BY <1>0, <2>1 DEF Owing
    <2> QED
      BY <2>2, <2>3, LeftAlone
  <1>11. CASE c = d
    <2>1. owed[d] # None /\ owed[d] \in Nat
      BY <1>0, <1>7, <1>11 DEF Pay, TypeOK
    <2>2. Listens(d) /\ Coming(d)
      BY <1>0, <2>1 DEF Owing
    <2>3. down'[d] = w
      BY <1>0, <1>7, <1>11 DEF TypeOK
    <2>4. CASE Position(x) >= owed[d]
      <3>1. owed'[d] = 0
        BY <1>0, <1>7, <1>11, <2>1, <2>4 DEF Pay, TypeOK
      <3>2. Settled(d)'
        BY <3>1 DEF Settled
      <3>3. Listens(d)'
        BY <1>0, <1>1, <1>9, <2>2, <3>1 DEF Listens
      <3> QED
        BY <3>2, <3>3 DEF Coming
    <2>5. CASE ~ (Position(x) >= owed[d])
      <3>1. owed'[d] = owed[d]
        BY <1>7, <1>11, <2>5 DEF Pay
      <3>2. Listens(d)'
        BY <1>1, <1>9, <2>2, <3>1 DEF Listens
      <3>3. ~Settled(d)
        BY <1>8, <2>1, <2>5 DEF Settled
      <3>4. ASSUME NEW v \in Contents, Approaches(v, d), Position(v) >= owed[d]
            PROVE  Approaches(v, d)'
        <4>1. v # x
          BY <2>5, <3>4
        <4>2. CASE \E i \in DOMAIN down[d] : down[d][i].v = v
          <5>1. \E j \in DOMAIN w : w[j].v = v
            BY <1>6, <1>11, <4>1, <4>2
          <5> QED
            BY <2>3, <5>1 DEF Approaches
        <4>3. CASE \/ busy[d].does = "reply" /\ busy[d].v = v
                   \/ v \in Edits /\ stage[v] = "stored"
                   \/ v \in Edits /\ stage[v] = "publishing" /\ offers[v] \intersect Heard(d) # {}
                   \/ \E l \in Heard(d) : \E i \in DOMAIN queue[l] : queue[l][i] = v
          BY <1>1, <1>9, <4>3 DEF Approaches
        <4> QED
          BY <3>4, <4>2, <4>3 DEF Approaches
      <3> QED
        BY <1>1, <1>8, <1>9, <2>2, <3>1, <3>2, <3>3, <3>4 DEF Coming
    <2> QED
      BY <2>4, <2>5
  <1> QED
    BY <1>10, <1>11

LEMMA NextOwing ==
  ASSUME DInv, [Next]_vars
  PROVE  Owing'
  <1>1. CASE Crash
    BY <1>1 DEF Crash, LosesAll, Owing
  <1>2. ASSUME NEW c \in Pages, Page(c)
        PROVE  Owing'
    BY <1>2, QuietSteps, SubscribeRecordOwes DEF Page, RunEffect, EndRefresh
  <1> QED
    BY <1>1, <1>2, QuietSteps, CommitOwes, PublishOwes, OfferOwes, ServeOwes, ReadFailsOwes,
       UnsubscribeOwes, DeliverOwes, StopOwes, ClientOwes, ReceiveOwes
       DEF Next, Edit, Serve, Client

\* When nothing is under way, what was coming has come.
LEMMA QuietIsSettled == TypeOK /\ Owing => LatestArrives
  <1> SUFFICES ASSUME TypeOK, Owing, NEW c \in Clients, Quiet(c), owed[c] # None
               PROVE  Settled(c)
    BY DEF LatestArrives, Settled
  <1>1. Coming(c)
    BY DEF Owing
  <1>2. ~Asked(c) /\ busy[c].does = "read"
    BY DEF Quiet, Asked, Idle
  <1>3. \A v \in Contents : ~Approaches(v, c)
    <2>1. \A l \in Heard(c) : queue[l] = <<>>
      BY DEF Quiet, Heard
    <2>2. down[c] = <<>> /\ \A e \in Edits : stage[e] \notin {"stored", "publishing"}
      BY DEF Quiet
    <2> QED
      BY <1>2, <2>1, <2>2 DEF Approaches
  <1> QED
    BY <1>1, <1>2, <1>3 DEF Coming

\* For any clients, edits and buffers: when all is quiet, a subscribed document
\* has held the record as it was then and the newest edit announced since, but for
\* the reasons that cancel what it is owed: a full buffer, another client's
\* unsubscription, a lost connection, and a database that could not be read.
THEOREM CollaborationLatestArrives == Spec => []LatestArrives
  <1>1. Init => DInv
    <2>1. Init => SInv
      BY InitSInv
    <2>2. Init => LinesOK /\ Once /\ Owing
      BY DEF Init, LinesOK, Once, Owing
    <2> QED
      BY <2>1, <2>2 DEF DInv
  <1>2. DInv /\ [Next]_vars => DInv'
    <2> SUFFICES ASSUME DInv, [Next]_vars
                 PROVE  DInv'
      OBVIOUS
    <2>1. SInv /\ CInv /\ TInv /\ LinesOK /\ Once
      BY DEF DInv, SInv, CInv
    <2>2. SInv'
      BY <2>1, NextTInv, NextAnnounced, NextShown DEF SInv, CInv
    <2> QED
      BY <2>1, <2>2, NextLinesOK, NextOnce, NextOwing DEF DInv
  <1>3. DInv => LatestArrives
    BY QuietIsSettled DEF DInv, SInv, CInv, TInv
  <1> QED
    BY <1>1, <1>2, <1>3, PTL DEF Spec

=============================================================================
