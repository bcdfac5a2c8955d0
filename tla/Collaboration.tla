---------------------------- MODULE Collaboration ----------------------------
(***************************************************************************)
(* One record edited and watched by several clients: the grid              *)
(* (EasyGridView, use-sharedb-sync, sharedbService), the SDK's document    *)
(* and connection (ShareDBDoc, ShareDBConnection), and what the server     *)
(* does with their messages (sharedb/service.go, local_pubsub.go) and with *)
(* the edits (RecordService).                                              *)
(*                                                                         *)
(* An edit of a cell is shown, then sent as a batch of one; an edit of     *)
(* another kind (Single: an update of one record over the API) is announced*)
(* after its commit.  Whatever sets the rows of a page has it subscribe    *)
(* again, and take the data of its documents again.  An announcement holds *)
(* all the fields of the record, so that a value stands for the record: it *)
(* is the edit that wrote it last.  Messages of a connection stay in order;*)
(* a snapshot, an announcement and an answer to a request travel apart.    *)
(***************************************************************************)
EXTENDS Naturals, Sequences

CONSTANTS
  Clients,   \* grids in a browser, and other programs that use the SDK
  Pages,     \* the grids
  Edits,     \* bound: the edits ever made
  Single,    \* those sent as the update of one record
  Capacity,  \* the buffer of a subscription, 100
  MaxLines,  \* bound: the subscriptions the server makes for a client in its life
  MaxEvents, \* bound: what users, the network and the server's host do in all
  Origin,    \* what the record holds at first
  NoData,    \* a document that has got no data yet (null)
  Empty,     \* data without fields: a row keeps what it shows
  None

Values == Edits \union {Origin}
Contents == Values \union {Empty}
NoValues == {NoData, Empty, None}
Lines == UNION {{c} \X (1 .. MaxLines[c]) : c \in Clients}

ASSUME CollaborationAssumption ==
  /\ Single \subseteq Edits
  /\ Pages \subseteq Clients
  /\ Capacity \in Nat \ {0}
  /\ MaxLines \in [Clients -> Nat]
  /\ MaxEvents \in Nat
  /\ Origin \notin Edits
  /\ NoValues \intersect Values = {} /\ NoData # Empty
  /\ None \notin Clients

VARIABLES
  log,        \* the committed edits, in order
  stage,      \* what has become of an edit
  author,     \* the page that awaits the answer to an edit of a cell
  before,     \* what its row showed when it was made
  offers,     \* the subscriptions a publication has yet to offer its edit to
  conn,       \* is the client connected?
  up,         \* messages on their way to the server
  down,       \* messages on their way to the client
  busy,       \* what the connection's read loop does
  made,       \* how many subscriptions the server has made for a client
  listed,     \* subscriptions in the list of the document
  live,       \* those whose goroutine runs
  cancelled,  \* of those that run: the context is cancelled,
  closed,     \* the Go channel is closed,
  gone,       \* the connection was lost
  queue,      \* the operations in their Go channels
  subscribed, \* ShareDBDoc.subscribed
  timed,      \* documents that get empty data when none has come in 3 seconds
  data,       \* ShareDBDoc._data
  reading,    \* a document event has yet to be brought to the row
  shown,      \* what the row shows
  local,      \* the page has written the row since it last took a document's data
  rendered,   \* the rows were set: the effect that subscribes has yet to run
  refreshing, \* refreshSubscriptions has yet to subscribe
  owed,       \* history: the place of the newest value the document has yet to get,
              \* 0 when it has; None when nothing is promised any more
  events      \* what users, the network and the host have done so far

editVars == <<log, stage, author, before>>
lineVars == <<made, listed, live, cancelled, closed, gone, queue>>
wireVars == <<conn, up, down, busy>>
docVars == <<subscribed, timed, data, reading>>
rowVars == <<shown, local, rendered, refreshing>>
vars == <<editVars, offers, lineVars, wireVars, docVars, rowVars, owed, events>>

Idle == [does |-> "read", v |-> None]
Message == [a : {"s", "op"}, v : Contents]

TypeOK ==
  /\ log \in Seq(Edits)
  /\ stage \in [Edits -> {"new", "sent", "refused", "stored", "publishing", "done"}]
  /\ author \in [Edits -> Pages \union {None}]
  /\ before \in [Edits -> Values \union {None}]
  /\ offers \in [Edits -> SUBSET Lines]
  /\ conn \in [Clients -> BOOLEAN]
  /\ up \in [Clients -> Seq({"s", "us"})]
  /\ down \in [Clients -> Seq(Message)]
  /\ busy \in [Clients -> [does : {"read", "register", "snapshot", "reply"},
                           v : Contents \union {None}]]
  /\ made \in [Clients -> Nat]
  /\ listed \subseteq Lines /\ live \subseteq Lines /\ cancelled \subseteq Lines
  /\ closed \subseteq Lines /\ gone \subseteq Lines
  /\ queue \in [Lines -> Seq(Edits)]
  /\ subscribed \in [Clients -> BOOLEAN]
  /\ timed \subseteq Clients
  /\ data \in [Clients -> Contents \union {NoData}]
  /\ reading \subseteq Pages
  /\ shown \in [Pages -> Values]
  /\ local \subseteq Pages /\ rendered \subseteq Pages /\ refreshing \subseteq Pages
  /\ owed \in [Clients -> Nat \union {None}]
  /\ events \in 0 .. MaxEvents

\* A page has loaded its rows and its connection is open: it will subscribe.
Init ==
  /\ log = <<>>
  /\ stage = [e \in Edits |-> "new"]
  /\ author = [e \in Edits |-> None]
  /\ before = [e \in Edits |-> None]
  /\ offers = [e \in Edits |-> {}]
  /\ conn = [c \in Clients |-> TRUE]
  /\ up = [c \in Clients |-> <<>>]
  /\ down = [c \in Clients |-> <<>>]
  /\ busy = [c \in Clients |-> Idle]
  /\ made = [c \in Clients |-> 0]
  /\ listed = {} /\ live = {} /\ cancelled = {} /\ closed = {} /\ gone = {}
  /\ queue = [l \in Lines |-> <<>>]
  /\ subscribed = [c \in Clients |-> FALSE]
  /\ timed = {}
  /\ data = [c \in Clients |-> NoData]
  /\ reading = {}
  /\ shown = [c \in Pages |-> Origin]
  /\ local = Pages
  /\ rendered = Pages
  /\ refreshing = {}
  /\ owed = [c \in Clients |-> None]
  /\ events = 0

Record == IF log = <<>> THEN Origin ELSE log[Len(log)]

Committed == {log[i] : i \in DOMAIN log}

\* The place of a value: the first is that of Origin, or of no fields at all.
Position(v) == IF v \in Committed THEN 1 + CHOOSE i \in DOMAIN log : log[i] = v ELSE 1

\* Documents owed something are owed the edit that is stored now.
Owe(p) == [c \in Clients |-> IF owed[c] = None THEN None ELSE p]

\* A value that new or newer settles it.
Pay(c, v) ==
  IF owed[c] # None /\ Position(v) >= owed[c] THEN [owed EXCEPT ![c] = 0] ELSE owed

Happens == events < MaxEvents /\ events' = events + 1

\* Publish holds the read lock of the list while it goes through it.
WriteLock == \A e \in Edits : stage[e] # "publishing"

-----------------------------------------------------------------------------
(* Edits *)

\* setData: the rows are rendered again.
SetRow(c, v) ==
  /\ shown' = [shown EXCEPT ![c] = v]
  /\ rendered' = rendered \union {c}

\* onDataChange keeps the old rows, shows the new ones and sends the batch.
EditCell(c, e) ==
  /\ stage[e] = "new"
  /\ e \notin Single
  /\ Happens
  /\ stage' = [stage EXCEPT ![e] = "sent"]
  /\ author' = [author EXCEPT ![e] = c]
  /\ before' = [before EXCEPT ![e] = shown[c]]
  /\ SetRow(c, e)
  /\ local' = local \union {c}
  /\ UNCHANGED <<log, offers, lineVars, wireVars, docVars, refreshing, owed>>

\* UpdateRecord leaves its announcement for after the commit;
\* BatchUpdateRecords has none to leave.
Commit(e) ==
  /\ IF e \in Single THEN stage[e] = "new" /\ Happens
                     ELSE stage[e] = "sent" /\ UNCHANGED events
  /\ log' = Append(log, e)
  /\ stage' = [stage EXCEPT ![e] = IF e \in Single THEN "stored" ELSE "done"]
  /\ owed' = IF e \in Single THEN Owe(Len(log) + 2) ELSE owed
  /\ UNCHANGED <<author, before, offers, lineVars, wireVars, docVars, rowVars>>

\* The server rejects the edit, or the request does not reach it.
Refuse(e) ==
  /\ stage[e] = "sent"
  /\ stage' = [stage EXCEPT ![e] = "refused"]
  /\ UNCHANGED <<log, author, before, offers, lineVars, wireVars, docVars, rowVars, owed, events>>

\* The page learns of the success, and does nothing about it.
Answer(e) ==
  /\ author[e] # None
  /\ stage[e] = "done"
  /\ author' = [author EXCEPT ![e] = None]
  /\ UNCHANGED <<log, stage, before, offers, lineVars, wireVars, docVars, rowVars, owed, events>>

\* Seeded fault: the failure of an edit is reported and the row stays.
FailsOnlyReported(e) ==
  /\ author[e] # None
  /\ author' = [author EXCEPT ![e] = None]
  /\ UNCHANGED <<log, stage, before, offers, lineVars, wireVars, docVars, rowVars, owed, events>>

\* It learns of a failure, or the answer does not reach it (the edit may be
\* stored nevertheless, or be stored later): setData(oldData).
Fail(e) ==
  /\ author[e] # None
  /\ author' = [author EXCEPT ![e] = None]
  /\ SetRow(author[e], before[e])
  /\ local' = local \union {author[e]}
  /\ UNCHANGED <<log, stage, before, offers, lineVars, wireVars, docVars, refreshing, owed,
                 events>>

-----------------------------------------------------------------------------
(* Announcements *)

\* Seeded fault: an update is announced from inside its transaction.
AnnouncesBeforeCommit(e) ==
  /\ stage[e] \in {"new", "stored"}
  /\ e \in Single
  /\ stage' = [stage EXCEPT ![e] = "publishing"]
  /\ offers' = [offers EXCEPT ![e] = listed]
  /\ UNCHANGED <<log, author, before, lineVars, wireVars, docVars, rowVars, owed, events>>

\* publishRecordEvent, called after the commit: PublishOp reads the list ...
\* (The operations it broadcasts first have neither oi nor od and change no field.)
Publish(e) ==
  /\ stage[e] = "stored"
  /\ stage' = [stage EXCEPT ![e] = "publishing"]
  /\ offers' = [offers EXCEPT ![e] = listed]
  /\ UNCHANGED <<log, author, before, lineVars, wireVars, docVars, rowVars, owed, events>>

\* ... and offers the operation to each subscription; a full one is skipped.
Offer(e, l) ==
  /\ stage[e] = "publishing"
  /\ l \in offers[e]
  /\ offers' = [offers EXCEPT ![e] = @ \ {l}]
  /\ IF Len(queue[l]) < Capacity
       THEN /\ queue' = [queue EXCEPT ![l] = Append(@, e)]
            /\ UNCHANGED owed
       ELSE /\ owed' = IF l \in cancelled THEN owed ELSE [owed EXCEPT ![l[1]] = None]
            /\ UNCHANGED queue
  /\ UNCHANGED <<editVars, made, listed, live, cancelled, closed, gone, wireVars,
                 docVars, rowVars, events>>

\* Seeded fault: a publication that nobody listens to keeps the lock.
EndsForListeners(e) ==
  /\ stage[e] = "publishing"
  /\ offers[e] = {} /\ listed # {}
  /\ stage' = [stage EXCEPT ![e] = "done"]
  /\ UNCHANGED <<log, author, before, offers, lineVars, wireVars, docVars, rowVars, owed, events>>

EndPublish(e) ==
  /\ stage[e] = "publishing"
  /\ offers[e] = {}
  /\ stage' = [stage EXCEPT ![e] = "done"]
  /\ UNCHANGED <<log, author, before, offers, lineVars, wireVars, docVars, rowVars, owed, events>>

-----------------------------------------------------------------------------
(* The server's side of a connection *)

LinesOf(c) == {l \in live : l[1] = c}

\* handleSubscribe cancels the subscription the connection has ...
TakeSubscribe(c) ==
  /\ busy[c] = Idle
  /\ up[c] # <<>> /\ Head(up[c]) = "s"
  /\ up' = [up EXCEPT ![c] = Tail(@)]
  /\ busy' = [busy EXCEPT ![c] = [Idle EXCEPT !.does = "register"]]
  /\ cancelled' = cancelled \union LinesOf(c)
  /\ UNCHANGED <<editVars, offers, made, listed, live, closed, gone, queue, conn, down,
                 docVars, rowVars, owed, events>>

\* Seeded fault: the list of the document is replaced by the new subscription.
RegistersAlone(c) ==
  /\ busy[c].does = "register"
  /\ made[c] < MaxLines[c]
  /\ WriteLock
  /\ made' = [made EXCEPT ![c] = @ + 1]
  /\ listed' = {<<c, made[c] + 1>>}
  /\ live' = live \union {<<c, made[c] + 1>>}
  /\ busy' = [busy EXCEPT ![c] = [Idle EXCEPT !.does = "snapshot"]]
  /\ UNCHANGED <<editVars, offers, cancelled, closed, gone, queue, conn, up, down,
                 docVars, rowVars, owed, events>>

\* ... registers a new one ...
Register(c) ==
  /\ busy[c].does = "register"
  /\ made[c] < MaxLines[c]
  /\ WriteLock
  /\ made' = [made EXCEPT ![c] = @ + 1]
  /\ listed' = listed \union {<<c, made[c] + 1>>}
  /\ live' = live \union {<<c, made[c] + 1>>}
  /\ busy' = [busy EXCEPT ![c] = [Idle EXCEPT !.does = "snapshot"]]
  /\ UNCHANGED <<editVars, offers, cancelled, closed, gone, queue, conn, up, down,
                 docVars, rowVars, owed, events>>

\* ... reads the record ...
ReadSnapshot(c) ==
  /\ busy[c].does = "snapshot"
  /\ busy' = [busy EXCEPT ![c] = [does |-> "reply", v |-> Record]]
  /\ UNCHANGED <<editVars, offers, lineVars, conn, up, down, docVars, rowVars, owed, events>>

\* (or the database fails, and the snapshot is an empty one of version 0, which
\* brings nothing that was stored before) ...
ReadFails(c) ==
  /\ busy[c].does = "snapshot"
  /\ Happens
  /\ busy' = [busy EXCEPT ![c] = [does |-> "reply", v |-> Empty]]
  /\ owed' = [owed EXCEPT ![c] = IF @ = None THEN None ELSE 1]
  /\ UNCHANGED <<editVars, offers, lineVars, conn, up, down, docVars, rowVars>>

\* ... and sends it.
Reply(c) ==
  /\ busy[c].does = "reply"
  /\ down' = [down EXCEPT ![c] = Append(@, [a |-> "s", v |-> busy[c].v])]
  /\ busy' = [busy EXCEPT ![c] = Idle]
  /\ UNCHANGED <<editVars, offers, lineVars, conn, up, docVars, rowVars, owed, events>>

\* handleUnsubscribe closes the Go channels of the document, whosever they are.
TakeUnsubscribe(c) ==
  /\ busy[c] = Idle
  /\ up[c] # <<>> /\ Head(up[c]) = "us"
  /\ WriteLock
  /\ up' = [up EXCEPT ![c] = Tail(@)]
  /\ closed' = closed \union listed
  /\ listed' = {}
  /\ owed' = [o \in Clients |->
                IF o # c /\ (\E l \in listed \ cancelled : l[1] = o) THEN None ELSE owed[o]]
  /\ UNCHANGED <<editVars, offers, made, live, cancelled, gone, queue, conn, down, busy,
                 docVars, rowVars, events>>

\* A subscription's goroutine takes an operation and writes it to the socket,
\* when the connection is still there.
Deliver(l) ==
  /\ l \in live
  /\ queue[l] # <<>>
  /\ queue' = [queue EXCEPT ![l] = Tail(@)]
  /\ down' = IF l \in gone THEN down
             ELSE [down EXCEPT ![l[1]] = Append(@, [a |-> "op", v |-> Head(queue[l])])]
  /\ UNCHANGED <<editVars, offers, made, listed, live, cancelled, closed, gone, conn, up,
                 busy, docVars, rowVars, owed, events>>

\* The clients' connections and the server's memory are lost.
LosesAll ==
  /\ conn' = [c \in Clients |-> FALSE]
  /\ up' = [c \in Clients |-> <<>>]
  /\ down' = [c \in Clients |-> <<>>]
  /\ busy' = [c \in Clients |-> Idle]
  /\ listed' = {} /\ live' = {} /\ cancelled' = {} /\ closed' = {} /\ gone' = {}
  /\ queue' = [l \in Lines |-> <<>>]
  /\ offers' = [e \in Edits |-> {}]
  /\ stage' = [e \in Edits |-> CASE stage[e] \in {"stored", "publishing"} -> "done"
                                 [] stage[e] = "sent" -> "refused"
                                 [] OTHER -> stage[e]]
  /\ owed' = [c \in Clients |-> None]
  /\ UNCHANGED <<log, author, before, made, docVars, rowVars>>

\* A goroutine whose context is cancelled ends: removeSubscriber closes its Go
\* channel when the document has a list.  Closing one that an unsubscription
\* has closed before panics, and the process is started again.
Stop(l) ==
  /\ l \in live \intersect cancelled
  /\ WriteLock
  /\ IF l \in closed /\ listed # {}
       THEN LosesAll
       ELSE /\ listed' = listed \ {l}
            /\ live' = live \ {l}
            /\ cancelled' = cancelled \ {l}
            /\ closed' = closed \ {l}
            /\ gone' = gone \ {l}
            /\ queue' = [queue EXCEPT ![l] = <<>>]
            /\ UNCHANGED <<editVars, offers, made, wireVars, docVars, rowVars, owed>>
  /\ UNCHANGED events

\* The server is started again for another reason.
Crash ==
  /\ Happens
  /\ LosesAll

\* A connection is lost.  Its read loop ends after the message it handles, and
\* cleanupConnection cancels what the connection has.
Cut(c) ==
  /\ conn[c]
  /\ busy[c] = Idle
  /\ Happens
  /\ conn' = [conn EXCEPT ![c] = FALSE]
  /\ up' = [up EXCEPT ![c] = <<>>]
  /\ down' = [down EXCEPT ![c] = <<>>]
  /\ cancelled' = cancelled \union LinesOf(c)
  /\ gone' = gone \union LinesOf(c)
  /\ owed' = [owed EXCEPT ![c] = None]
  /\ UNCHANGED <<editVars, offers, made, listed, live, closed, queue, busy, docVars,
                 rowVars>>

-----------------------------------------------------------------------------
(* The client *)

\* An event of a document: its page will bring it to the row.
Notify(c) == reading \union ({c} \intersect Pages)

\* ShareDBDoc.subscribe: without a connection the message is dropped, and the
\* document is subscribed nevertheless.
SubscribeDoc(c) ==
  /\ conn[c] => made[c] + Len(up[c]) < MaxLines[c]
  /\ subscribed' = [subscribed EXCEPT ![c] = TRUE]
  /\ timed' = timed \union {c}
  /\ up' = IF conn[c] THEN [up EXCEPT ![c] = Append(@, "s")] ELSE up
  /\ owed' = IF conn[c] THEN [owed EXCEPT ![c] = Len(log) + 1] ELSE owed

\* A program that uses the SDK subscribes.
Subscribe(c) ==
  /\ c \notin Pages
  /\ ~subscribed[c]
  /\ Happens
  /\ SubscribeDoc(c)
  /\ UNCHANGED <<editVars, offers, lineVars, conn, down, busy, data, reading, rowVars>>

\* subscribeRecord of a page, which does nothing without a connection.  The data
\* the document has are brought to the row at once, subscribed before or not.
SubscribeRecord(c) ==
  /\ \/ conn[c] /\ ~subscribed[c] /\ SubscribeDoc(c)
     \/ ~(conn[c] /\ ~subscribed[c]) /\ UNCHANGED <<subscribed, timed, up, owed>>
  /\ reading' = IF conn[c] /\ data[c] # NoData THEN Notify(c) ELSE reading
  /\ UNCHANGED <<editVars, offers, lineVars, conn, down, busy, data, shown, local, events>>

\* The effect of use-sharedb-sync that runs after every change of the rows.
RunEffect(c) ==
  /\ c \in rendered
  /\ rendered' = rendered \ {c}
  /\ SubscribeRecord(c)
  /\ UNCHANGED refreshing

\* refreshSubscriptions goes on after 50 milliseconds.
EndRefresh(c) ==
  /\ c \in refreshing
  /\ refreshing' = refreshing \ {c}
  /\ SubscribeRecord(c)
  /\ UNCHANGED rendered

\* A program unsubscribes; a page does as another row comes or goes
\* (refreshSubscriptions).  Without a connection the message is dropped.
Unsubscribe(c) ==
  /\ subscribed[c]
  /\ c \notin refreshing
  /\ Happens
  /\ subscribed' = [subscribed EXCEPT ![c] = FALSE]
  /\ up' = IF conn[c] THEN [up EXCEPT ![c] = Append(@, "us")] ELSE up
  /\ owed' = [owed EXCEPT ![c] = None]
  /\ rendered' = rendered \union ({c} \intersect Pages)
  /\ refreshing' = refreshing \union ({c} \intersect Pages)
  /\ UNCHANGED <<editVars, offers, lineVars, conn, down, busy, timed, data, reading, shown,
                 local>>

\* Seeded fault: the data of a subscription are kept and its listeners not told.
LoadsQuietly(c) ==
  /\ down[c] # <<>>
  /\ data' = [data EXCEPT ![c] = Head(down[c]).v]
  /\ owed' = Pay(c, Head(down[c]).v)
  /\ reading' = IF Head(down[c]).a = "op" THEN Notify(c) ELSE reading
  /\ down' = [down EXCEPT ![c] = Tail(@)]
  /\ UNCHANGED <<editVars, offers, lineVars, conn, up, busy, subscribed, timed, rowVars, events>>

\* handleMessage, subscribed or not, and whatever the version of the message.
Receive(c) ==
  /\ down[c] # <<>>
  /\ data' = [data EXCEPT ![c] = Head(down[c]).v]
  /\ owed' = Pay(c, Head(down[c]).v)
  /\ reading' = Notify(c)
  /\ down' = [down EXCEPT ![c] = Tail(@)]
  /\ UNCHANGED <<editVars, offers, lineVars, conn, up, busy, subscribed, timed, rowVars, events>>

\* subscribe has waited 3 seconds for data.
LoadTimeout(c) ==
  /\ c \in timed
  /\ data[c] = NoData
  /\ data' = [data EXCEPT ![c] = Empty]
  /\ reading' = Notify(c)
  /\ UNCHANGED <<editVars, offers, lineVars, wireVars, subscribed, timed, rowVars, owed, events>>

\* Seeded fault: the document's data replace the row.
RowReplaced(c) ==
  /\ c \in reading
  /\ reading' = reading \ {c}
  /\ SetRow(c, data[c])
  /\ local' = local \ {c}
  /\ UNCHANGED <<editVars, offers, lineVars, wireVars, subscribed, timed, data, refreshing, owed,
                 events>>

\* handleDocumentUpdate, a frame later: the row takes the fields that the document
\* has by then.
ReadRow(c) ==
  /\ c \in reading
  /\ reading' = reading \ {c}
  /\ SetRow(c, IF data[c] = Empty THEN shown[c] ELSE data[c])
  /\ local' = IF data[c] = Empty THEN local ELSE local \ {c}
  /\ UNCHANGED <<editVars, offers, lineVars, wireVars, subscribed, timed, data, refreshing, owed,
                 events>>

\* ReconnectingWebSocket, outside of a browser.  The documents are still
\* subscribed, to their knowledge.
Reopen(c) ==
  /\ c \notin Pages
  /\ ~conn[c]
  /\ conn' = [conn EXCEPT ![c] = TRUE]
  /\ UNCHANGED <<editVars, offers, lineVars, up, down, busy, docVars, rowVars, owed, events>>

\* The user loads the page again: new rows, documents and connection.
Reload(c) ==
  /\ ~conn[c]
  /\ conn' = [conn EXCEPT ![c] = TRUE]
  /\ author' = [e \in Edits |-> IF author[e] = c THEN None ELSE author[e]]
  /\ subscribed' = [subscribed EXCEPT ![c] = FALSE]
  /\ timed' = timed \ {c}
  /\ data' = [data EXCEPT ![c] = NoData]
  /\ reading' = reading \ {c}
  /\ SetRow(c, Record)
  /\ local' = local \union {c}
  /\ refreshing' = refreshing \ {c}
  /\ UNCHANGED <<log, stage, before, offers, lineVars, up, down, busy, owed, events>>

-----------------------------------------------------------------------------
Edit(e) ==
  \/ \E c \in Pages : EditCell(c, e)
  \/ Commit(e) \/ Refuse(e) \/ Answer(e) \/ Fail(e)
  \/ Publish(e) \/ (\E l \in Lines : Offer(e, l)) \/ EndPublish(e)

Serve(c) ==
  \/ TakeSubscribe(c) \/ Register(c) \/ ReadSnapshot(c) \/ ReadFails(c) \/ Reply(c)
  \/ TakeUnsubscribe(c)

Client(c) ==
  \/ Subscribe(c) \/ Unsubscribe(c) \/ Receive(c) \/ LoadTimeout(c)
  \/ Cut(c) \/ Reopen(c)

Page(c) == RunEffect(c) \/ EndRefresh(c) \/ ReadRow(c) \/ Reload(c)

Next ==
  \/ \E e \in Edits : Edit(e)
  \/ \E c \in Clients : Serve(c) \/ Client(c)
  \/ \E c \in Pages : Page(c)
  \/ \E l \in Lines : Deliver(l) \/ Stop(l)
  \/ Crash

Spec == Init /\ [][Next]_vars

Progress ==
  \/ \E e \in Edits : Publish(e) \/ (\E l \in Lines : Offer(e, l)) \/ EndPublish(e)
  \/ \E c \in Clients : Serve(c) \/ Receive(c)
  \/ \E l \in Lines : Deliver(l)

\* The server's handlers and goroutines go on, and a client takes its messages.
\* What users do, and what the network loses, is not owed.  (One condition for
\* all is enough: what there is to do without new events comes to an end.)
FairSpec == Spec /\ WF_vars(Progress)

-----------------------------------------------------------------------------
(* Properties *)

\* Nothing of the client is under way.
Quiet(c) ==
  /\ up[c] = <<>> /\ down[c] = <<>> /\ busy[c] = Idle
  /\ \A e \in Edits : stage[e] \notin {"stored", "publishing"}
  /\ \A l \in LinesOf(c) : queue[l] = <<>>

\* The client's document has had what it is owed.
Settled(c) == owed[c] \in {None, 0}

\* When all is quiet, a subscribed document is owed nothing: since it was subscribed
\* it has held the newest edit announced, and it has held the record as it was then.
\* The subscription and its snapshot leave no gap, whatever cancels, registers again
\* and publishes meanwhile; an operation is missed only for a full buffer, another
\* client's unsubscription or a lost connection, and what was stored before a
\* snapshot only because the database could not be read for it.
LatestArrives == \A c \in Clients : Quiet(c) => Settled(c)

\* A document holds only what was committed, or nothing: an announcement follows
\* its commit, and a snapshot is what the database holds, or empty.
HoldsCommitted == \A c \in Clients : data[c] \in Committed \union {Origin, Empty, NoData}

\* Whatever a page writes into a row, the row goes back to its document, old as that
\* may be, and every load and operation gets there, deferred as it is: they differ
\* only while an event is on its way to the row, or because the page has written the
\* row since and has yet to subscribe again, or no connection to do it.
RowFollowsDocument ==
  \A c \in Pages : data[c] \in Values /\ shown[c] # data[c] =>
    c \in reading \/ (c \in local /\ (c \in rendered \/ ~conn[c]))

\* An edit that was refused, and whose page knows, is not on the screen, unless
\* another edit had been made on top of it.
RefusedEditIsRemoved ==
  \A e \in Edits : stage[e] = "refused" /\ author[e] = None =>
    \A c \in Pages : shown[c] = e => \E f \in Edits : before[f] = e

\* Again and again no document is owed anything: an edit announced to a subscribed
\* one gets there, or one of the reasons of LatestArrives keeps it away, or the
\* client gives the document up.
AnnouncedEditsArrive == []<>(\A c \in Clients : Settled(c))

\* FEATURES-OVERVIEW.md: operations are synchronised to all clients in real time.
\* When all is quiet, a subscribed document holds the record, but for a failed read.
DocumentsHoldTheRecord ==
  \A c \in Clients : conn[c] /\ subscribed[c] /\ Quiet(c) => data[c] \in {Record, Empty}
=============================================================================
