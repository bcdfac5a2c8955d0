-------------------------- MODULE ShareDBSessions ---------------------------
(***************************************************************************)
(* The WebSocket connections of internal/sharedb/service.go and their      *)
(* subscriptions to internal/sharedb/local_pubsub.go.                      *)
(*                                                                         *)
(* A connection has a read loop, which handles one message at a time.  A   *)
(* subscription is a context, a buffered Go channel and a goroutine that   *)
(* receives from the channel until the context is cancelled.  The list of  *)
(* the Go channels of a document is shared by all connections: Publish     *)
(* reads it under a read lock, the other operations change it under the    *)
(* write lock.  Closing a Go channel twice panics in a goroutine nobody    *)
(* recovers: the process is gone.                                          *)
(***************************************************************************)
EXTENDS Naturals, FiniteSets

CONSTANTS
  Conns,           \* WebSocket connections: a reconnection is another one
  Docs,            \* collection.docID
  Subs,            \* bound: the subscriptions ever made
  Capacity,        \* the buffer of a Go channel, 100
  MaxConnections,  \* maxTotalConnections, 1000
  None

ASSUME SessionAssumption ==
  /\ Capacity \in Nat \ {0}
  /\ MaxConnections \in Nat
  /\ None \notin Conns \union Docs \union Subs

VARIABLES
  phase,       \* where HandleWebSocket is
  listed,      \* s.connections, with IsActive
  busy,        \* what the read loop does
  cancel,      \* subCancelFuncs: the context kept for a document
  owner,       \* of a subscription: its connection
  about,       \*                    its document
  goroutine,   \*                    its goroutine
  buffer,      \*                    how many operations its Go channel holds
  cancelled,   \* subscriptions whose own context is cancelled
  closed,      \* subscriptions whose Go channel is closed
  wholesale,   \* those closed with all the others of their document
  channels,    \* document -> subscriptions registered for it
  sending,     \* what a Publish has yet to offer its operation to
  shutdown,    \* Shutdown: "no", "cancelled", "closed"
  dead         \* a subscription whose channel was closed twice

connVars == <<phase, listed, busy, cancel>>
subVars == <<owner, about, goroutine, buffer>>
chanVars == <<cancelled, closed, wholesale, channels>>
vars == <<connVars, subVars, chanVars, sending, shutdown, dead>>

Idle == [does |-> "read", doc |-> None, sub |-> None]

Busy ==
  [does : {"read", "subscribe", "publish", "exit"}, doc : Docs \union {None},
   sub : Subs \union {None}]

TypeOK ==
  /\ phase \in [Conns -> {"off", "checked", "open", "gone"}]
  /\ listed \subseteq Conns
  /\ busy \in [Conns -> Busy]
  /\ cancel \in [Conns -> [Docs -> Subs \union {None}]]
  /\ owner \in [Subs -> Conns \union {None}]
  /\ about \in [Subs -> Docs \union {None}]
  /\ goroutine \in [Subs -> {"none", "ready", "select", "leave", "done"}]
  /\ buffer \in [Subs -> 0 .. Capacity]
  /\ cancelled \subseteq Subs
  /\ closed \subseteq Subs
  /\ wholesale \subseteq Subs
  /\ channels \in [Docs -> SUBSET Subs]
  /\ sending \in [Conns -> SUBSET Subs]
  /\ shutdown \in {"no", "cancelled", "closed"}
  /\ dead \subseteq Subs

Init ==
  /\ phase = [c \in Conns |-> "off"]
  /\ listed = {}
  /\ busy = [c \in Conns |-> Idle]
  /\ cancel = [c \in Conns |-> [d \in Docs |-> None]]
  /\ owner = [s \in Subs |-> None]
  /\ about = [s \in Subs |-> None]
  /\ goroutine = [s \in Subs |-> "none"]
  /\ buffer = [s \in Subs |-> 0]
  /\ cancelled = {}
  /\ closed = {}
  /\ wholesale = {}
  /\ channels = [d \in Docs |-> {}]
  /\ sending = [c \in Conns |-> {}]
  /\ shutdown = "no"
  /\ dead = {}

\* Publish holds the read lock while it goes through the list.
WriteLock == \A c \in Conns : busy[c].does # "publish"

\* A writer that waits keeps new readers out (sync.RWMutex).
ReadLock ==
  /\ \A c \in Conns : busy[c].does # "subscribe"
  /\ \A s \in Subs : goroutine[s] # "leave"

-----------------------------------------------------------------------------
(* Connections *)

\* At its start and after a message the read loop looks at the service's context.
Resume(c) ==
  busy' = [busy EXCEPT ![c] =
             [Idle EXCEPT !.does = IF shutdown = "no" THEN "read" ELSE "exit"]]

\* The limit is checked on the list ...
Check(c) ==
  /\ phase[c] = "off"
  /\ shutdown = "no"
  /\ phase' = [phase EXCEPT ![c] =
                 IF Cardinality(listed) >= MaxConnections THEN "gone" ELSE "checked"]
  /\ UNCHANGED <<listed, busy, cancel, subVars, chanVars, sending, shutdown, dead>>

\* ... and the connection added to it later.
Register(c) ==
  /\ phase[c] = "checked"
  /\ phase' = [phase EXCEPT ![c] = "open"]
  /\ listed' = listed \union {c}
  /\ Resume(c)
  /\ UNCHANGED <<cancel, subVars, chanVars, sending, shutdown, dead>>

\* cleanupInactiveConnections and ForceCleanupAllConnections take a connection
\* off the list and leave its read loop alone.
Unlist(c) ==
  /\ c \in listed
  /\ listed' = listed \ {c}
  /\ UNCHANGED <<phase, busy, cancel, subVars, chanVars, sending, shutdown, dead>>

\* Seeded fault: the cleanup drops the contexts and cancels none.
LeavesRunning(c) ==
  /\ phase[c] = "open"
  /\ busy[c].does \in {"read", "exit"}
  /\ phase' = [phase EXCEPT ![c] = "gone"]
  /\ listed' = listed \ {c}
  /\ cancel' = [cancel EXCEPT ![c] = [d \in Docs |-> None]]
  /\ UNCHANGED <<busy, subVars, chanVars, sending, shutdown, dead>>

\* The read loop ends: the client has gone, was silent for too long, or the
\* service shuts down.  cleanupConnection cancels every context it has kept.
Leave(c) ==
  /\ phase[c] = "open"
  /\ busy[c].does \in {"read", "exit"}
  /\ phase' = [phase EXCEPT ![c] = "gone"]
  /\ listed' = listed \ {c}
  /\ cancelled' = cancelled \union {s \in Subs : \E d \in Docs : cancel[c][d] = s}
  /\ cancel' = [cancel EXCEPT ![c] = [d \in Docs |-> None]]
  /\ UNCHANGED <<busy, subVars, closed, wholesale, channels, sending, shutdown, dead>>

Reads(c) == phase[c] = "open" /\ busy[c].does = "read"

-----------------------------------------------------------------------------
(* Subscriptions *)

\* Seeded fault: the context of an earlier subscription is kept alive.
SubscribeTwice(c, d, s) ==
  /\ Reads(c)
  /\ goroutine[s] = "none"
  /\ owner' = [owner EXCEPT ![s] = c]
  /\ about' = [about EXCEPT ![s] = d]
  /\ goroutine' = [goroutine EXCEPT ![s] = "ready"]
  /\ cancel' = [cancel EXCEPT ![c][d] = s]
  /\ busy' = [busy EXCEPT ![c] = [Idle EXCEPT !.does = "subscribe", !.doc = d, !.sub = s]]
  /\ UNCHANGED <<phase, listed, buffer, chanVars, sending, shutdown, dead>>

\* handleSubscribe makes a context, cancels the one kept for the document and
\* keeps the new one ...
HandleSubscribe(c, d, s) ==
  /\ Reads(c)
  /\ goroutine[s] = "none"
  /\ owner' = [owner EXCEPT ![s] = c]
  /\ about' = [about EXCEPT ![s] = d]
  /\ goroutine' = [goroutine EXCEPT ![s] = "ready"]
  /\ cancelled' = cancelled \union ({cancel[c][d]} \ {None})
  /\ cancel' = [cancel EXCEPT ![c][d] = s]
  /\ busy' = [busy EXCEPT ![c] = [Idle EXCEPT !.does = "subscribe", !.doc = d, !.sub = s]]
  /\ UNCHANGED <<phase, listed, buffer, closed, wholesale, channels, sending, shutdown, dead>>

\* ... then registers a Go channel and starts its goroutine.
Subscribe(c) ==
  /\ busy[c].does = "subscribe"
  /\ WriteLock
  /\ channels' = [channels EXCEPT ![busy[c].doc] = @ \union {busy[c].sub}]
  /\ goroutine' = [goroutine EXCEPT ![busy[c].sub] = "select"]
  /\ Resume(c)
  /\ UNCHANGED <<phase, listed, cancel, owner, about, buffer, cancelled, closed,
                 wholesale, sending, shutdown, dead>>

\* Seeded fault: the document keeps the list of its closed channels.
KeepsTheList(c, d) ==
  /\ Reads(c)
  /\ WriteLock
  /\ closed' = closed \union channels[d]
  /\ wholesale' = wholesale \union channels[d]
  /\ Resume(c)
  /\ UNCHANGED <<phase, listed, cancel, subVars, cancelled, channels, sending, shutdown, dead>>

\* handleUnsubscribe has the document's channels closed, whosever they are,
\* and keeps its own context.
HandleUnsubscribe(c, d) ==
  /\ Reads(c)
  /\ WriteLock
  /\ closed' = closed \union channels[d]
  /\ wholesale' = wholesale \union channels[d]
  /\ channels' = [channels EXCEPT ![d] = {}]
  /\ Resume(c)
  /\ UNCHANGED <<phase, listed, cancel, subVars, cancelled, sending, shutdown, dead>>

Cancelled(s) == s \in cancelled \/ shutdown # "no"

\* The goroutine's select takes the cancellation ...
Stop(s) ==
  /\ goroutine[s] = "select"
  /\ Cancelled(s)
  /\ goroutine' = [goroutine EXCEPT ![s] = "leave"]
  /\ UNCHANGED <<connVars, owner, about, buffer, chanVars, sending, shutdown, dead>>

\* Seeded fault: a subscriber is removed by its goroutine and once more by others.
LeavesAgain(s) ==
  /\ goroutine[s] = "leave"
  /\ WriteLock
  /\ channels' = [channels EXCEPT ![about[s]] = @ \ {s}]
  /\ closed' = closed \union {s}
  /\ dead' = IF s \in closed THEN {s} ELSE {}
  /\ UNCHANGED <<connVars, subVars, cancelled, wholesale, sending, shutdown>>

\* ... and removeSubscriber closes its channel, in the list or not, provided
\* that the document has a list.
RemoveSubscriber(s) ==
  /\ goroutine[s] = "leave"
  /\ WriteLock
  /\ goroutine' = [goroutine EXCEPT ![s] = "done"]
  /\ buffer' = [buffer EXCEPT ![s] = 0]
  /\ IF channels[about[s]] = {}
       THEN UNCHANGED <<channels, closed, dead>>
       ELSE /\ channels' = [channels EXCEPT ![about[s]] = @ \ {s}]
            /\ closed' = closed \union {s}
            /\ dead' = IF s \in closed THEN {s} ELSE {}
  /\ UNCHANGED <<connVars, owner, about, cancelled, wholesale, sending, shutdown>>

-----------------------------------------------------------------------------
(* Operations *)

\* doHandleOperation publishes the operation: the list is read under the lock.
HandleOperation(c, d) ==
  /\ Reads(c)
  /\ ReadLock
  /\ sending' = [sending EXCEPT ![c] = channels[d]]
  /\ busy' = [busy EXCEPT ![c] = [Idle EXCEPT !.does = "publish", !.doc = d]]
  /\ UNCHANGED <<phase, listed, cancel, subVars, chanVars, shutdown, dead>>

\* Seeded fault: the send waits until the buffer has room.
OfferWaits(c, s) ==
  /\ busy[c].does = "publish"
  /\ s \in sending[c]
  /\ buffer[s] < Capacity
  /\ sending' = [sending EXCEPT ![c] = @ \ {s}]
  /\ buffer' = [buffer EXCEPT ![s] = @ + 1]
  /\ UNCHANGED <<connVars, owner, about, goroutine, chanVars, shutdown, dead>>

\* Seeded fault: what does not fit is queued all the same.
OfferAnyway(c, s) ==
  /\ busy[c].does = "publish"
  /\ s \in sending[c]
  /\ sending' = [sending EXCEPT ![c] = @ \ {s}]
  /\ buffer' = [buffer EXCEPT ![s] = @ + 1]
  /\ UNCHANGED <<connVars, owner, about, goroutine, chanVars, shutdown, dead>>

\* A full buffer is skipped: the subscriber never sees the operation.
Offer(c, s) ==
  /\ busy[c].does = "publish"
  /\ s \in sending[c]
  /\ sending' = [sending EXCEPT ![c] = @ \ {s}]
  /\ buffer' = [buffer EXCEPT ![s] = IF @ < Capacity THEN @ + 1 ELSE @]
  /\ UNCHANGED <<connVars, owner, about, goroutine, chanVars, shutdown, dead>>

\* The end of the list, or of the service: the lock is released.
EndPublish(c) ==
  /\ busy[c].does = "publish"
  /\ sending[c] = {} \/ shutdown # "no"
  /\ sending' = [sending EXCEPT ![c] = {}]
  /\ Resume(c)
  /\ UNCHANGED <<phase, listed, cancel, subVars, chanVars, shutdown, dead>>

\* The goroutine's select takes an operation, cancelled or not, and the handler
\* writes it to the socket, if that is alive.  A closed channel is drained
\* first; then it yields nil for ever, which is ignored.
Deliver(s) ==
  /\ goroutine[s] = "select"
  /\ buffer[s] > 0
  /\ buffer' = [buffer EXCEPT ![s] = @ - 1]
  /\ UNCHANGED <<connVars, owner, about, goroutine, chanVars, sending, shutdown, dead>>

-----------------------------------------------------------------------------
(* Shutdown *)

CancelService ==
  /\ shutdown = "no"
  /\ shutdown' = "cancelled"
  /\ UNCHANGED <<connVars, subVars, chanVars, sending, dead>>

\* LocalPubSub.Close.
ClosePubSub ==
  /\ shutdown = "cancelled"
  /\ WriteLock
  /\ shutdown' = "closed"
  /\ closed' = closed \union UNION {channels[d] : d \in Docs}
  /\ wholesale' = wholesale \union UNION {channels[d] : d \in Docs}
  /\ channels' = [d \in Docs |-> {}]
  /\ UNCHANGED <<connVars, subVars, cancelled, sending, dead>>

-----------------------------------------------------------------------------
Connection(c) == Check(c) \/ Register(c) \/ Unlist(c) \/ Leave(c)

Message(c) ==
  \E d \in Docs :
    \/ \E s \in Subs : HandleSubscribe(c, d, s)
    \/ HandleUnsubscribe(c, d)
    \/ HandleOperation(c, d)

Handling(c) == Subscribe(c) \/ (\E s \in Subs : Offer(c, s)) \/ EndPublish(c)

Goroutine(s) == Stop(s) \/ RemoveSubscriber(s) \/ Deliver(s)

Next ==
  /\ dead = {}
  /\ \/ \E c \in Conns : Connection(c) \/ Message(c) \/ Handling(c)
     \/ \E s \in Subs : Goroutine(s)
     \/ CancelService
     \/ ClosePubSub

Spec == Init /\ [][Next]_vars

\* Handlers and goroutines go on, and who waits for the lock gets it when it is
\* free.  select chooses at random: it does not ignore a cancellation for ever.
Fairness ==
  /\ \A c \in Conns : WF_vars(dead = {} /\ Handling(c))
  /\ \A s \in Subs : WF_vars(dead = {} /\ Stop(s))
  /\ \A s \in Subs : WF_vars(dead = {} /\ RemoveSubscriber(s))

FairSpec == Spec /\ Fairness

-----------------------------------------------------------------------------
(* Properties *)

\* Publish never sends on a closed Go channel, which would panic: those it has
\* yet to offer the operation to are open, whatever other connections do.
PublishesToOpenChannels ==
  \A c \in Conns : sending[c] \intersect closed = {}

\* The process dies of a channel closed twice only after an unsubscription or
\* the shutdown has closed the channels of a whole document.
DiesOnlyOfWholesaleClose == dead \subseteq wholesale

\* However often a client subscribes to a document, one of its registered
\* subscriptions at most goes on: the one whose cancel function is kept.
OneSubscriptionPerDoc ==
  \A c \in Conns, d \in Docs :
    \A s \in channels[d] :
      owner[s] = c /\ s \notin cancelled => cancel[c][d] = s

\* No subscription is forgotten: one whose context has not been cancelled is that
\* of an open connection, which keeps the context until it subscribes again or
\* ends, whoever else unsubscribes, publishes or is taken off the list.
NoneForgotten ==
  \A s \in Subs :
    goroutine[s] # "none" /\ s \notin cancelled =>
      /\ owner[s] \in Conns
      /\ about[s] \in Docs
      /\ phase[owner[s]] = "open"
      /\ cancel[owner[s]][about[s]] = s

\* When a connection has gone, or the service has shut down, the goroutines of
\* its subscriptions end and no document lists them any more.  (They need the
\* write lock: a publisher must not wait for one of them.)
SubscriptionsEnd ==
  \A s \in Subs :
    (\E c \in Conns :
       owner[s] = c /\ goroutine[s] = "select" /\ (phase[c] = "gone" \/ shutdown # "no"))
      ~> \/ dead # {}
         \/ goroutine[s] = "done" /\ \A d \in Docs : s \notin channels[d]
=============================================================================
