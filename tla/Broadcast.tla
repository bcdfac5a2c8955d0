------------------------------ MODULE Broadcast ------------------------------
(***************************************************************************)
(* What the server tells those who listen for server-sent events: the      *)
(* business event manager (events/business_event.go), which also passes    *)
(* its events through Redis and gets them back, and the SSE manager and    *)
(* broker (realtime/sse.go), its one subscriber.                           *)
(*                                                                         *)
(* A connection is an SSEClient: the object a handler makes for a request. *)
(* Its id is chosen by the browser, which uses it again when it            *)
(* reconnects; the manager and the broker know a client by its id.         *)
(***************************************************************************)
EXTENDS Naturals, Sequences

CONSTANTS
  Conns,      \* connections
  Ids,        \* client ids
  Channels,   \* "table:...", "record:...", "global"
  Targets,    \* the channels an event is broadcast to, in order
  MaxPublished, \* bound: the events ever published
  Requests,   \* bound: the requests that set the subscriptions of a client
  Redis,      \* is there one?
  Starts,     \* how things may be at first: the ids that connections give; those
              \* that listen to every channel; those that are lost and replaced;
              \* those that are there; what has happened
  BusSize,    \* the buffer of a subscription of business events, 100
  QueueSize,  \* the buffer of a connection, 100
  MaxHappens, \* bound: what browsers, the network and the host do in all
  None

\* Events bear the order in which their publication begins.
Events == 1 .. MaxPublished

ASSUME BroadcastAssumption ==
  /\ MaxPublished \in Nat
  /\ Targets \in [Events -> Seq(Channels)]
  /\ Redis \in BOOLEAN
  /\ Starts \subseteq [ids : [Conns -> Ids], early : SUBSET Conns,
                        lost : SUBSET Conns, here : SUBSET Conns, happened : 0 .. MaxHappens]
  /\ \A s \in Starts :
       /\ s.early \subseteq s.here \union s.lost
       /\ \A c \in s.early : \E d \in s.here : s.ids[c] = s.ids[d]
       /\ \A C \in {s.early, s.here} : \A c, d \in C : s.ids[c] = s.ids[d] => c = d
  /\ BusSize \in Nat \ {0}
  /\ QueueSize \in Nat \ {0}
  /\ MaxHappens \in Nat
  /\ None \notin Conns \union Events \union Channels

VARIABLES
  stage,      \* how far the publication of an event is
  redis,      \* messages on their way from Redis to this server
  relaying,   \* the Redis subscriber runs
  bus,        \* the Go channel of the SSE manager's subscription
  open,       \* that channel is open, and among the subscribers
  caster,     \* what the SSE manager's goroutine broadcasts
  idOf,       \* SSEClient.ID
  phase,      \* of a connection
  registered, \* SSEBroker.clients, by id
  lists,      \* SSEBroker.channels: the clients of a channel, by id
  wants,      \* SSEClient.Channels
  active,     \* SSEClient.IsActive
  queue,      \* SSEClient.Channel
  request,    \* what a request that sets subscriptions does
  stopping,   \* the server is shutting down: has got as far as ...
  closed,     \* connections whose Go channel is closed
  dead,       \* what has ended the process
  happened,   \* what browsers, the network and the host have done so far
  due,        \* history: the events that began while a connection was listed and
              \* are to be written to it, unless it has lost its place since,
  heard,      \* those that were written to it,
  last,       \* and the event it got last
  prior,      \* history: the events published before an event began
  lossy       \* history: a message was dropped on its way here

eventVars == <<stage, redis, relaying, bus, open, prior>>
clientVars == <<phase, registered, lists, wants, request>>
castVars == <<caster, active, queue>>
stopVars == <<stopping, closed>>
historyVars == <<due, heard, last, lossy>>
vars == <<idOf, eventVars, clientVars, castVars, stopVars, dead, happened, historyVars>>

Resting == [e |-> None, todo |-> <<>>, at |-> None, left |-> {}, to |-> None]
Free == [does |-> "new", c |-> None, add |-> {}]

TypeOK ==
  /\ stage \in [Events -> {"new", "begun", "done"}]
  /\ redis \in Seq(Events)
  /\ relaying \in BOOLEAN
  /\ bus \in Seq(Events)
  /\ Len(bus) <= BusSize
  /\ open \in BOOLEAN
  /\ caster \in [e : Events \union {None}, todo : Seq(Channels),
                 at : Channels \union {None}, left : SUBSET Ids, to : Conns \union {None}]
  /\ idOf \in [Conns -> Ids]
  /\ phase \in [Conns -> {"new", "open", "lost", "gone"}]
  /\ registered \in [Ids -> Conns \union {None}]
  /\ lists \in [Channels -> [Ids -> Conns \union {None}]]
  /\ wants \in [Conns -> SUBSET Channels]
  /\ active \in [Conns -> BOOLEAN]
  /\ queue \in [Conns -> Seq(Events)]
  /\ \A c \in Conns : Len(queue[c]) <= QueueSize
  /\ request \in [Requests -> [does : {"new", "clear", "add", "done"},
                               c : Conns \union {None}, add : SUBSET Channels]]
  /\ stopping \in {"no", "events", "all"}
  /\ closed \subseteq Conns
  /\ dead \in {"no", "race", "relay", "caster"}
  /\ happened \in 0 .. MaxHappens
  /\ due \in [Conns -> SUBSET Events]
  /\ heard \in [Conns -> SUBSET Events]
  /\ last \in [Conns -> Events \union {None}]
  /\ prior \in [Events -> SUBSET Events]
  /\ lossy \in BOOLEAN

WithId(s, i, C) ==
  IF \E c \in C : s.ids[c] = i THEN CHOOSE c \in C : s.ids[c] = i ELSE None

Init ==
  /\ stage = [e \in Events |-> "new"]
  /\ redis = <<>> /\ relaying = Redis /\ bus = <<>> /\ open = TRUE
  /\ caster = Resting
  /\ \E s \in Starts :
       /\ idOf = s.ids
       /\ happened = s.happened
       /\ phase = [c \in Conns |-> CASE c \in s.here -> "open" [] c \in s.lost -> "lost" [] OTHER -> "new"]
       /\ registered = [i \in Ids |-> WithId(s, i, s.here)]
       /\ lists = [ch \in Channels |-> [i \in Ids |-> WithId(s, i, s.early)]]
       /\ wants = [c \in Conns |-> IF c \in s.early THEN Channels ELSE {}]
  /\ active = [c \in Conns |-> TRUE]
  /\ queue = [c \in Conns |-> <<>>]
  /\ request = [r \in Requests |-> Free]
  /\ stopping = "no" /\ closed = {} /\ dead = "no"
  /\ due = [c \in Conns |-> {}]
  /\ heard = [c \in Conns |-> {}]
  /\ last = [c \in Conns |-> None]
  /\ prior = [e \in Events |-> {}]
  /\ lossy = FALSE

\* The ids of a channel, and the connections that stand for them.
IdsOn(ch) == {i \in Ids : lists[ch][i] # None}
On(ch) == {lists[ch][i] : i \in IdsOn(ch)}

Happens == happened < MaxHappens /\ happened' = happened + 1

ChannelsOf(e) == {Targets[e][i] : i \in DOMAIN Targets[e]}

\* Connections that have lost the place they had in a channel, or are skipped.
Forget(cs) ==
  /\ due' = [c \in Conns |-> IF c \in cs THEN {} ELSE due[c]]
  /\ heard' = [c \in Conns |-> IF c \in cs THEN {} ELSE heard[c]]
  /\ UNCHANGED last

-----------------------------------------------------------------------------
(* Business events *)

\* Publish: the event is sent to Redis first, if that works ...
Begin(e) ==
  /\ stage[e] = "new"
  /\ \A f \in Events : stage[f] = "new" => e <= f
  /\ stage' = [stage EXCEPT ![e] = "begun"]
  /\ prior' = [prior EXCEPT ![e] = {f \in Events : stage[f] = "done"}]
  /\ \/ relaying /\ redis' = Append(redis, e) /\ UNCHANGED <<lossy, happened>>
     \/ ~relaying /\ UNCHANGED <<redis, lossy, happened>>
     \/ Redis /\ Happens /\ lossy' = TRUE /\ UNCHANGED redis
  /\ due' = [c \in Conns |->
              IF /\ open /\ phase[c] = "open" /\ active[c]
                 /\ c \in UNION {On(ch) : ch \in ChannelsOf(e)}
                THEN due[c] \union {e} ELSE due[c]]
  /\ UNCHANGED <<relaying, bus, open, clientVars, castVars, stopVars, dead, heard, last>>

\* Seeded fault: a full buffer is not looked at.
OffersAnyway(e) == bus' = Append(bus, e) /\ UNCHANGED historyVars

\* The subscription gets the event unless its buffer is full.
Offer(e) ==
  \/ Len(bus) < BusSize /\ bus' = Append(bus, e) /\ UNCHANGED historyVars
  \/ /\ Len(bus) >= BusSize
     /\ due' = [c \in Conns |-> due[c] \ {e}]
     /\ lossy' = TRUE
     /\ UNCHANGED <<bus, heard, last>>

\* ... and then to the subscribers, of whom there are none once the manager is
\* shut down.  (If it is between publishLocally's copy of the list and the send,
\* the send panics, and a request recovers.)
PublishLocally(e) ==
  /\ stage[e] = "begun"
  /\ stage' = [stage EXCEPT ![e] = "done"]
  /\ \/ open /\ Offer(e)
     \/ ~open /\ UNCHANGED <<bus, historyVars>>
  /\ UNCHANGED <<redis, relaying, open, prior, clientVars, castVars, stopVars, dead, happened>>

\* Seeded fault: a message is broadcast as soon as it is decoded, each on its own.
RelaysAnyOrder ==
  /\ open
  /\ \E i \in DOMAIN redis :
       /\ redis' = SubSeq(redis, 1, i - 1) \o SubSeq(redis, i + 1, Len(redis))
       /\ Offer(redis[i])
  /\ UNCHANGED <<stage, relaying, open, prior, clientVars, castVars, stopVars, dead, happened>>

\* handleRedisSubscription broadcasts a message here, this server's own ones
\* included.
Relay ==
  /\ open
  /\ redis # <<>>
  /\ redis' = Tail(redis)
  /\ Offer(Head(redis))
  /\ UNCHANGED <<stage, relaying, open, prior, clientVars, castVars, stopVars, dead, happened>>

\* It took the message and the list of the subscribers before the manager was
\* shut down, and does not recover from a closed channel.
RelayToClosed ==
  /\ stopping = "events"
  /\ redis # <<>>
  /\ dead' = "relay"
  /\ UNCHANGED <<eventVars, clientVars, castVars, stopVars, happened, historyVars>>

\* Redis keeps nothing for a subscriber that has to connect again; and one that
\* takes the error for a closed connection ends for good.
RedisLoses ==
  /\ relaying
  /\ Happens
  /\ redis' = <<>>
  /\ relaying' \in BOOLEAN
  /\ lossy' = TRUE
  /\ UNCHANGED <<stage, bus, open, prior, clientVars, castVars, stopVars, dead, due, heard, last>>

-----------------------------------------------------------------------------
(* Connections and their subscriptions *)

\* What writes the clients of a channel while the caster ranges over them
\* without the lock may be a fatal error of the Go runtime.
Racing(chs) == dead' \in IF caster.at \in chs THEN {dead, "race"} ELSE {dead}

\* An id leaves channels.  A channel without clients is deleted, so that what
\* ranges over it has nothing left.
Remove(i, chs) ==
  /\ lists' = [ch \in Channels |-> IF ch \in chs THEN [lists[ch] EXCEPT ![i] = None] ELSE lists[ch]]
  /\ caster' = IF caster.at \notin chs THEN caster
               ELSE IF IdsOn(caster.at) \subseteq {i} THEN [caster EXCEPT !.at = None, !.left = {}]
               ELSE [caster EXCEPT !.left = @ \ {i}]
  /\ Racing(chs)

\* HandleSSE: whoever has the id before is replaced.
Connect(c) ==
  /\ phase[c] = "new"
  /\ stopping = "no"
  /\ Happens
  /\ phase' = [phase EXCEPT ![c] = "open"]
  /\ registered' = [registered EXCEPT ![idOf[c]] = c]
  /\ UNCHANGED <<eventVars, lists, wants, request, castVars, stopVars, dead, historyVars>>

\* The connection ends; its handler learns of it in a while.
Lose(c) ==
  /\ phase[c] = "open"
  /\ Happens
  /\ phase' = [phase EXCEPT ![c] = "lost"]
  /\ Forget({c})
  /\ UNCHANGED <<eventVars, registered, lists, wants, request, castVars, stopVars, dead, lossy>>

\* Seeded fault: the connection's Go channel is closed with it.
ClosesItsChannel(c) ==
  /\ phase[c] = "lost"
  /\ phase' = [phase EXCEPT ![c] = "gone"]
  /\ registered' = [registered EXCEPT ![idOf[c]] = None]
  /\ Remove(idOf[c], Channels)
  /\ closed' = closed \union {c}
  /\ queue' = [queue EXCEPT ![c] = <<>>]
  /\ Forget({d \in Conns : idOf[d] = idOf[c]})
  /\ UNCHANGED <<eventVars, wants, request, active, stopping, lossy, happened>>

\* unregisterClient, by id: another connection with the same id goes with it.
\* (Nothing reads what is left in its channel.)
Unregister(c) ==
  /\ phase[c] = "lost"
  /\ phase' = [phase EXCEPT ![c] = "gone"]
  /\ registered' = [registered EXCEPT ![idOf[c]] = None]
  /\ Remove(idOf[c], Channels)
  /\ queue' = [queue EXCEPT ![c] = <<>>]
  /\ Forget({d \in Conns : idOf[d] = idOf[c]})
  /\ UNCHANGED <<eventVars, wants, request, active, stopVars, lossy, happened>>

\* HandleSubscription: the client is looked up, and then used without the lock.
FindClient(r, i) ==
  /\ request[r].does = "new"
  /\ registered[i] # None
  /\ stopping # "all"
  /\ Happens
  /\ \E chs \in SUBSET Channels :
       request' = [request EXCEPT ![r] = [does |-> "clear", c |-> registered[i], add |-> chs]]
  /\ UNCHANGED <<eventVars, phase, registered, lists, wants, castVars, stopVars, dead, historyVars>>

\* updateSubscriptions holds the lock of the client (not that of the broker).
Alone(r) == \A q \in Requests \ {r} : request[q].does # "add" \/ request[q].c # request[r].c

\* It gives up the channels the client has, whoever of its id is listed there ...
Clear(r, ch) ==
  /\ request[r].does = "clear"
  /\ Alone(r)
  /\ LET c == request[r].c  i == idOf[request[r].c] IN
     /\ ch \in wants[c]
     /\ wants' = [wants EXCEPT ![c] = @ \ {ch}]
     /\ Remove(i, {ch})
     /\ Forget({lists[ch][i]})
  /\ UNCHANGED <<eventVars, phase, registered, request, active, queue, stopVars, lossy, happened>>

Cleared(r) ==
  /\ request[r].does = "clear"
  /\ Alone(r)
  /\ wants[request[r].c] = {}
  /\ request' = [request EXCEPT ![r].does = "add"]
  /\ UNCHANGED <<eventVars, phase, registered, lists, wants, castVars, stopVars, dead, happened, historyVars>>

\* Seeded fault: the client is entered without a look at the broker's clients.
AddsUnseen(r, ch) ==
  /\ request[r].does = "add"
  /\ ch \in request[r].add
  /\ LET c == request[r].c  i == idOf[request[r].c] IN
     /\ request' = [request EXCEPT ![r].add = @ \ {ch}]
     /\ wants' = [wants EXCEPT ![c] = @ \union {ch}]
     /\ lists' = [lists EXCEPT ![ch][i] = c]
     /\ UNCHANGED <<caster, dead, due, heard, last>>
  /\ UNCHANGED <<eventVars, phase, registered, active, queue, stopVars, lossy, happened>>

\* ... and enters, for each of the new ones, whoever has the id now.
Add(r, ch) ==
  /\ request[r].does = "add"
  /\ ch \in request[r].add
  /\ LET c == request[r].c  i == idOf[request[r].c] IN
     /\ request' = [request EXCEPT ![r].add = @ \ {ch}]
     /\ wants' = [wants EXCEPT ![c] = @ \union {ch}]
     /\ IF registered[i] = None
          THEN UNCHANGED <<lists, caster, dead, due, heard, last>>
          ELSE /\ lists' = [lists EXCEPT ![ch][i] = registered[i]]
               /\ caster' \in IF caster.at = ch /\ lists[ch][i] = None
                                THEN {caster, [caster EXCEPT !.left = @ \union {i}]}
                                ELSE {caster}
               /\ Racing({ch})
               /\ Forget({lists[ch][i]} \ {registered[i]})
  /\ UNCHANGED <<eventVars, phase, registered, active, queue, stopVars, lossy, happened>>

EndRequest(r) ==
  /\ request[r].does = "add"
  /\ request[r].add = {}
  /\ request' = [request EXCEPT ![r].does = "done"]
  /\ UNCHANGED <<eventVars, phase, registered, lists, wants, castVars, stopVars, dead, happened, historyVars>>

\* handleClientMessages writes the next message.
Write(c) ==
  /\ phase[c] = "open"
  /\ queue[c] # <<>>
  /\ LET e == Head(queue[c]) IN
     /\ queue' = [queue EXCEPT ![c] = Tail(@)]
     /\ last' = [last EXCEPT ![c] = e]
     /\ due' = [due EXCEPT ![c] = @ \ {e}]
     /\ heard' = IF e \in due[c] THEN [heard EXCEPT ![c] = @ \union {e}] ELSE heard
  /\ UNCHANGED <<eventVars, clientVars, caster, active, stopVars, dead, happened, lossy>>

\* From a closed channel it takes nil, and its panic is recovered after it has unregistered.
TakeNil(c) ==
  /\ phase[c] = "open"
  /\ c \in closed
  /\ queue[c] = <<>>
  /\ phase' = [phase EXCEPT ![c] = "lost"]
  /\ Forget({c})
  /\ UNCHANGED <<eventVars, registered, lists, wants, request, castVars, stopVars, dead, lossy, happened>>

-----------------------------------------------------------------------------
(* The SSE manager's goroutine *)

\* startBusinessEventSubscription takes an event.  Once the manager is shut
\* down it may, while there are any, or may stop.
Take ==
  /\ caster.e = None
  /\ bus # <<>>
  /\ bus' = Tail(bus)
  /\ caster' = [Resting EXCEPT !.e = Head(bus), !.todo = Targets[Head(bus)]]
  /\ UNCHANGED <<stage, redis, relaying, open, prior, clientVars, active, queue,
                 stopVars, dead, happened, historyVars>>

\* BroadcastToChannel looks the clients of the channel up under the lock ...
LookUp ==
  /\ caster.e # None /\ caster.left = {} /\ caster.to = None
  /\ caster.todo # <<>>
  /\ LET ch == Head(caster.todo) IN
     caster' = [caster EXCEPT !.at = IF IdsOn(ch) = {} THEN None ELSE ch,
                              !.left = IdsOn(ch), !.todo = Tail(@)]
  /\ UNCHANGED <<eventVars, clientVars, active, queue, stopVars, dead, happened, historyVars>>

\* ... ranges over them without it, in any order ...
Reach(i) ==
  /\ caster.at # None /\ caster.to = None
  /\ i \in caster.left
  /\ caster' = [caster EXCEPT !.left = @ \ {i}, !.to = lists[caster.at][i]]
  /\ UNCHANGED <<eventVars, clientVars, active, queue, stopVars, dead, happened, historyVars>>

\* ... and passes over one that is not active any more.
Skip ==
  /\ caster.to # None /\ ~active[caster.to]
  /\ caster' = [caster EXCEPT !.to = None]
  /\ UNCHANGED <<eventVars, clientVars, active, queue, stopVars, dead, happened, historyVars>>

Cast ==
  /\ caster.to # None /\ active[caster.to]
  /\ caster.to \notin closed
  /\ Len(queue[caster.to]) < QueueSize
  /\ queue' = [queue EXCEPT ![caster.to] = Append(@, caster.e)]
  /\ caster' = [caster EXCEPT !.to = None]
  /\ UNCHANGED <<eventVars, clientVars, active, stopVars, dead, happened, historyVars>>

\* Seeded fault: a broadcast ends at the first client that is full.
FullEndsBroadcast ==
  /\ caster.to # None /\ active[caster.to]
  /\ caster.to \notin closed
  /\ Len(queue[caster.to]) >= QueueSize
  /\ active' = [active EXCEPT ![caster.to] = FALSE]
  /\ caster' = [caster EXCEPT !.to = None, !.at = None, !.left = {}]
  /\ Forget({caster.to})
  /\ UNCHANGED <<eventVars, clientVars, queue, stopVars, dead, lossy, happened>>

\* A client whose buffer is full is not active any more, for good.
CastToFull ==
  /\ caster.to # None /\ active[caster.to]
  /\ caster.to \notin closed
  /\ Len(queue[caster.to]) >= QueueSize
  /\ active' = [active EXCEPT ![caster.to] = FALSE]
  /\ caster' = [caster EXCEPT !.to = None]
  /\ Forget({caster.to})
  /\ UNCHANGED <<eventVars, clientVars, queue, stopVars, dead, lossy, happened>>

\* Nothing recovers from a closed channel here.
CastToClosed ==
  /\ caster.to # None /\ active[caster.to]
  /\ caster.to \in closed
  /\ dead' = "caster"
  /\ UNCHANGED <<eventVars, clientVars, castVars, stopVars, historyVars, happened>>

EndEvent ==
  /\ caster.e # None /\ caster.left = {} /\ caster.to = None
  /\ caster.todo = <<>>
  /\ caster' = Resting
  /\ UNCHANGED <<eventVars, clientVars, active, queue, stopVars, dead, happened, historyVars>>

-----------------------------------------------------------------------------
(* Container.Close *)

\* The event manager first: its subscribers' channels are closed ...
StopEvents ==
  /\ stopping = "no"
  /\ Happens
  /\ stopping' = "events"
  /\ open' = FALSE
  /\ Forget(Conns)
  /\ UNCHANGED <<stage, redis, relaying, bus, prior, clientVars, castVars, closed, dead, lossy>>

\* ... then the SSE manager: it closes the channels of its clients and forgets
\* them; the broker does not.
StopClients ==
  /\ stopping = "events"
  /\ stopping' = "all"
  /\ closed' = closed \union {registered[i] : i \in {j \in Ids : registered[j] # None}}
  /\ UNCHANGED <<eventVars, clientVars, castVars, dead, historyVars, happened>>

-----------------------------------------------------------------------------
Publish == \E e \in Events : Begin(e) \/ PublishLocally(e)

SetSubscriptions(r) ==
  \/ \E i \in Ids : FindClient(r, i)
  \/ \E ch \in Channels : Clear(r, ch) \/ Add(r, ch)
  \/ Cleared(r) \/ EndRequest(r)

Connection(c) == Connect(c) \/ Lose(c) \/ Unregister(c) \/ Write(c) \/ TakeNil(c)

Caster ==
  \/ Take \/ LookUp \/ (\E i \in Ids : Reach(i)) \/ EndEvent
  \/ Skip \/ Cast \/ CastToFull \/ CastToClosed

Next ==
  /\ dead = "no"
  /\ UNCHANGED idOf
  /\ \/ Publish \/ Relay \/ RelayToClosed \/ RedisLoses
     \/ \E r \in Requests : SetSubscriptions(r)
     \/ \E c \in Conns : Connection(c)
     \/ Caster
     \/ StopEvents \/ StopClients

Spec == Init /\ [][Next]_vars

Progress ==
  /\ dead = "no"
  /\ UNCHANGED idOf
  /\ \/ \E e \in Events : PublishLocally(e)
     \/ Relay \/ Caster
     \/ \E c \in Conns : Write(c) \/ Unregister(c)

\* The goroutines go on with what they have.  Nothing is owed by users, and
\* nothing by whoever stops the server.
FairSpec == Spec /\ WF_vars(Progress)

-----------------------------------------------------------------------------
(* Properties *)

\* A channel lists a connection only while its handler runs and its id is known
\* to the broker, however a request that sets its subscriptions falls in with
\* the end of the connection and with another one that takes its id: when all
\* connections have ended, nothing of them is left.
NoGhosts ==
  \A ch \in Channels : \A i \in IdsOn(ch) :
    /\ registered[i] # None
    /\ idOf[lists[ch][i]] = i
    /\ phase[lists[ch][i]] \in {"open", "lost"}

\* A goroutine sends on a closed channel only when the server shuts down.
PanicsOnlyInShutdown == dead \in {"relay", "caster"} => stopping # "no"

\* A copy of an event is on its way to a connection.
OnItsWay(e, c) ==
  \/ stage[e] = "begun"
  \/ caster.e = e
  \/ \E s \in {redis, bus, queue[c]} : \E k \in DOMAIN s : s[k] = e

\* What a connection got last is not what was published first, although every
\* event arrives again from Redis: while it shows an event whose publication had
\* ended before that of another it got began, that one is still to come again.
NewestLast ==
  ~lossy /\ dead = "no" =>
    \A c \in Conns : \A e \in heard[c] : last[c] \in prior[e] => OnItsWay(e, c)

\* The events published while a connection is listed in one of their channels
\* are written to it, unless the connection loses its place or is full, or the
\* event is dropped for a full bus.  What others of the channel do makes no
\* difference.  (There is no end of those that are due unless the publishers
\* pause, which MaxPublished sees to.)
ReachesListeners == \A c \in Conns : due[c] # {} ~> (due[c] = {} \/ dead # "no")
=============================================================================
