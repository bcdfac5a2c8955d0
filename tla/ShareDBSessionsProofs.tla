----------------------- MODULE ShareDBSessionsProofs ------------------------
(***************************************************************************)
(* Theorems about ShareDBSessions: the lists of open channels and the      *)
(* subscriptions of a connection, for any number of connections,           *)
(* documents and subscriptions.                                            *)
(***************************************************************************)
EXTENDS ShareDBSessions, TLAPS

\* Only an open connection publishes, to registered channels: the lock keeps
\* them so.
SendsToRegistered ==
  \A c \in Conns :
    sending[c] # {} => /\ phase[c] = "open"
                       /\ busy[c].does = "publish"
                       /\ busy[c].doc \in Docs
                       /\ sending[c] \subseteq channels[busy[c].doc]

\* A registered channel is open and its goroutine alive.
RegisteredIsOpen ==
  \A d \in Docs : \A s \in channels[d] :
    about[s] = d /\ s \notin closed /\ goroutine[s] \in {"select", "leave"}

\* A channel not closed wholesale is closed by its goroutine, the last thing it does.
ClosesLast ==
  \A s \in closed :
    /\ goroutine[s] \in {"select", "leave", "done"}
    /\ s \in wholesale \/ goroutine[s] = "done"

\* A subscription about to be registered is new, and the one the connection keeps.
Subscribing ==
  \A c \in Conns :
    busy[c].does = "subscribe" =>
      /\ busy[c].doc \in Docs
      /\ busy[c].sub \in Subs
      /\ owner[busy[c].sub] = c
      /\ about[busy[c].sub] = busy[c].doc
      /\ goroutine[busy[c].sub] = "ready"
      /\ cancel[c][busy[c].doc] = busy[c].sub

SessionInv ==
  /\ TypeOK
  /\ SendsToRegistered
  /\ RegisteredIsOpen
  /\ ClosesLast
  /\ Subscribing
  /\ OneSubscriptionPerDoc
  /\ DiesOnlyOfWholesaleClose

-----------------------------------------------------------------------------
\* The initial states satisfy the invariant.
LEMMA InitSessionInv == Init => SessionInv
<1> SUFFICES ASSUME Init PROVE SessionInv
  OBVIOUS
<1>1. Idle \in Busy
  BY DEF Idle, Busy
<1>2. TypeOK
  BY <1>1, SessionAssumption DEF Init, TypeOK
<1> QED
  BY <1>2 DEF Init, SessionInv, SendsToRegistered, RegisteredIsOpen, ClosesLast,
     Subscribing, OneSubscriptionPerDoc, DiesOnlyOfWholesaleClose, Idle

\* The end of a message leaves the loop reading or about to exit.
LEMMA ResumeType ==
  ASSUME TypeOK, NEW c \in Conns, Resume(c)
  PROVE  /\ busy' \in [Conns -> Busy]
         /\ busy'[c].does \in {"read", "exit"}
         /\ \A p \in Conns \ {c} : busy'[p] = busy[p]
<1>1. [Idle EXCEPT !.does = IF shutdown = "no" THEN "read" ELSE "exit"] \in Busy
  BY DEF Idle, Busy
<1> QED
  BY <1>1 DEF Resume, TypeOK, Idle

\* Connections come and go.
LEMMA ConnectionStep ==
  ASSUME SessionInv, NEW c \in Conns, Connection(c)
  PROVE  SessionInv'
<1> USE DEF connVars, subVars, chanVars, SessionInv
<1>1. CASE Check(c)
  <2>1. TypeOK'
    BY <1>1 DEF Check, TypeOK
  <2> QED
    BY <1>1, <2>1 DEF Check, SendsToRegistered, RegisteredIsOpen, ClosesLast,
       Subscribing, OneSubscriptionPerDoc, DiesOnlyOfWholesaleClose
<1>2. CASE Register(c)
  <2>2. /\ busy' \in [Conns -> Busy]
        /\ busy'[c].does \in {"read", "exit"}
        /\ \A p \in Conns \ {c} : busy'[p] = busy[p]
    BY <1>2, ResumeType DEF Register
  <2>3. TypeOK'
    BY <1>2, <2>2 DEF Register, TypeOK
  <2>4. SendsToRegistered'
    BY <1>2, <2>2 DEF Register, SendsToRegistered, TypeOK
  <2>5. Subscribing'
    BY <1>2, <2>2 DEF Register, Subscribing
  <2> QED
    BY <1>2, <2>3, <2>4, <2>5 DEF Register, RegisteredIsOpen, ClosesLast,
       OneSubscriptionPerDoc, DiesOnlyOfWholesaleClose
<1>3. CASE Unlist(c)
  <2>1. TypeOK'
    BY <1>3 DEF Unlist, TypeOK
  <2> QED
    BY <1>3, <2>1 DEF Unlist, SendsToRegistered, RegisteredIsOpen, ClosesLast,
       Subscribing, OneSubscriptionPerDoc, DiesOnlyOfWholesaleClose
<1>4. CASE Leave(c)
  <2>1. cancel' \in [Conns -> [Docs -> Subs \union {None}]]
    BY <1>4 DEF Leave, TypeOK
  <2>2. TypeOK'
    BY <1>4, <2>1 DEF Leave, TypeOK
  <2>3. Subscribing'
    BY <1>4 DEF Leave, Subscribing, TypeOK
  <2>4. OneSubscriptionPerDoc'
    BY <1>4 DEF Leave, OneSubscriptionPerDoc, TypeOK
  <2> QED
    BY <1>4, <2>2, <2>3, <2>4 DEF Leave, SendsToRegistered, TypeOK, RegisteredIsOpen,
       ClosesLast, DiesOnlyOfWholesaleClose
<1> QED
  BY <1>1, <1>2, <1>3, <1>4 DEF Connection

\* A message is read.
LEMMA MessageStep ==
  ASSUME SessionInv, NEW c \in Conns, Message(c)
  PROVE  SessionInv'
<1> USE DEF connVars, subVars, chanVars, SessionInv
<1>1. ASSUME NEW d \in Docs, NEW s \in Subs, HandleSubscribe(c, d, s) PROVE SessionInv'
  <2> DEFINE new == [Idle EXCEPT !.does = "subscribe", !.doc = d, !.sub = s]
  <2>1. /\ new \in Busy
        /\ new.does = "subscribe" /\ new.doc = d /\ new.sub = s
    BY DEF Idle, Busy
  <2>2. busy' = [busy EXCEPT ![c] = new]
    BY <1>1 DEF HandleSubscribe
  <2> HIDE DEF new
  <2>3. /\ busy' \in [Conns -> Busy]
        /\ busy'[c] = new
        /\ \A p \in Conns \ {c} : busy'[p] = busy[p]
    BY <2>1, <2>2 DEF TypeOK
  <2>4. cancel' \in [Conns -> [Docs -> Subs \union {None}]]
    BY <1>1 DEF HandleSubscribe, TypeOK
  <2>5. TypeOK'
    BY <1>1, <2>3, <2>4 DEF HandleSubscribe, TypeOK
  <2>6. \A e \in Docs : s \notin channels[e]
    BY <1>1 DEF HandleSubscribe, RegisteredIsOpen
  <2>7. /\ SendsToRegistered'
        /\ RegisteredIsOpen'
        /\ ClosesLast'
    BY <1>1, <2>3, <2>6 DEF HandleSubscribe, Reads, SendsToRegistered,
       RegisteredIsOpen, ClosesLast, TypeOK
  <2>8. Subscribing'
    BY <1>1, <2>1, <2>3 DEF HandleSubscribe, Subscribing, TypeOK
  <2>9. OneSubscriptionPerDoc'
    BY <1>1, <2>6, SessionAssumption DEF HandleSubscribe, OneSubscriptionPerDoc, TypeOK
  <2> QED
    BY <1>1, <2>5, <2>7, <2>8, <2>9 DEF HandleSubscribe, DiesOnlyOfWholesaleClose
<1>2. ASSUME NEW d \in Docs, HandleUnsubscribe(c, d) PROVE SessionInv'
  <2>1. /\ busy' \in [Conns -> Busy]
        /\ busy'[c].does \in {"read", "exit"}
        /\ \A p \in Conns \ {c} : busy'[p] = busy[p]
    BY <1>2, ResumeType DEF HandleUnsubscribe
  <2>2. TypeOK'
    BY <1>2, <2>1 DEF HandleUnsubscribe, TypeOK
  <2>3. SendsToRegistered'
    BY <1>2, <2>1 DEF HandleUnsubscribe, SendsToRegistered, WriteLock
  <2>4. RegisteredIsOpen'
    BY <1>2 DEF HandleUnsubscribe, RegisteredIsOpen, TypeOK
  <2>5. ClosesLast'
    BY <1>2 DEF HandleUnsubscribe, RegisteredIsOpen, ClosesLast, TypeOK
  <2>6. Subscribing'
    BY <1>2, <2>1 DEF HandleUnsubscribe, Subscribing
  <2>7. OneSubscriptionPerDoc'
    BY <1>2 DEF HandleUnsubscribe, OneSubscriptionPerDoc, TypeOK
  <2> QED
    BY <1>2, <2>2, <2>3, <2>4, <2>5, <2>6, <2>7
    DEF HandleUnsubscribe, DiesOnlyOfWholesaleClose
<1>3. ASSUME NEW d \in Docs, HandleOperation(c, d) PROVE SessionInv'
  <2> DEFINE new == [Idle EXCEPT !.does = "publish", !.doc = d]
  <2>1. new \in Busy /\ new.does = "publish" /\ new.doc = d
    BY DEF Idle, Busy
  <2>2. busy' = [busy EXCEPT ![c] = new]
    BY <1>3 DEF HandleOperation
  <2> HIDE DEF new
  <2>3. /\ busy' \in [Conns -> Busy]
        /\ busy'[c] = new
        /\ \A p \in Conns \ {c} : busy'[p] = busy[p]
    BY <2>1, <2>2 DEF TypeOK
  <2>4. TypeOK'
    BY <1>3, <2>3 DEF HandleOperation, TypeOK
  <2>5. SendsToRegistered'
    BY <1>3, <2>1, <2>3 DEF HandleOperation, Reads, SendsToRegistered, TypeOK
  <2>6. Subscribing'
    BY <1>3, <2>1, <2>3 DEF HandleOperation, Subscribing, TypeOK
  <2> QED
    BY <1>3, <2>4, <2>5, <2>6 DEF HandleOperation, RegisteredIsOpen, ClosesLast,
       OneSubscriptionPerDoc, DiesOnlyOfWholesaleClose
<1> QED
  BY <1>1, <1>2, <1>3 DEF Message

\* A message is handled.
LEMMA HandlingStep ==
  ASSUME SessionInv, NEW c \in Conns, Handling(c)
  PROVE  SessionInv'
<1> USE DEF connVars, subVars, chanVars, SessionInv
<1>1. CASE Subscribe(c)
  <2> DEFINE d == busy[c].doc
             s == busy[c].sub
  <2>1. /\ d \in Docs /\ s \in Subs
        /\ owner[s] = c /\ about[s] = d /\ goroutine[s] = "ready" /\ cancel[c][d] = s
    BY <1>1 DEF Subscribe, Subscribing
  <2>2. /\ channels' = [channels EXCEPT ![d] = @ \union {s}]
        /\ goroutine' = [goroutine EXCEPT ![s] = "select"]
        /\ WriteLock
        /\ UNCHANGED <<phase, listed, cancel, owner, about, buffer, cancelled, closed,
                       wholesale, sending, shutdown, dead>>
    BY <1>1 DEF Subscribe
  <2>3. /\ busy' \in [Conns -> Busy]
        /\ busy'[c].does \in {"read", "exit"}
        /\ \A p \in Conns \ {c} : busy'[p] = busy[p]
    BY <1>1, ResumeType DEF Subscribe
  <2>4. s \notin closed
    BY <2>1 DEF ClosesLast
  <2>5. Subscribing'
    <3> SUFFICES ASSUME NEW p \in Conns, busy'[p].does = "subscribe"
                 PROVE  /\ busy'[p].doc \in Docs
                        /\ busy'[p].sub \in Subs
                        /\ owner[busy'[p].sub] = p
                        /\ about[busy'[p].sub] = busy'[p].doc
                        /\ goroutine'[busy'[p].sub] = "ready"
                        /\ cancel[p][busy'[p].doc] = busy'[p].sub
      BY <2>2 DEF Subscribing
    <3>1. p # c /\ busy'[p] = busy[p]
      BY <2>3
    <3>2. /\ busy[p].doc \in Docs /\ busy[p].sub \in Subs
          /\ owner[busy[p].sub] = p
          /\ about[busy[p].sub] = busy[p].doc
          /\ goroutine[busy[p].sub] = "ready"
          /\ cancel[p][busy[p].doc] = busy[p].sub
      BY <3>1 DEF Subscribing
    <3>3. busy[p].sub # s
      BY <2>1, <3>1, <3>2
    <3> HIDE DEF d, s
    <3> QED
      BY <2>2, <3>1, <3>2, <3>3 DEF TypeOK
  <2>6. SendsToRegistered'
    BY <2>2, <2>3 DEF SendsToRegistered, WriteLock
  <2> HIDE DEF d, s
  <2>7. TypeOK'
    BY <2>1, <2>2, <2>3 DEF TypeOK
  <2>8. RegisteredIsOpen' /\ ClosesLast'
    BY <2>1, <2>2, <2>4 DEF RegisteredIsOpen, ClosesLast, TypeOK
  <2>9. OneSubscriptionPerDoc'
    BY <2>1, <2>2 DEF OneSubscriptionPerDoc, TypeOK
  <2> QED
    BY <2>2, <2>5, <2>6, <2>7, <2>8, <2>9 DEF DiesOnlyOfWholesaleClose
<1>2. ASSUME NEW s \in Subs, Offer(c, s) PROVE SessionInv'
  <2>1. buffer' \in [Subs -> 0 .. Capacity]
    BY <1>2, SessionAssumption DEF Offer, TypeOK
  <2>2. TypeOK'
    BY <1>2, <2>1 DEF Offer, TypeOK
  <2>3. SendsToRegistered'
    BY <1>2 DEF Offer, SendsToRegistered, TypeOK
  <2> QED
    BY <1>2, <2>2, <2>3 DEF Offer, RegisteredIsOpen, ClosesLast, Subscribing,
       OneSubscriptionPerDoc, DiesOnlyOfWholesaleClose
<1>3. CASE EndPublish(c)
  <2>1. /\ busy' \in [Conns -> Busy]
        /\ busy'[c].does \in {"read", "exit"}
        /\ \A p \in Conns \ {c} : busy'[p] = busy[p]
    BY <1>3, ResumeType DEF EndPublish
  <2>2. TypeOK'
    BY <1>3, <2>1 DEF EndPublish, TypeOK
  <2>3. SendsToRegistered'
    BY <1>3, <2>1 DEF EndPublish, SendsToRegistered, TypeOK
  <2>4. Subscribing'
    BY <1>3, <2>1 DEF EndPublish, Subscribing
  <2> QED
    BY <1>3, <2>2, <2>3, <2>4 DEF EndPublish, RegisteredIsOpen, ClosesLast,
       OneSubscriptionPerDoc, DiesOnlyOfWholesaleClose
<1> QED
  BY <1>1, <1>2, <1>3 DEF Handling

\* The goroutine of a subscription moves.
LEMMA GoroutineStep ==
  ASSUME SessionInv, NEW s \in Subs, Goroutine(s), dead = {}
  PROVE  SessionInv'
<1> USE DEF connVars, subVars, chanVars, SessionInv
<1>1. CASE Stop(s)
  <2>1. TypeOK'
    BY <1>1 DEF Stop, TypeOK
  <2> QED
    BY <1>1, <2>1 DEF Stop, SendsToRegistered, RegisteredIsOpen, ClosesLast,
       Subscribing, OneSubscriptionPerDoc, DiesOnlyOfWholesaleClose, TypeOK
<1>2. CASE RemoveSubscriber(s)
  <2>1. /\ channels' \in [Docs -> SUBSET Subs]
        /\ closed' \subseteq Subs
        /\ dead' \subseteq Subs
        /\ buffer' \in [Subs -> 0 .. Capacity]
    BY <1>2, SessionAssumption DEF RemoveSubscriber, TypeOK
  <2>2. TypeOK'
    BY <1>2, <2>1 DEF RemoveSubscriber, TypeOK
  <2>3. SendsToRegistered'
    BY <1>2 DEF RemoveSubscriber, SendsToRegistered, WriteLock
  <2>4. ASSUME NEW d \in Docs PROVE channels'[d] = channels[d] \ {s}
    <3>1. d # about[s] => s \notin channels[d]
      BY DEF RegisteredIsOpen
    <3>2. CASE channels[about[s]] = {}
      <4>1. channels' = channels
        BY <1>2, <3>2 DEF RemoveSubscriber
      <4> QED
        BY <3>1, <3>2, <4>1
    <3>3. CASE channels[about[s]] # {}
      <4>1. channels' = [channels EXCEPT ![about[s]] = channels[about[s]] \ {s}]
        BY <1>2, <3>3 DEF RemoveSubscriber
      <4> QED
        BY <3>1, <4>1 DEF TypeOK
    <3> QED
      BY <3>2, <3>3
  <2>5. closed' \subseteq closed \union {s}
    BY <1>2 DEF RemoveSubscriber
  <2>6. RegisteredIsOpen'
    BY <1>2, <2>4, <2>5 DEF RemoveSubscriber, RegisteredIsOpen, TypeOK
  <2>7. ClosesLast'
    BY <1>2, <2>5 DEF RemoveSubscriber, ClosesLast, TypeOK
  <2>8. Subscribing'
    BY <1>2 DEF RemoveSubscriber, Subscribing, TypeOK
  <2>9. OneSubscriptionPerDoc'
    BY <1>2, <2>4 DEF RemoveSubscriber, OneSubscriptionPerDoc
  <2>10. DiesOnlyOfWholesaleClose'
    BY <1>2 DEF RemoveSubscriber, ClosesLast, DiesOnlyOfWholesaleClose
  <2> QED
    BY <2>2, <2>3, <2>6, <2>7, <2>8, <2>9, <2>10
<1>3. CASE Deliver(s)
  <2>1. buffer' \in [Subs -> 0 .. Capacity]
    BY <1>3, SessionAssumption DEF Deliver, TypeOK
  <2>2. TypeOK'
    BY <1>3, <2>1 DEF Deliver, TypeOK
  <2> QED
    BY <1>3, <2>2 DEF Deliver, SendsToRegistered, RegisteredIsOpen, ClosesLast,
       Subscribing, OneSubscriptionPerDoc, DiesOnlyOfWholesaleClose
<1> QED
  BY <1>1, <1>2, <1>3 DEF Goroutine

\* The service shuts down.
LEMMA ShutdownStep ==
  ASSUME SessionInv, CancelService \/ ClosePubSub
  PROVE  SessionInv'
<1> USE DEF connVars, subVars, chanVars, SessionInv
<1>1. CASE CancelService
  <2>1. TypeOK'
    BY <1>1 DEF CancelService, TypeOK
  <2> QED
    BY <1>1, <2>1 DEF CancelService, SendsToRegistered, RegisteredIsOpen, ClosesLast,
       Subscribing, OneSubscriptionPerDoc, DiesOnlyOfWholesaleClose
<1>2. CASE ClosePubSub
  <2>1. UNION {channels[d] : d \in Docs} \subseteq Subs
    BY DEF TypeOK
  <2>2. TypeOK'
    BY <1>2, <2>1 DEF ClosePubSub, TypeOK
  <2>3. SendsToRegistered'
    BY <1>2 DEF ClosePubSub, SendsToRegistered, WriteLock
  <2>4. ClosesLast'
    BY <1>2 DEF ClosePubSub, RegisteredIsOpen, ClosesLast
  <2> QED
    BY <1>2, <2>2, <2>3, <2>4 DEF ClosePubSub, RegisteredIsOpen, Subscribing,
       OneSubscriptionPerDoc, DiesOnlyOfWholesaleClose
<1> QED
  BY <1>1, <1>2

\* Every step keeps the invariant.
LEMMA NextSessionInv == SessionInv /\ [Next]_vars => SessionInv'
<1> SUFFICES ASSUME SessionInv, [Next]_vars PROVE SessionInv'
  OBVIOUS
<1>1. CASE UNCHANGED vars
  BY <1>1 DEF vars, connVars, subVars, chanVars, SessionInv, TypeOK, SendsToRegistered,
     RegisteredIsOpen, ClosesLast, Subscribing, OneSubscriptionPerDoc,
     DiesOnlyOfWholesaleClose
<1>2. CASE Next
  BY <1>2, ConnectionStep, MessageStep, HandlingStep, GoroutineStep, ShutdownStep DEF Next
<1> QED
  BY <1>1, <1>2

-----------------------------------------------------------------------------
\* SessionInv is an invariant.
THEOREM SessionInvariant == Spec => []SessionInv
<1> QED
  BY InitSessionInv, NextSessionInv, PTL DEF Spec

\* The variables keep their types, and a buffer its capacity.
THEOREM SessionsTypeOK == Spec => []TypeOK
<1>1. SessionInv => TypeOK
  BY DEF SessionInv
<1> QED
  BY <1>1, SessionInvariant, PTL

\* Publishing never sends on a closed channel.
THEOREM SessionsPublishToOpen == Spec => []PublishesToOpenChannels
<1>1. SessionInv => PublishesToOpenChannels
  BY DEF SessionInv, SendsToRegistered, RegisteredIsOpen, PublishesToOpenChannels
<1> QED
  BY <1>1, SessionInvariant, PTL

\* Only a wholesale close can make the process die of a channel closed twice.
THEOREM SessionsDieOnlyOfWholesaleClose == Spec => []DiesOnlyOfWholesaleClose
<1>1. SessionInv => DiesOnlyOfWholesaleClose
  BY DEF SessionInv
<1> QED
  BY <1>1, SessionInvariant, PTL

\* A connection has one subscription to a document that goes on, at most.
THEOREM SessionsOneSubscription == Spec => []OneSubscriptionPerDoc
<1>1. SessionInv => OneSubscriptionPerDoc
  BY DEF SessionInv
<1> QED
  BY <1>1, SessionInvariant, PTL

-----------------------------------------------------------------------------
(* No subscription is forgotten *)

\* The steps that make a subscription, or cancel one, keep or hand over its
\* context; the others leave it alone.
LEMMA NextNoneForgotten ==
  TypeOK /\ Subscribing /\ NoneForgotten /\ [Next]_vars => NoneForgotten'
<1> SUFFICES ASSUME TypeOK, Subscribing, NoneForgotten, [Next]_vars, NEW s \in Subs,
                    goroutine'[s] # "none", s \notin cancelled'
             PROVE  /\ owner'[s] \in Conns
                    /\ about'[s] \in Docs
                    /\ phase'[owner'[s]] = "open"
                    /\ cancel'[owner'[s]][about'[s]] = s
  BY DEF NoneForgotten
<1> USE DEF connVars, subVars, chanVars
<1>0. goroutine[s] # "none" /\ s \notin cancelled =>
        /\ owner[s] \in Conns
        /\ about[s] \in Docs
        /\ phase[owner[s]] = "open"
        /\ cancel[owner[s]][about[s]] = s
  BY DEF NoneForgotten
<1>1. ASSUME NEW c \in Conns, Connection(c)
      PROVE  /\ UNCHANGED <<owner, about, goroutine>>
             /\ cancelled \subseteq cancelled'
             /\ \A o \in Conns \ {c} : phase'[o] = phase[o] /\ cancel'[o] = cancel[o]
             /\ phase[c] = "open" => \/ phase'[c] = "open" /\ cancel'[c] = cancel[c]
                                     \/ \A d \in Docs : cancel[c][d] \in Subs =>
                                                         cancel[c][d] \in cancelled'
  BY <1>1 DEF Connection, Check, Register, Unlist, Leave, TypeOK
<1>2. ASSUME NEW c \in Conns, NEW d \in Docs, NEW n \in Subs, HandleSubscribe(c, d, n)
      PROVE  /\ UNCHANGED phase /\ phase[c] = "open" /\ goroutine[n] = "none"
             /\ owner'[n] = c /\ about'[n] = d /\ cancel'[c][d] = n
             /\ s # n => /\ owner'[s] = owner[s] /\ about'[s] = about[s]
                        /\ goroutine'[s] = goroutine[s]
             /\ cancelled \subseteq cancelled'
             /\ cancel[c][d] \in Subs => cancel[c][d] \in cancelled'
             /\ \A o \in Conns, e \in Docs : o # c \/ e # d => cancel'[o][e] = cancel[o][e]
  BY <1>2, SessionAssumption DEF HandleSubscribe, Reads, TypeOK
<1>3. CASE UNCHANGED <<phase, cancel, owner, about, goroutine, cancelled>>
  BY <1>0, <1>3
<1>4. CASE \E c \in Conns : Connection(c)
  BY <1>0, <1>1, <1>4
<1>5. CASE \E c \in Conns : \E d \in Docs : \E n \in Subs : HandleSubscribe(c, d, n)
  <2>1. PICK c \in Conns, d \in Docs, n \in Subs : HandleSubscribe(c, d, n)
    BY <1>5
  <2>2. CASE s = n
    BY <1>2, <2>1, <2>2
  <2>3. CASE s # n
    <3>1. /\ owner[s] \in Conns /\ about[s] \in Docs
          /\ phase[owner[s]] = "open" /\ cancel[owner[s]][about[s]] = s
      BY <1>0, <1>2, <2>1, <2>3
    <3>2. owner[s] # c \/ about[s] # d
      BY <1>2, <2>1, <3>1
    <3> QED
      BY <1>2, <2>1, <2>3, <3>1, <3>2
  <2> QED
    BY <2>2, <2>3
<1>6. ASSUME NEW c \in Conns, Subscribe(c)
      PROVE  /\ UNCHANGED <<phase, cancel, owner, about, cancelled>>
             /\ goroutine[s] # "none"
  BY <1>6 DEF Subscribe, TypeOK, Subscribing
<1>7. ASSUME NEW n \in Subs, Stop(n) \/ RemoveSubscriber(n)
      PROVE  /\ UNCHANGED <<phase, cancel, owner, about, cancelled>>
             /\ goroutine[s] # "none"
  BY <1>7 DEF Stop, RemoveSubscriber, TypeOK
<1>8. ASSUME \/ \E c \in Conns, d \in Docs : HandleUnsubscribe(c, d) \/ HandleOperation(c, d)
             \/ \E c \in Conns : (\E n \in Subs : Offer(c, n)) \/ EndPublish(c)
             \/ \E n \in Subs : Deliver(n)
             \/ CancelService \/ ClosePubSub \/ UNCHANGED vars
      PROVE  UNCHANGED <<phase, cancel, owner, about, goroutine, cancelled>>
  BY <1>8 DEF HandleUnsubscribe, HandleOperation, Offer, EndPublish, Deliver,
    CancelService, ClosePubSub, vars
<1> QED
  BY <1>0, <1>3, <1>4, <1>5, <1>6, <1>7, <1>8
  DEF Next, Message, Handling, Goroutine

\* No subscription outlives its connection unnoticed: it is cancelled, or an open
\* connection keeps its context and will cancel it.
THEOREM SessionsNoneForgotten == Spec => []NoneForgotten
<1>1. Init => NoneForgotten
  BY DEF Init, NoneForgotten
<1>2. SessionInv => TypeOK /\ Subscribing
  BY DEF SessionInv
<1> QED
  BY <1>1, <1>2, SessionInvariant, NextNoneForgotten, PTL DEF Spec
=============================================================================
