--------------------------- MODULE BroadcastProofs ---------------------------
(***************************************************************************)
(* What Broadcast keeps, for any connections, channels, events, buffers    *)
(* and requests.                                                           *)
(***************************************************************************)
EXTENDS Broadcast, TLAPS

\* What the goroutine is about to send is an event, and a request that has begun
\* has a client.
Busy ==
  /\ caster.at # None \/ caster.to # None => caster.e # None
  /\ \A r \in Requests : request[r].does \in {"clear", "add"} => request[r].c \in Conns

TInv == TypeOK /\ Busy

CasterType ==
  [e : Events \union {None}, todo : Seq(Channels),
   at : Channels \union {None}, left : SUBSET Ids, to : Conns \union {None}]

RequestType ==
  [does : {"new", "clear", "add", "done"}, c : Conns \union {None}, add : SUBSET Channels]

RequestsOK ==
  /\ request \in [Requests -> RequestType]
  /\ \A r \in Requests : request[r].does \in {"clear", "add"} => request[r].c \in Conns

-----------------------------------------------------------------------------
(* Lemmas *)

LEMMA TargetsAreChannels == \A e \in Events : Targets[e] \in Seq(Channels)
  BY BroadcastAssumption

\* A request that has a client goes on with the same one.
LEMMA RequestGoesOn ==
  ASSUME TInv, NEW r \in Requests, NEW x \in {"add", "done"},
         request[r].does \in {"clear", "add"},
         request' = [request EXCEPT ![r].does = x]
  PROVE  RequestsOK'
  <1>1. RequestsOK
    BY DEF TInv, TypeOK, Busy, RequestsOK, RequestType
  <1>2. PICK k \in RequestType : k = request[r]
    BY <1>1 DEF RequestsOK
  <1>3. [k EXCEPT !.does = x] \in RequestType /\ [k EXCEPT !.does = x].c \in Conns
    BY <1>1, <1>2 DEF RequestType, RequestsOK
  <1>4. request' = [request EXCEPT ![r] = [k EXCEPT !.does = x]]
    BY <1>2
  <1> QED
    BY <1>1, <1>3, <1>4 DEF RequestsOK

LEMMA RequestAdds ==
  ASSUME TInv, NEW r \in Requests, NEW ch \in Channels,
         request[r].does = "add",
         request' = [request EXCEPT ![r].add = @ \ {ch}]
  PROVE  RequestsOK'
  <1>1. RequestsOK
    BY DEF TInv, TypeOK, Busy, RequestsOK, RequestType
  <1>2. PICK k \in RequestType : k = request[r]
    BY <1>1 DEF RequestsOK
  <1>3. /\ [k EXCEPT !.add = k.add \ {ch}] \in RequestType
        /\ [k EXCEPT !.add = k.add \ {ch}].c \in Conns
    BY <1>1, <1>2 DEF RequestType, RequestsOK
  <1>4. request' = [request EXCEPT ![r] = [k EXCEPT !.add = k.add \ {ch}]]
    BY <1>2
  <1> QED
    BY <1>1, <1>3, <1>4 DEF RequestsOK

LEMMA RemoveKeepsTypes ==
  ASSUME TInv, NEW i \in Ids, NEW chs \in SUBSET Channels, Remove(i, chs)
  PROVE  /\ lists' \in [Channels -> [Ids -> Conns \union {None}]]
         /\ caster' \in CasterType
         /\ caster'.e = caster.e /\ caster'.to = caster.to /\ caster'.at \in {caster.at, None}
         /\ dead' \in {dead, "race"}
  <1>1. lists' \in [Channels -> [Ids -> Conns \union {None}]]
    BY DEF Remove, TInv, TypeOK
  <1>2. dead' \in {dead, "race"}
    BY DEF Remove, Racing
  <1>3. caster \in CasterType
    BY DEF TInv, TypeOK, CasterType
  <1>4. \/ caster' = caster
        \/ caster' = [caster EXCEPT !.at = None, !.left = {}]
        \/ caster' = [caster EXCEPT !.left = caster.left \ {i}]
    BY DEF Remove
  <1> QED
    BY <1>1, <1>2, <1>3, <1>4 DEF CasterType

LEMMA ForgetKeepsTypes ==
  ASSUME TInv, NEW cs, Forget(cs)
  PROVE  /\ due' \in [Conns -> SUBSET Events] /\ heard' \in [Conns -> SUBSET Events]
         /\ last' = last
  BY DEF Forget, TInv, TypeOK

LEMMA OfferKeepsTypes ==
  ASSUME TInv, NEW e \in Events, Offer(e)
  PROVE  /\ bus' \in Seq(Events) /\ Len(bus') <= BusSize
         /\ due' \in [Conns -> SUBSET Events] /\ heard' = heard /\ last' = last
         /\ lossy' \in BOOLEAN
  <1>1. CASE Len(bus) < BusSize /\ bus' = Append(bus, e) /\ UNCHANGED historyVars
    BY <1>1, BroadcastAssumption DEF TInv, TypeOK, historyVars
  <1>2. CASE /\ due' = [c \in Conns |-> due[c] \ {e}]
             /\ lossy' = TRUE
             /\ UNCHANGED <<bus, heard, last>>
    BY <1>2 DEF TInv, TypeOK
  <1> QED
    BY <1>1, <1>2 DEF Offer

-----------------------------------------------------------------------------
(* Types *)

LEMMA InitTInv == Init => TInv
  <1> SUFFICES ASSUME Init PROVE TInv
    OBVIOUS
  <1> USE BroadcastAssumption
  <1>1. PICK s \in Starts :
          /\ idOf = s.ids
          /\ happened = s.happened
          /\ phase = [c \in Conns |-> CASE c \in s.here -> "open" [] c \in s.lost -> "lost" [] OTHER -> "new"]
          /\ registered = [i \in Ids |-> WithId(s, i, s.here)]
          /\ lists = [ch \in Channels |-> [i \in Ids |-> WithId(s, i, s.early)]]
          /\ wants = [c \in Conns |-> IF c \in s.early THEN Channels ELSE {}]
    BY DEF Init
  <1>2. s \in [ids : [Conns -> Ids], early : SUBSET Conns,
               lost : SUBSET Conns, here : SUBSET Conns, happened : 0 .. MaxHappens]
    OBVIOUS
  <1>3. \A i \in Ids : WithId(s, i, s.here) \in Conns \union {None}
    BY <1>2 DEF WithId
  <1>4. \A i \in Ids : WithId(s, i, s.early) \in Conns \union {None}
    BY <1>2 DEF WithId
  <1>5. /\ idOf \in [Conns -> Ids]
        /\ happened \in 0 .. MaxHappens
        /\ phase \in [Conns -> {"new", "open", "lost", "gone"}]
        /\ registered \in [Ids -> Conns \union {None}]
        /\ lists \in [Channels -> [Ids -> Conns \union {None}]]
        /\ wants \in [Conns -> SUBSET Channels]
    BY <1>1, <1>2, <1>3, <1>4
  <1> QED
    <2>1. /\ stage \in [Events -> {"new", "begun", "done"}]
          /\ redis \in Seq(Events) /\ relaying \in BOOLEAN
          /\ bus \in Seq(Events) /\ Len(bus) <= BusSize /\ open \in BOOLEAN
          /\ active \in [Conns -> BOOLEAN]
          /\ stopping = "no" /\ closed = {} /\ dead = "no" /\ lossy = FALSE
          /\ due \in [Conns -> SUBSET Events] /\ heard \in [Conns -> SUBSET Events]
          /\ last \in [Conns -> Events \union {None}]
          /\ prior \in [Events -> SUBSET Events]
      BY DEF Init
    <2>2. caster \in CasterType /\ caster.to = None /\ caster.at = None
      BY DEF Init, Resting, CasterType
    <2>3. queue \in [Conns -> Seq(Events)] /\ \A c \in Conns : Len(queue[c]) <= QueueSize
      BY DEF Init
    <2>4. RequestsOK
      BY DEF Init, RequestsOK, RequestType, Free
    <2> QED
      BY <1>5, <2>1, <2>2, <2>3, <2>4 DEF TInv, TypeOK, Busy, CasterType, RequestsOK, RequestType

LEMMA NextTInv ==
  ASSUME TInv, [Next]_vars
  PROVE  TInv'
  <1> USE BroadcastAssumption
  <1> USE DEF TInv, TypeOK, Busy
  <1>1. CASE UNCHANGED vars
    BY <1>1 DEF vars, eventVars, clientVars, castVars, stopVars, historyVars
  <1>2. ASSUME NEW e \in Events, Begin(e), UNCHANGED idOf
        PROVE  TInv'
    <2>1. /\ redis' \in Seq(Events) /\ lossy' \in BOOLEAN /\ happened' \in 0 .. MaxHappens
          /\ due' \in [Conns -> SUBSET Events]
      <3>1. redis' = redis \/ redis' = Append(redis, e)
        BY <1>2 DEF Begin
      <3>2. Append(redis, e) \in Seq(Events)
        OBVIOUS
      <3>3. lossy' \in BOOLEAN /\ happened' \in 0 .. MaxHappens
        <4>1. lossy' = lossy \/ lossy' = TRUE
          BY <1>2 DEF Begin
        <4>2. happened' = happened \/ Happens
          BY <1>2 DEF Begin
        <4>3. lossy' \in BOOLEAN
          BY <4>1, Zenon
        <4>4. happened \in 0 .. MaxHappens /\ MaxHappens \in Nat
          OBVIOUS
        <4>5. happened' \in 0 .. MaxHappens
          BY <4>2, <4>4, SMT DEF Happens
        <4> QED
          BY <4>3, <4>5
      <3>4. due' \in [Conns -> SUBSET Events]
        BY <1>2 DEF Begin
      <3> QED
        <4>1. redis' \in Seq(Events)
          BY <3>1, <3>2
        <4> QED
          BY <3>3, <3>4, <4>1
    <2> QED
      BY <1>2, <2>1 DEF Begin, clientVars, castVars, stopVars
  <1>3. ASSUME NEW e \in Events, PublishLocally(e), UNCHANGED idOf
        PROVE  TInv'
    BY <1>3, OfferKeepsTypes DEF PublishLocally, clientVars, castVars, stopVars, historyVars
  <1>4. ASSUME Relay, UNCHANGED idOf
        PROVE  TInv'
    <2>1. Head(redis) \in Events /\ Tail(redis) \in Seq(Events)
      BY <1>4 DEF Relay
    <2> QED
      BY <1>4, <2>1, OfferKeepsTypes DEF Relay, clientVars, castVars, stopVars
  <1>5. ASSUME RelayToClosed, UNCHANGED idOf
        PROVE  TInv'
    BY <1>5 DEF RelayToClosed, eventVars, clientVars, castVars, stopVars, historyVars
  <1>6. ASSUME RedisLoses, UNCHANGED idOf
        PROVE  TInv'
    BY <1>6 DEF RedisLoses, Happens, clientVars, castVars, stopVars
  <1>7. ASSUME NEW c \in Conns, Connect(c), UNCHANGED idOf
        PROVE  TInv'
    BY <1>7 DEF Connect, Happens, eventVars, castVars, stopVars, historyVars
  <1>8. ASSUME NEW c \in Conns, Lose(c), UNCHANGED idOf
        PROVE  TInv'
    BY <1>8, ForgetKeepsTypes DEF Lose, Happens, eventVars, castVars, stopVars
  <1>9. ASSUME NEW c \in Conns, Unregister(c), UNCHANGED idOf
        PROVE  TInv'
    <2>1. /\ lists' \in [Channels -> [Ids -> Conns \union {None}]]
          /\ caster' \in CasterType
          /\ caster'.e = caster.e /\ caster'.to = caster.to /\ caster'.at \in {caster.at, None}
          /\ dead' \in {dead, "race"}
      BY <1>9, RemoveKeepsTypes DEF Unregister
    <2>2. /\ due' \in [Conns -> SUBSET Events] /\ heard' \in [Conns -> SUBSET Events]
          /\ last' = last
      BY <1>9, ForgetKeepsTypes DEF Unregister
    <2>3. queue' \in [Conns -> Seq(Events)] /\ \A d \in Conns : Len(queue'[d]) <= QueueSize
      <3>1. queue' = [queue EXCEPT ![c] = <<>>]
        BY <1>9 DEF Unregister
      <3>2. <<>> \in Seq(Events) /\ Len(<<>>) = 0
        OBVIOUS
      <3> QED
        BY <3>1, <3>2
    <2> QED
      BY <1>9, <2>1, <2>2, <2>3 DEF Unregister, CasterType, eventVars, stopVars
  <1>10. ASSUME NEW r \in Requests, NEW i \in Ids, FindClient(r, i), UNCHANGED idOf
         PROVE  TInv'
    <2>1. PICK chs \in SUBSET Channels :
            request' = [request EXCEPT ![r] = [does |-> "clear", c |-> registered[i], add |-> chs]]
      BY <1>10 DEF FindClient
    <2>2. registered[i] \in Conns
      BY <1>10 DEF FindClient
    <2> QED
      BY <1>10, <2>1, <2>2 DEF FindClient, Happens, eventVars, castVars, stopVars, historyVars
  <1>11. ASSUME NEW r \in Requests, NEW ch \in Channels, Clear(r, ch), UNCHANGED idOf
         PROVE  TInv'
    <2>1. request[r].c \in Conns /\ idOf[request[r].c] \in Ids
      BY <1>11 DEF Clear
    <2>2. Remove(idOf[request[r].c], {ch}) /\ Forget({lists[ch][idOf[request[r].c]]})
      BY <1>11 DEF Clear
    <2>5. wants' \in [Conns -> SUBSET Channels]
      BY <1>11, <2>1 DEF Clear
    <2>3. /\ lists' \in [Channels -> [Ids -> Conns \union {None}]]
          /\ caster' \in CasterType
          /\ caster'.e = caster.e /\ caster'.to = caster.to /\ caster'.at \in {caster.at, None}
          /\ dead' \in {dead, "race"}
      BY <2>1, <2>2, RemoveKeepsTypes
    <2>4. /\ due' \in [Conns -> SUBSET Events] /\ heard' \in [Conns -> SUBSET Events]
          /\ last' = last
      BY <2>2, ForgetKeepsTypes
    <2> QED
      BY <1>11, <2>3, <2>4, <2>5 DEF Clear, CasterType, eventVars, stopVars
  <1>12. ASSUME NEW r \in Requests, Cleared(r), UNCHANGED idOf
         PROVE  TInv'
    <2>1. RequestsOK'
      BY <1>12, RequestGoesOn DEF Cleared
    <2> QED
      BY <1>12, <2>1 DEF Cleared, RequestsOK, RequestType, eventVars, castVars, stopVars, historyVars
  <1>13. ASSUME NEW r \in Requests, NEW ch \in Channels, Add(r, ch), UNCHANGED idOf
         PROVE  TInv'
    <2>1. PICK i \in Ids : i = idOf[request[r].c] /\ request[r].c \in Conns
      BY <1>13 DEF Add
    <2>2. wants' \in [Conns -> SUBSET Channels]
      BY <1>13, <2>1 DEF Add
    <2>5. RequestsOK'
      BY <1>13, RequestAdds DEF Add
    <2>3. CASE registered[i] = None
      <3>1. UNCHANGED <<lists, caster, dead, due, heard, last>>
        BY <1>13, <2>1, <2>3 DEF Add
      <3> QED
        BY <1>13, <2>2, <2>5, <3>1 DEF Add, RequestsOK, RequestType, eventVars, stopVars
    <2>4. CASE registered[i] # None
      <3>1. /\ lists' = [lists EXCEPT ![ch][i] = registered[i]]
            /\ caster' \in {caster, [caster EXCEPT !.left = caster.left \union {i}]}
            /\ dead' \in {dead, "race"}
            /\ Forget({lists[ch][i]} \ {registered[i]})
        BY <1>13, <2>1, <2>4 DEF Add, Racing
      <3>2. lists' \in [Channels -> [Ids -> Conns \union {None}]]
        BY <3>1
      <3>3. caster' \in CasterType /\ caster'.e = caster.e /\ caster'.to = caster.to /\ caster'.at \in {caster.at, None}
        <4>1. PICK k \in CasterType : k = caster
          BY DEF CasterType
        <4>6. k.left \union {i} \in SUBSET Ids
          BY <4>1, <2>1 DEF CasterType
        <4>2. PICK x \in SUBSET Ids : x = k.left \union {i}
          BY <4>6, Zenon
        <4>3. PICK n \in CasterType : n = [k EXCEPT !.left = x]
          BY DEF CasterType
        <4>4. n.e = k.e /\ n.to = k.to /\ n.at = k.at
          BY <4>3 DEF CasterType
        <4>5. caster' = k \/ caster' = n
          BY <3>1, <4>1, <4>2, <4>3
        <4> QED
          BY <4>1, <4>4, <4>5
      <3>4. /\ due' \in [Conns -> SUBSET Events] /\ heard' \in [Conns -> SUBSET Events]
            /\ last' = last
        BY <3>1, ForgetKeepsTypes
      <3> QED
        BY <1>13, <2>2, <2>5, <3>1, <3>2, <3>3, <3>4
           DEF Add, CasterType, RequestsOK, RequestType, eventVars, stopVars
    <2> QED
      BY <2>3, <2>4
  <1>14. ASSUME NEW r \in Requests, EndRequest(r), UNCHANGED idOf
         PROVE  TInv'
    <2>1. RequestsOK'
      BY <1>14, RequestGoesOn DEF EndRequest
    <2> QED
      BY <1>14, <2>1 DEF EndRequest, RequestsOK, RequestType, eventVars, castVars, stopVars, historyVars
  <1>15. ASSUME NEW c \in Conns, Write(c), UNCHANGED idOf
         PROVE  TInv'
    <2>1. PICK e \in Events : e = Head(queue[c])
      BY <1>15 DEF Write
    <2>2. Tail(queue[c]) \in Seq(Events) /\ Len(Tail(queue[c])) <= QueueSize
      BY <1>15 DEF Write
    <2>3. queue' = [queue EXCEPT ![c] = Tail(queue[c])]
      BY <1>15 DEF Write
    <2>4. queue' \in [Conns -> Seq(Events)] /\ \A d \in Conns : Len(queue'[d]) <= QueueSize
      BY <2>2, <2>3
    <2>5. /\ last' = [last EXCEPT ![c] = e]
          /\ due' = [due EXCEPT ![c] = @ \ {e}]
          /\ heard' = [heard EXCEPT ![c] = @ \union {e}] \/ heard' = heard
      BY <1>15, <2>1 DEF Write
    <2> QED
      BY <1>15, <2>4, <2>5 DEF Write, eventVars, clientVars, stopVars
  <1>16. ASSUME NEW c \in Conns, TakeNil(c), UNCHANGED idOf
         PROVE  TInv'
    BY <1>16, ForgetKeepsTypes DEF TakeNil, eventVars, castVars, stopVars
  <1>17. ASSUME Take, UNCHANGED idOf
         PROVE  TInv'
    <2>1. PICK e \in Events : e = Head(bus)
      BY <1>17 DEF Take
    <2>2. bus' = Tail(bus) /\ Tail(bus) \in Seq(Events) /\ Len(Tail(bus)) <= BusSize
      BY <1>17 DEF Take
    <2>3. caster' = [e |-> e, todo |-> Targets[e], at |-> None, left |-> {}, to |-> None]
      BY <1>17, <2>1 DEF Take, Resting
    <2>4. Targets[e] \in Seq(Channels)
      BY TargetsAreChannels
    <2> QED
      BY <1>17, <2>2, <2>3, <2>4 DEF Take, clientVars, stopVars, historyVars
  <1>18. ASSUME LookUp, UNCHANGED idOf
         PROVE  TInv'
    <2>1. PICK ch \in Channels : ch = Head(caster.todo)
      BY <1>18 DEF LookUp
    <2>2. Tail(caster.todo) \in Seq(Channels)
      BY <1>18 DEF LookUp
    <2>3. caster' = [caster EXCEPT !.at = IF IdsOn(ch) = {} THEN None ELSE ch,
                                   !.left = IdsOn(ch), !.todo = Tail(caster.todo)]
      BY <1>18, <2>1 DEF LookUp
    <2>4. IdsOn(ch) \subseteq Ids
      BY DEF IdsOn
    <2>5. caster' \in CasterType /\ caster'.e = caster.e /\ caster'.to = caster.to
      BY <2>1, <2>2, <2>3, <2>4 DEF CasterType
    <2>6. caster.e # None
      BY <1>18 DEF LookUp
    <2> QED
      BY <1>18, <2>5, <2>6 DEF LookUp, CasterType, eventVars, clientVars, stopVars, historyVars
  <1>19. ASSUME NEW i \in Ids, Reach(i), UNCHANGED idOf
         PROVE  TInv'
    <2>1. lists[caster.at][i] \in Conns \union {None} /\ caster.left \ {i} \subseteq Ids
      BY <1>19 DEF Reach
    <2>2. caster' = [caster EXCEPT !.left = caster.left \ {i}, !.to = lists[caster.at][i]]
      BY <1>19 DEF Reach
    <2>3. caster.e # None
      BY <1>19 DEF Reach
    <2>4. caster' \in CasterType /\ caster'.e = caster.e
      BY <2>1, <2>2 DEF CasterType
    <2> QED
      BY <1>19, <2>3, <2>4 DEF Reach, CasterType, eventVars, clientVars, stopVars, historyVars
  <1>20. ASSUME Skip, UNCHANGED idOf
         PROVE  TInv'
    BY <1>20 DEF Skip, eventVars, clientVars, stopVars, historyVars
  <1>21. ASSUME Cast, UNCHANGED idOf
         PROVE  TInv'
    <2>1. PICK e \in Events, c \in Conns : e = caster.e /\ c = caster.to
      BY <1>21 DEF Cast
    <2>2. Append(queue[c], e) \in Seq(Events) /\ Len(Append(queue[c], e)) <= QueueSize
      BY <1>21, <2>1 DEF Cast
    <2>3. queue' = [queue EXCEPT ![c] = Append(queue[c], e)]
      BY <1>21, <2>1 DEF Cast
    <2>4. queue' \in [Conns -> Seq(Events)] /\ \A d \in Conns : Len(queue'[d]) <= QueueSize
      BY <2>2, <2>3
    <2> QED
      BY <1>21, <2>4 DEF Cast, eventVars, clientVars, stopVars, historyVars
  <1>22. ASSUME CastToFull, UNCHANGED idOf
         PROVE  TInv'
    <2>9. /\ due' \in [Conns -> SUBSET Events] /\ heard' \in [Conns -> SUBSET Events]
          /\ last' = last
      BY <1>22, ForgetKeepsTypes DEF CastToFull
    <2>1. caster' \in CasterType /\ caster'.e = caster.e /\ caster'.to = None
      BY <1>22 DEF CastToFull, CasterType
    <2>2. active' \in [Conns -> BOOLEAN]
      BY <1>22 DEF CastToFull
    <2> QED
      BY <1>22, <2>1, <2>2, <2>9 DEF CastToFull, CasterType, eventVars, clientVars, stopVars
  <1>23. ASSUME CastToClosed, UNCHANGED idOf
         PROVE  TInv'
    BY <1>23 DEF CastToClosed, eventVars, clientVars, castVars, stopVars, historyVars
  <1>24. ASSUME EndEvent, UNCHANGED idOf
         PROVE  TInv'
    BY <1>24 DEF EndEvent, Resting, eventVars, clientVars, stopVars, historyVars
  <1>25. ASSUME StopEvents, UNCHANGED idOf
         PROVE  TInv'
    <2>9. /\ due' \in [Conns -> SUBSET Events] /\ heard' \in [Conns -> SUBSET Events]
          /\ last' = last
      BY <1>25, ForgetKeepsTypes DEF StopEvents
    <2>8. happened' \in 0 .. MaxHappens
      BY <1>25 DEF StopEvents, Happens
    <2> QED
      BY <1>25, <2>8, <2>9 DEF StopEvents, clientVars, castVars
  <1>26. ASSUME StopClients, UNCHANGED idOf
         PROVE  TInv'
    BY <1>26 DEF StopClients, eventVars, clientVars, castVars, historyVars
  <1> QED
    BY <1>1, <1>2, <1>3, <1>4, <1>5, <1>6, <1>7, <1>8, <1>9, <1>10, <1>11, <1>12, <1>13,
       <1>14, <1>15, <1>16, <1>17, <1>18, <1>19, <1>20, <1>21, <1>22, <1>23, <1>24, <1>25, <1>26
       DEF Next, Publish, SetSubscriptions, Connection, Caster

\* The variables stay within their types and no buffer holds more than it may,
\* for any number of connections and any sizes of the buffers.
THEOREM BroadcastTypeOK == Spec => []TypeOK
  <1>1. TInv => TypeOK
    BY DEF TInv
  <1> QED
    BY InitTInv, NextTInv, <1>1, PTL DEF Spec

-----------------------------------------------------------------------------
(* Ghosts *)

\* The connection that the broker knows under an id has that id, and its handler
\* has not unregistered it.
Known ==
  \A i \in Ids : registered[i] # None =>
    idOf[registered[i]] = i /\ phase[registered[i]] \in {"open", "lost"}

GInv == TInv /\ Known /\ NoGhosts

LEMMA InitGhosts == Init => Known /\ NoGhosts
  <1> SUFFICES ASSUME Init PROVE Known /\ NoGhosts
    OBVIOUS
  <1> USE BroadcastAssumption
  <1>1. PICK s \in Starts :
          /\ idOf = s.ids
          /\ phase = [c \in Conns |-> CASE c \in s.here -> "open" [] c \in s.lost -> "lost" [] OTHER -> "new"]
          /\ registered = [i \in Ids |-> WithId(s, i, s.here)]
          /\ lists = [ch \in Channels |-> [i \in Ids |-> WithId(s, i, s.early)]]
    BY DEF Init
  <1>2. /\ s.ids \in [Conns -> Ids]
        /\ s.early \subseteq Conns /\ s.here \subseteq Conns /\ s.lost \subseteq Conns
        /\ s.early \subseteq s.here \union s.lost
        /\ \A c \in s.early : \E d \in s.here : s.ids[c] = s.ids[d]
        /\ None \notin Conns
    OBVIOUS
  <1>3. ASSUME NEW i \in Ids, NEW C \in SUBSET Conns, WithId(s, i, C) # None
        PROVE  WithId(s, i, C) \in C /\ s.ids[WithId(s, i, C)] = i
    BY <1>3 DEF WithId
  <1>4. Known
    BY <1>1, <1>2, <1>3 DEF Known
  <1>5. ASSUME NEW ch \in Channels, NEW i \in IdsOn(ch)
        PROVE  /\ registered[i] # None
               /\ idOf[lists[ch][i]] = i
               /\ phase[lists[ch][i]] \in {"open", "lost"}
    <2>1. i \in Ids /\ lists[ch][i] # None /\ lists[ch][i] = WithId(s, i, s.early)
      BY <1>1, <1>5 DEF IdsOn
    <2>2. lists[ch][i] \in s.early /\ s.ids[lists[ch][i]] = i
      BY <1>2, <1>3, <2>1
    <2>3. PICK d \in s.here : s.ids[d] = i
      BY <1>2, <2>2
    <2>4. WithId(s, i, s.here) # None
      BY <1>2, <2>3 DEF WithId
    <2> QED
      BY <1>1, <1>2, <2>1, <2>2, <2>4
  <1> QED
    BY <1>4, <1>5 DEF NoGhosts

\* What is listed and known stays so where connections neither come nor go.
LEMMA SamePlaces ==
  ASSUME Known, NoGhosts, UNCHANGED <<idOf, registered, phase>>,
         \A ch \in Channels : \A i \in Ids :
           lists'[ch][i] \in {lists[ch][i], None, registered[i]}
  PROVE  Known' /\ NoGhosts'
  <1>1. Known'
    BY Zenon DEF Known
  <1>2. ASSUME NEW ch \in Channels, NEW i \in Ids, lists'[ch][i] # None
        PROVE  /\ registered'[i] # None
               /\ idOf'[lists'[ch][i]] = i
               /\ phase'[lists'[ch][i]] \in {"open", "lost"}
    <2>1. CASE lists'[ch][i] = lists[ch][i]
      BY <1>2, <2>1 DEF NoGhosts, IdsOn
    <2>2. CASE lists'[ch][i] = registered[i]
      BY <1>2, <2>2 DEF Known
    <2> QED
      BY <1>2, <2>1, <2>2
  <1> QED
    BY <1>1, <1>2 DEF NoGhosts, IdsOn

LEMMA NextGhosts ==
  ASSUME GInv, [Next]_vars
  PROVE  Known' /\ NoGhosts'
  <1>0. /\ TypeOK /\ Busy /\ Known /\ NoGhosts
        /\ None \notin Conns
    BY BroadcastAssumption DEF GInv, TInv
  <1>1. idOf' = idOf
    BY DEF Next, vars
  <1>2. ASSUME UNCHANGED <<registered, phase, lists>>
        PROVE  Known' /\ NoGhosts'
    BY <1>0, <1>1, <1>2, SamePlaces
  <1>3. ASSUME NEW c \in Conns, Connect(c)
        PROVE  Known' /\ NoGhosts'
    <2>1. /\ registered'[idOf[c]] = c /\ \A i \in Ids \ {idOf[c]} : registered'[i] = registered[i]
          /\ phase[c] = "new" /\ phase'[c] = "open" /\ \A d \in Conns \ {c} : phase'[d] = phase[d]
          /\ lists' = lists
          /\ idOf[c] \in Ids
      BY <1>0, <1>3 DEF Connect, TypeOK
    <2>2. \A i \in Ids : registered[i] \in Conns \union {None}
      BY <1>0 DEF TypeOK
    <2>3. \A ch \in Channels : \A i \in Ids : lists[ch][i] \in Conns \union {None}
      BY <1>0 DEF TypeOK
    <2>4. Known'
      BY <1>0, <1>1, <2>1, <2>2 DEF Known
    <2>5. NoGhosts'
      BY <1>0, <1>1, <2>1, <2>3 DEF NoGhosts, IdsOn
    <2> QED
      BY <2>4, <2>5
  <1>4. ASSUME NEW c \in Conns, Lose(c) \/ TakeNil(c)
        PROVE  Known' /\ NoGhosts'
    <2>1. /\ UNCHANGED <<registered, lists>>
          /\ phase'[c] = "lost" /\ \A d \in Conns \ {c} : phase'[d] = phase[d]
      BY <1>0, <1>4 DEF Lose, TakeNil, TypeOK
    <2>2. \A i \in Ids : registered[i] \in Conns \union {None}
      BY <1>0 DEF TypeOK
    <2>3. \A ch \in Channels : \A i \in Ids : lists[ch][i] \in Conns \union {None}
      BY <1>0 DEF TypeOK
    <2>4. Known'
      BY <1>0, <1>1, <2>1, <2>2 DEF Known
    <2>5. NoGhosts'
      BY <1>0, <1>1, <2>1, <2>3 DEF NoGhosts, IdsOn
    <2> QED
      BY <2>4, <2>5
  <1>5. ASSUME NEW c \in Conns, Unregister(c)
        PROVE  Known' /\ NoGhosts'
    <2>0. idOf[c] \in Ids
      BY <1>0 DEF TypeOK
    <2>1. /\ registered'[idOf[c]] = None /\ \A i \in Ids \ {idOf[c]} : registered'[i] = registered[i]
          /\ phase'[c] = "gone" /\ \A d \in Conns \ {c} : phase'[d] = phase[d]
      BY <1>0, <1>5, <2>0 DEF Unregister, TypeOK
    <2>2. \A ch \in Channels : /\ lists'[ch][idOf[c]] = None
                               /\ \A i \in Ids \ {idOf[c]} : lists'[ch][i] = lists[ch][i]
      BY <1>0, <1>5, <2>0 DEF Unregister, Remove, TypeOK
    <2>3. \A i \in Ids : registered[i] \in Conns \union {None}
      BY <1>0 DEF TypeOK
    <2>4. \A ch \in Channels : \A i \in Ids : lists[ch][i] \in Conns \union {None}
      BY <1>0 DEF TypeOK
    <2>5. Known'
      BY <1>0, <1>1, <2>0, <2>1, <2>3 DEF Known
    <2>6. NoGhosts'
      BY <1>0, <1>1, <2>0, <2>1, <2>2, <2>4 DEF NoGhosts, IdsOn
    <2> QED
      BY <2>5, <2>6
  <1>6. ASSUME NEW r \in Requests, NEW ch \in Channels, Clear(r, ch)
        PROVE  Known' /\ NoGhosts'
    <2>1. PICK i \in Ids : Remove(i, {ch})
      BY <1>0, <1>6 DEF Clear, Busy, TypeOK
    <2>2. \A x \in Channels : \A j \in Ids : lists'[x][j] \in {lists[x][j], None}
      BY <1>0, <2>1 DEF Remove, TypeOK
    <2>3. UNCHANGED <<registered, phase>>
      BY <1>6 DEF Clear
    <2> QED
      BY <1>0, <1>1, <2>2, <2>3, SamePlaces
  <1>7. ASSUME NEW r \in Requests, NEW ch \in Channels, Add(r, ch)
        PROVE  Known' /\ NoGhosts'
    <2>1. PICK i \in Ids : lists' = lists \/ lists' = [lists EXCEPT ![ch][i] = registered[i]]
      BY <1>0, <1>7 DEF Add, Busy, TypeOK
    <2>2. \A x \in Channels : \A j \in Ids : lists'[x][j] \in {lists[x][j], registered[j]}
      <3>1. lists \in [Channels -> [Ids -> Conns \union {None}]]
        BY <1>0 DEF TypeOK
      <3>2. CASE lists' = lists
        BY <3>2
      <3>3. CASE lists' = [lists EXCEPT ![ch][i] = registered[i]]
        <4>1. lists' = [lists EXCEPT ![ch] = [lists[ch] EXCEPT ![i] = registered[i]]]
          BY <3>3
        <4> SUFFICES ASSUME NEW x \in Channels, NEW j \in Ids
                     PROVE  lists'[x][j] \in {lists[x][j], registered[j]}
          OBVIOUS
        <4>2. CASE x = ch
          <5>1. lists'[x] = [lists[ch] EXCEPT ![i] = registered[i]]
            BY <3>1, <4>1, <4>2
          <5>2. lists[ch] \in [Ids -> Conns \union {None}]
            BY <3>1
          <5> QED
            BY <4>2, <5>1, <5>2
        <4>3. CASE x # ch
          BY <3>1, <4>1, <4>3
        <4> QED
          BY <4>2, <4>3
      <3> QED
        BY <2>1, <3>2, <3>3
    <2>3. UNCHANGED <<registered, phase>>
      BY <1>7 DEF Add
    <2> QED
      BY <1>0, <1>1, <2>2, <2>3, SamePlaces
  <1> DEFINE Elsewhere ==
        \/ \E e \in Events : Begin(e) \/ PublishLocally(e)
        \/ Relay \/ RelayToClosed \/ RedisLoses
        \/ \E r \in Requests : (\E i \in Ids : FindClient(r, i)) \/ Cleared(r) \/ EndRequest(r)
        \/ \E c \in Conns : Write(c)
        \/ Take \/ LookUp \/ (\E i \in Ids : Reach(i)) \/ EndEvent
        \/ Skip \/ Cast \/ CastToFull \/ CastToClosed
        \/ StopEvents \/ StopClients
        \/ UNCHANGED vars
  <1>8. CASE Elsewhere
    <2>1. UNCHANGED <<registered, phase, lists>>
      BY <1>8 DEF Begin, PublishLocally, Relay, RelayToClosed, RedisLoses, FindClient, Cleared,
         EndRequest, Write, Take, LookUp, Reach, EndEvent, Skip, Cast, CastToFull, CastToClosed,
         StopEvents, StopClients, vars, clientVars
    <2> QED
      BY <1>2, <2>1
  <1> QED
    BY <1>3, <1>4, <1>5, <1>6, <1>7, <1>8
       DEF Next, Publish, SetSubscriptions, Connection, Caster

\* No channel lists a connection that has gone, or one whose id the broker does
\* not know, for any number of connections that share ids and of requests that
\* set subscriptions meanwhile.
THEOREM BroadcastNoGhosts == Spec => []NoGhosts
  <1>1. Init => GInv
    BY InitTInv, InitGhosts DEF GInv
  <1>2. GInv /\ [Next]_vars => GInv'
    BY NextTInv, NextGhosts DEF GInv
  <1>3. GInv => NoGhosts
    BY DEF GInv
  <1> QED
    BY <1>1, <1>2, <1>3, PTL DEF Spec

-----------------------------------------------------------------------------
(* Panics *)

\* While the server is up, no connection's channel is closed, and nothing has
\* been sent on a closed one.
Up == stopping = "no" => closed = {} /\ dead \notin {"relay", "caster"}

\* Only the shutdown closes channels that goroutines still send on, whatever
\* connections end under the goroutine that ranges over them.
THEOREM BroadcastPanicsOnlyInShutdown == Spec => []PanicsOnlyInShutdown
  <1>1. Init => Up
    BY DEF Init, Up
  <1>2. ASSUME Up, [Next]_vars
        PROVE  Up'
    <2>1. CASE UNCHANGED <<stopping, closed, dead>>
      BY <1>2, <2>1 DEF Up
    <2>2. CASE stopping' # "no"
      BY <2>2 DEF Up
    <2>3. CASE UNCHANGED <<stopping, closed>> /\ dead' \in {dead, "race"}
      BY <1>2, <2>3 DEF Up
    <2>4. ASSUME CastToClosed
          PROVE  Up'
      BY <1>2, <2>4 DEF CastToClosed, Up, stopVars
    <2>5. ASSUME NEW c \in Conns, Unregister(c)
          PROVE  Up'
      BY <2>3, <2>5 DEF Unregister, Remove, Racing, stopVars
    <2>6. ASSUME NEW r \in Requests, NEW ch \in Channels, Clear(r, ch) \/ Add(r, ch)
          PROVE  Up'
      BY <2>3, <2>6 DEF Clear, Add, Remove, Racing, stopVars
    <2>7. CASE RelayToClosed \/ StopEvents \/ StopClients
      BY <2>2, <2>7 DEF RelayToClosed, StopEvents, StopClients, stopVars
    <2> DEFINE Elsewhere ==
          \/ \E e \in Events : Begin(e) \/ PublishLocally(e)
          \/ Relay \/ RedisLoses
          \/ \E r \in Requests : (\E i \in Ids : FindClient(r, i)) \/ Cleared(r) \/ EndRequest(r)
          \/ \E c \in Conns : Connect(c) \/ Lose(c) \/ TakeNil(c) \/ Write(c)
          \/ Take \/ LookUp \/ (\E i \in Ids : Reach(i)) \/ EndEvent
          \/ Skip \/ Cast \/ CastToFull
          \/ UNCHANGED vars
    <2>8. CASE Elsewhere
      <3>1. UNCHANGED <<stopping, closed, dead>>
        BY <2>8 DEF Begin, PublishLocally, Relay, RedisLoses, FindClient, Cleared, EndRequest,
           Connect, Lose, TakeNil, Write, Take, LookUp, Reach, EndEvent, Skip, Cast, CastToFull,
           vars, stopVars
      <3> QED
        BY <2>1, <3>1
    <2> QED
      BY <1>2, <2>4, <2>5, <2>6, <2>7, <2>8
         DEF Next, Publish, SetSubscriptions, Connection, Caster
  <1>3. Up => PanicsOnlyInShutdown
    BY DEF Up, PanicsOnlyInShutdown
  <1> QED
    BY <1>1, <1>2, <1>3, PTL DEF Spec

-----------------------------------------------------------------------------
(* Order *)

\* v is in the sequence; wherever f is, e comes after it.
In(v, s) == \E k \in DOMAIN s : s[k] = v
Behind(e, f, s) == \A i \in DOMAIN s : s[i] = f => \E j \in DOMAIN s : j > i /\ s[j] = e

\* The events that a connection is to hear or has heard while it had its places,
\* and those places.
Mine(c) == due[c] \union heard[c]
Place(c, ch) == lists[ch][idOf[c]] = c

\* The goroutine has yet to give the connection what it broadcasts.
Ahead(c) ==
  \/ caster.to = c
  \/ caster.at # None /\ idOf[c] \in caster.left /\ Place(c, caster.at)
  \/ \E k \in DOMAIN caster.todo : Place(c, caster.todo[k])

\* An event has no prior one before it begins, and those it has are published.
Priors ==
  /\ \A e \in Events : e \notin prior[e]
  /\ \A e \in Events : \A f \in prior[e] : stage[f] = "done" /\ stage[e] # "new"

\* Whoever is to hear an event, or has heard it, has kept its place in one of
\* the channels of the event.
Listed ==
  \A c \in Conns : \A e \in Mine(c) :
    /\ stage[e] # "new" /\ open /\ active[c]
    /\ \E ch \in ChannelsOf(e) : Place(c, ch)

\* A copy of an event will get to the bus, or from there to a connection.
ToBus(e) == stage[e] = "begun" \/ In(e, redis)
Later(e, c) == ToBus(e) \/ In(e, bus) \/ (caster.e = e /\ Ahead(c))

Sound == ~lossy /\ dead = "no" /\ open

\* All the way from Redis to a connection an event comes after the last copy of
\* every one that was published before it.
Ordered ==
  Sound =>
  /\ relaying = Redis
  /\ ~Redis => redis = <<>>
  /\ \A e \in Events : \A f \in prior[e] :
       /\ Behind(e, f, redis)
       /\ ToBus(e) \/ Behind(e, f, bus)
       /\ caster.e = f => ToBus(e) \/ In(e, bus)
  /\ \A c \in Conns : \A e \in Mine(c) : \A f \in prior[e] :
       /\ Later(e, c) \/ Behind(e, f, queue[c])
       /\ last[c] = f => Later(e, c) \/ In(e, queue[c])

OInv == GInv /\ Priors /\ Listed /\ Ordered

\* Sequences.
LEMMA InAppend ==
  ASSUME NEW S, NEW s \in Seq(S), NEW x \in S
  PROVE  /\ In(x, Append(s, x))
         /\ \A v : In(v, s) => In(v, Append(s, x))
         /\ \A f : f # x => Behind(x, f, Append(s, x))
         /\ \A e, f : Behind(e, f, s) /\ f # x => Behind(e, f, Append(s, x))
  <1>1. PICK q : q = Append(s, x)
    OBVIOUS
  <1>2. /\ DOMAIN s = 1 .. Len(s) /\ DOMAIN q = 1 .. (Len(s) + 1) /\ Len(s) \in Nat
        /\ q[Len(s) + 1] = x
        /\ \A i \in DOMAIN s : q[i] = s[i]
    BY <1>1
  <1>3. Len(s) + 1 \in DOMAIN q /\ \A i \in DOMAIN s : i \in DOMAIN q /\ Len(s) + 1 > i
    BY <1>2
  <1>4. \A i \in DOMAIN q : i \in DOMAIN s \/ i = Len(s) + 1
    BY <1>2
  <1>5. In(x, q) /\ \A v : In(v, s) => In(v, q)
    BY <1>2, <1>3 DEF In
  <1>6. ASSUME NEW f, f # x
        PROVE  Behind(x, f, q)
    BY <1>2, <1>3, <1>4, <1>6 DEF Behind
  <1>7. ASSUME NEW e, NEW f, Behind(e, f, s), f # x
        PROVE  Behind(e, f, q)
    BY <1>2, <1>3, <1>4, <1>7 DEF Behind
  <1> QED
    BY <1>1, <1>5, <1>6, <1>7

LEMMA InTail ==
  ASSUME NEW S, NEW s \in Seq(S), s # <<>>
  PROVE  /\ Head(s) \in S /\ Tail(s) \in Seq(S)
         /\ In(Head(s), s)
         /\ \A v : In(v, s) => v = Head(s) \/ In(v, Tail(s))
         /\ \A e, f : Behind(e, f, s) => Behind(e, f, Tail(s))
         /\ \A e : Behind(e, Head(s), s) => In(e, Tail(s))
  <1>1. PICK t : t = Tail(s)
    OBVIOUS
  <1>2. PICK h : h = Head(s)
    OBVIOUS
  <1>3. /\ DOMAIN s = 1 .. Len(s) /\ DOMAIN t = 1 .. (Len(s) - 1) /\ Len(s) \in Nat \ {0}
        /\ s[1] = h
        /\ \A i \in DOMAIN t : t[i] = s[i + 1]
    BY <1>1, <1>2
  <1>4. \A i \in DOMAIN s : i # 1 => i - 1 \in DOMAIN t /\ t[i - 1] = s[i]
    BY <1>3
  <1>5. \A i \in DOMAIN t : i + 1 \in DOMAIN s
    BY <1>3
  <1>6. 1 \in DOMAIN s
    BY <1>3
  <1>7. In(h, s)
    BY <1>3, <1>6 DEF In
  <1>8. \A v : In(v, s) => v = h \/ In(v, t)
    BY <1>3, <1>4 DEF In
  <1>9. ASSUME NEW e, NEW f, Behind(e, f, s)
        PROVE  Behind(e, f, t)
    <2> SUFFICES ASSUME NEW i \in DOMAIN t, t[i] = f
                 PROVE  \E j \in DOMAIN t : j > i /\ t[j] = e
      BY DEF Behind
    <2>1. PICK j \in DOMAIN s : j > i + 1 /\ s[j] = e
      BY <1>3, <1>5, <1>9 DEF Behind
    <2>2. j - 1 \in DOMAIN t /\ t[j - 1] = e /\ j - 1 > i
      BY <1>3, <1>4, <2>1
    <2> QED
      BY <2>2
  <1>10. ASSUME NEW e, Behind(e, h, s)
         PROVE  In(e, t)
    <2>1. PICK j \in DOMAIN s : j > 1 /\ s[j] = e
      BY <1>3, <1>6, <1>10 DEF Behind
    <2>2. j # 1
      BY <1>3, <2>1
    <2> QED
      BY <1>4, <2>1, <2>2 DEF In
  <1>11. Head(s) \in S /\ Tail(s) \in Seq(S)
    OBVIOUS
  <1> QED
    BY <1>1, <1>2, <1>7, <1>8, <1>9, <1>10, <1>11

\* What is on the whole way comes from the types.
LEMMA NextPriors ==
  ASSUME TInv, Priors, [Next]_vars
  PROVE  Priors'
  <1>0. /\ stage \in [Events -> {"new", "begun", "done"}]
        /\ prior \in [Events -> SUBSET Events]
    BY DEF TInv, TypeOK
  <1>1. CASE UNCHANGED <<stage, prior>>
    BY <1>1 DEF Priors
  <1>2. ASSUME NEW e \in Events, Begin(e)
        PROVE  Priors'
    <2>1. /\ stage[e] = "new" /\ stage' = [stage EXCEPT ![e] = "begun"]
          /\ prior' = [prior EXCEPT ![e] = {f \in Events : stage[f] = "done"}]
      BY <1>2 DEF Begin
    <2>2. \A f \in Events : stage[f] = "done" => f # e /\ stage'[f] = "done"
      BY <1>0, <2>1
    <2>3. \A f \in Events : stage[f] # "new" => stage'[f] # "new"
      BY <1>0, <2>1
    <2>4. stage'[e] = "begun" /\ prior'[e] = {f \in Events : stage[f] = "done"}
          /\ \A g \in Events \ {e} : prior'[g] = prior[g]
      BY <1>0, <2>1
    <2>5. \A g \in Events : prior[g] \subseteq Events
      BY <1>0
    <2> QED
      BY <2>2, <2>3, <2>4, <2>5 DEF Priors
  <1>3. ASSUME NEW e \in Events, PublishLocally(e)
        PROVE  Priors'
    <2>1. stage[e] = "begun" /\ stage' = [stage EXCEPT ![e] = "done"] /\ prior' = prior
      BY <1>3 DEF PublishLocally
    <2>2. \A f \in Events : stage'[f] = stage[f] \/ stage'[f] = "done"
      BY <1>0, <2>1
    <2>3. \A f \in Events : stage[f] = "done" => stage'[f] = "done"
      BY <1>0, <2>1
    <2>4. \A g \in Events : prior[g] \subseteq Events
      BY <1>0
    <2> QED
      BY <2>1, <2>2, <2>3, <2>4 DEF Priors
  <1> DEFINE Others ==
        \/ Relay \/ RelayToClosed \/ RedisLoses
        \/ \E r \in Requests : \/ \E i \in Ids : FindClient(r, i)
                               \/ \E ch \in Channels : Clear(r, ch) \/ Add(r, ch)
                               \/ Cleared(r) \/ EndRequest(r)
        \/ \E c \in Conns : Connect(c) \/ Lose(c) \/ Unregister(c) \/ Write(c) \/ TakeNil(c)
        \/ Take \/ LookUp \/ (\E i \in Ids : Reach(i)) \/ EndEvent
        \/ Skip \/ Cast \/ CastToFull \/ CastToClosed
        \/ StopEvents \/ StopClients \/ UNCHANGED vars
  <1>4. CASE Others
    <2>1. UNCHANGED <<stage, prior>>
      BY <1>4 DEF Relay, RelayToClosed, RedisLoses, FindClient, Clear, Add, Cleared, EndRequest,
         Connect, Lose, Unregister, Write, TakeNil, Take, LookUp, Reach, EndEvent, Skip, Cast,
         CastToFull, CastToClosed, StopEvents, StopClients, vars, eventVars
    <2> QED
      BY <1>1, <2>1
  <1> QED
    BY <1>2, <1>3, <1>4 DEF Next, Publish, SetSubscriptions, Connection, Caster

-----------------------------------------------------------------------------
(* Places *)

\* Whoever keeps something it is to hear or has heard, keeps its places and what
\* the goroutine has in store for it.
Keeps(c) ==
  /\ Mine(c)' = Mine(c)
  /\ \A ch \in Channels : Place(c, ch) => Place(c, ch)'
  /\ Ahead(c) => Ahead(c)'

LEMMA ForgetMine ==
  ASSUME TInv, NEW cs, Forget(cs), NEW c \in Conns
  PROVE  /\ c \in cs => Mine(c)' = {}
         /\ c \notin cs => Mine(c)' = Mine(c)
  BY DEF TInv, TypeOK, Forget, Mine

\* The goroutine's record, read as such.
LEMMA CasterFacts ==
  ASSUME TInv
  PROVE  /\ caster \in CasterType
         /\ caster.at \in Channels \union {None}
         /\ \A k \in DOMAIN caster.todo : caster.todo[k] \in Channels
  <1>1. caster \in CasterType
    BY DEF TInv, TypeOK, CasterType
  <1>2. caster.todo \in Seq(Channels) /\ caster.at \in Channels \union {None}
    BY <1>1 DEF CasterType
  <1> QED
    BY <1>1, <1>2

\* Removing an id keeps the places of everyone else.
LEMMA RemoveKeeps ==
  ASSUME GInv, NEW i \in Ids, NEW chs \in SUBSET Channels, Remove(i, chs), idOf' = idOf,
         NEW c \in Conns, \A ch \in chs : Place(c, ch) => idOf[c] # i
  PROVE  /\ \A ch \in Channels : Place(c, ch) => Place(c, ch)'
         /\ Ahead(c) => Ahead(c)'
         /\ caster'.e = caster.e
  <1>0. /\ TInv /\ lists \in [Channels -> [Ids -> Conns \union {None}]] /\ idOf \in [Conns -> Ids]
        /\ None \notin Conns /\ None \notin Channels
    BY BroadcastAssumption DEF GInv, TInv, TypeOK
  <1>1. lists' = [ch \in Channels |-> IF ch \in chs THEN [lists[ch] EXCEPT ![i] = None] ELSE lists[ch]]
    BY DEF Remove
  <1>2. ASSUME NEW ch \in Channels, Place(c, ch)
        PROVE  Place(c, ch)'
    <2>1. CASE ch \notin chs
      BY <1>0, <1>1, <1>2, <2>1 DEF Place
    <2>2. CASE ch \in chs
      <3>1. idOf[c] # i /\ idOf[c] \in Ids
        BY <1>0, <1>2, <2>2
      <3>2. lists'[ch] = [lists[ch] EXCEPT ![i] = None]
        BY <1>1, <2>2
      <3>3. lists[ch] \in [Ids -> Conns \union {None}]
        BY <1>0
      <3> QED
        BY <1>2, <3>1, <3>2, <3>3 DEF Place
    <2> QED
      BY <2>1, <2>2
  <1>3. PICK k \in CasterType : k = caster
    BY <1>0, CasterFacts
  <1>4. \/ caster' = k
        \/ k.at \in chs /\ IdsOn(k.at) \subseteq {i} /\ caster' = [k EXCEPT !.at = None, !.left = {}]
        \/ k.at \in chs /\ caster' = [k EXCEPT !.left = k.left \ {i}]
    BY <1>3 DEF Remove
  <1>5. caster'.e = k.e /\ caster'.to = k.to /\ caster'.todo = k.todo
    BY <1>4 DEF CasterType
  <1>6. ASSUME Ahead(c)
        PROVE  Ahead(c)'
    <2>1. CASE caster.to = c
      BY <1>3, <1>5, <2>1 DEF Ahead
    <2>2. CASE \E j \in DOMAIN caster.todo : Place(c, caster.todo[j])
      <3>1. PICK j \in DOMAIN k.todo : Place(c, k.todo[j])
        BY <1>3, <2>2
      <3>2. k.todo[j] \in Channels
        BY <1>0, <1>3, CasterFacts
      <3>3. PICK ch \in Channels : ch = k.todo[j]
        BY <3>2
      <3>4. Place(c, ch)'
        BY <1>2, <3>1, <3>3
      <3>5. j \in DOMAIN caster'.todo /\ caster'.todo[j] = ch
        BY <1>5, <3>3
      <3>6. lists'[caster'.todo[j]][idOf'[c]] = c
        BY <3>4, <3>5 DEF Place
      <3> QED
        BY <3>5, <3>6 DEF Ahead, Place
    <2>3. CASE caster.at # None /\ idOf[c] \in caster.left /\ Place(c, caster.at)
      <3>1. PICK ch \in Channels : ch = k.at
        BY <1>0, <1>3, <2>3, CasterFacts
      <3>2. Place(c, ch) /\ idOf[c] \in k.left
        BY <1>3, <2>3, <3>1
      <3>3. idOf[c] \in IdsOn(ch)
        BY <1>0, <3>2 DEF Place, IdsOn
      <3>4. ch \in chs => idOf[c] # i
        BY <3>2
      <3>5. caster'.at = ch /\ idOf[c] \in caster'.left
        <4>1. CASE caster' = k
          BY <3>1, <3>2, <4>1
        <4>2. CASE k.at \in chs /\ caster' = [k EXCEPT !.left = k.left \ {i}]
          BY <3>1, <3>2, <3>4, <4>2 DEF CasterType
        <4>3. ~ (k.at \in chs /\ IdsOn(k.at) \subseteq {i})
          BY <3>1, <3>3, <3>4
        <4> QED
          BY <1>4, <4>1, <4>2, <4>3
      <3>6. lists'[ch][idOf'[c]] = c
        BY <1>2, <3>2 DEF Place
      <3> QED
        BY <1>0, <3>5, <3>6 DEF Ahead, Place
    <2> QED
      BY <1>6, <2>1, <2>2, <2>3 DEF Ahead
  <1> QED
    BY <1>2, <1>3, <1>5, <1>6

LEMMA UnregisterKeeps ==
  ASSUME GInv, NEW c \in Conns, Unregister(c), idOf' = idOf, NEW d \in Conns, Mine(d)' # {}
  PROVE  Keeps(d) /\ caster'.e = caster.e /\ queue'[d] = queue[d]
  <1>0. TInv /\ idOf[c] \in Ids
    BY DEF GInv, TInv, TypeOK
  <1>1. idOf[d] # idOf[c] /\ Mine(d)' = Mine(d)
    BY <1>0, ForgetMine DEF Unregister
  <1>2. queue'[d] = queue[d]
    BY <1>0, <1>1 DEF Unregister, TInv, TypeOK
  <1>3. Remove(idOf[c], Channels)
    BY DEF Unregister
  <1> QED
    BY <1>0, <1>1, <1>2, <1>3, RemoveKeeps DEF Keeps

LEMMA ClearKeeps ==
  ASSUME GInv, NEW r \in Requests, NEW ch \in Channels, Clear(r, ch), idOf' = idOf,
         NEW d \in Conns, Mine(d)' # {}
  PROVE  Keeps(d) /\ caster'.e = caster.e
  <1>0. TInv /\ request[r].c \in Conns /\ idOf[request[r].c] \in Ids
    BY DEF GInv, TInv, TypeOK, Busy, Clear
  <1>1. PICK i \in Ids : i = idOf[request[r].c]
    BY <1>0
  <1>2. Remove(i, {ch}) /\ Forget({lists[ch][i]})
    BY <1>1 DEF Clear
  <1>3. d # lists[ch][i] /\ Mine(d)' = Mine(d)
    BY <1>0, <1>2, ForgetMine
  <1>4. \A x \in {ch} : Place(d, x) => idOf[d] # i
    BY <1>3 DEF Place
  <1> QED
    BY <1>2, <1>3, <1>4, RemoveKeeps DEF Keeps

LEMMA AddKeeps ==
  ASSUME GInv, NEW r \in Requests, NEW ch \in Channels, Add(r, ch), idOf' = idOf,
         NEW d \in Conns, Mine(d)' # {}
  PROVE  Keeps(d) /\ caster'.e = caster.e
  <1>0. /\ TInv /\ request[r].c \in Conns /\ idOf[request[r].c] \in Ids
        /\ lists \in [Channels -> [Ids -> Conns \union {None}]] /\ idOf \in [Conns -> Ids]
    BY DEF GInv, TInv, TypeOK, Busy, Add
  <1>1. PICK i \in Ids : i = idOf[request[r].c]
    BY <1>0
  <1>2. CASE registered[i] = None
    <2>1. UNCHANGED <<lists, caster, due, heard>>
      BY <1>1, <1>2 DEF Add
    <2> QED
      BY <2>1 DEF Keeps, Mine, Place, Ahead
  <1>3. CASE registered[i] # None
    <2>1. /\ lists' = [lists EXCEPT ![ch][i] = registered[i]]
          /\ caster' \in {caster, [caster EXCEPT !.left = caster.left \union {i}]}
          /\ Forget({lists[ch][i]} \ {registered[i]})
      BY <1>1, <1>3 DEF Add
    <2>2. Mine(d)' = Mine(d) /\ (d = lists[ch][i] => d = registered[i])
      BY <1>0, <2>1, ForgetMine
    <2>3. ASSUME NEW x \in Channels, Place(d, x)
          PROVE  Place(d, x)'
      <3>1. lists' = [lists EXCEPT ![ch] = [lists[ch] EXCEPT ![i] = registered[i]]]
        BY <2>1
      <3>2. CASE x # ch
        BY <1>0, <2>3, <3>1, <3>2 DEF Place
      <3>3. CASE x = ch
        <4>1. lists'[x] = [lists[ch] EXCEPT ![i] = registered[i]]
          BY <1>0, <3>1, <3>3
        <4>2. lists[ch] \in [Ids -> Conns \union {None}] /\ idOf[d] \in Ids
          BY <1>0
        <4> QED
          BY <2>2, <2>3, <3>3, <4>1, <4>2 DEF Place
      <3> QED
        BY <3>2, <3>3
    <2>4. PICK k \in CasterType : k = caster
      BY <1>0, CasterFacts
    <2>5. PICK L : L = k.left \union {i}
      OBVIOUS
    <2>6. caster' = k \/ caster' = [k EXCEPT !.left = L]
      BY <2>1, <2>4, <2>5
    <2>7. caster'.e = k.e /\ caster'.to = k.to /\ caster'.todo = k.todo /\ caster'.at = k.at
          /\ k.left \subseteq caster'.left
      BY <2>5, <2>6 DEF CasterType
    <2>8. ASSUME Ahead(d)
          PROVE  Ahead(d)'
      <3>1. CASE caster.to = d
        BY <2>4, <2>7, <3>1 DEF Ahead
      <3>2. CASE \E j \in DOMAIN caster.todo : Place(d, caster.todo[j])
        <4>1. PICK j \in DOMAIN k.todo : Place(d, k.todo[j])
          BY <2>4, <3>2
        <4>2. PICK x \in Channels : x = k.todo[j]
          BY <1>0, <2>4, CasterFacts
        <4>3. Place(d, x)' /\ caster'.todo[j] = x /\ j \in DOMAIN caster'.todo
          BY <2>3, <2>7, <4>1, <4>2
        <4>4. lists'[caster'.todo[j]][idOf'[d]] = d
          BY <4>3 DEF Place
        <4> QED
          BY <4>3, <4>4 DEF Ahead, Place
      <3>3. CASE caster.at # None /\ idOf[d] \in caster.left /\ Place(d, caster.at)
        <4>1. PICK x \in Channels : x = k.at
          BY <1>0, <2>4, <3>3, CasterFacts
        <4>2. Place(d, x)' /\ caster'.at = x /\ idOf[d] \in caster'.left /\ x # None
          BY <2>3, <2>4, <2>7, <3>3, <4>1
        <4>3. lists'[caster'.at][idOf'[d]] = d
          BY <4>2 DEF Place
        <4> QED
          BY <4>2, <4>3 DEF Ahead, Place
      <3> QED
        BY <2>8, <3>1, <3>2, <3>3 DEF Ahead
    <2> QED
      BY <2>2, <2>3, <2>4, <2>7, <2>8 DEF Keeps
  <1> QED
    BY <1>2, <1>3

\* Steps that list and unlist nobody leave the places as they are.
LEMMA SameLists ==
  ASSUME UNCHANGED <<idOf, lists>>, NEW d
  PROVE  /\ \A ch : Place(d, ch)' <=> Place(d, ch)
         /\ caster' = caster => (Ahead(d)' <=> Ahead(d))
  BY DEF Place, Ahead

LEMMA ListedKept ==
  ASSUME Listed, \A e \in Events : stage[e] # "new" => stage'[e] # "new",
         TInv, TInv',
         \A d \in Conns : Mine(d)' # {} =>
           /\ Mine(d)' \subseteq Mine(d)
           /\ open' = open /\ active'[d] = active[d]
           /\ \A ch \in Channels : Place(d, ch) => Place(d, ch)'
  PROVE  Listed'
  <1> SUFFICES ASSUME NEW d \in Conns, NEW e \in Mine(d)'
               PROVE  /\ stage'[e] # "new" /\ open' /\ active'[d]
                      /\ \E ch \in ChannelsOf(e) : Place(d, ch)'
    BY DEF Listed
  <1>1. e \in Mine(d) /\ e \in Events
    BY DEF Mine, TInv, TypeOK
  <1>2. PICK ch \in ChannelsOf(e) : Place(d, ch)
    BY <1>1 DEF Listed
  <1>3. ch \in Channels
    BY <1>1, <1>2, TargetsAreChannels DEF ChannelsOf
  <1> QED
    BY <1>1, <1>2, <1>3 DEF Listed

\* A step that touches no copy of an event and no order.
LEMMA OrderKept ==
  ASSUME Ordered, UNCHANGED <<stage, redis, relaying, bus, prior, last>>,
         caster'.e = caster.e, Sound' => Sound,
         \A d \in Conns : Mine(d)' # {} =>
           /\ Mine(d)' \subseteq Mine(d)
           /\ Ahead(d) => Ahead(d)'
           /\ queue'[d] = queue[d]
  PROVE  Ordered'
  <1> SUFFICES ASSUME Sound'
               PROVE  Ordered'
    BY DEF Ordered
  <1>1. Sound
    OBVIOUS
  <1>2. \A e : ToBus(e)' <=> ToBus(e)
    BY DEF ToBus, In
  <1>3. /\ relaying' = Redis
        /\ ~Redis => redis' = <<>>
        /\ \A e \in Events : \A f \in prior'[e] :
             /\ Behind(e, f, redis')
             /\ ToBus(e)' \/ Behind(e, f, bus')
             /\ caster'.e = f => ToBus(e)' \/ In(e, bus')
    BY <1>1, <1>2 DEF Ordered
  <1>4. ASSUME NEW c \in Conns, NEW e \in Mine(c)', NEW f \in prior'[e]
        PROVE  /\ Later(e, c)' \/ Behind(e, f, queue'[c])
               /\ last'[c] = f => Later(e, c)' \/ In(e, queue'[c])
    <2>1. e \in Mine(c) /\ f \in prior[e] /\ queue'[c] = queue[c] /\ (Ahead(c) => Ahead(c)')
      BY <1>4
    <2>2. Later(e, c) => Later(e, c)'
      BY <1>2, <2>1 DEF Later
    <2>3. /\ Later(e, c) \/ Behind(e, f, queue[c])
          /\ last[c] = f => Later(e, c) \/ In(e, queue[c])
      BY <1>1, <2>1 DEF Ordered
    <2> QED
      BY <2>1, <2>2, <2>3
  <1> QED
    BY <1>3, <1>4 DEF Ordered

LEMMA SoundBefore ==
  ASSUME TInv, [Next]_vars
  PROVE  Sound' => Sound
  <1>1. CASE UNCHANGED vars
    BY <1>1 DEF vars, eventVars, clientVars, castVars, stopVars, historyVars, Sound
  <1>2. CASE Next
    <2>1. dead = "no" /\ lossy \in BOOLEAN /\ open \in BOOLEAN
      BY <1>2 DEF Next, TInv, TypeOK
    <2>2. lossy' = lossy \/ lossy' = TRUE
      BY <1>2 DEF Next, Publish, SetSubscriptions, Connection, Caster,
         Begin, PublishLocally, Offer, Relay, RelayToClosed, RedisLoses, FindClient, Clear, Add,
         Cleared, EndRequest, Connect, Lose, Unregister, Write, TakeNil, Take, LookUp, Reach,
         EndEvent, Skip, Cast, CastToFull, CastToClosed, StopEvents, StopClients, historyVars
    <2>3. open' = open \/ open' = FALSE
      BY <1>2 DEF Next, Publish, SetSubscriptions, Connection, Caster,
         Begin, PublishLocally, Offer, Relay, RelayToClosed, RedisLoses, FindClient, Clear, Add,
         Cleared, EndRequest, Connect, Lose, Unregister, Write, TakeNil, Take, LookUp, Reach,
         EndEvent, Skip, Cast, CastToFull, CastToClosed, StopEvents, StopClients, eventVars
    <2> QED
      BY <2>1, <2>2, <2>3 DEF Sound
  <1> QED
    BY <1>1, <1>2

\* Steps of connections, requests and the shutdown, and those of the goroutine
\* that only choose whom to reach.
LEMMA SideSteps ==
  ASSUME OInv, [Next]_vars, TInv', idOf' = idOf,
         \/ RelayToClosed \/ RedisLoses
         \/ \E r \in Requests : \/ \E i \in Ids : FindClient(r, i)
                                \/ Cleared(r) \/ EndRequest(r)
         \/ \E c \in Conns : Connect(c) \/ Lose(c) \/ TakeNil(c)
         \/ CastToClosed \/ StopEvents \/ StopClients \/ UNCHANGED vars
  PROVE  Listed' /\ Ordered'
  <1>0. GInv /\ TInv /\ Listed /\ Ordered
    BY DEF OInv, GInv
  <1>1. UNCHANGED <<idOf, lists, stage, prior, bus, caster, active, queue, last>>
    BY DEF RelayToClosed, RedisLoses, FindClient, Cleared, EndRequest, Connect, Lose, TakeNil,
       CastToClosed, StopEvents, StopClients, vars, eventVars, clientVars, castVars, historyVars,
       Forget
  <1>2. \A d \in Conns : Mine(d)' \in {Mine(d), {}}
    <2>1. (\E cs : Forget(cs)) \/ UNCHANGED <<due, heard>>
      BY DEF RelayToClosed, RedisLoses, FindClient, Cleared, EndRequest, Connect, Lose, TakeNil,
         CastToClosed, StopEvents, StopClients, vars, historyVars
    <2> QED
      BY <1>0, <2>1, ForgetMine DEF Mine
  <1>3. \A d \in Conns : Mine(d)' # {} => open' = open
    <2>1. CASE StopEvents
      <3>1. Forget(Conns)
        BY <2>1 DEF StopEvents
      <3> QED
        BY <1>0, <3>1, ForgetMine
    <2>2. CASE ~StopEvents
      BY <2>2 DEF RelayToClosed, RedisLoses, FindClient, Cleared, EndRequest, Connect, Lose,
         TakeNil, CastToClosed, StopClients, vars, eventVars
    <2> QED
      BY <2>1, <2>2
  <1>4. Listed'
    BY <1>0, <1>1, <1>2, <1>3, ListedKept, SameLists
  <1>5. ~Sound' \/ UNCHANGED <<redis, relaying>>
    BY DEF RelayToClosed, RedisLoses, FindClient, Cleared, EndRequest, Connect, Lose, TakeNil,
       CastToClosed, StopEvents, StopClients, vars, eventVars, Sound
  <1>6. CASE ~Sound'
    BY <1>4, <1>6 DEF Ordered
  <1>7. CASE UNCHANGED <<redis, relaying>>
    BY <1>0, <1>1, <1>2, <1>4, <1>7, OrderKept, SameLists, SoundBefore
  <1> QED
    BY <1>5, <1>6, <1>7

\* Steps that list or unlist an id.
LEMMA PlaceSteps ==
  ASSUME OInv, [Next]_vars, TInv', idOf' = idOf,
         \/ \E c \in Conns : Unregister(c)
         \/ \E r \in Requests, ch \in Channels : Clear(r, ch) \/ Add(r, ch)
  PROVE  Listed' /\ Ordered'
  <1>0. GInv /\ TInv /\ Listed /\ Ordered
    BY DEF OInv, GInv
  <1>1. UNCHANGED <<stage, redis, relaying, bus, prior, open, active, last>>
    BY DEF Unregister, Clear, Add, eventVars, Forget
  <1>2. \A d \in Conns : Mine(d)' # {} => Keeps(d) /\ caster'.e = caster.e /\ queue'[d] = queue[d]
    <2>1. ASSUME NEW c \in Conns, Unregister(c)
          PROVE  \A d \in Conns : Mine(d)' # {} => Keeps(d) /\ caster'.e = caster.e /\ queue'[d] = queue[d]
      BY <1>0, <2>1, UnregisterKeeps
    <2>2. ASSUME NEW r \in Requests, NEW ch \in Channels, Clear(r, ch)
          PROVE  \A d \in Conns : Mine(d)' # {} => Keeps(d) /\ caster'.e = caster.e /\ queue'[d] = queue[d]
      BY <1>0, <2>2, ClearKeeps DEF Clear
    <2>3. ASSUME NEW r \in Requests, NEW ch \in Channels, Add(r, ch)
          PROVE  \A d \in Conns : Mine(d)' # {} => Keeps(d) /\ caster'.e = caster.e /\ queue'[d] = queue[d]
      BY <1>0, <2>3, AddKeeps DEF Add
    <2> QED
      BY <2>1, <2>2, <2>3
  <1>3. caster'.e = caster.e
    <2>1. ASSUME NEW c \in Conns, Unregister(c)
          PROVE  caster'.e = caster.e
      <3>1. idOf[c] \in Ids
        BY <1>0 DEF TInv, TypeOK
      <3> QED
        BY <1>0, <2>1, <3>1, RemoveKeepsTypes DEF Unregister
    <2>2. ASSUME NEW r \in Requests, NEW ch \in Channels, Clear(r, ch)
          PROVE  caster'.e = caster.e
      <3>1. PICK i \in Ids : Remove(i, {ch})
        BY <1>0, <2>2 DEF Clear, TInv, TypeOK, Busy
      <3> QED
        BY <1>0, <3>1, RemoveKeepsTypes
    <2>3. ASSUME NEW r \in Requests, NEW ch \in Channels, Add(r, ch)
          PROVE  caster'.e = caster.e
      <3>1. PICK k \in CasterType : k = caster
        BY <1>0, CasterFacts
      <3>2. PICK i : caster' = k \/ caster' = [k EXCEPT !.left = k.left \union {i}]
        BY <2>3, <3>1 DEF Add
      <3> QED
        BY <3>1, <3>2 DEF CasterType
    <2> QED
      BY <2>1, <2>2, <2>3
  <1>4. Listed'
    BY <1>0, <1>1, <1>2, ListedKept DEF Keeps
  <1>5. Ordered'
    BY <1>0, <1>1, <1>2, <1>3, OrderKept, SoundBefore DEF Keeps
  <1> QED
    BY <1>4, <1>5

\* The goroutine loses nobody on its way: whoever is listed is looked up, and
\* whoever is looked up is reached.
LEMMA LookUpKeeps ==
  ASSUME TInv, LookUp, idOf' = idOf, NEW d \in Conns, Ahead(d)
  PROVE  Ahead(d)'
  <1>1. PICK k \in CasterType : k = caster
    BY CasterFacts
  <1>2. PICK s \in Seq(Channels) : s = k.todo
    BY <1>1 DEF CasterType
  <1>3. PICK ch : ch = Head(s)
    OBVIOUS
  <1>4. PICK t : t = Tail(s)
    OBVIOUS
  <1>5. k.left = {} /\ k.to = None /\ s # <<>> /\ lists' = lists
    BY <1>1, <1>2 DEF LookUp, clientVars
  <1>6. caster' = [k EXCEPT !.at = IF IdsOn(ch) = {} THEN None ELSE ch, !.left = IdsOn(ch), !.todo = t]
    BY <1>1, <1>2, <1>3, <1>4 DEF LookUp
  <1>7. caster'.at = (IF IdsOn(ch) = {} THEN None ELSE ch) /\ caster'.left = IdsOn(ch) /\ caster'.todo = t
    BY <1>6 DEF CasterType
  <1>8. None \notin Conns /\ None \notin Channels /\ ch \in Channels /\ idOf[d] \in Ids
    BY <1>3, <1>5, BroadcastAssumption DEF TInv, TypeOK
  <1>9. PICK j \in DOMAIN s : Place(d, s[j])
    BY <1>1, <1>2, <1>5, <1>8 DEF Ahead
  <1>10. s[j] = ch \/ In(s[j], t)
    <2>1. In(s[j], s)
      BY DEF In
    <2> QED
      BY <1>3, <1>4, <1>5, <2>1, InTail
  <1>11. CASE s[j] = ch
    <2>1. lists[ch][idOf[d]] = d
      BY <1>9, <1>11 DEF Place
    <2>2. idOf[d] \in IdsOn(ch)
      BY <1>8, <2>1 DEF IdsOn
    <2>3. caster'.at # None /\ idOf'[d] \in caster'.left /\ lists'[caster'.at][idOf'[d]] = d
      BY <1>5, <1>7, <1>8, <2>1, <2>2
    <2> QED
      BY <2>3 DEF Ahead, Place
  <1>12. CASE In(s[j], t)
    <2>1. PICK m \in DOMAIN t : t[m] = s[j]
      BY <1>12 DEF In
    <2>2. lists'[caster'.todo[m]][idOf'[d]] = d /\ m \in DOMAIN caster'.todo
      BY <1>5, <1>7, <1>9, <2>1 DEF Place
    <2> QED
      BY <2>2 DEF Ahead, Place
  <1> QED
    BY <1>10, <1>11, <1>12

LEMMA ReachKeeps ==
  ASSUME TInv, NEW i \in Ids, Reach(i), idOf' = idOf, NEW d \in Conns, Ahead(d)
  PROVE  Ahead(d)'
  <1>1. PICK k \in CasterType : k = caster
    BY CasterFacts
  <1>2. PICK L : L = k.left \ {i}
    OBVIOUS
  <1>3. PICK x : x = lists[k.at][i]
    OBVIOUS
  <1>4. caster' = [k EXCEPT !.left = L, !.to = x]
    BY <1>1, <1>2, <1>3 DEF Reach
  <1>5. caster'.at = k.at /\ caster'.left = L /\ caster'.to = x /\ caster'.todo = k.todo
    BY <1>4 DEF CasterType
  <1>6. k.to = None /\ k.at # None /\ lists' = lists /\ None \notin Conns
    BY <1>1, BroadcastAssumption DEF Reach, clientVars
  <1>7. CASE idOf[d] \in k.left /\ Place(d, k.at)
    <2>1. CASE idOf[d] = i
      BY <1>3, <1>5, <1>7, <2>1 DEF Ahead, Place
    <2>2. CASE idOf[d] # i
      <3>1. caster'.at # None /\ idOf'[d] \in caster'.left /\ lists'[caster'.at][idOf'[d]] = d
        BY <1>2, <1>5, <1>6, <1>7, <2>2 DEF Place
      <3> QED
        BY <3>1 DEF Ahead, Place
    <2> QED
      BY <2>1, <2>2
  <1>8. CASE \E j \in DOMAIN k.todo : Place(d, k.todo[j])
    <2>1. PICK j \in DOMAIN k.todo : lists'[caster'.todo[j]][idOf'[d]] = d /\ j \in DOMAIN caster'.todo
      BY <1>5, <1>6, <1>8 DEF Place
    <2> QED
      BY <2>1 DEF Ahead, Place
  <1> QED
    BY <1>1, <1>6, <1>7, <1>8 DEF Ahead

\* Whoever is not the one whose turn it was is as before.
LEMMA DoneWith ==
  ASSUME TInv, UNCHANGED <<idOf, lists>>, caster' = [caster EXCEPT !.to = None],
         NEW d \in Conns, d # caster.to
  PROVE  /\ caster'.e = caster.e
         /\ Ahead(d) => Ahead(d)'
  <1>1. PICK k \in CasterType : k = caster
    BY CasterFacts
  <1>2. caster' = [k EXCEPT !.to = None]
    BY <1>1
  <1>3. caster'.e = k.e /\ caster'.at = k.at /\ caster'.left = k.left /\ caster'.todo = k.todo
    BY <1>2 DEF CasterType
  <1> QED
    BY <1>1, <1>3 DEF Ahead, Place

\* Steps of the goroutine that give nobody anything.
LEMMA ChoiceSteps ==
  ASSUME OInv, [Next]_vars, TInv', idOf' = idOf,
         LookUp \/ (\E i \in Ids : Reach(i)) \/ Skip \/ CastToFull
  PROVE  Listed' /\ Ordered'
  <1>0. GInv /\ TInv /\ Listed /\ Ordered
    BY DEF OInv, GInv
  <1>1. UNCHANGED <<stage, redis, relaying, bus, prior, open, lists, queue, last>>
    BY DEF LookUp, Reach, Skip, CastToFull, eventVars, clientVars, historyVars, Forget
  <1>2. caster'.e = caster.e
    <2>1. PICK k \in CasterType : k = caster
      BY <1>0, CasterFacts
    <2>2. ASSUME LookUp
          PROVE  caster'.e = k.e
      <3>1. PICK x, y, z : caster' = [k EXCEPT !.at = x, !.left = y, !.todo = z]
        BY <2>1, <2>2 DEF LookUp
      <3> QED
        BY <3>1 DEF CasterType
    <2>3. ASSUME NEW i \in Ids, Reach(i)
          PROVE  caster'.e = k.e
      <3>1. PICK y, z : caster' = [k EXCEPT !.left = y, !.to = z]
        BY <2>1, <2>3 DEF Reach
      <3> QED
        BY <3>1 DEF CasterType
    <2>4. ASSUME Skip \/ CastToFull
          PROVE  caster'.e = k.e
      <3>1. caster' = [k EXCEPT !.to = None]
        BY <2>1, <2>4 DEF Skip, CastToFull
      <3> QED
        BY <3>1 DEF CasterType
    <2> QED
      BY <2>1, <2>2, <2>3, <2>4
  <1>3. ASSUME NEW d \in Conns, Mine(d)' # {}
        PROVE  Mine(d)' = Mine(d) /\ active'[d] = active[d] /\ (Ahead(d) => Ahead(d)')
    <2>1. CASE LookUp
      BY <1>0, <2>1, LookUpKeeps DEF LookUp, Mine, historyVars
    <2>2. CASE \E i \in Ids : Reach(i)
      BY <1>0, <2>2, ReachKeeps DEF Reach, Mine, historyVars
    <2>3. CASE Skip
      <3>1. Mine(d)' = Mine(d) /\ active' = active
        BY <2>3 DEF Skip, Mine, historyVars
      <3>2. PICK e \in Mine(d) : TRUE
        BY <1>3, <3>1
      <3>3. active[d]
        BY <1>0, <3>2 DEF Listed
      <3>4. caster' = [caster EXCEPT !.to = None] /\ d # caster.to
        BY <2>3, <3>3 DEF Skip
      <3> QED
        BY <1>0, <1>1, <3>1, <3>4, DoneWith
    <2>4. CASE CastToFull
      <3>1. Forget({caster.to})
        BY <2>4 DEF CastToFull
      <3>2. Mine(d)' = Mine(d) /\ d # caster.to
        BY <1>0, <1>3, <3>1, ForgetMine
      <3>3. active' = [active EXCEPT ![caster.to] = FALSE] /\ caster' = [caster EXCEPT !.to = None]
        BY <2>4 DEF CastToFull
      <3>4. active'[d] = active[d]
        BY <1>0, <3>2, <3>3 DEF TInv, TypeOK
      <3> QED
        BY <1>0, <1>1, <3>2, <3>3, <3>4, DoneWith
    <2> QED
      BY <2>1, <2>2, <2>3, <2>4
  <1>4. Listed'
    BY <1>0, <1>1, <1>3, ListedKept DEF Place
  <1>5. Ordered'
    BY <1>0, <1>1, <1>2, <1>3, OrderKept, SoundBefore
  <1> QED
    BY <1>4, <1>5

\* When an event has been broadcast, nobody is to be given it any more.
LEMMA EndEventOrder ==
  ASSUME OInv, [Next]_vars, TInv', idOf' = idOf, EndEvent
  PROVE  Listed' /\ Ordered'
  <1>0. GInv /\ TInv /\ Listed /\ Ordered
    BY DEF OInv, GInv
  <1>1. UNCHANGED <<stage, redis, relaying, bus, prior, open, lists, queue, active, due, heard, last>>
    BY DEF EndEvent, eventVars, clientVars, historyVars
  <1>2. Listed'
    BY <1>0, <1>1, ListedKept DEF Place, Mine
  <1>3. caster.left = {} /\ caster.to = None /\ caster.todo = <<>> /\ caster'.e = None
    BY DEF EndEvent, Resting
  <1>4. None \notin Conns /\ None \notin Events
    BY BroadcastAssumption
  <1>5. \A c \in Conns : ~Ahead(c)
    <2>1. PICK s : s = caster.todo
      OBVIOUS
    <2>2. DOMAIN s = {}
      BY <1>3, <2>1
    <2> QED
      BY <1>3, <1>4, <2>1, <2>2 DEF Ahead
  <1>6. \A e : ToBus(e)' <=> ToBus(e)
    BY <1>1 DEF ToBus, In
  <1>7. \A e \in Events : prior[e] \subseteq Events
    BY <1>0 DEF TInv, TypeOK
  <1> SUFFICES ASSUME Sound' PROVE Ordered'
    BY <1>2 DEF Ordered
  <1>8. Sound
    BY <1>0, SoundBefore
  <1>9. /\ relaying' = Redis
        /\ ~Redis => redis' = <<>>
        /\ \A e \in Events : \A f \in prior'[e] :
             /\ Behind(e, f, redis')
             /\ ToBus(e)' \/ Behind(e, f, bus')
             /\ caster'.e = f => ToBus(e)' \/ In(e, bus')
    BY <1>0, <1>1, <1>3, <1>4, <1>6, <1>7, <1>8 DEF Ordered
  <1>10. ASSUME NEW c \in Conns, NEW e \in Mine(c)', NEW f \in prior'[e]
         PROVE  /\ Later(e, c)' \/ Behind(e, f, queue'[c])
                /\ last'[c] = f => Later(e, c)' \/ In(e, queue'[c])
    <2>1. e \in Mine(c) /\ f \in prior[e]
      BY <1>1, <1>10 DEF Mine
    <2>2. Later(e, c) => Later(e, c)'
      BY <1>1, <1>5, <1>6 DEF Later, In
    <2>3. /\ Later(e, c) \/ Behind(e, f, queue[c])
          /\ last[c] = f => Later(e, c) \/ In(e, queue[c])
      BY <1>0, <1>8, <2>1 DEF Ordered
    <2> QED
      BY <1>1, <2>2, <2>3
  <1> QED
    BY <1>9, <1>10 DEF Ordered

-----------------------------------------------------------------------------
(* Events on their way *)

\* An event that begins comes after all there is: its publication is under way.
LEMMA BeginOrder ==
  ASSUME OInv, [Next]_vars, TInv', idOf' = idOf, NEW x \in Events, Begin(x)
  PROVE  Listed' /\ Ordered'
  <1>0. GInv /\ TInv /\ Listed /\ Ordered /\ Priors
    BY DEF OInv, GInv
  <1>1. UNCHANGED <<idOf, relaying, bus, open, lists, queue, active, caster, heard, last>>
    BY DEF Begin, clientVars, castVars
  <1>2. /\ stage[x] = "new" /\ stage'[x] = "begun"
        /\ \A e \in Events \ {x} : stage'[e] = stage[e] /\ prior'[e] = prior[e]
        /\ prior'[x] = {f \in Events : stage[f] = "done"}
    BY <1>0 DEF Begin, TInv, TypeOK
  <1>3. ASSUME NEW c \in Conns, NEW e \in Mine(c)'
        PROVE  e \in Events /\ (e \in Mine(c) \/ e = x)
    BY <1>0, <1>1, <1>3 DEF Begin, Mine, TInv, TypeOK
  <1>4. Listed'
    <2> SUFFICES ASSUME NEW c \in Conns, NEW e \in Mine(c)'
                 PROVE  /\ stage'[e] # "new" /\ open' /\ active'[c]
                        /\ \E ch \in ChannelsOf(e) : Place(c, ch)'
      BY DEF Listed
    <2>1. CASE e \in Mine(c)
      <3>1. /\ stage[e] # "new" /\ open /\ active[c]
            /\ \E ch \in ChannelsOf(e) : Place(c, ch)
        BY <1>0, <2>1 DEF Listed
      <3> QED
        BY <1>1, <1>2, <1>3, <3>1 DEF Place
    <2>2. CASE e \notin Mine(c)
      <3>1. e = x /\ e \in due'[c] /\ e \notin due[c]
        BY <1>1, <1>3, <2>2 DEF Mine
      <3>2. open /\ active[c] /\ c \in UNION {On(ch) : ch \in ChannelsOf(x)}
        BY <1>0, <3>1 DEF Begin, TInv, TypeOK
      <3>3. PICK ch \in ChannelsOf(x) : c \in On(ch)
        BY <3>2
      <3>4. PICK i \in IdsOn(ch) : c = lists[ch][i]
        BY <3>3 DEF On
      <3>5. ch \in Channels
        BY <3>3, TargetsAreChannels DEF ChannelsOf
      <3>6. idOf[c] = i
        BY <1>0, <3>4, <3>5 DEF GInv, NoGhosts
      <3>7. Place(c, ch)'
        BY <1>1, <3>4, <3>6 DEF Place
      <3> QED
        BY <1>1, <1>2, <3>1, <3>2, <3>3, <3>7
    <2> QED
      BY <2>1, <2>2
  <1> SUFFICES ASSUME Sound' PROVE Ordered'
    BY <1>4 DEF Ordered
  <1>5. Sound /\ ~lossy'
    BY <1>0, SoundBefore DEF Sound
  <1>6. PICK s \in Seq(Events) : s = redis
    BY <1>0 DEF TInv, TypeOK
  <1>7. PICK q : q = Append(s, x)
    OBVIOUS
  <1>8. (Redis /\ redis' = q) \/ (~Redis /\ s = <<>> /\ redis' = <<>>)
    BY <1>0, <1>5, <1>6, <1>7 DEF Begin, Ordered
  <1>9. \A v : In(v, s) => In(v, redis')
    BY <1>6, <1>7, <1>8, InAppend DEF In
  <1>10. \A e \in Events : ToBus(e) => ToBus(e)'
    BY <1>2, <1>6, <1>9 DEF ToBus, In
  <1>11. ToBus(x)'
    BY <1>2 DEF ToBus
  <1>12. ASSUME NEW e \in Events, NEW f \in prior'[e]
         PROVE  f # x
    <2>1. stage[f] = "done"
      BY <1>0, <1>2, <1>12 DEF Priors
    <2> QED
      BY <1>2, <2>1
  <1>13. \A e, f : f # x /\ (e = x \/ Behind(e, f, s)) => Behind(e, f, redis')
    <2>1. CASE redis' = q
      BY <1>6, <1>7, <2>1, InAppend
    <2>2. CASE redis' = <<>>
      BY <2>2 DEF Behind
    <2> QED
      BY <1>8, <2>1, <2>2
  <1>14. ASSUME NEW e \in Events, NEW f \in prior'[e]
         PROVE  /\ Behind(e, f, redis')
                /\ ToBus(e)' \/ Behind(e, f, bus')
                /\ caster'.e = f => ToBus(e)' \/ In(e, bus')
    <2>1. f # x
      BY <1>12, <1>14
    <2>2. CASE e = x
      BY <1>11, <1>13, <2>1, <2>2
    <2>3. CASE e # x
      <3>1. f \in prior[e]
        BY <1>2, <1>14, <2>3
      <3>2. /\ Behind(e, f, s)
            /\ ToBus(e) \/ Behind(e, f, bus)
            /\ caster.e = f => ToBus(e) \/ In(e, bus)
        BY <1>0, <1>5, <1>6, <3>1 DEF Ordered
      <3> QED
        BY <1>1, <1>10, <1>13, <2>1, <3>2
    <2> QED
      BY <2>2, <2>3
  <1>15. ASSUME NEW c \in Conns, NEW e \in Mine(c)', NEW f \in prior'[e]
         PROVE  /\ Later(e, c)' \/ Behind(e, f, queue'[c])
                /\ last'[c] = f => Later(e, c)' \/ In(e, queue'[c])
    <2>1. CASE e = x
      BY <1>11, <2>1 DEF Later
    <2>2. CASE e # x
      <3>1. e \in Mine(c) /\ e \in Events /\ f \in prior[e]
        BY <1>2, <1>3, <1>15, <2>2
      <3>2. Later(e, c) => Later(e, c)'
        BY <1>1, <1>10, <3>1 DEF Later, In, Ahead, Place
      <3>3. /\ Later(e, c) \/ Behind(e, f, queue[c])
            /\ last[c] = f => Later(e, c) \/ In(e, queue[c])
        BY <1>0, <1>5, <3>1 DEF Ordered
      <3> QED
        BY <1>1, <3>2, <3>3
    <2> QED
      BY <2>1, <2>2
  <1>16. relaying' = Redis /\ (~Redis => redis' = <<>>)
    BY <1>0, <1>1, <1>5, <1>8 DEF Ordered
  <1> QED
    BY <1>14, <1>15, <1>16 DEF Ordered

\* An event gets to the end of the bus, on one of its two ways.
LEMMA OntoBus ==
  ASSUME Ordered, Sound, TInv, NEW x \in Events, bus' = Append(bus, x),
         UNCHANGED <<idOf, lists, caster, prior, queue, relaying, due, heard, last>>,
         ~Redis => redis' = <<>>,
         \A e \in Events : ToBus(e) => ToBus(e)' \/ e = x,
         \A e \in Events : \A f \in prior[e] :
           Behind(e, f, redis') /\ (f = x => ToBus(e)')
  PROVE  Ordered'
  <1>1. PICK s \in Seq(Events) : s = bus
    BY DEF TInv, TypeOK
  <1>2. PICK q : q = Append(s, x)
    OBVIOUS
  <1>3. bus' = q
    BY <1>1, <1>2
  <1>4. /\ In(x, q)
        /\ \A v : In(v, s) => In(v, q)
        /\ \A f : f # x => Behind(x, f, q)
        /\ \A e, f : Behind(e, f, s) /\ f # x => Behind(e, f, q)
    BY <1>1, <1>2, InAppend
  <1>5. ASSUME NEW e \in Events, NEW f \in prior[e]
        PROVE  /\ Behind(e, f, redis')
               /\ ToBus(e)' \/ Behind(e, f, q)
               /\ caster.e = f => ToBus(e)' \/ In(e, q)
    <2>1. /\ ToBus(e) \/ Behind(e, f, s)
          /\ caster.e = f => ToBus(e) \/ In(e, s)
      BY <1>1, <1>5 DEF Ordered
    <2>2. Behind(e, f, redis') /\ (f = x => ToBus(e)') /\ (ToBus(e) => ToBus(e)' \/ e = x)
      BY <1>5
    <2> QED
      BY <1>4, <2>1, <2>2
  <1>6. ASSUME NEW e \in Events, NEW c \in Conns, Later(e, c)
        PROVE  Later(e, c)'
    <2>1. CASE ToBus(e)'
      BY <2>1 DEF Later
    <2>2. CASE In(e, q)
      BY <1>3, <2>2 DEF Later, In
    <2>3. CASE caster.e = e /\ Ahead(c)
      BY <2>3 DEF Later, Ahead, Place
    <2>4. ToBus(e) => ToBus(e)' \/ e = x
      BY <1>6
    <2> QED
      BY <1>1, <1>4, <1>6, <2>1, <2>2, <2>3, <2>4 DEF Later
  <1>7. ASSUME NEW c \in Conns, NEW e \in Mine(c), NEW f \in prior[e]
        PROVE  /\ Later(e, c)' \/ Behind(e, f, queue[c])
               /\ last[c] = f => Later(e, c)' \/ In(e, queue[c])
    <2>1. e \in Events
      BY <1>7 DEF Mine, TInv, TypeOK
    <2>2. /\ Later(e, c) \/ Behind(e, f, queue[c])
          /\ last[c] = f => Later(e, c) \/ In(e, queue[c])
      BY <1>7 DEF Ordered
    <2> QED
      BY <1>6, <1>7, <2>1, <2>2
  <1>8. \A c : Mine(c)' = Mine(c)
    BY DEF Mine
  <1>9. relaying' = Redis
    BY DEF Ordered
  <1>10. \A e \in Events : \A f \in prior'[e] :
           /\ Behind(e, f, redis')
           /\ ToBus(e)' \/ Behind(e, f, bus')
           /\ caster'.e = f => ToBus(e)' \/ In(e, bus')
    BY <1>3, <1>5
  <1>11. \A c \in Conns : \A e \in Mine(c)' : \A f \in prior'[e] :
           /\ Later(e, c)' \/ Behind(e, f, queue'[c])
           /\ last'[c] = f => Later(e, c)' \/ In(e, queue'[c])
    BY <1>7, <1>8
  <1> QED
    BY <1>9, <1>10, <1>11 DEF Ordered

LEMMA PublishOrder ==
  ASSUME OInv, [Next]_vars, TInv', idOf' = idOf, NEW x \in Events, PublishLocally(x)
  PROVE  Listed' /\ Ordered'
  <1>0. GInv /\ TInv /\ Listed /\ Ordered /\ Priors
    BY DEF OInv, GInv
  <1>1. UNCHANGED <<idOf, redis, relaying, open, prior, lists, queue, active, caster>>
    BY DEF PublishLocally, clientVars, castVars
  <1>2. /\ stage[x] = "begun" /\ stage'[x] = "done"
        /\ \A e \in Events \ {x} : stage'[e] = stage[e]
    BY <1>0 DEF PublishLocally, TInv, TypeOK
  <1>3. \A d \in Conns : Mine(d)' \subseteq Mine(d)
    BY <1>0 DEF PublishLocally, Offer, historyVars, Mine, TInv, TypeOK
  <1>4. Listed'
    BY <1>0, <1>1, <1>2, <1>3, ListedKept DEF Place
  <1> SUFFICES ASSUME Sound' PROVE Ordered'
    BY <1>4 DEF Ordered
  <1>5. Sound /\ ~lossy' /\ open
    BY <1>0, SoundBefore DEF Sound
  <1>6. bus' = Append(bus, x) /\ UNCHANGED historyVars
    BY <1>5 DEF PublishLocally, Offer
  <1>7. \A e \in Events : ToBus(e) => ToBus(e)' \/ e = x
    BY <1>1, <1>2 DEF ToBus, In
  <1>8. ASSUME NEW e \in Events, NEW f \in prior[e]
        PROVE  Behind(e, f, redis') /\ f # x
    <2>1. stage[f] = "done"
      BY <1>0, <1>8 DEF Priors
    <2> QED
      BY <1>0, <1>1, <1>2, <1>5, <2>1, <1>8 DEF Ordered
  <1>9. ~Redis => redis' = <<>>
    BY <1>0, <1>1, <1>5 DEF Ordered
  <1>10. UNCHANGED <<due, heard, last>>
    BY <1>6 DEF historyVars
  <1> QED
    BY <1>0, <1>1, <1>5, <1>6, <1>7, <1>8, <1>9, <1>10, OntoBus

LEMMA RelayOrder ==
  ASSUME OInv, [Next]_vars, TInv', idOf' = idOf, Relay
  PROVE  Listed' /\ Ordered'
  <1>0. GInv /\ TInv /\ Listed /\ Ordered
    BY DEF OInv, GInv
  <1>1. UNCHANGED <<idOf, stage, relaying, open, prior, lists, queue, active, caster>>
    BY DEF Relay, clientVars, castVars
  <1>2. PICK s \in Seq(Events) : s = redis
    BY <1>0 DEF TInv, TypeOK
  <1>3. PICK h : h = Head(s)
    OBVIOUS
  <1>4. PICK t : t = Tail(s)
    OBVIOUS
  <1>5. s # <<>> /\ redis' = t /\ Offer(h)
    BY <1>2, <1>3, <1>4 DEF Relay
  <1>6. /\ h \in Events
        /\ \A v : In(v, s) => v = h \/ In(v, t)
        /\ \A e, f : Behind(e, f, s) => Behind(e, f, t)
        /\ \A e : Behind(e, h, s) => In(e, t)
    BY <1>2, <1>3, <1>4, <1>5, InTail
  <1>7. \A d \in Conns : Mine(d)' \subseteq Mine(d)
    BY <1>0, <1>5 DEF Offer, historyVars, Mine, TInv, TypeOK
  <1>8. Listed'
    BY <1>0, <1>1, <1>7, ListedKept DEF Place
  <1> SUFFICES ASSUME Sound' PROVE Ordered'
    BY <1>8 DEF Ordered
  <1>9. Sound /\ ~lossy'
    BY <1>0, SoundBefore DEF Sound
  <1>10. bus' = Append(bus, h) /\ UNCHANGED <<due, heard, last>>
    BY <1>5, <1>9 DEF Offer, historyVars
  <1>11. \A e : In(e, t) => ToBus(e)'
    BY <1>5 DEF ToBus, In
  <1>12. \A e \in Events : ToBus(e) => ToBus(e)' \/ e = h
    <2> SUFFICES ASSUME NEW e \in Events, ToBus(e), e # h PROVE ToBus(e)'
      OBVIOUS
    <2>1. CASE stage[e] = "begun"
      BY <1>1, <2>1 DEF ToBus
    <2>2. CASE In(e, s)
      BY <1>6, <1>11, <2>2
    <2> QED
      BY <1>2, <2>1, <2>2 DEF ToBus
  <1>13. ASSUME NEW e \in Events, NEW f \in prior[e]
         PROVE  Behind(e, f, redis') /\ (f = h => ToBus(e)')
    <2>1. Behind(e, f, s)
      BY <1>0, <1>2, <1>9, <1>13 DEF Ordered
    <2> QED
      BY <1>5, <1>6, <1>11, <2>1
  <1>14. ~Redis => redis' = <<>>
    BY <1>0, <1>2, <1>5, <1>9 DEF Ordered
  <1> QED
    BY <1>0, <1>1, <1>6, <1>9, <1>10, <1>12, <1>13, <1>14, OntoBus

\* What is taken from the bus is still ahead of everyone who is to hear it.
LEMMA TakeOrder ==
  ASSUME OInv, [Next]_vars, TInv', idOf' = idOf, Take
  PROVE  Listed' /\ Ordered'
  <1>0. GInv /\ TInv /\ Listed /\ Ordered
    BY DEF OInv, GInv
  <1>1. UNCHANGED <<idOf, stage, redis, relaying, open, prior, lists, queue, active, due, heard, last>>
    BY DEF Take, clientVars, historyVars
  <1>2. PICK s \in Seq(Events) : s = bus
    BY <1>0 DEF TInv, TypeOK
  <1>3. PICK h : h = Head(s)
    OBVIOUS
  <1>4. PICK t : t = Tail(s)
    OBVIOUS
  <1>5. s # <<>> /\ bus' = t /\ caster.e = None /\ None \notin Events
    BY <1>2, <1>4, BroadcastAssumption DEF Take
  <1>6. /\ h \in Events
        /\ \A v : In(v, s) => v = h \/ In(v, t)
        /\ \A e, f : Behind(e, f, s) => Behind(e, f, t)
        /\ \A e : Behind(e, h, s) => In(e, t)
    BY <1>2, <1>3, <1>4, <1>5, InTail
  <1>7. caster' = [Resting EXCEPT !.e = h, !.todo = Targets[h]]
    BY <1>2, <1>3 DEF Take
  <1>8. caster'.e = h /\ caster'.todo = Targets[h]
    BY <1>7 DEF Resting
  <1>9. \A d \in Conns : Mine(d)' = Mine(d)
    BY <1>1 DEF Mine
  <1>10. Listed'
    BY <1>0, <1>1, <1>9, ListedKept DEF Place
  <1> SUFFICES ASSUME Sound' PROVE Ordered'
    BY <1>10 DEF Ordered
  <1>11. Sound
    BY <1>0, SoundBefore
  <1>12. \A e : ToBus(e)' <=> ToBus(e)
    BY <1>1 DEF ToBus, In
  <1>13. relaying' = Redis /\ (~Redis => redis' = <<>>)
    BY <1>0, <1>1, <1>11 DEF Ordered
  <1>14. ASSUME NEW e \in Events, NEW f \in prior'[e]
         PROVE  /\ Behind(e, f, redis')
                /\ ToBus(e)' \/ Behind(e, f, bus')
                /\ caster'.e = f => ToBus(e)' \/ In(e, bus')
    <2>1. Behind(e, f, redis) /\ (ToBus(e) \/ Behind(e, f, s))
      BY <1>0, <1>1, <1>2, <1>11, <1>14 DEF Ordered
    <2> QED
      BY <1>1, <1>5, <1>6, <1>8, <1>12, <2>1
  <1>15. ASSUME NEW c \in Conns, NEW e \in Mine(c), Later(e, c)
         PROVE  Later(e, c)'
    <2>1. e \in Events
      BY <1>0 DEF Mine, TInv, TypeOK
    <2>2. CASE ToBus(e)
      BY <1>12, <2>2 DEF Later
    <2>3. CASE In(e, t)
      BY <1>5, <2>3 DEF Later, In
    <2>4. CASE e = h
      <3>1. PICK ch \in ChannelsOf(e) : Place(c, ch)
        BY <1>0, <2>1 DEF Listed
      <3>2. PICK k \in DOMAIN Targets[h] : ch = Targets[h][k]
        BY <2>4, <3>1 DEF ChannelsOf
      <3>3. k \in DOMAIN caster'.todo /\ lists'[caster'.todo[k]][idOf'[c]] = c
        BY <1>1, <1>8, <3>1, <3>2 DEF Place
      <3> QED
        BY <1>8, <2>4, <3>3 DEF Later, Ahead, Place
    <2> QED
      BY <1>2, <1>5, <1>6, <1>15, <2>1, <2>2, <2>3, <2>4 DEF Later
  <1>16. ASSUME NEW c \in Conns, NEW e \in Mine(c)', NEW f \in prior'[e]
         PROVE  /\ Later(e, c)' \/ Behind(e, f, queue'[c])
                /\ last'[c] = f => Later(e, c)' \/ In(e, queue'[c])
    <2>1. e \in Mine(c) /\ f \in prior[e]
      BY <1>1, <1>9, <1>16
    <2>2. /\ Later(e, c) \/ Behind(e, f, queue[c])
          /\ last[c] = f => Later(e, c) \/ In(e, queue[c])
      BY <1>0, <1>11, <2>1 DEF Ordered
    <2> QED
      BY <1>1, <1>15, <2>1, <2>2
  <1> QED
    BY <1>13, <1>14, <1>16 DEF Ordered

\* What the connection gets last is followed by what comes after it.
LEMMA WriteOrder ==
  ASSUME OInv, [Next]_vars, TInv', idOf' = idOf, NEW c \in Conns, Write(c)
  PROVE  Listed' /\ Ordered'
  <1>0. GInv /\ TInv /\ Listed /\ Ordered
    BY DEF OInv, GInv
  <1>1. UNCHANGED <<idOf, stage, redis, relaying, bus, open, prior, lists, active, caster>>
    BY DEF Write, eventVars, clientVars
  <1>2. PICK s \in Seq(Events) : s = queue[c]
    BY <1>0 DEF TInv, TypeOK
  <1>3. PICK h : h = Head(s)
    OBVIOUS
  <1>4. PICK t : t = Tail(s)
    OBVIOUS
  <1>5. /\ s # <<>> /\ queue' = [queue EXCEPT ![c] = t] /\ last' = [last EXCEPT ![c] = h]
        /\ due' = [due EXCEPT ![c] = @ \ {h}]
        /\ heard' = IF h \in due[c] THEN [heard EXCEPT ![c] = @ \union {h}] ELSE heard
    BY <1>2, <1>3, <1>4 DEF Write
  <1>6. /\ queue'[c] = t /\ last'[c] = h
        /\ \A d \in Conns \ {c} : queue'[d] = queue[d] /\ last'[d] = last[d]
    BY <1>0, <1>5 DEF TInv, TypeOK
  <1>7. /\ h \in Events
        /\ \A e, f : Behind(e, f, s) => Behind(e, f, t)
        /\ \A e : Behind(e, h, s) => In(e, t)
    BY <1>2, <1>3, <1>4, <1>5, InTail
  <1>8. \A d \in Conns : Mine(d)' \subseteq Mine(d)
    BY <1>0, <1>5 DEF Mine, TInv, TypeOK
  <1>9. Listed'
    BY <1>0, <1>1, <1>8, ListedKept DEF Place
  <1> SUFFICES ASSUME Sound' PROVE Ordered'
    BY <1>9 DEF Ordered
  <1>10. Sound
    BY <1>0, SoundBefore
  <1>11. \A e : ToBus(e)' <=> ToBus(e)
    BY <1>1 DEF ToBus, In
  <1>12. \A e, d : Later(e, d)' <=> Later(e, d)
    BY <1>1, <1>11 DEF Later, In, Ahead, Place
  <1>13. /\ relaying' = Redis
         /\ ~Redis => redis' = <<>>
         /\ \A e \in Events : \A f \in prior'[e] :
              /\ Behind(e, f, redis')
              /\ ToBus(e)' \/ Behind(e, f, bus')
              /\ caster'.e = f => ToBus(e)' \/ In(e, bus')
    BY <1>0, <1>1, <1>10, <1>11 DEF Ordered
  <1>14. ASSUME NEW d \in Conns, NEW e \in Mine(d)', NEW f \in prior'[e]
         PROVE  /\ Later(e, d)' \/ Behind(e, f, queue'[d])
                /\ last'[d] = f => Later(e, d)' \/ In(e, queue'[d])
    <2>1. e \in Mine(d) /\ f \in prior[e]
      BY <1>1, <1>8, <1>14
    <2>2. /\ Later(e, d) \/ Behind(e, f, queue[d])
          /\ last[d] = f => Later(e, d) \/ In(e, queue[d])
      BY <1>0, <1>10, <2>1 DEF Ordered
    <2>3. CASE d = c
      BY <1>2, <1>6, <1>7, <1>12, <2>2, <2>3
    <2>4. CASE d # c
      BY <1>6, <1>12, <2>2, <2>4
    <2> QED
      BY <2>3, <2>4
  <1> QED
    BY <1>13, <1>14 DEF Ordered

\* A connection gets an event after all that was published before it: of those
\* that are, a copy is still behind it on the bus or earlier, or it goes before.
LEMMA CastOrder ==
  ASSUME OInv, [Next]_vars, TInv', idOf' = idOf, Cast
  PROVE  Listed' /\ Ordered'
  <1>0. GInv /\ TInv /\ Listed /\ Ordered
    BY DEF OInv, GInv
  <1>1. UNCHANGED <<idOf, stage, redis, relaying, bus, open, prior, lists, active, due, heard, last>>
    BY DEF Cast, eventVars, clientVars, historyVars
  <1>2. PICK c \in Conns : c = caster.to
    BY <1>0 DEF Cast, TInv, TypeOK
  <1>3. PICK x \in Events : x = caster.e
    BY <1>0 DEF Cast, TInv, TypeOK, Busy
  <1>4. PICK s \in Seq(Events) : s = queue[c]
    BY <1>0 DEF TInv, TypeOK
  <1>5. PICK q : q = Append(s, x)
    OBVIOUS
  <1>6. queue' = [queue EXCEPT ![c] = q] /\ caster' = [caster EXCEPT !.to = None]
    BY <1>2, <1>3, <1>4, <1>5 DEF Cast
  <1>7. queue'[c] = q /\ \A d \in Conns \ {c} : queue'[d] = queue[d]
    BY <1>0, <1>6 DEF TInv, TypeOK
  <1>8. /\ In(x, q)
        /\ \A v : In(v, s) => In(v, q)
        /\ \A f : f # x => Behind(x, f, q)
        /\ \A e, f : Behind(e, f, s) /\ f # x => Behind(e, f, q)
    BY <1>4, <1>5, InAppend
  <1>9. \A d \in Conns : Mine(d)' = Mine(d)
    BY <1>1 DEF Mine
  <1>10. Listed'
    BY <1>0, <1>1, <1>9, ListedKept DEF Place
  <1> SUFFICES ASSUME Sound' PROVE Ordered'
    BY <1>10 DEF Ordered
  <1>11. Sound
    BY <1>0, SoundBefore
  <1>12. caster'.e = x
    <2>1. PICK k \in CasterType : k = caster
      BY <1>0, CasterFacts
    <2>2. caster' = [k EXCEPT !.to = None]
      BY <1>6, <2>1
    <2> QED
      BY <1>3, <2>1, <2>2 DEF CasterType
  <1>13. \A e : (ToBus(e)' <=> ToBus(e)) /\ (In(e, bus)' <=> In(e, bus))
    BY <1>1 DEF ToBus, In
  <1>14. /\ relaying' = Redis
         /\ ~Redis => redis' = <<>>
         /\ \A e \in Events : \A f \in prior'[e] :
              /\ Behind(e, f, redis')
              /\ ToBus(e)' \/ Behind(e, f, bus')
              /\ caster'.e = f => ToBus(e)' \/ In(e, bus')
    BY <1>0, <1>1, <1>3, <1>11, <1>12, <1>13 DEF Ordered
  <1>15. ASSUME NEW d \in Conns, NEW e \in Mine(d)', NEW f \in prior'[e]
         PROVE  /\ Later(e, d)' \/ Behind(e, f, queue'[d])
                /\ last'[d] = f => Later(e, d)' \/ In(e, queue'[d])
    <2>1. e \in Mine(d) /\ e \in Events /\ f \in prior[e]
      BY <1>0, <1>1, <1>9, <1>15 DEF Mine, TInv, TypeOK
    <2>2. /\ Later(e, d) \/ Behind(e, f, queue[d])
          /\ last[d] = f => Later(e, d) \/ In(e, queue[d])
      BY <1>0, <1>11, <2>1 DEF Ordered
    <2>3. ToBus(e) \/ In(e, bus) => Later(e, d)'
      BY <1>13 DEF Later
    <2>4. CASE d = c
      <3>1. f = x => Later(e, d)'
        <4>1. caster.e = f => ToBus(e) \/ In(e, bus)
          BY <1>0, <1>11, <2>1 DEF Ordered
        <4> QED
          BY <1>3, <2>3, <4>1
      <3>2. Later(e, d) => Later(e, d)' \/ e = x
        BY <1>3, <2>3 DEF Later
      <3> QED
        BY <1>1, <1>4, <1>7, <1>8, <2>2, <2>4, <3>1, <3>2
    <2>5. CASE d # c
      <3>1. Ahead(d) => Ahead(d)'
        BY <1>0, <1>1, <1>2, <1>6, <2>5, DoneWith
      <3>2. Later(e, d) => Later(e, d)'
        BY <1>3, <1>12, <2>3, <3>1 DEF Later
      <3> QED
        BY <1>1, <1>7, <2>2, <2>5, <3>2
    <2> QED
      BY <2>4, <2>5
  <1> QED
    BY <1>14, <1>15 DEF Ordered

-----------------------------------------------------------------------------
LEMMA InitOrder == Init => Priors /\ Listed /\ Ordered
  <1> SUFFICES ASSUME Init PROVE Priors /\ Listed /\ Ordered
    OBVIOUS
  <1>1. /\ \A e \in Events : prior[e] = {}
        /\ \A c \in Conns : due[c] = {} /\ heard[c] = {}
        /\ relaying = Redis /\ redis = <<>>
    BY DEF Init
  <1>2. \A c \in Conns : Mine(c) = {}
    BY <1>1 DEF Mine
  <1> QED
    BY <1>1, <1>2 DEF Priors, Listed, Ordered

LEMMA NextOrder ==
  ASSUME OInv, [Next]_vars
  PROVE  OInv'
  <1>0. GInv /\ TInv /\ Priors
    BY DEF OInv, GInv
  <1>1. TInv' /\ GInv' /\ Priors' /\ idOf' = idOf
    <2>1. TInv'
      BY <1>0, NextTInv
    <2>2. Known' /\ NoGhosts'
      BY <1>0, NextGhosts
    <2>3. Priors'
      BY <1>0, NextPriors
    <2>4. idOf' = idOf
      BY DEF Next, vars
    <2> QED
      BY <2>1, <2>2, <2>3, <2>4 DEF GInv
  <1> SUFFICES Listed' /\ Ordered'
    BY <1>1 DEF OInv
  <1>2. ASSUME NEW e \in Events, Begin(e)
        PROVE  Listed' /\ Ordered'
    BY <1>1, <1>2, BeginOrder
  <1>3. ASSUME NEW e \in Events, PublishLocally(e)
        PROVE  Listed' /\ Ordered'
    BY <1>1, <1>3, PublishOrder
  <1>4. CASE Relay
    BY <1>1, <1>4, RelayOrder
  <1>5. CASE Take
    BY <1>1, <1>5, TakeOrder
  <1>6. CASE Cast
    BY <1>1, <1>6, CastOrder
  <1>7. CASE EndEvent
    BY <1>1, <1>7, EndEventOrder
  <1>8. ASSUME NEW c \in Conns, Write(c)
        PROVE  Listed' /\ Ordered'
    BY <1>1, <1>8, WriteOrder
  <1>9. CASE LookUp \/ (\E i \in Ids : Reach(i)) \/ Skip \/ CastToFull
    BY <1>1, <1>9, ChoiceSteps
  <1>10. CASE \/ \E c \in Conns : Unregister(c)
              \/ \E r \in Requests, ch \in Channels : Clear(r, ch) \/ Add(r, ch)
    BY <1>1, <1>10, PlaceSteps
  <1>11. CASE \/ RelayToClosed \/ RedisLoses
              \/ \E r \in Requests : \/ \E i \in Ids : FindClient(r, i)
                                     \/ Cleared(r) \/ EndRequest(r)
              \/ \E c \in Conns : Connect(c) \/ Lose(c) \/ TakeNil(c)
              \/ CastToClosed \/ StopEvents \/ StopClients \/ UNCHANGED vars
    BY <1>1, <1>11, SideSteps
  <1> QED
    BY <1>2, <1>3, <1>4, <1>5, <1>6, <1>7, <1>8, <1>9, <1>10, <1>11
       DEF Next, Publish, SetSubscriptions, Connection, Caster

\* No connection is left with an event that was published before one it got
\* already, unless that one is still to come again: although every event arrives
\* twice, on ways of different length, and for any buffers, listeners that come
\* and go, and requests that set subscriptions meanwhile.
THEOREM BroadcastNewestLast == Spec => []NewestLast
  <1>1. Init => OInv
    BY InitTInv, InitGhosts, InitOrder DEF GInv, OInv
  <1>2. OInv /\ [Next]_vars => OInv'
    BY NextOrder
  <1>3. OInv => NewestLast
    <2> SUFFICES ASSUME OInv, ~lossy, dead = "no", NEW c \in Conns, NEW e \in heard[c],
                        last[c] \in prior[e]
                 PROVE  OnItsWay(e, c)
      BY DEF NewestLast
    <2>1. e \in Mine(c) /\ e \in Events
      BY DEF Mine, OInv, GInv, TInv, TypeOK
    <2>2. open
      BY <2>1 DEF OInv, Listed
    <2>3. Later(e, c) \/ In(e, queue[c])
      BY <2>1, <2>2 DEF OInv, Ordered, Sound
    <2> QED
      BY <2>3 DEF Later, ToBus, In, OnItsWay
  <1> QED
    BY <1>1, <1>2, <1>3, PTL DEF Spec
=============================================================================
