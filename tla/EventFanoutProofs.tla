------------------------- MODULE EventFanoutProofs --------------------------
(***************************************************************************)
(* For any number of clients, calls, subscriptions and publishers, and any   *)
(* capacities: nothing is ever sent on a channel the hub has closed, and     *)
(* every client is given the events of a call in their order.                *)
(*                                                                          *)
(* What makes the first so is the order in which a client leaves: its        *)
(* readPump has nothing left to send when the hub hears of it, the hub takes *)
(* it out of the set under the write lock, which no broadcast can hold, and  *)
(* only then closes the channel.                                            *)
(*                                                                          *)
(* For the second an event is followed from the call that numbers it through *)
(* the channel, the listener and the client's queue to the connection        *)
(* (Flow): what has gone further was numbered earlier by its call.  Skipping *)
(* a client, a receiver that takes the event for itself and a connection's   *)
(* end only take events out of that line.                                   *)
(***************************************************************************)
EXTENDS EventFanout, SequenceLemmas

Readers == {"none", "read", "reply", "leave", "close", "gone"}

\* The types of what the argument is about.
ChannelTyped ==
    /\ eventChan \in Seq(Event)
    /\ sending \in [Calls -> Event \cup {Idle}]
    /\ numbered \in 0 .. MaxEvents

HubTyped ==
    /\ clients \subseteq Clients
    /\ hub \in {Waiting} \cup [pc : {"add", "remove", "close"}, client : Clients]
    /\ listener \in {Listening} \cup [pc : {"handle"}, event : Event]
                    \cup [pc : {"visit"}, event : Event, left : SUBSET Clients]
    /\ conn \in [Clients -> {"none", "open", "closed"}]
    /\ reader \in [Clients -> Readers]
    /\ closed \in [Clients -> BOOLEAN]

\* A connection that has not been made is unknown to the hub.
Unmade == \A c \in Clients : conn[c] = "none" => c \notin clients /\ ~closed[c]

\* The client the hub is busy with: one it adds has not asked to leave, one it
\* removes has, and one it closes is out of the set and of every broadcast.
Busy ==
    hub # Waiting =>
        /\ conn[hub.client] # "none"
        /\ hub.pc = "add" => ~closed[hub.client] /\ reader[hub.client] \notin {"close", "gone"}
        /\ hub.pc \in {"remove", "close"} => reader[hub.client] \in {"close", "gone"}
        /\ hub.pc = "close" =>
              /\ hub.client \notin clients
              /\ Broadcasting => hub.client \notin listener.left

\* What the invariant says of the hub depends on nothing else.
hubState == <<clients, hub, listener, conn, reader, closed>>
HubInv == HubTyped /\ Unmade /\ Busy /\ NoSendOnClosed

IInv == ChannelTyped /\ HubInv

LEMMA HubStutter ==
    ASSUME HubInv, UNCHANGED hubState
    PROVE  HubInv'
BY DEF HubInv, HubTyped, hubState, Unmade, Busy, NoSendOnClosed, Broadcasting, Waiting
-----------------------------------------------------------------------------
(* The channel.                                                             *)

LEMMA EventMade ==
    ASSUME ChannelTyped, numbered < MaxEvents,
           NEW k \in Calls, NEW s \in Symbols, NEW t \in EventTypes
    PROVE  NewEvent(k, s, t) \in Event /\ numbered + 1 \in 0 .. MaxEvents
<1>1. MaxEvents \in Nat
  BY MaxEventsAssumption DEF MaxEventsAssumption
<1>2. numbered \in Nat
  BY <1>1 DEF ChannelTyped
<1>3. numbered + 1 \in 1 .. MaxEvents
  BY <1>1, <1>2
<1> QED
  BY <1>1, <1>3 DEF NewEvent, Event

LEMMA EnginesTyped ==
    ASSUME ChannelTyped, Engines
    PROVE  ChannelTyped'
<1>1. ASSUME NEW k \in Calls, NEW s \in Symbols, NEW t \in Kinds, Emit(k, s, t)
      PROVE  ChannelTyped'
  <2>1. t \in EventTypes
    BY KindsAssumption DEF KindsAssumption
  <2>2. NewEvent(k, s, t) \in Event /\ numbered + 1 \in 0 .. MaxEvents
    BY <1>1, <2>1, EventMade DEF Emit
  <2> QED
    BY <1>1, <2>2 DEF Emit, ChannelTyped
<1>2. ASSUME NEW k \in Calls, NEW s \in Symbols, EmitPosition(k, s)
      PROVE  ChannelTyped'
  <2>1. NewEvent(k, s, "POSITION") \in Event /\ numbered + 1 \in 0 .. MaxEvents
    BY <1>2, EventMade DEF EmitPosition, EventTypes
  <2>2. Append(eventChan, NewEvent(k, s, "POSITION")) \in Seq(Event)
    BY <2>1 DEF ChannelTyped
  <2> QED
    BY <1>2, <2>1, <2>2 DEF EmitPosition, ChannelTyped
<1>3. ASSUME NEW k \in Calls, Send(k)
      PROVE  ChannelTyped'
  <2>1. sending[k] \in Event
    BY <1>3 DEF Send, ChannelTyped
  <2> QED
    BY <1>3, <2>1 DEF Send, ChannelTyped
<1> QED
  BY <1>1, <1>2, <1>3 DEF Engines

LEMMA TakeTyped ==
    ASSUME ChannelTyped, NEW e, Take(e)
    PROVE  ChannelTyped' /\ e \in Event
<1>1. eventChan \in Seq(Event) /\ eventChan # <<>>
  BY DEF ChannelTyped, Take
<1>2. Head(eventChan) \in Event /\ Tail(eventChan) \in Seq(Event)
  BY <1>1, HeadTailProperties
<1> QED
  BY <1>2 DEF ChannelTyped, Take
-----------------------------------------------------------------------------
(* The order of events.                                                     *)

\* Each message of a sequence is in order with those after it.
Ordered(q) == \A i, j \in DOMAIN q : i < j => InOrder(q[i], q[j])

\* Whatever is in the one set may be followed by whatever is in the other.
Precede(A, B) == \A m \in A, e \in B : InOrder(m, e)

LEMMA OrderedConcat ==
    ASSUME NEW S, NEW s \in Seq(S), NEW t \in Seq(S)
    PROVE  Ordered(s \o t) <=> Ordered(s) /\ Ordered(t) /\ Precede(ToSet(s), ToSet(t))
<1> DEFINE R == {p \in S \X S : InOrder(p[1], p[2])}
<1>1. \A a \in S, b \in S : <<a, b>> \in R <=> InOrder(a, b)
  OBVIOUS
<1> HIDE DEF R
<1>2. ASSUME NEW q \in Seq(S)
      PROVE  /\ Ordered(q) <=> Chained(R, q)
             /\ ToSet(q) \subseteq S
  <2>1. \A i \in DOMAIN q : q[i] \in S
    OBVIOUS
  <2>2. QED
    BY ONLY <1>1, <2>1 DEF Ordered, Chained, ToSet
<1>3. s \o t \in Seq(S)
  OBVIOUS
<1>4. Chained(R, s \o t) <=>
          Chained(R, s) /\ Chained(R, t) /\ AllBefore(R, ToSet(s), ToSet(t))
  BY ONLY s \in Seq(S), t \in Seq(S), ChainedConcat
<1>5. AllBefore(R, ToSet(s), ToSet(t)) <=> Precede(ToSet(s), ToSet(t))
  BY <1>1, <1>2 DEF AllBefore, Precede
<1>6. QED
  BY <1>2, <1>3, <1>4, <1>5

LEMMA SingleOrdered ==
    ASSUME NEW e
    PROVE  Ordered(<<e>>) /\ ToSet(<<e>>) = {e}
BY DEF Ordered, ToSet

LEMMA NoneOrdered == Ordered(<<>>) /\ ToSet(<<>>) = {}
BY DEF Ordered, ToSet

\* The numbers of the events among some messages, at most n.
UpTo(A, n) == \A m \in A : m.type \in EventTypes => m.n <= n

Message == Event \cup {Response, Snapshot}

\* What is ahead of every receiver: the channel and the calls that wait.
InChannel == ToSet(eventChan)
Outgoing == {sending[k] : k \in Calls} \ {Idle}
Source == InChannel \cup Outgoing

\* A call's events enter the channel in the order of their numbers.
ChannelFlow ==
    /\ \A k \in Calls : sending[k] # Idle => sending[k].call = k
    /\ Ordered(eventChan)
    /\ Precede(InChannel, Outgoing)
    /\ UpTo(Source, numbered)

\* A step adds to what is ahead nothing but what it numbers.
Newer ==
    /\ numbered \in Nat /\ numbered' \in Nat /\ numbered <= numbered'
    /\ \A e \in Source' : e \in Source \/ (e \in Event /\ e.n > numbered)

LEMMA EventsAre ==
    ASSUME NEW e \in Event
    PROVE  /\ e.n \in Nat /\ e.call \in Calls /\ e.type \in EventTypes
           /\ e # Idle /\ e \in Message
<1>1. e.n \in Nat /\ e.call \in Calls /\ e.type \in EventTypes
  BY MaxEventsAssumption DEF MaxEventsAssumption, Event
<1>2. e # Idle
  BY DEF Event, Idle
<1> QED
  BY <1>1, <1>2 DEF Message

LEMMA SourceTyped ==
    ASSUME ChannelTyped
    PROVE  /\ InChannel \subseteq Event /\ Outgoing \subseteq Event
           /\ numbered \in Nat
<1>1. eventChan \in Seq(Event) /\ sending \in [Calls -> Event \cup {Idle}]
  BY DEF ChannelTyped
<1>2. InChannel \subseteq Event
  BY <1>1 DEF InChannel, ToSet
<1>3. Outgoing \subseteq Event
  BY <1>1 DEF Outgoing
<1>4. numbered \in Nat
  BY MaxEventsAssumption DEF MaxEventsAssumption, ChannelTyped
<1> QED
  BY <1>2, <1>3, <1>4

(* An event numbered later may follow whatever was numbered before.         *)
LEMMA LaterFollows ==
    ASSUME NEW n \in Nat, NEW A \in SUBSET Message, UpTo(A, n),
           NEW e \in Event, e.n > n
    PROVE  Precede(A, {e})
<1>1. ASSUME NEW m \in A, m.type \in EventTypes PROVE m.n < e.n
  <2>1. m \in Event
    <3>1. Response.type \notin EventTypes /\ Snapshot.type \notin EventTypes
      BY DEF Response, Snapshot, EventTypes
    <3>2. QED
      BY <1>1, <3>1 DEF Message
  <2>2. m.n \in Nat /\ e.n \in Nat
    BY <2>1, EventsAre
  <2>3. m.n <= n
    BY <1>1 DEF UpTo
  <2> QED
    BY <2>2, <2>3
<1> QED
  BY <1>1 DEF Precede, InOrder

(* What could precede all that was ahead still can, and is still known.     *)
LEMMA StillAhead ==
    ASSUME NEW A \in SUBSET Message, UpTo(A, numbered), Precede(A, Source), Newer
    PROVE  Precede(A, Source') /\ UpTo(A, numbered')
<1>1. numbered \in Nat /\ numbered' \in Nat /\ numbered <= numbered'
  BY DEF Newer
<1>2. ASSUME NEW e \in Source', NEW m \in A PROVE InOrder(m, e)
  <2>1. CASE e \in Source
    BY <2>1 DEF Precede
  <2>2. CASE e \in Event /\ e.n > numbered
    <3>1. Precede(A, {e})
      BY <1>1, <2>2, LaterFollows
    <3> QED
      BY <3>1 DEF Precede
  <2> QED
    BY <2>1, <2>2 DEF Newer
<1>3. ASSUME NEW m \in A, m.type \in EventTypes PROVE m.n <= numbered'
  <2>1. Response.type \notin EventTypes /\ Snapshot.type \notin EventTypes
    BY DEF Response, Snapshot, EventTypes
  <2>2. m \in Event
    BY <1>3, <2>1 DEF Message
  <2>3. m.n \in Nat
    BY <2>2, EventsAre
  <2>4. m.n <= numbered
    BY <1>3 DEF UpTo
  <2> QED
    BY <1>1, <2>3, <2>4
<1> QED
  BY <1>2, <1>3 DEF Precede, UpTo

(* An event that joins the back of the channel.                             *)
LEMMA JoinsChannel ==
    ASSUME NEW q \in Seq(Event), Ordered(q), NEW e \in Event, Precede(ToSet(q), {e})
    PROVE  /\ Ordered(Append(q, e))
           /\ ToSet(Append(q, e)) = ToSet(q) \cup {e}
<1>1. <<e>> \in Seq(Event) /\ Append(q, e) = q \o <<e>>
  OBVIOUS
<1>2. Ordered(q \o <<e>>)
  BY <1>1, SingleOrdered, OrderedConcat
<1> QED
  BY <1>1, <1>2, AppendSet

LEMMA EmitFlows ==
    ASSUME ChannelTyped, ChannelFlow, NEW k \in Calls, NEW s \in Symbols, NEW t \in Kinds,
           Emit(k, s, t)
    PROVE  ChannelFlow' /\ Newer
<1> DEFINE e == NewEvent(k, s, t)
<1>1. t \in EventTypes
  BY KindsAssumption DEF KindsAssumption
<1>2. e \in Event /\ e.n = numbered + 1 /\ e.call = k
  BY <1>1, EventMade DEF Emit, NewEvent
<1>3. /\ sending[k] = Idle /\ sending' = [sending EXCEPT ![k] = e]
      /\ numbered' = numbered + 1 /\ eventChan' = eventChan
  BY DEF Emit
<1> HIDE DEF e
<1>4. sending \in [Calls -> Event \cup {Idle}] /\ numbered \in Nat
  BY SourceTyped DEF ChannelTyped
<1>5. e # Idle
  BY <1>2, EventsAre
<1>6. InChannel' = InChannel /\ Outgoing' = Outgoing \cup {e}
  BY <1>3, <1>4, <1>5 DEF InChannel, Outgoing
<1>7. Newer
  BY <1>2, <1>3, <1>4, <1>6 DEF Newer, Source
<1>8. Source \subseteq Message /\ UpTo(Source, numbered)
  BY SourceTyped DEF Message, Source, ChannelFlow
<1>9. Precede(InChannel, {e})
  <2>1. Precede(Source, {e})
    BY <1>2, <1>4, <1>8, LaterFollows
  <2> QED
    BY <2>1 DEF Precede, Source
<1>10. Precede(InChannel', Outgoing')
  BY <1>6, <1>9 DEF Precede, ChannelFlow
<1>11. UpTo(Source', numbered')
  <2>1. ASSUME NEW m \in Source' PROVE m.n <= numbered'
    <3>1. CASE m \in Source
      <4>1. m \in Event
        BY <3>1, SourceTyped DEF Source
      <4>2. m.n \in Nat /\ m.type \in EventTypes
        BY <4>1, EventsAre
      <4>3. m.n <= numbered
        BY <1>8, <3>1, <4>2 DEF UpTo
      <4> QED
        BY <1>3, <1>4, <4>2, <4>3
    <3>2. CASE m = e
      BY <1>2, <1>3, <1>4, <3>2
    <3> QED
      BY <1>6, <3>1, <3>2 DEF Source
  <2> QED
    BY <2>1 DEF UpTo
<1>12. \A l \in Calls : sending'[l] # Idle => sending'[l].call = l
  BY <1>2, <1>3, <1>4 DEF ChannelFlow
<1> QED
  BY <1>3, <1>7, <1>10, <1>11, <1>12 DEF ChannelFlow

LEMMA EmitPositionFlows ==
    ASSUME ChannelTyped, ChannelFlow, NEW k \in Calls, NEW s \in Symbols,
           EmitPosition(k, s)
    PROVE  ChannelFlow' /\ Newer
<1> DEFINE e == NewEvent(k, s, "POSITION")
<1>1. e \in Event /\ e.n = numbered + 1 /\ e.call = k
  BY EventMade DEF EmitPosition, NewEvent, EventTypes
<1>2. /\ sending[k] = Idle /\ sending' = sending
      /\ numbered' = numbered + 1
      /\ eventChan' = eventChan \/ eventChan' = Append(eventChan, e)
  BY DEF EmitPosition
<1> HIDE DEF e
<1>3. /\ sending \in [Calls -> Event \cup {Idle}] /\ numbered \in Nat
      /\ eventChan \in Seq(Event)
  BY SourceTyped DEF ChannelTyped
<1>4. Source \subseteq Message /\ UpTo(Source, numbered)
  BY SourceTyped DEF Message, Source, ChannelFlow
<1>5. Precede(InChannel, {e})
  <2>1. Precede(Source, {e})
    BY <1>1, <1>3, <1>4, LaterFollows
  <2> QED
    BY <2>1 DEF Precede, Source
<1>6. Precede({e}, Outgoing)
  BY <1>1, <1>2, <1>3 DEF ChannelFlow, Precede, Outgoing, InOrder
<1>7. Outgoing' = Outgoing /\ InChannel' \subseteq InChannel \cup {e} /\ Ordered(eventChan')
  <2>1. Outgoing' = Outgoing
    BY <1>2 DEF Outgoing
  <2>2. CASE eventChan' = eventChan
    BY <2>1, <2>2 DEF InChannel, ChannelFlow
  <2>3. CASE eventChan' = Append(eventChan, e)
    <3>1. Ordered(eventChan')  /\ ToSet(eventChan') = ToSet(eventChan) \cup {e}
      BY <1>1, <1>3, <1>5, <2>3, JoinsChannel DEF ChannelFlow, InChannel
    <3> QED
      BY <2>1, <3>1 DEF InChannel
  <2> QED
    BY <1>2, <2>2, <2>3
<1>8. Newer
  BY <1>1, <1>2, <1>3, <1>7 DEF Newer, Source
<1>9. Precede(InChannel', Outgoing')
  BY <1>6, <1>7 DEF Precede, ChannelFlow
<1>10. UpTo(Source', numbered')
  <2>1. ASSUME NEW m \in Source' PROVE m.n <= numbered'
    <3>1. CASE m \in Source
      <4>1. m \in Event
        BY <3>1, SourceTyped DEF Source
      <4>2. m.n \in Nat /\ m.type \in EventTypes
        BY <4>1, EventsAre
      <4>3. m.n <= numbered
        BY <1>4, <3>1, <4>2 DEF UpTo
      <4> QED
        BY <1>2, <1>3, <4>2, <4>3
    <3>2. CASE m = e
      BY <1>1, <1>2, <1>3, <3>2
    <3> QED
      BY <1>7, <3>1, <3>2 DEF Source
  <2> QED
    BY <2>1 DEF UpTo
<1> QED
  BY <1>2, <1>7, <1>8, <1>9, <1>10 DEF ChannelFlow

LEMMA SendFlows ==
    ASSUME ChannelTyped, ChannelFlow, NEW k \in Calls, Send(k)
    PROVE  ChannelFlow' /\ Newer
<1> DEFINE e == sending[k]
<1>1. /\ e # Idle /\ sending' = [sending EXCEPT ![k] = Idle]
      /\ numbered' = numbered /\ eventChan' = Append(eventChan, e)
  BY DEF Send
<1>2. /\ sending \in [Calls -> Event \cup {Idle}] /\ numbered \in Nat
      /\ eventChan \in Seq(Event)
  BY SourceTyped DEF ChannelTyped
<1>3. e \in Event /\ e.call = k /\ e \in Outgoing
  BY <1>1, <1>2 DEF ChannelFlow, Outgoing
<1>4. Outgoing' \subseteq Outgoing /\ Precede({e}, Outgoing')
  <2>1. \A f \in Outgoing' : f \in Outgoing /\ f.call # k
    BY <1>1, <1>2 DEF Outgoing, ChannelFlow
  <2> QED
    BY <1>3, <2>1 DEF Precede, InOrder
<1>5. \A l \in Calls : sending'[l] # Idle => sending'[l].call = l
  BY <1>1, <1>2 DEF ChannelFlow
<1> HIDE DEF e
<1>6. Ordered(eventChan') /\ InChannel' = InChannel \cup {e}
  <2>1. Precede(ToSet(eventChan), {e})
    BY <1>3 DEF ChannelFlow, InChannel, Precede
  <2> QED
    BY <1>1, <1>2, <1>3, <2>1, JoinsChannel DEF ChannelFlow, InChannel
<1>7. Source' \subseteq Source
  BY <1>3, <1>4, <1>6 DEF Source
<1>8. Newer
  BY <1>1, <1>2, <1>7 DEF Newer
<1>9. Precede(InChannel', Outgoing')
  BY <1>4, <1>6 DEF Precede, ChannelFlow
<1>10. UpTo(Source', numbered')
  BY <1>1, <1>7 DEF UpTo, ChannelFlow
<1> QED
  BY <1>5, <1>6, <1>8, <1>9, <1>10 DEF ChannelFlow

(* What a receiver takes is what all that is left comes after.              *)
LEMMA TakeFlows ==
    ASSUME ChannelTyped, ChannelFlow, NEW e, Take(e)
    PROVE  /\ ChannelFlow' /\ Newer
           /\ e \in InChannel /\ Precede({e}, Source') /\ UpTo({e}, numbered')
           /\ Source' \subseteq Source
<1>1. /\ eventChan \in Seq(Event) /\ eventChan # <<>> /\ e = Head(eventChan)
      /\ eventChan' = Tail(eventChan) /\ sending' = sending /\ numbered' = numbered
  BY DEF Take, ChannelTyped
<1>2. <<e>> \in Seq(Event) /\ Tail(eventChan) \in Seq(Event)
      /\ eventChan = <<e>> \o Tail(eventChan)
  BY <1>1
<1>3. Ordered(Tail(eventChan)) /\ Precede({e}, ToSet(Tail(eventChan)))
  <2>1. Ordered(<<e>> \o Tail(eventChan))
    BY <1>2 DEF ChannelFlow
  <2>2. Ordered(Tail(eventChan)) /\ Precede(ToSet(<<e>>), ToSet(Tail(eventChan)))
    BY ONLY <1>2, <2>1, OrderedConcat
  <2>3. ToSet(<<e>>) = {e}
    BY SingleOrdered
  <2> QED
    BY <2>2, <2>3
<1>4. InChannel = {e} \cup InChannel'
  <2>1. ToSet(<<e>> \o Tail(eventChan)) = ToSet(<<e>>) \cup ToSet(Tail(eventChan))
    BY <1>2, ConcatSet
  <2> QED
    BY <1>1, <1>2, <2>1, SingleOrdered DEF InChannel
<1>5. Outgoing' = Outgoing
  BY <1>1 DEF Outgoing
<1>6. Precede({e}, Source') /\ Source' \subseteq Source
  BY <1>1, <1>3, <1>4, <1>5 DEF Precede, Source, InChannel, ChannelFlow
<1>7. numbered \in Nat
  BY SourceTyped
<1>8. Newer
  BY <1>1, <1>6, <1>7 DEF Newer
<1>9. UpTo(Source', numbered') /\ UpTo({e}, numbered')
  BY <1>1, <1>4, <1>6 DEF UpTo, ChannelFlow, Source
<1>10. Precede(InChannel', Outgoing')
  BY <1>4, <1>5 DEF Precede, ChannelFlow
<1>11. ChannelFlow'
  BY <1>1, <1>3, <1>9, <1>10 DEF ChannelFlow
<1> QED
  BY <1>4, <1>6, <1>8, <1>9, <1>11

LEMMA EnginesFlow ==
    ASSUME ChannelTyped, ChannelFlow, Engines
    PROVE  ChannelFlow' /\ Newer
BY EmitFlows, EmitPositionFlows, SendFlows DEF Engines

LEMMA ChannelRests ==
    ASSUME ChannelTyped, ChannelFlow, UNCHANGED channelVars
    PROVE  ChannelFlow' /\ Newer /\ Source' = Source /\ numbered' = numbered
<1>1. numbered \in Nat
  BY SourceTyped
<1>2. /\ eventChan' = eventChan /\ sending' = sending /\ numbered' = numbered
  BY DEF channelVars
<1>3. InChannel' = InChannel /\ Outgoing' = Outgoing /\ Source' = Source
  BY <1>2 DEF InChannel, Outgoing, Source
<1>4. ChannelFlow'
  BY <1>2, <1>3 DEF ChannelFlow
<1> QED
  BY <1>1, <1>2, <1>3, <1>4 DEF Newer

-----------------------------------------------------------------------------
(* The hub.                                                                 *)

USE DEF HubInv, HubTyped, Unmade, Busy, NoSendOnClosed, Broadcasting

LEMMA RegisterKeeps ==
    ASSUME HubInv, NEW c \in Clients, Register(c)
    PROVE  HubInv'
BY DEF Register, Waiting, Readers

LEMMA AddClientKeeps ==
    ASSUME HubInv, AddClient
    PROVE  HubInv'
BY DEF AddClient, Waiting, clientVars

LEMMA UnregisterKeeps ==
    ASSUME HubInv, NEW c \in Clients, Unregister(c)
    PROVE  HubInv'
BY DEF Unregister, Waiting, Readers

LEMMA RemoveClientKeeps ==
    ASSUME HubInv, RemoveClient
    PROVE  HubInv'
BY DEF RemoveClient, Waiting, clientVars

LEMMA CloseSendKeeps ==
    ASSUME HubInv, CloseSend
    PROVE  HubInv'
BY DEF CloseSend, Waiting

LEMMA ListenKeeps ==
    ASSUME ChannelTyped, HubInv, Listen
    PROVE  HubInv'
<1>1. PICK e \in {eventChan[i] : i \in DOMAIN eventChan} :
          Take(e) /\ listener' = [pc |-> "handle", event |-> e]
  BY DEF Listen
<1>2. e \in Event
  BY <1>1, TakeTyped
<1> QED
  BY <1>1, <1>2 DEF Listen, clientVars, Listening, Waiting

LEMMA BroadcastKeeps ==
    ASSUME HubInv, Broadcast
    PROVE  HubInv'
BY DEF Broadcast, clientVars, Listening, Waiting

LEMMA VisitKeeps ==
    ASSUME HubInv, NEW c \in Clients, Visit(c)
    PROVE  HubInv'
BY DEF Visit, Listening, Waiting

LEMMA EndBroadcastKeeps ==
    ASSUME HubInv, EndBroadcast
    PROVE  HubInv'
BY DEF EndBroadcast, clientVars, Listening, Waiting
-----------------------------------------------------------------------------
(* The pumps.                                                               *)

LEMMA HandleMessageKeeps ==
    ASSUME HubInv, NEW c \in Clients, handleMessage(c)
    PROVE  HubInv'
<1>1. /\ reader[c] = "read"
      /\ UNCHANGED <<clients, hub, listener, conn, closed>>
      /\ reader' = reader \/ reader' = [reader EXCEPT ![c] = "reply"]
  BY DEF handleMessage, Subscribe, Unsubscribe, AskSnapshot, Ping, Request, Answer
<1> QED
  BY <1>1 DEF Waiting, Readers

LEMMA SendReplyKeeps ==
    ASSUME HubInv, NEW c \in Clients, SendReply(c)
    PROVE  HubInv'
BY DEF SendReply, Waiting, Readers

LEMMA ReadFailsKeeps ==
    ASSUME HubInv, NEW c \in Clients, ReadFails(c)
    PROVE  HubInv'
BY DEF ReadFails, Waiting, Readers

LEMMA ReaderEndsKeeps ==
    ASSUME HubInv, NEW c \in Clients, ReaderEnds(c)
    PROVE  HubInv'
BY DEF ReaderEnds, Waiting, Readers

LEMMA WritePumpKeeps ==
    ASSUME HubInv, NEW c \in Clients, WritePump(c)
    PROVE  HubInv'
<1>1. CASE Receive(c) \/ Flush(c)
  <2>1. UNCHANGED hubState
    BY <1>1 DEF Receive, Flush, hubState
  <2> QED
    BY <2>1, HubStutter
<1>2. ASSUME NEW drained \in BOOLEAN, WriterEnds(c, drained)
      PROVE  HubInv'
  BY <1>2 DEF WriterEnds, Waiting
<1> QED
  BY <1>1, <1>2 DEF WritePump

LEMMA DisconnectKeeps ==
    ASSUME HubInv, NEW c \in Clients, Disconnect(c)
    PROVE  HubInv'
BY DEF Disconnect, Waiting

LEMMA HubStepKeeps ==
    ASSUME HubInv, HubStep
    PROVE  HubInv'
<1>1. CASE Run
  BY <1>1, AddClientKeeps, RemoveClientKeeps, CloseSendKeeps DEF Run
<1>2. ASSUME NEW c \in Clients, ClientStep(c)
      PROVE  HubInv'
  BY <1>2, RegisterKeeps, UnregisterKeeps, DisconnectKeeps, HandleMessageKeeps,
     SendReplyKeeps, ReadFailsKeeps, ReaderEndsKeeps, WritePumpKeeps DEF ClientStep
<1> QED
  BY <1>1, <1>2 DEF HubStep

LEMMA ListenEventsKeeps ==
    ASSUME ChannelTyped, HubInv, ListenEvents
    PROVE  HubInv' /\ ChannelTyped'
<1>1. CASE Listen
  <2>1. \E e : Take(e)
    BY <1>1 DEF Listen
  <2> QED
    BY <1>1, <2>1, ListenKeeps, TakeTyped
<1>2. CASE Broadcast \/ EndBroadcast \/ \E c \in Clients : Visit(c)
  <2>1. UNCHANGED channelVars
    BY <1>2 DEF Broadcast, EndBroadcast, Visit
  <2> QED
    BY <1>2, <2>1, BroadcastKeeps, EndBroadcastKeeps, VisitKeeps
    DEF channelVars, ChannelTyped
<1> QED
  BY <1>1, <1>2 DEF ListenEvents
-----------------------------------------------------------------------------
(* What the clients are given.                                              *)

HIDE DEF HubInv, HubTyped, Unmade, Busy, NoSendOnClosed, Broadcasting

TrafficTyped ==
    /\ send \in [Clients -> Seq(Message)]
    /\ batch \in [Clients -> Seq(Message)]
    /\ received \in [Clients -> Seq(Message)]
    /\ reply \in [Clients -> {Response, Snapshot, NoReply}]
    /\ writer \in [Clients -> {"none", "receive", "flush", "gone"}]
    /\ \A c \in Clients : writer[c] # "flush" => batch[c] = <<>>
    /\ \A c \in Clients : reader[c] = "reply" => reply[c] # NoReply
    /\ \A c \in Clients : conn[c] = "none" => writer[c] = "none"

\* The event a client is about to be visited with.
Coming(c) ==
    IF listener.pc = "handle" \/ (listener.pc = "visit" /\ c \in listener.left)
      THEN {listener.event} ELSE {}

\* What is broadcast is older than all that is ahead of every receiver.
ListenerFlow ==
    listener # Listening => Precede({listener.event}, Source) /\ UpTo({listener.event}, numbered)

\* What a client has been given is in order, and older than all that may come.
ClientFlow(c) ==
    /\ Ordered(Given(c))
    /\ Precede(ToSet(Given(c)), Coming(c) \cup Source)
    /\ UpTo(ToSet(Given(c)), numbered)

Flow == ChannelFlow /\ ListenerFlow /\ \A c \in Clients : ClientFlow(c)

traffic == <<conn, reader, writer, reply, send, batch, received>>

LEMMA RepliesAre ==
    /\ {Response, Snapshot} \subseteq Message
    /\ Response.type \notin EventTypes /\ Snapshot.type \notin EventTypes
    /\ Response # NoReply /\ Snapshot # NoReply
BY DEF Message, Response, Snapshot, NoReply, EventTypes

LEMMA GivenTyped ==
    ASSUME TrafficTyped, NEW c \in Clients
    PROVE  /\ received[c] \in Seq(Message) /\ batch[c] \in Seq(Message)
           /\ send[c] \in Seq(Message) /\ received[c] \o batch[c] \in Seq(Message)
           /\ Given(c) \in Seq(Message) /\ ToSet(Given(c)) \subseteq Message
<1>1. received[c] \in Seq(Message) /\ batch[c] \in Seq(Message) /\ send[c] \in Seq(Message)
  BY DEF TrafficTyped
<1>2. received[c] \o batch[c] \in Seq(Message)
  BY <1>1
<1>3. Given(c) \in Seq(Message)
  BY <1>1, <1>2 DEF Given
<1>4. ToSet(Given(c)) \subseteq Message
  BY <1>3 DEF ToSet
<1> QED
  BY <1>1, <1>2, <1>3, <1>4

LEMMA ListenerTyped ==
    ASSUME HubInv
    PROVE  \/ listener = Listening
           \/ listener.pc = "handle" /\ listener.event \in Event
           \/ listener.pc = "visit" /\ listener.event \in Event /\ listener.left \subseteq Clients
BY DEF HubInv, HubTyped

LEMMA ComingTyped ==
    ASSUME HubInv, NEW c \in Clients
    PROVE  Coming(c) \subseteq Event
BY ListenerTyped DEF Coming, Listening

(* A client that keeps what it has, or loses some of it.                     *)
LEMMA ClientKept ==
    ASSUME TrafficTyped, Newer, NEW c \in Clients, ClientFlow(c),
           Ordered(Given(c)'), ToSet(Given(c)') \subseteq ToSet(Given(c)),
           Coming(c)' \subseteq Coming(c) \cup Source
    PROVE  ClientFlow(c)'
<1> DEFINE A == ToSet(Given(c))
<1>1. A \subseteq Message
  BY GivenTyped
<1>2. Precede(A, Source) /\ Precede(A, Coming(c) \cup Source) /\ UpTo(A, numbered)
  BY DEF ClientFlow, Precede
<1>3. ToSet(Given(c)') \subseteq A
  OBVIOUS
<1> HIDE DEF A
<1>4. Precede(A, Source') /\ UpTo(A, numbered')
  BY ONLY <1>1, <1>2, Newer, StillAhead
<1>5. Precede(A, Coming(c)' \cup Source')
  BY <1>2, <1>4 DEF Precede
<1>6. Precede(ToSet(Given(c)'), Coming(c)' \cup Source') /\ UpTo(ToSet(Given(c)'), numbered')
  BY <1>3, <1>4, <1>5 DEF Precede, UpTo
<1> QED
  BY <1>6 DEF ClientFlow, ToSet

(* A client that is given one message more: a reply, or what was coming.     *)
LEMMA ClientGiven ==
    ASSUME TrafficTyped, NEW c \in Clients, ClientFlow(c),
           Source' = Source, numbered' = numbered,
           NEW m \in Message, Given(c)' = Append(Given(c), m),
           \/ m.type \notin EventTypes /\ Coming(c)' = Coming(c)
           \/ /\ Coming(c) = {m} /\ Coming(c)' = {}
              /\ Precede({m}, Source) /\ UpTo({m}, numbered)
    PROVE  ClientFlow(c)'
<1> DEFINE q == Given(c)
<1>1. q \in Seq(Message) /\ <<m>> \in Seq(Message) /\ q \o <<m>> = Append(q, m)
  BY GivenTyped
<1>2. Precede(ToSet(q), {m})
  BY DEF ClientFlow, Precede, InOrder
<1>3. Ordered(q)
  BY DEF ClientFlow
<1> HIDE DEF q
<1>4. Ordered(Append(q, m)) /\ ToSet(Append(q, m)) = ToSet(q) \cup {m}
  <2>1. Precede(ToSet(q), ToSet(<<m>>)) /\ Ordered(<<m>>)
    BY <1>2, SingleOrdered
  <2>2. Ordered(q \o <<m>>)
    BY ONLY <1>1, <1>3, <2>1, OrderedConcat
  <2> QED
    BY <1>1, <2>2, AppendSet
<1>5. Precede({m}, Coming(c)' \cup Source') /\ UpTo({m}, numbered')
  BY DEF Precede, InOrder, UpTo
<1>6. /\ Precede(ToSet(q), Coming(c)' \cup Source') /\ UpTo(ToSet(q), numbered')
      /\ Given(c)' = Append(q, m)
  BY DEF Precede, UpTo, ClientFlow, q
<1>7. /\ Precede(ToSet(Append(q, m)), Coming(c)' \cup Source')
      /\ UpTo(ToSet(Append(q, m)), numbered')
  BY <1>4, <1>5, <1>6 DEF Precede, UpTo
<1> QED
  BY <1>4, <1>6, <1>7 DEF ClientFlow

LEMMA ReceiveGives ==
    ASSUME TrafficTyped, NEW c \in Clients, Receive(c)
    PROVE  Given(c)' = Given(c)
<1>1. /\ batch[c] = <<>> /\ send[c] # <<>>
      /\ Given(c)' = (received[c] \o <<Head(send[c])>>) \o Tail(send[c])
  BY DEF Receive, TrafficTyped, Given
<1> DEFINE r == received[c]
           s == send[c]
<1>2. r \in Seq(Message) /\ s \in Seq(Message) /\ s # <<>>
  BY <1>1, GivenTyped
<1>3. Given(c) = (r \o <<>>) \o s /\ Given(c)' = (r \o <<Head(s)>>) \o Tail(s)
  BY <1>1 DEF Given
<1> HIDE DEF r, s
<1>4. <<Head(s)>> \in Seq(Message) /\ Tail(s) \in Seq(Message) /\ <<Head(s)>> \o Tail(s) = s
  BY <1>2
<1>5. (r \o <<Head(s)>>) \o Tail(s) = r \o (<<Head(s)>> \o Tail(s))
  BY <1>2, <1>4, ConcatAssociative
<1>6. r \o <<>> = r
  BY <1>2
<1> QED
  BY <1>3, <1>4, <1>5, <1>6

LEMMA FlushGives ==
    ASSUME TrafficTyped, NEW c \in Clients, Flush(c)
    PROVE  Given(c)' = Given(c)
<1>1. Given(c)' = (Given(c) \o <<>>) \o <<>>
  BY DEF Flush, TrafficTyped, Given
<1>2. Given(c) \in Seq(Message)
  BY GivenTyped
<1> DEFINE q == Given(c)
<1>3. q \in Seq(Message) /\ Given(c)' = (q \o <<>>) \o <<>>
  BY <1>1, <1>2
<1> HIDE DEF q
<1>4. (q \o <<>>) \o <<>> = q
  BY <1>3
<1> QED
  BY <1>3, <1>4 DEF q

LEMMA EndDrops ==
    ASSUME TrafficTyped, NEW c \in Clients, Ordered(Given(c)),
           NEW drained \in BOOLEAN, WriterEnds(c, drained)
    PROVE  Ordered(Given(c)') /\ ToSet(Given(c)') \subseteq ToSet(Given(c))
<1> DEFINE r == received[c]
           b == batch[c]
           s == send[c]
           t == IF drained THEN <<>> ELSE s
<1>1. Given(c)' = (r \o <<>>) \o t /\ Given(c) = (r \o b) \o s
  BY DEF WriterEnds, TrafficTyped, Given
<1>2. r \in Seq(Message) /\ b \in Seq(Message) /\ s \in Seq(Message) /\ r \o b \in Seq(Message)
  BY GivenTyped
<1>3. t \in Seq(Message) /\ (t = s \/ t = <<>>)
  BY <1>2
<1> HIDE DEF r, b, s, t
<1>4. Ordered(r \o b) /\ Ordered(s) /\ Precede(ToSet(r \o b), ToSet(s))
  BY <1>1, <1>2, OrderedConcat
<1>5. Ordered(r) /\ ToSet(r \o b) = ToSet(r) \cup ToSet(b)
  BY <1>2, <1>4, OrderedConcat, ConcatSet
<1>6. ToSet((r \o b) \o s) = ToSet(r \o b) \cup ToSet(s)
  BY <1>2, ConcatSet
<1>7. Ordered(t) /\ ToSet(t) \subseteq ToSet(s)
  BY <1>3, <1>4, NoneOrdered
<1>8. Precede(ToSet(r), ToSet(t))
  BY <1>4, <1>5, <1>7 DEF Precede
<1>9. Ordered(r \o t) /\ ToSet(r \o t) = ToSet(r) \cup ToSet(t)
  BY <1>2, <1>3, <1>5, <1>7, <1>8, OrderedConcat, ConcatSet
<1>10. r \o <<>> = r
  BY <1>2
<1> QED
  BY <1>1, <1>5, <1>6, <1>7, <1>9, <1>10

LEMMA TrafficRests ==
    ASSUME TrafficTyped, UNCHANGED traffic
    PROVE  TrafficTyped' /\ \A c \in Clients : Given(c)' = Given(c)
BY DEF TrafficTyped, traffic, Given

LEMMA HubFunctions ==
    ASSUME HubInv
    PROVE  /\ conn \in [Clients -> {"none", "open", "closed"}]
           /\ reader \in [Clients -> Readers]
BY DEF HubInv, HubTyped

(* What a client's goroutines and its peer do keeps the messages well formed. *)
LEMMA ClientStepTyped ==
    ASSUME HubInv, TrafficTyped, NEW c \in Clients, ClientStep(c)
    PROVE  TrafficTyped'
<1> USE HubFunctions DEF TrafficTyped
<1>1. CASE Register(c)
  BY <1>1 DEF Register
<1>2. CASE Unregister(c)
  BY <1>2 DEF Unregister
<1>3. CASE Disconnect(c)
  BY <1>3 DEF Disconnect
<1>4. CASE handleMessage(c)
  BY <1>4, RepliesAre DEF handleMessage, Subscribe, Unsubscribe, AskSnapshot, Ping, Request, Answer
<1>5. CASE SendReply(c)
  <2>1. reply[c] \in Message
    BY <1>5, RepliesAre DEF SendReply
  <2>2. Append(send[c], reply[c]) \in Seq(Message)
    BY <2>1
  <2> QED
    BY <1>5, <2>2 DEF SendReply
<1>6. CASE ReadFails(c)
  BY <1>6 DEF ReadFails
<1>7. CASE ReaderEnds(c)
  BY <1>7 DEF ReaderEnds
<1>8. CASE Receive(c)
  <2>1. Tail(send[c]) \in Seq(Message) /\ <<Head(send[c])>> \in Seq(Message)
    BY <1>8 DEF Receive
  <2> QED
    BY <1>8, <2>1 DEF Receive
<1>9. CASE Flush(c)
  <2>1. received[c] \o batch[c] \o send[c] \in Seq(Message)
    BY GivenTyped
  <2> QED
    BY <1>9, <2>1 DEF Flush
<1>10. ASSUME NEW drained \in BOOLEAN, WriterEnds(c, drained) PROVE TrafficTyped'
  BY <1>10 DEF WriterEnds
<1> QED
  BY <1>1, <1>2, <1>3, <1>4, <1>5, <1>6, <1>7, <1>8, <1>9, <1>10 DEF ClientStep, WritePump

(* No step of a client touches what another has been given.                  *)
LEMMA OthersKeep ==
    ASSUME TrafficTyped, NEW c \in Clients, ClientStep(c)
    PROVE  /\ \A d \in Clients \ {c} : Given(d)' = Given(d)
           /\ listener' = listener
BY DEF ClientStep, WritePump, Register, Unregister, Disconnect, handleMessage, Subscribe,
   Unsubscribe, AskSnapshot, Ping, Request, SendReply, ReadFails, ReaderEnds, Receive, Flush,
   WriterEnds, TrafficTyped, Given

(* It keeps, drops or adds a reply to what its own client has been given.    *)
LEMMA OwnGiven ==
    ASSUME TrafficTyped, NEW c \in Clients, Ordered(Given(c)), ClientStep(c)
    PROVE  \/ Ordered(Given(c)') /\ ToSet(Given(c)') \subseteq ToSet(Given(c))
           \/ \E m \in {Response, Snapshot} : Given(c)' = Append(Given(c), m)
<1>1. CASE SendReply(c)
  <2>1. send' = send \/ send' = [send EXCEPT ![c] = Append(@, reply[c])]
    BY <1>1 DEF SendReply
  <2>2. /\ batch' = batch /\ received' = received
        /\ reply[c] \in {Response, Snapshot}
    BY <1>1 DEF SendReply, TrafficTyped
  <2>3. CASE send' = send
    BY <2>2, <2>3 DEF Given
  <2>4. CASE send' = [send EXCEPT ![c] = Append(@, reply[c])]
    <3> DEFINE p == received[c] \o batch[c]
               s == send[c]
               m == reply[c]
    <3>1. p \in Seq(Message) /\ s \in Seq(Message) /\ m \in Message
      BY <2>2, GivenTyped, RepliesAre
    <3>2. Given(c) = p \o s /\ Given(c)' = p \o Append(s, m)
      BY <2>2, <2>4 DEF Given, TrafficTyped
    <3> HIDE DEF p, s, m
    <3>3. p \o Append(s, m) = Append(p \o s, m)
      BY <3>1
    <3>4. Given(c)' = Append(Given(c), m)
      BY <3>2, <3>3
    <3> QED
      BY <2>2, <3>4 DEF m
  <2> QED
    BY <2>1, <2>3, <2>4
<1>2. CASE Receive(c) \/ Flush(c)
  BY <1>2, ReceiveGives, FlushGives
<1>3. ASSUME NEW drained \in BOOLEAN, WriterEnds(c, drained)
      PROVE  Ordered(Given(c)') /\ ToSet(Given(c)') \subseteq ToSet(Given(c))
  BY <1>3, EndDrops
<1>4. CASE \/ Register(c) \/ Unregister(c) \/ Disconnect(c)
           \/ handleMessage(c) \/ ReadFails(c) \/ ReaderEnds(c)
  <2>1. send' = send /\ batch' = batch /\ received' = received
    BY <1>4 DEF Register, Unregister, Disconnect, handleMessage, Subscribe, Unsubscribe,
       AskSnapshot, Ping, Request, ReadFails, ReaderEnds
  <2>2. Given(c)' = Given(c)
    BY <2>1 DEF Given
  <2> QED
    BY <2>2
<1> QED
  BY <1>1, <1>2, <1>3, <1>4 DEF ClientStep, WritePump

LEMMA ListenerRests ==
    ASSUME ListenerFlow, listener' = listener, Source' = Source, numbered' = numbered
    PROVE  ListenerFlow'
BY DEF ListenerFlow

LEMMA HubStepFlows ==
    ASSUME ChannelTyped, HubInv, TrafficTyped, Flow, HubStep, UNCHANGED channelVars
    PROVE  TrafficTyped' /\ Flow'
<1>1. ChannelFlow' /\ Newer /\ Source' = Source /\ numbered' = numbered
  BY ChannelRests DEF Flow
<1>2. CASE Run
  <2>1. listener' = listener /\ UNCHANGED traffic
    BY <1>2 DEF Run, AddClient, RemoveClient, CloseSend, clientVars, traffic
  <2>2. TrafficTyped' /\ \A c \in Clients : Given(c)' = Given(c)
    BY <2>1, TrafficRests
  <2>3. ASSUME NEW c \in Clients PROVE ClientFlow(c)'
    <3>1. Coming(c)' = Coming(c) /\ Given(c)' = Given(c)
      BY <2>1, <2>2 DEF Coming
    <3> QED
      BY <1>1, <3>1 DEF ClientFlow, Flow
  <2> QED
    BY <1>1, <2>1, <2>2, <2>3, ListenerRests DEF Flow
<1>3. ASSUME NEW c \in Clients, ClientStep(c) PROVE TrafficTyped' /\ Flow'
  <2>1. (\A d \in Clients \ {c} : Given(d)' = Given(d)) /\ listener' = listener
    BY <1>3, OthersKeep
  <2>2. \A d \in Clients : Coming(d)' = Coming(d)
    BY <2>1 DEF Coming
  <2>3. ASSUME NEW d \in Clients \ {c} PROVE ClientFlow(d)'
    <3>1. Coming(d)' = Coming(d) /\ Given(d)' = Given(d)
      BY <2>1, <2>2
    <3> QED
      BY <1>1, <3>1 DEF ClientFlow, Flow
  <2>4. ClientFlow(c)'
    <3>1. ClientFlow(c) /\ Ordered(Given(c)) /\ Coming(c)' = Coming(c)
      BY <2>2 DEF Flow, ClientFlow
    <3>2. CASE Ordered(Given(c)') /\ ToSet(Given(c)') \subseteq ToSet(Given(c))
      BY <1>1, <3>1, <3>2, ClientKept
    <3>3. ASSUME NEW m \in {Response, Snapshot}, Given(c)' = Append(Given(c), m)
          PROVE  ClientFlow(c)'
      <4>1. m \in Message /\ m.type \notin EventTypes
        BY RepliesAre
      <4> QED
        BY <1>1, <3>1, <3>3, <4>1, ClientGiven
    <3> QED
      BY <1>3, <3>1, <3>2, <3>3, OwnGiven
  <2>5. TrafficTyped'
    BY <1>3, ClientStepTyped
  <2> QED
    BY <1>1, <2>1, <2>3, <2>4, <2>5, ListenerRests DEF Flow
<1> QED
  BY <1>2, <1>3 DEF HubStep

LEMMA ListenFlows ==
    ASSUME ChannelTyped, TrafficTyped, Flow, Listen
    PROVE  TrafficTyped' /\ Flow'
<1>1. PICK e \in {eventChan[i] : i \in DOMAIN eventChan} :
          Take(e) /\ listener' = [pc |-> "handle", event |-> e]
  BY DEF Listen
<1>2. /\ ChannelFlow' /\ Newer /\ e \in InChannel
      /\ Precede({e}, Source') /\ UpTo({e}, numbered')
  BY <1>1, TakeFlows DEF Flow
<1>3. TrafficTyped' /\ \A c \in Clients : Given(c)' = Given(c)
  <2>1. UNCHANGED traffic
    BY DEF Listen, clientVars, traffic
  <2> QED
    BY <2>1, TrafficRests
<1>4. ListenerFlow'
  BY <1>1, <1>2 DEF ListenerFlow
<1>5. ASSUME NEW c \in Clients PROVE ClientFlow(c)'
  <2>1. Coming(c)' \subseteq Coming(c) \cup Source
    BY <1>1, <1>2 DEF Coming, Source
  <2>2. ClientFlow(c) /\ Given(c)' = Given(c)
    BY <1>3 DEF Flow
  <2>3. Ordered(Given(c)') /\ ToSet(Given(c)') \subseteq ToSet(Given(c))
    BY <2>2 DEF ClientFlow
  <2> QED
    BY <1>2, <2>1, <2>2, <2>3, ClientKept
<1> QED
  BY <1>2, <1>3, <1>4, <1>5 DEF Flow

LEMMA BroadcastFlows ==
    ASSUME ChannelTyped, TrafficTyped, Flow, Broadcast \/ EndBroadcast
    PROVE  TrafficTyped' /\ Flow'
<1>1. UNCHANGED channelVars /\ UNCHANGED traffic
  BY DEF Broadcast, EndBroadcast, clientVars, traffic
<1>2. ChannelFlow' /\ Source' = Source /\ numbered' = numbered
  BY <1>1, ChannelRests DEF Flow
<1>3. TrafficTyped' /\ \A c \in Clients : Given(c)' = Given(c)
  BY <1>1, TrafficRests
<1>4. ListenerFlow'
  BY <1>2 DEF ListenerFlow, Flow, Broadcast, EndBroadcast, Listening
<1>5. ASSUME NEW c \in Clients PROVE ClientFlow(c)'
  <2>1. Coming(c)' \subseteq Coming(c)
    BY DEF Coming, Broadcast, EndBroadcast, Listening
  <2>2. ClientFlow(c) /\ Given(c)' = Given(c)
    BY <1>3 DEF Flow
  <2> QED
    BY <1>2, <2>1, <2>2 DEF ClientFlow, Precede
<1> QED
  BY <1>2, <1>3, <1>4, <1>5 DEF Flow

LEMMA VisitFlows ==
    ASSUME ChannelTyped, HubInv, TrafficTyped, Flow, NEW c \in Clients, Visit(c)
    PROVE  TrafficTyped' /\ Flow'
<1> DEFINE e == listener.event
<1>1. /\ listener.pc = "visit" /\ c \in listener.left
      /\ listener' = [listener EXCEPT !.left = @ \ {c}]
      /\ send' = [send EXCEPT ![c] = Append(@, e)] \/ send' = send
      /\ UNCHANGED <<conn, reader, writer, reply, batch, received>>
      /\ UNCHANGED channelVars
  BY DEF Visit, Broadcasting
<1>2. ChannelFlow' /\ Newer /\ Source' = Source /\ numbered' = numbered
  BY <1>1, ChannelRests DEF Flow
<1>3. e \in Event /\ e \in Message
  BY <1>1, ListenerTyped, EventsAre DEF Listening
<1>4. /\ listener'.pc = "visit" /\ listener'.event = e
      /\ listener'.left = listener.left \ {c}
      /\ listener # Listening
  BY <1>1, ListenerTyped DEF Listening, HubInv, HubTyped
<1>5. Precede({e}, Source) /\ UpTo({e}, numbered)
  BY <1>4 DEF Flow, ListenerFlow
<1>6. ListenerFlow'
  BY <1>2, <1>4, <1>5 DEF ListenerFlow
<1>7. TrafficTyped'
  <2>1. Append(send[c], e) \in Seq(Message)
    BY <1>3, GivenTyped
  <2> QED
    BY <1>1, <2>1 DEF TrafficTyped
<1>8. ASSUME NEW d \in Clients \ {c} PROVE ClientFlow(d)'
  <2>1. Coming(d)' = Coming(d)
    BY <1>1, <1>4 DEF Coming
  <2>2. Given(d)' = Given(d)
    BY <1>1 DEF Given, TrafficTyped
  <2> QED
    BY <1>2, <2>1, <2>2 DEF ClientFlow, Flow
<1>9. ClientFlow(c)'
  <2>1. Coming(c) = {e} /\ Coming(c)' = {}
    BY <1>1, <1>4 DEF Coming
  <2>2. ClientFlow(c)
    BY DEF Flow
  <2>3. CASE send' = send
    <3>1. Given(c)' = Given(c)
      BY <1>1, <2>3 DEF Given
    <3> QED
      BY <1>2, <2>1, <2>2, <3>1 DEF ClientFlow, Precede
  <2>4. CASE send' = [send EXCEPT ![c] = Append(@, e)]
    <3> DEFINE p == received[c] \o batch[c]
               s == send[c]
    <3>1. p \in Seq(Message) /\ s \in Seq(Message)
      BY GivenTyped
    <3>2. Given(c) = p \o s /\ Given(c)' = p \o Append(s, e)
      BY <1>1, <2>4 DEF Given, TrafficTyped
    <3> HIDE DEF p, s
    <3>3. p \o Append(s, e) = Append(p \o s, e)
      BY <1>3, <3>1
    <3>4. Given(c)' = Append(Given(c), e)
      BY <3>2, <3>3
    <3> HIDE DEF e
    <3> QED
      BY <1>2, <1>3, <1>5, <2>1, <2>2, <3>4, ClientGiven
  <2> QED
    BY <1>1, <2>3, <2>4
<1> QED
  BY <1>2, <1>6, <1>7, <1>8, <1>9 DEF Flow

LEMMA ListenEventsFlow ==
    ASSUME ChannelTyped, HubInv, TrafficTyped, Flow, ListenEvents
    PROVE  TrafficTyped' /\ Flow'
BY ListenFlows, BroadcastFlows, VisitFlows DEF ListenEvents

(* Whatever the hub does not do leaves the clients what they have.           *)
LEMMA AwayFlows ==
    ASSUME TrafficTyped, Flow, UNCHANGED hubVars, ChannelFlow', Newer,
           listener # Listening => Precede({listener.event}, Source') /\ UpTo({listener.event}, numbered')
    PROVE  TrafficTyped' /\ Flow'
<1>1. TrafficTyped' /\ \A c \in Clients : Given(c)' = Given(c)
  <2>1. UNCHANGED traffic
    BY DEF hubVars, clientVars, traffic
  <2> QED
    BY <2>1, TrafficRests
<1>2. listener' = listener
  BY DEF hubVars
<1>3. ASSUME NEW c \in Clients PROVE ClientFlow(c)'
  <2>1. Coming(c)' = Coming(c)
    BY <1>2 DEF Coming
  <2>2. ClientFlow(c) /\ Given(c)' = Given(c)
    BY <1>1 DEF Flow
  <2>3. Ordered(Given(c)') /\ ToSet(Given(c)') \subseteq ToSet(Given(c))
    BY <2>2 DEF ClientFlow
  <2> QED
    BY <2>1, <2>2, <2>3, ClientKept
<1> QED
  BY <1>1, <1>2, <1>3 DEF Flow, ListenerFlow

LEMMA ListenerAway ==
    ASSUME HubInv, Flow, Newer
    PROVE  listener # Listening =>
               Precede({listener.event}, Source') /\ UpTo({listener.event}, numbered')
<1>1. ASSUME listener # Listening
      PROVE  Precede({listener.event}, Source') /\ UpTo({listener.event}, numbered')
  <2>1. {listener.event} \subseteq Message
    BY <1>1, ListenerTyped, EventsAre
  <2>2. Precede({listener.event}, Source) /\ UpTo({listener.event}, numbered)
    BY <1>1 DEF Flow, ListenerFlow
  <2> QED
    BY <2>1, <2>2, StillAhead
<1> QED
  BY <1>1

LEMMA EnginesGive ==
    ASSUME ChannelTyped, HubInv, TrafficTyped, Flow, Engines, UNCHANGED hubVars
    PROVE  TrafficTyped' /\ Flow'
BY EnginesFlow, ListenerAway, AwayFlows DEF Flow

LEMMA MarketGives ==
    ASSUME ChannelTyped, HubInv, TrafficTyped, Flow, Market
    PROVE  TrafficTyped' /\ Flow'
<1>1. UNCHANGED hubVars
  BY DEF Market, OpenStream, CancelStream, StreamTake, Publish
<1>2. UNCHANGED channelVars \/ \E e : Take(e)
  BY DEF Market, OpenStream, CancelStream, StreamTake, Publish
<1>3. ChannelFlow' /\ Newer
  BY <1>2, TakeFlows, ChannelRests DEF Flow
<1> QED
  BY <1>1, <1>3, ListenerAway, AwayFlows

-----------------------------------------------------------------------------
(* Everything at once.                                                      *)

LEMMA InitEstablishes ==
    ASSUME Init
    PROVE  IInv
<1>1. MaxEvents \in Nat
  BY MaxEventsAssumption DEF MaxEventsAssumption
<1>2. ChannelTyped
  BY <1>1 DEF Init, ChannelInit, ChannelTyped
<1>3. HubInv
  BY DEF Init, HubInit, Waiting, Listening, Readers, HubInv, HubTyped, Unmade, Busy,
     NoSendOnClosed
<1> QED
  BY <1>2, <1>3 DEF IInv

LEMMA MarketKeeps ==
    ASSUME IInv, Market
    PROVE  IInv'
<1>1. UNCHANGED hubVars
  BY DEF Market, OpenStream, CancelStream, StreamTake, Publish
<1>2. UNCHANGED channelVars \/ \E e : Take(e)
  BY DEF Market, OpenStream, CancelStream, StreamTake, Publish
<1>3. HubInv'
  BY <1>1, HubStutter DEF IInv, hubVars, clientVars, hubState
<1>4. ChannelTyped'
  BY <1>2, TakeTyped DEF IInv, channelVars, ChannelTyped
<1> QED
  BY <1>3, <1>4 DEF IInv

LEMMA NextKeeps ==
    ASSUME IInv, [Next]_vars
    PROVE  IInv'
<1>1. CASE Engines /\ UNCHANGED <<hubVars, marketVars>>
  <2>1. HubInv'
    BY <1>1, HubStutter DEF IInv, hubVars, clientVars, hubState
  <2> QED
    BY <1>1, <2>1, EnginesTyped DEF IInv
<1>2. CASE HubStep /\ UNCHANGED <<channelVars, marketVars>>
  BY <1>2, HubStepKeeps DEF IInv, channelVars, ChannelTyped
<1>3. CASE ListenEvents /\ UNCHANGED marketVars
  BY <1>3, ListenEventsKeeps DEF IInv
<1>4. CASE Market
  BY <1>4, MarketKeeps
<1>5. CASE UNCHANGED vars
  <2>1. HubInv'
    BY <1>5, HubStutter DEF IInv, vars, hubVars, clientVars, hubState
  <2> QED
    BY <1>5, <2>1 DEF IInv, vars, channelVars, ChannelTyped
<1> QED
  BY <1>1, <1>2, <1>3, <1>4, <1>5 DEF Next

(* However many clients come, fall behind, vanish and are removed while      *)
(* events are broadcast and requests answered, no goroutine is about to send *)
(* on a channel the hub has closed (websocket/server.go:67).                 *)
THEOREM NoSendOnClosedAlways == Spec => []NoSendOnClosed
<1>1. Init => IInv
  BY InitEstablishes
<1>2. IInv /\ [Next]_vars => IInv'
  BY NextKeeps
<1>3. IInv => NoSendOnClosed
  BY DEF IInv, HubInv
<1> QED
  BY <1>1, <1>2, <1>3, PTL DEF Spec

FInv == IInv /\ TrafficTyped /\ Flow

LEMMA FlowStarts ==
    ASSUME Init
    PROVE  TrafficTyped /\ Flow
<1>1. TrafficTyped
  BY DEF Init, HubInit, TrafficTyped
<1>2. InChannel = {} /\ Outgoing = {} /\ Source = {}
  BY DEF Init, ChannelInit, InChannel, Outgoing, Source, ToSet
<1>3. ChannelFlow
  BY <1>2 DEF Init, ChannelInit, ChannelFlow, Ordered, Precede, UpTo
<1>4. ASSUME NEW c \in Clients PROVE ClientFlow(c)
  <2>1. Given(c) = <<>>
    BY DEF Init, HubInit, Given
  <2>2. Ordered(Given(c)) /\ ToSet(Given(c)) = {}
    BY <2>1, NoneOrdered
  <2> QED
    BY <2>2 DEF ClientFlow, Precede, UpTo
<1>5. ListenerFlow
  BY DEF Init, HubInit, ListenerFlow
<1> QED
  BY <1>1, <1>3, <1>4, <1>5 DEF Flow

LEMMA FlowKeeps ==
    ASSUME FInv, [Next]_vars
    PROVE  FInv'
<1> USE DEF FInv
<1>1. IInv'
  BY NextKeeps
<1>2. ChannelTyped /\ HubInv
  BY DEF IInv
<1>3. CASE Engines /\ UNCHANGED <<hubVars, marketVars>>
  <2>1. UNCHANGED hubVars
    BY <1>3
  <2> QED
    BY <1>1, <1>2, <1>3, <2>1, EnginesGive
<1>4. CASE HubStep /\ UNCHANGED <<channelVars, marketVars>>
  <2>1. UNCHANGED channelVars
    BY <1>4
  <2> QED
    BY <1>1, <1>2, <1>4, <2>1, HubStepFlows
<1>5. CASE ListenEvents /\ UNCHANGED marketVars
  BY <1>1, <1>2, <1>5, ListenEventsFlow
<1>6. CASE Market
  BY <1>1, <1>2, <1>6, MarketGives
<1>7. CASE UNCHANGED vars
  <2>1. UNCHANGED hubVars /\ UNCHANGED channelVars
    BY <1>7 DEF vars
  <2>2. ChannelFlow' /\ Newer
    BY <1>2, <2>1, ChannelRests DEF Flow
  <2> QED
    BY <1>1, <1>2, <2>1, <2>2, ListenerAway, AwayFlows
<1> QED
  BY <1>3, <1>4, <1>5, <1>6, <1>7 DEF Next

(* However many clients are behind, skipped, disconnected or asking, and     *)
(* however many other receivers take events from the one channel: a client   *)
(* is given the events of each engine call in the order the call sent them,  *)
(* none twice (websocket/server.go:130, 231).                                *)
THEOREM EventsInOrderAlways == Spec => []EventsInOrder
<1>1. Init => FInv
  BY InitEstablishes, FlowStarts DEF FInv
<1>2. FInv /\ [Next]_vars => FInv'
  BY FlowKeeps
<1>3. FInv => EventsInOrder
  BY DEF FInv, Flow, ClientFlow, Ordered, EventsInOrder
<1> QED
  BY <1>1, <1>2, <1>3, PTL DEF Spec
=============================================================================
