---------------------------- MODULE EventFanout -----------------------------
(***************************************************************************)
(* Everything that receives from the event channel, at once: the WebSocket   *)
(* hub, the gRPC subscriptions of the market data service, and the NATS      *)
(* publisher when a program starts one (the server's main does not).         *)
(***************************************************************************)
EXTENDS WebSocketHub

CONSTANTS
    Streams,     \* gRPC subscription calls that may be made
    StreamTypes, \* what they ask for
    Publishers   \* NATS publishers started

\* The two subscriptions, named by the event type each passes on.
ASSUME StreamTypesAssumption == StreamTypes \subseteq {"TRADE", "BOOK_UPDATE"}

VARIABLES
    stream,     \* what each subscription asked for, while it is open
    delivered   \* the events a subscription has been sent

marketVars == <<stream, delivered>>
vars == <<channelVars, hubVars, marketVars>>

Off == [type |-> "none"]

Init ==
    /\ ChannelInit
    /\ HubInit
    /\ stream = [g \in Streams |-> Off]
    /\ delivered = [g \in Streams |-> <<>>]

\* SubscribeTrades asks nothing of the symbol, SubscribeOrderBook that it has
\* an engine.
OpenStream(g, type, s) ==
    /\ stream[g] = Off
    /\ stream' = [stream EXCEPT ![g] = [type |-> type, sym |-> s]]
    /\ UNCHANGED <<delivered, channelVars, hubVars>>

\* The client cancels the call.
CancelStream(g) ==
    /\ stream[g] # Off
    /\ stream' = [stream EXCEPT ![g] = Off]
    /\ UNCHANGED <<delivered, channelVars, hubVars>>

Wanted(g, e) == stream[g] # Off /\ stream[g].sym = e.sym /\ stream[g].type = e.type

\* A subscription receives an event, and passes it on or drops it; sending
\* may fail, and ends the call.
StreamTake(g, fails) ==
    /\ stream[g] # Off
    /\ \E e \in {eventChan[i] : i \in DOMAIN eventChan} :
          /\ Take(e)
          /\ fails => Wanted(g, e)
          /\ delivered' = IF Wanted(g, e) /\ ~fails
                            THEN [delivered EXCEPT ![g] = Append(@, e)] ELSE delivered
    /\ stream' = IF fails THEN [stream EXCEPT ![g] = Off] ELSE stream
    /\ UNCHANGED hubVars

\* listenEvents of the NATS publisher: whatever it receives it publishes, or
\* logs that it could not.
Publish(p) ==
    /\ \E e \in {eventChan[i] : i \in DOMAIN eventChan} : Take(e)
    /\ UNCHANGED <<marketVars, hubVars>>

Market ==
    \/ \E g \in Streams, t \in StreamTypes, s \in Symbols : OpenStream(g, t, s)
    \/ \E g \in Streams : CancelStream(g)
    \/ \E g \in Streams, fails \in BOOLEAN : StreamTake(g, fails)
    \/ \E p \in Publishers : Publish(p)

Next ==
    \/ Engines /\ UNCHANGED <<hubVars, marketVars>>
    \/ HubStep /\ UNCHANGED <<channelVars, marketVars>>
    \/ ListenEvents /\ UNCHANGED marketVars
    \/ Market

(* The hub's and the pumps' goroutines are scheduled, a waiting sender on a  *)
(* Go channel is served in its turn, and a waiting Lock keeps new readers    *)
(* out.  A peer need not send, or stay, or go; streams and publishers may be *)
(* slow, and the liveness below owes nothing to them.                        *)
Fairness ==
    /\ SF_vars(Run /\ UNCHANGED <<channelVars, marketVars>>)
    /\ WF_vars(ListenEvents /\ UNCHANGED marketVars)
    /\ \A k \in Calls : SF_vars(Send(k) /\ UNCHANGED <<hubVars, marketVars>>)
    /\ \A c \in Clients :
          /\ SF_vars(Unregister(c) /\ UNCHANGED <<channelVars, marketVars>>)
          /\ SF_vars(SendReply(c) /\ UNCHANGED <<channelVars, marketVars>>)
          /\ WF_vars(conn[c] = "closed" /\ ReadFails(c) /\ UNCHANGED <<channelVars, marketVars>>)
          /\ WF_vars(ReaderEnds(c) /\ UNCHANGED <<channelVars, marketVars>>)
          /\ WF_vars(WritePump(c) /\ UNCHANGED <<channelVars, marketVars>>)

Spec == Init /\ [][Next]_vars
FairSpec == Spec /\ Fairness

(* An engine call is never held up for ever by the event channel: the hub's  *)
(* goroutine receives whatever its clients do, since it waits for none of    *)
(* them.                                                                     *)
EngineProceeds == \A k \in Calls : sending[k] # Idle ~> sending[k] = Idle

(* A connection that is lost is forgotten: its client leaves the set, its    *)
(* channel is closed and both pumps end - unless readPump is stuck in the    *)
(* answer to a snapshot request, waiting for room in a queue nobody empties. *)
LostIsForgotten ==
    \A c \in Clients :
        conn[c] = "closed" ~>
            \/ c \notin clients /\ closed[c] /\ reader[c] = "gone" /\ writer[c] = "gone"
            \/ Stuck(c)
=============================================================================
