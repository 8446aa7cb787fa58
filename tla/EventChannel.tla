---------------------------- MODULE EventChannel ----------------------------
(***************************************************************************)
(* The one event channel of the process: EngineManager makes it, every      *)
(* engine call sends on it, and whoever asked for EngineManager.EventChannel *)
(* receives from it.  A Go channel hands each element to one receiver.       *)
(*                                                                          *)
(* A call is a goroutine inside an engine (a gRPC handler, the command       *)
(* worker).  It numbers an event (nextSequenceID) and then sends it; trades, *)
(* cancellations and auction events wait for room, position events do not.   *)
(***************************************************************************)
EXTENDS Naturals, Sequences

CONSTANTS
    Symbols,          \* the symbols with an engine
    Calls,            \* goroutines inside an engine
    Kinds,            \* types of the events that calls wait to send
    EventBufferSize,  \* EngineConfig.EventBufferSize
    MaxEvents         \* bound: events numbered in a behaviour

\* The event types some engine emits; the others have no sender in the code.
EventTypes == {"ORDER_CANCEL", "TRADE", "AUCTION_START", "AUCTION_END", "POSITION"}

ASSUME KindsAssumption == Kinds \subseteq EventTypes \ {"POSITION"}
ASSUME EventBufferAssumption == EventBufferSize \in Nat \ {0}
ASSUME MaxEventsAssumption == MaxEvents \in Nat

VARIABLES
    eventChan,  \* the events in the channel, oldest first
    sending,    \* the event each call waits to send, if any
    numbered    \* how many events have been numbered

channelVars == <<eventChan, sending, numbered>>

Event == [sym : Symbols, type : EventTypes, call : Calls, n : 1 .. MaxEvents]

Idle == [sym |-> "none"]

HasRoom == Len(eventChan) < EventBufferSize

ChannelInit ==
    /\ eventChan = <<>>
    /\ sending = [k \in Calls |-> Idle]
    /\ numbered = 0

NewEvent(k, s, t) == [sym |-> s, type |-> t, call |-> k, n |-> numbered + 1]

\* A call on an engine of s has an event of type t to send, and waits.
Emit(k, s, t) ==
    /\ sending[k] = Idle
    /\ numbered < MaxEvents
    /\ numbered' = numbered + 1
    /\ sending' = [sending EXCEPT ![k] = NewEvent(k, s, t)]
    /\ UNCHANGED eventChan

\* The channel takes a waiting call's event.
Send(k) ==
    /\ sending[k] # Idle
    /\ HasRoom
    /\ eventChan' = Append(eventChan, sending[k])
    /\ sending' = [sending EXCEPT ![k] = Idle]
    /\ UNCHANGED numbered

\* emitPositionEvent drops the event when the channel is full.  (Its event
\* carries no sequence id; the number here is the model's.)
EmitPosition(k, s) ==
    /\ sending[k] = Idle
    /\ numbered < MaxEvents
    /\ numbered' = numbered + 1
    /\ eventChan' = IF HasRoom THEN Append(eventChan, NewEvent(k, s, "POSITION"))
                               ELSE eventChan
    /\ UNCHANGED sending

\* A receiver takes the oldest event.
Take(e) ==
    /\ eventChan # <<>>
    /\ e = Head(eventChan)
    /\ eventChan' = Tail(eventChan)
    /\ UNCHANGED <<sending, numbered>>

Engines ==
    \/ \E k \in Calls, s \in Symbols, t \in Kinds : Emit(k, s, t)
    \/ \E k \in Calls, s \in Symbols : EmitPosition(k, s)
    \/ \E k \in Calls : Send(k)
=============================================================================
