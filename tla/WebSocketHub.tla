---------------------------- MODULE WebSocketHub ----------------------------
(***************************************************************************)
(* The WebSocket server: the hub's Run loop that owns the set of clients,    *)
(* the goroutine that receives events and broadcasts them, and two pumps per *)
(* client, which share the client's bounded send channel.                    *)
(*                                                                          *)
(* Actions are the accesses another goroutine can come between: a rendezvous *)
(* on register or unregister, a lock acquired, one client visited, one value *)
(* sent or received.  The hub's mutex appears as the guard that no broadcast *)
(* is under way: broadcastToSubscribers holds it for reading while it visits *)
(* the clients.  Nothing is ever sent on s.broadcast, so that arm of Run's   *)
(* select is left out.                                                      *)
(***************************************************************************)
EXTENDS EventChannel, FiniteSets

CONSTANTS
    Clients,        \* connections that may be made
    SendBuffer,     \* the capacity of Client.send (256)
    Asked,          \* the symbols requests name: any string, "*" for all
    MaxRequests     \* bound: requests a connection sends

ASSUME SendBufferAssumption == SendBuffer \in Nat \ {0}
ASSUME MaxRequestsAssumption == MaxRequests \in Nat

VARIABLES
    clients,   \* Server.clients
    hub,       \* what Run is doing, and for which client
    listener,  \* what listenEvents is doing: event, clients still to visit
    conn,      \* the connection: "none", "open" or "closed"
    reader,    \* readPump
    writer,    \* writePump
    reply,     \* the message readPump is about to send
    requests,  \* requests read so far
    subs,      \* Client.subscriptions
    send,      \* Client.send
    closed,    \* whether close(send) has happened
    batch,     \* what writePump has received and not yet flushed
    received   \* what was flushed to the connection, in order

clientVars == <<conn, reader, writer, reply, requests, subs, send, closed, batch, received>>
hubVars == <<clients, hub, listener, clientVars>>

Waiting == [pc |-> "select"]
Listening == [pc |-> "receive"]

\* What a client may be sent besides events.
Response == [type |-> "RESPONSE"]
Snapshot == [type |-> "SNAPSHOT"]
NoReply == [type |-> "none"]

AnySymbol == "*"

HubInit ==
    /\ clients = {}
    /\ hub = Waiting
    /\ listener = Listening
    /\ conn = [c \in Clients |-> "none"]
    /\ reader = [c \in Clients |-> "none"]
    /\ writer = [c \in Clients |-> "none"]
    /\ reply = [c \in Clients |-> NoReply]
    /\ requests = [c \in Clients |-> 0]
    /\ subs = [c \in Clients |-> {}]
    /\ send = [c \in Clients |-> <<>>]
    /\ closed = [c \in Clients |-> FALSE]
    /\ batch = [c \in Clients |-> <<>>]
    /\ received = [c \in Clients |-> <<>>]

Broadcasting == listener.pc = "visit"

isSubscribed(c, s) == s \in subs[c] \/ AnySymbol \in subs[c]

SendHasRoom(c) == Len(send[c]) < SendBuffer
-----------------------------------------------------------------------------
(* Run *)

\* HandleConnection hands a new client to the hub and starts its pumps.
Register(c) ==
    /\ hub = Waiting
    /\ conn[c] = "none"
    /\ conn' = [conn EXCEPT ![c] = "open"]
    /\ reader' = [reader EXCEPT ![c] = "read"]
    /\ writer' = [writer EXCEPT ![c] = "receive"]
    /\ hub' = [pc |-> "add", client |-> c]
    /\ UNCHANGED <<clients, listener, reply, requests, subs, send, closed, batch, received>>

AddClient ==
    /\ hub.pc = "add"
    /\ ~Broadcasting
    /\ clients' = clients \cup {hub.client}
    /\ hub' = Waiting
    /\ UNCHANGED <<listener, clientVars>>

\* The hub receives a client from its readPump and looks whether it knows it.
Unregister(c) ==
    /\ hub = Waiting
    /\ reader[c] = "leave"
    /\ reader' = [reader EXCEPT ![c] = "close"]
    /\ hub' = IF c \in clients THEN [pc |-> "remove", client |-> c] ELSE Waiting
    /\ UNCHANGED <<clients, listener, conn, writer, reply, requests, subs, send, closed, batch, received>>

\* Mutant: the set is changed under the read lock.
MutRemoveClient ==
    /\ hub.pc = "remove"
    /\ clients' = clients \ {hub.client}
    /\ hub' = [hub EXCEPT !.pc = "close"]
    /\ UNCHANGED <<listener, clientVars>>

RemoveClient ==
    /\ hub.pc = "remove"
    /\ ~Broadcasting
    /\ clients' = clients \ {hub.client}
    /\ hub' = [hub EXCEPT !.pc = "close"]
    /\ UNCHANGED <<listener, clientVars>>

CloseSend ==
    /\ hub.pc = "close"
    /\ closed' = [closed EXCEPT ![hub.client] = TRUE]
    /\ hub' = Waiting
    /\ UNCHANGED <<clients, listener, conn, reader, writer, reply, requests, subs, send, batch, received>>

Run == AddClient \/ RemoveClient \/ CloseSend
-----------------------------------------------------------------------------
(* listenEvents *)

\* Mutant: without clients no event is received.
MutListen ==
    /\ listener = Listening /\ clients # {}
    /\ \E e \in {eventChan[i] : i \in DOMAIN eventChan} :
          /\ Take(e)
          /\ listener' = [pc |-> "handle", event |-> e]
    /\ UNCHANGED <<clients, hub, clientVars>>

Listen ==
    /\ listener = Listening
    /\ \E e \in {eventChan[i] : i \in DOMAIN eventChan} :
          /\ Take(e)
          /\ listener' = [pc |-> "handle", event |-> e]
    /\ UNCHANGED <<clients, hub, clientVars>>

\* broadcastToSubscribers takes the lock for reading.
Broadcast ==
    /\ listener.pc = "handle"
    /\ listener' = [pc |-> "visit", event |-> listener.event, left |-> clients]
    /\ UNCHANGED <<clients, hub, clientVars, channelVars>>

\* It skips a client that is not subscribed or whose buffer is full.
Visit(c) ==
    /\ Broadcasting
    /\ c \in listener.left
    /\ listener' = [listener EXCEPT !.left = @ \ {c}]
    /\ send' = IF isSubscribed(c, listener.event.sym) /\ SendHasRoom(c)
                 THEN [send EXCEPT ![c] = Append(@, listener.event)]
                 ELSE send
    /\ UNCHANGED <<clients, hub, conn, reader, writer, reply, requests, subs, closed, batch, received>>
    /\ UNCHANGED channelVars

EndBroadcast ==
    /\ Broadcasting
    /\ listener.left = {}
    /\ listener' = Listening
    /\ UNCHANGED <<clients, hub, clientVars, channelVars>>

ListenEvents == Listen \/ Broadcast \/ (\E c \in Clients : Visit(c)) \/ EndBroadcast
-----------------------------------------------------------------------------
(* readPump and handleMessage *)

\* A request arrives.  Frames that were buffered are still read after the
\* connection is closed.
Request(c) ==
    /\ reader[c] = "read"
    /\ requests[c] < MaxRequests
    /\ requests' = [requests EXCEPT ![c] = @ + 1]
    /\ UNCHANGED <<clients, hub, listener, conn, writer, send, closed, batch, received>>

Answer(c, message) ==
    /\ reader' = [reader EXCEPT ![c] = "reply"]
    /\ reply' = [reply EXCEPT ![c] = message]

Subscribe(c, s) ==
    /\ Request(c)
    /\ subs' = [subs EXCEPT ![c] = @ \cup {s}]
    /\ Answer(c, Response)

Unsubscribe(c, s) ==
    /\ Request(c)
    /\ subs' = [subs EXCEPT ![c] = @ \ {s}]
    /\ Answer(c, Response)

\* A ping, an action nobody knows, a message that does not parse.
Ping(c) == Request(c) /\ Answer(c, Response) /\ UNCHANGED subs

\* There is no answer for a symbol without an engine.
AskSnapshot(c, s) ==
    /\ Request(c)
    /\ UNCHANGED subs
    /\ IF s \in Symbols THEN Answer(c, Snapshot) ELSE UNCHANGED <<reader, reply>>

handleMessage(c) ==
    \/ \E s \in Asked : Subscribe(c, s) \/ Unsubscribe(c, s) \/ AskSnapshot(c, s)
    \/ Ping(c)

\* Mutant: every answer waits for room.
MutSendReply(c) ==
    /\ reader[c] = "reply"
    /\ SendHasRoom(c)
    /\ send' = [send EXCEPT ![c] = Append(@, reply[c])]
    /\ reader' = [reader EXCEPT ![c] = "read"]
    /\ reply' = [reply EXCEPT ![c] = NoReply]
    /\ UNCHANGED <<clients, hub, listener, conn, writer, requests, subs, closed, batch, received>>

\* sendResponse gives up when the buffer is full; the snapshot waits for room.
SendReply(c) ==
    /\ reader[c] = "reply"
    /\ reply[c] = Snapshot => SendHasRoom(c)
    /\ send' = IF SendHasRoom(c) THEN [send EXCEPT ![c] = Append(@, reply[c])] ELSE send
    /\ reader' = [reader EXCEPT ![c] = "read"]
    /\ reply' = [reply EXCEPT ![c] = NoReply]
    /\ UNCHANGED <<clients, hub, listener, conn, writer, requests, subs, closed, batch, received>>

\* The connection is closed, or silent for too long, or a frame is too large.
ReadFails(c) ==
    /\ reader[c] = "read"
    /\ reader' = [reader EXCEPT ![c] = "leave"]
    /\ UNCHANGED <<clients, hub, listener, conn, writer, reply, requests, subs, send, closed, batch, received>>

\* After the hub has received the client, readPump closes the connection.
ReaderEnds(c) ==
    /\ reader[c] = "close"
    /\ reader' = [reader EXCEPT ![c] = "gone"]
    /\ conn' = [conn EXCEPT ![c] = "closed"]
    /\ UNCHANGED <<clients, hub, listener, writer, reply, requests, subs, send, closed, batch, received>>
-----------------------------------------------------------------------------
(* writePump *)

Receive(c) ==
    /\ writer[c] = "receive"
    /\ send[c] # <<>>
    /\ batch' = [batch EXCEPT ![c] = <<Head(send[c])>>]
    /\ send' = [send EXCEPT ![c] = Tail(@)]
    /\ writer' = [writer EXCEPT ![c] = "flush"]
    /\ UNCHANGED <<clients, hub, listener, conn, reader, reply, requests, subs, closed, received>>

\* Mutant: what was put into the frame stays queued.
MutFlush(c) ==
    /\ writer[c] = "flush"
    /\ conn[c] = "open"
    /\ received' = [received EXCEPT ![c] = @ \o batch[c] \o send[c]]
    /\ batch' = [batch EXCEPT ![c] = <<>>]
    /\ writer' = [writer EXCEPT ![c] = "receive"]
    /\ UNCHANGED <<clients, hub, listener, conn, reader, reply, requests, subs, send, closed>>

\* The rest of the queue goes into the same frame, which is then flushed.
Flush(c) ==
    /\ writer[c] = "flush"
    /\ conn[c] = "open"
    /\ received' = [received EXCEPT ![c] = @ \o batch[c] \o send[c]]
    /\ send' = [send EXCEPT ![c] = <<>>]
    /\ batch' = [batch EXCEPT ![c] = <<>>]
    /\ writer' = [writer EXCEPT ![c] = "receive"]
    /\ UNCHANGED <<clients, hub, listener, conn, reader, reply, requests, subs, closed>>

\* writePump ends: at a write error (NextWriter comes before the rest of the
\* queue is received, Close after it), at a ping the connection refuses, or
\* when send is closed and empty.
WriterEnds(c, drained) ==
    /\ \/ writer[c] = "flush" /\ conn[c] = "closed"
       \/ writer[c] = "receive" /\ conn[c] = "closed" /\ ~drained
       \/ writer[c] = "receive" /\ closed[c] /\ send[c] = <<>> /\ ~drained
    /\ writer' = [writer EXCEPT ![c] = "gone"]
    /\ conn' = [conn EXCEPT ![c] = "closed"]
    /\ batch' = [batch EXCEPT ![c] = <<>>]
    /\ send' = IF drained THEN [send EXCEPT ![c] = <<>>] ELSE send
    /\ UNCHANGED <<clients, hub, listener, reader, reply, requests, subs, closed, received>>

WritePump(c) == Receive(c) \/ Flush(c) \/ \E drained \in BOOLEAN : WriterEnds(c, drained)

\* The peer goes away, or the network does.
Disconnect(c) ==
    /\ conn[c] = "open"
    /\ conn' = [conn EXCEPT ![c] = "closed"]
    /\ UNCHANGED <<clients, hub, listener, reader, writer, reply, requests, subs, send, closed, batch, received>>

\* What a client's goroutines and its peer do without the event channel.
ClientStep(c) ==
    \/ Register(c) \/ Unregister(c) \/ Disconnect(c)
    \/ handleMessage(c) \/ SendReply(c) \/ ReadFails(c) \/ ReaderEnds(c)
    \/ WritePump(c)

HubStep == Run \/ \E c \in Clients : ClientStep(c)
-----------------------------------------------------------------------------
\* readPump waits for room that no writePump will make.
Stuck(c) == reply[c] = Snapshot /\ writer[c] = "gone" /\ ~SendHasRoom(c)

\* What a client has been given: the frames already written, the one being put
\* together and the queue.
Given(c) == received[c] \o batch[c] \o send[c]

\* The order of two messages is that of their call, if they are events of one.
InOrder(m, e) ==
    m.type \in EventTypes /\ e.type \in EventTypes /\ m.call = e.call => m.n < e.n

(* No goroutine is about to send on a channel the hub has closed (which      *)
(* would panic and end the process): a closed channel's client has left the  *)
(* set, no broadcast under way will visit it, and its readPump is over.      *)
NoSendOnClosed ==
    \A c \in Clients : closed[c] =>
        /\ c \notin clients
        /\ Broadcasting => c \notin listener.left
        /\ reader[c] \in {"close", "gone"}

(* A client is given the events of a call in the order the call sent them    *)
(* and none of them twice, whatever was skipped: over the frames already     *)
(* written, the one being put together and the queue.                        *)
EventsInOrder ==
    \A c \in Clients : \A i, j \in DOMAIN Given(c) :
        i < j => InOrder(Given(c)[i], Given(c)[j])
=============================================================================
