------------------------------- MODULE Server -------------------------------
(***************************************************************************)
(* main: the gRPC services' calls and subscriptions on the engine manager,   *)
(* the snapshot loop, and the shutdown - stop taking calls and wait for      *)
(* those under way, stop the command worker, save the snapshots, return.     *)
(***************************************************************************)
EXTENDS SnapshotManager

VARIABLES
    phase,  \* how far main has come
    unsaved \* the symbols SaveAllSnapshots has still to save

mainVars == <<phase, unsaved>>
vars == <<managerVars, snapshotVars, mainVars>>

Init ==
    /\ ManagerInit
    /\ SnapshotInit
    /\ phase = "serving"
    /\ unsaved = {}

Others == <<snapshotVars, mainVars>>

\* The gRPC server takes calls until GracefulStop.
Serve ==
    /\ phase = "serving"
    /\ \E h \in Handlers : BeginOrders(h) \/ BeginOther(h)
    /\ UNCHANGED Others

\* SubscribeOrderBook and SubscribeTrades go on until their client cancels.
Subscribe(h) ==
    /\ phase = "serving"
    /\ calls[h] = Idle
    /\ Ask
    /\ calls' = [calls EXCEPT ![h] = [op |-> "subscribe"]]
    /\ UNCHANGED <<registry, engine, commands, running, submitted, retired, halted, barred, Others>>

Subscribed(h) == calls[h].op = "subscribe"

Unsubscribe(h) ==
    /\ Subscribed(h)
    /\ calls' = [calls EXCEPT ![h] = Idle]
    /\ UNCHANGED <<registry, engine, commands, running, submitted, requests, retired, halted, barred, Others>>

Signal ==
    /\ phase = "serving"
    /\ phase' = "draining"
    /\ UNCHANGED <<managerVars, snapshotVars, unsaved>>

\* Mutant: the command worker is waited for before stopChan is closed.
MutGracefulStop ==
    /\ phase = "draining"
    /\ \A h \in Handlers : calls[h] = Idle
    /\ calls[Worker].op = "ended"
    /\ Stop
    /\ phase' = "saving"
    /\ unsaved' = {s \in Symbols : snapshots[s] # NoSnapshot}
    /\ UNCHANGED snapshotVars

\* GracefulStop returns when every call has ended, without a time limit; then
\* the manager is stopped, and SaveAllSnapshots copies the map it will save.
GracefulStop ==
    /\ phase = "draining"
    /\ \A h \in Handlers : calls[h] = Idle
    /\ Stop
    /\ phase' = "saving"
    /\ unsaved' = {s \in Symbols : snapshots[s] # NoSnapshot}
    /\ UNCHANGED snapshotVars

\* The newest snapshot is written, or it is logged that it could not be.
SaveSnapshot(s) ==
    /\ phase = "saving"
    /\ s \in unsaved
    /\ unsaved' = unsaved \ {s}
    /\ UNCHANGED <<managerVars, snapshotVars, phase>>

\* main returns, and every goroutine ends with it.
Exit ==
    /\ phase = "saving"
    /\ unsaved = {}
    /\ phase' = "exited"
    /\ UNCHANGED <<managerVars, snapshotVars, unsaved>>

Main ==
    \/ Signal \/ GracefulStop \/ Exit
    \/ \E s \in Symbols : SaveSnapshot(s)

Next ==
    /\ phase # "exited"
    /\ \/ Serve
       \/ \E h \in Handlers : Subscribe(h) \/ Unsubscribe(h)
       \/ \E a \in Actors : Handle(a) /\ UNCHANGED Others
       \/ (Embedder \/ Submit \/ TakeCommand \/ EndWorker) /\ UNCHANGED Others
       \/ SnapshotLoop /\ UNCHANGED <<managerVars, mainVars>>
       \/ Main

(* Goroutines are scheduled.  Nobody need call, cancel or send the signal.   *)
Fairness ==
    /\ \A a \in Actors : WF_vars(phase # "exited" /\ Handle(a) /\ UNCHANGED Others)
    /\ WF_vars(GracefulStop) /\ WF_vars(Exit)
    /\ \A s \in Symbols : WF_vars(SaveSnapshot(s))

Spec == Init /\ [][Next]_vars /\ Fairness

(* A shutdown ends, whatever the calls under way are doing - unless a client *)
(* keeps a subscription open, for which GracefulStop waits for ever.         *)
ShutdownEnds ==
    phase = "draining" ~> phase = "exited" \/ \E h \in Handlers : Subscribed(h)
=============================================================================
