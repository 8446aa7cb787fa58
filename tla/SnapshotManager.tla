--------------------------- MODULE SnapshotManager --------------------------
(***************************************************************************)
(* The loop that takes a snapshot of every book at each tick, beside the     *)
(* calls that change the books and the map of engines.                       *)
(*                                                                          *)
(* A snapshot is abstracted to the engine it is of and the version of that   *)
(* engine's book.                                                           *)
(***************************************************************************)
EXTENDS EngineManager

VARIABLES
    loop,       \* what snapshotLoop is doing
    snapshots,  \* SnapshotManager.snapshots
    done        \* history: what the books were when the last whole round began

snapshotVars == <<loop, snapshots, done>>

NoSnapshot == [engine |-> None, version |-> 0]
Sleeping == [at |-> "sleep"]

Now(s) == IF engines[s] = None THEN NoSnapshot
          ELSE [engine |-> engines[s], version |-> engine[engines[s]].version]

SnapshotInit ==
    /\ loop = Sleeping
    /\ snapshots = [s \in Symbols |-> NoSnapshot]
    /\ done = [s \in Symbols |-> NoSnapshot]

\* takeSnapshots lists the symbols.
Tick ==
    /\ loop = Sleeping
    /\ loop' = [at |-> "next", left |-> {s \in Symbols : engines[s] # None},
                began |-> [s \in Symbols |-> Now(s)]]
    /\ UNCHANGED <<snapshots, done>>

\* GetEngine of the next one; it may have been removed since.
NextSymbol ==
    /\ loop.at = "next"
    /\ \E s \in loop.left :
          loop' = IF engines[s] = None THEN [loop EXCEPT !.left = @ \ {s}]
                  ELSE [at |-> "snap", left |-> loop.left \ {s}, began |-> loop.began,
                        sym |-> s, engine |-> engines[s]]
    /\ UNCHANGED <<snapshots, done>>

\* Mutant: a stored snapshot is not replaced.
MutTakeSnapshot ==
    /\ loop.at = "snap"
    /\ snapshots' = [snapshots EXCEPT ![loop.sym] =
          IF @ = NoSnapshot THEN [engine |-> loop.engine, version |-> engine[loop.engine].version]
          ELSE @]
    /\ loop' = [at |-> "next", left |-> loop.left, began |-> loop.began]
    /\ UNCHANGED done

\* The book is read and the snapshot stored; only the loop stores any.
TakeSnapshot ==
    /\ loop.at = "snap"
    /\ snapshots' = [snapshots EXCEPT ![loop.sym] =
          [engine |-> loop.engine, version |-> engine[loop.engine].version]]
    /\ loop' = [at |-> "next", left |-> loop.left, began |-> loop.began]
    /\ UNCHANGED done

EndRound ==
    /\ loop.at = "next"
    /\ loop.left = {}
    /\ done' = loop.began
    /\ loop' = Sleeping
    /\ UNCHANGED snapshots

SnapshotLoop == Tick \/ NextSymbol \/ TakeSnapshot \/ EndRound

Older(a, b) == a.engine < b.engine \/ (a.engine = b.engine /\ a.version < b.version)

(* What is stored of a book is at least as new as the book was when the last *)
(* whole round began, unless its engine was taken out of the map.            *)
SnapshotFresh ==
    \A s \in Symbols : Older(snapshots[s], done[s]) => done[s].engine \in retired
=============================================================================
