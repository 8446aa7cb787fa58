------------------------------ MODULE AuditLog ------------------------------
(***************************************************************************)
(* The audit log: callers put entries into a bounded queue, a writer moves   *)
(* them to a list and flushes the list to the file when it is long enough or *)
(* at a tick, and a caller who finds the queue full writes to the file       *)
(* himself.  Close flushes the list and closes the file.                     *)
(*                                                                          *)
(* An entry is its number, in the order of the calls of Log, and whether it  *)
(* is written past the queue.  Nothing in the repository calls Log; main     *)
(* makes the log and closes it.                                             *)
(***************************************************************************)
EXTENDS Integers, Sequences

CONSTANTS
    Loggers,    \* goroutines that log
    BufferSize, \* AuditConfig.BufferSize
    FlushSize,  \* AuditConfig.FlushSize
    MaxEntries  \* bound: entries logged

ASSUME BufferSizeAssumption == BufferSize \in Nat
ASSUME FlushSizeAssumption == FlushSize \in Nat \ {0}
ASSUME MaxEntriesAssumption == MaxEntries \in Nat

VARIABLES
    buffer,     \* AuditLogger.buffer
    bufferList, \* AuditLogger.bufferList
    mu,         \* who holds the mutex and flushes: "none", "writer", "close"
    taken,      \* the entry the writer has received and not yet listed
    direct,     \* the entry each caller is about to write past the queue
    file,       \* the entries in the file
    state,      \* of the log: "open", "closing" or "closed"
    logged,     \* history: how many entries have been logged
    lost        \* history: entries whose write failed

auditVars == <<buffer, bufferList, mu, taken, direct, file, state, logged, lost>>

Entry == [n : Nat, past : BOOLEAN]

AuditInit ==
    /\ buffer = <<>> /\ bufferList = <<>> /\ taken = <<>> /\ file = <<>>
    /\ mu = "none"
    /\ direct = [l \in Loggers |-> <<>>]
    /\ state = "open"
    /\ logged = 0
    /\ lost = {}

\* writeEvent: a file that is closed takes nothing, and nobody hears of it.
WriteEvent(e) ==
    IF state = "closed" THEN lost' = lost \cup {e} /\ UNCHANGED file
                        ELSE file' = Append(file, e) /\ UNCHANGED lost

Log(l) ==
    /\ direct[l] = <<>>
    /\ logged < MaxEntries
    /\ logged' = logged + 1
    /\ IF Len(buffer) < BufferSize
         THEN /\ buffer' = Append(buffer, [n |-> logged', past |-> FALSE])
              /\ UNCHANGED direct
         ELSE /\ direct' = [direct EXCEPT ![l] = <<[n |-> logged', past |-> TRUE]>>]
              /\ UNCHANGED buffer
    /\ UNCHANGED <<bufferList, mu, taken, file, state, lost>>

WriteDirect(l) ==
    /\ direct[l] # <<>>
    /\ WriteEvent(Head(direct[l]))
    /\ direct' = [direct EXCEPT ![l] = <<>>]
    /\ UNCHANGED <<buffer, bufferList, mu, taken, state, logged>>

\* backgroundWriter receives an entry, ...
Receive ==
    /\ taken = <<>> /\ mu # "writer"
    /\ buffer # <<>>
    /\ taken' = <<Head(buffer)>>
    /\ buffer' = Tail(buffer)
    /\ UNCHANGED <<bufferList, mu, direct, file, state, logged, lost>>

\* ... waits for the mutex, lists it, and flushes a list that is long enough.
\* Mutant: the entry is put before the others.
MutList ==
    /\ taken # <<>>
    /\ mu = "none"
    /\ bufferList' = taken \o bufferList
    /\ mu' = IF Len(bufferList') >= FlushSize THEN "writer" ELSE "none"
    /\ taken' = <<>>
    /\ UNCHANGED <<buffer, direct, file, state, logged, lost>>

List ==
    /\ taken # <<>>
    /\ mu = "none"
    /\ bufferList' = bufferList \o taken
    /\ mu' = IF Len(bufferList') >= FlushSize THEN "writer" ELSE "none"
    /\ taken' = <<>>
    /\ UNCHANGED <<buffer, direct, file, state, logged, lost>>

\* Mutant: the tick, too, waits for a long list.
MutFlushTick ==
    /\ taken = <<>>
    /\ mu = "none"
    /\ Len(bufferList) >= FlushSize
    /\ mu' = "writer"
    /\ UNCHANGED <<buffer, bufferList, taken, direct, file, state, logged, lost>>

FlushTick ==
    /\ taken = <<>>
    /\ mu = "none"
    /\ bufferList # <<>>
    /\ mu' = "writer"
    /\ UNCHANGED <<buffer, bufferList, taken, direct, file, state, logged, lost>>

\* flush, entry by entry: other callers write in between.
Flush ==
    /\ mu # "none"
    /\ bufferList # <<>>
    /\ WriteEvent(Head(bufferList))
    /\ bufferList' = Tail(bufferList)
    /\ mu' = IF mu = "writer" /\ bufferList' = <<>> THEN "none" ELSE mu
    /\ UNCHANGED <<buffer, taken, direct, state, logged>>

Close ==
    /\ state = "open"
    /\ mu = "none"
    /\ mu' = "close"
    /\ state' = "closing"
    /\ UNCHANGED <<buffer, bufferList, taken, direct, file, logged, lost>>

\* The mutex is given back; the file is closed a moment later.
Closed ==
    /\ state = "closing"
    /\ \/ mu = "close" /\ bufferList = <<>> /\ mu' = "none" /\ UNCHANGED state
       \/ mu # "close" /\ state' = "closed" /\ UNCHANGED mu
    /\ UNCHANGED <<buffer, bufferList, taken, direct, file, logged, lost>>

Writer == Receive \/ List \/ FlushTick \/ Flush

AuditNext ==
    \/ \E l \in Loggers : Log(l) \/ WriteDirect(l)
    \/ Writer \/ Close \/ Closed

\* The goroutines are scheduled, and the ticker ticks.
AuditFairness ==
    /\ \A l \in Loggers : WF_auditVars(WriteDirect(l))
    /\ WF_auditVars(Writer)
    /\ WF_auditVars(Closed)

AuditSpec == AuditInit /\ [][AuditNext]_auditVars /\ AuditFairness
-----------------------------------------------------------------------------
\* Everything that has gone through the queue, from the file back to it.
Path == file \o bufferList \o taken \o buffer

(* No entry is lost or written twice before the log is closed, and entries   *)
(* that go through the queue reach the file in the order they were logged:   *)
(* only those written past a full queue may overtake, or be late.            *)
AuditInOrder ==
    /\ \A i, j \in DOMAIN Path : i < j =>
          /\ Path[i] # Path[j]
          /\ ~Path[i].past /\ ~Path[j].past => Path[i].n < Path[j].n
    /\ \A n \in 1 .. logged :
          \/ \E i \in DOMAIN Path : Path[i].n = n
          \/ \E l \in Loggers : direct[l] # <<>> /\ Head(direct[l]).n = n
          \/ \E e \in lost : e.n = n
    /\ state # "closed" => lost = {}

(* An entry reaches the file even if no other follows it, unless the log is  *)
(* being closed; no caller need ever log again.                              *)
AuditDrained ==
    \A n \in 1 .. MaxEntries :
        logged = n ~> \/ state # "open"
                      \/ \E i \in DOMAIN file : file[i].n = n
=============================================================================
