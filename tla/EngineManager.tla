---------------------------- MODULE EngineManager ---------------------------
(***************************************************************************)
(* EngineManager: the maps from symbols to engines, which the admin changes  *)
(* while calls are under way.  Every operation looks its engine up under the *)
(* manager's lock, lets the lock go, and then works on the engine it found,  *)
(* which may be out of the map by then.                                      *)
(*                                                                          *)
(* An engine is abstracted to whether it is paused and which orders rest in  *)
(* it (MatchEngine is the detail): an accepted order executes against any of *)
(* the resting ones, and rests or not.  An auction is abstracted to the      *)
(* orders it hands on at its end (CallAuction and AuctionMarket).            *)
(***************************************************************************)
EXTENDS Naturals, Sequences, FiniteSets

CONSTANTS
    Symbols,      \* symbols requests name
    Configured,   \* those main adds at the start
    OrderIDs,     \* orders, each submitted once
    Handlers,     \* gRPC calls under way at once
    Batches,      \* the lists of orders a request may carry
    QueueSize,    \* EngineConfig.CommandBufferSize
    MaxEngines,   \* bound: engines made
    MaxRequests   \* bound: requests, commands and operations of the embedder

ASSUME ConfiguredAssumption == Configured \subseteq Symbols /\ IsFiniteSet(Configured)
ASSUME BatchesAssumption == Batches \subseteq Seq(OrderIDs) \ {<<>>}
ASSUME QueueSizeAssumption == QueueSize \in Nat \ {0}
ASSUME MaxEnginesAssumption == MaxEngines \in Nat
ASSUME MaxRequestsAssumption == MaxRequests \in Nat

VARIABLES
    engines,    \* EngineManager.engines: a number in engine, or None
    auctions,   \* the symbols in EngineManager.auctions
    contracts,  \* the symbols in EngineManager.contractEngines
    engine,     \* the engines made so far, in the map or not
    commands,   \* commandChan
    running,    \* whether stopChan is still open
    calls,      \* what each goroutine inside the manager is doing
    submitted,  \* orders that have been sent to the manager
    requests,   \* how many requests there have been
    retired,    \* history: engines an operation took out of the map
    halted,     \* history: symbols whose pause was confirmed and still stands
    barred      \* history: calls that came while their symbol was halted

registry == <<engines, auctions, contracts>>
managerVars == <<registry, engine, commands, running, calls, submitted, requests, retired, halted, barred>>

None == 0

\* commandWorker is one more goroutine that works on orders.
Worker == "commandWorker"
Actors == Handlers \cup {Worker}

Engine == [sym : Symbols, paused : BOOLEAN, orders : SUBSET OrderIDs, version : Nat]

Idle == [op |-> "none"]
Call(op, s, ids) == [op |-> op, sym |-> s, ids |-> ids, at |-> "lookup", engine |-> None]

NewMatchEngine(s) == [sym |-> s, paused |-> FALSE, orders |-> {}, version |-> 0]

\* The engines of the configured symbols, numbered in some order.
ManagerInit ==
    \E order \in [1 .. Cardinality(Configured) -> Configured] :
        /\ \A s \in Configured : \E i \in DOMAIN order : order[i] = s
        /\ engine = [i \in DOMAIN order |-> NewMatchEngine(order[i])]
        /\ engines = [s \in Symbols |->
              IF s \in Configured THEN CHOOSE i \in DOMAIN order : order[i] = s ELSE None]
        /\ auctions = Configured
        /\ contracts = {}
        /\ commands = <<>>
        /\ running = TRUE
        /\ calls = [a \in Actors |-> Idle]
        /\ submitted = {}
        /\ requests = 0
        /\ retired = {}
        /\ halted = {}
        /\ barred = {}
-----------------------------------------------------------------------------
(* The map *)

\* One more engine can be made without going over the bound.
Room == Len(engine) + Cardinality({a \in Actors : calls[a].op = "add"}) < MaxEngines

\* s is not, or no longer, known to be paused.
Unhalt(s) ==
    /\ halted' = halted \ {s}
    /\ barred' = {a \in barred : calls[a].sym # s}

\* engines[symbol] = NewMatchEngine(...)
Map(s) ==
    /\ engine' = Append(engine, NewMatchEngine(s))
    /\ engines' = [engines EXCEPT ![s] = Len(engine) + 1]

\* Mutant: the map is not asked whether the symbol is there.
MutAddSymbol(s) ==
    /\ Map(s)
    /\ auctions' = auctions \cup {s}
    /\ UNCHANGED <<contracts, retired, halted, barred>>

AddSymbol(s) ==
    /\ IF engines[s] = None
         THEN Map(s) /\ auctions' = auctions \cup {s}
         ELSE UNCHANGED <<engine, engines, auctions>>
    /\ UNCHANGED <<contracts, retired, halted, barred>>

Unmap(s) ==
    /\ engines' = [engines EXCEPT ![s] = None]
    /\ retired' = retired \cup ({engines[s]} \ {None})
    /\ Unhalt(s)
    /\ UNCHANGED engine

RemoveSymbol(s) ==
    /\ Unmap(s)
    /\ auctions' = auctions \ {s}
    /\ UNCHANGED contracts

\* A contract symbol's engine replaces one the symbol may have had.
AddContractSymbol(s) ==
    /\ IF s \in contracts
         THEN UNCHANGED <<engine, engines, contracts, retired, halted, barred>>
         ELSE /\ Room
              /\ Map(s)
              /\ retired' = retired \cup ({engines[s]} \ {None})
              /\ contracts' = contracts \cup {s}
              /\ Unhalt(s)
    /\ UNCHANGED auctions

\* The auction of the symbol stays.
RemoveContractSymbol(s) ==
    /\ Unmap(s)
    /\ contracts' = contracts \ {s}
    /\ UNCHANGED auctions

\* Something is asked of the manager from outside.
Ask ==
    /\ requests < MaxRequests
    /\ requests' = requests + 1

\* Operations that only the program around the manager performs.
Embedder ==
    /\ Ask
    /\ \E s \in Symbols : AddContractSymbol(s) \/ RemoveContractSymbol(s)
    /\ UNCHANGED <<commands, running, calls, submitted>>
-----------------------------------------------------------------------------
(* Calls *)

EngineOps == {"create", "cancel", "pause", "resume", "query"}
AuctionOps == {"start", "end"}
MapOps == {"add", "remove"}

\* An order that arrives while its symbol is known to be paused.
Barred(op, s) == op \in {"create", "end"} /\ s \in halted

\* A request arrives: a batch of one stands for CreateOrder or CancelOrder.
Begin(h, op, s, ids) ==
    /\ calls[h] = Idle
    /\ Ask
    /\ op = "create" => \A i \in DOMAIN ids : ids[i] \notin submitted
    /\ op = "add" => Room
    /\ calls' = [calls EXCEPT ![h] = Call(op, s, ids)]
    /\ submitted' = submitted \cup (IF op = "create" THEN {ids[i] : i \in DOMAIN ids} ELSE {})
    /\ barred' = IF Barred(op, s) THEN barred \cup {h} ELSE barred
    /\ UNCHANGED <<registry, engine, commands, running, retired, halted>>

BeginOrders(h) ==
    \E op \in {"create", "cancel"}, s \in Symbols, ids \in Batches : Begin(h, op, s, ids)
BeginOther(h) ==
    \E op \in (EngineOps \ {"create", "cancel"}) \cup AuctionOps \cup MapOps, s \in Symbols :
        Begin(h, op, s, <<>>)

Is(a, op, at) == calls[a].op = op /\ calls[a].at = at

Goto(a, at) == calls' = [calls EXCEPT ![a].at = at]

Return(a) ==
    /\ calls' = [calls EXCEPT ![a] = Idle]
    /\ barred' = barred \ {a}

\* A batch has its next item looked up again; an auction's orders all go to
\* the engine found first.
NextItem(a) ==
    LET c == calls[a] IN
    IF Len(c.ids) <= 1 THEN Return(a)
    ELSE /\ calls' = [calls EXCEPT ![a].ids = Tail(@),
                                   ![a].at = IF c.op = "end" THEN "use" ELSE "lookup"]
         /\ UNCHANGED barred

\* GetEngine.
Lookup(a) ==
    LET c == calls[a] IN
    /\ \/ c.op \in EngineOps /\ c.at = "lookup"
       \/ Is(a, "end", "handover")
    /\ IF engines[c.sym] # None
         THEN /\ calls' = [calls EXCEPT ![a].engine = engines[c.sym], ![a].at = "use"]
              /\ UNCHANGED barred
         ELSE IF c.op = "end" THEN Return(a) ELSE NextItem(a)
    /\ UNCHANGED <<registry, engine, commands, running, submitted, requests, retired, halted>>

WorkVars == <<registry, commands, running, submitted, requests, retired>>

\* Mutant: an auction's orders are let in while paused.
MutAdmit(a) ==
    LET c == calls[a] IN
    /\ c.op \in {"create", "end"} /\ c.at = "use"
    /\ IF engine[c.engine].paused /\ c.op = "create"
         THEN NextItem(a) ELSE Goto(a, "match") /\ UNCHANGED barred
    /\ UNCHANGED <<engine, halted, WorkVars>>

\* ProcessOrder first looks whether the engine is paused.
Admit(a) ==
    LET c == calls[a] IN
    /\ c.op \in {"create", "end"} /\ c.at = "use"
    /\ IF engine[c.engine].paused THEN NextItem(a) ELSE Goto(a, "match") /\ UNCHANGED barred
    /\ UNCHANGED <<engine, halted, WorkVars>>

Change(e, orders) ==
    engine' = [engine EXCEPT ![e].orders = orders,
                             ![e].version = IF orders = engine[e].orders THEN @ ELSE @ + 1]

Match(a) ==
    LET c == calls[a]
        resting == engine[c.engine].orders
    IN
    /\ c.op \in {"create", "end"} /\ c.at = "match"
    /\ \E makers \in SUBSET resting, rest \in {{}, {Head(c.ids)}} :
          Change(c.engine, (resting \ makers) \cup rest)
    /\ NextItem(a)
    /\ UNCHANGED <<halted, WorkVars>>

CancelOrder(a) ==
    LET c == calls[a] IN
    /\ Is(a, "cancel", "use")
    /\ Change(c.engine, engine[c.engine].orders \ {Head(c.ids)})
    /\ NextItem(a)
    /\ UNCHANGED <<halted, WorkVars>>

\* Whoever is answered by PauseTrading knows the symbol halted, if the engine
\* is still the symbol's.
PauseSymbol(a) ==
    LET c == calls[a] IN
    /\ Is(a, "pause", "use")
    /\ engine' = [engine EXCEPT ![c.engine].paused = TRUE]
    /\ halted' = IF engines[c.sym] = c.engine THEN halted \cup {c.sym} ELSE halted
    /\ Return(a)
    /\ UNCHANGED WorkVars

ResumeSymbol(a) ==
    LET c == calls[a] IN
    /\ Is(a, "resume", "use")
    /\ engine' = [engine EXCEPT ![c.engine].paused = FALSE]
    /\ IF engines[c.sym] = c.engine THEN Unhalt(c.sym) ELSE UNCHANGED <<halted, barred>>
    /\ calls' = [calls EXCEPT ![a] = Idle]
    /\ UNCHANGED WorkVars

\* GetOrder, GetUserOrders, GetOrderBook, GetTicker, Stats for a symbol.
Query(a) ==
    /\ Is(a, "query", "use")
    /\ Return(a)
    /\ UNCHANGED <<engine, halted, WorkVars>>

ChangeMap(a) ==
    LET c == calls[a] IN
    /\ c.op \in MapOps
    /\ IF c.op = "add" THEN AddSymbol(c.sym) ELSE RemoveSymbol(c.sym)
    /\ calls' = [calls EXCEPT ![a] = Idle]
    /\ UNCHANGED <<commands, running, submitted, requests>>

\* GetAuctionEngine; an auction that ends hands on what it could not match,
\* which may be nothing.
LookupAuction(a) ==
    LET c == calls[a] IN
    /\ c.op \in AuctionOps /\ c.at = "lookup"
    /\ \/ /\ c.sym \notin auctions \/ c.op = "start"
          /\ Return(a)
          /\ UNCHANGED submitted
       \/ /\ c.sym \in auctions /\ c.op = "end"
          /\ Return(a)
          /\ UNCHANGED submitted
       \/ /\ c.sym \in auctions /\ c.op = "end"
          /\ \E ids \in Batches :
                /\ \A i \in DOMAIN ids : ids[i] \notin submitted
                /\ submitted' = submitted \cup {ids[i] : i \in DOMAIN ids}
                /\ calls' = [calls EXCEPT ![a].ids = ids, ![a].at = "handover"]
          /\ UNCHANGED barred
    /\ UNCHANGED <<registry, engine, commands, running, requests, retired, halted>>

Handle(a) ==
    \/ Lookup(a) \/ Admit(a) \/ Match(a) \/ CancelOrder(a)
    \/ PauseSymbol(a) \/ ResumeSymbol(a) \/ Query(a) \/ ChangeMap(a) \/ LookupAuction(a)
-----------------------------------------------------------------------------
(* Commands *)

\* SubmitCommand waits for room.
SubmitCommand(op, s, o) ==
    /\ Len(commands) < QueueSize
    /\ Ask
    /\ op = "create" => o \notin submitted
    /\ submitted' = IF op = "create" THEN submitted \cup {o} ELSE submitted
    /\ commands' = Append(commands, Call(op, s, <<o>>))
    /\ UNCHANGED <<registry, engine, running, calls, retired, halted, barred>>

Submit == \E op \in {"create", "cancel"}, s \in Symbols, o \in OrderIDs : SubmitCommand(op, s, o)

\* With stopChan closed and a command there, select takes either; the loop
\* has ended for good when it takes stopChan.
TakeCommand ==
    /\ calls[Worker] = Idle
    /\ commands # <<>>
    /\ calls' = [calls EXCEPT ![Worker] = Head(commands)]
    /\ barred' = IF Barred(Head(commands).op, Head(commands).sym)
                   THEN barred \cup {Worker} ELSE barred
    /\ commands' = Tail(commands)
    /\ UNCHANGED <<registry, engine, running, submitted, requests, retired, halted>>

EndWorker ==
    /\ ~running
    /\ calls[Worker] = Idle
    /\ calls' = [calls EXCEPT ![Worker] = [op |-> "ended"]]
    /\ UNCHANGED <<registry, engine, commands, running, submitted, requests, retired, halted, barred>>

Stop ==
    /\ running' = FALSE
    /\ UNCHANGED <<registry, engine, commands, calls, submitted, requests, retired, halted, barred>>
-----------------------------------------------------------------------------
CallRecord ==
    [op : EngineOps \cup AuctionOps \cup MapOps, sym : Symbols, ids : Seq(OrderIDs),
     at : {"lookup", "handover", "use", "match"}, engine : Nat]

ManagerTypeOK ==
    /\ engine \in Seq(Engine)
    /\ engines \in [Symbols -> 0 .. Len(engine)]
    /\ auctions \subseteq Symbols /\ contracts \subseteq Symbols
    /\ calls \in [Actors -> CallRecord \cup [op : {"none", "ended", "subscribe"}]]
    /\ commands \in Seq(CallRecord) /\ Len(commands) <= QueueSize
    /\ retired \subseteq DOMAIN engine
    /\ halted \subseteq Symbols
    /\ barred \subseteq Actors

(* An order that rests is where a cancellation or a query for its symbol     *)
(* looks for it, unless an operation that removes or replaces the symbol's   *)
(* engine took it away; adding a symbol again does not.                      *)
OrdersKept ==
    \A e \in DOMAIN engine :
        engine[e].orders # {} => engines[engine[e].sym] = e \/ e \in retired

(* Once a pause is confirmed, no order that arrives afterwards is matched    *)
(* until the symbol is resumed, removed or replaced, whatever other calls    *)
(* are under way - and only orders that were there before may still be.      *)
PauseHolds ==
    /\ \A s \in halted : engines[s] # None /\ engine[engines[s]].paused
    /\ \A a \in barred : calls[a].at # "match"
=============================================================================
