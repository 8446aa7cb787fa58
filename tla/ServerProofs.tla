---------------------------- MODULE ServerProofs ----------------------------
(***************************************************************************)
(* For any symbols, orders, callers and bounds: an order rests where its     *)
(* symbol leads, and a confirmed pause holds, whatever the admin, the calls  *)
(* under way, the commands and the shutdown do.                              *)
(*                                                                          *)
(* The invariant ties the three places in which an engine is found together: *)
(* the map, the engines made so far, and what the calls under way looked up  *)
(* before.                                                                  *)
(*                                                                          *)
(* The last section is about the audit log that main makes and closes: what  *)
(* goes through its queue stays in order, and nothing is lost before the     *)
(* log is closed.                                                           *)
(***************************************************************************)
EXTENDS Server, AuditLog, SequenceLemmas

\* The map leads from a symbol to an engine of that symbol.
MapLeads == \A s \in Symbols : engines[s] # None => engine[engines[s]].sym = s

\* An engine out of the map was taken out of it.
Retired == \A e \in DOMAIN engine : engines[engine[e].sym] = e \/ e \in retired

\* A call works on an engine of its symbol, and on the next of its orders.
CallOK(c) ==
    /\ c.at \in {"use", "match"} =>
          c.engine \in DOMAIN engine /\ engine[c.engine].sym = c.sym
    /\ c.op \in {"create", "cancel"} \/ (c.op = "end" /\ c.at # "lookup") => c.ids # <<>>
    /\ c.at = "match" => c.op \in {"create", "end"}
    /\ c.at = "handover" => c.op = "end"

CallsOK == \A a \in Actors : calls[a] \in CallRecord => CallOK(calls[a])

CommandsOK ==
    \A i \in DOMAIN commands :
        /\ commands[i].op \in {"create", "cancel"} /\ commands[i].at = "lookup"
        /\ commands[i].ids # <<>>

\* A call that came after the pause cannot get past it: it has not looked its
\* engine up, or has found the one that is paused.
BarredOK ==
    \A a \in barred :
        /\ calls[a] \in CallRecord
        /\ calls[a].op \in {"create", "end"} /\ calls[a].sym \in halted
        /\ calls[a].at = "use" => calls[a].engine = engines[calls[a].sym]

ManagerInv ==
    ManagerTypeOK /\ MapLeads /\ Retired /\ CallsOK /\ CommandsOK /\ BarredOK /\ PauseHolds

LEMMA ManagerStutter ==
    ASSUME ManagerInv, UNCHANGED managerVars
    PROVE  ManagerInv'
BY DEF ManagerInv, managerVars, registry, ManagerTypeOK, MapLeads, Retired, CallsOK, CallOK,
       CommandsOK, BarredOK, PauseHolds

\* Orders come and go, but every engine is the same and as paused as before.
EnginesKept ==
    /\ engine' \in Seq(Engine)
    /\ DOMAIN engine' = DOMAIN engine
    /\ \A e \in DOMAIN engine :
          engine'[e].sym = engine[e].sym /\ engine'[e].paused = engine[e].paused
    /\ UNCHANGED <<registry, commands, retired, halted>>

\* A call has made a step, and no engine or map has changed.
LEMMA CallSteps ==
    ASSUME ManagerInv, EnginesKept, NEW a \in Actors,
           NEW c \in CallRecord \cup [op : {"none", "ended", "subscribe"}],
           calls' = [calls EXCEPT ![a] = c],
           barred' = barred \/ barred' = barred \ {a},
           c \in CallRecord => CallOK(c),
           a \in barred' =>
               /\ c \in CallRecord
               /\ c.op = calls[a].op /\ c.sym = calls[a].sym /\ c.at # "match"
               /\ c.at = "use" => c.engine = engines[c.sym]
    PROVE  ManagerInv'
<1>1. ManagerTypeOK'
  BY DEF ManagerInv, ManagerTypeOK, EnginesKept, registry
<1>2. MapLeads' /\ Retired'
  <2>1. \A s \in Symbols : engines[s] # None => engines[s] \in DOMAIN engine
    BY DEF ManagerInv, ManagerTypeOK, None
  <2> QED
    BY <2>1 DEF ManagerInv, MapLeads, Retired, EnginesKept, registry
<1>3. CallsOK'
  <2>1. \A d \in CallRecord : CallOK(d) => CallOK(d)'
    BY DEF CallOK, EnginesKept
  <2> QED
    BY <2>1 DEF ManagerInv, ManagerTypeOK, CallsOK
<1>4. CommandsOK'
  BY DEF ManagerInv, CommandsOK, EnginesKept
<1>5. BarredOK'
  BY DEF ManagerInv, ManagerTypeOK, BarredOK, EnginesKept, registry
<1>6. PauseHolds'
  <2>1. \A s \in halted : engines[s] # None /\ engine[engines[s]].paused /\ engines[s] \in DOMAIN engine
    BY DEF ManagerInv, PauseHolds, ManagerTypeOK, None
  <2>2. \A b \in barred' : calls'[b].at # "match"
    BY DEF ManagerInv, ManagerTypeOK, PauseHolds
  <2> QED
    BY <2>1, <2>2 DEF PauseHolds, EnginesKept, registry
<1> QED
  BY <1>1, <1>2, <1>3, <1>4, <1>5, <1>6 DEF ManagerInv
-----------------------------------------------------------------------------
(* Calls.                                                                   *)

Ops == EngineOps \cup AuctionOps \cup MapOps

LEMMA OpsAre ==
    /\ Ops = {"create", "cancel", "pause", "resume", "query", "start", "end", "add", "remove"}
    /\ Idle \notin CallRecord
    /\ Idle \in [op : {"none", "ended", "subscribe"}]
BY DEF Ops, EngineOps, AuctionOps, MapOps, Idle, CallRecord

\* A goroutine that is at an operation of the manager is in one.
LEMMA AtWork ==
    ASSUME ManagerInv, NEW a \in Actors, calls[a].op \in Ops
    PROVE  calls[a] \in CallRecord /\ CallOK(calls[a])
BY DEF ManagerInv, ManagerTypeOK, CallsOK, Ops, EngineOps, AuctionOps, MapOps

LEMMA ReturnKeeps ==
    ASSUME ManagerInv, EnginesKept, NEW a \in Actors, Return(a)
    PROVE  ManagerInv'
BY CallSteps, OpsAre DEF Return

LEMMA NextItemKeeps ==
    ASSUME ManagerInv, EnginesKept, NEW a \in Actors, NextItem(a),
           calls[a].op \in Ops,
           calls[a].op = "end" => calls[a].at \in {"use", "match"}
    PROVE  ManagerInv'
<1> DEFINE c == calls[a]
<1>1. c \in CallRecord /\ CallOK(c)
  BY AtWork
<1>2. CASE Len(c.ids) <= 1
  BY <1>2, ReturnKeeps DEF NextItem
<1>3. CASE ~(Len(c.ids) <= 1)
  <2> DEFINE d == [c EXCEPT !.ids = Tail(@), !.at = IF c.op = "end" THEN "use" ELSE "lookup"]
  <2>1. calls' = [calls EXCEPT ![a] = d] /\ barred' = barred
    <3>1. calls \in [Actors -> CallRecord \cup [op : {"none", "ended", "subscribe"}]]
      BY DEF ManagerInv, ManagerTypeOK
    <3> QED
      BY <1>3, <3>1 DEF NextItem
  <2>2. c.ids \in Seq(OrderIDs)
    BY <1>1 DEF CallRecord
  <2>3. Tail(c.ids) \in Seq(OrderIDs) /\ Tail(c.ids) # <<>>
    BY <2>2, <1>3
  <2>4. d \in CallRecord /\ d.ids = Tail(c.ids) /\ d.op = c.op /\ d.sym = c.sym
        /\ d.engine = c.engine /\ d.at = IF c.op = "end" THEN "use" ELSE "lookup"
    BY <1>1, <2>3 DEF CallRecord
  <2>5. CallOK(d)
    <3> HIDE DEF d
    <3> QED
      BY <1>1, <2>3, <2>4 DEF CallOK
  <2>6. a \in barred => (c.op = "end" /\ c.at = "use") \/ c.op = "create"
    BY DEF ManagerInv, BarredOK, PauseHolds
  <2>7. a \in barred' => (d.at = "use" => d.engine = engines[d.sym])
    BY <2>1, <2>4, <2>6 DEF ManagerInv, BarredOK
  <2> HIDE DEF d
  <2> QED
    BY <2>1, <2>4, <2>5, <2>7, CallSteps
<1> QED
  BY <1>2, <1>3

\* A call goes on to another step with the engine it has or has found.
LEMMA MoveKeeps ==
    ASSUME ManagerInv, EnginesKept, NEW a \in Actors, calls[a].op \in Ops,
           NEW at \in {"use", "match"}, NEW e \in DOMAIN engine,
           engine[e].sym = calls[a].sym,
           calls' = [calls EXCEPT ![a] = [@ EXCEPT !.engine = e, !.at = at]],
           barred' = barred,
           at = "match" => calls[a].op \in {"create", "end"},
           calls[a].op = "end" => calls[a].ids # <<>>,
           a \in barred => at = "use" /\ e = engines[calls[a].sym]
    PROVE  ManagerInv'
<1> DEFINE c == calls[a]
           d == [c EXCEPT !.engine = e, !.at = at]
<1>1. c \in CallRecord /\ CallOK(c)
  BY AtWork
<1>2. e \in Nat
  BY DEF ManagerInv, ManagerTypeOK
<1>3. d \in CallRecord /\ d.ids = c.ids /\ d.op = c.op /\ d.sym = c.sym
      /\ d.engine = e /\ d.at = at
  BY <1>1, <1>2 DEF CallRecord
<1>4. CallOK(d)
  <2> HIDE DEF d
  <2> QED
    BY <1>1, <1>3 DEF CallOK
<1>5. calls' = [calls EXCEPT ![a] = d]
  OBVIOUS
<1> HIDE DEF d
<1> QED
  BY <1>3, <1>4, <1>5, CallSteps

LEMMA SameEngines ==
    ASSUME ManagerInv, UNCHANGED <<registry, engine, commands, retired, halted>>
    PROVE  EnginesKept
BY DEF ManagerInv, ManagerTypeOK, EnginesKept

LEMMA LookupKeeps ==
    ASSUME ManagerInv, NEW a \in Actors, Lookup(a)
    PROVE  ManagerInv'
<1> DEFINE c == calls[a]
<1>1. EnginesKept
  BY SameEngines DEF Lookup
<1>2. c.op \in Ops
  BY DEF Lookup, Is, Ops, AuctionOps
<1>3. c \in CallRecord /\ CallOK(c)
  BY <1>2, AtWork
<1>4. CASE engines[c.sym] # None
  <2>1. c.sym \in Symbols
    BY <1>3 DEF CallRecord
  <2>2. engines[c.sym] \in DOMAIN engine /\ engine[engines[c.sym]].sym = c.sym
    BY <1>4, <2>1 DEF ManagerInv, ManagerTypeOK, MapLeads, None
  <2>3. c.op = "end" => c.ids # <<>>
    BY <1>3 DEF Lookup, Is, CallOK, EngineOps
  <2>4. calls' = [calls EXCEPT ![a] = [@ EXCEPT !.engine = engines[c.sym], !.at = "use"]]
    BY <1>4 DEF Lookup, ManagerInv, ManagerTypeOK
  <2> QED
    BY <1>1, <1>2, <1>4, <2>2, <2>3, <2>4, MoveKeeps DEF Lookup
<1>5. CASE engines[c.sym] = None /\ c.op = "end"
  BY <1>1, <1>5, ReturnKeeps DEF Lookup
<1>6. CASE engines[c.sym] = None /\ c.op # "end"
  <2>1. NextItem(a)
    BY <1>6 DEF Lookup
  <2> QED
    BY <1>1, <1>2, <1>6, <2>1, NextItemKeeps
<1> QED
  BY <1>4, <1>5, <1>6

LEMMA AdmitKeeps ==
    ASSUME ManagerInv, NEW a \in Actors, Admit(a)
    PROVE  ManagerInv'
<1> DEFINE c == calls[a]
<1>1. EnginesKept
  BY SameEngines DEF Admit, WorkVars
<1>2. c.op \in {"create", "end"} /\ c.at = "use" /\ c.op \in Ops
  BY DEF Admit, Ops, EngineOps, AuctionOps
<1>3. c \in CallRecord /\ CallOK(c)
  BY <1>2, AtWork
<1>4. CASE engine[c.engine].paused
  BY <1>1, <1>2, <1>4, NextItemKeeps DEF Admit
<1>5. CASE ~engine[c.engine].paused
  <2>1. a \notin barred
    BY <1>2, <1>5 DEF ManagerInv, BarredOK, PauseHolds
  <2>2. c.engine \in DOMAIN engine /\ engine[c.engine].sym = c.sym /\ c.ids # <<>>
    BY <1>2, <1>3 DEF CallOK
  <2>3. calls' = [calls EXCEPT ![a] = [@ EXCEPT !.engine = c.engine, !.at = "match"]]
    <3>1. calls' = [calls EXCEPT ![a].at = "match"] /\ barred' = barred
      BY <1>5 DEF Admit, Goto
    <3>2. [c EXCEPT !.at = "match"] = [c EXCEPT !.engine = c.engine, !.at = "match"]
      BY <1>3 DEF CallRecord
    <3> QED
      BY <3>1, <3>2
  <2>4. barred' = barred
    BY <1>5 DEF Admit
  <2> QED
    BY <1>1, <1>2, <2>1, <2>2, <2>3, <2>4, MoveKeeps
<1> QED
  BY <1>4, <1>5

LEMMA EngineAt ==
    ASSUME ManagerInv, NEW e \in DOMAIN engine
    PROVE  engine[e] \in Engine
<1>1. engine \in Seq(Engine)
  BY DEF ManagerInv, ManagerTypeOK
<1>2. DOMAIN engine = 1 .. Len(engine)
  BY <1>1
<1> QED
  BY <1>1, <1>2, ElementOfSeq

LEMMA EngineOrders ==
    ASSUME ManagerInv, NEW e \in DOMAIN engine
    PROVE  engine[e].orders \in SUBSET OrderIDs
BY EngineAt DEF Engine

LEMMA ChangeKeepsEngines ==
    ASSUME ManagerInv, NEW e \in DOMAIN engine, NEW orders \in SUBSET OrderIDs,
           Change(e, orders), UNCHANGED <<registry, commands, retired, halted>>
    PROVE  EnginesKept
<1>1. engine \in Seq(Engine) /\ engine[e] \in Engine
  BY EngineAt DEF ManagerInv, ManagerTypeOK
<1> DEFINE version == IF orders = engine[e].orders THEN engine[e].version ELSE engine[e].version + 1
           new == [engine[e] EXCEPT !.orders = orders, !.version = version]
<1>2. version \in Nat
  BY <1>1 DEF Engine
<1>3. engine' = [engine EXCEPT ![e] = new]
  BY <1>1 DEF Change, Engine
<1>4. new \in Engine /\ new.sym = engine[e].sym /\ new.paused = engine[e].paused
  <2> HIDE DEF version
  <2> QED
    BY <1>1, <1>2 DEF Engine
<1> HIDE DEF new
<1>5. engine' \in Seq(Engine) /\ DOMAIN engine' = DOMAIN engine
  BY <1>1, <1>3, <1>4, ExceptSeq
<1>6. \A i \in DOMAIN engine :
          engine'[i].sym = engine[i].sym /\ engine'[i].paused = engine[i].paused
  BY <1>3, <1>4
<1> QED
  BY <1>5, <1>6 DEF EnginesKept

LEMMA MatchKeeps ==
    ASSUME ManagerInv, NEW a \in Actors, Match(a)
    PROVE  ManagerInv'
<1> DEFINE c == calls[a]
           resting == engine[c.engine].orders
<1>1. c.op \in {"create", "end"} /\ c.at = "match" /\ c.op \in Ops
  BY DEF Match, Ops, EngineOps, AuctionOps
<1>2. c \in CallRecord /\ CallOK(c)
  BY <1>1, AtWork
<1>3. c.engine \in DOMAIN engine /\ c.ids # <<>> /\ c.ids \in Seq(OrderIDs)
  BY <1>1, <1>2 DEF CallOK, CallRecord
<1>4. Head(c.ids) \in OrderIDs
  BY <1>3
<1>5. PICK makers \in SUBSET resting, rest \in {{}, {Head(c.ids)}} :
          Change(c.engine, (resting \ makers) \cup rest)
  BY DEF Match
<1>6. (resting \ makers) \cup rest \in SUBSET OrderIDs
  BY <1>3, <1>4, <1>5, EngineOrders
<1>7. EnginesKept
  <2>1. UNCHANGED <<registry, commands, retired, halted>>
    BY DEF Match, WorkVars
  <2> QED
    BY <1>3, <1>5, <1>6, <2>1, ChangeKeepsEngines
<1> QED
  BY <1>1, <1>7, NextItemKeeps DEF Match

LEMMA CancelOrderKeeps ==
    ASSUME ManagerInv, NEW a \in Actors, CancelOrder(a)
    PROVE  ManagerInv'
<1> DEFINE c == calls[a]
<1>1. c.op = "cancel" /\ c.at = "use" /\ c.op \in Ops
  BY DEF CancelOrder, Is, Ops, EngineOps
<1>2. c.engine \in DOMAIN engine
  BY <1>1, AtWork DEF CallOK
<1>3. EnginesKept
  <2>1. UNCHANGED <<registry, commands, retired, halted>>
    BY DEF CancelOrder, WorkVars
  <2>2. Change(c.engine, engine[c.engine].orders \ {Head(c.ids)})
    BY DEF CancelOrder
  <2>3. engine[c.engine].orders \ {Head(c.ids)} \in SUBSET OrderIDs
    BY <1>2, EngineOrders
  <2> QED
    BY <1>2, <2>1, <2>2, <2>3, ChangeKeepsEngines
<1> QED
  BY <1>1, <1>3, NextItemKeeps DEF CancelOrder

LEMMA QueryKeeps ==
    ASSUME ManagerInv, NEW a \in Actors, Query(a)
    PROVE  ManagerInv'
BY SameEngines, ReturnKeeps DEF Query, WorkVars
-----------------------------------------------------------------------------
(* Pausing and resuming.                                                    *)

\* An engine's flag is set, and its call returns.
LEMMA FlagKeeps ==
    ASSUME ManagerInv, NEW a \in Actors, NEW b \in BOOLEAN,
           calls[a].op \in {"pause", "resume"}, calls[a].at = "use",
           engine' = [engine EXCEPT ![calls[a].engine].paused = b],
           calls' = [calls EXCEPT ![a] = Idle],
           barred' \in SUBSET (barred \ {a}), halted' \in SUBSET Symbols,
           \A x \in barred' : calls[x].sym \in halted',
           \A s \in halted' : /\ engines[s] # None
                              /\ engines[s] = calls[a].engine => b
                              /\ engines[s] = calls[a].engine \/ s \in halted,
           UNCHANGED <<registry, commands, retired>>
    PROVE  ManagerInv'
<1> DEFINE e == calls[a].engine
           new == [engine[e] EXCEPT !.paused = b]
<1>1. e \in DOMAIN engine /\ engine[e] \in Engine /\ engine \in Seq(Engine)
  <2>1. CallOK(calls[a])
    BY AtWork DEF Ops, EngineOps
  <2>2. e \in DOMAIN engine
    BY <2>1 DEF CallOK
  <2> QED
    BY <2>2, EngineAt DEF ManagerInv, ManagerTypeOK
<1>2. new \in Engine /\ new.sym = engine[e].sym /\ new.paused = b
  BY <1>1 DEF Engine
<1>3. engine' = [engine EXCEPT ![e] = new]
  BY <1>1 DEF Engine
<1> HIDE DEF new
<1>4. engine' \in Seq(Engine) /\ DOMAIN engine' = DOMAIN engine
  BY <1>1, <1>2, <1>3, ExceptSeq
<1>5. \A i \in DOMAIN engine :
        /\ engine'[i].sym = engine[i].sym
        /\ engine'[i].paused = IF i = e THEN b ELSE engine[i].paused
  BY <1>2, <1>3
<1>6. \A s \in Symbols : engines[s] # None => engines[s] \in DOMAIN engine
  BY DEF ManagerInv, ManagerTypeOK, None
<1>7. ManagerTypeOK'
  BY <1>4, OpsAre DEF ManagerInv, ManagerTypeOK, registry
<1>8. MapLeads' /\ Retired'
  BY <1>4, <1>5, <1>6 DEF ManagerInv, MapLeads, Retired, registry
<1>9. CallsOK'
  <2>1. \A d \in CallRecord : CallOK(d) => CallOK(d)'
    BY <1>4, <1>5 DEF CallOK
  <2> QED
    BY <2>1, OpsAre DEF ManagerInv, ManagerTypeOK, CallsOK
<1>10. CommandsOK'
  BY DEF ManagerInv, CommandsOK
<1>11. BarredOK'
  BY DEF ManagerInv, ManagerTypeOK, BarredOK, registry
<1>12. PauseHolds'
  <2>1. \A s \in halted' : engines[s] # None /\ engine'[engines[s]].paused
    BY <1>5, <1>6 DEF ManagerInv, PauseHolds
  <2>2. \A x \in barred' : calls'[x].at # "match"
    BY DEF ManagerInv, ManagerTypeOK, PauseHolds
  <2> QED
    BY <2>1, <2>2 DEF PauseHolds, registry
<1> QED
  BY <1>7, <1>8, <1>9, <1>10, <1>11, <1>12 DEF ManagerInv

LEMMA PauseSymbolKeeps ==
    ASSUME ManagerInv, NEW a \in Actors, PauseSymbol(a)
    PROVE  ManagerInv'
<1> DEFINE c == calls[a]
<1>1. c.op = "pause" /\ c.at = "use"
  BY DEF PauseSymbol, Is
<1>2. c \in CallRecord /\ CallOK(c)
  BY <1>1, AtWork DEF Ops, EngineOps
<1>3. halted' \in SUBSET Symbols
  BY <1>2 DEF PauseSymbol, ManagerInv, ManagerTypeOK, CallRecord
<1>4. \A x \in barred' : calls[x].sym \in halted'
  BY DEF PauseSymbol, Return, ManagerInv, BarredOK
<1>5. \A s \in halted' : engines[s] # None /\ (engines[s] = c.engine \/ s \in halted)
  <2>1. engines[c.sym] = c.engine => engines[c.sym] # None
    BY <1>1, <1>2 DEF CallOK, ManagerInv, ManagerTypeOK, None
  <2> QED
    BY <2>1 DEF PauseSymbol, ManagerInv, PauseHolds
<1> QED
  BY <1>1, <1>3, <1>4, <1>5, FlagKeeps DEF PauseSymbol, Return, WorkVars

LEMMA ResumeSymbolKeeps ==
    ASSUME ManagerInv, NEW a \in Actors, ResumeSymbol(a)
    PROVE  ManagerInv'
<1> DEFINE c == calls[a]
<1>1. c.op = "resume" /\ c.at = "use"
  BY DEF ResumeSymbol, Is
<1>2. c \in CallRecord /\ CallOK(c)
  BY <1>1, AtWork DEF Ops, EngineOps
<1>3. a \notin barred
  BY <1>1 DEF ManagerInv, BarredOK
<1>4. halted' \in SUBSET halted /\ barred' \in SUBSET (barred \ {a})
  BY <1>3 DEF ResumeSymbol, Unhalt
<1>5. halted' \in SUBSET Symbols
  BY <1>4 DEF ManagerInv, ManagerTypeOK
<1>6. \A x \in barred' : calls[x].sym \in halted'
  BY DEF ResumeSymbol, Unhalt, ManagerInv, BarredOK
<1>7. \A s \in halted' : engines[s] # None /\ engines[s] # c.engine
  <2> SUFFICES ASSUME NEW s \in halted'
               PROVE  engines[s] # None /\ engines[s] # c.engine
    OBVIOUS
  <2>1. engines[s] # None /\ s \in Symbols
    BY <1>4, <1>5 DEF ManagerInv, PauseHolds
  <2>2. engines[s] = c.engine => s = c.sym
    BY <1>1, <1>2, <2>1 DEF ManagerInv, MapLeads, CallOK
  <2>3. engines[c.sym] = c.engine => s # c.sym
    BY DEF ResumeSymbol, Unhalt
  <2> QED
    BY <2>1, <2>2, <2>3
<1> QED
  BY <1>1, <1>4, <1>5, <1>6, <1>7, FlagKeeps DEF ResumeSymbol, WorkVars
-----------------------------------------------------------------------------
(* The map.                                                                 *)

\* No call has changed, but for those that are over.
CallsEnd ==
    /\ calls' \in [Actors -> CallRecord \cup [op : {"none", "ended", "subscribe"}]]
    /\ \A x \in Actors : calls'[x] = calls[x] \/ (x \notin barred /\ calls'[x] = Idle)

LEMMA MapKeeps ==
    ASSUME ManagerInv, NEW s \in Symbols, Map(s), Unhalt(s), CallsEnd,
           retired' = retired \cup ({engines[s]} \ {None}),
           auctions' \in SUBSET Symbols, contracts' \in SUBSET Symbols, UNCHANGED commands
    PROVE  ManagerInv'
<1> DEFINE new == NewMatchEngine(s)
           n == Len(engine)
<1>1. engine \in Seq(Engine) /\ n \in Nat /\ DOMAIN engine = 1 .. n
  BY DEF ManagerInv, ManagerTypeOK
<1>2. new \in Engine /\ new.sym = s
  BY DEF NewMatchEngine, Engine
<1> HIDE DEF new
<1>3. engine' \in Seq(Engine) /\ Len(engine') = n + 1 /\ DOMAIN engine' = 1 .. (n + 1)
      /\ (\A i \in 1 .. n : engine'[i] = engine[i]) /\ engine'[n + 1] = new
  <2>1. engine' = Append(engine, new)
    BY DEF Map, new
  <2> QED
    BY <1>1, <1>2, <2>1, AppendProperties
<1>4. engines \in [Symbols -> 0 .. n] /\ engines' = [engines EXCEPT ![s] = n + 1]
  BY DEF ManagerInv, ManagerTypeOK, Map
<1>5. engines' \in [Symbols -> 0 .. n + 1]
  BY <1>1, <1>4
<1>6. barred' \in SUBSET barred /\ halted' \in SUBSET halted
      /\ \A x \in barred' : calls'[x] = calls[x] /\ x \in Actors
  BY DEF Unhalt, CallsEnd, ManagerInv, ManagerTypeOK
<1>7. ManagerTypeOK'
  <2>1. retired' \in SUBSET (1 .. (n + 1))
    <3>1. retired \in SUBSET (1 .. n) /\ engines[s] \in 0 .. n
      BY <1>1, <1>4 DEF ManagerInv, ManagerTypeOK
    <3>2. n \in Nat /\ retired' = retired \cup ({engines[s]} \ {0})
      BY <1>1 DEF None
    <3>3. ASSUME NEW x \in retired'
          PROVE  x \in 1 .. (n + 1)
      <4> HIDE DEF n
      <4>1. x \in retired \/ (x = engines[s] /\ x # 0)
        BY <3>2
      <4> QED
        BY <3>1, <3>2, <4>1
    <3> QED
      BY <3>3
  <2>2. halted' \in SUBSET Symbols /\ barred' \in SUBSET Actors
    BY <1>6 DEF ManagerInv, ManagerTypeOK
  <2>3. engines' \in [Symbols -> 0 .. Len(engine')]
    BY <1>3, <1>5
  <2>4. commands' \in Seq(CallRecord) /\ Len(commands') <= QueueSize
    BY DEF ManagerInv, ManagerTypeOK
  <2> QED
    BY <1>3, <2>1, <2>2, <2>3, <2>4 DEF ManagerTypeOK, CallsEnd
<1>8. MapLeads'
  BY <1>1, <1>2, <1>3, <1>4 DEF ManagerInv, MapLeads, None
<1>9. Retired'
  <2> SUFFICES ASSUME NEW i \in 1 .. (n + 1)
               PROVE  engines'[engine'[i].sym] = i \/ i \in retired'
    BY <1>3 DEF Retired
  <2>1. CASE i = n + 1
    BY <1>2, <1>3, <1>4, <2>1
  <2>2. CASE i \in 1 .. n
    <3>1. engine'[i] = engine[i] /\ (engines[engine[i].sym] = i \/ i \in retired)
      BY <1>1, <1>3, <2>2 DEF ManagerInv, Retired
    <3>2. engine[i].sym \in Symbols
      BY <1>1, <2>2, EngineAt DEF Engine
    <3> QED
      BY <1>4, <2>2, <3>1, <3>2 DEF None
  <2> QED
    BY <1>1, <2>1, <2>2
<1>10. CallsOK'
  <2>1. \A d \in CallRecord : CallOK(d) => CallOK(d)'
    BY <1>1, <1>3 DEF CallOK
  <2> QED
    BY <2>1, OpsAre DEF ManagerInv, CallsOK, CallsEnd
<1>11. CommandsOK'
  BY DEF ManagerInv, CommandsOK
<1>12. BarredOK'
  <2> SUFFICES ASSUME NEW x \in barred'
               PROVE  /\ calls'[x] \in CallRecord
                      /\ calls'[x].op \in {"create", "end"} /\ calls'[x].sym \in halted'
                      /\ calls'[x].at = "use" => calls'[x].engine = engines'[calls'[x].sym]
    BY DEF BarredOK
  <2>1. calls'[x] = calls[x] /\ x \in barred /\ calls[x].sym # s /\ calls[x].sym \in Symbols
    BY <1>6 DEF Unhalt, ManagerInv, BarredOK, ManagerTypeOK
  <2> QED
    BY <1>4, <2>1 DEF ManagerInv, BarredOK, Unhalt
<1>13. PauseHolds'
  <2>1. \A t \in halted' : engines'[t] # None /\ engine'[engines'[t]].paused
    <3> SUFFICES ASSUME NEW t \in halted'
                 PROVE  engines'[t] # None /\ engine'[engines'[t]].paused
      OBVIOUS
    <3>1. t # s /\ t \in halted /\ t \in Symbols
      BY DEF Unhalt, ManagerInv, ManagerTypeOK
    <3>2. engines[t] # None /\ engine[engines[t]].paused /\ engines'[t] = engines[t]
      BY <1>4, <3>1 DEF ManagerInv, PauseHolds
    <3>3. engines[t] \in 1 .. n
      BY <1>1, <1>4, <3>1, <3>2 DEF None
    <3> QED
      BY <1>3, <3>2, <3>3
  <2>2. \A x \in barred' : calls'[x].at # "match"
    BY <1>6 DEF ManagerInv, PauseHolds
  <2> QED
    BY <2>1, <2>2 DEF PauseHolds
<1> QED
  BY <1>7, <1>8, <1>9, <1>10, <1>11, <1>12, <1>13 DEF ManagerInv

LEMMA UnmapKeeps ==
    ASSUME ManagerInv, NEW s \in Symbols, Unmap(s), CallsEnd,
           auctions' \in SUBSET Symbols, contracts' \in SUBSET Symbols, UNCHANGED commands
    PROVE  ManagerInv'
<1>1. engines \in [Symbols -> 0 .. Len(engine)] /\ engines' = [engines EXCEPT ![s] = None]
  BY DEF ManagerInv, ManagerTypeOK, Unmap
<1>2. retired' = retired \cup ({engines[s]} \ {None}) /\ UNCHANGED engine
  BY DEF Unmap
<1>3. barred' \in SUBSET barred /\ halted' \in SUBSET halted
      /\ \A x \in barred' : calls'[x] = calls[x] /\ x \in Actors
  BY DEF Unmap, Unhalt, CallsEnd, ManagerInv, ManagerTypeOK
<1>4. engine \in Seq(Engine) /\ DOMAIN engine = 1 .. Len(engine) /\ Len(engine) \in Nat
  BY DEF ManagerInv, ManagerTypeOK
<1>5. ManagerTypeOK'
  BY <1>1, <1>2, <1>3, <1>4 DEF ManagerInv, ManagerTypeOK, CallsEnd, None
<1>6. MapLeads'
  BY <1>1, <1>2 DEF ManagerInv, MapLeads, None
<1>7. Retired'
  <2> SUFFICES ASSUME NEW i \in DOMAIN engine
               PROVE  engines'[engine[i].sym] = i \/ i \in retired'
    BY <1>2 DEF Retired
  <2>1. engine[i].sym \in Symbols /\ (engines[engine[i].sym] = i \/ i \in retired) /\ i # None
    BY <1>4, EngineAt DEF Engine, ManagerInv, Retired, None
  <2> QED
    BY <1>1, <1>2, <2>1
<1>8. CallsOK'
  <2>1. \A d \in CallRecord : CallOK(d) => CallOK(d)'
    BY <1>2 DEF CallOK
  <2> QED
    BY <2>1, OpsAre DEF ManagerInv, CallsOK, CallsEnd
<1>9. CommandsOK'
  BY DEF ManagerInv, CommandsOK
<1>10. BarredOK'
  <2> SUFFICES ASSUME NEW x \in barred'
               PROVE  /\ calls'[x] \in CallRecord
                      /\ calls'[x].op \in {"create", "end"} /\ calls'[x].sym \in halted'
                      /\ calls'[x].at = "use" => calls'[x].engine = engines'[calls'[x].sym]
    BY DEF BarredOK
  <2>1. calls'[x] = calls[x] /\ x \in barred /\ calls[x].sym # s /\ calls[x].sym \in Symbols
    BY <1>3 DEF Unmap, Unhalt, ManagerInv, BarredOK, ManagerTypeOK
  <2> QED
    BY <1>1, <2>1 DEF ManagerInv, BarredOK, Unmap, Unhalt
<1>11. PauseHolds'
  <2>1. \A t \in halted' : t # s /\ t \in halted /\ t \in Symbols
    BY DEF Unmap, Unhalt, ManagerInv, ManagerTypeOK
  <2>2. \A t \in halted' : engines'[t] # None /\ engine'[engines'[t]].paused
    BY <1>1, <1>2, <2>1 DEF ManagerInv, PauseHolds
  <2>3. \A x \in barred' : calls'[x].at # "match"
    BY <1>3 DEF ManagerInv, PauseHolds
  <2> QED
    BY <2>2, <2>3 DEF PauseHolds
<1> QED
  BY <1>5, <1>6, <1>7, <1>8, <1>9, <1>10, <1>11 DEF ManagerInv

\* A symbol is added that is not in the map.
LEMMA AddSymbolKeeps ==
    ASSUME ManagerInv, NEW s \in Symbols, AddSymbol(s), engines[s] = None, CallsEnd,
           UNCHANGED commands
    PROVE  ManagerInv'
<1>1. Map(s) /\ auctions' = auctions \cup {s} /\ UNCHANGED <<contracts, retired, halted, barred>>
  BY DEF AddSymbol
<1>2. s \notin halted
  BY DEF ManagerInv, PauseHolds
<1>3. Unhalt(s)
  <2>1. halted' = halted \ {s}
    BY <1>1, <1>2
  <2>2. \A x \in barred : calls[x].sym # s
    BY <1>2 DEF ManagerInv, BarredOK
  <2> QED
    BY <1>1, <2>1, <2>2 DEF Unhalt
<1>4. retired' = retired \cup ({engines[s]} \ {None})
  BY <1>1
<1>5. auctions' \in SUBSET Symbols /\ contracts' \in SUBSET Symbols
  BY <1>1 DEF ManagerInv, ManagerTypeOK
<1> QED
  BY <1>1, <1>3, <1>4, <1>5, MapKeeps

LEMMA ChangeMapKeeps ==
    ASSUME ManagerInv, NEW a \in Actors, ChangeMap(a)
    PROVE  ManagerInv'
<1> DEFINE c == calls[a]
<1>1. c.op \in {"add", "remove"} /\ calls' = [calls EXCEPT ![a] = Idle] /\ UNCHANGED commands
  BY DEF ChangeMap, MapOps
<1>2. c \in CallRecord /\ c.sym \in Symbols
  BY <1>1, AtWork DEF Ops, MapOps, CallRecord
<1>3. a \notin barred
  BY <1>1 DEF ManagerInv, BarredOK
<1>4. CallsEnd
  BY <1>1, <1>3, OpsAre DEF CallsEnd, ManagerInv, ManagerTypeOK
<1>5. CASE c.op = "add" /\ engines[c.sym] = None
  <2>1. AddSymbol(c.sym)
    BY <1>5 DEF ChangeMap
  <2> QED
    BY <1>1, <1>2, <1>4, <1>5, <2>1, AddSymbolKeeps
<1>6. CASE c.op = "add" /\ engines[c.sym] # None
  <2>1. UNCHANGED <<registry, engine, commands, retired, halted>> /\ barred' = barred
    BY <1>1, <1>6 DEF ChangeMap, AddSymbol, registry
  <2> QED
    BY <1>1, <1>3, <2>1, SameEngines, CallSteps, OpsAre
<1>7. CASE c.op = "remove"
  <2>1. Unmap(c.sym) /\ auctions' \in SUBSET Symbols /\ contracts' \in SUBSET Symbols
    BY <1>7 DEF ChangeMap, RemoveSymbol, ManagerInv, ManagerTypeOK
  <2> QED
    BY <1>1, <1>2, <1>4, <2>1, UnmapKeeps
<1> QED
  BY <1>1, <1>5, <1>6, <1>7

LEMMA EmbedderKeeps ==
    ASSUME ManagerInv, Embedder
    PROVE  ManagerInv'
<1>1. PICK s \in Symbols : AddContractSymbol(s) \/ RemoveContractSymbol(s)
  BY DEF Embedder
<1>2. CallsEnd /\ UNCHANGED commands
  BY DEF Embedder, CallsEnd, ManagerInv, ManagerTypeOK
<1>3. CASE RemoveContractSymbol(s)
  <2>1. Unmap(s) /\ auctions' \in SUBSET Symbols /\ contracts' \in SUBSET Symbols
    BY <1>3 DEF RemoveContractSymbol, ManagerInv, ManagerTypeOK
  <2> QED
    BY <1>2, <2>1, UnmapKeeps
<1>4. CASE AddContractSymbol(s) /\ s \notin contracts
  <2>1. /\ Map(s) /\ Unhalt(s) /\ retired' = retired \cup ({engines[s]} \ {None})
        /\ contracts' = contracts \cup {s} /\ UNCHANGED auctions
    BY <1>4 DEF AddContractSymbol
  <2>2. auctions' \in SUBSET Symbols /\ contracts' \in SUBSET Symbols
    BY <2>1 DEF ManagerInv, ManagerTypeOK
  <2> QED
    BY <1>2, <2>1, <2>2, MapKeeps
<1>5. CASE AddContractSymbol(s) /\ s \in contracts
  <2>1. UNCHANGED <<engines, auctions, contracts, engine, commands, calls, retired, halted, barred>>
    BY <1>5 DEF AddContractSymbol, Embedder
  <2> QED
    BY <2>1 DEF ManagerInv, ManagerTypeOK, MapLeads, Retired, CallsOK, CallOK, CommandsOK,
                BarredOK, PauseHolds
<1> QED
  BY <1>1, <1>3, <1>4, <1>5

LEMMA LookupAuctionKeeps ==
    ASSUME ManagerInv, NEW a \in Actors, LookupAuction(a)
    PROVE  ManagerInv'
<1> DEFINE c == calls[a]
<1>1. EnginesKept
  BY SameEngines DEF LookupAuction
<1>2. CASE Return(a)
  BY <1>1, <1>2, ReturnKeeps
<1>3. CASE ~Return(a)
  <2>1. c.op = "end" /\ barred' = barred
    BY <1>3 DEF LookupAuction
  <2>2. c \in CallRecord /\ CallOK(c)
    BY <2>1, AtWork DEF Ops, AuctionOps
  <2>3. PICK ids \in Batches : calls' = [calls EXCEPT ![a].ids = ids, ![a].at = "handover"]
    BY <1>3 DEF LookupAuction
  <2>4. ids \in Seq(OrderIDs) /\ ids # <<>>
    BY BatchesAssumption
  <2> DEFINE d == [c EXCEPT !.ids = ids, !.at = "handover"]
  <2>5. calls' = [calls EXCEPT ![a] = d]
    BY <2>3 DEF ManagerInv, ManagerTypeOK
  <2>6. d \in CallRecord /\ d.op = c.op /\ d.sym = c.sym /\ d.at = "handover" /\ d.ids = ids
    BY <2>2, <2>4 DEF CallRecord
  <2> HIDE DEF d
  <2>7. CallOK(d)
    BY <2>1, <2>4, <2>6 DEF CallOK
  <2> QED
    BY <1>1, <2>1, <2>5, <2>6, <2>7, CallSteps
<1> QED
  BY <1>2, <1>3
-----------------------------------------------------------------------------
(* Arrivals and commands.                                                   *)

\* A call arrives at a goroutine that is idle.
LEMMA ArriveKeeps ==
    ASSUME ManagerInv, NEW a \in Actors, calls[a] = Idle,
           NEW c \in CallRecord, CallOK(c), c.at = "lookup",
           calls' = [calls EXCEPT ![a] = c],
           barred' = IF Barred(c.op, c.sym) THEN barred \cup {a} ELSE barred,
           commands' \in Seq(CallRecord), Len(commands') <= QueueSize, CommandsOK',
           UNCHANGED <<registry, engine, retired, halted>>
    PROVE  ManagerInv'
<1>1. a \notin barred
  BY OpsAre DEF ManagerInv, BarredOK
<1>2. ManagerTypeOK'
  BY DEF ManagerInv, ManagerTypeOK, registry
<1>3. MapLeads' /\ Retired'
  BY DEF ManagerInv, MapLeads, Retired, registry
<1>4. CallsOK'
  BY DEF ManagerInv, ManagerTypeOK, CallsOK, CallOK
<1>5. BarredOK'
  <2>1. a \in barred' => c.op \in {"create", "end"} /\ c.sym \in halted
    BY <1>1 DEF Barred
  <2> QED
    BY <2>1 DEF ManagerInv, ManagerTypeOK, BarredOK, registry
<1>6. PauseHolds'
  <2>1. \A x \in barred' : calls'[x].at # "match"
    BY DEF ManagerInv, ManagerTypeOK, PauseHolds
  <2> QED
    BY <2>1 DEF ManagerInv, PauseHolds, registry
<1> QED
  BY <1>2, <1>3, <1>4, <1>5, <1>6 DEF ManagerInv

LEMMA CallMade ==
    ASSUME NEW op \in Ops, NEW s \in Symbols, NEW ids \in Seq(OrderIDs),
           op \in {"create", "cancel"} => ids # <<>>
    PROVE  Call(op, s, ids) \in CallRecord /\ CallOK(Call(op, s, ids))
<1> DEFINE c == Call(op, s, ids)
<1>1. c \in CallRecord /\ c.op = op /\ c.at = "lookup" /\ c.ids = ids
  BY DEF Call, CallRecord, None, Ops
<1> HIDE DEF c
<1>2. CallOK(c)
  BY <1>1 DEF CallOK
<1> QED
  BY <1>1, <1>2 DEF c

LEMMA BeginKeeps ==
    ASSUME ManagerInv, NEW h \in Handlers, BeginOrders(h) \/ BeginOther(h)
    PROVE  ManagerInv'
<1>1. PICK op \in Ops, s \in Symbols, ids \in Seq(OrderIDs) :
          (op \in {"create", "cancel"} => ids # <<>>) /\ Begin(h, op, s, ids)
  <2>1. CASE BeginOrders(h)
    BY <2>1, BatchesAssumption DEF BeginOrders, Ops, EngineOps
  <2>2. CASE BeginOther(h)
    <3>1. <<>> \in Seq(OrderIDs)
      OBVIOUS
    <3>2. PICK op \in (EngineOps \ {"create", "cancel"}) \cup AuctionOps \cup MapOps, s \in Symbols :
              Begin(h, op, s, <<>>)
      BY <2>2 DEF BeginOther
    <3>3. op \in Ops /\ op \notin {"create", "cancel"}
      BY DEF Ops, EngineOps, AuctionOps, MapOps
    <3> QED
      BY <3>1, <3>2, <3>3
  <2> QED
    BY <2>1, <2>2
<1> DEFINE c == Call(op, s, ids)
<1>2. c \in CallRecord /\ CallOK(c)
  BY <1>1, CallMade
<1>3. c.op = op /\ c.sym = s /\ c.at = "lookup"
  BY DEF Call
<1>4. calls[h] = Idle /\ h \in Actors /\ calls' = [calls EXCEPT ![h] = c]
  BY <1>1 DEF Begin, Actors
<1>5. barred' = IF Barred(c.op, c.sym) THEN barred \cup {h} ELSE barred
  BY <1>1, <1>3 DEF Begin
<1>6. UNCHANGED <<registry, engine, commands, retired, halted>>
  BY <1>1 DEF Begin
<1>7. commands' \in Seq(CallRecord) /\ Len(commands') <= QueueSize /\ CommandsOK'
  BY <1>6 DEF ManagerInv, ManagerTypeOK, CommandsOK
<1> HIDE DEF c
<1> QED
  BY <1>2, <1>3, <1>4, <1>5, <1>6, <1>7, ArriveKeeps

LEMMA SubmitKeeps ==
    ASSUME ManagerInv, Submit
    PROVE  ManagerInv'
<1>1. PICK op \in {"create", "cancel"}, s \in Symbols, o \in OrderIDs : SubmitCommand(op, s, o)
  BY DEF Submit
<1> DEFINE c == Call(op, s, <<o>>)
<1>2. c \in CallRecord
  <2>1. <<o>> \in Seq(OrderIDs) /\ <<o>> # <<>> /\ op \in Ops
    BY DEF Ops, EngineOps
  <2> QED
    BY <2>1, CallMade
<1>3. c.op \in {"create", "cancel"} /\ c.at = "lookup" /\ c.ids # <<>>
  BY DEF Call
<1>4. commands' = Append(commands, c) /\ Len(commands) < QueueSize
  BY <1>1 DEF SubmitCommand
<1>5. commands \in Seq(CallRecord)
  BY DEF ManagerInv, ManagerTypeOK
<1> HIDE DEF c
<1>6. commands' \in Seq(CallRecord) /\ Len(commands') <= QueueSize
  BY <1>2, <1>4, <1>5, QueueSizeAssumption, AppendProperties
<1>7. CommandsOK'
  <2>1. DOMAIN commands' = 1 .. Len(commands) + 1 /\ Len(commands) \in Nat
    BY <1>2, <1>4, <1>5, <1>6, AppendProperties
  <2>2. \A i \in DOMAIN commands' : i \in DOMAIN commands \/ i = Len(commands) + 1
    BY <1>5, <2>1
  <2>3. \A i \in DOMAIN commands : commands'[i] = commands[i]
    BY <1>2, <1>4, <1>5, AppendProperties
  <2>4. commands'[Len(commands) + 1] = c
    BY <1>2, <1>4, <1>5, AppendProperties
  <2> QED
    BY <1>3, <2>2, <2>3, <2>4 DEF CommandsOK, ManagerInv
<1>8. UNCHANGED <<engines, auctions, contracts, engine, calls, retired, halted, barred>>
  BY <1>1 DEF SubmitCommand, registry
<1> QED
  BY <1>6, <1>7, <1>8 DEF ManagerInv, ManagerTypeOK, MapLeads, Retired, CallsOK, CallOK,
                          BarredOK, PauseHolds

LEMMA TakeCommandKeeps ==
    ASSUME ManagerInv, TakeCommand
    PROVE  ManagerInv'
<1> DEFINE c == Head(commands)
<1>1. commands \in Seq(CallRecord) /\ commands # <<>> /\ Len(commands) <= QueueSize
  BY DEF TakeCommand, ManagerInv, ManagerTypeOK
<1>2. 1 \in DOMAIN commands /\ c = commands[1] /\ c \in CallRecord
  BY <1>1, HeadTailProperties
<1>3. c.op \in {"create", "cancel"} /\ c.at = "lookup" /\ c.ids # <<>>
  BY <1>2 DEF ManagerInv, CommandsOK
<1>4. CallOK(c)
  BY <1>3 DEF CallOK
<1>5. commands' = Tail(commands)
  BY DEF TakeCommand
<1>6. commands' \in Seq(CallRecord) /\ Len(commands') = Len(commands) - 1
      /\ \A i \in 1 .. Len(commands') : commands'[i] = commands[i + 1]
  BY <1>1, <1>5, HeadTailProperties
<1>7. Len(commands') <= QueueSize
  BY <1>1, <1>6, QueueSizeAssumption
<1>8. CommandsOK'
  <2>1. \A i \in DOMAIN commands' : i + 1 \in DOMAIN commands /\ commands'[i] = commands[i + 1]
    BY <1>1, <1>6
  <2> QED
    BY <2>1 DEF CommandsOK, ManagerInv
<1>9. Worker \in Actors /\ calls[Worker] = Idle /\ calls' = [calls EXCEPT ![Worker] = c]
      /\ barred' = (IF Barred(c.op, c.sym) THEN barred \cup {Worker} ELSE barred)
      /\ UNCHANGED <<registry, engine, retired, halted>>
  BY DEF TakeCommand, Actors
<1> HIDE DEF c
<1> QED
  BY <1>2, <1>3, <1>4, <1>6, <1>7, <1>8, <1>9, ArriveKeeps
-----------------------------------------------------------------------------
(* The server.                                                              *)

LEMMA InitManagerInv ==
    ASSUME Init
    PROVE  ManagerInv
<1> DEFINE n == Cardinality(Configured)
<1>1. n \in Nat
  BY ConfiguredAssumption, FS_CardinalityType
<1>2. ManagerInit
  BY DEF Init
<1>3. PICK order \in [1 .. n -> Configured] :
        /\ \A s \in Configured : \E i \in DOMAIN order : order[i] = s
        /\ engine = [i \in DOMAIN order |-> NewMatchEngine(order[i])]
        /\ engines = [s \in Symbols |->
              IF s \in Configured THEN CHOOSE i \in DOMAIN order : order[i] = s ELSE None]
  BY <1>2 DEF ManagerInit
<1>4. \A i, j \in 1 .. n : order[i] = order[j] => i = j
  <2>1. order \in Surjection(1 .. n, Configured)
    BY <1>3 DEF Surjection
  <2>2. IsFiniteSet(1 .. n) /\ Cardinality(1 .. n) = n
    BY <1>1, FS_Interval
  <2>3. order \in Injection(1 .. n, Configured)
    BY <2>1, <2>2, FS_SurjSameCardinalityImpliesInj
  <2> QED
    BY <1>3, <2>3 DEF Injection, IsInjective
<1>5. /\ auctions = Configured /\ contracts = {} /\ commands = <<>>
      /\ calls = [a \in Actors |-> Idle] /\ retired = {} /\ halted = {} /\ barred = {}
  BY <1>2 DEF ManagerInit
<1>6. \A s \in Symbols : IF s \in Configured THEN engines[s] \in 1 .. n /\ order[engines[s]] = s
                                            ELSE engines[s] = None
  BY <1>3
<1>7. DOMAIN engine = 1 .. n /\ \A i \in 1 .. n : engine[i] = NewMatchEngine(order[i])
  BY <1>3
<1> HIDE DEF n
<1>8. \A s \in Symbols : NewMatchEngine(s) \in Engine /\ NewMatchEngine(s).sym = s
  BY DEF NewMatchEngine, Engine
<1>9. \A i \in 1 .. n : order[i] \in Symbols /\ engine[i] \in Engine /\ engine[i].sym = order[i]
  BY <1>3, <1>7, <1>8, ConfiguredAssumption
<1>10. engine \in Seq(Engine) /\ Len(engine) = n
  <2>1. engine \in [1 .. n -> Engine]
    BY <1>3, <1>7, <1>9
  <2> QED
    BY <1>1, <2>1
<1>11. ManagerTypeOK
  <2>1. engines \in [Symbols -> 0 .. Len(engine)]
    BY <1>1, <1>3, <1>6, <1>10 DEF None
  <2>2. commands \in Seq(CallRecord) /\ Len(commands) <= QueueSize
    BY <1>5, QueueSizeAssumption
  <2>3. calls \in [Actors -> CallRecord \cup [op : {"none", "ended", "subscribe"}]]
    BY <1>5, OpsAre
  <2> QED
    BY <1>5, <1>10, <2>1, <2>2, <2>3, ConfiguredAssumption DEF ManagerTypeOK
<1>12. MapLeads
  BY <1>6, <1>9 DEF MapLeads
<1>13. Retired
  <2>1. \A i \in 1 .. n : order[engines[order[i]]] = order[i] /\ engines[order[i]] \in 1 .. n
    BY <1>3, <1>6, <1>9
  <2> QED
    BY <1>4, <1>7, <1>9, <2>1 DEF Retired
<1>14. CallsOK /\ CommandsOK /\ BarredOK /\ PauseHolds
  BY <1>5, OpsAre DEF CallsOK, CommandsOK, BarredOK, PauseHolds
<1> QED
  BY <1>11, <1>12, <1>13, <1>14 DEF ManagerInv

LEMMA HandleKeeps ==
    ASSUME ManagerInv, NEW a \in Actors, Handle(a)
    PROVE  ManagerInv'
BY LookupKeeps, AdmitKeeps, MatchKeeps, CancelOrderKeeps, PauseSymbolKeeps, ResumeSymbolKeeps,
   QueryKeeps, ChangeMapKeeps, LookupAuctionKeeps DEF Handle

\* A subscription is a call that leaves the engines alone.
LEMMA SubscribeKeeps ==
    ASSUME ManagerInv, NEW h \in Handlers, Subscribe(h) \/ Unsubscribe(h)
    PROVE  ManagerInv'
<1>1. h \in Actors
  BY DEF Actors
<1>2. h \notin barred
  <2>1. calls[h].op \in {"none", "subscribe"}
    BY DEF Subscribe, Unsubscribe, Subscribed, Idle
  <2> QED
    BY <2>1 DEF ManagerInv, BarredOK
<1>3. PICK c \in [op : {"none", "ended", "subscribe"}] : calls' = [calls EXCEPT ![h] = c]
  BY OpsAre DEF Subscribe, Unsubscribe
<1>4. c \notin CallRecord
  BY DEF CallRecord, EngineOps, AuctionOps, MapOps
<1>5. EnginesKept /\ barred' = barred
  BY SameEngines DEF Subscribe, Unsubscribe
<1> QED
  BY <1>1, <1>2, <1>3, <1>4, <1>5, CallSteps

LEMMA EndWorkerKeeps ==
    ASSUME ManagerInv, EndWorker
    PROVE  ManagerInv'
<1>1. Worker \in Actors /\ calls[Worker] = Idle
  BY DEF EndWorker, Actors
<1>2. Worker \notin barred
  BY <1>1, OpsAre DEF ManagerInv, BarredOK
<1> DEFINE c == [op |-> "ended"]
<1>3. c \in [op : {"none", "ended", "subscribe"}] /\ c \notin CallRecord
  BY DEF CallRecord, EngineOps, AuctionOps, MapOps
<1>4. EnginesKept /\ barred' = barred /\ calls' = [calls EXCEPT ![Worker] = c]
  BY SameEngines DEF EndWorker
<1> HIDE DEF c
<1> QED
  BY <1>1, <1>2, <1>3, <1>4, CallSteps

LEMMA MainKeeps ==
    ASSUME ManagerInv, Main
    PROVE  ManagerInv'
<1>1. CASE GracefulStop
  <2>1. UNCHANGED <<engines, auctions, contracts, engine, commands, calls, retired, halted, barred>>
    BY <1>1 DEF GracefulStop, Stop, registry
  <2> QED
    BY <2>1 DEF ManagerInv, ManagerTypeOK, MapLeads, Retired, CallsOK, CallOK, CommandsOK,
                BarredOK, PauseHolds
<1>2. CASE Signal \/ Exit \/ \E s \in Symbols : SaveSnapshot(s)
  <2>1. UNCHANGED managerVars
    BY <1>2 DEF Signal, Exit, SaveSnapshot
  <2> QED
    BY <2>1, ManagerStutter
<1> QED
  BY <1>1, <1>2 DEF Main

LEMMA StepManagerInv ==
    ASSUME ManagerInv, [Next]_vars
    PROVE  ManagerInv'
<1>1. CASE UNCHANGED vars
  <2>1. UNCHANGED managerVars
    BY <1>1 DEF vars
  <2> QED
    BY <2>1, ManagerStutter
<1>2. CASE Serve
  BY <1>2, BeginKeeps DEF Serve
<1>3. CASE \E h \in Handlers : Subscribe(h) \/ Unsubscribe(h)
  BY <1>3, SubscribeKeeps
<1>4. CASE \E a \in Actors : Handle(a)
  BY <1>4, HandleKeeps
<1>5. CASE Embedder \/ Submit \/ TakeCommand \/ EndWorker
  BY <1>5, EmbedderKeeps, SubmitKeeps, TakeCommandKeeps, EndWorkerKeeps
<1>6. CASE UNCHANGED <<managerVars, mainVars>>
  <2>1. UNCHANGED managerVars
    BY <1>6
  <2> QED
    BY <2>1, ManagerStutter
<1>7. CASE Main
  BY <1>7, MainKeeps
<1> QED
  BY <1>1, <1>2, <1>3, <1>4, <1>5, <1>6, <1>7 DEF Next

LEMMA ManagerInvAlways == Spec => []ManagerInv
<1>1. Init => ManagerInv
  BY InitManagerInv
<1>2. ManagerInv /\ [Next]_vars => ManagerInv'
  BY StepManagerInv
<1> QED
  BY <1>1, <1>2, PTL DEF Spec

(* EngineManager and main: an order that rests can be reached through its    *)
(* symbol, unless its engine was removed or replaced, however the admin's    *)
(* changes of the map fall between a call's lookup and its work.             *)
THEOREM OrdersKeptAlways == Spec => []OrdersKept
<1>1. ManagerInv => OrdersKept
  BY DEF ManagerInv, Retired, OrdersKept
<1> QED
  BY <1>1, ManagerInvAlways, PTL

(* PauseTrading: from its confirmation on, whatever calls and commands were  *)
(* under way or come later, no order that arrives then is matched.           *)
THEOREM PauseHoldsAlways == Spec => []PauseHolds
<1>1. ManagerInv => PauseHolds
  BY DEF ManagerInv
<1> QED
  BY <1>1, ManagerInvAlways, PTL
-----------------------------------------------------------------------------
(* The snapshots.                                                           *)

\* Engines are added and their books change, and none becomes another's.
EnginesGrow ==
    /\ \A e \in DOMAIN engine :
          /\ e \in DOMAIN engine' /\ engine'[e].sym = engine[e].sym
          /\ engine[e].version <= engine'[e].version
    /\ retired \subseteq retired'

LEMMA SameGrow ==
    ASSUME ManagerInv, UNCHANGED <<engine, retired>>
    PROVE  EnginesGrow
<1>1. \A e \in DOMAIN engine : engine[e].version \in Nat
  BY EngineAt DEF Engine
<1> QED
  BY <1>1 DEF EnginesGrow

LEMMA ChangeGrows ==
    ASSUME ManagerInv, NEW e \in DOMAIN engine, NEW orders, Change(e, orders), UNCHANGED retired
    PROVE  EnginesGrow
<1>1. \A i \in DOMAIN engine : engine[i] \in Engine /\ engine[i].version \in Nat
  BY EngineAt DEF Engine
<1> DEFINE version == IF orders = engine[e].orders THEN engine[e].version ELSE engine[e].version + 1
           new == [engine[e] EXCEPT !.orders = orders, !.version = version]
<1>2. engine' = [engine EXCEPT ![e] = new]
  BY <1>1 DEF Change, Engine
<1>3. version \in Nat /\ engine[e].version <= version
  BY <1>1
<1>4. new.sym = engine[e].sym /\ new.version = version
  <2> HIDE DEF version
  <2> QED
    BY <1>1 DEF Engine
<1> HIDE DEF new, version
<1> QED
  BY <1>1, <1>2, <1>3, <1>4 DEF EnginesGrow

LEMMA FlagGrows ==
    ASSUME ManagerInv, NEW e \in DOMAIN engine, NEW b \in BOOLEAN,
           engine' = [engine EXCEPT ![e].paused = b], UNCHANGED retired
    PROVE  EnginesGrow
<1>1. \A i \in DOMAIN engine : engine[i] \in Engine /\ engine[i].version \in Nat
  BY EngineAt DEF Engine
<1> DEFINE new == [engine[e] EXCEPT !.paused = b]
<1>2. engine' = [engine EXCEPT ![e] = new] /\ new.sym = engine[e].sym
      /\ new.version = engine[e].version
  BY <1>1 DEF Engine
<1> HIDE DEF new
<1> QED
  BY <1>1, <1>2 DEF EnginesGrow

LEMMA MapGrows ==
    ASSUME ManagerInv, NEW s \in Symbols, Map(s), retired \subseteq retired'
    PROVE  EnginesGrow
<1>1. engine \in Seq(Engine) /\ NewMatchEngine(s) \in Engine
  BY DEF ManagerInv, ManagerTypeOK, NewMatchEngine, Engine
<1>2. \A e \in DOMAIN engine : e \in DOMAIN engine' /\ engine'[e] = engine[e]
  BY <1>1, AppendProperties DEF Map
<1>3. \A e \in DOMAIN engine : engine[e].version \in Nat
  BY EngineAt DEF Engine
<1> QED
  BY <1>2, <1>3 DEF EnginesGrow

LEMMA HandleGrows ==
    ASSUME ManagerInv, NEW a \in Actors, Handle(a)
    PROVE  EnginesGrow
<1> DEFINE c == calls[a]
<1>1. CASE Lookup(a) \/ Admit(a) \/ Query(a) \/ LookupAuction(a)
  <2>1. UNCHANGED <<engine, retired>>
    BY <1>1 DEF Lookup, Admit, Query, LookupAuction, WorkVars
  <2> QED
    BY <2>1, SameGrow
<1>2. CASE Match(a) \/ CancelOrder(a)
  <2>1. c.engine \in DOMAIN engine
    BY <1>2, AtWork DEF Match, CancelOrder, Is, Ops, EngineOps, AuctionOps, CallOK
  <2>2. UNCHANGED retired /\ \E orders : Change(c.engine, orders)
    BY <1>2 DEF Match, CancelOrder, WorkVars
  <2> QED
    BY <2>1, <2>2, ChangeGrows
<1>3. CASE PauseSymbol(a) \/ ResumeSymbol(a)
  <2>1. c.engine \in DOMAIN engine
    BY <1>3, AtWork DEF PauseSymbol, ResumeSymbol, Is, Ops, EngineOps, CallOK
  <2>2. UNCHANGED retired /\ \E b \in BOOLEAN : engine' = [engine EXCEPT ![c.engine].paused = b]
    BY <1>3 DEF PauseSymbol, ResumeSymbol, WorkVars
  <2> QED
    BY <2>1, <2>2, FlagGrows
<1>4. CASE ChangeMap(a)
  <2>1. c.sym \in Symbols
    BY <1>4, AtWork DEF ChangeMap, Ops, MapOps, CallRecord
  <2>2. CASE Map(c.sym) /\ UNCHANGED retired
    BY <2>1, <2>2, MapGrows
  <2>3. CASE UNCHANGED engine /\ retired \subseteq retired'
    <3>1. \A e \in DOMAIN engine : engine[e].version \in Nat
      BY EngineAt DEF Engine
    <3> QED
      BY <2>3, <3>1 DEF EnginesGrow
  <2> QED
    BY <1>4, <2>2, <2>3 DEF ChangeMap, AddSymbol, RemoveSymbol, Unmap
<1> QED
  BY <1>1, <1>2, <1>3, <1>4 DEF Handle

LEMMA EmbedderGrows ==
    ASSUME ManagerInv, Embedder
    PROVE  EnginesGrow
<1>1. PICK s \in Symbols : AddContractSymbol(s) \/ RemoveContractSymbol(s)
  BY DEF Embedder
<1>2. CASE Map(s) /\ retired \subseteq retired'
  BY <1>2, MapGrows
<1>3. CASE UNCHANGED engine /\ retired \subseteq retired'
  <2>1. \A e \in DOMAIN engine : engine[e].version \in Nat
    BY EngineAt DEF Engine
  <2> QED
    BY <1>3, <2>1 DEF EnginesGrow
<1> QED
  BY <1>1, <1>2, <1>3 DEF AddContractSymbol, RemoveContractSymbol, Unmap

LEMMA StepGrows ==
    ASSUME ManagerInv, [Next]_vars
    PROVE  EnginesGrow
<1>1. CASE UNCHANGED <<engine, retired>>
  BY <1>1, SameGrow
<1>2. CASE \E a \in Actors : Handle(a)
  BY <1>2, HandleGrows
<1>3. CASE Embedder
  BY <1>3, EmbedderGrows
<1>4. CASE Serve \/ \E h \in Handlers : Subscribe(h) \/ Unsubscribe(h)
  <2>1. UNCHANGED <<engine, retired>>
    BY <1>4 DEF Serve, BeginOrders, BeginOther, Begin, Subscribe, Unsubscribe
  <2> QED
    BY <2>1, <1>1
<1>5. CASE Submit \/ TakeCommand \/ EndWorker
  <2>1. UNCHANGED <<engine, retired>>
    BY <1>5 DEF Submit, SubmitCommand, TakeCommand, EndWorker
  <2> QED
    BY <2>1, <1>1
<1>6. CASE Main
  <2>1. UNCHANGED <<engine, retired>>
    BY <1>6 DEF Main, Signal, GracefulStop, Stop, Exit, SaveSnapshot, managerVars
  <2> QED
    BY <2>1, <1>1
<1>7. CASE UNCHANGED managerVars
  <2>1. UNCHANGED <<engine, retired>>
    BY <1>7 DEF managerVars
  <2> QED
    BY <2>1, <1>1
<1> QED
  BY <1>2, <1>3, <1>4, <1>5, <1>6, <1>7 DEF Next, vars

Version == [engine : Nat, version : Nat]
Began == [Symbols -> Version]

\* What a book of s was at some time.
Known(x, s) ==
    IF x.engine = None THEN x.version = 0
    ELSE /\ x.engine \in DOMAIN engine /\ engine[x.engine].sym = s
         /\ x.version <= engine[x.engine].version

Fresh(a, b) == Older(a, b) => b.engine \in retired

SnapshotTyped ==
    /\ snapshots \in Began /\ done \in Began
    /\ loop \in [at : {"sleep"}]
         \cup [at : {"next"}, left : SUBSET Symbols, began : Began]
         \cup [at : {"snap"}, left : SUBSET Symbols, began : Began, sym : Symbols, engine : Nat]

DoneKnown == \A s \in Symbols : Known(done[s], s)
BeganKnown == loop.at # "sleep" => \A s \in Symbols : Known(loop.began[s], s)

\* The engine whose book is about to be read is as new as any of the symbol's
\* that the round or the one before began with.
Held ==
    loop.at = "snap" =>
        /\ loop.engine \in DOMAIN engine
        /\ \A x \in {done[loop.sym], loop.began[loop.sym]} :
              x.engine = None \/ x.engine = loop.engine \/ x.engine \in retired

\* The symbols that the round has dealt with.
Covered ==
    loop.at # "sleep" =>
        \A s \in Symbols \ loop.left :
            (loop.at = "snap" /\ s = loop.sym) \/ Fresh(snapshots[s], loop.began[s])

SnapshotInv ==
    SnapshotTyped /\ DoneKnown /\ BeganKnown /\ Held /\ Covered /\ SnapshotFresh

\* The engines and the calls go on while the loop does nothing.
LEMMA SnapshotWaits ==
    ASSUME ManagerInv, ManagerInv', SnapshotInv, EnginesGrow, UNCHANGED snapshotVars
    PROVE  SnapshotInv'
<1>1. loop' = loop /\ snapshots' = snapshots /\ done' = done
  BY DEF snapshotVars
<1>2. \A x \in Version, s \in Symbols : Known(x, s) => Known(x, s)'
  <2> SUFFICES ASSUME NEW x \in Version, NEW s \in Symbols, Known(x, s)
               PROVE  Known(x, s)'
    OBVIOUS
  <2>1. CASE x.engine = None
    BY <2>1 DEF Known
  <2>2. CASE x.engine # None
    <3>1. x.version \in Nat /\ x.engine \in DOMAIN engine /\ x.engine \in DOMAIN engine'
      BY <2>2 DEF Known, EnginesGrow, Version
    <3>2. engine[x.engine].version \in Nat
      BY <3>1, EngineAt DEF Engine
    <3>3. engine'[x.engine].version \in Nat
      <4>1. engine' \in Seq(Engine) /\ x.engine \in 1 .. Len(engine')
        BY <3>1 DEF ManagerInv, ManagerTypeOK
      <4>2. engine'[x.engine] \in Engine
        BY <4>1, ElementOfSeq
      <4> QED
        BY <4>2 DEF Engine
    <3> QED
      BY <2>2, <3>1, <3>2, <3>3 DEF Known, EnginesGrow
  <2> QED
    BY <2>1, <2>2
<1>3. SnapshotTyped'
  BY <1>1 DEF SnapshotInv, SnapshotTyped
<1>4. DoneKnown' /\ BeganKnown'
  <2>1. \A s \in Symbols : done[s] \in Version
    BY DEF SnapshotInv, SnapshotTyped, Began
  <2>2. loop.at # "sleep" => \A s \in Symbols : loop.began[s] \in Version
    BY DEF SnapshotInv, SnapshotTyped, Began
  <2> QED
    BY <1>1, <1>2, <2>1, <2>2 DEF SnapshotInv, DoneKnown, BeganKnown
<1>5. Held'
  BY <1>1 DEF SnapshotInv, Held, EnginesGrow
<1>6. Covered' /\ SnapshotFresh'
  BY <1>1 DEF SnapshotInv, Covered, Fresh, SnapshotFresh, EnginesGrow
<1> QED
  BY <1>3, <1>4, <1>5, <1>6 DEF SnapshotInv

\* What is known of a symbol's book is of the engine in the map, or of one
\* that was taken out.
LEMMA KnownOrRetired ==
    ASSUME ManagerInv, NEW s \in Symbols, NEW x \in Version, Known(x, s)
    PROVE  x.engine = None \/ x.engine = engines[s] \/ x.engine \in retired
BY DEF Known, ManagerInv, Retired

LEMMA TickKeeps ==
    ASSUME ManagerInv, SnapshotInv, UNCHANGED managerVars, Tick
    PROVE  SnapshotInv'
<1>1. UNCHANGED <<engine, engines, retired, snapshots, done>> /\ loop.at = "sleep"
  BY DEF Tick, managerVars, registry, Sleeping
<1> DEFINE began == [s \in Symbols |-> Now(s)]
           left == {s \in Symbols : engines[s] # None}
<1>2. \A s \in Symbols : Now(s) \in Version /\ Known(Now(s), s)
  <2> SUFFICES ASSUME NEW s \in Symbols
               PROVE  Now(s) \in Version /\ Known(Now(s), s)
    OBVIOUS
  <2>1. CASE engines[s] = None
    BY <2>1 DEF Now, NoSnapshot, Version, Known, None
  <2>2. CASE engines[s] # None
    <3>1. engines[s] \in DOMAIN engine /\ engines[s] \in Nat /\ engine[engines[s]].sym = s
      BY <2>2 DEF ManagerInv, ManagerTypeOK, MapLeads, None
    <3>2. engine[engines[s]].version \in Nat
      BY <3>1, EngineAt DEF Engine
    <3> QED
      BY <2>2, <3>1, <3>2 DEF Now, Version, Known
  <2> QED
    BY <2>1, <2>2
<1>3. began \in Began /\ \A s \in Symbols : began[s] = Now(s) /\ Known(began[s], s)
  BY <1>2 DEF Began
<1>4. \A s \in Symbols \ left : Fresh(snapshots[s], began[s])
  <2> SUFFICES ASSUME NEW s \in Symbols, engines[s] = None
               PROVE  ~Older(snapshots[s], NoSnapshot)
    BY <1>3 DEF Now, Fresh
  <2>1. snapshots[s] \in Version
    BY DEF SnapshotInv, SnapshotTyped, Began
  <2> QED
    BY <2>1 DEF Older, NoSnapshot, Version, None
<1>5. loop' = [at |-> "next", left |-> left, began |-> began]
  BY DEF Tick
<1>6. left \in SUBSET Symbols
  OBVIOUS
<1> HIDE DEF left, began
<1>7. loop'.at = "next" /\ loop'.left = left /\ loop'.began = began
  BY <1>5
<1>8. SnapshotTyped'
  BY <1>1, <1>3, <1>5, <1>6 DEF SnapshotInv, SnapshotTyped
<1>9. DoneKnown' /\ BeganKnown' /\ Held' /\ Covered' /\ SnapshotFresh'
  BY <1>1, <1>3, <1>4, <1>7 DEF SnapshotInv, DoneKnown, BeganKnown, Held, Covered, SnapshotFresh,
                                Known, Fresh
<1> QED
  BY <1>8, <1>9 DEF SnapshotInv

LEMMA NextSymbolKeeps ==
    ASSUME ManagerInv, SnapshotInv, UNCHANGED managerVars, NextSymbol
    PROVE  SnapshotInv'
<1>1. UNCHANGED <<engine, engines, retired, snapshots, done>>
  BY DEF NextSymbol, managerVars, registry
<1>2. loop.at = "next" /\ loop \in [at : {"next"}, left : SUBSET Symbols, began : Began]
  BY DEF NextSymbol, SnapshotInv, SnapshotTyped
<1>3. PICK s \in loop.left :
        loop' = IF engines[s] = None THEN [loop EXCEPT !.left = @ \ {s}]
                ELSE [at |-> "snap", left |-> loop.left \ {s}, began |-> loop.began,
                      sym |-> s, engine |-> engines[s]]
  BY DEF NextSymbol
<1>4. s \in Symbols /\ loop.began \in Began /\ loop.began[s] \in Version /\ done[s] \in Version
      /\ snapshots[s] \in Version
  BY <1>2, <1>3 DEF SnapshotInv, SnapshotTyped, Began
<1>5. DoneKnown' /\ SnapshotFresh'
  BY <1>1 DEF SnapshotInv, DoneKnown, SnapshotFresh, Known
<1>6. Known(loop.began[s], s) /\ Known(done[s], s)
  BY <1>2, <1>4 DEF SnapshotInv, BeganKnown, DoneKnown
<1>7. CASE engines[s] = None
  <2>1. loop' \in [at : {"next"}, left : SUBSET Symbols, began : Began] /\ loop'.at = "next"
        /\ loop'.left = loop.left \ {s} /\ loop'.began = loop.began
    BY <1>2, <1>3, <1>7
  <2>2. Fresh(snapshots[s], loop.began[s])
    <3>1. loop.began[s].engine = None \/ loop.began[s].engine \in retired
      BY <1>4, <1>6, <1>7, KnownOrRetired
    <3>2. loop.began[s].engine = None => ~Older(snapshots[s], loop.began[s])
      BY <1>4, <1>6 DEF Known, Older, Version, None
    <3> QED
      BY <3>1, <3>2 DEF Fresh
  <2>3. SnapshotTyped'
    BY <1>1, <2>1 DEF SnapshotInv, SnapshotTyped
  <2>4. BeganKnown' /\ Held' /\ Covered'
    BY <1>1, <1>2, <2>1, <2>2 DEF SnapshotInv, BeganKnown, Held, Covered, Fresh, Known
  <2> QED
    BY <1>5, <2>3, <2>4 DEF SnapshotInv
<1>8. CASE engines[s] # None
  <2>1. engines[s] \in DOMAIN engine /\ engines[s] \in Nat
    BY <1>4, <1>8 DEF ManagerInv, ManagerTypeOK, None
  <2>2. loop' = [at |-> "snap", left |-> loop.left \ {s}, began |-> loop.began,
                 sym |-> s, engine |-> engines[s]]
    BY <1>3, <1>8
  <2>3. SnapshotTyped'
    BY <1>1, <1>2, <1>4, <2>1, <2>2 DEF SnapshotInv, SnapshotTyped
  <2>4. Held'
    BY <1>1, <1>4, <1>6, <2>1, <2>2, KnownOrRetired DEF Held
  <2>5. BeganKnown' /\ Covered'
    BY <1>1, <1>2, <2>2 DEF SnapshotInv, BeganKnown, Covered, Fresh, Known
  <2> QED
    BY <1>5, <2>3, <2>4, <2>5 DEF SnapshotInv
<1> QED
  BY <1>7, <1>8

LEMMA TakeSnapshotKeeps ==
    ASSUME ManagerInv, SnapshotInv, UNCHANGED managerVars, TakeSnapshot
    PROVE  SnapshotInv'
<1>1. UNCHANGED <<engine, engines, retired, done>>
  BY DEF TakeSnapshot, managerVars, registry
<1>2. loop.at = "snap"
      /\ loop \in [at : {"snap"}, left : SUBSET Symbols, began : Began, sym : Symbols, engine : Nat]
  BY DEF TakeSnapshot, SnapshotInv, SnapshotTyped
<1> DEFINE t == loop.sym
           new == [engine |-> loop.engine, version |-> engine[loop.engine].version]
<1>3. t \in Symbols /\ loop.engine \in DOMAIN engine /\ loop.engine \in Nat
      /\ engine[loop.engine].version \in Nat
  <2>1. loop.engine \in DOMAIN engine
    BY <1>2 DEF SnapshotInv, Held
  <2> QED
    BY <1>2, <2>1, EngineAt DEF Engine
<1>4. new \in Version
  BY <1>3 DEF Version
<1>5. snapshots' = [snapshots EXCEPT ![t] = new]
      /\ loop' = [at |-> "next", left |-> loop.left, began |-> loop.began]
  BY DEF TakeSnapshot
<1>6. \A x \in {done[t], loop.began[t]} : Fresh(new, x)
  <2> SUFFICES ASSUME NEW x \in {done[t], loop.began[t]}
               PROVE  Fresh(new, x)
    OBVIOUS
  <2>1. x \in Version /\ Known(x, t)
    BY <1>2, <1>3 DEF SnapshotInv, SnapshotTyped, Began, DoneKnown, BeganKnown
  <2>2. x.engine = None \/ x.engine = loop.engine \/ x.engine \in retired
    BY <1>2 DEF SnapshotInv, Held
  <2>3. CASE x.engine = None
    BY <1>4, <2>1, <2>3 DEF Known, Fresh, Older, Version, None
  <2>4. CASE x.engine = loop.engine /\ x.engine # None
    BY <1>3, <2>1, <2>4 DEF Known, Fresh, Older, Version
  <2> QED
    BY <2>2, <2>3, <2>4 DEF Fresh
<1> HIDE DEF new
<1>7. \A s \in Symbols : snapshots'[s] = IF s = t THEN new ELSE snapshots[s]
  BY <1>5 DEF SnapshotInv, SnapshotTyped, Began
<1>8. SnapshotTyped'
  BY <1>1, <1>2, <1>4, <1>5 DEF SnapshotInv, SnapshotTyped, Began
<1>9. DoneKnown' /\ BeganKnown' /\ Held'
  BY <1>1, <1>2, <1>5 DEF SnapshotInv, DoneKnown, BeganKnown, Held, Known
<1>10. Covered'
  BY <1>1, <1>2, <1>5, <1>6, <1>7 DEF SnapshotInv, Covered, Fresh
<1>11. SnapshotFresh'
  BY <1>1, <1>6, <1>7 DEF SnapshotInv, SnapshotFresh, Fresh
<1> QED
  BY <1>8, <1>9, <1>10, <1>11 DEF SnapshotInv

LEMMA EndRoundKeeps ==
    ASSUME ManagerInv, SnapshotInv, UNCHANGED managerVars, EndRound
    PROVE  SnapshotInv'
<1>1. UNCHANGED <<engine, engines, retired, snapshots>> /\ loop.at = "next" /\ loop.left = {}
      /\ done' = loop.began /\ loop' = [at |-> "sleep"]
  BY DEF EndRound, managerVars, registry, Sleeping
<1>2. loop.began \in Began
  BY <1>1 DEF SnapshotInv, SnapshotTyped
<1>3. SnapshotTyped'
  BY <1>1, <1>2 DEF SnapshotInv, SnapshotTyped
<1>4. DoneKnown' /\ BeganKnown' /\ Held' /\ Covered' /\ SnapshotFresh'
  BY <1>1 DEF SnapshotInv, DoneKnown, BeganKnown, Held, Covered, SnapshotFresh, Known, Fresh
<1> QED
  BY <1>3, <1>4 DEF SnapshotInv

LEMMA StepSnapshotInv ==
    ASSUME ManagerInv, SnapshotInv, [Next]_vars
    PROVE  SnapshotInv'
<1>1. CASE UNCHANGED snapshotVars
  BY <1>1, StepManagerInv, StepGrows, SnapshotWaits
<1>2. CASE SnapshotLoop /\ UNCHANGED managerVars
  BY <1>2, TickKeeps, NextSymbolKeeps, TakeSnapshotKeeps, EndRoundKeeps DEF SnapshotLoop
<1>3. UNCHANGED snapshotVars \/ (SnapshotLoop /\ UNCHANGED managerVars)
  BY DEF Next, vars, Others, Serve, Subscribe, Unsubscribe, Main, Signal, GracefulStop, Exit,
         SaveSnapshot
<1> QED
  BY <1>1, <1>2, <1>3

(* SnapshotManager: whatever is added, removed or traded between a symbol's  *)
(* listing, its lookup and the reading of its book, after a whole round each *)
(* stored snapshot is at least as new as the book was when the round began.  *)
THEOREM SnapshotFreshAlways == Spec => []SnapshotFresh
<1>1. Init => SnapshotInv
  <2> SUFFICES ASSUME Init
               PROVE  SnapshotInv
    OBVIOUS
  <2>1. loop = [at |-> "sleep"] /\ loop.at = "sleep"
        /\ \A s \in Symbols : snapshots[s] = NoSnapshot /\ done[s] = NoSnapshot
    BY DEF Init, SnapshotInit, Sleeping
  <2>2. NoSnapshot \in Version /\ NoSnapshot.engine = None /\ NoSnapshot.version = 0
        /\ ~Older(NoSnapshot, NoSnapshot)
    BY DEF NoSnapshot, Version, None, Older
  <2>3. SnapshotTyped
    BY <2>1, <2>2 DEF Init, SnapshotInit, SnapshotTyped, Began
  <2> QED
    BY <2>1, <2>2, <2>3 DEF SnapshotInv, DoneKnown, BeganKnown, Held, Covered, SnapshotFresh, Known
<1>2. ManagerInv /\ SnapshotInv /\ [Next]_vars => SnapshotInv'
  BY StepSnapshotInv
<1>3. SnapshotInv => SnapshotFresh
  BY DEF SnapshotInv
<1> QED
  BY <1>1, <1>2, <1>3, ManagerInvAlways, PTL DEF Spec

-----------------------------------------------------------------------------
(* The audit log.                                                           *)

\* Two entries in the order they were logged in, unless one went past the queue.
AuditOrder ==
    {p \in Entry \X Entry :
        p[1].n # p[2].n /\ (~ p[1].past /\ ~ p[2].past => p[1].n < p[2].n)}

\* What has gone through the queue, when so many entries were logged.
Lined(p, count) ==
    /\ p \in Seq(Entry) /\ Chained(AuditOrder, p)
    /\ \A e \in ToSet(p) : e.n \in 1 .. count

\* The entries callers are about to write are others, ...
Apart(p, d, count) ==
    \A l \in Loggers :
        d[l] # <<>> =>
            /\ Head(d[l]) \in Entry /\ Head(d[l]).past /\ Head(d[l]).n \in 1 .. count
            /\ \A e \in ToSet(p) : e.n # Head(d[l]).n

\* ... each another's.
Distinct(d) ==
    \A l, k \in Loggers :
        l # k /\ d[l] # <<>> /\ d[k] # <<>> => Head(d[l]).n # Head(d[k]).n

InLine(p, n) == \E e \in ToSet(p) : e.n = n
Waits(d, n) == \E l \in Loggers : d[l] # <<>> /\ Head(d[l]).n = n
IsLost(x, n) == \E e \in x : e.n = n

\* Nothing that was logged has disappeared.
Accounted(p, d, x, count) ==
    \A n \in 1 .. count : InLine(p, n) \/ Waits(d, n) \/ IsLost(x, n)

LogInv(p, d, x, count) ==
    Lined(p, count) /\ Apart(p, d, count) /\ Distinct(d) /\ Accounted(p, d, x, count)

AuditTyped ==
    /\ buffer \in Seq(Entry) /\ bufferList \in Seq(Entry)
    /\ taken \in Seq(Entry) /\ file \in Seq(Entry)
    /\ DOMAIN direct = Loggers
    /\ logged \in Nat
    /\ state \in {"open", "closing", "closed"}

AuditInv ==
    /\ AuditTyped
    /\ LogInv(Path, direct, lost, logged)
    /\ state # "closed" => lost = {}

\* A queue before an entry, an entry before a queue.
LEMMA OneMore ==
    ASSUME NEW p \in Seq(Entry), NEW e \in Entry
    PROVE  /\ p \o <<e>> \in Seq(Entry)
           /\ ToSet(p \o <<e>>) = ToSet(p) \cup {e}
           /\ Chained(AuditOrder, p \o <<e>>) <=>
                  Chained(AuditOrder, p) /\ AllBefore(AuditOrder, ToSet(p), {e})
<1>1. <<e>> \in Seq(Entry) /\ ToSet(<<e>>) = {e} /\ Chained(AuditOrder, <<e>>)
  BY ChainedSingle
<1>2. PICK s : s = <<e>>
  OBVIOUS
<1>3. /\ p \o s \in Seq(Entry) /\ ToSet(p \o s) = ToSet(p) \cup ToSet(s)
  BY ONLY <1>1, <1>2, p \in Seq(Entry), ConcatSet, ConcatProperties
<1>4. Chained(AuditOrder, p \o s) <=>
          Chained(AuditOrder, p) /\ Chained(AuditOrder, s)
              /\ AllBefore(AuditOrder, ToSet(p), ToSet(s))
  BY ONLY <1>1, <1>2, p \in Seq(Entry), ChainedConcat
<1>5. QED
  BY ONLY <1>1, <1>2, <1>3, <1>4

\* An entry within a line.
Within(f, r, e, p, q) ==
    /\ p \in Seq(Entry) /\ q \in Seq(Entry)
    /\ ToSet(p) = ToSet(f) \cup ToSet(r)
    /\ ToSet(q) = ToSet(p) \cup {e}
    /\ Chained(AuditOrder, q) <=>
           /\ Chained(AuditOrder, p)
           /\ AllBefore(AuditOrder, ToSet(f), {e})
           /\ AllBefore(AuditOrder, {e}, ToSet(r))

LEMMA OneWithin ==
    ASSUME NEW f \in Seq(Entry), NEW r \in Seq(Entry), NEW e \in Entry
    PROVE  Within(f, r, e, f \o r, (f \o <<e>>) \o r)
<1>1. PICK s : s = f \o <<e>>
  OBVIOUS
<1>2. /\ s \in Seq(Entry) /\ ToSet(s) = ToSet(f) \cup {e}
      /\ Chained(AuditOrder, s) <=>
             Chained(AuditOrder, f) /\ AllBefore(AuditOrder, ToSet(f), {e})
  BY <1>1, OneMore
<1>3. /\ s \o r \in Seq(Entry) /\ f \o r \in Seq(Entry)
      /\ ToSet(s \o r) = ToSet(s) \cup ToSet(r) /\ ToSet(f \o r) = ToSet(f) \cup ToSet(r)
  BY ONLY <1>2, f \in Seq(Entry), r \in Seq(Entry), ConcatSet, ConcatProperties
<1>4. /\ Chained(AuditOrder, s \o r) <=>
            Chained(AuditOrder, s) /\ Chained(AuditOrder, r)
                /\ AllBefore(AuditOrder, ToSet(s), ToSet(r))
      /\ Chained(AuditOrder, f \o r) <=>
            Chained(AuditOrder, f) /\ Chained(AuditOrder, r)
                /\ AllBefore(AuditOrder, ToSet(f), ToSet(r))
  BY ONLY <1>2, f \in Seq(Entry), r \in Seq(Entry), ChainedConcat
<1>5. AllBefore(AuditOrder, ToSet(s), ToSet(r)) <=>
          /\ AllBefore(AuditOrder, ToSet(f), ToSet(r))
          /\ AllBefore(AuditOrder, {e}, ToSet(r))
  BY ONLY <1>2 DEF AllBefore
<1>6. QED
  <2>1. PICK p, q : p = f \o r /\ q = s \o r
    OBVIOUS
  <2>2. Within(f, r, e, p, q)
    BY ONLY <1>2, <1>3, <1>4, <1>5, <2>1 DEF Within
  <2>3. QED
    BY ONLY <1>1, <2>1, <2>2

\* The elements of a sequence of entries are entries.
LEMMA LineTyped ==
    ASSUME NEW p \in Seq(Entry)
    PROVE  ToSet(p) \subseteq Entry
BY DEF ToSet

\* An entry is queued: it has the greatest number.
LEMMA QueuedKeeps ==
    ASSUME NEW p, NEW d, NEW x, NEW count \in Nat, LogInv(p, d, x, count)
    PROVE  LogInv(p \o <<[n |-> count + 1, past |-> FALSE]>>, d, x, count + 1)
<1>1. PICK e : e = [n |-> count + 1, past |-> FALSE]
  OBVIOUS
<1>2. e \in Entry /\ e.n = count + 1
  BY <1>1 DEF Entry
<1>3. p \in Seq(Entry) /\ Chained(AuditOrder, p) /\ \A a \in ToSet(p) : a.n \in 1 .. count
  BY DEF LogInv, Lined
<1>4. PICK q : q = p \o <<e>>
  OBVIOUS
<1>5. /\ q \in Seq(Entry) /\ ToSet(q) = ToSet(p) \cup {e}
      /\ Chained(AuditOrder, q) <=>
             Chained(AuditOrder, p) /\ AllBefore(AuditOrder, ToSet(p), {e})
  BY ONLY <1>2, <1>3, <1>4, OneMore
<1>6. AllBefore(AuditOrder, ToSet(p), {e})
  <2>1. ASSUME NEW a \in ToSet(p)
        PROVE  <<a, e>> \in AuditOrder
    <3>1. a \in Entry /\ a.n \in 1 .. count
      BY <1>3, LineTyped
    <3>2. a.n # e.n /\ a.n < e.n
      BY <1>2, <3>1
    <3>3. QED
      BY ONLY <1>2, <3>1, <3>2 DEF AuditOrder
  <2>2. QED
    BY <2>1 DEF AllBefore
<1>7. Lined(q, count + 1)
  <2>1. ASSUME NEW a \in ToSet(q)
        PROVE  a.n \in 1 .. count + 1
    BY <1>2, <1>3, <1>5
  <2>2. QED
    BY <1>3, <1>5, <1>6, <2>1 DEF Lined
<1>8. Apart(q, d, count + 1)
  <2>1. ASSUME NEW l \in Loggers, d[l] # <<>>
        PROVE  /\ Head(d[l]) \in Entry /\ Head(d[l]).past /\ Head(d[l]).n \in 1 .. count + 1
               /\ \A a \in ToSet(q) : a.n # Head(d[l]).n
    <3>1. /\ Head(d[l]) \in Entry /\ Head(d[l]).past /\ Head(d[l]).n \in 1 .. count
          /\ \A a \in ToSet(p) : a.n # Head(d[l]).n
      BY <2>1 DEF LogInv, Apart
    <3>2. Head(d[l]).n # e.n /\ Head(d[l]).n \in 1 .. count + 1
      BY <1>2, <3>1
    <3>3. QED
      BY ONLY <1>5, <3>1, <3>2
  <2>2. QED
    BY ONLY <2>1 DEF Apart
<1>9. Accounted(q, d, x, count + 1)
  <2>1. ASSUME NEW n \in 1 .. count + 1
        PROVE  InLine(q, n) \/ Waits(d, n) \/ IsLost(x, n)
    <3>1. CASE n = count + 1
      BY <1>2, <1>5, <3>1 DEF InLine
    <3>2. CASE n # count + 1
      <4>1. n \in 1 .. count
        BY <3>2
      <4>2. InLine(p, n) \/ Waits(d, n) \/ IsLost(x, n)
        BY <4>1 DEF LogInv, Accounted
      <4>3. InLine(p, n) => InLine(q, n)
        BY <1>5 DEF InLine
      <4>4. QED
        BY <4>2, <4>3
    <3>3. QED
      BY <3>1, <3>2
  <2>2. QED
    BY <2>1 DEF Accounted
<1>10. LogInv(q, d, x, count + 1)
  BY <1>7, <1>8, <1>9 DEF LogInv
<1>11. QED
  BY ONLY <1>1, <1>4, <1>10

\* An entry that finds the queue full stays with its caller.
LEMMA PastKeeps ==
    ASSUME NEW p, NEW d, NEW x, NEW count \in Nat, LogInv(p, d, x, count),
           DOMAIN d = Loggers, NEW l \in Loggers, d[l] = <<>>
    PROVE  LogInv(p, [d EXCEPT ![l] = <<[n |-> count + 1, past |-> TRUE]>>], x, count + 1)
<1>1. PICK e : e = [n |-> count + 1, past |-> TRUE]
  OBVIOUS
<1>2. e \in Entry /\ e.n = count + 1 /\ e.past
  BY <1>1 DEF Entry
<1>3. PICK t : t = [d EXCEPT ![l] = <<e>>]
  OBVIOUS
<1>4. /\ t[l] # <<>> /\ Head(t[l]) = e
      /\ \A k \in Loggers : k # l => t[k] = d[k]
  BY <1>3
<1>5. p \in Seq(Entry) /\ Chained(AuditOrder, p) /\ \A a \in ToSet(p) : a.n \in 1 .. count
  BY DEF LogInv, Lined
<1>6. Lined(p, count + 1)
  BY <1>5 DEF Lined
<1>7. ASSUME NEW k \in Loggers, d[k] # <<>>
      PROVE  /\ Head(d[k]) \in Entry /\ Head(d[k]).past /\ Head(d[k]).n \in 1 .. count
             /\ \A a \in ToSet(p) : a.n # Head(d[k]).n
  BY <1>7 DEF LogInv, Apart
<1>8. Apart(p, t, count + 1)
  <2>1. ASSUME NEW k \in Loggers, t[k] # <<>>
        PROVE  /\ Head(t[k]) \in Entry /\ Head(t[k]).past /\ Head(t[k]).n \in 1 .. count + 1
               /\ \A a \in ToSet(p) : a.n # Head(t[k]).n
    <3>1. CASE k = l
      BY <1>2, <1>4, <1>5, <3>1
    <3>2. CASE k # l
      BY <1>4, <1>7, <2>1, <3>2
    <3>3. QED
      BY <3>1, <3>2
  <2>2. QED
    BY ONLY <2>1 DEF Apart
<1>9. Distinct(t)
  <2>1. ASSUME NEW k \in Loggers, NEW j \in Loggers, k # j, t[k] # <<>>, t[j] # <<>>
        PROVE  Head(t[k]).n # Head(t[j]).n
    <3>1. CASE k # l /\ j # l
      BY <1>4, <2>1, <3>1 DEF LogInv, Distinct
    <3>2. CASE k = l
      <4>1. j # l /\ t[j] = d[j] /\ Head(d[j]).n \in 1 .. count
        BY <1>4, <1>7, <2>1, <3>2
      <4>2. QED
        BY <1>2, <1>4, <3>2, <4>1
    <3>3. CASE j = l
      <4>1. k # l /\ t[k] = d[k] /\ Head(d[k]).n \in 1 .. count
        BY <1>4, <1>7, <2>1, <3>3
      <4>2. QED
        BY <1>2, <1>4, <3>3, <4>1
    <3>4. QED
      BY <3>1, <3>2, <3>3
  <2>2. QED
    BY ONLY <2>1 DEF Distinct
<1>10. Accounted(p, t, x, count + 1)
  <2>1. ASSUME NEW n \in 1 .. count + 1
        PROVE  InLine(p, n) \/ Waits(t, n) \/ IsLost(x, n)
    <3>1. CASE n = count + 1
      BY <1>2, <1>4, <3>1 DEF Waits
    <3>2. CASE n # count + 1
      <4>1. n \in 1 .. count
        BY <3>2
      <4>2. InLine(p, n) \/ Waits(d, n) \/ IsLost(x, n)
        BY <4>1 DEF LogInv, Accounted
      <4>3. Waits(d, n) => Waits(t, n)
        BY <1>4 DEF Waits
      <4>4. QED
        BY <4>2, <4>3
    <3>3. QED
      BY <3>1, <3>2
  <2>2. QED
    BY <2>1 DEF Accounted
<1>11. LogInv(p, t, x, count + 1)
  BY <1>6, <1>8, <1>9, <1>10 DEF LogInv
<1>12. QED
  BY ONLY <1>1, <1>3, <1>11

\* Where a caller's entry goes to the file, or is lost, the others stay.
LEMMA CallerFree ==
    ASSUME NEW p, NEW q, NEW d, NEW x, NEW y, NEW count \in Nat, LogInv(p, d, x, count),
           DOMAIN d = Loggers, NEW l \in Loggers, d[l] # <<>>, Lined(q, count),
           ToSet(q) \subseteq ToSet(p) \cup {Head(d[l])},
           \A n : InLine(p, n) \/ Head(d[l]).n = n => InLine(q, n) \/ IsLost(y, n),
           x \subseteq y
    PROVE  LogInv(q, [d EXCEPT ![l] = <<>>], y, count)
<1>1. PICK t : t = [d EXCEPT ![l] = <<>>]
  OBVIOUS
<1>2. t[l] = <<>> /\ \A k \in Loggers : k # l => t[k] = d[k]
  BY <1>1
<1>3. Apart(p, d, count) /\ Distinct(d) /\ Accounted(p, d, x, count)
  BY DEF LogInv
<1>4. ASSUME NEW k \in Loggers, t[k] # <<>>
      PROVE  k # l /\ d[k] # <<>> /\ t[k] = d[k]
  BY <1>2, <1>4
<1>5. Apart(q, t, count)
  <2>1. ASSUME NEW k \in Loggers, t[k] # <<>>
        PROVE  /\ Head(t[k]) \in Entry /\ Head(t[k]).past /\ Head(t[k]).n \in 1 .. count
               /\ \A a \in ToSet(q) : a.n # Head(t[k]).n
    <3>1. k # l /\ d[k] # <<>> /\ t[k] = d[k]
      BY <1>4, <2>1
    <3>2. /\ Head(d[k]) \in Entry /\ Head(d[k]).past /\ Head(d[k]).n \in 1 .. count
          /\ \A a \in ToSet(p) : a.n # Head(d[k]).n
      BY ONLY <1>3, <3>1, k \in Loggers DEF Apart
    <3>3. Head(d[l]).n # Head(d[k]).n
      BY <1>3, <3>1 DEF Distinct
    <3>4. QED
      BY <3>1, <3>2, <3>3
  <2>2. QED
    BY ONLY <2>1 DEF Apart
<1>6. Distinct(t)
  BY <1>3, <1>4 DEF Distinct
<1>7. Accounted(q, t, y, count)
  <2>1. ASSUME NEW n \in 1 .. count
        PROVE  InLine(q, n) \/ Waits(t, n) \/ IsLost(y, n)
    <3>1. InLine(p, n) \/ Waits(d, n) \/ IsLost(x, n)
      BY <1>3 DEF Accounted
    <3>2. CASE InLine(p, n)
      BY <3>2
    <3>3. CASE Waits(d, n)
      <4>1. PICK k \in Loggers : d[k] # <<>> /\ Head(d[k]).n = n
        BY <3>3 DEF Waits
      <4>2. CASE k = l
        BY <4>1, <4>2
      <4>3. CASE k # l
        BY <1>2, <4>1, <4>3 DEF Waits
      <4>4. QED
        BY <4>2, <4>3
    <3>4. CASE IsLost(x, n)
      BY <3>4 DEF IsLost
    <3>5. QED
      BY <3>1, <3>2, <3>3, <3>4
  <2>2. QED
    BY <2>1 DEF Accounted
<1>8. LogInv(q, t, y, count)
  BY <1>5, <1>6, <1>7 DEF LogInv
<1>9. QED
  BY ONLY <1>1, <1>8

\* An entry written past the queue lands between the file and the rest.
LEMMA WrittenKeeps ==
    ASSUME NEW f \in Seq(Entry), NEW r \in Seq(Entry), NEW d, NEW x, NEW count \in Nat,
           LogInv(f \o r, d, x, count),
           DOMAIN d = Loggers, NEW l \in Loggers, d[l] # <<>>
    PROVE  LogInv((f \o <<Head(d[l])>>) \o r, [d EXCEPT ![l] = <<>>], x, count)
<1>1. PICK e : e = Head(d[l])
  OBVIOUS
<1>2. PICK p, q : p = f \o r /\ q = (f \o <<e>>) \o r
  OBVIOUS
<1>3. /\ e \in Entry /\ e.past /\ e.n \in 1 .. count /\ \A a \in ToSet(p) : a.n # e.n
      /\ Chained(AuditOrder, p) /\ \A a \in ToSet(p) : a.n \in 1 .. count
      /\ LogInv(p, d, x, count)
  BY <1>1, <1>2 DEF LogInv, Lined, Apart
<1>4. Within(f, r, e, p, q)
  BY ONLY <1>2, <1>3, f \in Seq(Entry), r \in Seq(Entry), OneWithin
<1>5. ASSUME NEW a \in ToSet(p)
      PROVE  <<a, e>> \in AuditOrder /\ <<e, a>> \in AuditOrder
  <2>1. a \in Entry /\ a.n # e.n
    BY <1>3, <1>4, LineTyped DEF Within
  <2>2. QED
    BY ONLY <1>3, <2>1 DEF AuditOrder
<1>6. AllBefore(AuditOrder, ToSet(f), {e}) /\ AllBefore(AuditOrder, {e}, ToSet(r))
  BY <1>4, <1>5 DEF AllBefore, Within
<1>7. Lined(q, count)
  <2>1. \A a \in ToSet(q) : a.n \in 1 .. count
    BY <1>3, <1>4 DEF Within
  <2>2. QED
    BY ONLY <1>3, <1>4, <1>6, <2>1 DEF Lined, Within
<1>8. \A n : InLine(p, n) \/ e.n = n => InLine(q, n) \/ IsLost(x, n)
  BY <1>4 DEF InLine, Within
<1>9. LogInv(q, [d EXCEPT ![l] = <<>>], x, count)
  BY ONLY <1>1, <1>3, <1>4, <1>7, <1>8, CallerFree, count \in Nat, DOMAIN d = Loggers,
          l \in Loggers, d[l] # <<>> DEF Within
<1>10. QED
  BY ONLY <1>1, <1>2, <1>9

\* An entry whose write past the queue fails.
LEMMA LostKeeps ==
    ASSUME NEW p, NEW d, NEW x, NEW count \in Nat, LogInv(p, d, x, count),
           DOMAIN d = Loggers, NEW l \in Loggers, d[l] # <<>>
    PROVE  LogInv(p, [d EXCEPT ![l] = <<>>], x \cup {Head(d[l])}, count)
<1>1. PICK y : y = x \cup {Head(d[l])}
  OBVIOUS
<1>2. \A n : InLine(p, n) \/ Head(d[l]).n = n => InLine(p, n) \/ IsLost(y, n)
  BY <1>1 DEF IsLost
<1>3. Lined(p, count) /\ x \subseteq y /\ ToSet(p) \subseteq ToSet(p) \cup {Head(d[l])}
  BY <1>1 DEF LogInv
<1>4. LogInv(p, [d EXCEPT ![l] = <<>>], y, count)
  BY ONLY <1>2, <1>3, CallerFree, count \in Nat, DOMAIN d = Loggers,
          l \in Loggers, d[l] # <<>>, LogInv(p, d, x, count)
<1>5. QED
  BY ONLY <1>1, <1>4

\* An entry of the list whose write fails.
LEMMA DroppedKeeps ==
    ASSUME NEW f \in Seq(Entry), NEW r \in Seq(Entry), NEW e \in Entry, NEW d, NEW x,
           NEW count \in Nat, LogInv((f \o <<e>>) \o r, d, x, count)
    PROVE  LogInv(f \o r, d, x \cup {e}, count)
<1>1. PICK p, q, y : p = (f \o <<e>>) \o r /\ q = f \o r /\ y = x \cup {e}
  OBVIOUS
<1>2. /\ p \in Seq(Entry) /\ q \in Seq(Entry) /\ ToSet(p) = ToSet(q) \cup {e}
      /\ Chained(AuditOrder, p) => Chained(AuditOrder, q)
  <2>1. Within(f, r, e, q, p)
    BY ONLY <1>1, f \in Seq(Entry), r \in Seq(Entry), e \in Entry, OneWithin
  <2>2. QED
    BY ONLY <2>1 DEF Within
<1>3. Lined(p, count) /\ Apart(p, d, count) /\ Distinct(d) /\ Accounted(p, d, x, count)
  BY <1>1 DEF LogInv
<1>4. Lined(q, count) /\ Apart(q, d, count)
  BY ONLY <1>2, <1>3 DEF Lined, Apart
<1>5. Accounted(q, d, y, count)
  <2>1. ASSUME NEW n
        PROVE  InLine(p, n) \/ IsLost(x, n) => InLine(q, n) \/ IsLost(y, n)
    BY ONLY <1>1, <1>2 DEF InLine, IsLost
  <2>2. QED
    BY ONLY <1>3, <2>1 DEF Accounted
<1>6. QED
  BY ONLY <1>1, <1>3, <1>4, <1>5 DEF LogInv

-----------------------------------------------------------------------------
(* Every action of the log keeps the invariant.                             *)

LEMMA EntryConcat ==
    ASSUME NEW s \in Seq(Entry), NEW t \in Seq(Entry), NEW u \in Seq(Entry)
    PROVE  s \o (t \o u) = (s \o t) \o u
BY ConcatAssociative

\* The line from its four parts, and what follows the first of them.
Line(f, b, t, c) == ((f \o b) \o t) \o c
Rest(b, t, c) == (b \o t) \o c
Cut(f, b, t, c) ==
    Rest(b, t, c) \in Seq(Entry) /\ Line(f, b, t, c) = f \o Rest(b, t, c)

LEMMA PathCut ==
    ASSUME NEW f \in Seq(Entry), NEW b \in Seq(Entry), NEW t \in Seq(Entry),
           NEW c \in Seq(Entry)
    PROVE  Cut(f, b, t, c)
<1>1. PICK bt, r : bt = b \o t /\ r = bt \o c
  OBVIOUS
<1>2. bt \in Seq(Entry) /\ r \in Seq(Entry)
  BY <1>1, ConcatProperties
<1>3. f \o (b \o t) = (f \o b) \o t
  BY EntryConcat, Zenon
<1>4. f \o (bt \o c) = (f \o bt) \o c
  BY <1>2, EntryConcat, Zenon
<1>5. QED
  BY ONLY <1>1, <1>2, <1>3, <1>4 DEF Line, Rest, Cut

LEMMA PathIsLine == Path = Line(file, bufferList, taken, buffer)
BY DEF Path, Line

\* Moving the first of a queue to the end of the one before it changes nothing.
LEMMA Moved ==
    ASSUME NEW s \in Seq(Entry), NEW t \in Seq(Entry), t # <<>>
    PROVE  /\ Head(t) \in Entry /\ Tail(t) \in Seq(Entry)
           /\ s \o t = (s \o <<Head(t)>>) \o Tail(t)
<1>1. Head(t) \in Entry /\ Tail(t) \in Seq(Entry)
  OBVIOUS
<1>2. PICK h, r : h = <<Head(t)>> /\ r = Tail(t)
  OBVIOUS
<1>3. h \in Seq(Entry) /\ r \in Seq(Entry) /\ t = h \o r
  BY <1>1, <1>2
<1>4. s \o (h \o r) = (s \o h) \o r
  BY <1>3, EntryConcat, Zenon
<1>5. QED
  BY ONLY <1>1, <1>2, <1>3, <1>4

LEMMA LogKeeps ==
    ASSUME AuditInv, NEW l \in Loggers, Log(l)
    PROVE  AuditInv'
<1>1. /\ buffer \in Seq(Entry) /\ bufferList \in Seq(Entry) /\ taken \in Seq(Entry)
      /\ file \in Seq(Entry) /\ DOMAIN direct = Loggers /\ logged \in Nat
      /\ state \in {"open", "closing", "closed"} /\ (state # "closed" => lost = {})
      /\ LogInv(Path, direct, lost, logged)
  BY DEF AuditInv, AuditTyped
<1>2. UNCHANGED <<bufferList, taken, file, state, lost>> /\ logged' = logged + 1
      /\ logged' \in Nat
  BY <1>1 DEF Log
<1>3. CASE Len(buffer) < BufferSize
  <2>1. PICK e : e = [n |-> logged + 1, past |-> FALSE]
    OBVIOUS
  <2>2. e \in Entry
    BY <1>1, <2>1 DEF Entry
  <2>3. buffer' = Append(buffer, e) /\ direct' = direct
    BY <1>2, <1>3, <2>1 DEF Log
  <2>4. buffer' = buffer \o <<e>> /\ buffer' \in Seq(Entry)
    BY <1>1, <2>2, <2>3, AppendIsConcat
  <2>5. Path' = Path \o <<e>>
    <3>1. PICK s : s = (file \o bufferList) \o taken
      OBVIOUS
    <3>2. s \in Seq(Entry) /\ <<e>> \in Seq(Entry) /\ buffer \in Seq(Entry)
      BY <1>1, <2>2, <3>1, ConcatProperties
    <3>3. s \o (buffer \o <<e>>) = (s \o buffer) \o <<e>>
      BY ONLY <3>2, EntryConcat, Zenon
    <3>4. QED
      BY <1>2, <2>4, <3>1, <3>3 DEF Path
  <2>6. LogInv(Path \o <<e>>, direct, lost, logged + 1)
    BY ONLY <1>1, <2>1, QueuedKeeps
  <2>7. LogInv(Path, direct, lost, logged)'
    BY ONLY <1>2, <2>3, <2>5, <2>6 DEF LogInv
  <2>8. QED
    BY <1>1, <1>2, <2>3, <2>4, <2>7 DEF AuditInv, AuditTyped
<1>4. CASE ~ (Len(buffer) < BufferSize)
  <2>1. /\ direct' = [direct EXCEPT ![l] = <<[n |-> logged + 1, past |-> TRUE]>>]
        /\ buffer' = buffer /\ direct[l] = <<>>
    BY <1>2, <1>4 DEF Log
  <2>2. Path' = Path
    BY <1>2, <2>1 DEF Path
  <2>3. LogInv(Path, [direct EXCEPT ![l] = <<[n |-> logged + 1, past |-> TRUE]>>],
               lost, logged + 1)
    BY ONLY <1>1, <2>1, l \in Loggers, PastKeeps
  <2>4. LogInv(Path, direct, lost, logged)'
    BY ONLY <1>2, <2>1, <2>2, <2>3 DEF LogInv
  <2>5. QED
    BY <1>1, <1>2, <2>1, <2>4 DEF AuditInv, AuditTyped
<1>5. QED
  BY <1>3, <1>4

LEMMA WriteDirectKeeps ==
    ASSUME AuditInv, NEW l \in Loggers, WriteDirect(l)
    PROVE  AuditInv'
<1>1. /\ buffer \in Seq(Entry) /\ bufferList \in Seq(Entry) /\ taken \in Seq(Entry)
      /\ file \in Seq(Entry) /\ DOMAIN direct = Loggers /\ logged \in Nat
      /\ state \in {"open", "closing", "closed"} /\ (state # "closed" => lost = {})
      /\ LogInv(Path, direct, lost, logged)
  BY DEF AuditInv, AuditTyped
<1>2. /\ UNCHANGED <<buffer, bufferList, taken, state, logged>>
      /\ direct' = [direct EXCEPT ![l] = <<>>] /\ direct[l] # <<>>
  BY DEF WriteDirect
<1>3. PICK e : e = Head(direct[l])
  OBVIOUS
<1>4. e \in Entry
  BY <1>1, <1>2, <1>3 DEF LogInv, Apart
<1>5. WriteEvent(e)
  BY <1>3 DEF WriteDirect
<1>6. CASE state = "closed"
  <2>1. lost' = lost \cup {e} /\ file' = file
    BY <1>5, <1>6 DEF WriteEvent
  <2>2. Path' = Path
    BY <1>2, <2>1 DEF Path
  <2>3. LogInv(Path, [direct EXCEPT ![l] = <<>>], lost \cup {e}, logged)
    BY ONLY <1>1, <1>2, <1>3, l \in Loggers, LostKeeps
  <2>4. LogInv(Path, direct, lost, logged)'
    BY ONLY <1>2, <2>1, <2>2, <2>3 DEF LogInv
  <2>5. QED
    BY <1>1, <1>2, <1>6, <2>1, <2>4 DEF AuditInv, AuditTyped
<1>7. CASE state # "closed"
  <2>1. lost' = lost /\ file' = Append(file, e)
    BY <1>5, <1>7 DEF WriteEvent
  <2>2. file' = file \o <<e>> /\ file' \in Seq(Entry)
    BY <1>1, <1>4, <2>1, AppendIsConcat
  <2>3. PICK r, f : r = Rest(bufferList, taken, buffer) /\ f = file \o <<e>>
    OBVIOUS
  <2>4. r \in Seq(Entry) /\ Path = file \o r
    <3>1. Cut(file, bufferList, taken, buffer)
      BY ONLY <1>1, PathCut
    <3>2. QED
      BY ONLY <2>3, <3>1, PathIsLine DEF Cut
  <2>5. Path' = (file \o <<e>>) \o r
    <3>1. Path' = Line(f, bufferList, taken, buffer)
      BY <1>2, <2>2, <2>3 DEF Path, Line
    <3>2. f \in Seq(Entry)
      BY ONLY <2>2, <2>3
    <3>3. Cut(f, bufferList, taken, buffer)
      BY ONLY <1>1, <3>2, PathCut
    <3>4. QED
      BY ONLY <2>3, <3>1, <3>3 DEF Cut
  <2>6. LogInv((file \o <<e>>) \o r, [direct EXCEPT ![l] = <<>>], lost, logged)
    BY ONLY <1>1, <1>2, <1>3, <2>4, l \in Loggers, WrittenKeeps
  <2>7. LogInv(Path, direct, lost, logged)'
    BY ONLY <1>2, <2>1, <2>5, <2>6 DEF LogInv
  <2>8. QED
    BY <1>1, <1>2, <2>1, <2>2, <2>7 DEF AuditInv, AuditTyped
<1>8. QED
  BY <1>6, <1>7

LEMMA FlushKeeps ==
    ASSUME AuditInv, Flush
    PROVE  AuditInv'
<1>1. /\ buffer \in Seq(Entry) /\ bufferList \in Seq(Entry) /\ taken \in Seq(Entry)
      /\ file \in Seq(Entry) /\ DOMAIN direct = Loggers /\ logged \in Nat
      /\ state \in {"open", "closing", "closed"} /\ (state # "closed" => lost = {})
      /\ LogInv(Path, direct, lost, logged)
  BY DEF AuditInv, AuditTyped
<1>2. /\ UNCHANGED <<buffer, taken, direct, state, logged>>
      /\ bufferList # <<>> /\ bufferList' = Tail(bufferList)
  BY DEF Flush
<1>3. PICK e, b : e = Head(bufferList) /\ b = Tail(bufferList)
  OBVIOUS
<1>4. e \in Entry /\ b \in Seq(Entry) /\ file \o bufferList = (file \o <<e>>) \o b
  BY <1>1, <1>2, <1>3, Moved
<1>5. PICK f, r : f = file \o <<e>> /\ r = Rest(b, taken, buffer)
  OBVIOUS
<1>6. f \in Seq(Entry) /\ r \in Seq(Entry)
  <2>1. f \in Seq(Entry)
    BY ONLY <1>1, <1>4, <1>5, OneMore
  <2>2. Cut(f, b, taken, buffer)
    BY ONLY <1>1, <1>4, <2>1, PathCut
  <2>3. QED
    BY ONLY <1>5, <2>1, <2>2 DEF Cut
<1>7. Path = f \o r
  <2>1. Path = Line(f, b, taken, buffer)
    BY <1>4, <1>5 DEF Path, Line
  <2>2. Cut(f, b, taken, buffer)
    BY ONLY <1>1, <1>4, <1>6, PathCut
  <2>3. QED
    BY ONLY <1>5, <2>1, <2>2 DEF Cut
<1>8. bufferList' = b /\ WriteEvent(e)
  BY <1>2, <1>3 DEF Flush
<1>9. CASE state = "closed"
  <2>1. lost' = lost \cup {e} /\ file' = file
    BY <1>8, <1>9 DEF WriteEvent
  <2>2. Path' = file \o r
    <3>1. Path' = Line(file, b, taken, buffer)
      BY <1>2, <1>8, <2>1 DEF Path, Line
    <3>2. Cut(file, b, taken, buffer)
      BY ONLY <1>1, <1>4, PathCut
    <3>3. QED
      BY ONLY <1>5, <3>1, <3>2 DEF Cut
  <2>3. LogInv(file \o r, direct, lost \cup {e}, logged)
    <3>1. LogInv((file \o <<e>>) \o r, direct, lost, logged)
      BY ONLY <1>1, <1>5, <1>7
    <3>2. QED
      BY ONLY <1>1, <1>4, <1>6, <3>1, DroppedKeeps
  <2>4. LogInv(Path, direct, lost, logged)'
    BY ONLY <1>2, <2>1, <2>2, <2>3 DEF LogInv
  <2>5. QED
    BY <1>1, <1>2, <1>4, <1>8, <1>9, <2>1, <2>4 DEF AuditInv, AuditTyped
<1>10. CASE state # "closed"
  <2>1. lost' = lost /\ file' = Append(file, e)
    BY <1>8, <1>10 DEF WriteEvent
  <2>2. file' = f
    BY <1>1, <1>4, <1>5, <2>1, AppendIsConcat
  <2>3. Path' = f \o r
    <3>1. Path' = Line(f, b, taken, buffer)
      BY <1>2, <1>8, <2>2 DEF Path, Line
    <3>2. Cut(f, b, taken, buffer)
      BY ONLY <1>1, <1>4, <1>6, PathCut
    <3>3. QED
      BY ONLY <1>5, <3>1, <3>2 DEF Cut
  <2>4. LogInv(Path, direct, lost, logged)'
    BY ONLY <1>1, <1>2, <1>7, <2>1, <2>3 DEF LogInv
  <2>5. QED
    BY <1>1, <1>2, <1>4, <1>6, <1>8, <2>1, <2>2, <2>4 DEF AuditInv, AuditTyped
<1>11. QED
  BY <1>9, <1>10

\* Receive and List move an entry on.
LEMMA PassOnKeeps ==
    ASSUME AuditInv, Receive \/ List
    PROVE  AuditInv'
<1>1. /\ buffer \in Seq(Entry) /\ bufferList \in Seq(Entry) /\ taken \in Seq(Entry)
      /\ file \in Seq(Entry)
  BY DEF AuditInv, AuditTyped
<1>2. UNCHANGED <<direct, file, state, logged, lost>>
  BY DEF Receive, List
<1>3. /\ Path' = Path
      /\ buffer' \in Seq(Entry) /\ bufferList' \in Seq(Entry) /\ taken' \in Seq(Entry)
  <2>1. PICK s : s = file \o bufferList
    OBVIOUS
  <2>2. s \in Seq(Entry)
    BY <1>1, <2>1, ConcatProperties
  <2>3. CASE Receive
    <3>1. /\ taken = <<>> /\ buffer # <<>> /\ taken' = <<Head(buffer)>>
          /\ buffer' = Tail(buffer) /\ bufferList' = bufferList /\ file' = file
      BY <2>3 DEF Receive
    <3>2. /\ Head(buffer) \in Entry /\ Tail(buffer) \in Seq(Entry)
          /\ s \o buffer = (s \o <<Head(buffer)>>) \o Tail(buffer)
      BY <1>1, <2>2, <3>1, Moved
    <3>3. s \o taken = s
      BY <2>2, <3>1, ConcatEmptySeq
    <3>4. Path = s \o buffer /\ Path' = (s \o <<Head(buffer)>>) \o Tail(buffer)
      BY <2>1, <3>1, <3>3 DEF Path
    <3>5. taken' \in Seq(Entry)
      BY <3>1, <3>2
    <3>6. QED
      BY <1>1, <3>1, <3>2, <3>4, <3>5
  <2>4. CASE List
    <3>1. /\ bufferList' = bufferList \o taken /\ taken' = <<>>
          /\ buffer' = buffer /\ file' = file
      BY <2>4 DEF List
    <3>2. PICK b : b = bufferList \o taken
      OBVIOUS
    <3>3. /\ b \in Seq(Entry) /\ file \o b \in Seq(Entry)
          /\ file \in Seq(Entry) /\ bufferList \in Seq(Entry) /\ taken \in Seq(Entry)
      BY <1>1, <3>2, ConcatProperties
    <3>9. file \o (bufferList \o taken) = (file \o bufferList) \o taken
      BY ONLY <3>3, EntryConcat, Zenon
    <3>4. file \o b = (file \o bufferList) \o taken
      BY ONLY <3>2, <3>9
    <3>5. (file \o b) \o <<>> = file \o b
      BY <3>3, ConcatEmptySeq
    <3>6. Path' = Path
      BY <3>1, <3>2, <3>4, <3>5 DEF Path
    <3>7. <<>> \in Seq(Entry)
      OBVIOUS
    <3>8. QED
      BY <1>1, <3>1, <3>2, <3>3, <3>6, <3>7
  <2>5. QED
    BY <2>3, <2>4
<1>4. LogInv(Path, direct, lost, logged)'
  BY <1>2, <1>3 DEF AuditInv, LogInv
<1>5. QED
  BY <1>2, <1>3, <1>4 DEF AuditInv, AuditTyped

LEMMA AuditKeeps == AuditInv /\ [AuditNext]_auditVars => AuditInv'
<1> SUFFICES ASSUME AuditInv, [AuditNext]_auditVars
             PROVE  AuditInv'
  OBVIOUS
<1>1. ASSUME UNCHANGED <<buffer, bufferList, taken, direct, file, logged, lost>>,
             \/ state' = state
             \/ (state' \in {"closing", "closed"} /\ state \in {"open", "closing"})
      PROVE  AuditInv'
  <2>1. Path' = Path
    BY <1>1 DEF Path
  <2>2. LogInv(Path, direct, lost, logged)'
    BY <1>1, <2>1 DEF AuditInv, LogInv
  <2>3. QED
    BY <1>1, <2>2 DEF AuditInv, AuditTyped
<1>2. CASE FlushTick \/ Close \/ Closed \/ UNCHANGED auditVars
  BY <1>1, <1>2 DEF FlushTick, Close, Closed, auditVars
<1>3. QED
  BY <1>2, LogKeeps, WriteDirectKeeps, FlushKeeps, PassOnKeeps DEF AuditNext, Writer

(* Property AuditInOrder, for any number of callers, any capacity of the      *)
(* queue and any length of the list: no entry is lost before the log is      *)
(* closed or written twice, and what goes through the queue reaches the file *)
(* in the order it was logged in (audit.go:105-172, 174-185).                *)
THEOREM AuditInOrderAlways == AuditSpec => []AuditInOrder
<1>1. AuditInit => AuditInv
  <2> SUFFICES ASSUME AuditInit PROVE AuditInv
    OBVIOUS
  <2>1. <<>> \in Seq(Entry) /\ <<>> \o <<>> = <<>>
    BY EmptySeq, ConcatEmptySeq
  <2>2. Path = <<>>
    BY <2>1 DEF AuditInit, Path
  <2>3. AuditTyped /\ direct = [l \in Loggers |-> <<>>] /\ logged = 0 /\ lost = {}
    BY <2>1 DEF AuditInit, AuditTyped
  <2>4. Lined(<<>>, 0)
    BY <2>1, ChainedSingle DEF Lined
  <2>5. LogInv(Path, direct, lost, logged)
    BY <2>2, <2>3, <2>4 DEF LogInv, Apart, Distinct, Accounted
  <2>6. QED
    BY <2>3, <2>5 DEF AuditInv
<1>2. AuditInv => AuditInOrder
  <2> SUFFICES ASSUME AuditInv PROVE AuditInOrder
    OBVIOUS
  <2>1. LogInv(Path, direct, lost, logged)
    BY DEF AuditInv
  <2>2. ASSUME NEW i \in DOMAIN Path, NEW j \in DOMAIN Path, i < j
        PROVE  /\ Path[i] # Path[j]
               /\ ~Path[i].past /\ ~Path[j].past => Path[i].n < Path[j].n
    <3>1. <<Path[i], Path[j]>> \in AuditOrder
      BY <2>1, <2>2 DEF LogInv, Lined, Chained
    <3>2. QED
      BY <3>1 DEF AuditOrder
  <2>3. ASSUME NEW n \in 1 .. logged
        PROVE  \/ \E i \in DOMAIN Path : Path[i].n = n
               \/ \E l \in Loggers : direct[l] # <<>> /\ Head(direct[l]).n = n
               \/ \E e \in lost : e.n = n
    <3>1. InLine(Path, n) \/ Waits(direct, n) \/ IsLost(lost, n)
      BY <2>1 DEF LogInv, Accounted
    <3>2. QED
      BY <3>1 DEF InLine, Waits, IsLost, ToSet
  <2>4. QED
    BY <2>2, <2>3 DEF AuditInOrder, AuditInv
<1>3. QED
  BY <1>1, <1>2, AuditKeeps, PTL DEF AuditSpec
=============================================================================
