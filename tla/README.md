# match-engine in TLA+

A verification development for `match-engine`, a matching engine for spot and
perpetual-contract markets written in Go: TLA+ modules translated from the
source, TLC configurations that check them on small instances, and theorems
checked by TLAPS for every value of the constants.

## 1. The system

| Part | State it keeps | Operations | Who calls it |
| --- | --- | --- | --- |
| Price level tree (`pkg/orderbook/pricetree.go`) | sorted slice of levels, price -> index map | GetOrCreate, Get, Remove, Best, Clear | order book, engine |
| Order book (`pkg/orderbook/orderbook.go`) | two trees; per level a FIFO queue, an id -> element map, a running volume; index by id, index by user; last price; buffer of deltas | AddOrder, RemoveOrder, UpdateOrderVolume, SetLastPrice, Snapshot, FlushDeltas; each holds `ob.mu` | match engine, gRPC queries, snapshot manager |
| Match engine (`pkg/engine/match_engine.go`) | the book, the armed stops (two trigger maps and two indexes), the paused flag | ProcessOrder (limit, market, iceberg, stop; GTC, IOC, FOK, post-only), CancelOrder, CancelAllOrders, Pause, Resume | engine manager |
| Auction engine (`pkg/engine/auction_engine.go`) | phase, collected orders, result | StartAuction, AddOrder, CancelOrder, EndAuction | engine manager |
| Engine manager (`pkg/engine/manager.go`) | engines, contract engines and auctions by symbol; event and command channels | routing of all the above, EndAuction's hand-over to continuous trading, pauses, AddSymbol and RemoveSymbol | gRPC services, command worker |
| Contract match engine (`pkg/engine/contract_engine.go`) | a spot engine, mark price, TP/SL entries | ProcessContractOrder, ProcessLiquidationOrder, UpdateMarkPrice, TP/SL | engine manager, liquidation engine |
| Position manager (`pkg/position/manager.go`) | positions by user, contract and side; contracts | UpdatePosition, ReducePosition, ClosePosition, UpdateMarkPrice, GetPositionsToLiquidate; each holds `m.mu` | contract engine, liquidation, funding, gRPC |
| Liquidation engine (`pkg/liquidation/engine.go`) | mark prices, two bounded channels | periodic check, liquidatePosition, ProcessLiquidationResult, ADL, UpdateMarkPrice | its own goroutine, contract engine |
| Funding service (`pkg/funding/service.go`) | rates, history, insurance funds | UpdatePrices, rate every minute, settlement every eight hours | two goroutines of its own |
| gRPC services (`internal/server/grpc/`) | none | messages to orders and back, one goroutine per call; subscriptions on the event channel | clients |
| WebSocket hub (`internal/server/websocket/server.go`) | clients, per client its subscriptions and a bounded queue | Run (register, unregister), listenEvents, a reader and a writer per client | connections, event channel |
| NATS publisher (`internal/mq/nats/publisher.go`) | a connection | publishes what it receives from the event channel | an embedding program |
| Audit log (`internal/audit/audit.go`) | bounded queue, list, file | Log, backgroundWriter, Close | `main` makes and closes it |
| Snapshot manager (`internal/snapshot/snapshot.go`) | the last snapshot of each symbol | periodic round, SaveAllSnapshots | its goroutine, `main` |
| `cmd/server/main.go` | | configured symbols, start, signal, shutdown | |

How they interact: gRPC handlers call the engine manager on goroutines of
their own; the manager finds the symbol's engine and calls it; the engine works
on its order book, whose methods lock, and sends an event for every trade and
cancellation into one bounded channel, from which the WebSocket hub, the NATS
publisher and gRPC subscribers all receive. A trade sets the last price, which
triggers stops, which are orders processed - matched, traded, triggering again
- inside the call that made the trade. An administrator's Pause sets an atomic
flag at any moment.

What makes each part correct, and what is hard about it:

- **tree**: sorted, indexed, `Best` extremal, although insertion searches,
  shifts and renumbers. Hard: off-by-one, stale indexes.
- **book**: five structures that must move together; a running volume; depth
  deltas a client can follow. Hard: long sequences of calls; matching changes
  orders behind the book's back, through shared pointers.
- **match engine**: never crossed, price-time priority, no order executed
  beyond its quantity and none lost, correct last price, no missed trigger,
  every call returns. Hard: recursion through the stops, one client order with
  several objects (the order, the clone that rests, the iceberg slice, what a
  stop turned into), a pause between any two steps, progress of the loops.
- **auction and manager**: the equilibrium price; no order lost or executed
  twice when an auction ends; concurrent callers of an engine with no lock.
- **contracts**: profit and loss that add up, a liquidation price that agrees
  with the margin, positions found when they reach it, protection that stands
  and then works. Hard: a call reads a position, matches and changes the
  position in three steps with no lock, while closes, mark prices, the monitor
  and liquidations run; the monitor's orders wait in a channel while positions
  change.
- **manager**: every call looks its engine up under a lock, lets the lock go
  and then works on what it found, while the admin removes, adds and pauses
  symbols: orders that rest must be where a cancellation looks for them, and a
  confirmed pause must hold.
- **event channel and hub**: engine calls wait for room on it, so somebody must
  always receive; a client's queue is sent to by two goroutines and closed by a
  third; clients are slow, or vanish at any moment.
- **messages**: proto3 enums are open and decimals are text; what a client asks
  must be what the engine gets, and what it is told must be what the engine has.
- **snapshots and shutdown**: as new as the last round; a shutdown that ends.
- **audit, funding**: a bounded queue written past when full; settlement that
  hangs on the phase of a ticker.

`PROJECT.json` lists every component with its status, and under `hazards` each
of these difficulties at its line with the properties that cover it.

## 2. Modules

| Module | Models |
| --- | --- |
| `SortedPrices` | abstract: a set of prices and its extremal member |
| `PriceLevelTree` | the slice, the price map and the binary search of one side, one iteration per step; refines `SortedPrices` |
| `PriceLevelTreeProofs` | its theorems |
| `Orders` | order records, the heap of order objects, ids |
| `OrderBook` | the book: each method an operator on the book's variables |
| `BookFeed` | the book driven through its own API, with a client that mirrors the depth |
| `MatchEngine` | the match engine over `OrderBook`: every order type, stops, cancellation, pause |
| `MatchEngineProofs` | its theorems |
| `CallAuction` | the auction engine: collection, opening price, the pairing loop one trade per step |
| `CallAuctionProofs` | its theorems |
| `AuctionMarket` | one symbol with both engines and the manager's EndAuction, which hands unmatched orders to the match engine |
| `Positions` | the position manager: the formulas for margin, liquidation price and profit, and the operations on positions |
| `Liquidation` | the liquidation engine: mark prices, the monitor step by step, both channels, results |
| `Contracts` | the contract engine and its gRPC handlers over both, with several goroutines |
| `ContractsProofs` | its theorems, and those about its messages and about `Funding` |
| `OrderWire` | the enums and decimals of `api/proto` and the tables that translate them |
| `OrderApi` | the order service: every message, what CreateOrder refuses and hands on, every answer |
| `ContractApi` | the same for contract orders, positions, take-profit and stop-loss, liquidation events |
| `OrderProofs` | the theorems about order messages, about orders, stops and the book that need fresh ids, and about `BookFeed` |
| `EventChannel` | the one bounded event channel and the engine calls that send on it |
| `WebSocketHub` | the hub, its broadcasts, and two pumps per client |
| `EventFanout` | the channel with all its receivers: hub, market data subscriptions, NATS publishers |
| `EventFanoutProofs` | the hub's theorems |
| `EngineManager` | the maps from symbols to engines, with calls, commands and the admin at once |
| `SnapshotManager` | the periodic snapshots beside it |
| `Server` | main: serving, the signal, the shutdown |
| `ServerProofs` | the theorems about manager and snapshots, and about `AuditLog` |
| `AuditLog` | the audit log |
| `Funding` | the funding service |
| `SequenceLemmas` | facts about sequences, finite sets and their sums that the proofs share |
| `MC...` | instances for TLC |

`PriceLevelTree` refines `SortedPrices`; `OrderBook` is used by `BookFeed` and
`MatchEngine`, `MatchEngine` by `AuctionMarket` (beside `CallAuction`) and
`OrderApi`; `Contracts` is over `Positions` and `Liquidation` and is used by
`ContractApi`; `EventFanout` is over `WebSocketHub` over `EventChannel`;
`Server` over `SnapshotManager` over `EngineManager`. In `EngineManager` an
engine is its pause and the set of orders that rest in it, which is what the
maps and the pause concern; what an order does inside is `MatchEngine`'s.

### How state and actions correspond to the code

**Objects.** Go shares orders by pointer: the queue, the two indexes and the
caller hold the same object, and matching updates it in place. `order` is a
heap; an order's position in it is its address, and all structures hold
addresses. `root` and `done` in an order record are not in the code: `root` is
the submission an object stems from, `done` what has been executed for that
submission in any role. Properties read them, no guard does.

**Tree.** `StartInsert` is `GetOrCreate` for a new price, `SearchStep` one
iteration of `findInsertPosition`, `FinishInsert` the shift, the store and
`rebuildPriceMap`. In `OrderBook` a side is a map from price to level, with
`BestPrices` for `Best()`: that the slice behaves so is what the tree's
refinement theorem shows.

**Book.** A method holds `ob.mu` throughout, so it is one atomic operator.
`AddOrder`, `RemoveOrder` and `UpdateOrderVolume` include the delta they
record, with its action. They read `order'`, because the engine changes an
order before it calls them; this is why a level keeps in its volume what its
front order's last fill took (see findings).

**Engine.** A call is a stack of frames: `MatchFrame` is a matching loop in
progress, `TriggerFrame` a loop of `CheckTriggers`, `IcebergFrame` an iceberg
waiting for its slice, `CancelFrame` a `CancelAllOrders`. `Submit` starts a
call (`CreateOrder`, then `ProcessOrder` up to its first loop), `MatchStep` is
one iteration (`matchOrders` and the removal of a filled maker), `FinishMatch`
everything after the loop up to the start of the triggers, `VisitStop` one
entry of a trigger loop, in any order as Go's map iteration, `EndRange` the
end of one. `Pause` and `Resume` interleave with all of them. The model takes
calls one at a time. The program does not: handlers call an engine from their
own goroutines and `MatchEngine` has no lock, so two takers may read the same
front order and both trade all of it, and a level may be removed under an order
just added. Nothing the engine's properties say survives that, so they are
claimed for one call at a time on a symbol.

**Auction.** Every method holds `e.mu`; `StartAuction`, `AddOrder`,
`CancelOrder` and `Reset` are one action each. EndAuction is `BeginEmpty` or
`BeginMatch` (opening price, sorting, the two filtered lists), one `Pair` per
iteration of the loop, `EndMatch`; its locals `open`, `matchable`, `next`,
`volume` and `unmatched` are variables for the time. `CalculateOpenPrice`
follows the code's search: the first of the ascending prices with the greatest
volume. In the program nothing but tests calls the engine's AddOrder,
CancelOrder and Reset yet; they are modelled as the API they are.

`AuctionMarket` puts it beside the match engine on one heap, as
`EngineManager` does: `Collect`, `Uncollect`, `StartAuction`, `Match` and
`Result` are the auction's, `HandOver` starts a ProcessOrder for the next
unmatched order, `SetOpenPrice` ends EndAuction. Clients' calls to the match
engine come in anywhere between these, one call at a time. The administrator's
StartAuction and EndAuction are taken to follow one another.

**Contracts.** `position[<<user, side>>]` is the manager's map; a position never
opened is one of quantity zero, as every reader treats it. `call[g]` is what
goroutine g does next, and its fields are the locals it goes on with. A contract
order is `CreateContractOrder` (validation, margin check, and the quantity held,
when it reduces), `Match` and `Settle` (updatePositionAfterTrade); other calls
run between them, as in the code, where nothing but the position manager's own
methods locks. A handler that closes a position reads the mark price
(`ClosePosition`), the quantity (`CloseAll`) and reduces (`CloseReduce`); one
that sets take-profit and stop-loss prices looks at the position, at the mark
price and stores (`SetPositionTPSL`, `ValidateTPSL`, `StoreTPSL`).
`UpdateMarkPrice`, `MarkPositions` and `CheckTPSLTriggers` are the three parts
of UpdateMarkPrice, each under its own lock, `ProcessTriggered` starts the next
of the orders that came due. The monitor is `ReadMark`, `Scan`,
`LiquidatePosition` for each position found, `EndCheck`. `MatchLiquidation` and
`SettleLiquidation` are ProcessLiquidationOrder. What the book has for an order
is left open: any part of it may be executed at any price the order accepts, so
the model has the behaviours of every book; a stop order executes nothing, and
an iceberg's slice is matched as a limit order at the price the handler left it,
zero. A user id is a sequence, the id cut at its underscores, since
`extractUserID` and `extractPositionKey` cut an entry's key there. `cash` and
`unsettled` are history.

The numbers of `Positions` are integers, in units of the last place a division
keeps, the sixteenth decimal in the code; a rate is a count of `One`-ths (`One`
is 10^16 there, 1000 in the run). The three divisions, an average price, a
margin and one over the leverage, are `DivRound`, which rounds as decimal.Div
does. Quantities are whole, so that a value has the places of a price, and a
liquidation price, a price times a rate, keeps the places of both.
`CalculateMaintenanceMargin` and `EffectiveMargin`
(`liquidation/engine.go:239-265`) are called by nothing in the repository; here
the properties use them.

Nothing in the program calls EngineManager's UpdateMarkPrice and
ProcessLiquidationOrder yet, and only SubscribeLiquidations receives from the
liquidation channel. The model has a feed of mark prices and a goroutine that
takes orders from the channel and executes them, which is what both are
written for.

A position is one object that several goroutines read without the lock
(`contract_engine.go:183`, `manager.go:167`); each such read is one step here,
and a torn read of a decimal is left out.

**Messages.** A message is a record, an enum field an integer (any, since
proto3 enums are open; 0 when not set), a decimal the text's class and value.
`FormOf` and `ContractFormOf` are what CreateOrder and CreateContractOrder make
of a request, and the order forms of the engine's and the contracts' runs are
made by them from requests, one of which leaves every enum field unset. The
answers are operators on what the engine returns; the theorems of section 4 say
that nothing is lost or changed on the way.

**Events.** A call numbers an event (`Emit`) and waits for room (`Send`);
position events are dropped when there is none. `Register` and `Unregister` are
the rendezvous with Run, `AddClient`, `RemoveClient` and `CloseSend` what Run
then does, the first two under the write lock. `Listen`, `Broadcast`, `Visit`
for each client and `EndBroadcast` are listenEvents; the read lock is held from
the second to the last, which is the guard `~Broadcasting` of the writers. A
reader is `Request` with the handler's effect, then `SendReply`; a writer is
`Receive`, `Flush` (which takes the rest of the queue into the frame) and
`WriterEnds`. `StreamTake` is a subscription's loop, `Publish` the publisher's.

**Manager.** `calls[a]` is what goroutine a does next: `Lookup` is GetEngine
under the read lock, and the action after it works on the engine found.
`Admit` is the look at the paused flag with which ProcessOrder starts, `Match`
the rest of it. A batch looks its engine up for every item, an auction's end
once. The command worker is one more goroutine. `AddContractSymbol` and
`RemoveContractSymbol` have no caller in the repository and are the embedding
program's (`Embedder`), as is SubmitCommand. `retired`, `halted` and `barred` are history: engines an
operation took out of the map, symbols whose pause has been confirmed, and
calls that came after that.

**Snapshots and main.** `Tick` lists the symbols, `NextSymbol` and
`TakeSnapshot` are the steps for each. A snapshot is the engine it is of and
the version of its book. `Signal`, `GracefulStop`, `SaveSnapshot`, `Exit` are
main's shutdown; the loop is stopped by a deferred call, at the very end, and so
runs on while snapshots are saved.

**Audit.** An entry is its number in the order of the calls of Log. `mu` is the
mutex while somebody flushes; `WriteDirect` is the write past a full queue, and
does not take it.

**Funding.** Time is in slots of part of a minute; a tick is due once a minute
in a phase set by the start, and may be `MaxDelay` late. `SettlementTick` takes
hour and minute from the time of the tick.

Abstracted: decimals are naturals (the code only adds, subtracts and compares
them; the one division, an iceberg's default slice, is required to be exact by
`FormsAssumption`; the divisions of positions round, as said above; funding
rates are in hundredths of a percent, rounded down). Timestamps, trade ids,
sequence numbers and, outside the modules about them, events are left out.

## 3. Runs

`MaxOrders` bounds submissions; ids, users, prices and forms are the sets in
the cfg. No constraint cuts behaviours. Deadlock is off where the system really
stops (no submission is left).

| Run | Instance | Shows |
| --- | --- | --- |
| `tree` | 6 prices, descending; the search takes up to 3 iterations over odd and even windows | the price map follows the slice, insertion ends, implements `SortedPrices` |
| `book_feed` | 2 orders of 1-2 units, 2 prices a side, 2 users | indexes agree, volume covers what rests, a mirroring client converges wherever its snapshots fall |
| `engine_orders` | 3 orders from 12 forms of every kind, cancel and pause between steps | no overfill, FILLED means filled, nothing filled rests, price-time priority, every call returns |
| `engine_stops` | 4 orders from 8 forms, 3 prices, cancel-all | never crossed, last price, no missed trigger after nested triggers, indexes of book and stops agree, nothing lost, cancel-all complete |
| `auction` | 4 orders in all from 5 auction forms over 3 prices (1 or 2 units) and 1 bid of continuous trading, cancellations, auctions one after another | the opening price executes the most, priority, nothing executable is left, every order filled or handed on once, every iteration advances |
| `contracts` | one user, 2 goroutines of which one also executes liquidations, the monitor; 4 calls from 6 order forms, of which 2 are limit orders that name no price, leverages of 10 and 11, closes, 2 take-profit and stop-loss settings, 2 mark prices; trades at 2 prices; channels of 2 and 1 | types and non-negative quantities, profit is cash, the monitor finds the positions that are down to their maintenance and no others, and queues them, protection stands until reached and then sends its order |
| `hub` | 1 engine call, 2 events, 1 client with 2 requests, 1 subscription, 1 publisher; event channel and client queue of one | no send on a closed channel, a client's events in order and once, engine calls go on whatever clients do, lost connections are forgotten |
| `server` | 1 symbol, 1 handler beside the command worker, 2 orders in batches of one or two, a queue of one, 2 engines, 3 requests | orders stay where a cancel looks for them, a confirmed pause holds, snapshots are as new as the last round, a shutdown ends |
| `audit` | 2 callers, a queue of one, flushes at two, 4 entries, Close at any moment | queued entries in order, none lost or doubled before the file is closed, a single entry is written |
| `funding` | 1 contract, marks and indices from 0, 100, 101, half-minute slots, hours of 2 minutes, ticks up to a slot late, two settlement periods | no settlement before the time announced, with two exceptions that the property names |

Why these bounds are enough to be interesting: two orders at one price need a
queue; one or two units make a maker filled exactly, in part, or leave the
taker a rest that is cloned into the book; three orders give a maker, a second
maker and a taker; four give a maker, two stops and a taker, so that a stop's
trade triggers another stop while the outer loop has not reached it.

In `contracts` two openings at different prices make an average; two goroutines
put a close, a reduction, a trigger or a liquidation between the steps of any
other; at the two mark prices positions of both sides are above and below their
maintenance and each setting is reached on both sides. A long opened at 126000
with leverage 10 has the lower mark price, 119700, for its liquidation price.
Leverage 11 divides no `One`: a short opened at 151200 with it is left alone at
157300, where it is below the maintenance of its value at the mark price. One or
two units are opened at a time, so that part of a position can be reduced while
a close for the whole of it is under way. The prices of trades are multiples of
25200, which every quantity up to eight, the most four calls can open, divides:
every average the run can reach is exact, as averages are in the code to sixteen
decimals. One user suffices since no operation reads two users' positions,
except loops over all of them.

Buffers of one in `hub` make every send meet a full buffer; two requests let a
client subscribe and then ask for a snapshot or unsubscribe while a broadcast
is under way. In `server` three requests are an order, a removal and an
addition of its symbol, or a pause with an order and a command beside it; the
second engine is the one that replaces the first, and the worker makes a second
goroutine. The audit's fourth entry finds the queue full with a list, a taken
entry and a direct write all there. In `funding` the prices give a rate at
either limit, one between, and none, and the horizon holds every phase of the ticker twice.

Every property is broken by a mutant of the code under the same cfg, so the bounds do
reach the case it is about. `ClientIDs` is symmetric: ids are only compared.
The runs with liveness properties have no symmetry.

Fairness. `MatchEngine!Spec` has weak fairness of `Step`: a call in progress
runs on one goroutine that nothing suspends for ever, and an engine step is
always enabled while the stack is not empty. Clients and administrators are
under no fairness. `Contracts!Spec` has weak fairness of the monitor alone,
whose ticker fires for ever; `UnderwaterQueued` asks nothing of anyone else.
`PriceLevelTree` has weak fairness of the two steps of an insertion, which is
straight-line code. `EventFanout!FairSpec` has strong fairness where a
goroutine waits for a Go channel or a lock, which serve waiters in turn - the
hub's own steps, an engine's `Send`, `Unregister`, an answer waiting for room -
and weak fairness of the listener and the pumps; nothing of peers, of
subscriptions or of publishers, so `EngineProceeds` rests on the hub alone.
`Server!Spec` has weak fairness of calls under way and of main's own steps, none of
clients: a subscription may stay open, and `ShutdownEnds` says so.
`AuditLog!AuditSpec` has weak fairness of the writer, whose ticker fires for ever,
and of calls under way. `Funding` has none and needs none.

### Findings: where the code and its documentation disagree

Each is a run that expects a violation.

| Run | The documentation says | The code does |
| --- | --- | --- |
| `fill_or_kill` | `types/order.go:70`, `match_engine_test.go:210`: no partial execution, no trades | matches, then reports rejected with an empty list of trades; the makers were filled and `SetLastPrice` is not called |
| `auction_overfill` | `manager.go:371`: the unexecuted orders move to continuous trading; `types/order.go:133`: Quantity is the original quantity | an order the auction executed in part is matched for its whole quantity once more |

Not a run, but met on the way.

The engine and its callers:

- `README.md:51` promises an event-driven design without contention of threads;
  the handlers call an engine from their own goroutines, and it has no lock (see Engine above).
- With a client order id used twice, removing the first order by id removes the
  second, the filled first one stays, and the next taker's loop never ends;
  `README.md:13` says completed orders are removed. The runs have fresh ids
  (`FreshIDs`).
- A maker filled whole leaves its level with its last fill still in the
  level's volume (`orderbook.go:46`), so the depth overstates what rests;
  `VolumeCovers` says it never understates it.
- An iceberg reports FILLED after its first slice, and its hidden rest is never
  put into the book (`match_engine.go:294`).
- A stop is disarmed before its order is processed (`match_engine.go:579`): an
  engine paused between a trade and the triggers it causes rejects the order
  and the stop is gone.
- An order without a price, or with a price of zero, is accepted as a limit
  order at zero; an unknown side, type or time in force becomes BUY, LIMIT and
  GTC (`order_server.go:234`); CreateOrder checks no sign.
- `EndAuction` ignores what becomes of the orders it hands over: without an
  engine, or with a paused one, they are gone; its opening price overwrites the
  last price that their trades have set. `AddSymbol` after
  `RemoveContractSymbol` overwrites an auction in progress.
- An order can be accepted by an engine that has been removed since it was
  looked up, and is then found by nothing (`manager.go:183`).
- `OrderIDGenerator` makes an id of a single character, `string(rune(id))`
  (`order.go:214`); nothing uses it.

Contracts:

- Two reduce-only orders at once pass the limit to what is held
  (`contract_engine.go:187`); the second trades and changes no position. A
  position the monitor queued at several ticks is sold several times the same way.
- A position built up beyond MaxOrderQty has its take-profit or stop-loss entry
  deleted and the order it sends rejected, though `README.md:240` says it is
  closed at market.
- Maintenance is taken of two values. The liquidation price
  (`position/manager.go:191-204`, `README.md:215-219`) leaves the maintenance of
  what the position was opened for; `CalculateMaintenanceMargin`
  (`liquidation/engine.go:246-248`) takes it at the mark price, and the order's
  reason is `margin_insufficient` (`liquidation/engine.go:140`). With leverage
  10 and 5 percent a long of one from 126000 is liquidated at 119700, where it
  has 6300 left against 5985 at the mark price; a short of one from 151200 is
  left alone at 158700, where it has 7620 against 7935, until 158760.
  `LiquidationExact` states the agreement with the first and what follows for
  the second: against it the monitor is early for a long that has lost and late
  for a short that has lost, never the reverse. No run shows a violation: no
  document says at which price maintenance is taken, and nothing calls
  CalculateMaintenanceMargin or CalculateMarginRatio.
- CreateContractOrder reads the price of a request that says LIMIT only
  (`contract_server.go:57`), and an unset or unknown type becomes LIMIT. Such an
  order is always rejected as "invalid price" (`contract_engine.go:136-141`);
  `EveryContractRequestDecodes` says so. An iceberg's price is neither read nor
  checked: a sell matches every price, and what its slice leaves rests at zero.
- A request for a position that does not say LONG or SHORT names none.
- A take-profit or stop-loss entry of a user whose id holds an underscore is
  deleted at the next mark price: its key is cut at the first underscore and
  leads to no position (`contract_engine.go:770`, 702). `TPSLStandsAlways` has
  the absence of underscores as its hypothesis, and the `contracts` run a user
  without them.
- After a contract trade only the taker's position is updated
  (`contract_engine.go:251`); a maker's order changes no position, and neither
  does a stop order, which goes to the spot engine.
- `ValidatePositionSize` has no caller, so MaxPositionQty limits nothing;
  PauseSymbol reaches the spot engine of a symbol, never its contract engine;
  the insurance fund is added to and never drawn on; leverage, margin type and
  margin adjustments are answered with success and change nothing.

Events and services:

- A partial fill changes a level's volume (`match_engine.go:361`) without a
  delta, while `README.md:46` says deltas push the book's changes; and nothing
  calls `FlushDeltas`, so `deltaBuffer` only grows. The `book_feed` run shows
  that a client converges from the deltas that are recorded.
- Each event reaches one of the receivers: a subscriber that has no use for an
  event has taken it from the others (`market_server.go:88`), although
  `README.md:57` speaks of a broadcast. No engine emits BOOK_UPDATE, so
  SubscribeOrderBook sends nothing; SubscribePositions asserts a type no event has
  (`contract_server.go:319`) and sends nothing either, but takes events.
- Position and auction events are broadcast without their data, and nothing is
  ever sent on the hub's `broadcast` channel. The publisher's subjects end in
  the event type's name, `TRADE`, the Subscriber's in `trade`: they never meet.
- readPump can wait for ever in the answer to a snapshot request
  (`websocket/server.go:301`); its client then stays registered. This is the exception in
  `LostIsForgotten`.
- GracefulStop waits without limit for subscriptions; the 30 seconds are the
  HTTP server's only. What is saved then is the last periodic round, though the
  comment says the final snapshots (`main.go:172`); snapshots of removed symbols are
  kept and saved too. Full snapshots hold no orders, and nothing restores one.
- The audit log is never written to by the program. An entry's time in the file
  is that of its flush. What is in the queue at Close is lost, silently.
- `main` registers no contract service and starts no funding, liquidation or NATS publisher.
  Funding settles nobody (a TODO). A late or early tick settles twice, or not at all; the next
  funding time becomes eight hours from then; a symbol first priced in a
  settlement minute is settled at once.

## 4. Proofs

`PriceLevelTreeProofs`, for every set of prices and both directions, from
`PricesAssumption` and `DescendingAssumption`. The inductive invariant `IInv`
is `TypeOK /\ Sorted /\ MapAgrees /\ Window`: `Window` is the loop invariant
of the binary search (slots left of the window precede the new price, slots
right of it follow it), without which the slot chosen by `FinishInsert` is not
known to keep the slice sorted. `Implements` maps every step to a step of
`SortedPrices` or a stutter.

`MatchEngineProofs`, for every set of users, ids, prices and order forms, every
bound on submissions, with ids reused or not, from the named assumptions of
`Orders` and `MatchEngine`. The inductive invariant is `TypeOK /\
BookNotCrossed`. Levels only disappear, by every action but one (`Closing`,
`ShrinkKeeps`); the one that may open a level is the end of a matching loop,
when the taker's rest joins the book (`SettleTakerKeeps`). It rests only when
the loop found nothing to take (`Target = {}`), and a non-empty finite side has
a best level (`BestExists`), so every opposite level is beyond the taker's
price (`NothingToTake`). This is why `TypeOK` has to say more than types: sides
are finite, levels are not empty (`matchOrders` takes the front of the queue
unasked), whatever a frame or a stop map refers to is in the heap, a frame
holds no more than its order asked for, and an order that may rest names a
price. `Grows` states what steps do to the heap: objects are added, none is
dropped and no quantity changes; everything that refers to a heap refers to
one that has grown (`RefersOn`). `EngineInvariant` proves the invariant,
`TypeCorrect` and `NeverCrossed` are its two halves.

Two more arguments in that module need more than types and need no fresh ids.
`NoMissedTriggerAlways` follows the frames: a call that triggers stops is a
chain of loops over lists of stops, each opened by a trade of the one below
(`Shape` says which frames can lie above which). Whatever the last price makes
due is still ahead in the list of each of these loops or of one nested in it
(`AllAwaited`); so it is when the outermost loop ends, which has nothing ahead
and nothing nested in it: nothing is due. `LastPriceAlways` says that the last price and
that of the last trade differ only while a matching loop that has traded is open
(`PriceKnown`). It has the hypothesis `NoFillOrKill`, which says of the constant
`Forms` that no FOK order is among them: a killed FOK order empties
`result.Trades`, so that its trades do not set the last price (see Findings).
The runs that check `LastPriceTrue` send none either.

`OrderProofs`, for every set of users, ids, prices and order forms and every
bound, takes as hypothesis `FreshIDs`: no client_order_id is used twice. It is a
hypothesis and no assumption of the module, because the engine does not enforce
it: a second order with the id of one that rests replaces it in the index, and
the first can no longer be found, canceled or completed, so none of these
properties holds then. Its sections build on each other.

- Ids: an id names the objects of one submission, uuids are newer than all that
  is known, and an armed stop is as it was sent (`Issued`, `ArmedAsSent`;
  `Newcomers` says what a step adds to the heap).
- Stops: `StopsKept` says of each id at once what the property says of four maps.
- Book: `BookKept` says that what the index names is in the queue of its side
  and price, in no other, and that each queue is in the order its objects were
  made; with `TakerNew`, that a taker's rest is newer than all that rests, it
  survives the rest's joining the back of a queue. `Orderly` joins the
  invariants up to here.
- Kinds of step: `Kinds` puts the step of any action into one of seven kinds and
  states its effect on objects, book and frames. What follows argues by kind and
  never expands an action again.
- Roles: what rests is a limit order, or the clone or slice of one, with
  something left; what is armed is a stop that executed nothing; an iceberg waits
  under the loop of its slice (`Roles`, `IcebergsWait`).
- Accounts: of all objects that stand for one submission at most one can still
  be executed (`Alone`), and what it has left and what the submission has traded
  add up to what it asked, unless something was dropped, which only what does
  not stay can suffer (`Balanced`, `Told`, `Kept`). Each of the five ways to move
  quantity between objects (`QuietMove`, `EnterMove`, `TriggerMove`, `TradeMove`,
  `SettleMove`) keeps the accounts, and each kind of step is one of them
  (`EveryMove`). Since at most one object is left, the sum over all of them is
  its rest (`OutstandingIs`), and `NoOverfill`, `FilledIsFilled` and
  `NothingLost` can be read off.
- Priority: the front of an increasing queue is its least address, and the maker
  is the front of the best level.
- Cancel-all: what the user has left is in the lists still to be worked off
  (`CancelsAll`), and removing one id disturbs no other.
- Volumes: a level's volume is at least what its queue has left (`VolumesKept`).
  A fill takes the same quantity off both, a removal takes off what the order
  has left by then, which is no more than before, and the taker's rest adds what
  it has left (`FillCovers`, `RemoveCovers`, `AddCovers`).

The last section is about the book under any caller of its own methods, each of
whose orders has a new id, and a client of its deltas
(`ReplicaConvergesAlways`). A replica cannot be shown to be some earlier depth:
a delta older than the client's snapshot takes it to a depth the book never had.
What is inductive is a statement about each price: the last delta about it that
the client has not applied says what the depth there is, and where there is
none, the replica is right already (`Leads`, `FeedInv`). Every method changes the
depth at one price at most and appends a delta that tells of it (`BookTold`).
That replaying deltas gives the depth they lead to (`ReplayLeads`) is an
induction over a fold.

`CallAuctionProofs`, for every set of users, ids, prices and orders, and every
bound on them. The inductive invariant is `TypeOK /\ CollectedOK /\ MatchOK`;
`MatchOK` is the loop's: the lists to match are the front of the sorted lists
and accept the price (`CutAccepts`), the orders before the index are filled
whole, those after it are untouched, none is filled beyond its quantity. A
sorted list holds no order twice, since no order precedes itself, and the two
lists are of different sides, so a trade changes only the two orders at the
indexes (`AtIndex`, `PairEffect`). `PriorityAlways` follows from the invariant
alone; `AdvanceAlways` because the traded quantity is all that one of the two
had left, so that its index moves on.

`MaximalAlways` and `UncrossedAlways` are about sums. `SumsInv` adds `VolumeOK`,
that either side has executed what was traded and that whatever is not to be
matched does not accept the price, and `OpenOK`, that at no price the lesser of
the two demands is greater than at the opening price, which the nested loops of
`calculateOpenPrice` come to by comparing the prices orders name. A price nobody
names is no better than the next one somebody does. When the loop ends, one side
has executed all it asked for at the opening price, its `Demand`, which no price
can beat; and if a buy and a sell left over accepted one price, both sides would
ask for more at it than was executed. `ListsInv` says that a collected order is
in one list at a time, and `CompleteAlways` follows.

`ContractsProofs`, for every finite set of users, all prices, leverages and
units of rounding, maintenance rates up to 100 percent, orders, numbers of
goroutines and capacities, from the named assumptions of `Positions`,
`Liquidation` and `Contracts`. The inductive invariant adds to the types that an
open position's margin and liquidation price are those of its quantity, entry
price and leverage (`Solid`), and that no order about to change a position is
without leverage (`Levered`), by which both formulas divide. The theorem of
`LiquidationExact`, `LiquidationExactAlways`, compares two divisions: how far
margin and liquidation price can be apart is bounded by half a unit each, where
they round at all (`MarginGap`, `Slack`). `LiquidationAgrees` cancels the
quantity: but for that, the liquidation price is reached exactly when margin
less loss is at most the maintenance of the entry value, whatever reductions and
additions led there. `MaintenanceGrows` orders that maintenance and the one at
the mark price. `ReduceKeeps` is where quantities read earlier meet positions
that have changed: the comparison in ReducePosition, under the lock, is what
keeps them from going negative. `TPSLStandsAlways` rests on `KeyRecovered`,
which needs ids without underscores.

Profit and money are compared by their `Discrepancy`: the profit a position has
realized, less the money its trades brought in, the open quantity taken at its
entry price. `OnlyAveragesRound`, with no hypothesis, says what a step can do to it:
nothing, unless it enlarges a position; then it is at most half a unit for each
of the quantity the position then has, by which the average is divided
(`UpdateRounds`); a reduction realizes exactly what it is paid (`ReduceRounds`),
however many goroutines reduce at once. `PnlIsCashWhenExact` follows: where every
average an opening makes is a price (`AveragesExact`), the discrepancy stays
zero. The hypothesis speaks of a run, so that no set of prices has to be chosen
for which it holds; it holds of all behaviours of the `contracts` run, and where
it does not, profit and money really differ by what was rounded.

`TriggeredExecutesWhenSmall` follows the order of a reached price from the
position it is made for to its validation, perhaps much later. The invariant
`TriggerInv` says that what waits to be sent names a side, a positive quantity
and a leverage that the validation admits (`Closing`): leverages of positions
were validated when they were opened (`LeveragesBounded`). What was not validated
is the size a position has grown to in several orders; `PositionsSmall`, that
positions stay within MaxOrderQty, is the hypothesis, and without it the
property is false (see Findings).

`SettledWhenDueAlways`, for any contracts, prices, phases and delays: a
time announced is less than a minute beyond the end of the eight hours in which it
was announced (`Promised`), and a settlement is made in the first minute of eight
hours only (`FundingInv`): of later ones, when the announced time has come
but for a minute, or of the same, when it was announced in that minute.

`ContractsProofs` also has the messages of the contract service, and
`OrderProofs` those of the order service. `EveryRequestDecodes` and
`EveryContractRequestDecodes`: whatever number a client puts into an enum field,
a request that is not refused becomes an order the engine's types admit, a spot
order if it asks for a positive quantity. A contract order is of the type it
names, and no limit order is admitted but one asked for as LIMIT with a positive
price. `OrdersToldTrue`, `TradesToldTrue`, `PositionsToldTrue`,
`LiquidationsToldTrue`: what a message says, read with the tables of requests, is
what the engine has - no two sides, types or statuses share a number, and none
has that of a field not set. They hold of every message, so no run repeats them.

`EventFanoutProofs`, for any clients, requests, receivers and buffer sizes. No
goroutine sends on a client's queue once it is closed: the invariant `IInv`
ties the order in which a client leaves: its reader asks for its removal when it
has nothing more to send, Run takes it out of the map under the write lock, so
that no broadcast is on its way to it, and only then closes the queue (`Busy`).
`EventsInOrderAlways` follows an event from the call that numbers it through the
channel, the listener and the client's queue to the connection: the invariant
`Flow` says of each place that what is there was numbered by its call before all
that comes behind it. A skipped client, another receiver and the end of a
connection only take events out of that line (`ClientKept`), and only what is
numbered anew enters it (`Newer`).

`ServerProofs`, for any symbols, orders, batches, handlers and bounds, from the
assumptions of `EngineManager`; of `Configured` it needs that it is finite.
`ManagerInv` ties the three places where an engine is found: the map leads
from a symbol to an engine of that symbol (`MapLeads`), an engine out of the map
was taken out (`Retired`, which is `OrdersKept` for engines without orders as
well), and a call works on an engine of its symbol, though perhaps not the
current one (`CallsOK`). `PauseHolds` needs one thing more (`BarredOK`): a call
that came after the pause has either not looked its engine up or found the one
the map still has, which is paused; removal and replacement end the pause for
all calls of the symbol at once. Pausing an engine that is no longer the
symbol's halts nothing, and by `MapLeads` resuming one resumes nobody else.
`SnapshotFreshAlways` builds on it: engines only grow (`EnginesGrow`), so what
was known of a book stays a lower bound (`Known`), and the engine about to be
read is the one the round began with, unless that was taken out (`Held`).

`AuditInOrderAlways`, for any callers, queue and list, is about one line: the
file, the list, the entry the writer has taken, and the queue behind it
(`Path`). `AuditInv` says that any two entries of the line that went through the
queue are in the order of their numbers, no two have the same (`Lined`), what
callers are about to write themselves is in no place of the line and no two of
them have the same (`Apart`, `Distinct`), and nothing logged is missing
(`Accounted`). Receiving, listing and flushing an open log move entries along the line
without changing it; a write past the queue puts one between the file and the
rest, wherever flush has got to; a closed file takes one out, and it is known
to be lost.

Model-checked only:

- liveness (`InsertEnds`, `EngineReturns`, `UnderwaterQueued`,
  `EngineProceeds`, `LostIsForgotten`, `AuditDrained`, `ShutdownEnds`), which is
  beyond the prover;
- `AuctionHandedOn`, which is about two engines on one heap of orders: the theorems
  about either are about a heap only it writes to;
- `KilledUntouched`, and `NoOverfill` of auction and engine together, which the
  code violates (see Findings).

Proved under a hypothesis that not every behaviour satisfies: `LastPriceTrue`
(no FOK order), the properties in `OrderProofs` about the engine (fresh ids), `TPSLStands`
(no underscores), `PnlIsCash` (exact averages), `TriggeredExecutes` (positions
within MaxOrderQty). Each hypothesis is one without which the code violates the
property.

`SequenceLemmas` is what these modules share. The library's induction theorems
take a predicate as a parameter, which the provers cannot instantiate; it states
induction with a set in place of the predicate (`FromZero`, `FromEmpty`). By it
there is one function with the equations of a sum over a finite set (`SumsExist`,
`SumsAgree`), and the community modules' folds are that function (`SumIsTotal`).
`Chained` and `AllBefore` say of the elements of a line in which order they are; both
the events of a client and the audit log's entries are such lines.
`SelectSeq`, whose parameter is an operator too, stays opaque: properties of
lists are stated over their positions.

## 5. What is not modelled, and the plan

In order of importance; see `components` in `PROJECT.json`.

1. Proofs: `AuctionHandedOn`; the book's indexes under `BookFeed`'s client, which
   calls the book without an engine.
2. The engine against an abstract market of resting limit orders.
3. Concurrent callers of one engine with the accesses of `matchOrders` as steps.
   It would show which properties are lost, which is nearly all of them (see Engine above);
   there is no lock whose sufficiency could be checked.

Left out for good: the encoding of messages, the messages of queries that
format a book, a ticker or statistics; configuration files; metrics counters;
JSON and file formats; the NATS Subscriber, full snapshots, funding payments,
ProcessStopContractOrder, AddTPSLOrder and ClearUserTPSL, which nothing calls.
