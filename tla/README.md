# OpenCryptoSignalEngine: TLA+ models, checks and proofs

Verification project for OpenCryptoSignalEngine: the AutoTrader, the scanners and the bridge between them.
Paths below are relative to the repository root; `executor.py`, `storage.py`, `bybit_demo.py`, ... without a
path are files of `apps/autotrader/`; those of the scanners are named with their directory.

## 1. The system

A scanner finds signals, a bridge carries them over HTTP, and the AutoTrader executes them on a
Bybit demo account and looks after the positions until they are closed.

| part | state | operations | talks to |
|---|---|---|---|
| Scanner V2.6 (`apps/scanner_v2_6`) | SQLite: signals; in memory: the watched signals, hot list, stamps of the last scan, age of the data, bridge tasks | scan loop, price websocket, REST monitor, context refresh, hot monitor, safety watch | market data, bridge, Discord |
| Scanner strategy (`strategy.py`, `indicators.py` there) | none | `analyze`: score, gates, stop and targets of a setup | scan |
| Scanner V2.5 (`legacy/scanner_v2_5`) | SQLite: signals, `bridge_outbox` | the same loops, and one that delivers the outbox | market data, bridge, Discord |
| Bridge protocol (`src/open_crypto_signal_engine/protocol`) | none | encode, sign, validate | both ends |
| Bridge server (`bridge_server.py`) | none | one task per request: `execute` or `management` | executor |
| **Executor** (`executor.py`) | entry lock, one lock per symbol, running tasks | `execute`, `management`, `close_trade`, `close_all`, `emergency_stop`, `sync_now`, `reconcile_loop`, `waiting_entry_loop`, price loops | storage, Bybit, Discord |
| Life cycle executor (`lifecycle_executor.py`, `risk/lifecycle.py`) | none of its own | stop targets after TP1 and TP2 | executor |
| **Storage** (`storage.py`) | SQLite: `trades`, `fills`, `settings`, `pending_signals`, `management_events` | one short transaction per call | executor |
| **Bybit adapter** (`bybit_demo.py`) | none | orders, positions, executions | the exchange |
| Discord control (`discord_control.py`) | none | pause, resume, sync, close, close all, emergency stop, approve, skip, add margin | executor |
| Replay (`src/open_crypto_signal_engine/backtesting`) | none | pure replay of a signal on candles | risk life cycle |

Everything in the AutoTrader runs on one asyncio event loop. Coroutines interleave at every `await`;
each storage call is one SQLite transaction; the exchange acts on its own. A crash loses the
coroutines and locks and keeps the rows and the account.

What is hard about it: work begun on a row read before a lock was obtained; orders whose answer is lost; fills that
race cancellations and polls; a crash between any two writes; redelivered signals; executions that must be
attributed to the right trade; two levels of locks; a stop command against an entry in flight. The scanners are one
event loop each as well: four tasks hold the same signal over their awaits, deliveries are retried by tasks of their
own and overtake each other. `PROJECT.json` lists these hazards at their lines with the properties on them.

What makes each part correct:

* Executor: nothing bought is ever forgotten; a signal is bought at most once; one trade per symbol
  and at most `max_open_positions`; a trade called flat is flat; every trade that is over gets closed;
  an emergency stop is complete and returns.
* Stop protection: the recorded stop only gets stricter and is the one in force in the end; after TP1 it
  is at entry or better, after TP2 at TP1 or better, in the end.
* Pending signals: each decision is acted on by one task, executed at most once, never executed after it
  was refused, looked at while it waits, and resolved once it has expired.
* Orders, margin, fills: the order keeps to its risk or is the documented minimum; the targets sell the
  position and no more; added margin keeps to its cap; a closed trade's result is what its executions moved.
* Management events: each is applied once; a signal whose close was applied is not opened later.
* Bridge: what is handed on is what was meant; a command is not turned down for having waited.
* Scanner: a watched signal has one close and an ACTIVE row; targets are marked in order; an EXECUTE is
  relayed; every contract gets its turn; calls keep to the cooldown; a lasting freeze is announced.
* Strategy and replay: the rules for a LONG and a SHORT are one another's mirror image; the default policy
  of a replay is the conservative one.

## 2. Modules

| module | what it is |
|---|---|
| `DemoExecutor` | the trade life cycle: locks, coroutines, trade rows, fills, the account, crashes; the safety, action and liveness properties |
| `DemoExecutorInvariants` | the inductive invariants in named parts (`IInv`, `PortfolioInv`), and `MutualExclusion` |
| `MCDemoExecutor` | the instances TLC checks |
| `DemoExecutor_proofs` | each action keeps `TypeOK`, the locks and the rest of `IInv`; the theorems |
| `DemoExecutorPortfolio_proofs` | the theorems about the cap and the emergency stop |
| `PendingSignals` | the decisions about signals not executed at once: bridge, operators, management, `waiting_entry_loop`, price tasks and restarts over the table `pending_signals`; its properties and its `IInv` |
| `MCPendingSignals` | the instances TLC checks |
| `PendingSignals_proofs` | each action keeps each part of `IInv`; the theorems |
| `RiskLifecycle` | the decisions of `risk/lifecycle.py` as operators on ticks |
| `ProtectedStop` | the abstract specification: what the protection of a trade promises |
| `StopProtection` | the stop of a trade in the database and at Bybit, moved by the opening, the passes, the TP milestones and MOVE_SL; its properties and its `IInv` |
| `MCStopProtection` | the instances TLC checks |
| `StopProtection_proofs` | lemmas on the decisions, each action keeps each part of `IInv`, the refinement |
| `OrderPlan` | sizing of the entry, split into three targets, their recovery after an interrupted opening |
| `MarginAssist` | the margin added before liquidation would come before the stop, by the bot and by hand |
| `FillAccounting` | executions in weekly windows, their booking to trades, completeness and net result |
| `BridgeProtocol` | one command from a client's builder through signature, freshness and validation to the executor |
| `BridgeDelivery` | the EXECUTE and management commands of a contract: retries, handlers, `management_events`, restarts |
| `BridgeParts` | the five modules above as parts of one specification, and the assumptions on their constants |
| `BridgeParts_proofs` | an inductive invariant and the theorems of each part |
| `MCBridge` | the instance |
| `BridgeOutbox`, `BridgeOutbox_proofs`, `MCBridgeOutbox` | the signals of V2.5 and their outbox; its inductive invariant and theorems; the instance |
| `ScannerSignals`, `ScannerSignals_proofs` | the signals of a contract in V2.6 under the tasks that watch, review and close them; the inductive invariant and theorems |
| `MarketScan` | which contracts a scan analyses |
| `RestClient` | pacing, retries and the cooldown after HTTP 403 |
| `HotMonitor` | the hot list, its alerts and the memory of them, pruned over time |
| `SafetyWatch` | the freeze of the management and its announcement |
| `SetupAnalysis` | `analyze`, with its triggers, confirmations and gates |
| `CandleReplay` | `replay_setup` under both intrabar policies |
| `ScannerParts` | the seven modules above as parts of one specification, and the assumptions on their constants |
| `ScannerParts_proofs` | an inductive invariant and the theorems of each part but the signals |
| `MCScanner` | the instance |

The components are models of their own. Those of the AutoTrader meet in the trade row: a decision that `PendingSignals`
opens is a delivery in `DemoExecutor`; the position whose opening, recovery and end `DemoExecutor` follows
is the one whose stop `StopProtection` follows, whose orders, margin and fills `OrderPlan`, `MarginAssist` and
`FillAccounting` count. `BridgeDelivery` composes scanner tasks, bridge, decision and trade for one contract, each
reduced to what the others can tell. `BridgeParts` and `ScannerParts` put several modules side by side: `part` names
the one that runs and never changes, so each is checked and proved about as if alone.

### DemoExecutor and the code

A step is the code between two awaits that matter: a write to the row or a call to the exchange whose
result something else could change before the next one. A coroutine's place is its label `pc`:

* `E_entry .. E_fail`: `execute` (executor.py:82-530). `entry_guard` is two queues, the entry lock and
  then the symbol's. Pause check, cap and symbol check, row, entry request, mark, wait, protection and
  the `except` clause are separate steps: others run between them.
* `F_cancel .. F_settle`: `_failsafe_open` (672-723), reached from `execute` and from a reconcile pass.
* `C_symbol .. C_flat`: `close_trade` (1106-1138), for a management CLOSE, `/demo_close`, `close_all`.
* `R_symbol .. O_poll`: the reconcile pass (1140-1152, 1316-1331, 1366-1544). `snap` holds the rows as
  they were read, `row` the one in hand: the code decides on that one, not on the row as it is.
* `X_entry .. X_next`: `emergency_stop` and `close_all` (1156-1182).
* `finalize`: `_finalize_flat_trade` (1742-1772); `release`: leaving the `async with` blocks.

`status`, `rowid`, `entryFill`, `exitTo`, `enabled` are SQLite and survive `Crash`. `ord`, `pos` and
`closing` are the account: `pos[s]` is the set of trades whose entries make up the position on `s`
(one-way mode: a position may be of several). The exchange fills or drops an entry, and closes a
position by stop, take profit, by hand, or by the market order that was sent. A raising exchange call
is `Fault`. `stopped` and `missed` are history variables for the emergency properties.

Abstractions, and why they are safe for the properties:

* Prices, quantities, TP orders, stops and margin are left out: one fill opens, one exit closes
  (`OrderPlan`, `MarginAssist` and `FillAccounting` have them). "Any exit of its own booked" stands for "exit
  quantity reaches entry quantity". Manual orders on the account are not modelled.
* Expiry, entry window, sizing, shadow checks and the orphan audit end a request before a row exists:
  they are the unconditional `release` of `ExecuteCheck` and `ExecuteRoom`.
* `create_trade` and `set_order_plan` are one step: the entry is found by its link from the start.
* Order lookups and the execution listing answer truthfully or raise; the 60 s window of the listing
  after `close_detected_at` is in `FillAccounting`. An execution that closes size
  on the symbol is booked to whichever row is synchronised first, as the code does.
* `_recover_opening_trade` decides rows older than 30 s; an entry in flight is older than that only if
  Bybit keeps a market order unresolved for 30 s, which the code takes as impossible, and so does the model.
* `LateFills`: with TRUE an accepted entry may become visible after a 2 s, 12 s or 20 s poll gave up.
  With FALSE the polls outlast market orders.
* The hourly backfill only adds fills to CLOSED trades and is left out; so are notifications and events.
  `Notifier.send` swallows its errors, so none of them changes the control flow.
* The order in which `close_all` visits its rows is left open.

### PendingSignals and the code

`pending_signals` changes only by compare-and-set (`transition_pending`, storage.py:307), and every
coroutine that changes it read it some awaits before. A step is one such read or write.

* `A_read, A_claim, A_settle`: `approve_pending_signal` (785-837). `was` is `previous_status`.
* `X_entry .. X_wait`: `execute` under `entry_guard` (82-530), called by an approval
  (`Approving`: `manual_shadow_approval`) or by the bridge. `X_wait` is the gap between `save_pending`
  and `set_pending_waiting` (221-222).
* `W_read, W_set`: `wait_pending_signal`; `J_set`: `skip_pending_signal` and `skip_pending`.
* `M_symbol, M_read, M_cancel`: `management` (979-1036) for a signal without a trade.
* `L_pending .. L_drop`: `waiting_entry_loop` (893-977); `rows` is its snapshot of the table.
* `expire`: every place that found the clock past `expires_at` and is about to write EXPIRED.

Abstractions:

* A trade is opened or not; what becomes of it is `DemoExecutor`. The checks of `execute` on pause, cap,
  margin, window and so on are their possible answers, in the three groups the callers distinguish:
  released and retried, released but dropped by the loop, final. "retry" is allowed for any reason of
  its group at any time.
* Every signal is one that the shadow would block, so that SHADOW_MANUAL makes each a decision; a signal
  it would not block has no row in that mode.
* `received_at` is the rank at which a row was saved. The clock passes `expires_at` once (`Expire`).
* A price task is modelled when it expires its decision; before that it only edits a message. Whether a
  decision has a message, and its buttons, is left open: any button may be pressed in any state of a row.
* The decision row of a signal is never deleted and its payload never changes what is modelled.
* A redelivered management event is another command; `management_events` is part of `BridgeDelivery`.

### StopProtection and the code

One trade, from the moment `execute` sees the position and begins to protect it (executor.py:396). All who
move its stop hold the symbol's lock, so there is one label `at`; `holder` says whose it is. `dbStop`, `hit`
and `prot` are the columns `sl`, `tpN_hit` and `be_status`/`tp2_lock_status`; `exStop` is Bybit's.

* `check, set, verify`: `_set_and_verify_stop` (615-635), for all its callers: `why` is the caller,
  `target` the stop. `Failed` is what each caller does with an exception. `set_full_stop` may raise after it
  took effect.
* `commit, mark`: `mark_opened` or `update_sl`, then `set_be_status` or `set_tp2_lock_status`: steps of
  their own, since a crash may come between them and the stop is in force before either.
* `ReadRow, TakeRow`: a pass reads the row, and later handles it by the status it had. `recover` sets the
  stop of that row (1477); `active` reads the position, `restore` is `_restore_monotonic_stop`, and `next`
  and `try` are the TP milestones in the order of the code (1414-1454): newly filled targets first, then
  the retries. `seen` is the position as read at the start of the pass, which every decision uses.
* `MoveStop`: a MOVE_SL event (1043-1095) after its loosening test.

Abstractions:

* Prices are ticks: everything sent is quantised. A plan is the side, the average entry, the first stop and
  two targets in the order `validate_levels` asks for; the entry may be anywhere. `evaluate_post_tp_protection`
  raises for an entry at or beyond TP1, and so does `Try`.
* A target fills as a whole or not at all, once the market has reached it. The third only closes.
* The position closes at any time; whether by its stop is not distinguished. CLOSING, CLOSED_SYNCING and
  CLOSED are `OVER`, OPENING and ENTRY_SUBMITTED are `PROTECTING`: `DemoExecutor` tells them apart.
* The four attempts of `_set_and_verify_stop` are some number of attempts. A failed attempt of a milestone
  is not repeated in its pass, its back-off being 10 s or more; in a later one it may be repeated or not.
* `tp2_lock_sl_to_tp1_enabled` has its default, TRUE. Margin, liquidation buffer, order ids and events are left out.
* Bybit takes any stop it is sent, or refuses it (an incident); a stop set by hand is on the right side of the price.

### OrderPlan, MarginAssist, FillAccounting and the code

Whole numbers stand for prices, quantities and money; the tolerances of the code (1.001 and the like) are kept,
its 1e-9 are exact comparisons here. A quarter of the margin's cap is rounded up, so that four such steps are the cap.

* `OrderPlan`: `Tradable` is the sizing of `execute` with all its refusals (executor.py:268-357), written for
  `Quantity` in lots; `Size .. Place` follow 359-419, `Crash .. RestoreTarget` the recovery (1468-1483,
  1546-1592). Targets trade a lot of theirs or all of it at any time, one may be cancelled at Bybit, the entry
  may be filled but for some lots, the fills known to the recovery may be old (`missed`).
* `MarginAssist`: `Begin .. Exhausted` are `_ensure_liquidation_buffer` (531-606), `ManualAdd` and `ManualNote`
  are `manual_add_margin` (1184-1230). Liquidation is safe from some added margin on (`needed`). `positionIM`
  is taken to grow with what is added, as `manual_add_margin` takes it when it subtracts `stored_extra`.
* `FillAccounting`: `Relevant` and `Synced` are `_sync_fills`, `NetPnl` is `recalc_pnl`, `Complete` the test of
  `_finalize_flat_trade`; `Listing` has the weeks of `executions`, and executions appear in it late. Two trades
  of a contract follow each other. A handler that marks a row and then finalizes it is two steps, the exchange
  acting between them. The hourly backfill is left out: a CLOSED trade is complete here (`BooksExact`).

### BridgeProtocol, BridgeDelivery, BridgeOutbox and the code

* `BridgeProtocol`: `Write` and `Post` are the clients (V2.6 builds with the package's protocol, V2.5 posts what
  lay in its outbox), `Arrive` is `_verify` and `signal` of bridge_server.py with `validate_event_payload`, in
  the order in which they answer 401, 400 and so on. Texts are their length or their spelling; the signature
  is what was signed and when.
* `BridgeDelivery`: `Post`, `Fails`, `Answer` are the scanner's tasks (scanner_v2_6/scanner.py:632-755), which
  post a command again if no answer came, `Raise` a request that ends in 500. `TakeUp` gives the handler the
  lock of the contract. `Execute*`, `Management*`, `Apply` and `Finish` are `execute` and `management`
  (executor.py:82-530, 979-1104) up to each write that a restart or another handler can follow. `ClaimAges` is
  the 30 s after which a PROCESSING event may be claimed again. `Decide` and `DecisionExecutes` are the
  operator, `TradeEnds` the exchange.
* `BridgeOutbox`: the handle a task keeps over an await (`doing`), the row and the outbox in SQLite, `watched`
  in memory; `Claim .. CloseStored` are the steps of `_close_active` (scanner_v2_5/scanner.py:762-788),
  `Delivered` and `Retried` the loop (624-648) with its back-off.

### Scanner V2.6 and the code

* `ScannerSignals`: a label of a task is the await it stands at, `s` the Signal object it holds meanwhile.
  `rows` is SQLite, `active`, `closing` and `management` the attributes of the same name. `Look .. MarkTarget`
  are `_realtime_price` and the monitor with `_hit_tp`; `StartClose .. FailClose` are `_close_active`;
  `Review`, `Manage`, `Context*` and `ScanRow` the reviews; `CreateRow .. AiAnswers` are `maybe_new_signal`,
  `FailOpening` its update of the validity that raises (791) after the row was created.
  Prices are the levels they reach. Three histories begin anew at start-up: `closes[w][s]` counts the closes of
  signal s that began while w was watched, `popped` holds signals that lost their entry without a close of
  their own, `unopened` those whose opening failed.
* `MarketScan`: `Scan` is `choose_candidates` with the stamps that `scan_once` writes; ranking and the signals
  that are active change freely between scans.
* `RestClient`: `get` and `_pace`, a task per call; the pacing lock is held over a sleep, which is where calls
  that passed the cooldown test wait.
* `HotMonitor`: `_refresh_hotlist` may run while `hot_monitor_loop` waits for an alert to be sent. `memory` is
  `early_notify_memory` as ages: `Still` is the pruning in `_refresh_hotlist` (242-243), `NotifyAllowed` the test
  of `_early_notify_allowed` (255), and `alerted` a history of its own that neither of them touches.
* `SafetyWatch`: `system_safety` on data that come and go, `Round` is `safety_watch_loop`.
* `SetupAnalysis`: what candles come to (means, extremes, RSI, volume) is an input, the decision is computed as
  in `analyze`. Prices are offsets from the last price, in hundredths of the 5m ATR, so a part of a level
  (0.2% of it) is taken as that part of the last price, and the mirror image of a market is additive.
  `MirroredAnalysis` leaves out markets whose last 5m bar has no range (section 4).
* `CandleReplay`: candles come one by one; both policies are computed side by side.

## 3. Runs

Most instances set `CHECK_DEADLOCK FALSE`: the bounds on deliveries, commands, faults and crashes exhaust, and
with no row left there is nothing to do; the real system waits there too. A trade (`StopProtection`), an order
plan, an analysis or a replay ends. Those of `PendingSignals` check deadlock: its loop always has a next step.

| run | instance | shows |
|---|---|---|
| `demo_executor_safety` | 2 signals, 1 symbol, 2 deliveries of either, 2 workers, loop, 2 commands, 1 fault, 1 crash, late fills | `ExposureIsManaged`, `ClosedHasOwnExit`, `EmergencyIsDefinitive`, `SubmittedOnce` |
| `demo_executor_portfolio` | 2 signals on 2 symbols, cap 1, 1 fault, 1 crash, no late fills | `PositionsWithinCap`, `EmergencyLeavesFlat` |
| `demo_executor_recovery` | 1 signal, 1 command, 2 faults, 1 crash, late fills, fairness | `FlatTradeSettles`, `RecoveryCompletes`, `EmergencyStopFinishes` |
| `demo_executor_one_per_symbol` | 2 signals, 1 symbol, no fault, no crash | violation: finding 1 |
| `pending_signals_safety` | 2 signals, 1 symbol, 2 workers, loop, price tasks, 2 commands, 1 restart into either mode (commands and restart at most three together) | `OneDecider`, `RefusalStands` |
| `pending_signals_resolved` | 2 signals on 2 symbols, 1 worker, loop, a command or a restart, 1 failing call for a ticker, one symbol whose ticker may fail for good, attempts that raise without bound, either mode, fairness | `DecisionResolves`, `WatchedInTurn` |
| `stop_protection` | a long, a short and a slipped long trade on 5 ticks, loop, 2 incidents, fairness | `ProtectedMeansStop`, `ImplementsLifecycle` (refinement of `ProtectedStop`), `DatabaseStopInForce`, `FilledTargetProtects` |
| `stop_loosened` | a long or a short trade, loop and `sync_now`, 1 incident | violation: finding 2 |
| `bridge` | see below | `AppliedOnce`, `AppliedCloseHolds`; `AgeIsHarmless`, `HandedAsMeant`; `RiskWithinBudget`, `TargetsMatchPosition`; `MarginBounded`; `BooksExact`, `SettledOnceListed` |
| `outbox` | 1 signal, 2 reasons to close, a task with an old handle and one with a fresh one, 1 crash, 1 failing write, fairness | `CloseIsQueued`, `EveryEventDelivered` |
| `scanner_v26` | see below | `OrphansExplained`, `OneClosePerWatch`, `MarksComplete`, `NeverReplaced`, `ExecuteRelayed`; `WaitBounded`; `SlipsOnce`; `AlertsSpaced`; `AnnouncementFollows`; `MirroredAnalysis`; `AdverseIsNoBetter`, `ResultWithinExcursions` |
| `signal_orphaned` | the scan, the price loop and the context task, 2 signals | violation: finding 3 |

The parts of `bridge`: two EXECUTE and a CLOSE for one contract, two attempts each of signal 1's, one restart, one
handler that raises; one command of several hundred, sound and unsound, with clocks apart; 96 orders (lots that
divide the price or not, leverage within and out of its limits, budgets below and above the floor), two restarts and
a cancelled target; positions that need no, some or too much margin, at the largest ratio the configuration admits
(config.py:135), with which 20 turns are just enough; two trades with executions in two halves, two weeks, a position
missing by mistake or a listing that fails.

The parts of `scanner_v26`: two signals under two tasks with a restart and a failing write, or under three without;
six contracts for three places a scan; three calls with two 403 answers; one contract of the hot list, alerted again
after 2 ticks and remembered for 6; data that come and go under a grace of three rounds; 54000 markets from all
views of the time frames and all triggers, with bars of no range; four candles of seven prices.

Bounds. Two signals are the fewest that contend for a lock, a symbol, the cap or an execution; the two deliveries
are one of each, or two of one signal, which is a redelivery. Two passes that hold rows of one trade are left to the
theorems of section 5. A command is a pause, a close, a close-all or an emergency stop; two make a stop and a
resume. One crash and one fault, anywhere, reach every recovery path; the recovery run has two faults so that
recovery itself fails. For safety the theorems of section 5 remove the bounds.

In the decisions, two signals of one symbol are what supersedes and what the commands by symbol choose
between; two workers beside the loop and the price tasks make every pair of a button, a request, a
command and a loop race for one row; two commands make a decision be approved and refused, or told to
wait and approved. A restart ends everything in flight at any step. For liveness the signals are of two
symbols, so that both wait and the loop has a second row to come to, and a command or a restart interferes
(`MaxEvents`). An attempt that raises is not counted among the faults: an empty wallet or a quantity below the lot
raises again at each pass (executor.py:260-355).

For the stop, an incident is a MOVE_SL, a stop set by hand, a call that raises or a restart; two of any
kind, at any step, make an attempt fail and its retry too, a lost answer followed by a restart, a MOVE_SL
against a hand edit. The price moves freely over five ticks: the four of the plan and one beyond, so that a
stop may be stricter than any milestone's. One pass is enough, since all else happens under its lock.

In the scanner, two signals of one contract are what an old handle confuses; two tasks meet with all faults, and
three without, since a third only repeats what two can do to a row. Six contracts make two rounds of the rotation
lane. A contract of the hot list has two keys to be alerted by, its sides, and nothing relates two contracts; an
interval of 2 ticks and a memory of three intervals are apart enough for a key to be pruned too early, too late or
at its time. Three calls are one that meets 403 and two that have passed the test before. In the bridge, the second
attempt of a command is the repetition and the restart makes it meet a claim that was left.

`PositionsWithinCap` and `EmergencyLeavesFlat` need `LateFills = FALSE`. If an entry can fill after the
failsafe's polls have given up, its row is CLOSED_SYNCING meanwhile, which `active()` does not list: the
cap admits another entry and an emergency stop does not visit the row. The pass finds the position
later (`ExposureIsManaged` holds), but for a while the account is over the cap, or not flat.

Fairness (`FairSpec`). Each coroutine runs on when it can, because asyncio's ready queue is FIFO (weak fairness of
`Continue`). `reconcile_loop` never ends, so it reads rows again and again; `sync_now` passes are assumed to come
again too where they are in the instance (the liveness runs have only the loop). A row that keeps waiting grows
older than 30 s (strong fairness of that branch: every pass may meet it young, not for ever). Bybit settles an
accepted market entry, and a market close it was sent. In `PendingSignals` a coroutine runs on when it can, the loop
comes again, and a lock is obtained by one who waits for it while others take turns (strong fairness of `Locking`:
asyncio locks are first come, first served; price tasks take none). Nothing is assumed of price tasks: a decision
without a message has none. In `StopProtection` whoever has the lock goes on, the loop reads the row again and gets
the lock in its turn, and a back-off ends (strong fairness of `Retry`: each pass may come too early, not for ever).
In `ScannerSignals` the scan goes on from a created row to its watch, or to the exception that ends it, and from the
watch to the relay (one coroutine; the shadow check before the relay catches its failures); in `SafetyWatch` the
loop's rounds go on. In `BridgeOutbox` a back-off ends, and an event that is posted again and again is delivered
some time (strong fairness of `Delivered`): the bridge does not refuse for ever what the loop never stops to offer.
No fairness is assumed of commands, first deliveries, stops or crashes. Faults and crashes are finite: nothing
recovers if every call fails for ever.

Every property has a mutant: an operator beside the modelled definition with a plausible bug in it, under
which the run fails.

## 4. Findings

1. **A closed trade comes back beside a newer one** (`demo_executor_one_per_symbol`). `reconcile_loop`
   reads all rows, then waits for each symbol's lock and trusts the row it read (executor.py:1324-1326).
   If `close_trade` held the lock, the pass goes on with CLOSING in hand, marks the meanwhile CLOSED trade
   RECOVERY_REQUIRED, and its failsafe closes whatever position the symbol has, also a newer trade's.
   The README of the AutoTrader promises one managed position per symbol.
2. **A tightened stop is loosened** (`stop_loosened`). `_recover_opening_trade` sets the stop of the row
   it was given (executor.py:1477). A pass that read the row while the trade was opening, and gets to it
   after a MOVE_SL, puts the first stop back. The README of the AutoTrader says the monotonic guard never
   permits that. Nothing else does (`SendsNoWeaker`, proved), and the next pass restores it
   (`DatabaseStopInForce`).
3. **A signal loses its slot to an older one's close** (`signal_orphaned`). `_close_active` tests and removes the
   contract's entry in `self.active`, but closes the Signal object it was given (scanner_v2_6/scanner.py:891-910).
   A price task that held signal 1 over a database write meets signal 2 there, closes signal 1 again and pops
   signal 2, which stays ACTIVE and unwatched until a restart. The comment at line 134 says active signals do not
   lose their slot. The AutoTrader gets a second close event of signal 1, and none of
   signal 2. `OneClosePerWatch` says how far that goes: a watch ends in one close, of its own signal or of an
   older one whose own watch had ended before. `OrphansExplained` is the positive half: an ACTIVE row that nobody
   watches comes from this, from a close that could not be written, from a second row at start-up, or from an
   opening that failed after the row was created.

Seen on the way and described here without a run of their own:

* `close_trade` says "Position still visible; recovery will retry" (executor.py:1131); a pass that holds the row
  as OPENING restores protection and makes the trade ACTIVE again, and nothing retries the close.
  `RecoveryCompletes` covers trades without an older row in hand.
* If the entry request never reached the exchange, the row goes to CLOSED_SYNCING and waits for executions that
  will never exist, and keeps the symbol busy (executor.py:701-716, 1748). `FlatTradeSettles` is about filled trades.
* `waiting_entry_loop` visits the waiting rows oldest first inside one `try` (executor.py:897-975): while the
  ticker of the oldest fails, those behind it are not looked at. The same if the oldest is in its zone and its
  attempt raises, which it may do at every pass for the same reason (an empty wallet, a quantity below the lot, a
  risk over the budget; executor.py:260-355): the row is released (813-817) and the exception ends the pass (974).
  The README of the AutoTrader (line 26) says that a waiting signal is retried until it enters the zone or expires.
  `WatchedInTurn` excepts the two cases, and shows that there is no third.
* A new EXECUTE is a row first, then an update of its validity (scanner_v2_6/scanner.py:784-791), then the watch and
  the relay. If the update raises, the scan ends (875) and the row stays ACTIVE, unwatched and not relayed, until a
  restart watches it; relayed it never is. `OrphansExplained` and `ExecuteRelayed` name that case (`unopened`).
* An early alert that Discord does not take counts as sent: its key is in the memory before the await
  (scanner.py:253-262), and it is not repeated within the interval.
* `Storage.init` makes a claimed decision PENDING (storage.py:258), also one that was WAITING_ENTRY.
* The cap on added margin (README.md:17 of the AutoTrader) is one per call of the assist: a recovery of an
  interrupted opening calls it again and takes the grown `positionIM` for the initial margin (executor.py:565).
  `MarginBounded` is about trades whose opening was not interrupted.
* An execution later than 60 s after a flat position was first seen by mistake is never listed
  (storage.py:593, executor.py:1807), and its trade is not closed: `Late` in `FillAccounting`.
* `close_position` of a bar without a range is 0 (indicators.py:50 of V2.6): it counts as closing at its low for a
  LONG and for a SHORT alike, so a flat 5m bar may confirm a SHORT where its mirror image does not confirm a LONG.
  The attempt to prove `MirroredAnalysis` for all markets failed there, and TLC shows the case.
* A MANAGEMENT close that arrives before its EXECUTE, or while the decision is PROCESSING, is answered with a
  skip and not remembered (executor.py:983-1002): `AppliedCloseHolds` is about closes that were applied.

## 5. Proofs

TLAPS proves, for any sets of signals, symbols, workers and reconcilers, any cap and any bounds
(`ConstantsAssumption` only asks that these sets are disjoint where the code's tasks are), late fills
included:

* `Invariant`: `Spec => [](TypeOK /\ IInv)`;
* `TypeCorrect`, `LocksExclude`, `ExposureAlwaysManaged`, `ErrorFlatIsFinal`, `ClosedIsProven`: the
  invariants, each read off `IInv`;
* `OneSubmission` and `EmergencyListDefinitive`: the action properties, from `IInv`.

Why `IInv` is needed. `ClosedHasOwnExit` is not inductive: `_sync_fills` books every exit of the symbol since
the row's creation, so what must be known is how the trades of a symbol follow each other.

* `LockInv`: a coroutine at a label inside a lock's block is first in its queue. Two are never first
  (`OneOwner`), so one coroutine at a time changes a symbol's rows.
* `RowInv`: ids grow and identify trades; a coroutine at work on a trade works on one that has a row.
* `EntryInv`: an entry under way on a symbol is the newest row, nothing older of the symbol is managed.
* `OrderInv`: only trades with a row have orders; positions belong to filled orders; what a coroutine saw of
  an order (cancelled, or settled) is still true when it decides.
* `BookedInv`: an exit is booked only to a trade of its symbol that is no newer than its own.
* `NewerInv`: when a symbol has a newer row, the older trade's order is settled and, if it filled, its own
  exit is booked to it. This is what makes the booking by time safe: the older exit is taken already. It holds
  because an entry needs `Managed(s) = {}`, and a trade leaves `Managed` only as CLOSED or ERROR_FLAT.
* `EmergencyInv`: after the stop has the entry lock, nobody is between the pause check and the order.

The proof has one lemma per part and, under it, one step per action that can disturb it. The actions are first
grouped by what they do to the order, the row, the position and the fills (`OrderMoves`, `RowMoves`,
`PositionMoves`, `FillMoves`, `StatusMoves`), so that each part is proved against a handful of kinds of step
and not against forty actions.

### The cap and the emergency stop

`PortfolioInvariant`, `CapRespected` (`PositionsWithinCap`) and `EmergencyStopIsComplete`
(`EmergencyLeavesFlat`), for any constants with `~LateFills`. The hypothesis is the code's own: it polls an
entry for 2 to 20 s and takes an order that has not shown by then as never filled. Section 3 says what a later
fill does.

* `PollInv`: a row that says PROTECTING, ACTIVE or CLOSED_SYNCING has a decided entry, and after
  CLOSED_SYNCING nothing of it is left on the account. This is claimed of the rows stored, of the snapshots
  and of the row in hand, since the passes decide on the last two.
* `CapInv`: an exposed trade is in a status that the count sees; the count is taken under the entry lock, so
  between it and the order there is room for one more symbol.
* `ListInv`: from the moment the emergency stop has read its rows, what is exposed is on its list or being
  closed, because nothing passes the pause check any more (`EmergencyInv`).

### PendingSignals

`Invariant` (`Spec => [](TypeOK /\ IInv)`), `OneDeciderHolds`, `OpensOnceHolds`, `ApprovedWasOpenedHolds` and
`RefusalStandsHolds`, for any signals, symbols, workers, modes and bounds. The parts of `IInv`:

* `JobInv`: a coroutine in a handler has a signal; an idle worker holds no claim.
* `LockInv`: whoever is inside `entry_guard`, or a symbol's lock, owns it; so one coroutine at a time is
  between the duplicate check and the order, which gives `OpensOnce`.
* `ClaimedInv`: while a task acts on a claim, the row is PROCESSING or final by someone else's hand, and never
  actionable: nobody can claim it again (`OneDecider`) and no refusal reaches it.
* `RefusedInv`: a refusal is final; no transition leads out of a final status, and `save_pending` only inserts
  a row where there is none.
* `ApprovingInv`: in SHADOW_MANUAL mode only a claimer gets past the shadow check. With `ClaimedInv`, what is
  opened is not refused: `RefusalStands`.
* `SettleInv`: a claimer that is about to write APPROVED has seen the trade.

The proof groups the actions by how they change the table (`Moved`, `ClaimsNow`), has one lemma per part and
under it one step per action.

### StopProtection

`Invariant`, `ProtectedStopInPlace`, `NothingWeakerSent` and the refinement `StopLifecycle` (`Spec =>
ImplementsLifecycle`), for any prices, plans and passes and any number of incidents. The lemmas on
`RiskLifecycle` (`StrictnessOrders`, `StrictestIsStrictest`, `EffectiveProtects`) say what a decision
guarantees; the rest is about when it is taken, on what was read before. The parts of `IInv`:

* `SeenInv`: from the restoration on, the database's stop is no weaker than the one the pass saw. This is why
  a decision on the old `seen` is a decision on the database's stop (`CurrentIsDatabases`), and why NOT_NEEDED
  may be recorded without looking at Bybit again.
* `TargetInv`: a stop being set is no weaker than the database's, and reaches the milestone's; after the
  commit the database's does.
* `AttemptInv`: only a milestone that was reached and is not protected is attempted, so a failure never takes
  a protection back.

`StepAdvances` sums up what any step does to stop and protection; `ProtectedMeansStop` and both actions of
`ProtectedStop` follow from it.

### The way of a command (BridgeParts)

`BridgeParts_proofs` has an invariant for each part. A step of another part leaves the variables that it is
about alone, and `part` never changes. The assumptions are on inputs: natural or positive numbers, as the
validation of the configuration, Bybit and the models of the payload let through; each is named at its
`ASSUME` with the lines that justify it.

* Delivery (`DeliveryHolds`, `TypeCorrect`, `Idempotent`, `AppliedCloseIsFinal`, `OthersSpared`), for any
  commands, attempts, restarts and handlers that raise: what is under way has attempts left (`PostsLeft`); the
  one handler at work holds the lock and, in `apply`, a claim that is its own (`HandlerAtWork`); the event's
  status bounds how often it was applied (`CountedOnce`); one trade of the contract is open (`OneOpen`); a
  signal whose close was applied is not open, and its row in `trades` keeps every later EXECUTE out
  (`CloseHolds`).
* Protocol (`CommandsDoNotAge`, `CommandsAreHandedAsMeant`), for all requests, any skew and tolerance: what
  was signed is the time of the post and not of the writing (`PostInv`), what lay in an outbox still says what
  was written (`WrittenInv`), and what each answer says of the way behind it (`AnswerInv`).
* Orders (`RiskIsWithinBudget`, `TargetsSellThePosition`), for any market, lot, leverage, split and number of
  crashes. Quantities are whole lots (`LotsInv`), an order of a given state has what that state allows
  (`StageInv`, `TargetInv`). `SumInv`, `PlacingInv` and `RestoringInv` say what of the bought quantity the
  orders, the targets still to place and the fills in between account for; `left` is exact unless an old list
  of fills was read (`missed`).
* Margin (`MarginHolds`, `MarginIsBounded`), for any position and any ratio that a quarter of the cap in 20
  turns reaches: `TurnsInv` counts what the turns left can still add, `BooksInv` says that the row and Bybit
  differ by the amount being noted, `FirstCallInv` that the cap is on the initial margin as long as one call
  was made.
* Fills (`FillsHold`, `BooksAreExact`, `ListedIsSettled`), for any trades, prices, sides, weeks and grace: an
  execution belongs to a trade that has begun (`ShapeInv`), trades follow one another (`FollowInv`); a trade
  buys two and sells no more (`SizeInv`); it is booked to its own trade, an exit after its entries
  (`BookedInv`), so a trade whose booked exits match its booked entries has all of its executions booked
  (`CompleteIsAll`, `ClosedInv`); the result kept is that of what is booked (`NetInv`), and with all of it
  booked it is the cash that moved (`NetIsCash`).

Sums over executions are a recursive function. What it computes is shown without an induction theorem: of the
natural numbers up to which a sum might not be what the recursion says, there would be a least
(`LeastNatural`, from `WFMin`), and it is neither 0 nor a successor. From this come existence and uniqueness
(`SumExists`, `SumUnique`), the value at one more execution (`SumStep`), and the sum of a set that gains an
element.

### BridgeOutbox

`BridgeOutbox_proofs`: `Invariant`, `TypeCorrect` and `ClosesReachTheOutbox` (`CloseIsQueued`), for any
signals, reasons, tasks and faults. What must be known besides is `CloseInOrder`: a task that is about to
write the row has queued the event, in the same claim of the contract.

### ScannerSignals

`SignalsInvariant`, `OrphansAreExplained`, `AtMostOneClose`, `MarksAreComplete` and `WatchedIsNeverReplaced`,
for any crew of tasks, signals, restarts and failing writes. Every step is one of a few kinds (`StepKinds`:
quiet, starts a close, counts a target, marks it, ends a close, opens a signal, restarts), and the parts of
the invariant are proved against the kinds:

* `CreatedInv`: rows are numbered as they are created; only a signal with a row is held.
* `OpeningInv`: while the scan opens a signal nothing is watched, and no other task holds the new signal. This
  is why the scan never replaces a watched one, although it tested for that several awaits earlier.
* `ClosingInv`: `closing` is set exactly while one task is at its close.
* `WatchInv`: the signal watched had no close in its watch but for the one being written, a signal not yet
  watched had none, and whatever else a task still holds is older than the signal watched and had its close in its
  own watch. This gives `OneClosePerWatch`: who closes an older signal does so in a later watch.
* `MarkInv`: while no mark was lost, a counted target is in the row or on its way there, and those before it
  are counted. After a restart or a failed write the targets in memory and in the row part, so this is claimed
  without them.

### Scanner V2.6 part by part (ScannerParts)

* REST client (`CallsSlipOnce`, `RestInv`): while a call waits for its turn it has not slipped in this
  cooldown.
* Hot list (`AlertsAreSpaced`, `HotInv`), for any contracts, intervals and floor: an alert younger than the interval
  is remembered, and with its age, because nothing is pruned before three intervals.
* Scan (`RotationReachesAll`, `ScanInv`), for any contracts, places and rankings: the contracts analysed
  longer ago form a queue. With `f` free places in the rotation lane, `f` times the rounds that a contract has
  waited and the number of contracts ahead of it together stay below the number of contracts: each round it is
  analysed or `f` of those ahead of it go behind. Contracts without data and the places they take every round
  are counted apart (`short`).
* Replay (`AdversePolicyIsNoBetter`, `ResultsAreWithinExcursions`, `ReplayInv`), for any setups, candles and
  lengths: the two policies agree until a candle holds both stop and target, where the adverse one closes with no
  more; what each has realised and would realise at its stop lies within the excursions seen (`RunInv`).
* Analysis (`HalvesAgree`), for all markets and thresholds, but for a draw of the two sides, a 15m bar with
  volume that closed where it opened, and a 5m bar without a range: one lemma a rule says that its LONG half
  on a market is its SHORT half on the mirrored market, from the trends and triggers to the levels, the scores
  and the gates.

### What is only model-checked

Every invariant and every action property of a passing run has a theorem. Only model-checked are the temporal
properties, which rest on fairness and so on ENABLED, out of the prover's reach: `FlatTradeSettles`,
`RecoveryCompletes`, `EmergencyStopFinishes`, `DecisionResolves`, `WatchedInTurn`,
`DatabaseStopInForce`, `FilledTargetProtects`, `ExecuteRelayed`, `AnnouncementFollows` and
`EveryEventDelivered`. The refinement of `ProtectedStop` is proved in full, since it promises no liveness.
Proved, and in no run's configuration: `TypeOK` and the inductive invariants, `ErrorFlatNeverFilled`,
`MutualExclusion`, `ApprovedWasOpened`, `OpensOnce`, `SendsNoWeaker` and `SparesOthers`. No module declares a
RECURSIVE operator.

## 6. Not modelled

* The AI judge and `enhancements.py` (early candidates, shadow score, validity): external answers and
  heuristics, which the scanner's modules take as inputs in every value they distinguish.
* The indicators' averages (`ema`, `rsi`, `atr`): floating-point arithmetic without a state of its own.
* Scan, hot list and analysis of V2.5: superseded by V2.6, where the same operations are modelled.
* SMART position observer, statistics, event log, notifications, message layout: they change nothing that is
  modelled.
* Start-up, configuration parsing, preflight, release tooling; HMAC, JSON and HTTP below the bridge.
* Orders placed by hand on the account other than closes; paging of the execution listing; `quantize_price`.

## 7. What could come next

An abstract trade life cycle that `DemoExecutor` implements, as `StopProtection` does `ProtectedStop`;
`BridgeDelivery` composed with `ScannerSignals`, so that the order of EXECUTE and close is the scanner's own;
the safety halves of `SafetyWatch` (an announcement names a freeze that lasts) and of `HotMonitor`'s
cancellations.
