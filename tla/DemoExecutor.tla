---------------------------- MODULE DemoExecutor ----------------------------
(***************************************************************************)
(* The trade life cycle of the AutoTrader (apps/autotrader/executor.py):   *)
(* bridge requests, operator commands and the reconcile tasks are asyncio  *)
(* coroutines that interleave at every await.  Entries are serialised by   *)
(* one global lock, work on a symbol by one lock per symbol; trade rows    *)
(* live in SQLite and survive a crash, the Bybit account is outside the    *)
(* process altogether.                                                     *)
(*                                                                         *)
(* One step of a coroutine is the code between two awaits that matter: a   *)
(* row write or an exchange call whose result another coroutine, the       *)
(* exchange or a crash could change before the next one.                   *)
(***************************************************************************)
EXTENDS Naturals, FiniteSets, Sequences

CONSTANTS
  Signals,       \* signal ids; trades.signal_id is UNIQUE, so a signal names its trade
  Symbols,       \* traded contracts
  SymbolOf,      \* the contract of each signal
  Workers,       \* coroutines serving bridge requests and Discord commands
  Reconcilers,   \* coroutines running the reconcile pass: reconcile_loop, sync_now
  Loop,          \* the one that is reconcile_loop
  Ops,           \* the coroutine of close_all / emergency_stop
  None,          \* no coroutine, no trade
  MaxOpen,       \* cfg.max_open_positions
  LateFills,     \* may an accepted entry become visible after a poll gave up?
  MaxDeliveries, \* bound: EXECUTE requests, bridge retries included
  MaxCommands,   \* bound: operator and management commands
  MaxFaults,     \* bound: exchange calls that raise
  MaxCrashes     \* bound: process crashes

Procs == Workers \cup Reconcilers \cup {Ops}

ASSUME ConstantsAssumption ==
  /\ SymbolOf \in [Signals -> Symbols]
  /\ None \notin Signals \cup Procs
  /\ Workers \cap Reconcilers = {}
  /\ Ops \notin Workers \cup Reconcilers
  /\ LateFills \in BOOLEAN
  /\ {MaxOpen, MaxDeliveries, MaxCommands, MaxFaults, MaxCrashes} \subseteq Nat

\* mutants: no entry in progress, no recovery
LiveConfirmed == {"PROTECTING", "ACTIVE", "CLOSING", "RECOVERY_REQUIRED"}
LiveHealthy == {"OPENING", "ENTRY_SUBMITTED", "PROTECTING", "ACTIVE", "CLOSING"}
Live == {"OPENING", "ENTRY_SUBMITTED", "PROTECTING", "ACTIVE", "CLOSING",
         "RECOVERY_REQUIRED"}
ReconcilableLive == Live                \* mutant: no trade waiting for its fills
Reconcilable == Live \cup {"CLOSED_SYNCING"}
Absent == "ABSENT"                      \* no row yet
Statuses == Reconcilable \cup {"CLOSED", "ERROR_FLAT", Absent}
OrderStates == {"none", "inflight", "filled", "cancelled"}

(***************************************************************************)
(* Where a coroutine stands.  EntryHeld and SymbolHeld are the labels at   *)
(* which it owns the entry lock and its job's symbol lock.                 *)
(***************************************************************************)
Submitting == {"E_room", "E_create", "E_submit"}  \* past the pause switch, nothing sent yet
Executing == {"E_check", "E_mark", "E_wait", "E_protect", "E_fail"} \cup Submitting
Recovering == {"F_cancel", "F_close", "F_flat", "F_settle"}
Closing == {"C_begin", "C_send", "C_flat"}
Opening == {"O_begin", "O_protect", "O_poll"}
SymbolHeld == Executing \cup Recovering \cup Closing \cup Opening
                \cup {"R_trade", "finalize", "release"}
Labels == SymbolHeld \cup {"idle", "E_entry", "E_symbol", "C_symbol", "R_symbol", "X_symbol",
                           "R_next", "X_entry", "X_rows", "X_next"}

VARIABLES
  status, rowid, lastId,      \* SQLite: trades (status, id), last id given out
  entryFill, exitTo,          \* SQLite: fills (entry seen; trade an exit was booked to)
  enabled,                    \* SQLite: settings.auto_enabled
  ord, pos, closing,          \* exchange: entry orders, positions, market closes sent
  entryLock, symLock,         \* the asyncio locks: owner first, then the waiters (FIFO)
  pc, job, row, seen, snap,   \* coroutines: label, trade, row in hand, order seen, rows read
  deliveries, commands, faults, crashes,   \* counters that bound the environment
  stopped, missed             \* history: reach of the last emergency stop; unconfirmed close

book == <<rowid, lastId>>
fills == <<entryFill, exitTo>>
exch == <<ord, pos, closing>>
locks == <<entryLock, symLock>>
hand == <<job, row, seen, snap>>
bounds == <<deliveries, commands, crashes>>
hist == <<stopped, missed>>
vars == <<status, book, fills, enabled, exch, locks, pc, hand, bounds, faults, hist>>

RowsTyped ==
  /\ status \in [Signals -> Statuses]
  /\ rowid \in [Signals -> Nat] /\ lastId \in Nat
  /\ entryFill \in [Signals -> BOOLEAN]
  /\ exitTo \in [Signals -> Signals \cup {None}]
  /\ enabled \in BOOLEAN
AccountTyped ==
  /\ ord \in [Signals -> OrderStates]
  /\ pos \in [Symbols -> SUBSET Signals]
  /\ closing \in [Symbols -> Signals \cup {None}]
TasksTyped ==
  /\ entryLock \in Seq(Procs)
  /\ symLock \in [Symbols -> Seq(Procs)]
  /\ pc \in [Procs -> Labels]
  /\ job \in [Procs -> Signals \cup {None}]
  /\ row \in [Procs -> Statuses]
  /\ seen \in [Procs -> OrderStates]
  /\ snap \in [Procs -> [Signals -> Statuses]]
BoundsTyped ==
  /\ deliveries \in Nat
  /\ commands \in Nat /\ faults \in Nat /\ crashes \in Nat
  /\ stopped \in {"no", "entries", "all"} /\ missed \in BOOLEAN
TypeOK == RowsTyped /\ AccountTyped /\ TasksTyped /\ BoundsTyped

Init ==
  /\ status = [t \in Signals |-> Absent]
  /\ rowid = [t \in Signals |-> 0] /\ lastId = 0
  /\ entryFill = [t \in Signals |-> FALSE]
  /\ exitTo = [t \in Signals |-> None]
  /\ enabled = TRUE
  /\ ord = [t \in Signals |-> "none"]
  /\ pos = [s \in Symbols |-> {}]
  /\ closing = [s \in Symbols |-> None]
  /\ entryLock = <<>>
  /\ symLock = [s \in Symbols |-> <<>>]
  /\ pc = [p \in Procs |-> "idle"]
  /\ job = [p \in Procs |-> None]
  /\ row = [p \in Procs |-> Absent]
  /\ seen = [p \in Procs |-> "none"]
  /\ snap = [p \in Procs |-> [t \in Signals |-> Absent]]
  /\ deliveries = 0
  /\ commands = 0 /\ faults = 0 /\ crashes = 0
  /\ stopped = "no" /\ missed = FALSE

-----------------------------------------------------------------------------
(***************************************************************************)
(* Reading the rows and the exchange.                                      *)
(***************************************************************************)
InSymbol(s) == {t \in Signals : SymbolOf[t] = s}
LiveTrades == {t \in Signals : status[t] \in Live}
Managed(s) == {t \in InSymbol(s) : status[t] \in Reconcilable}

\* active_for_symbol: the newest reconcilable row of the symbol.
IsActiveFor(t, s) == t \in Managed(s) /\ \A u \in Managed(s) : rowid[u] <= rowid[t]

PositionOn(t) == pos[SymbolOf[t]] # {}

\* A poll that gives up: nothing is visible.  Unless LateFills, the poll
\* outlasts an accepted order of this trade.
NoPositionFor(t) == pos[SymbolOf[t]] = {} /\ (LateFills \/ ord[t] # "inflight")

Exited(t) == ord[t] = "filled" /\ t \notin pos[SymbolOf[t]]

\* An exchange call that raises, out of a bounded budget.
Fault == faults < MaxFaults /\ faults' = faults + 1
NoFault == UNCHANGED faults

\* A coroutine reaching `async with lock` queues; it goes on when it is first.
Owns(p, queue) == queue # <<>> /\ Head(queue) = p
Enqueue(p, t) == symLock' = [symLock EXCEPT ![SymbolOf[t]] = Append(@, p)]

Goto(p, l) == pc' = [pc EXCEPT ![p] = l]
Mark(t, s) == status' = [status EXCEPT ![t] = s]

\* _sync_fills: the entry is found by its link; every execution that closes
\* size on the symbol since the row was created is booked to this trade, unless
\* exec_id already is.
SyncFills(t) ==
  /\ entryFill' = [entryFill EXCEPT ![t] = ord[t] = "filled"]
  /\ exitTo' = [u \in Signals |->
                  IF /\ exitTo[u] = None /\ SymbolOf[u] = SymbolOf[t]
                     /\ rowid[u] >= rowid[t] /\ Exited(u)
                  THEN t ELSE exitTo[u]]

\* _finalize_flat_trade's test, on the fills just synchronised.
FillsEntered(t) == entryFill'[t]        \* mutant: any exit will do
FillsComplete(t) == entryFill'[t] /\ \E u \in Signals : exitTo'[u] = t

\* _sync_fills swallows an error of the execution listing and leaves the fills.
TrySync(t) == \/ SyncFills(t) /\ NoFault
              \/ Fault /\ UNCHANGED fills

-----------------------------------------------------------------------------
(***************************************************************************)
(* execute: the bridge delivers (and redelivers) an EXECUTE signal.        *)
(***************************************************************************)
DeliverExecute(p, t) ==
  /\ pc[p] = "idle" /\ p \in Workers
  /\ deliveries < MaxDeliveries
  /\ deliveries' = deliveries + 1
  /\ job' = [job EXCEPT ![p] = t]
  /\ entryLock' = Append(entryLock, p)
  /\ Goto(p, "E_entry")
  /\ UNCHANGED <<status, book, fills, enabled, exch, symLock, row, seen, snap,
                 commands, crashes, faults, hist>>

\* entry_guard: the global lock first, then the symbol's.
LockEntry(p) ==
  /\ pc[p] = "E_entry" /\ Owns(p, entryLock)
  /\ Enqueue(p, job[p])
  /\ Goto(p, "E_symbol")
  /\ UNCHANGED <<status, book, fills, enabled, exch, entryLock, hand, bounds, faults, hist>>

LockSymbol(p) ==
  /\ \/ pc[p] = "E_symbol" /\ Goto(p, "E_check")
     \/ pc[p] = "R_symbol" /\ Goto(p, "R_trade")
     \/ pc[p] \in {"C_symbol", "X_symbol"} /\ Goto(p, "C_begin")
  /\ Owns(p, symLock[SymbolOf[job[p]]])
  /\ UNCHANGED <<status, book, fills, enabled, exch, locks, hand, bounds, faults, hist>>

\* The early returns before a row exists, in their order: duplicate signal, trading
\* paused; then portfolio cap, symbol busy here or on the exchange.  Expiry, entry
\* window and sizing may end any request the same way.
AcceptedAgain(t) == enabled             \* mutant: a signal seen before
Accepted(t) == status[t] = Absent /\ enabled

HasSymbol(t) == Managed(SymbolOf[t]) = {} /\ ~PositionOn(t)   \* mutant: no portfolio cap
HasRoom(t) == Cardinality(LiveTrades) < MaxOpen /\ Managed(SymbolOf[t]) = {} /\ ~PositionOn(t)

ExecuteCheck(p) ==
  /\ pc[p] = "E_check"
  /\ \/ Accepted(job[p]) /\ Goto(p, "E_room")
     \/ Goto(p, "release")
  /\ UNCHANGED <<status, book, fills, enabled, exch, locks, hand, bounds, faults, hist>>

ExecuteRoom(p) ==
  /\ pc[p] = "E_room"
  /\ \/ HasRoom(job[p]) /\ Goto(p, "E_create")
     \/ Goto(p, "release")
  /\ UNCHANGED <<status, book, fills, enabled, exch, locks, hand, bounds, faults, hist>>

\* create_trade and set_order_plan.
ExecuteCreate(p) ==
  /\ pc[p] = "E_create"
  /\ Mark(job[p], "OPENING")
  /\ lastId' = lastId + 1
  /\ rowid' = [rowid EXCEPT ![job[p]] = lastId + 1]
  /\ Goto(p, "E_submit")
  /\ UNCHANGED <<fills, enabled, exch, locks, hand, bounds, faults, hist>>

\* set_leverage and place_market_entry: accepted; accepted but the answer is
\* lost; rejected or never sent; rejected by the contract agreement while flat.
ExecuteSubmit(p) ==
  /\ pc[p] = "E_submit"
  /\ \/ /\ ord' = [ord EXCEPT ![job[p]] = "inflight"]
        /\ NoFault /\ Goto(p, "E_mark") /\ UNCHANGED status
     \/ /\ ord' = [ord EXCEPT ![job[p]] = "inflight"]
        /\ Fault /\ Goto(p, "E_fail") /\ UNCHANGED status
     \/ Fault /\ Goto(p, "E_fail") /\ UNCHANGED <<ord, status>>
     \/ /\ Fault /\ ~PositionOn(job[p])
        /\ Mark(job[p], "ERROR_FLAT") /\ Goto(p, "release") /\ UNCHANGED ord
  /\ UNCHANGED <<book, fills, enabled, pos, closing, locks, hand, bounds, hist>>

ExecuteMarkSubmitted(p) ==
  /\ pc[p] = "E_mark"
  /\ Mark(job[p], "ENTRY_SUBMITTED")
  /\ Goto(p, "E_wait")
  /\ UNCHANGED <<book, fills, enabled, exch, locks, hand, bounds, faults, hist>>

\* _wait_position for 12 s, then PROTECTING.
ExecuteWait(p) ==
  /\ pc[p] = "E_wait"
  /\ \/ PositionOn(job[p]) /\ Mark(job[p], "PROTECTING") /\ NoFault /\ Goto(p, "E_protect")
     \/ NoPositionFor(job[p]) /\ NoFault /\ Goto(p, "E_fail") /\ UNCHANGED status
     \/ Fault /\ Goto(p, "E_fail") /\ UNCHANGED status
  /\ UNCHANGED <<book, fills, enabled, exch, locks, hand, bounds, hist>>

\* Auto-add off, stop set and verified, liquidation buffer, three TP orders,
\* mark_opened.  Any of them raises when refused or when the position is gone.
ExecuteProtect(p) ==
  /\ pc[p] = "E_protect"
  /\ \/ PositionOn(job[p]) /\ Mark(job[p], "ACTIVE") /\ NoFault /\ Goto(p, "release")
     \/ ~PositionOn(job[p]) /\ NoFault /\ Goto(p, "E_fail") /\ UNCHANGED status
     \/ Fault /\ Goto(p, "E_fail") /\ UNCHANGED status
  /\ UNCHANGED <<book, fills, enabled, exch, locks, hand, bounds, hist>>

\* The except clause: RECOVERY_REQUIRED, then _failsafe_open on the row re-read.
ExecuteFail(p) ==
  /\ pc[p] = "E_fail"
  /\ Mark(job[p], "RECOVERY_REQUIRED")
  /\ row' = [row EXCEPT ![p] = "RECOVERY_REQUIRED"]
  /\ Goto(p, "F_cancel")
  /\ UNCHANGED <<book, fills, enabled, exch, locks, job, seen, snap, bounds, faults, hist>>

-----------------------------------------------------------------------------
(***************************************************************************)
(* _failsafe_open, called by execute and by the reconcile pass.            *)
(***************************************************************************)

\* cancel_order on the entry: takes effect only on an order still in flight; an
\* order unknown, filled or cancelled already answers None.
CancelEntry(t) == \/ ord[t] = "inflight" /\ ord' = [ord EXCEPT ![t] = "cancelled"]
                  \/ UNCHANGED ord

\* entry_cancelled: the cancel was answered.
CancelAnswered(p) == IF ord' # ord THEN "cancelled" ELSE "none"

FailsafeCancel(p) ==
  /\ pc[p] = "F_cancel"
  /\ \/ CancelEntry(job[p]) /\ NoFault
     \/ UNCHANGED ord /\ Fault
  /\ seen' = [seen EXCEPT ![p] = CancelAnswered(p)]
  /\ Goto(p, "F_close")
  /\ UNCHANGED <<status, book, fills, enabled, pos, closing, locks, job, row, snap, bounds, hist>>

\* Give the trade back to recovery and return.
Unrecovered(p) == Mark(job[p], "RECOVERY_REQUIRED") /\ Goto(p, "release")

\* A position seen within 2 s gets a reduce-only market close, whoever opened it.
FailsafeClose(p) ==
  /\ pc[p] = "F_close"
  /\ \/ /\ PositionOn(job[p])
        /\ closing' = [closing EXCEPT ![SymbolOf[job[p]]] = job[p]]
        /\ NoFault /\ Goto(p, "F_flat") /\ UNCHANGED status
     \/ NoPositionFor(job[p]) /\ NoFault /\ Goto(p, "F_flat") /\ UNCHANGED <<closing, status>>
     \/ Fault /\ Unrecovered(p) /\ UNCHANGED closing
  /\ UNCHANGED <<book, fills, enabled, ord, pos, locks, hand, bounds, hist>>

\* _wait_flat for 20 s, then _cancel_bot_orders.
FailsafeFlat(p) ==
  /\ pc[p] = "F_flat"
  /\ \/ /\ NoPositionFor(job[p]) /\ CancelEntry(job[p])
        /\ NoFault /\ Goto(p, "F_settle") /\ UNCHANGED status
     \/ PositionOn(job[p]) /\ NoFault /\ Unrecovered(p) /\ UNCHANGED ord
     \/ Fault /\ Unrecovered(p) /\ UNCHANGED ord
  /\ UNCHANGED <<book, fills, enabled, pos, closing, locks, hand, bounds, hist>>

\* ERROR_FLAT needs an entry known to be cancelled; everything else that is flat
\* waits in CLOSED_SYNCING for its fills.
NoFillKnown(p) == ~entryFill'[job[p]]   \* mutant: not seen filled, so never filled
NeverFilled(p) == ~entryFill'[job[p]] /\ "cancelled" \in {seen[p], ord[job[p]]}

FailsafeSettle(p) ==
  /\ pc[p] = "F_settle"
  /\ \/ /\ TrySync(job[p])
        /\ IF NeverFilled(p)
           THEN Mark(job[p], "ERROR_FLAT") /\ Goto(p, "release")
           ELSE Mark(job[p], "CLOSED_SYNCING") /\ Goto(p, "finalize")
     \/ SyncFills(job[p]) /\ ~entryFill'[job[p]] /\ Fault /\ Unrecovered(p)
  /\ UNCHANGED <<book, enabled, exch, locks, hand, bounds, hist>>

\* _finalize_flat_trade: CLOSED once entry and exit are both in the fills.
Finalize(p) ==
  /\ pc[p] = "finalize"
  /\ TrySync(job[p])
  /\ Mark(job[p], IF FillsComplete(job[p]) THEN "CLOSED" ELSE "CLOSED_SYNCING")
  /\ Goto(p, "release")
  /\ UNCHANGED <<book, enabled, exch, locks, hand, bounds, hist>>

-----------------------------------------------------------------------------
(***************************************************************************)
(* close_trade: a management CLOSE (for one signal), /demo_close (for a    *)
(* symbol) or close_all, under the symbol lock only.                       *)
(***************************************************************************)
RequestClose(p, t) ==
  /\ pc[p] = "idle" /\ p \in Workers
  /\ commands < MaxCommands /\ commands' = commands + 1
  /\ job' = [job EXCEPT ![p] = t]
  /\ Enqueue(p, t)
  /\ Goto(p, "C_symbol")
  /\ UNCHANGED <<status, book, fills, enabled, exch, entryLock, row, seen, snap,
                 deliveries, crashes, faults, hist>>

\* The row is read under the lock.  Nothing to close, or management names
\* another signal: return.
CloseBegin(p) ==
  /\ pc[p] = "C_begin"
  /\ \/ /\ ~IsActiveFor(job[p], SymbolOf[job[p]])
        /\ p \in Workers \/ Managed(SymbolOf[job[p]]) = {}
        /\ Goto(p, "release") /\ UNCHANGED <<status, job>>
     \/ \E t \in Signals :
          /\ IsActiveFor(t, SymbolOf[job[p]])
          /\ job' = [job EXCEPT ![p] = t]
          /\ IF status[t] = "CLOSED_SYNCING"
             THEN Goto(p, "finalize") /\ UNCHANGED status
             ELSE Mark(t, "CLOSING") /\ Goto(p, "C_send")
  /\ UNCHANGED <<book, fills, enabled, exch, locks, row, seen, snap, bounds, faults, hist>>

\* A close that did not confirm; only close_all's matter to the history.
Miss(p) == missed' = (missed \/ p = Ops)

CloseSend(p) ==
  /\ pc[p] = "C_send"
  /\ \/ /\ PositionOn(job[p])
        /\ closing' = [closing EXCEPT ![SymbolOf[job[p]]] = job[p]]
        /\ NoFault /\ Goto(p, "C_flat") /\ UNCHANGED <<ord, missed>>
     \/ /\ NoPositionFor(job[p]) /\ CancelEntry(job[p])
        /\ NoFault /\ Goto(p, "C_flat") /\ UNCHANGED <<closing, missed>>
     \/ Fault /\ Goto(p, "release") /\ Miss(p) /\ UNCHANGED <<ord, closing>>
  /\ UNCHANGED <<status, book, fills, enabled, pos, locks, hand, bounds, stopped>>

\* _wait_flat for 20 s, then _cancel_bot_orders.
CloseFlat(p) ==
  /\ pc[p] = "C_flat"
  /\ \/ /\ NoPositionFor(job[p]) /\ CancelEntry(job[p])
        /\ Mark(job[p], "CLOSED_SYNCING")
        /\ NoFault /\ Goto(p, "finalize") /\ UNCHANGED missed
     \/ PositionOn(job[p]) /\ NoFault /\ Unrecovered(p) /\ Miss(p) /\ UNCHANGED ord
     \/ Fault /\ Goto(p, "release") /\ Miss(p) /\ UNCHANGED <<status, ord>>
  /\ UNCHANGED <<book, fills, enabled, pos, closing, locks, hand, bounds, stopped>>

-----------------------------------------------------------------------------
(***************************************************************************)
(* The reconcile pass (reconcile_loop, sync_now): read all reconcilable    *)
(* rows, then handle each under its symbol lock, as it was when READ.      *)
(***************************************************************************)
NoRows == [t \in Signals |-> Absent]
RowsIn(set) == [t \in Signals |-> IF status[t] \in set THEN status[t] ELSE Absent]
Left(rows) == {t \in Signals : rows[t] # Absent}

\* The next of the rows read, in id order: queue for its symbol with the row in hand.
TakeRow(p, rows) ==
  \E t \in Left(rows) :
    /\ \A u \in Left(rows) : rowid[t] <= rowid[u]
    /\ Enqueue(p, t)
    /\ job' = [job EXCEPT ![p] = t]
    /\ row' = [row EXCEPT ![p] = rows[t]]
    /\ snap' = [snap EXCEPT ![p] = [rows EXCEPT ![t] = Absent]]
    /\ Goto(p, "R_symbol")

ReadRows(p) ==
  /\ pc[p] = "idle" /\ p \in Reconcilers
  /\ TakeRow(p, RowsIn(Reconcilable))
  /\ UNCHANGED <<status, book, fills, enabled, exch, entryLock, seen, bounds, faults, hist>>

NextRow(p) ==
  /\ pc[p] = "R_next"
  /\ \/ TakeRow(p, snap[p])
     \/ Left(snap[p]) = {} /\ Goto(p, "idle") /\ UNCHANGED <<symLock, job, row, snap>>
  /\ UNCHANGED <<status, book, fills, enabled, exch, entryLock, seen, bounds, faults, hist>>

\* An exception leaves the pass: reconcile_loop drops its remaining rows,
\* sync_now goes on with the next.
Abort(p) ==
  /\ Fault /\ Goto(p, "release")
  /\ snap' = [snap EXCEPT ![p] = IF p = Loop THEN NoRows ELSE @]

\* _reconcile_trade, dispatching on the row in hand.
ReconcileUnsettled(p) ==
  /\ pc[p] = "R_trade"
  /\ \/ /\ row[p] \in {"OPENING", "ENTRY_SUBMITTED", "PROTECTING"}
        /\ Goto(p, "O_begin") /\ UNCHANGED status
     \/ row[p] = "RECOVERY_REQUIRED" /\ Goto(p, "F_cancel") /\ UNCHANGED status
     \/ row[p] = "CLOSING" /\ Mark(job[p], "RECOVERY_REQUIRED") /\ Goto(p, "F_cancel")
  /\ UNCHANGED <<book, fills, enabled, exch, locks, hand, bounds, faults, hist>>

ReconcileFlat(p) ==
  /\ pc[p] = "R_trade" /\ row[p] = "CLOSED_SYNCING"
  /\ \/ PositionOn(job[p]) /\ NoFault /\ Unrecovered(p) /\ UNCHANGED snap
     \/ ~PositionOn(job[p]) /\ NoFault /\ Goto(p, "finalize") /\ UNCHANGED <<status, snap>>
     \/ Abort(p) /\ UNCHANGED status
  /\ UNCHANGED <<book, fills, enabled, exch, locks, job, row, seen, bounds, hist>>

\* ACTIVE: position open and stop verified, stop recovery failed, or flat.
ReconcileActive(p) ==
  /\ pc[p] = "R_trade" /\ row[p] = "ACTIVE"
  /\ \/ /\ PositionOn(job[p]) /\ TrySync(job[p])
        /\ Goto(p, "release") /\ UNCHANGED <<status, ord, snap>>
     \/ /\ PositionOn(job[p]) /\ SyncFills(job[p])
        /\ Fault /\ Unrecovered(p) /\ UNCHANGED <<ord, snap>>
     \/ /\ ~PositionOn(job[p]) /\ TrySync(job[p]) /\ CancelEntry(job[p])
        /\ Mark(job[p], "CLOSED_SYNCING") /\ Goto(p, "finalize") /\ UNCHANGED snap
     \/ Abort(p) /\ SyncFills(job[p]) /\ UNCHANGED <<status, ord>>
  /\ UNCHANGED <<book, enabled, pos, closing, locks, job, row, seen, bounds, hist>>

\* _recover_opening_trade.  A row older than 30 s has no entry in flight any more:
\* the code's own bound on how long Bybit may take.
RecoverOpening(p) ==
  /\ pc[p] = "O_begin"
  /\ \/ /\ PositionOn(job[p]) /\ TrySync(job[p])
        /\ Mark(job[p], "PROTECTING") /\ Goto(p, "O_protect") /\ UNCHANGED <<seen, snap>>
     \/ /\ ~PositionOn(job[p]) /\ row[p] = "PROTECTING" /\ TrySync(job[p])
        /\ Mark(job[p], "CLOSED_SYNCING") /\ Goto(p, "finalize") /\ UNCHANGED <<seen, snap>>
     \/ /\ ~PositionOn(job[p]) /\ row[p] # "PROTECTING" /\ ord[job[p]] # "cancelled"
        /\ TrySync(job[p])
        /\ Goto(p, "release") /\ UNCHANGED <<status, seen, snap>>
     \/ /\ ~PositionOn(job[p]) /\ row[p] # "PROTECTING" /\ ord[job[p]] # "inflight"
        /\ TrySync(job[p])
        /\ seen' = [seen EXCEPT ![p] = ord[job[p]]]
        /\ Goto(p, "O_poll") /\ UNCHANGED <<status, snap>>
     \/ Abort(p) /\ SyncFills(job[p]) /\ UNCHANGED <<status, seen>>
  /\ UNCHANGED <<book, enabled, exch, locks, job, row, bounds, hist>>

\* Stop, liquidation buffer and TP orders restored, then mark_opened.
RecoverProtect(p) ==
  /\ pc[p] = "O_protect"
  /\ \/ PositionOn(job[p]) /\ NoFault /\ Mark(job[p], "ACTIVE") /\ Goto(p, "release")
     \/ ~PositionOn(job[p]) /\ NoFault /\ Unrecovered(p)
     \/ Fault /\ Unrecovered(p)
  /\ UNCHANGED <<book, fills, enabled, exch, locks, hand, bounds, hist>>

\* The cancel sent for the old entry changed nothing; poll once more, else decide.
EntryEvidence(p) == entryFill'[job[p]] \/ seen[p] = "filled"

RecoverAbsent(p) ==
  /\ pc[p] = "O_poll"
  /\ \/ /\ PositionOn(job[p]) /\ NoFault
        /\ row' = [row EXCEPT ![p] = status[job[p]]]
        /\ Goto(p, "O_begin") /\ UNCHANGED <<status, fills, snap>>
     \/ /\ ~PositionOn(job[p]) /\ TrySync(job[p])
        /\ IF EntryEvidence(p)
           THEN Mark(job[p], "CLOSED_SYNCING") /\ Goto(p, "finalize")
           ELSE Mark(job[p], "ERROR_FLAT") /\ Goto(p, "release")
        /\ UNCHANGED <<row, snap>>
     \/ Abort(p) /\ UNCHANGED <<status, fills, row>>
  /\ UNCHANGED <<book, enabled, exch, locks, job, seen, bounds, hist>>

-----------------------------------------------------------------------------
(***************************************************************************)
(* Operator commands: pause, resume, close_all, emergency_stop.            *)
(***************************************************************************)
Command == commands < MaxCommands /\ commands' = commands + 1

Pause ==
  /\ Command /\ enabled /\ enabled' = FALSE
  /\ UNCHANGED <<status, book, fills, exch, locks, pc, hand, deliveries, crashes, faults, hist>>

Resume ==
  /\ Command /\ ~enabled /\ enabled' = TRUE /\ stopped' = "no"
  /\ UNCHANGED <<status, book, fills, exch, locks, pc, hand, deliveries, crashes, faults, missed>>

CloseAll ==
  /\ Command /\ pc[Ops] = "idle" /\ Goto(Ops, "X_rows")
  /\ UNCHANGED <<status, book, fills, enabled, exch, locks, hand, deliveries, crashes, faults, hist>>

\* emergency_stop: disable at once, then wait for the entry in flight.
EmergencyStop ==
  /\ Command /\ pc[Ops] = "idle" /\ Goto(Ops, "X_entry")
  /\ enabled' = FALSE
  /\ entryLock' = Append(entryLock, Ops)
  /\ UNCHANGED <<status, book, fills, exch, symLock, hand, deliveries, crashes, faults, hist>>

EmergencyAtOnce ==                      \* mutant: does not wait for the entry in flight
  /\ pc[Ops] = "X_entry"
  /\ stopped' = IF enabled THEN "no" ELSE "entries"
  /\ Goto(Ops, "X_rows")
  /\ UNCHANGED <<status, book, fills, enabled, exch, locks, hand, bounds, faults, missed>>

EmergencyLock ==
  /\ pc[Ops] = "X_entry" /\ Owns(Ops, entryLock)
  /\ stopped' = IF enabled THEN "no" ELSE "entries"
  /\ Goto(Ops, "X_rows")
  /\ UNCHANGED <<status, book, fills, enabled, exch, locks, hand, bounds, faults, missed>>

CloseAllRows ==
  /\ pc[Ops] = "X_rows"
  /\ snap' = [snap EXCEPT ![Ops] = RowsIn(Live)]
  /\ missed' = FALSE
  /\ Goto(Ops, "X_next")
  /\ UNCHANGED <<status, book, fills, enabled, exch, locks, job, row, seen, bounds, faults, stopped>>

CloseAllNext ==
  /\ pc[Ops] = "X_next"
  /\ \/ \E t \in Left(snap[Ops]) :
          /\ Enqueue(Ops, t)
          /\ job' = [job EXCEPT ![Ops] = t]
          /\ snap' = [snap EXCEPT ![Ops][t] = Absent]
          /\ Goto(Ops, "X_symbol")
          /\ UNCHANGED <<entryLock, stopped>>
     \/ /\ Left(snap[Ops]) = {}
        /\ entryLock' = IF Owns(Ops, entryLock) THEN Tail(entryLock) ELSE entryLock
        /\ stopped' = IF Owns(Ops, entryLock) /\ stopped = "entries" /\ ~missed
                      THEN "all" ELSE stopped
        /\ Goto(Ops, "idle")
        /\ UNCHANGED <<symLock, job, snap>>
  /\ UNCHANGED <<status, book, fills, enabled, exch, row, seen, bounds, faults, missed>>

\* Leaving the `async with` blocks.
EntryKept(p) == entryLock               \* mutant: the entry lock is not released
EntryReleased(p) == IF Owns(p, entryLock) /\ p # Ops THEN Tail(entryLock) ELSE entryLock

Release(p) ==
  /\ pc[p] = "release"
  /\ symLock' = [symLock EXCEPT ![SymbolOf[job[p]]] = Tail(@)]
  /\ entryLock' = EntryReleased(p)
  /\ job' = [job EXCEPT ![p] = None]
  /\ row' = [row EXCEPT ![p] = Absent]
  /\ seen' = [seen EXCEPT ![p] = "none"]
  /\ Goto(p, IF p \in Reconcilers THEN "R_next" ELSE IF p = Ops THEN "X_next" ELSE "idle")
  /\ UNCHANGED <<status, book, fills, enabled, exch, snap, bounds, faults, hist>>

-----------------------------------------------------------------------------
(***************************************************************************)
(* The exchange and the process.                                           *)
(***************************************************************************)
FillEntry(t) ==
  /\ ord[t] = "inflight"
  /\ ord' = [ord EXCEPT ![t] = "filled"]
  /\ pos' = [pos EXCEPT ![SymbolOf[t]] = @ \cup {t}]
  /\ UNCHANGED <<status, book, fills, enabled, closing, locks, pc, hand, bounds, faults, hist>>

DropEntry(t) ==
  /\ ord[t] = "inflight"
  /\ ord' = [ord EXCEPT ![t] = "cancelled"]
  /\ UNCHANGED <<status, book, fills, enabled, pos, closing, locks, pc, hand, bounds, faults, hist>>

\* Stop, take profits or a manual exit, or the market close that was sent.
ExitPosition(s) ==
  /\ pos[s] # {}
  /\ pos' = [pos EXCEPT ![s] = {}]
  /\ closing' = [closing EXCEPT ![s] = None]
  /\ UNCHANGED <<status, book, fills, enabled, ord, locks, pc, hand, bounds, faults, hist>>

\* Coroutines and locks vanish; rows, settings and the account stay.
Crash ==
  /\ crashes < MaxCrashes /\ crashes' = crashes + 1
  /\ \E p \in Procs : pc[p] # "idle"
  /\ entryLock' = <<>>
  /\ symLock' = [s \in Symbols |-> <<>>]
  /\ pc' = [p \in Procs |-> "idle"]
  /\ job' = [p \in Procs |-> None]
  /\ row' = [p \in Procs |-> Absent]
  /\ seen' = [p \in Procs |-> "none"]
  /\ snap' = [p \in Procs |-> NoRows]
  /\ UNCHANGED <<status, book, fills, enabled, exch, deliveries, commands, faults, hist>>

-----------------------------------------------------------------------------
Execute(p) ==
  \/ LockEntry(p) \/ LockSymbol(p) \/ ExecuteCheck(p) \/ ExecuteRoom(p) \/ ExecuteCreate(p)
  \/ ExecuteSubmit(p) \/ ExecuteMarkSubmitted(p) \/ ExecuteWait(p)
  \/ ExecuteProtect(p) \/ ExecuteFail(p)
Failsafe(p) ==
  \/ FailsafeCancel(p) \/ FailsafeClose(p) \/ FailsafeFlat(p) \/ FailsafeSettle(p)
CloseTrade(p) == CloseBegin(p) \/ CloseSend(p) \/ CloseFlat(p)
Reconcile(p) ==
  \/ NextRow(p) \/ ReconcileUnsettled(p) \/ ReconcileFlat(p) \/ ReconcileActive(p)
  \/ RecoverOpening(p) \/ RecoverProtect(p) \/ RecoverAbsent(p)
CloseEverything == EmergencyLock \/ CloseAllRows \/ CloseAllNext

\* A coroutine continues; nothing here starts a new request.
Continue(p) ==
  \/ Execute(p) \/ Failsafe(p) \/ CloseTrade(p) \/ Finalize(p) \/ Reconcile(p) \/ Release(p)
  \/ p = Ops /\ CloseEverything

Request ==
  \/ \E p \in Workers, t \in Signals : DeliverExecute(p, t) \/ RequestClose(p, t)
  \/ Pause \/ Resume \/ CloseAll \/ EmergencyStop

Exchange ==
  \/ \E t \in Signals : FillEntry(t) \/ DropEntry(t)
  \/ \E s \in Symbols : ExitPosition(s)

Next ==
  \/ Request \/ Exchange \/ Crash
  \/ \E p \in Reconcilers : ReadRows(p)
  \/ \E p \in Procs : Continue(p)

Spec == Init /\ [][Next]_vars

\* The event loop runs every ready task and reconcile_loop never stops; a row that
\* waits grows older than 30 s; Bybit settles an order it accepted, including a
\* market close.
Fairness ==
  /\ \A p \in Procs : WF_vars(Continue(p))
  /\ \A p \in Reconcilers : WF_vars(ReadRows(p))
  /\ \A p \in Reconcilers : SF_vars(RecoverOpening(p) /\ pc'[p] = "O_poll")
  /\ \A t \in Signals : WF_vars(FillEntry(t) \/ DropEntry(t))
  /\ \A s \in Symbols : WF_vars(closing[s] # None /\ ExitPosition(s))

FairSpec == Spec /\ Fairness

-----------------------------------------------------------------------------
(***************************************************************************)
(* Correctness.                                                            *)
(***************************************************************************)

\* Can the account still hold, or come to hold, a position opened for t?
Exposed(t) == ord[t] = "inflight" \/ t \in pos[SymbolOf[t]]

\* A position the bot opened, or an entry that may still become one, always
\* belongs to a row the reconcile pass looks at: no crash, lost answer, late
\* fill or stale row in hand leaves one behind (storage.RECONCILE_STATUSES).
ExposureIsManaged == \A t \in Signals : Exposed(t) => status[t] \in Reconcilable

\* ERROR_FLAT is the verdict "never filled": it is given only to an entry that
\* has not filled and cannot any more (_failsafe_open, _recover_opening_trade).
ErrorFlatNeverFilled ==
  \A t \in Signals : status[t] = "ERROR_FLAT" => ord[t] \in {"none", "cancelled"}

\* A trade is CLOSED only once its own exit is in its own fills, although the
\* listing books any closing execution on the symbol (_sync_fills).
ClosedHasOwnExit == \A t \in Signals : status[t] = "CLOSED" => exitTo[t] = t

\* "One bot-managed position per symbol" (README): two reconcilable rows never
\* share a symbol.
OneManagedTradePerSymbol == \A s \in Symbols : Cardinality(Managed(s)) <= 1

\* "Maximum concurrent positions" (README), counted on the account.
PositionsWithinCap == Cardinality({s \in Symbols : pos[s] # {}}) <= MaxOpen

\* When emergency_stop has closed everything it listed, nothing is left open.
EmergencyLeavesFlat == stopped = "all" => \A t \in Signals : ~Exposed(t)

\* Each signal is submitted at most once, whatever is redelivered or recovered.
SubmittedOnce ==
  [][\A t \in Signals : ord[t] # "none" =>
        ord'[t] # "none" /\ (ord'[t] = "inflight" => ord[t] = "inflight")]_vars

\* "wait for any in-flight serialized entry to finish before taking the
\* definitive list": once emergency_stop holds the entry lock, no entry is
\* submitted until trading is resumed.
EmergencyIsDefinitive ==
  [][stopped # "no" => \A t \in Signals : ord[t] = "none" => ord'[t] = "none"]_vars

\* A trade whose position is gone ends CLOSED, whatever crashed or failed on the
\* way: its entry and exit are found in the executions in the end
\* (_finalize_flat_trade, retried by reconcile_loop).
FlatTradeSettles ==
  \A t \in Signals : (Exited(t) /\ status[t] \in Reconcilable) ~> status[t] = "CLOSED"

\* The locks never jam: emergency_stop gets the entry lock and every symbol's, and
\* returns, although each of them may be held when it asks.
EmergencyStopFinishes == pc[Ops] = "X_entry" ~> pc[Ops] = "idle"

\* Is some reconcile pass still to handle t with a row that is out of date?
StaleRow(t) ==
  \E p \in Reconcilers :
    \/ snap[p][t] \notin {Absent, status[t]}
    \/ job[p] = t /\ row[p] # status[t] /\ pc[p] \in {"R_symbol", "R_trade"} \cup Opening

\* A filled trade given to recovery is flattened and closed, if no pass holds an
\* older row of it: the bot's own faults never leave it open for good.
RecoveryCompletes ==
  \A t \in Signals :
    (ord[t] = "filled" /\ status[t] = "RECOVERY_REQUIRED" /\ ~StaleRow(t))
      ~> status[t] = "CLOSED"

=============================================================================
