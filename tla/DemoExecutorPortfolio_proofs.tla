--------------------- MODULE DemoExecutorPortfolio_proofs ---------------------
(***************************************************************************)
(* The safety theorems of DemoExecutor that need polls to outlast accepted *)
(* orders (~LateFills): the portfolio cap and the emergency stop.  A late  *)
(* fill breaks both: the row says flat, and the position comes after.      *)
(*                                                                         *)
(* First what a decided order is, then how the rows read and the row in    *)
(* hand move (PollInv), then the count behind the cap (CapInv), then       *)
(* close_all's list (ListInv).                                             *)
(***************************************************************************)
EXTENDS DemoExecutor_proofs, FiniteSetTheorems

\* A position on the symbol decides every entry that has a row: an older one is
\* over, and with a newer one this one is.
LEMMA DecidedWhenOpen ==
  ASSUME TypeOK, RowInv, OrderInv, BookedInv, NewerInv,
         NEW t \in Signals, rowid[t] # 0, PositionOn(t)
  PROVE  ord[t] # "inflight"
<1> USE ConstantsAssumption
<1>1. PICK u \in pos[SymbolOf[t]] : u \in Signals
  BY DEF PositionOn, TypeOK, AccountTyped
<1>2. ord[u] = "filled" /\ SymbolOf[u] = SymbolOf[t]
  BY <1>1 DEF OrderInv
<1>3. rowid[u] # 0 /\ rowid[u] \in Nat /\ rowid[t] \in Nat
  BY <1>1, <1>2 DEF OrderInv, TypeOK, RowsTyped
<1>4. CASE u = t
  BY <1>2, <1>4
<1>5. CASE rowid[u] < rowid[t]
  <2>1. exitTo[u] = u
    BY <1>1, <1>2, <1>3, <1>5 DEF NewerInv
  <2>2. Exited(u)
    BY <1>1, <2>1 DEF BookedInv
  <2> QED BY <1>1, <1>2, <2>2 DEF Exited
<1>6. CASE rowid[t] < rowid[u]
  BY <1>1, <1>2, <1>6 DEF NewerInv
<1>7. u = t \/ rowid[u] < rowid[t] \/ rowid[t] < rowid[u]
  BY <1>1, <1>3 DEF RowInv
<1> QED BY <1>4, <1>5, <1>6, <1>7

\* A poll that gave up left nothing.
LEMMA FlatIsFinal ==
  ASSUME ~LateFills, NEW t \in Signals, NoPositionFor(t)
  PROVE  ~Exposed(t)
BY DEF NoPositionFor, Exposed

\* A trade becomes exposed by its one submission only.
LEMMA ExposureMoves ==
  ASSUME TypeOK, LockInv, EntryInv, Next, NEW t \in Signals, ~Exposed(t), Exposed(t)'
  PROVE  \E p \in Procs : pc[p] = "E_submit" /\ job[p] = t
BY OrderMoves, PositionMoves DEF Exposed

\* An exposed trade is the newest of its symbol.
LEMMA ExposedIsNewest ==
  ASSUME TypeOK, RowInv, OrderInv, BookedInv, NewerInv,
         NEW t \in Signals, Exposed(t), NEW u \in Signals, SymbolOf[u] = SymbolOf[t]
  PROVE  rowid[t] # 0 /\ rowid[u] <= rowid[t]
<1> USE ConstantsAssumption
<1>1. rowid[t] # 0 /\ rowid[t] \in Nat /\ rowid[u] \in Nat
  BY DEF Exposed, OrderInv, TypeOK, RowsTyped
<1>2. ASSUME rowid[t] < rowid[u] PROVE FALSE
  <2>1. ord[t] = "filled" /\ t \in pos[SymbolOf[t]] /\ exitTo[t] = t
    BY <1>1, <1>2 DEF NewerInv, Exposed, OrderInv
  <2> QED BY <2>1 DEF BookedInv, Exited
<1> QED BY <1>1, <1>2

-----------------------------------------------------------------------------
(***************************************************************************)
(* PollInv.                                                                *)
(***************************************************************************)

\* OPENING is the first status of a row.
LEMMA OpeningMoveOf ==
  ASSUME TypeOK, LockInv, NEW p \in Procs, Continue(p), NEW t \in Signals,
         status'[t] = "OPENING"
  PROVE  status[t] = "OPENING" \/ (pc[p] = "E_create" /\ job[p] = t)
<1> USE ConstantsAssumption DEF Goto, Mark, Fault, NoFault, book, fills, exch, locks,
  hand, bounds, hist
<1>1. CASE LockEntry(p) \/ LockSymbol(p) \/ ExecuteCheck(p) \/ ExecuteRoom(p) \/
         ExecuteCreate(p) \/ ExecuteSubmit(p)
  BY <1>1 DEF LockEntry, LockSymbol, ExecuteCheck, ExecuteRoom, ExecuteCreate,
    ExecuteSubmit, TypeOK, RowsTyped
<1>2. CASE ExecuteMarkSubmitted(p) \/ ExecuteWait(p) \/ ExecuteProtect(p) \/
         ExecuteFail(p)
  BY <1>2 DEF ExecuteMarkSubmitted, ExecuteWait, ExecuteProtect, ExecuteFail, TypeOK,
    RowsTyped
<1>3. CASE FailsafeCancel(p) \/ FailsafeClose(p) \/ FailsafeFlat(p) \/
         FailsafeSettle(p)
  BY <1>3 DEF FailsafeCancel, FailsafeClose, FailsafeFlat, FailsafeSettle, Unrecovered,
    TypeOK, RowsTyped
<1>4. CASE CloseBegin(p) \/ CloseSend(p) \/ CloseFlat(p) \/ Finalize(p)
  BY <1>4 DEF CloseBegin, CloseSend, CloseFlat, Finalize, Unrecovered, TypeOK, RowsTyped
<1>5. CASE NextRow(p) \/ Release(p)
  BY <1>5 DEF NextRow, Release
<1>6. CASE ReconcileUnsettled(p) \/ ReconcileFlat(p) \/ ReconcileActive(p)
  BY <1>6 DEF ReconcileUnsettled, ReconcileFlat, ReconcileActive, Unrecovered, TypeOK,
    RowsTyped
<1>7. CASE RecoverOpening(p) \/ RecoverProtect(p) \/ RecoverAbsent(p)
  BY <1>7 DEF RecoverOpening, RecoverProtect, RecoverAbsent, Unrecovered, TypeOK,
    RowsTyped
<1>8. CASE p = Ops /\ CloseEverything
  BY <1>8 DEF CloseEverything, EmergencyLock, CloseAllRows, CloseAllNext
<1> QED BY <1>1, <1>2, <1>3, <1>4, <1>5, <1>6, <1>7, <1>8 DEF Continue, Execute,
  Failsafe, CloseTrade, Reconcile

\* What is not a step of a coroutine changes no row.
LEMMA RowsStay ==
  ASSUME Request \/ Exchange \/ Crash \/ \E p \in Reconcilers : ReadRows(p)
  PROVE  UNCHANGED <<status, book>>
BY DEF Request, DeliverExecute, RequestClose, Pause, Resume, CloseAll, EmergencyStop,
  Exchange, FillEntry, DropEntry, ExitPosition, Crash, ReadRows

\* A row that exists never says OPENING again.
LEMMA OpeningMoves ==
  ASSUME TypeOK, LockInv, EntryInv, Next, NEW t \in Signals,
         status[t] \notin {"OPENING", Absent}
  PROVE  status'[t] # "OPENING"
<1>1. ASSUME NEW p \in Procs, Continue(p), status'[t] = "OPENING" PROVE FALSE
  <2>1. pc[p] = "E_create" /\ job[p] = t
    BY <1>1, OpeningMoveOf
  <2> QED BY <2>1 DEF EntryInv, Entering
<1> QED BY <1>1, RowsStay DEF Next

\* Settled stays true of a row that exists.
LEMMA SettledStays ==
  ASSUME TypeOK, LockInv, RowInv, EntryInv, Next, NEW t \in Signals, NEW s,
         Settled(t, s), s # Absent => rowid[t] # 0
  PROVE  Settled(t, s)'
<1> SUFFICES ASSUME s \in {"PROTECTING", "ACTIVE", "CLOSED_SYNCING"}
             PROVE  /\ status'[t] # "OPENING" /\ ord'[t] # "inflight"
                    /\ s = "CLOSED_SYNCING" => t \notin pos'[SymbolOf[t]]
  BY DEF Settled
<1>1. status[t] \notin {"OPENING", Absent} /\ ord[t] # "inflight"
  BY DEF Settled, RowInv, Absent
<1>2. status'[t] # "OPENING"
  BY <1>1, OpeningMoves
<1>3. ord'[t] # "inflight"
  BY <1>1, OrderMoves DEF EntryInv, Entering
<1>4. s = "CLOSED_SYNCING" => t \notin pos'[SymbolOf[t]]
  BY <1>1, PositionMoves DEF Settled
<1> QED BY <1>2, <1>3, <1>4

\* A status that a coroutine writes is settled: PROTECTING and ACTIVE after a
\* position was seen, CLOSED_SYNCING after flat was.
LEMMA WrittenIsSettled ==
  ASSUME TypeOK, RowInv, LockInv, OrderInv, BookedInv, NewerInv, PollInv, ~LateFills,
         NEW p \in Procs, Continue(p), NEW t \in Signals, status'[t] # status[t]
  PROVE  Settled(t, status[t])'
<1> USE ConstantsAssumption DEF Goto, Mark, Fault, NoFault, book, fills, exch, locks,
  hand, bounds, hist
<1>0. ASSUME rowid[t] # 0, PositionOn(t) PROVE ord[t] # "inflight"
  BY <1>0, DecidedWhenOpen
<1>1. CASE LockEntry(p) \/ LockSymbol(p) \/ ExecuteCheck(p) \/ ExecuteRoom(p) \/
         NextRow(p) \/ Release(p)
  BY <1>1 DEF LockEntry, LockSymbol, ExecuteCheck, ExecuteRoom, NextRow, Release
<1>2. CASE ExecuteCreate(p) \/ ExecuteSubmit(p) \/ ExecuteMarkSubmitted(p) \/ ExecuteFail(p)
  BY <1>2 DEF ExecuteCreate, ExecuteSubmit, ExecuteMarkSubmitted, ExecuteFail, Settled,
    TypeOK, RowsTyped
<1>3. CASE ExecuteWait(p) \/ ExecuteProtect(p) \/ RecoverProtect(p)
  <2>1. job[p] = t /\ rowid[t] # 0 /\ ord' = ord
    BY <1>3 DEF ExecuteWait, ExecuteProtect, RecoverProtect, Unrecovered, RowInv, HasRow,
      Opening, TypeOK, RowsTyped
  <2>2. \/ status'[t] = "RECOVERY_REQUIRED"
        \/ PositionOn(t) /\ status'[t] \in {"PROTECTING", "ACTIVE"}
    BY <1>3, <2>1 DEF ExecuteWait, ExecuteProtect, RecoverProtect, Unrecovered, TypeOK,
      RowsTyped
  <2> QED BY <1>0, <2>1, <2>2 DEF Settled
<1>4. CASE FailsafeCancel(p) \/ FailsafeClose(p) \/ FailsafeFlat(p) \/ CloseBegin(p) \/
         CloseSend(p) \/ ReconcileUnsettled(p) \/ ReconcileFlat(p)
  BY <1>4 DEF FailsafeCancel, FailsafeClose, FailsafeFlat, CloseBegin, CloseSend,
    ReconcileUnsettled, ReconcileFlat, Unrecovered, Settled, TypeOK, RowsTyped
<1>5. CASE FailsafeSettle(p) \/ Finalize(p)
  <2>1. job[p] = t /\ exch' = exch /\ ~Exposed(job[p]) /\ status'[t] # "OPENING"
    BY <1>5 DEF FailsafeSettle, Finalize, Unrecovered, PollInv, TypeOK, RowsTyped
  <2> QED BY <2>1 DEF Settled, Exposed
<1>6. CASE CloseFlat(p)
  <2>1. job[p] = t /\ pos' = pos
    BY <1>6 DEF CloseFlat, Unrecovered, TypeOK, RowsTyped
  <2>2. CASE NoPositionFor(job[p]) /\ CancelEntry(job[p]) /\ Mark(job[p], "CLOSED_SYNCING")
    <3>1. ~Exposed(t) /\ ord'[t] # "inflight" /\ status'[t] = "CLOSED_SYNCING"
      BY <2>1, <2>2, FlatIsFinal DEF CancelEntry, Exposed, TypeOK, RowsTyped, AccountTyped
    <3> QED BY <2>1, <3>1 DEF Settled, Exposed
  <2>3. CASE Unrecovered(p) \/ UNCHANGED status
    BY <2>1, <2>3 DEF Unrecovered, Settled, TypeOK, RowsTyped
  <2> QED BY <1>6, <2>2, <2>3 DEF CloseFlat
<1>7. CASE ReconcileActive(p)
  <2>1. job[p] = t /\ pos' = pos /\ row[p] = "ACTIVE" /\ pc[p] = "R_trade"
    BY <1>7 DEF ReconcileActive, Unrecovered, TypeOK, RowsTyped
  <2>2. ord[t] # "inflight"
    BY <2>1 DEF PollInv, Settled
  <2>3. CASE ~PositionOn(t) /\ CancelEntry(t) /\ Mark(t, "CLOSED_SYNCING")
    BY <2>1, <2>2, <2>3 DEF CancelEntry, PositionOn, Settled, TypeOK, RowsTyped
  <2>4. CASE Unrecovered(p) \/ UNCHANGED status
    BY <2>1, <2>4 DEF Unrecovered, Settled, TypeOK, RowsTyped
  <2> QED BY <1>7, <2>1, <2>3, <2>4 DEF ReconcileActive
<1>8. CASE RecoverOpening(p)
  <2>1. job[p] = t /\ exch' = exch /\ pc[p] = "O_begin"
    BY <1>8 DEF RecoverOpening, TypeOK, RowsTyped
  <2>2. rowid[t] # 0
    BY <2>1 DEF RowInv, HasRow, Opening
  <2>3. CASE PositionOn(t) /\ Mark(t, "PROTECTING")
    BY <1>0, <2>1, <2>2, <2>3 DEF Settled, TypeOK, RowsTyped
  <2>4. CASE ~PositionOn(t) /\ row[p] = "PROTECTING" /\ Mark(t, "CLOSED_SYNCING")
    <3>1. ord[t] # "inflight"
      BY <2>1, <2>4 DEF PollInv, Settled
    <3> QED BY <2>1, <2>4, <3>1 DEF PositionOn, Settled, TypeOK, RowsTyped
  <2> QED BY <1>8, <2>1, <2>3, <2>4 DEF RecoverOpening
<1>9. CASE RecoverAbsent(p)
  <2>1. job[p] = t /\ exch' = exch /\ pc[p] = "O_poll" /\ ~PositionOn(t)
    BY <1>9 DEF RecoverAbsent, TypeOK, RowsTyped
  <2>2. ord[t] # "inflight" /\ t \notin pos[SymbolOf[t]]
    BY <2>1 DEF OrderInv, Seeing, PositionOn
  <2>3. status'[t] # "OPENING"
    BY <1>9, <2>1 DEF RecoverAbsent, TypeOK, RowsTyped
  <2> QED BY <2>1, <2>2, <2>3 DEF Settled
<1>10. CASE p = Ops /\ CloseEverything
  BY <1>10 DEF CloseEverything, EmergencyLock, CloseAllRows, CloseAllNext
<1> QED BY <1>1, <1>2, <1>3, <1>4, <1>5, <1>6, <1>7, <1>8, <1>9, <1>10 DEF Continue,
  Execute, Failsafe, CloseTrade, Reconcile

\* A coroutine reads rows only for itself.
LEMMA SnapsOfOthersStay ==
  ASSUME TypeOK, NEW p \in Procs, Continue(p), NEW q \in Procs, q # p
  PROVE  snap'[q] = snap[q] /\ row'[q] = row[q]
<1> USE ConstantsAssumption DEF Goto, Mark, Fault, NoFault, book, fills, exch, locks,
  hand, bounds, hist
<1>1. CASE LockEntry(p) \/ LockSymbol(p) \/ ExecuteCheck(p) \/ ExecuteRoom(p) \/
         ExecuteCreate(p) \/ ExecuteSubmit(p) \/ ExecuteMarkSubmitted(p) \/
         ExecuteWait(p) \/ ExecuteProtect(p) \/ ExecuteFail(p)
  BY <1>1 DEF LockEntry, LockSymbol, ExecuteCheck, ExecuteRoom, ExecuteCreate,
    ExecuteSubmit, ExecuteMarkSubmitted, ExecuteWait, ExecuteProtect, ExecuteFail,
    TypeOK, TasksTyped
<1>2. CASE FailsafeCancel(p) \/ FailsafeClose(p) \/ FailsafeFlat(p) \/
         FailsafeSettle(p) \/ CloseBegin(p) \/ CloseSend(p) \/ CloseFlat(p) \/
         Finalize(p)
  BY <1>2 DEF FailsafeCancel, FailsafeClose, FailsafeFlat, FailsafeSettle, CloseBegin,
    CloseSend, CloseFlat, Finalize
<1>3. CASE NextRow(p) \/ Release(p)
  BY <1>3 DEF NextRow, TakeRow, Release, TypeOK, TasksTyped
<1>4. CASE ReconcileUnsettled(p) \/ ReconcileFlat(p) \/ ReconcileActive(p) \/
         RecoverOpening(p) \/ RecoverProtect(p) \/ RecoverAbsent(p)
  BY <1>4 DEF ReconcileUnsettled, ReconcileFlat, ReconcileActive, RecoverOpening,
    RecoverProtect, RecoverAbsent, Abort, TypeOK, TasksTyped
<1>5. CASE p = Ops /\ CloseEverything
  BY <1>5 DEF CloseEverything, EmergencyLock, CloseAllRows, CloseAllNext, TypeOK,
    TasksTyped
<1> QED BY <1>1, <1>2, <1>3, <1>4, <1>5 DEF Continue, Execute, Failsafe, CloseTrade,
  Reconcile

\* A row on the list is as it was listed, or is read now.
LEMMA SnapOfMover ==
  ASSUME TypeOK, NEW p \in Procs, Continue(p), NEW t \in Signals
  PROVE  snap'[p][t] \in {snap[p][t], status[t], Absent}
<1> USE ConstantsAssumption DEF Goto, Mark, Fault, NoFault, book, fills, exch, locks,
  hand, bounds, hist
<1>1. CASE LockEntry(p) \/ LockSymbol(p) \/ ExecuteCheck(p) \/ ExecuteRoom(p) \/
         ExecuteCreate(p) \/ ExecuteSubmit(p) \/ ExecuteMarkSubmitted(p) \/
         ExecuteWait(p) \/ ExecuteProtect(p) \/ ExecuteFail(p)
  BY <1>1 DEF LockEntry, LockSymbol, ExecuteCheck, ExecuteRoom, ExecuteCreate,
    ExecuteSubmit, ExecuteMarkSubmitted, ExecuteWait, ExecuteProtect, ExecuteFail
<1>2. CASE FailsafeCancel(p) \/ FailsafeClose(p) \/ FailsafeFlat(p) \/
         FailsafeSettle(p) \/ CloseBegin(p) \/ CloseSend(p) \/ CloseFlat(p) \/
         Finalize(p) \/ Release(p)
  BY <1>2 DEF FailsafeCancel, FailsafeClose, FailsafeFlat, FailsafeSettle, CloseBegin,
    CloseSend, CloseFlat, Finalize, Release
<1>3. CASE NextRow(p)
  BY <1>3 DEF NextRow, TakeRow, TypeOK, TasksTyped
<1>4. CASE ReconcileUnsettled(p) \/ RecoverProtect(p)
  BY <1>4 DEF ReconcileUnsettled, RecoverProtect
<1>5. CASE ReconcileFlat(p) \/ ReconcileActive(p) \/ RecoverOpening(p) \/ RecoverAbsent(p)
  <2>1. snap' = snap \/ Abort(p)
    BY <1>5 DEF ReconcileFlat, ReconcileActive, RecoverOpening, RecoverAbsent
  <2> QED BY <2>1 DEF Abort, NoRows, TypeOK, TasksTyped
<1>6. CASE p = Ops /\ CloseEverything
  BY <1>6 DEF CloseEverything, EmergencyLock, CloseAllRows, CloseAllNext, RowsIn, TypeOK,
    TasksTyped
<1> QED BY <1>1, <1>2, <1>3, <1>4, <1>5, <1>6 DEF Continue, Execute, Failsafe,
  CloseTrade, Reconcile

LEMMA SnapMoves ==
  ASSUME TypeOK, Next, NEW q \in Procs, NEW t \in Signals
  PROVE  snap'[q][t] \in {snap[q][t], status[t], Absent}
<1>1. ASSUME NEW p \in Procs, Continue(p)
      PROVE  snap'[q][t] \in {snap[q][t], status[t], Absent}
  BY <1>1, SnapOfMover, SnapsOfOthersStay
<1>2. CASE Request \/ Exchange
  BY <1>2 DEF Request, DeliverExecute, RequestClose, Pause, Resume, CloseAll,
    EmergencyStop, Exchange, FillEntry, DropEntry, ExitPosition, hand
<1>3. CASE Crash
  BY <1>3 DEF Crash, NoRows
<1>4. CASE \E p \in Reconcilers : ReadRows(p)
  BY <1>4 DEF ReadRows, TakeRow, RowsIn, Procs, TypeOK, TasksTyped
<1> QED BY <1>1, <1>2, <1>3, <1>4 DEF Next

\* The row in hand is one that was read, or the one re-read, or the same as before.
InHand == {"R_symbol", "R_trade", "O_begin"}

LEMMA HandOfMover ==
  ASSUME TypeOK, LockInv, NEW p \in Procs, Continue(p), pc'[p] \in InHand
  PROVE  /\ job'[p] \in Signals
         /\ \/ row'[p] \in {snap[p][job'[p]], status[job'[p]]}
            \/ pc[p] \in InHand /\ job'[p] = job[p] /\ row'[p] = row[p]
<1> USE ConstantsAssumption DEF Goto, Mark, Fault, NoFault, book, fills, exch, locks,
  hand, bounds, hist
<1>1. CASE LockEntry(p) \/ ExecuteCheck(p) \/ ExecuteRoom(p) \/ ExecuteCreate(p) \/
         ExecuteSubmit(p) \/ ExecuteMarkSubmitted(p) \/ ExecuteWait(p) \/
         ExecuteProtect(p) \/ ExecuteFail(p)
  BY <1>1 DEF LockEntry, ExecuteCheck, ExecuteRoom, ExecuteCreate, ExecuteSubmit,
    ExecuteMarkSubmitted, ExecuteWait, ExecuteProtect, ExecuteFail, InHand, TypeOK,
    TasksTyped
<1>2. CASE LockSymbol(p)
  BY <1>2 DEF LockSymbol, InHand, LockInv, Busy, TypeOK, TasksTyped
<1>3. CASE FailsafeCancel(p) \/ FailsafeClose(p) \/ FailsafeFlat(p) \/
         FailsafeSettle(p) \/ CloseBegin(p) \/ CloseSend(p) \/ CloseFlat(p) \/
         Finalize(p) \/ Release(p)
  BY <1>3 DEF FailsafeCancel, FailsafeClose, FailsafeFlat, FailsafeSettle, CloseBegin,
    CloseSend, CloseFlat, Finalize, Release, Unrecovered, InHand, TypeOK, TasksTyped
<1>4. CASE NextRow(p)
  BY <1>4 DEF NextRow, TakeRow, Left, InHand, TypeOK, TasksTyped
<1>5. CASE ReconcileUnsettled(p)
  BY <1>5 DEF ReconcileUnsettled, InHand, LockInv, Busy, SymbolHeld, TypeOK, TasksTyped
<1>6. CASE ReconcileFlat(p) \/ ReconcileActive(p) \/ RecoverOpening(p) \/
         RecoverProtect(p)
  BY <1>6 DEF ReconcileFlat, ReconcileActive, RecoverOpening, RecoverProtect,
    Unrecovered, Abort, InHand, TypeOK, TasksTyped
<1>7. CASE RecoverAbsent(p)
  <2>1. job[p] \in Signals /\ job' = job
    BY <1>7 DEF RecoverAbsent, LockInv, Busy, SymbolHeld, Opening
  <2>2. row'[p] = status[job[p]]
    BY <1>7 DEF RecoverAbsent, Abort, InHand, TypeOK, TasksTyped
  <2> QED BY <2>1, <2>2
<1>8. CASE p = Ops /\ CloseEverything
  BY <1>8 DEF CloseEverything, EmergencyLock, CloseAllRows, CloseAllNext, InHand, TypeOK,
    TasksTyped
<1> QED BY <1>1, <1>2, <1>3, <1>4, <1>5, <1>6, <1>7, <1>8 DEF Continue, Execute,
  Failsafe, CloseTrade, Reconcile

LEMMA HandMoves ==
  ASSUME TypeOK, LockInv, Next, NEW q \in Procs, pc'[q] \in InHand
  PROVE  /\ job'[q] \in Signals
         /\ \/ row'[q] \in {snap[q][job'[q]], status[job'[q]]}
            \/ pc[q] \in InHand /\ job'[q] = job[q] /\ row'[q] = row[q]
<1> USE ConstantsAssumption
<1>1. pc[q] \in InHand => job[q] \in Signals
  BY DEF LockInv, Busy, SymbolHeld, Opening, InHand
<1>2. ASSUME NEW p \in Procs, Continue(p), q # p
      PROVE  pc'[q] = pc[q] /\ job'[q] = job[q] /\ row'[q] = row[q]
  BY <1>2, OthersStay, SnapsOfOthersStay
<1>3. CASE Request \/ Exchange
  <2>1. pc'[q] = pc[q] /\ job'[q] = job[q] /\ row' = row
    BY <1>3 DEF Request, DeliverExecute, RequestClose, Pause, Resume, CloseAll,
      EmergencyStop, Exchange, FillEntry, DropEntry, ExitPosition, hand, Goto, InHand,
      Procs, TypeOK, TasksTyped
  <2> QED BY <1>1, <2>1
<1>4. CASE Crash
  BY <1>4 DEF Crash, InHand
<1>5. CASE \E p \in Reconcilers : ReadRows(p)
  BY <1>1, <1>5 DEF ReadRows, TakeRow, Left, RowsIn, Goto, Procs, TypeOK, TasksTyped
<1> QED BY <1>1, <1>2, <1>3, <1>4, <1>5, HandOfMover DEF Next

\* At the labels that follow a flat answer, nothing of the trade is left.
LEMMA FlatOfMover ==
  ASSUME TypeOK, LockInv, OrderInv, PollInv, ~LateFills,
         NEW p \in Procs, Continue(p), pc'[p] \in {"F_settle", "finalize"}
  PROVE  ~Exposed(job[p])'
<1> USE ConstantsAssumption DEF Goto, Mark, Fault, NoFault, book, fills, exch, locks,
  hand, bounds, hist
<1>1. CASE LockEntry(p) \/ LockSymbol(p) \/ ExecuteCheck(p) \/ ExecuteRoom(p) \/
         ExecuteCreate(p) \/ ExecuteSubmit(p) \/ ExecuteMarkSubmitted(p) \/
         ExecuteWait(p) \/ ExecuteProtect(p) \/ ExecuteFail(p)
  BY <1>1 DEF LockEntry, LockSymbol, ExecuteCheck, ExecuteRoom, ExecuteCreate,
    ExecuteSubmit, ExecuteMarkSubmitted, ExecuteWait, ExecuteProtect, ExecuteFail,
    TypeOK, TasksTyped
<1>2. CASE FailsafeCancel(p) \/ FailsafeClose(p) \/ CloseSend(p) \/ Finalize(p) \/
         NextRow(p) \/ Release(p) \/ ReconcileUnsettled(p) \/ RecoverProtect(p)
  BY <1>2 DEF FailsafeCancel, FailsafeClose, CloseSend, Finalize, NextRow, TakeRow,
    Release, ReconcileUnsettled, RecoverProtect, Unrecovered, TypeOK, TasksTyped
<1>3. CASE FailsafeFlat(p) \/ CloseFlat(p)
  <2>1. job[p] \in Signals /\ job' = job /\ pos' = pos
    BY <1>3 DEF FailsafeFlat, CloseFlat, LockInv, Busy, SymbolHeld, Recovering, Closing
  <2>2. NoPositionFor(job[p]) /\ CancelEntry(job[p])
    BY <1>3 DEF FailsafeFlat, CloseFlat, Unrecovered, TypeOK, TasksTyped
  <2>3. ~Exposed(job[p]) /\ ord'[job[p]] # "inflight"
    BY <2>1, <2>2, FlatIsFinal DEF CancelEntry, Exposed, TypeOK, AccountTyped
  <2> QED BY <2>1, <2>3 DEF Exposed
<1>4. CASE FailsafeSettle(p)
  BY <1>4 DEF FailsafeSettle, PollInv, Exposed
<1>5. CASE CloseBegin(p)
  <2>1. PICK t \in Signals :
          job' = [job EXCEPT ![p] = t] /\ status[t] = "CLOSED_SYNCING" /\ exch' = exch
    BY <1>5 DEF CloseBegin, TypeOK, TasksTyped
  <2>2. job'[p] = t
    BY <2>1 DEF TypeOK, TasksTyped
  <2>3. ~Exposed(t)
    BY <2>1 DEF PollInv, Settled, Exposed
  <2> QED BY <2>1, <2>2, <2>3 DEF Exposed
<1>6. CASE ReconcileFlat(p)
  <2>1. pc[p] = "R_trade" /\ row[p] = "CLOSED_SYNCING" /\ exch' = exch /\ job' = job
    BY <1>6 DEF ReconcileFlat
  <2> QED BY <2>1 DEF PollInv, Settled, Exposed
<1>7. CASE ReconcileActive(p)
  <2>1. /\ pc[p] = "R_trade" /\ row[p] = "ACTIVE" /\ job' = job /\ pos' = pos
        /\ ~PositionOn(job[p]) /\ CancelEntry(job[p])
    BY <1>7 DEF ReconcileActive, Unrecovered, Abort, TypeOK, TasksTyped
  <2>2. job[p] \in Signals /\ ord[job[p]] # "inflight"
    BY <2>1 DEF PollInv, Settled, LockInv, Busy, SymbolHeld
  <2> QED BY <2>1, <2>2 DEF CancelEntry, PositionOn, Exposed, TypeOK, AccountTyped
<1>8. CASE RecoverOpening(p)
  <2>1. /\ pc[p] = "O_begin" /\ row[p] = "PROTECTING" /\ job' = job /\ exch' = exch
        /\ ~PositionOn(job[p])
    BY <1>8 DEF RecoverOpening, Abort, TypeOK, TasksTyped
  <2>2. ord[job[p]] # "inflight"
    BY <2>1 DEF PollInv, Settled
  <2> QED BY <2>1, <2>2 DEF PositionOn, Exposed
<1>9. CASE RecoverAbsent(p)
  <2>1. pc[p] = "O_poll" /\ ~PositionOn(job[p]) /\ job' = job /\ exch' = exch
    BY <1>9 DEF RecoverAbsent, Abort, TypeOK, TasksTyped
  <2>2. ord[job[p]] # "inflight"
    BY <2>1 DEF OrderInv, Seeing
  <2> QED BY <2>1, <2>2 DEF PositionOn, Exposed
<1>10. CASE p = Ops /\ CloseEverything
  BY <1>10 DEF CloseEverything, EmergencyLock, CloseAllRows, CloseAllNext, TypeOK,
    TasksTyped
<1> QED BY <1>1, <1>2, <1>3, <1>4, <1>5, <1>6, <1>7, <1>8, <1>9, <1>10 DEF Continue,
  Execute, Failsafe, CloseTrade, Reconcile

\* Nobody else exposes the trade of a coroutine that holds its symbol.
LEMMA FlatMoves ==
  ASSUME TypeOK, LockInv, EntryInv, OrderInv, PollInv, ~LateFills, Next,
         NEW q \in Procs, pc'[q] \in {"F_settle", "finalize"}
  PROVE  ~Exposed(job[q])'
<1> USE ConstantsAssumption
<1>1. ASSUME NEW p \in Procs, Continue(p), q # p PROVE ~Exposed(job[q])'
  <2>1. pc[q] \in {"F_settle", "finalize"} /\ job'[q] = job[q]
    BY <1>1, OthersStay
  <2>2. job[q] \in Signals /\ pc[q] \in SymbolHeld /\ ~Exposed(job[q])
    BY <2>1 DEF LockInv, Busy, SymbolHeld, Recovering, PollInv
  <2>3. \A r \in Procs : ~(pc[r] = "E_submit" /\ job[r] = job[q])
    BY <2>1, <2>2, Apart DEF SymbolHeld, Executing, Submitting
  <2> QED BY <2>1, <2>2, <2>3, ExposureMoves DEF Exposed
<1>2. ASSUME Request \/ Exchange \/ Crash \/ \E p \in Reconcilers : ReadRows(p)
      PROVE  ~Exposed(job[q])'
  <2>1. pc[q] = pc'[q] /\ job'[q] = job[q]
    BY <1>2 DEF Request, DeliverExecute, RequestClose, Pause, Resume, CloseAll,
      EmergencyStop, Exchange, FillEntry, DropEntry, ExitPosition, Crash, ReadRows,
      TakeRow, hand, Goto, Procs, TypeOK, TasksTyped
  <2>2. job[q] \in Signals /\ pc[q] \in SymbolHeld /\ ~Exposed(job[q])
    BY <2>1 DEF LockInv, Busy, SymbolHeld, Recovering, PollInv
  <2>3. \A r \in Procs : ~(pc[r] = "E_submit" /\ job[r] = job[q])
    BY <2>1, <2>2, Apart DEF SymbolHeld, Executing, Submitting
  <2> QED BY <2>1, <2>2, <2>3, ExposureMoves DEF Exposed
<1> QED BY <1>1, <1>2, FlatOfMover DEF Next

\* Every step keeps PollInv.
LEMMA PollStep ==
  ASSUME TypeOK, LockInv, RowInv, EntryInv, OrderInv, BookedInv, NewerInv, PollInv,
         ~LateFills, Next
  PROVE  PollInv'
<1> USE ConstantsAssumption
<1>1. ASSUME NEW t \in Signals PROVE Settled(t, status[t])'
  <2>1. CASE status'[t] # status[t]
    <3>1. PICK p \in Procs : Continue(p)
      BY <2>1, RowsStay DEF Next
    <3> QED BY <2>1, <3>1, WrittenIsSettled
  <2>2. CASE status'[t] = status[t]
    <3>1. Settled(t, status[t]) /\ (status[t] # Absent => rowid[t] # 0)
      BY DEF PollInv, RowInv
    <3> QED BY <2>2, <3>1, SettledStays DEF Settled
  <2> QED BY <2>1, <2>2
<1>2. ASSUME NEW q \in Procs, NEW t \in Signals PROVE Settled(t, snap[q][t])'
  <2>1. snap'[q][t] \in {snap[q][t], status[t], Absent}
    BY SnapMoves
  <2>2. /\ Settled(t, snap[q][t]) /\ (snap[q][t] # Absent => rowid[t] # 0)
        /\ Settled(t, status[t]) /\ (status[t] # Absent => rowid[t] # 0)
        /\ Settled(t, Absent)
    BY DEF PollInv, RowInv, Settled, Absent
  <2> DEFINE s == snap'[q][t]
  <2>3. Settled(t, s) /\ (s # Absent => rowid[t] # 0)
    BY <2>1, <2>2
  <2> QED BY <2>3, SettledStays DEF Settled
<1>3. ASSUME NEW q \in Procs, pc'[q] \in {"R_symbol", "R_trade", "O_begin"}
      PROVE  Settled(job[q], row[q])'
  <2> DEFINE t == job'[q]
             s == row'[q]
  <2>1. /\ t \in Signals
        /\ \/ s \in {snap[q][t], status[t]}
           \/ pc[q] \in InHand /\ t = job[q] /\ s = row[q]
    BY <1>3, HandMoves DEF InHand
  <2>2. Settled(t, s)
    BY <2>1 DEF PollInv, InHand
  <2>3. s # Absent => rowid[t] # 0
    BY <2>1 DEF RowInv, HasRow, InHand, Opening
  <2> QED BY <2>1, <2>2, <2>3, SettledStays DEF Settled
<1>4. ASSUME NEW q \in Procs, pc'[q] \in {"F_settle", "finalize"} PROVE ~Exposed(job[q])'
  BY <1>4, FlatMoves
<1> QED BY <1>1, <1>2, <1>3, <1>4 DEF PollInv

-----------------------------------------------------------------------------
(***************************************************************************)
(* CapInv.                                                                 *)
(***************************************************************************)

\* What is exposed is live, so the count in HasRoom sees it.
LEMMA ExposedIsLive ==
  ASSUME PollInv, ExposureIsManaged, NEW t \in Signals, Exposed(t)
  PROVE  t \in LiveTrades
BY DEF PollInv, Settled, ExposureIsManaged, Exposed, LiveTrades, Reconcilable

\* Row ids number the live trades, so they are finitely many.
LEMMA LiveTradesFinite ==
  ASSUME TypeOK, RowInv
  PROVE  IsFiniteSet(LiveTrades)
<1> DEFINE f == [t \in LiveTrades |-> rowid[t]]
<1>1. \A t \in LiveTrades : t \in Signals /\ rowid[t] # 0 /\ rowid[t] \in 1..lastId
  BY DEF LiveTrades, Live, RowInv, Absent, TypeOK, RowsTyped
<1>2. f \in [LiveTrades -> 1..lastId]
  BY <1>1
<1>3. \A t, u \in LiveTrades : f[t] = f[u] => t = u
  BY <1>1 DEF RowInv
<1>4. f \in Injection(LiveTrades, 1..lastId)
  BY <1>2, <1>3 DEF Injection, IsInjective
<1>5. lastId \in Int /\ 1 \in Int
  BY DEF TypeOK, RowsTyped
<1>6. IsFiniteSet(1..lastId)
  BY <1>5, FS_Interval
<1> QED BY <1>4, <1>6, FS_Injection

\* No more symbols are exposed than trades are live.
LEMMA ExposedCounted ==
  ASSUME TypeOK, RowInv, PollInv, ExposureIsManaged
  PROVE  Cardinality(ExposedSymbols) <= Cardinality(LiveTrades)
<1> DEFINE f == [s \in ExposedSymbols |-> CHOOSE t \in LiveTrades : SymbolOf[t] = s]
<1>1. \A s \in ExposedSymbols : \E t \in LiveTrades : SymbolOf[t] = s
  BY ExposedIsLive DEF ExposedSymbols
<1>2. \A s \in ExposedSymbols : f[s] \in LiveTrades /\ SymbolOf[f[s]] = s
  BY <1>1
<1>3. f \in [ExposedSymbols -> LiveTrades]
  BY <1>2
<1>4. \A s, r \in ExposedSymbols : f[s] = f[r] => s = r
  BY <1>2
<1>5. f \in Injection(ExposedSymbols, LiveTrades)
  BY <1>3, <1>4 DEF Injection, IsInjective
<1> HIDE DEF f
<1> QED BY <1>5, LiveTradesFinite, FS_Injection

\* How a coroutine gets to the labels at which a row is created and the order sent.
LEMMA AdmittedMoveOf ==
  ASSUME TypeOK, NEW p \in Procs, Continue(p), pc'[p] \in {"E_create", "E_submit"}
  PROVE  pc[p] = "E_create" \/ (pc[p] = "E_room" /\ HasRoom(job[p]))
<1> USE ConstantsAssumption DEF Goto, Mark, Fault, NoFault, book, fills, exch, locks,
  hand, bounds, hist
<1>1. CASE LockEntry(p) \/ LockSymbol(p) \/ ExecuteCheck(p) \/ ExecuteRoom(p) \/
         ExecuteCreate(p) \/ ExecuteSubmit(p)
  BY <1>1 DEF LockEntry, LockSymbol, ExecuteCheck, ExecuteRoom, ExecuteCreate,
    ExecuteSubmit, TypeOK, TasksTyped
<1>2. CASE ExecuteMarkSubmitted(p) \/ ExecuteWait(p) \/ ExecuteProtect(p) \/
         ExecuteFail(p)
  BY <1>2 DEF ExecuteMarkSubmitted, ExecuteWait, ExecuteProtect, ExecuteFail, TypeOK,
    TasksTyped
<1>3. CASE FailsafeCancel(p) \/ FailsafeClose(p) \/ FailsafeFlat(p) \/
         FailsafeSettle(p) \/ CloseBegin(p) \/ CloseSend(p) \/ CloseFlat(p) \/
         Finalize(p)
  BY <1>3 DEF FailsafeCancel, FailsafeClose, FailsafeFlat, FailsafeSettle, CloseBegin,
    CloseSend, CloseFlat, Finalize, Unrecovered, TypeOK, TasksTyped
<1>4. CASE NextRow(p) \/ Release(p)
  BY <1>4 DEF NextRow, TakeRow, Release, TypeOK, TasksTyped
<1>5. CASE ReconcileUnsettled(p) \/ ReconcileFlat(p) \/ ReconcileActive(p) \/
         RecoverOpening(p) \/ RecoverProtect(p) \/ RecoverAbsent(p)
  BY <1>5 DEF ReconcileUnsettled, ReconcileFlat, ReconcileActive, RecoverOpening,
    RecoverProtect, RecoverAbsent, Unrecovered, Abort, TypeOK, TasksTyped
<1>6. CASE p = Ops /\ CloseEverything
  BY <1>6 DEF CloseEverything, EmergencyLock, CloseAllRows, CloseAllNext, TypeOK,
    TasksTyped
<1> QED BY <1>1, <1>2, <1>3, <1>4, <1>5, <1>6 DEF Continue, Execute, Failsafe,
  CloseTrade, Reconcile

\* What is not a step of a coroutine exposes nothing and admits nobody.
Outside == Request \/ Exchange \/ Crash \/ \E p \in Reconcilers : ReadRows(p)

LEMMA OutsideExposesNothing ==
  ASSUME TypeOK, Outside, NEW t \in Signals, Exposed(t)'
  PROVE  Exposed(t)
<1> USE ConstantsAssumption
<1>1. CASE Exchange
  <2>1. ASSUME NEW u \in Signals, FillEntry(u) \/ DropEntry(u) PROVE Exposed(t)
    BY <2>1 DEF FillEntry, DropEntry, Exposed, TypeOK, AccountTyped
  <2>2. ASSUME NEW s \in Symbols, ExitPosition(s) PROVE Exposed(t)
    BY <2>2 DEF ExitPosition, Exposed, TypeOK, AccountTyped
  <2> QED BY <1>1, <2>1, <2>2 DEF Exchange
<1>2. CASE Request \/ Crash \/ \E p \in Reconcilers : ReadRows(p)
  <2>1. UNCHANGED exch
    BY <1>2 DEF Request, DeliverExecute, RequestClose, Pause, Resume, CloseAll,
      EmergencyStop, Crash, ReadRows
  <2> QED BY <2>1 DEF exch, Exposed
<1> QED BY <1>1, <1>2 DEF Outside

LEMMA OutsideAdmitsNobody ==
  ASSUME TypeOK, Outside, NEW q \in Procs, pc'[q] \in {"E_create", "E_submit"}
  PROVE  pc[q] = pc'[q]
<1> USE ConstantsAssumption
<1>1. CASE Request
  BY <1>1 DEF Request, DeliverExecute, RequestClose, Pause, Resume, CloseAll,
    EmergencyStop, Goto, Procs, TypeOK, TasksTyped
<1>2. CASE Exchange
  BY <1>2 DEF Exchange, FillEntry, DropEntry, ExitPosition
<1>3. CASE Crash
  BY <1>3 DEF Crash
<1>4. CASE \E p \in Reconcilers : ReadRows(p)
  BY <1>4 DEF ReadRows, TakeRow, Goto, Procs, TypeOK, TasksTyped
<1> QED BY <1>1, <1>2, <1>3, <1>4 DEF Outside

\* A coroutine exposes the trade it submits, and nothing else.
LEMMA ExposureMoveOf ==
  ASSUME TypeOK, LockInv, NEW p \in Procs, Continue(p), NEW t \in Signals,
         ~Exposed(t), Exposed(t)'
  PROVE  pc[p] = "E_submit" /\ job[p] = t
BY PositionsStay, OrderMoveOf DEF Exposed

\* Every step keeps CapInv.
LEMMA CapStep ==
  ASSUME TypeOK, LockInv, RowInv, PollInv, ExposureIsManaged, CapInv, Next
  PROVE  CapInv'
<1> USE ConstantsAssumption
<1> DEFINE Admitted == {"E_create", "E_submit"}
           E == ExposedSymbols
<1>0. /\ IsFiniteSet(E) /\ Cardinality(E) \in Nat /\ Cardinality(E) <= MaxOpen
      /\ \A p \in Procs : pc[p] \in Admitted => Cardinality(E) < MaxOpen
  BY FS_CardinalityType DEF CapInv
<1>1. ASSUME E' \subseteq E,
             \A q \in Procs : pc'[q] \in Admitted =>
               pc[q] \in Admitted \/ Cardinality(E) < MaxOpen
      PROVE  CapInv'
  <2>1. IsFiniteSet(E') /\ Cardinality(E') <= Cardinality(E) /\ Cardinality(E') \in Nat
    BY <1>0, <1>1, FS_Subset, FS_CardinalityType
  <2>2. Cardinality(E') <= MaxOpen
    BY <1>0, <2>1
  <2>3. \A q \in Procs : pc'[q] \in Admitted => Cardinality(E') < MaxOpen
    BY <1>0, <1>1, <2>1
  <2> QED BY <2>1, <2>2, <2>3 DEF CapInv
<1>2. CASE Outside
  <2>1. E' \subseteq E
    BY <1>2, OutsideExposesNothing DEF ExposedSymbols
  <2> QED BY <1>1, <1>2, <2>1, OutsideAdmitsNobody
<1>3. ASSUME NEW p \in Procs, Continue(p), pc[p] # "E_submit" PROVE CapInv'
  <2>1. E' \subseteq E
    BY <1>3, ExposureMoveOf DEF ExposedSymbols
  <2>2. ASSUME NEW q \in Procs, pc'[q] \in Admitted
        PROVE  pc[q] \in Admitted \/ Cardinality(E) < MaxOpen
    <3>1. CASE q # p
      BY <1>3, <2>2, <3>1, OthersStay
    <3>2. CASE q = p /\ pc[p] # "E_create"
      <4>1. Cardinality(LiveTrades) < MaxOpen
        BY <1>3, <2>2, <3>2, AdmittedMoveOf DEF HasRoom
      <4>2. Cardinality(LiveTrades) \in Nat
        BY LiveTradesFinite, FS_CardinalityType
      <4> QED BY <1>0, <4>1, <4>2, ExposedCounted
    <3> QED BY <3>1, <3>2
  <2> QED BY <1>1, <2>1, <2>2
<1>4. ASSUME NEW p \in Procs, Continue(p), pc[p] = "E_submit" PROVE CapInv'
  <2> DEFINE F == E \cup {SymbolOf[job[p]]}
  <2>1. E' \subseteq F
    BY <1>4, ExposureMoveOf DEF ExposedSymbols
  <2>2. IsFiniteSet(F) /\ Cardinality(F) <= Cardinality(E) + 1 /\ Cardinality(F) \in Nat
    <3>1. /\ IsFiniteSet(F)
          /\ Cardinality(F) = IF SymbolOf[job[p]] \in E THEN Cardinality(E)
                                                        ELSE Cardinality(E) + 1
      BY <1>0, FS_AddElement
    <3> QED BY <1>0, <3>1
  <2>3. IsFiniteSet(E') /\ Cardinality(E') <= Cardinality(F) /\ Cardinality(E') \in Nat
    BY <2>1, <2>2, FS_Subset, FS_CardinalityType
  <2>4. Cardinality(E') <= MaxOpen
    BY <1>0, <1>4, <2>2, <2>3
  <2>5. ASSUME NEW q \in Procs, pc'[q] \in Admitted PROVE FALSE
    <3>1. CASE q = p
      BY <1>4, <2>5, <3>1, AdmittedMoveOf
    <3>2. CASE q # p
      <4>1. pc[q] \in Submitting /\ pc[p] \in Submitting
        BY <1>4, <2>5, <3>2, OthersStay DEF Submitting
      <4> QED BY <3>2, <4>1, OneOwner DEF LockInv
    <3> QED BY <3>1, <3>2
  <2> QED BY <2>3, <2>4, <2>5 DEF CapInv
<1> QED BY <1>2, <1>3, <1>4 DEF Next, Outside

-----------------------------------------------------------------------------
(***************************************************************************)
(* ListInv and EmergencyLeavesFlat.                                        *)
(***************************************************************************)

\* What the other coroutines leave alone of close_all.
LEMMA OthersLeaveHistory ==
  ASSUME TypeOK, NEW p \in Procs \ {Ops}, Continue(p)
  PROVE  stopped' = stopped /\ missed' = missed
<1> USE ConstantsAssumption DEF Goto, Mark, Fault, NoFault, book, fills, exch, locks,
  hand, bounds, hist
<1>1. CASE LockEntry(p) \/ LockSymbol(p) \/ ExecuteCheck(p) \/ ExecuteRoom(p) \/
         ExecuteCreate(p) \/ ExecuteSubmit(p) \/ ExecuteMarkSubmitted(p) \/
         ExecuteWait(p) \/ ExecuteProtect(p) \/ ExecuteFail(p)
  BY <1>1 DEF LockEntry, LockSymbol, ExecuteCheck, ExecuteRoom, ExecuteCreate,
    ExecuteSubmit, ExecuteMarkSubmitted, ExecuteWait, ExecuteProtect, ExecuteFail
<1>2. CASE FailsafeCancel(p) \/ FailsafeClose(p) \/ FailsafeFlat(p) \/
         FailsafeSettle(p) \/ CloseBegin(p) \/ Finalize(p) \/ NextRow(p) \/ Release(p)
  BY <1>2 DEF FailsafeCancel, FailsafeClose, FailsafeFlat, FailsafeSettle, CloseBegin,
    Finalize, NextRow, Release
<1>3. CASE CloseSend(p) \/ CloseFlat(p)
  <2>1. stopped' = stopped /\ (missed' = missed \/ Miss(p))
    BY <1>3 DEF CloseSend, CloseFlat
  <2>2. p # Ops
    OBVIOUS
  <2>3. Miss(p) => missed' = missed
    BY <2>2 DEF Miss, TypeOK, BoundsTyped
  <2> QED BY <2>1, <2>3
<1>4. CASE ReconcileUnsettled(p) \/ ReconcileFlat(p) \/ ReconcileActive(p) \/
         RecoverOpening(p) \/ RecoverProtect(p) \/ RecoverAbsent(p)
  BY <1>4 DEF ReconcileUnsettled, ReconcileFlat, ReconcileActive, RecoverOpening,
    RecoverProtect, RecoverAbsent
<1> QED BY <1>1, <1>2, <1>3, <1>4 DEF Continue, Execute, Failsafe, CloseTrade, Reconcile

\* What close_all's coroutine does: queue, close, finalize, release, and its list.
LEMMA OpsMoves ==
  ASSUME pc[Ops] \in OpsLabels, Continue(Ops)
  PROVE  \/ LockSymbol(Ops) \/ CloseTrade(Ops) \/ Finalize(Ops) \/ Release(Ops)
         \/ CloseEverything
BY DEF OpsLabels, Closing, Continue, Execute, Failsafe, Reconcile, LockEntry,
  ExecuteCheck, ExecuteRoom, ExecuteCreate, ExecuteSubmit, ExecuteMarkSubmitted,
  ExecuteWait, ExecuteProtect, ExecuteFail, FailsafeCancel, FailsafeClose, FailsafeFlat,
  FailsafeSettle, NextRow, ReconcileUnsettled, ReconcileFlat, ReconcileActive,
  RecoverOpening, RecoverProtect, RecoverAbsent

\* With entries stopped, nothing becomes exposed.
LEMMA StoppedExposesNothing ==
  ASSUME TypeOK, LockInv, EntryInv, EmergencyInv, stopped # "no", Next,
         NEW t \in Signals, Exposed(t)'
  PROVE  Exposed(t)
BY ExposureMoves DEF EmergencyInv, Submitting

LEMMA OutsideLeavesList ==
  ASSUME TypeOK, Outside, pc'[Ops] \notin {"idle", "X_entry", "X_rows"}
  PROVE  /\ pc'[Ops] = pc[Ops] /\ job'[Ops] = job[Ops] /\ snap'[Ops] = snap[Ops]
         /\ missed' = missed /\ (stopped' = stopped \/ stopped' = "no")
<1> USE ConstantsAssumption DEF Goto, hand, hist, Procs
<1>1. CASE Request
  BY <1>1 DEF Request, DeliverExecute, RequestClose, Pause, Resume, CloseAll,
    EmergencyStop, TypeOK, TasksTyped
<1>2. CASE Exchange
  BY <1>2 DEF Exchange, FillEntry, DropEntry, ExitPosition
<1>3. CASE Crash
  BY <1>3 DEF Crash
<1>4. CASE \E p \in Reconcilers : ReadRows(p)
  BY <1>4 DEF ReadRows, TakeRow, TypeOK, TasksTyped
<1> QED BY <1>1, <1>2, <1>3, <1>4 DEF Outside

LEMMA OutsideKeepsOpsLabels ==
  ASSUME TypeOK, Outside, pc[Ops] \in OpsLabels
  PROVE  pc'[Ops] \in OpsLabels
<1> USE ConstantsAssumption DEF Goto, Procs
<1>1. CASE Request
  BY <1>1 DEF Request, DeliverExecute, RequestClose, Pause, Resume, CloseAll,
    EmergencyStop, TypeOK, TasksTyped, OpsLabels
<1>2. CASE Exchange \/ Crash
  BY <1>2 DEF Exchange, FillEntry, DropEntry, ExitPosition, Crash, OpsLabels
<1>3. CASE \E p \in Reconcilers : ReadRows(p)
  BY <1>3 DEF ReadRows, TakeRow, TypeOK, TasksTyped
<1> QED BY <1>1, <1>2, <1>3 DEF Outside

\* One step of close_all: a trade leaves the list only to be closed, and is given up
\* only when flat or when the close was missed.
LEMMA OpsKeepsList ==
  ASSUME TypeOK, LockInv, RowInv, OrderInv, BookedInv, NewerInv, PollInv, ListInv,
         ExposureIsManaged, ~LateFills, Continue(Ops),
         stopped = "entries", stopped' = "entries", ~missed',
         pc'[Ops] \notin {"idle", "X_entry", "X_rows"},
         NEW t \in Signals, Exposed(t), Exposed(t)'
  PROVE  Listed(t)'
<1> USE ConstantsAssumption DEF Goto, Mark, Fault, NoFault, book, fills, exch, locks,
  hand, bounds, hist
<1> DEFINE o == Ops
<1>0. o \in Procs /\ o \notin Workers /\ o \notin Reconcilers
  BY DEF Procs
<1>10. ~Miss(o)
  BY DEF Miss
<1>1. CASE CloseAllRows
  <2>1. status[t] \in Live /\ snap' = [snap EXCEPT ![o] = RowsIn(Live)]
    BY <1>1, ExposedIsLive DEF CloseAllRows, LiveTrades
  <2>2. snap'[o][t] = status[t] /\ status[t] # Absent
    BY <1>0, <2>1 DEF RowsIn, Live, Absent, TypeOK, TasksTyped
  <2> QED BY <2>2 DEF Listed, Left
<1>2. CASE EmergencyLock
  BY <1>0, <1>2 DEF EmergencyLock, TypeOK, TasksTyped
<1>3. CASE CloseAllNext
  <2>1. Listed(t) /\ pc[o] = "X_next"
    BY <1>3 DEF CloseAllNext, ListInv
  <2>2. t \in Left(snap[o])
    BY <2>1 DEF Listed, Closing
  <2>3. PICK u \in Left(snap[o]) :
          /\ job' = [job EXCEPT ![o] = u] /\ snap' = [snap EXCEPT ![o][u] = Absent]
          /\ Goto(o, "X_symbol")
    BY <1>0, <1>3, <2>2 DEF CloseAllNext
  <2>4. CASE u = t
    BY <1>0, <2>3, <2>4 DEF Listed, TypeOK, TasksTyped
  <2>5. CASE u # t
    BY <1>0, <2>2, <2>3, <2>5 DEF Listed, Left, TypeOK, TasksTyped
  <2> QED BY <2>4, <2>5
<1>4. ASSUME Listed(t), snap' = snap, pc[o] \notin {"X_symbol"} \cup Closing
      PROVE  Listed(t)'
  BY <1>4 DEF Listed, Left
<1>5. CASE LockSymbol(o)
  <2>1. Listed(t) /\ UNCHANGED <<job, snap>> /\ pc[o] \in OpsLabels
    BY <1>0, <1>5 DEF LockSymbol, ListInv, OpsLabels
  <2>2. pc'[o] = "C_begin"
    BY <1>0, <1>5, <2>1 DEF LockSymbol, OpsLabels, Closing, TypeOK, TasksTyped
  <2> QED BY <2>1, <2>2 DEF Listed, Left, Closing
<1>6. CASE CloseBegin(o)
  <2>1. Listed(t) /\ snap' = snap /\ pc[o] = "C_begin"
    BY <1>6 DEF CloseBegin, ListInv
  <2>2. CASE t \in Left(snap[o])
    BY <2>1, <2>2 DEF Listed, Left
  <2>3. CASE job[o] = t
    <3>1. status[t] \in Live /\ t \in Managed(SymbolOf[t])
      BY ExposedIsLive DEF LiveTrades, Managed, InSymbol, Reconcilable
    <3>2. \A u \in Managed(SymbolOf[t]) : rowid[u] <= rowid[t] /\ u \in Signals
      BY ExposedIsNewest DEF Managed, InSymbol
    <3>3. PICK u \in Signals :
            /\ IsActiveFor(u, SymbolOf[t]) /\ job' = [job EXCEPT ![o] = u]
            /\ IF status[u] = "CLOSED_SYNCING" THEN Goto(o, "finalize") ELSE Goto(o, "C_send")
      BY <1>0, <1>6, <2>3, <3>1 DEF CloseBegin
    <3>4. u \in Managed(SymbolOf[t]) /\ rowid[u] = rowid[t] /\ rowid[t] # 0
      BY <3>1, <3>2, <3>3, ExposedIsNewest DEF IsActiveFor, TypeOK, RowsTyped
    <3>5. u = t
      BY <3>4 DEF RowInv
    <3>6. status[t] # "CLOSED_SYNCING"
      BY <3>1 DEF Live
    <3> QED BY <1>0, <3>3, <3>5, <3>6 DEF Listed, Closing, TypeOK, TasksTyped
  <2> QED BY <2>1, <2>2, <2>3 DEF Listed
<1>7. CASE CloseSend(o)
  <2>1. ~missed /\ UNCHANGED <<snap, job>> /\ pc[o] = "C_send"
    BY <1>7, <1>10 DEF CloseSend
  <2>2. pc'[o] = "C_flat"
    BY <1>0, <1>7, <1>10 DEF CloseSend, TypeOK, TasksTyped
  <2>3. Listed(t)
    BY <2>1 DEF ListInv
  <2> QED BY <2>1, <2>2, <2>3 DEF Listed, Left, Closing
<1>8. CASE CloseFlat(o)
  <2>1. /\ ~missed /\ UNCHANGED <<snap, job, pos>> /\ pc[o] = "C_flat"
        /\ NoPositionFor(job[o])
    BY <1>8, <1>10 DEF CloseFlat
  <2>2. Listed(t) /\ job[o] \in Signals
    BY <1>0, <2>1 DEF ListInv, LockInv, Busy, SymbolHeld, Closing
  <2>3. job[o] # t
    BY <2>1, <2>2, FlatIsFinal
  <2> QED BY <2>1, <2>2, <2>3 DEF Listed, Left
<1>9. CASE Finalize(o) \/ Release(o)
  <2>1. Listed(t) /\ snap' = snap /\ pc[o] \in {"finalize", "release"}
    BY <1>9 DEF Finalize, Release, ListInv
  <2> QED BY <1>4, <2>1 DEF Closing
<1> QED BY <1>1, <1>2, <1>3, <1>5, <1>6, <1>7, <1>8, <1>9, OpsMoves DEF ListInv,
  CloseTrade, CloseEverything

LEMMA OpsKeepsLabels ==
  ASSUME TypeOK, pc[Ops] \in OpsLabels, Continue(Ops)
  PROVE  pc'[Ops] \in OpsLabels
<1> USE ConstantsAssumption DEF Goto, Procs
<1>1. CASE LockSymbol(Ops) \/ CloseEverything
  BY <1>1 DEF LockSymbol, CloseEverything, EmergencyLock, CloseAllRows, CloseAllNext,
    OpsLabels, Closing, TypeOK, TasksTyped
<1>2. CASE CloseTrade(Ops) \/ Finalize(Ops) \/ Release(Ops)
  BY <1>2 DEF CloseTrade, CloseBegin, CloseSend, CloseFlat, Finalize, Release,
    Unrecovered, OpsLabels, Closing, TypeOK, TasksTyped
<1> QED BY <1>1, <1>2, OpsMoves

\* Every step keeps ListInv.
LEMMA ListStep ==
  ASSUME TypeOK, LockInv, RowInv, EntryInv, OrderInv, BookedInv, NewerInv, EmergencyInv,
         PollInv, ListInv, ExposureIsManaged, ~LateFills, Next
  PROVE  ListInv'
<1> USE ConstantsAssumption
<1>0. Ops \in Procs
  BY DEF Procs
<1>1. pc'[Ops] \in OpsLabels
  <2>1. ASSUME NEW p \in Procs \ {Ops}, Continue(p) PROVE pc'[Ops] = pc[Ops]
    BY <1>0, <2>1, OthersStay
  <2> QED BY <1>0, <2>1, OpsKeepsLabels, OutsideKeepsOpsLabels DEF Next, Outside, ListInv
<1>2. ASSUME stopped' = "entries", ~missed', pc'[Ops] \notin {"idle", "X_entry", "X_rows"},
             NEW t \in Signals, Exposed(t)'
      PROVE  Listed(t)'
  <2>1. CASE Outside
    <3>1. /\ pc'[Ops] = pc[Ops] /\ job'[Ops] = job[Ops] /\ snap'[Ops] = snap[Ops]
          /\ ~missed /\ stopped = "entries"
      BY <1>2, <2>1, OutsideLeavesList
    <3>2. Listed(t)
      BY <1>2, <2>1, <3>1, OutsideExposesNothing DEF ListInv
    <3> QED BY <3>1, <3>2 DEF Listed, Left
  <2>2. ASSUME NEW p \in Procs \ {Ops}, Continue(p) PROVE Listed(t)'
    <3>1. /\ pc'[Ops] = pc[Ops] /\ job'[Ops] = job[Ops] /\ snap'[Ops] = snap[Ops]
          /\ ~missed /\ stopped = "entries"
      BY <1>0, <1>2, <2>2, OthersStay, SnapsOfOthersStay, OthersLeaveHistory
    <3>2. Listed(t)
      BY <1>2, <3>1, StoppedExposesNothing DEF ListInv
    <3> QED BY <3>1, <3>2 DEF Listed, Left
  <2>3. CASE Continue(Ops)
    <3>1. stopped = "entries"
      <4>1. CASE EmergencyLock
        BY <1>0, <1>2, <4>1 DEF EmergencyLock, Goto, TypeOK, TasksTyped
      <4>2. CASE ~EmergencyLock
        BY <1>2, <2>3, <4>2, OpsMoves DEF ListInv, LockSymbol, CloseTrade, CloseBegin,
          CloseSend, CloseFlat, Finalize, Release, CloseEverything, CloseAllRows,
          CloseAllNext, hist
      <4> QED BY <4>1, <4>2
    <3> QED BY <1>2, <2>3, <3>1, StoppedExposesNothing, OpsKeepsList
  <2> QED BY <1>0, <2>1, <2>2, <2>3 DEF Next, Outside
<1> QED BY <1>1, <1>2 DEF ListInv

\* Every step keeps EmergencyLeavesFlat.
LEMMA LeavesFlatStep ==
  ASSUME TypeOK, LockInv, EntryInv, EmergencyInv, ListInv, EmergencyLeavesFlat, Next
  PROVE  EmergencyLeavesFlat'
<1> USE ConstantsAssumption
<1> SUFFICES ASSUME stopped' = "all", NEW t \in Signals, Exposed(t)' PROVE FALSE
  BY DEF EmergencyLeavesFlat
<1>0. Ops \in Procs
  BY DEF Procs
<1>1. CASE stopped = "all"
  BY <1>1, StoppedExposesNothing DEF EmergencyLeavesFlat
<1>2. CASE stopped # "all"
  <2>1. ~Outside
    BY <1>2 DEF Outside, Request, DeliverExecute, RequestClose, Pause, Resume, CloseAll,
      EmergencyStop, Exchange, FillEntry, DropEntry, ExitPosition, Crash, ReadRows, hist
  <2>2. Continue(Ops)
    BY <1>0, <1>2, <2>1, OthersLeaveHistory DEF Next, Outside
  <2>3. CloseAllNext /\ Left(snap[Ops]) = {} /\ stopped = "entries" /\ ~missed
    BY <1>2, <2>2, OpsMoves DEF ListInv, LockSymbol, CloseTrade, CloseBegin, CloseSend,
      CloseFlat, Finalize, Release, CloseEverything, EmergencyLock, CloseAllRows,
      CloseAllNext, hist
  <2>4. Exposed(t) /\ pc[Ops] = "X_next"
    BY <2>3, StoppedExposesNothing DEF CloseAllNext
  <2>5. Listed(t)
    BY <2>3, <2>4 DEF ListInv
  <2> QED BY <2>3, <2>4, <2>5 DEF Listed, Closing
<1> QED BY <1>1, <1>2

-----------------------------------------------------------------------------
LEMMA InitPortfolio == Init => PortfolioInv
<1> SUFFICES ASSUME Init PROVE PortfolioInv
  OBVIOUS
<1> USE ConstantsAssumption DEF Init, Absent
<1>1. \A t \in Signals : ~Exposed(t)
  BY DEF Exposed
<1>2. PollInv
  BY DEF PollInv, Settled
<1>3. CapInv
  <2>1. ExposedSymbols = {}
    BY <1>1 DEF ExposedSymbols
  <2> QED BY <2>1, FS_EmptySet DEF CapInv
<1>4. ListInv /\ EmergencyLeavesFlat
  BY DEF ListInv, OpsLabels, Procs, EmergencyLeavesFlat
<1> QED BY <1>2, <1>3, <1>4 DEF PortfolioInv

LEMMA StutterPortfolio ==
  ASSUME PortfolioInv, UNCHANGED vars
  PROVE  PortfolioInv'
<1> USE DEF vars, book, fills, exch, locks, hand, bounds, hist, PortfolioInv
<1>1. PollInv'
  BY DEF PollInv, Settled, Exposed
<1>2. CapInv'
  BY DEF CapInv, ExposedSymbols, Exposed
<1>3. ListInv' /\ EmergencyLeavesFlat'
  BY DEF ListInv, Listed, Left, EmergencyLeavesFlat, Exposed
<1> QED BY <1>1, <1>2, <1>3

\* With polls that outlast accepted orders: the rows read, the count behind the cap
\* and close_all's list are right about the account.
THEOREM PortfolioInvariant ==
  ASSUME ~LateFills
  PROVE  Spec => []PortfolioInv
<1>1. Init => PortfolioInv
  BY InitPortfolio
<1>2. TypeOK /\ IInv /\ PortfolioInv /\ [Next]_vars => PortfolioInv'
  <2> SUFFICES ASSUME TypeOK, IInv, PortfolioInv, Next PROVE PortfolioInv'
    BY StutterPortfolio
  <2> USE DEF IInv, PortfolioInv
  <2>1. PollInv'
    BY PollStep
  <2>2. CapInv'
    BY CapStep
  <2>3. ListInv'
    BY ListStep
  <2>4. EmergencyLeavesFlat'
    BY LeavesFlatStep
  <2> QED BY <2>1, <2>2, <2>3, <2>4
<1> QED BY <1>1, <1>2, Invariant, PTL DEF Spec

\* "Maximum concurrent positions" on the account itself, for any cap, any number of
\* contracts, signals and coroutines, and across crashes and failed calls: the check
\* of the cap and the order are far apart, and only the entry lock keeps them together.
THEOREM CapRespected ==
  ASSUME ~LateFills
  PROVE  Spec => []PositionsWithinCap
<1>1. TypeOK /\ OrderInv /\ PortfolioInv => PositionsWithinCap
  <2> SUFFICES ASSUME TypeOK, OrderInv, PortfolioInv PROVE PositionsWithinCap
    OBVIOUS
  <2> DEFINE H == {s \in Symbols : pos[s] # {}}
  <2>1. H \subseteq ExposedSymbols
    <3> SUFFICES ASSUME NEW s \in H PROVE s \in ExposedSymbols
      OBVIOUS
    <3>1. PICK t \in pos[s] : t \in Signals
      BY DEF TypeOK, AccountTyped
    <3>2. SymbolOf[t] = s /\ Exposed(t)
      BY <3>1 DEF OrderInv, Exposed
    <3> QED BY <3>1, <3>2 DEF ExposedSymbols
  <2>2. IsFiniteSet(ExposedSymbols) /\ Cardinality(ExposedSymbols) <= MaxOpen
    BY DEF PortfolioInv, CapInv
  <2>3. Cardinality(H) <= Cardinality(ExposedSymbols)
    BY <2>1, <2>2, FS_Subset
  <2>4. Cardinality(H) \in Nat /\ Cardinality(ExposedSymbols) \in Nat
    BY <2>1, <2>2, FS_Subset, FS_CardinalityType
  <2> QED BY <2>2, <2>3, <2>4, ConstantsAssumption DEF PositionsWithinCap
<1> QED BY <1>1, PortfolioInvariant, Invariant, PTL DEF IInv

\* emergency_stop's reply is true: when it has closed everything it listed, no position
\* is open and no accepted order can still open one, until trading is resumed.
THEOREM EmergencyStopIsComplete ==
  ASSUME ~LateFills
  PROVE  Spec => []EmergencyLeavesFlat
BY PortfolioInvariant, PTL DEF PortfolioInv

=============================================================================
