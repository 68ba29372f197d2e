------------------------ MODULE DemoExecutor_proofs ------------------------
(***************************************************************************)
(* The safety theorems of DemoExecutor.                                    *)
(*                                                                         *)
(* TypeOK and LockInv come first, and together: that a released lock was   *)
(* held is LockInv, that a queue is a sequence is TypeOK.  After the       *)
(* lemmas on rows and on the emergency stop come the frame lemmas (a       *)
(* coroutine moves only itself, writes one symbol only and under its       *)
(* lock), then how an order, the rows, the positions, the fills and a      *)
(* status may move in one step.  From those the invariants follow without  *)
(* looking at the actions again.                                           *)
(***************************************************************************)
EXTENDS DemoExecutorInvariants, TLAPS

-----------------------------------------------------------------------------
(***************************************************************************)
(* Types and locks.                                                        *)
(***************************************************************************)

\* The fills keep their type.
LEMMA SyncFillsTyped ==
  ASSUME TypeOK, NEW t \in Signals \cup {None}, SyncFills(t)
  PROVE  entryFill' \in [Signals -> BOOLEAN] /\ exitTo' \in [Signals -> Signals \cup {None}]
<1>1. entryFill' \in [Signals -> BOOLEAN]
  BY DEF TypeOK, RowsTyped, SyncFills
<1>2. exitTo' \in [Signals -> Signals \cup {None}]
  BY DEF TypeOK, RowsTyped, SyncFills
<1> QED BY <1>1, <1>2

LEMMA TrySyncTyped ==
  ASSUME TypeOK, NEW t \in Signals \cup {None}, TrySync(t)
  PROVE  entryFill' \in [Signals -> BOOLEAN] /\ exitTo' \in [Signals -> Signals \cup {None}]
BY SyncFillsTyped DEF TrySync, TypeOK, RowsTyped, fills

\* Every step keeps the types of the database.
LEMMA RowsStep ==
  ASSUME TypeOK, Next
  PROVE  RowsTyped'
<1> USE ConstantsAssumption DEF Goto, Mark, Fault, NoFault, book, fills, exch, locks,
  hand, bounds, hist
<1>1. ASSUME NEW p \in Procs, Continue(p) PROVE RowsTyped'
  <2>1. CASE LockEntry(p) \/ LockSymbol(p) \/ ExecuteCheck(p) \/ ExecuteRoom(p) \/
           FailsafeCancel(p) \/ CloseSend(p) \/ NextRow(p) \/ Release(p)
    BY <2>1 DEF LockEntry, LockSymbol, ExecuteCheck, ExecuteRoom, FailsafeCancel,
      CloseSend, NextRow, Release, TypeOK, RowsTyped, Statuses, Reconcilable, Live
  <2>2. CASE ExecuteCreate(p)
    <3>1. lastId + 1 \in Nat
      BY DEF TypeOK, RowsTyped
    <3>2. rowid' \in [Signals -> Nat] /\ lastId' \in Nat
      BY <2>2, <3>1 DEF ExecuteCreate, TypeOK, RowsTyped
    <3>3. status' \in [Signals -> Statuses]
      BY <2>2 DEF ExecuteCreate, TypeOK, RowsTyped, Statuses, Reconcilable, Live
    <3> QED BY <2>2, <3>2, <3>3 DEF ExecuteCreate, TypeOK, RowsTyped
  <2>3. CASE ExecuteSubmit(p)
    BY <2>3 DEF ExecuteSubmit, TypeOK, RowsTyped, Statuses, Reconcilable, Live
  <2>4. CASE ExecuteMarkSubmitted(p)
    BY <2>4 DEF ExecuteMarkSubmitted, TypeOK, RowsTyped, Statuses, Reconcilable, Live
  <2>5. CASE ExecuteWait(p)
    BY <2>5 DEF ExecuteWait, TypeOK, RowsTyped, Statuses, Reconcilable, Live
  <2>6. CASE ExecuteProtect(p)
    BY <2>6 DEF ExecuteProtect, TypeOK, RowsTyped, Statuses, Reconcilable, Live
  <2>7. CASE ExecuteFail(p)
    BY <2>7 DEF ExecuteFail, TypeOK, RowsTyped, Statuses, Reconcilable, Live
  <2>8. CASE FailsafeClose(p)
    BY <2>8 DEF FailsafeClose, Unrecovered, TypeOK, RowsTyped, Statuses, Reconcilable,
      Live
  <2>9. CASE FailsafeFlat(p)
    BY <2>9 DEF FailsafeFlat, Unrecovered, TypeOK, RowsTyped, Statuses, Reconcilable,
      Live
  <2>10. CASE FailsafeSettle(p)
    <3>1. job[p] \in Signals \cup {None}
      BY DEF TypeOK, TasksTyped
    <3>2. entryFill' \in [Signals -> BOOLEAN] /\ exitTo' \in [Signals -> Signals \cup {None}]
      BY <2>10, <3>1, SyncFillsTyped, TrySyncTyped DEF FailsafeSettle
    <3> QED BY <2>10, <3>2 DEF FailsafeSettle, Unrecovered, TypeOK, RowsTyped, Statuses,
      Reconcilable, Live
  <2>11. CASE CloseBegin(p)
    BY <2>11 DEF CloseBegin, TypeOK, RowsTyped, Statuses, Reconcilable, Live
  <2>12. CASE CloseFlat(p)
    BY <2>12 DEF CloseFlat, Unrecovered, TypeOK, RowsTyped, Statuses, Reconcilable, Live
  <2>13. CASE Finalize(p)
    <3>1. job[p] \in Signals \cup {None}
      BY DEF TypeOK, TasksTyped
    <3>2. entryFill' \in [Signals -> BOOLEAN] /\ exitTo' \in [Signals -> Signals \cup {None}]
      BY <2>13, <3>1, SyncFillsTyped, TrySyncTyped DEF Finalize
    <3> QED BY <2>13, <3>2 DEF Finalize, Unrecovered, TypeOK, RowsTyped, Statuses,
      Reconcilable, Live
  <2>14. CASE ReconcileUnsettled(p)
    BY <2>14 DEF ReconcileUnsettled, TypeOK, RowsTyped, Statuses, Reconcilable, Live
  <2>15. CASE ReconcileFlat(p)
    BY <2>15 DEF ReconcileFlat, Unrecovered, TypeOK, RowsTyped, Statuses, Reconcilable,
      Live
  <2>16. CASE ReconcileActive(p)
    <3>1. job[p] \in Signals \cup {None}
      BY DEF TypeOK, TasksTyped
    <3>2. entryFill' \in [Signals -> BOOLEAN] /\ exitTo' \in [Signals -> Signals \cup {None}]
      BY <2>16, <3>1, SyncFillsTyped, TrySyncTyped DEF ReconcileActive
    <3> QED BY <2>16, <3>2 DEF ReconcileActive, Unrecovered, TypeOK, RowsTyped,
      Statuses, Reconcilable, Live
  <2>17. CASE RecoverOpening(p)
    <3>1. job[p] \in Signals \cup {None}
      BY DEF TypeOK, TasksTyped
    <3>2. entryFill' \in [Signals -> BOOLEAN] /\ exitTo' \in [Signals -> Signals \cup {None}]
      BY <2>17, <3>1, SyncFillsTyped, TrySyncTyped DEF RecoverOpening
    <3> QED BY <2>17, <3>2 DEF RecoverOpening, Unrecovered, TypeOK, RowsTyped, Statuses,
      Reconcilable, Live
  <2>18. CASE RecoverProtect(p)
    BY <2>18 DEF RecoverProtect, Unrecovered, TypeOK, RowsTyped, Statuses, Reconcilable,
      Live
  <2>19. CASE RecoverAbsent(p)
    <3>1. job[p] \in Signals \cup {None}
      BY DEF TypeOK, TasksTyped
    <3>2. entryFill' \in [Signals -> BOOLEAN] /\ exitTo' \in [Signals -> Signals \cup {None}]
      BY <2>19, <3>1, SyncFillsTyped, TrySyncTyped DEF RecoverAbsent, fills, TypeOK,
        RowsTyped
    <3>3. status' \in [Signals -> Statuses]
      BY <2>19 DEF RecoverAbsent, TypeOK, RowsTyped, Statuses, Reconcilable, Live
    <3> QED BY <2>19, <3>2, <3>3 DEF RecoverAbsent, TypeOK, RowsTyped
  <2>20. CASE p = Ops /\ CloseEverything
    BY <2>20 DEF CloseEverything, EmergencyLock, CloseAllRows, CloseAllNext, Procs,
      TypeOK, RowsTyped, Statuses, Reconcilable, Live
  <2> QED BY <1>1, <2>1, <2>2, <2>3, <2>4, <2>5, <2>6, <2>7, <2>8, <2>9, <2>10, <2>11,
    <2>12, <2>13, <2>14, <2>15, <2>16, <2>17, <2>18, <2>19, <2>20 DEF Continue, Execute,
    Failsafe, CloseTrade, Reconcile
<1>2. CASE Request
  BY <1>2 DEF Request, DeliverExecute, RequestClose, Pause, Resume, CloseAll,
    EmergencyStop, Procs, TypeOK, RowsTyped, Statuses, Reconcilable, Live
<1>3. CASE Exchange
  BY <1>3 DEF Exchange, FillEntry, DropEntry, ExitPosition, TypeOK, RowsTyped, Statuses,
    Reconcilable, Live
<1>4. CASE Crash
  BY <1>4 DEF Crash, NoRows, TypeOK, RowsTyped, Statuses, Reconcilable, Live
<1>5. CASE \E p \in Reconcilers : ReadRows(p)
  BY <1>5 DEF ReadRows, Procs, TypeOK, RowsTyped, Statuses, Reconcilable, Live
<1> QED BY <1>1, <1>2, <1>3, <1>4, <1>5 DEF Next

\* Every step keeps the types of the account.
LEMMA AccountStep ==
  ASSUME TypeOK, Next
  PROVE  AccountTyped'
<1> USE ConstantsAssumption DEF Goto, Mark, Fault, NoFault, book, fills, exch, locks,
  hand, bounds, hist
<1>1. ASSUME NEW p \in Procs, Continue(p) PROVE AccountTyped'
  <2>1. CASE LockEntry(p) \/ LockSymbol(p) \/ ExecuteCheck(p) \/ ExecuteRoom(p) \/
           ExecuteCreate(p) \/ ExecuteMarkSubmitted(p) \/ ExecuteWait(p) \/
           ExecuteProtect(p) \/ ExecuteFail(p) \/ FailsafeSettle(p) \/
           CloseBegin(p) \/ Finalize(p) \/ NextRow(p) \/ ReconcileUnsettled(p)
           \/ ReconcileFlat(p) \/ RecoverOpening(p) \/ RecoverProtect(p) \/
           RecoverAbsent(p) \/ Release(p)
    BY <2>1 DEF LockEntry, LockSymbol, ExecuteCheck, ExecuteRoom, ExecuteCreate,
      ExecuteMarkSubmitted, ExecuteWait, ExecuteProtect, ExecuteFail, FailsafeSettle,
      CloseBegin, Finalize, NextRow, ReconcileUnsettled, ReconcileFlat, RecoverOpening,
      RecoverProtect, RecoverAbsent, Release, TypeOK, AccountTyped, TasksTyped,
      OrderStates, CancelEntry
  <2>2. CASE ExecuteSubmit(p)
    BY <2>2 DEF ExecuteSubmit, TypeOK, AccountTyped, TasksTyped, OrderStates,
      CancelEntry
  <2>3. CASE FailsafeCancel(p)
    BY <2>3 DEF FailsafeCancel, TypeOK, AccountTyped, TasksTyped, OrderStates,
      CancelEntry
  <2>4. CASE FailsafeClose(p)
    BY <2>4 DEF FailsafeClose, TypeOK, AccountTyped, TasksTyped, OrderStates,
      CancelEntry
  <2>5. CASE FailsafeFlat(p)
    BY <2>5 DEF FailsafeFlat, TypeOK, AccountTyped, TasksTyped, OrderStates, CancelEntry
  <2>6. CASE CloseSend(p)
    BY <2>6 DEF CloseSend, TypeOK, AccountTyped, TasksTyped, OrderStates, CancelEntry
  <2>7. CASE CloseFlat(p)
    BY <2>7 DEF CloseFlat, TypeOK, AccountTyped, TasksTyped, OrderStates, CancelEntry
  <2>8. CASE ReconcileActive(p)
    BY <2>8 DEF ReconcileActive, TypeOK, AccountTyped, TasksTyped, OrderStates,
      CancelEntry
  <2>9. CASE p = Ops /\ CloseEverything
    BY <2>9 DEF CloseEverything, EmergencyLock, CloseAllRows, CloseAllNext, Procs,
      TypeOK, AccountTyped, TasksTyped, OrderStates, CancelEntry
  <2> QED BY <1>1, <2>1, <2>2, <2>3, <2>4, <2>5, <2>6, <2>7, <2>8, <2>9 DEF Continue,
    Execute, Failsafe, CloseTrade, Reconcile
<1>2. CASE Request
  BY <1>2 DEF Request, DeliverExecute, RequestClose, Pause, Resume, CloseAll,
    EmergencyStop, Procs, TypeOK, AccountTyped, TasksTyped, OrderStates, CancelEntry
<1>3. CASE Exchange
  <2>1. ASSUME NEW t \in Signals, FillEntry(t) PROVE AccountTyped'
    <3>1. SymbolOf[t] \in Symbols
      OBVIOUS
    <3> QED BY <2>1, <3>1 DEF FillEntry, TypeOK, AccountTyped, OrderStates
  <2>2. ASSUME NEW t \in Signals, DropEntry(t) PROVE AccountTyped'
    BY <2>2 DEF DropEntry, TypeOK, AccountTyped, OrderStates
  <2>3. ASSUME NEW s \in Symbols, ExitPosition(s) PROVE AccountTyped'
    BY <2>3 DEF ExitPosition, TypeOK, AccountTyped
  <2> QED BY <1>3, <2>1, <2>2, <2>3 DEF Exchange
<1>4. CASE Crash
  BY <1>4 DEF Crash, NoRows, TypeOK, AccountTyped, TasksTyped, OrderStates, CancelEntry
<1>5. CASE \E p \in Reconcilers : ReadRows(p)
  BY <1>5 DEF ReadRows, Procs, TypeOK, AccountTyped, TasksTyped, OrderStates,
    CancelEntry
<1> QED BY <1>1, <1>2, <1>3, <1>4, <1>5 DEF Next

\* Every step keeps the types of the counters and of the history.
LEMMA BoundsStep ==
  ASSUME TypeOK, Next
  PROVE  BoundsTyped'
<1> USE ConstantsAssumption DEF Goto, Mark, Fault, NoFault, book, fills, exch, locks,
  hand, bounds, hist
<1>1. ASSUME NEW p \in Procs, Continue(p) PROVE BoundsTyped'
  <2>1. CASE LockEntry(p) \/ LockSymbol(p) \/ ExecuteCheck(p) \/ ExecuteRoom(p) \/
           ExecuteCreate(p) \/ ExecuteSubmit(p) \/ ExecuteMarkSubmitted(p) \/
           ExecuteWait(p) \/ ExecuteProtect(p) \/ ExecuteFail(p)
    BY <2>1 DEF LockEntry, LockSymbol, ExecuteCheck, ExecuteRoom, ExecuteCreate,
      ExecuteSubmit, ExecuteMarkSubmitted, ExecuteWait, ExecuteProtect, ExecuteFail,
      TypeOK, BoundsTyped, Abort, TrySync
  <2>2. CASE FailsafeCancel(p) \/ FailsafeClose(p) \/ FailsafeFlat(p) \/
           FailsafeSettle(p) \/ CloseBegin(p) \/ Finalize(p) \/ NextRow(p) \/
           Release(p)
    BY <2>2 DEF FailsafeCancel, FailsafeClose, FailsafeFlat, FailsafeSettle, CloseBegin,
      Finalize, NextRow, Release, TypeOK, BoundsTyped, Abort, TrySync
  <2>3. CASE ReconcileUnsettled(p) \/ ReconcileFlat(p) \/ ReconcileActive(p) \/
           RecoverOpening(p) \/ RecoverProtect(p) \/ RecoverAbsent(p)
    BY <2>3 DEF ReconcileUnsettled, ReconcileFlat, ReconcileActive, RecoverOpening,
      RecoverProtect, RecoverAbsent, TypeOK, BoundsTyped, Abort, TrySync
  <2>4. CASE CloseSend(p)
    <3>1. missed' \in BOOLEAN
      BY <2>4 DEF CloseSend, Miss, TypeOK, BoundsTyped
    <3> QED BY <2>4, <3>1 DEF CloseSend, TypeOK, BoundsTyped
  <2>5. CASE CloseFlat(p)
    <3>1. missed' \in BOOLEAN
      BY <2>5 DEF CloseFlat, Miss, TypeOK, BoundsTyped
    <3> QED BY <2>5, <3>1 DEF CloseFlat, TypeOK, BoundsTyped
  <2>6. CASE p = Ops /\ CloseEverything
    BY <2>6 DEF CloseEverything, EmergencyLock, CloseAllRows, CloseAllNext, Procs,
      TypeOK, BoundsTyped, Abort, TrySync
  <2> QED BY <1>1, <2>1, <2>2, <2>3, <2>4, <2>5, <2>6 DEF Continue, Execute, Failsafe,
    CloseTrade, Reconcile
<1>2. CASE Request
  BY <1>2 DEF Request, DeliverExecute, RequestClose, Pause, Resume, CloseAll,
    EmergencyStop, Command, TypeOK, BoundsTyped
<1>3. CASE Exchange
  BY <1>3 DEF Exchange, FillEntry, DropEntry, ExitPosition, TypeOK, BoundsTyped, Abort,
    TrySync
<1>4. CASE Crash
  BY <1>4 DEF Crash, NoRows, TypeOK, BoundsTyped, Abort, TrySync
<1>5. CASE \E p \in Reconcilers : ReadRows(p)
  BY <1>5 DEF ReadRows, Procs, TypeOK, BoundsTyped, Abort, TrySync
<1> QED BY <1>1, <1>2, <1>3, <1>4, <1>5 DEF Next

\* What taking a row and leaving a pass do to the types.
LEMMA TakeRowTyped ==
  ASSUME TasksTyped, NEW p \in Procs, NEW rows \in [Signals -> Statuses], TakeRow(p, rows)
  PROVE  /\ symLock' \in [Symbols -> Seq(Procs)]
         /\ pc' \in [Procs -> Labels]
         /\ job' \in [Procs -> Signals \cup {None}]
         /\ row' \in [Procs -> Statuses]
         /\ snap' \in [Procs -> [Signals -> Statuses]]
<1> USE ConstantsAssumption DEF TasksTyped, Goto
<1> PICK t \in Left(rows) :
       /\ Enqueue(p, t)
       /\ job' = [job EXCEPT ![p] = t]
       /\ row' = [row EXCEPT ![p] = rows[t]]
       /\ snap' = [snap EXCEPT ![p] = [rows EXCEPT ![t] = Absent]]
       /\ Goto(p, "R_symbol")
  BY DEF TakeRow
<1>1. t \in Signals /\ Absent \in Statuses
  BY DEF Left, Statuses
<1>2. symLock' \in [Symbols -> Seq(Procs)]
  BY <1>1 DEF Enqueue
<1>3. pc' \in [Procs -> Labels] /\ job' \in [Procs -> Signals \cup {None}]
  BY <1>1 DEF Labels
<1>4. row' \in [Procs -> Statuses] /\ snap' \in [Procs -> [Signals -> Statuses]]
  BY <1>1
<1> QED BY <1>2, <1>3, <1>4

LEMMA AbortTyped ==
  ASSUME TypeOK, NEW p \in Procs, Abort(p)
  PROVE  snap' \in [Procs -> [Signals -> Statuses]] /\ pc' \in [Procs -> Labels]
<1>1. NoRows \in [Signals -> Statuses]
  BY DEF NoRows, Statuses
<1>2. snap' \in [Procs -> [Signals -> Statuses]]
  BY <1>1 DEF Abort, TypeOK, TasksTyped
<1>3. pc' \in [Procs -> Labels]
  BY DEF Abort, TypeOK, TasksTyped, Goto, Labels, SymbolHeld
<1> QED BY <1>2, <1>3

\* Every step keeps the types of the coroutines and the locks; that a lock is released
\* by its owner is part of LockInv.
LEMMA TasksStep ==
  ASSUME TypeOK, LockInv, Next
  PROVE  TasksTyped'
<1> USE ConstantsAssumption DEF Goto, Mark, Fault, NoFault, book, fills, exch, locks,
  hand, bounds, hist
<1>1. ASSUME NEW p \in Procs, Continue(p) PROVE TasksTyped'
  <2>1. CASE LockSymbol(p) \/ ExecuteCheck(p) \/ ExecuteRoom(p) \/
           ExecuteCreate(p) \/ ExecuteSubmit(p) \/ ExecuteMarkSubmitted(p) \/
           ExecuteWait(p) \/ ExecuteProtect(p)
    BY <2>1 DEF LockSymbol, ExecuteCheck, ExecuteRoom, ExecuteCreate, ExecuteSubmit,
      ExecuteMarkSubmitted, ExecuteWait, ExecuteProtect, TypeOK, TasksTyped,
      Unrecovered, Labels, SymbolHeld, Executing, Submitting, Recovering, Closing,
      Opening
  <2>2. CASE LockEntry(p)
    <3>1. job[p] \in Signals
      BY <2>2 DEF LockEntry, LockInv, Busy
    <3> QED BY <2>2, <3>1 DEF LockEntry, Enqueue, TypeOK, TasksTyped, Labels
  <2>3. CASE ExecuteFail(p)
    BY <2>3 DEF ExecuteFail, Statuses, Reconcilable, Live, TypeOK, TasksTyped,
      Unrecovered, Labels, SymbolHeld, Executing, Submitting, Recovering, Closing,
      Opening
  <2>4. CASE FailsafeCancel(p)
    BY <2>4 DEF FailsafeCancel, CancelAnswered, OrderStates, TypeOK, TasksTyped,
      Unrecovered, Labels, SymbolHeld, Executing, Submitting, Recovering, Closing,
      Opening
  <2>5. CASE FailsafeClose(p)
    BY <2>5 DEF FailsafeClose, TypeOK, TasksTyped, Unrecovered, Labels, SymbolHeld,
      Executing, Submitting, Recovering, Closing, Opening
  <2>6. CASE FailsafeFlat(p)
    BY <2>6 DEF FailsafeFlat, TypeOK, TasksTyped, Unrecovered, Labels, SymbolHeld,
      Executing, Submitting, Recovering, Closing, Opening
  <2>7. CASE FailsafeSettle(p)
    BY <2>7 DEF FailsafeSettle, TypeOK, TasksTyped, Unrecovered, Labels, SymbolHeld,
      Executing, Submitting, Recovering, Closing, Opening
  <2>8. CASE CloseBegin(p)
    BY <2>8 DEF CloseBegin, TypeOK, TasksTyped, Unrecovered, Labels, SymbolHeld,
      Executing, Submitting, Recovering, Closing, Opening
  <2>9. CASE CloseSend(p)
    BY <2>9 DEF CloseSend, TypeOK, TasksTyped, Unrecovered, Labels, SymbolHeld,
      Executing, Submitting, Recovering, Closing, Opening
  <2>10. CASE CloseFlat(p)
    BY <2>10 DEF CloseFlat, TypeOK, TasksTyped, Unrecovered, Labels, SymbolHeld,
      Executing, Submitting, Recovering, Closing, Opening
  <2>11. CASE Finalize(p)
    BY <2>11 DEF Finalize, TypeOK, TasksTyped, Unrecovered, Labels, SymbolHeld,
      Executing, Submitting, Recovering, Closing, Opening
  <2>12. CASE NextRow(p)
    <3>1. CASE TakeRow(p, snap[p])
      BY <2>12, <3>1, TakeRowTyped DEF NextRow, TypeOK, TasksTyped
    <3>2. CASE Left(snap[p]) = {} /\ Goto(p, "idle") /\ UNCHANGED <<symLock, job, row, snap>>
      BY <2>12, <3>2 DEF NextRow, TypeOK, TasksTyped, Labels
    <3> QED BY <2>12, <3>1, <3>2 DEF NextRow
  <2>13. CASE ReconcileUnsettled(p)
    BY <2>13 DEF ReconcileUnsettled, TypeOK, TasksTyped, Unrecovered, Labels,
      SymbolHeld, Executing, Submitting, Recovering, Closing, Opening
  <2>14. CASE ReconcileFlat(p)
    BY <2>14, AbortTyped DEF ReconcileFlat, TypeOK, TasksTyped, Unrecovered, Labels,
      SymbolHeld, Executing, Submitting, Recovering, Closing, Opening
  <2>15. CASE ReconcileActive(p)
    BY <2>15, AbortTyped DEF ReconcileActive, TypeOK, TasksTyped, Unrecovered, Labels,
      SymbolHeld, Executing, Submitting, Recovering, Closing, Opening
  <2>16. CASE RecoverOpening(p)
    <3>1. ord[job[p]] \in OrderStates
      BY <2>16 DEF RecoverOpening, LockInv, Busy, SymbolHeld, Executing, Submitting,
        Recovering, Closing, Opening, TypeOK, AccountTyped
    <3> QED BY <2>16, <3>1, AbortTyped DEF RecoverOpening, TypeOK, TasksTyped,
      Unrecovered, Labels, SymbolHeld, Executing, Submitting, Recovering, Closing,
      Opening
  <2>17. CASE RecoverProtect(p)
    BY <2>17 DEF RecoverProtect, TypeOK, TasksTyped, Unrecovered, Labels, SymbolHeld,
      Executing, Submitting, Recovering, Closing, Opening
  <2>18. CASE RecoverAbsent(p)
    <3>1. status[job[p]] \in Statuses
      BY <2>18 DEF RecoverAbsent, LockInv, Busy, SymbolHeld, Executing, Submitting,
        Recovering, Closing, Opening, TypeOK, RowsTyped
    <3> QED BY <2>18, <3>1, AbortTyped DEF RecoverAbsent, TypeOK, TasksTyped,
      Unrecovered, Labels, SymbolHeld, Executing, Submitting, Recovering, Closing,
      Opening
  <2>19. CASE Release(p)
    <3>1. SymbolOf[job[p]] \in Symbols /\ symLock[SymbolOf[job[p]]] # <<>>
      BY <2>19 DEF Release, LockInv, Busy, SymbolHeld, Owns
    <3>2. symLock' \in [Symbols -> Seq(Procs)] /\ entryLock' \in Seq(Procs)
      BY <2>19, <3>1 DEF Release, EntryReleased, Owns, TypeOK, TasksTyped
    <3>3. pc' \in [Procs -> Labels] /\ job' \in [Procs -> Signals \cup {None}]
      BY <2>19 DEF Release, TypeOK, TasksTyped, Labels
    <3>4. /\ row' \in [Procs -> Statuses] /\ seen' \in [Procs -> OrderStates]
          /\ snap' \in [Procs -> [Signals -> Statuses]]
      BY <2>19 DEF Release, TypeOK, TasksTyped, Statuses, OrderStates
    <3> QED BY <3>2, <3>3, <3>4 DEF TasksTyped
  <2>20. CASE p = Ops /\ CloseEverything
    <3>1. CASE EmergencyLock
      BY <2>20, <3>1 DEF EmergencyLock, TypeOK, TasksTyped, Labels
    <3>2. CASE CloseAllRows
      <4>1. RowsIn(Live) \in [Signals -> Statuses]
        BY DEF RowsIn, TypeOK, RowsTyped, Statuses
      <4> QED BY <2>20, <3>2, <4>1 DEF CloseAllRows, TypeOK, TasksTyped, Labels
    <3>3. ASSUME NEW t \in Left(snap[Ops]), CloseAllNext, Enqueue(Ops, t),
                 job' = [job EXCEPT ![Ops] = t], snap' = [snap EXCEPT ![Ops][t] = Absent],
                 Goto(Ops, "X_symbol"), UNCHANGED entryLock
          PROVE  TasksTyped'
      <4>1. t \in Signals /\ Absent \in Statuses
        BY DEF Left, Statuses
      <4>2. symLock' \in [Symbols -> Seq(Procs)]
        BY <2>20, <3>3, <4>1 DEF Enqueue, TypeOK, TasksTyped
      <4>3. snap' \in [Procs -> [Signals -> Statuses]]
        BY <2>20, <3>3, <4>1 DEF TypeOK, TasksTyped
      <4> QED BY <2>20, <3>3, <4>1, <4>2, <4>3 DEF CloseAllNext, TypeOK, TasksTyped,
        Labels
    <3>4. CASE CloseAllNext /\ Goto(Ops, "idle") /\ UNCHANGED <<symLock, job, snap>>
               /\ entryLock' = IF Owns(Ops, entryLock) THEN Tail(entryLock) ELSE entryLock
      BY <2>20, <3>4 DEF CloseAllNext, Owns, TypeOK, TasksTyped, Labels
    <3> QED BY <2>20, <3>1, <3>2, <3>3, <3>4 DEF CloseEverything, CloseAllNext
  <2> QED BY <1>1, <2>1, <2>2, <2>3, <2>4, <2>5, <2>6, <2>7, <2>8, <2>9, <2>10, <2>11,
    <2>12, <2>13, <2>14, <2>15, <2>16, <2>17, <2>18, <2>19, <2>20 DEF Continue, Execute,
    Failsafe, CloseTrade, Reconcile
<1>2. CASE Request
  <2>1. ASSUME NEW p \in Workers, NEW t \in Signals, DeliverExecute(p, t) PROVE TasksTyped'
    BY <2>1 DEF DeliverExecute, TypeOK, TasksTyped, Labels, Procs
  <2>2. ASSUME NEW p \in Workers, NEW t \in Signals, RequestClose(p, t) PROVE TasksTyped'
    BY <2>2 DEF RequestClose, Enqueue, TypeOK, TasksTyped, Labels, Procs
  <2>3. CASE EmergencyStop
    BY <2>3 DEF EmergencyStop, TypeOK, TasksTyped, Labels, Procs
  <2>4. CASE Pause \/ Resume \/ CloseAll
    BY <2>4 DEF Pause, Resume, CloseAll, TypeOK, TasksTyped, Labels, Procs
  <2> QED BY <1>2, <2>1, <2>2, <2>3, <2>4 DEF Request
<1>3. CASE Exchange
  BY <1>3 DEF Exchange, FillEntry, DropEntry, ExitPosition, TypeOK, TasksTyped,
    Unrecovered, Labels, SymbolHeld, Executing, Submitting, Recovering, Closing, Opening
<1>4. CASE Crash
  <2>1. NoRows \in [Signals -> Statuses]
    BY DEF NoRows, Statuses
  <2> QED BY <1>4, <2>1 DEF Crash, TypeOK, TasksTyped, Labels, Statuses, OrderStates
<1>5. CASE \E p \in Reconcilers : ReadRows(p)
  <2> PICK p \in Reconcilers : ReadRows(p)
    BY <1>5
  <2>1. RowsIn(Reconcilable) \in [Signals -> Statuses]
    BY DEF RowsIn, TypeOK, RowsTyped, Statuses
  <2>2. p \in Procs /\ TakeRow(p, RowsIn(Reconcilable))
    BY DEF ReadRows, Procs
  <2> QED BY <2>1, <2>2, TakeRowTyped DEF ReadRows, TypeOK, TasksTyped
<1> QED BY <1>1, <1>2, <1>3, <1>4, <1>5 DEF Next

\* A queue grows at its tail: its head keeps the lock, and the first to come gets it.
LEMMA AppendKeepsOwner ==
  ASSUME NEW S, NEW q \in Seq(S), NEW x \in S, NEW y \in S
  PROVE  /\ Owns(y, q) => Owns(y, Append(q, x))
         /\ q = <<>> => Owns(x, Append(q, x))
BY DEF Owns

LEMMA OneOwner ==
  ASSUME NEW x, NEW y, NEW q, Owns(x, q), Owns(y, q)
  PROVE  x = y
BY DEF Owns

\* What taking a row does to the locks: p queues for the symbol of the row.
LEMMA TakeRowKeepsLocks ==
  ASSUME TypeOK, LockInv, NEW p \in Procs, pc[p] \in {"idle", "R_next"},
         NEW rows \in [Signals -> Statuses], TakeRow(p, rows), UNCHANGED entryLock
  PROVE  LockInv'
<1> USE ConstantsAssumption DEF Goto
<1> PICK t \in Left(rows) :
       Enqueue(p, t) /\ job' = [job EXCEPT ![p] = t] /\ Goto(p, "R_symbol")
  BY DEF TakeRow
<1>1. t \in Signals
  BY DEF Left
<1>2. ASSUME NEW q \in Procs, pc'[q] \in Busy PROVE job'[q] \in Signals
  BY <1>1, <1>2 DEF LockInv, TypeOK, TasksTyped
<1>3. ASSUME NEW q \in Procs, pc'[q] \in SymbolHeld
      PROVE  Owns(q, symLock'[SymbolOf[job'[q]]])
  <2>1. q # p /\ pc[q] \in SymbolHeld /\ job'[q] = job[q] /\ job[q] \in Signals
    BY <1>3 DEF LockInv, TypeOK, TasksTyped, Busy, SymbolHeld, Executing, Submitting,
      Recovering, Closing, Opening
  <2>2. Owns(q, symLock[SymbolOf[job[q]]])
    BY <2>1 DEF LockInv
  <2> QED BY <1>1, <2>1, <2>2, AppendKeepsOwner DEF Enqueue, TypeOK, TasksTyped
<1>4. \A q \in Procs : pc'[q] \in {"E_symbol", "E_check"} \cup Submitting => Owns(q, entryLock')
  BY DEF LockInv, TypeOK, TasksTyped, Submitting
<1> QED BY <1>2, <1>3, <1>4 DEF LockInv

\* Every step keeps LockInv.
LEMMA LockStep ==
  ASSUME TypeOK, LockInv, Next
  PROVE  LockInv'
<1> USE ConstantsAssumption DEF Goto, Mark, Fault, NoFault, book, fills, exch, locks,
  hand, bounds, hist
<1>1. ASSUME NEW p \in Procs, Continue(p) PROVE LockInv'
  <2>1. CASE LockSymbol(p)
    BY <2>1 DEF LockSymbol, TypeOK, TasksTyped, LockInv, Labels, Busy, SymbolHeld,
      Executing, Submitting, Recovering, Closing, Opening, locks, hand
  <2>2. CASE ExecuteCreate(p)
    BY <2>2 DEF ExecuteCreate, TypeOK, TasksTyped, LockInv, Labels, Busy, SymbolHeld,
      Executing, Submitting, Recovering, Closing, Opening, locks, hand
  <2>3. CASE ExecuteSubmit(p)
    BY <2>3 DEF ExecuteSubmit, TypeOK, TasksTyped, LockInv, Labels, Busy, SymbolHeld,
      Executing, Submitting, Recovering, Closing, Opening, locks, hand
  <2>4. CASE ExecuteMarkSubmitted(p) \/ ExecuteWait(p) \/ ExecuteProtect(p) \/
           ExecuteFail(p)
    BY <2>4 DEF ExecuteMarkSubmitted, ExecuteWait, ExecuteProtect, ExecuteFail, TypeOK,
      TasksTyped, LockInv, Labels, Busy, SymbolHeld, Executing, Submitting, Recovering,
      Closing, Opening, locks, hand
  <2>5. CASE FailsafeCancel(p) \/ FailsafeClose(p) \/ FailsafeFlat(p) \/
           FailsafeSettle(p) \/ CloseSend(p) \/ CloseFlat(p) \/ Finalize(p)
    BY <2>5 DEF FailsafeCancel, FailsafeClose, FailsafeFlat, FailsafeSettle, CloseSend,
      CloseFlat, Finalize, Unrecovered, TypeOK, TasksTyped, LockInv, Labels, Busy,
      SymbolHeld, Executing, Submitting, Recovering, Closing, Opening, locks, hand
  <2>6. CASE ReconcileUnsettled(p) \/ ReconcileFlat(p) \/ ReconcileActive(p) \/
           RecoverOpening(p) \/ RecoverProtect(p) \/ RecoverAbsent(p)
    BY <2>6 DEF ReconcileUnsettled, ReconcileFlat, ReconcileActive, RecoverOpening,
      RecoverProtect, RecoverAbsent, Unrecovered, Abort, TypeOK, TasksTyped, LockInv,
      Labels, Busy, SymbolHeld, Executing, Submitting, Recovering, Closing, Opening,
      locks, hand
  <2>7. CASE LockEntry(p)
    <3>1. job[p] \in Signals /\ Owns(p, entryLock)
      BY <2>7 DEF LockEntry, LockInv, Busy
    <3>2. ASSUME NEW q \in Procs, pc'[q] \in SymbolHeld
          PROVE  Owns(q, symLock'[SymbolOf[job'[q]]])
      <4>1. q # p /\ pc[q] \in SymbolHeld /\ job'[q] = job[q] /\ job[q] \in Signals
        BY <2>7, <3>2 DEF LockEntry, TypeOK, TasksTyped, LockInv, Labels, Busy,
          SymbolHeld, Executing, Submitting, Recovering, Closing, Opening, locks, hand
      <4>2. Owns(q, symLock[SymbolOf[job[q]]])
        BY <4>1 DEF LockInv
      <4> QED BY <2>7, <3>1, <4>1, <4>2, AppendKeepsOwner DEF LockEntry, Enqueue,
        TypeOK, TasksTyped
    <3>3. \A q \in Procs : pc'[q] \in Busy => job'[q] \in Signals
      BY <2>7, <3>1 DEF LockEntry, TypeOK, TasksTyped, LockInv, Labels, Busy,
        SymbolHeld, Executing, Submitting, Recovering, Closing, Opening, locks, hand
    <3>4. \A q \in Procs : pc'[q] \in {"E_symbol", "E_check"} \cup Submitting => Owns(q, entryLock')
      BY <2>7, <3>1 DEF LockEntry, TypeOK, TasksTyped, LockInv, Labels, Busy,
        SymbolHeld, Executing, Submitting, Recovering, Closing, Opening, locks, hand
    <3> QED BY <3>2, <3>3, <3>4 DEF LockInv
  <2>8. CASE ExecuteCheck(p)
    <3>1. Owns(p, entryLock)
      BY <2>8 DEF ExecuteCheck, LockInv
    <3> QED BY <2>8, <3>1 DEF ExecuteCheck, TypeOK, TasksTyped, LockInv, Labels, Busy,
      SymbolHeld, Executing, Submitting, Recovering, Closing, Opening, locks, hand
  <2>9. CASE ExecuteRoom(p)
    <3>1. Owns(p, entryLock)
      BY <2>9 DEF ExecuteRoom, LockInv, Submitting
    <3> QED BY <2>9, <3>1 DEF ExecuteRoom, TypeOK, TasksTyped, LockInv, Labels, Busy,
      SymbolHeld, Executing, Submitting, Recovering, Closing, Opening, locks, hand
  <2>10. CASE CloseBegin(p)
    <3>1. CASE Goto(p, "release") /\ UNCHANGED job
      BY <2>10, <3>1 DEF CloseBegin, TypeOK, TasksTyped, LockInv, Labels, Busy,
        SymbolHeld, Executing, Submitting, Recovering, Closing, Opening, locks, hand
    <3>2. ASSUME NEW t \in Signals, IsActiveFor(t, SymbolOf[job[p]]),
                 job' = [job EXCEPT ![p] = t],
                 Goto(p, "finalize") \/ Goto(p, "C_send")
          PROVE  LockInv'
      <4>1. SymbolOf[t] = SymbolOf[job[p]]
        BY <3>2 DEF IsActiveFor, Managed, InSymbol
      <4> QED BY <2>10, <3>2, <4>1 DEF CloseBegin, TypeOK, TasksTyped, LockInv, Labels,
        Busy, SymbolHeld, Executing, Submitting, Recovering, Closing, Opening, locks,
        hand
    <3> QED BY <2>10, <3>1, <3>2 DEF CloseBegin
  <2>11. CASE NextRow(p)
    <3>1. CASE TakeRow(p, snap[p])
      BY <2>11, <3>1, TakeRowKeepsLocks DEF NextRow, TypeOK, TasksTyped
    <3>2. CASE Goto(p, "idle") /\ UNCHANGED <<symLock, job, row, snap>>
      BY <2>11, <3>2 DEF NextRow, TypeOK, TasksTyped, LockInv, Labels, Busy, SymbolHeld,
        Executing, Submitting, Recovering, Closing, Opening, locks, hand
    <3> QED BY <2>11, <3>1, <3>2 DEF NextRow
  <2>12. CASE Release(p)
    <3>1. Owns(p, symLock[SymbolOf[job[p]]])
      BY <2>12 DEF Release, LockInv, SymbolHeld
    <3>2. ASSUME NEW q \in Procs, q # p, pc'[q] \in SymbolHeld
          PROVE  Owns(q, symLock'[SymbolOf[job'[q]]])
      <4>1. pc[q] \in SymbolHeld /\ job'[q] = job[q] /\ job[q] \in Signals
        BY <2>12, <3>2 DEF Release, TypeOK, TasksTyped, LockInv, Labels, Busy,
          SymbolHeld, Executing, Submitting, Recovering, Closing, Opening, locks, hand
      <4>2. SymbolOf[job[q]] # SymbolOf[job[p]]
        BY <3>1, <3>2, <4>1, OneOwner DEF LockInv
      <4> QED BY <2>12, <4>1, <4>2 DEF Release, TypeOK, TasksTyped, LockInv, Labels,
        Busy, SymbolHeld, Executing, Submitting, Recovering, Closing, Opening, locks,
        hand
    <3>3. ASSUME NEW q \in Procs, q # p, pc'[q] \in {"E_symbol", "E_check"} \cup Submitting
          PROVE  Owns(q, entryLock')
      <4>1. pc[q] \in {"E_symbol", "E_check"} \cup Submitting
        BY <2>12, <3>3 DEF Release, TypeOK, TasksTyped
      <4>2. Owns(q, entryLock) /\ ~Owns(p, entryLock)
        BY <3>3, <4>1, OneOwner DEF LockInv
      <4> QED BY <2>12, <4>2 DEF Release, EntryReleased
    <3>4. pc'[p] \in {"idle", "R_next", "X_next"}
      BY <2>12 DEF Release, TypeOK, TasksTyped
    <3>5. \A q \in Procs : pc'[q] \in Busy => job'[q] \in Signals
      BY <2>12, <3>4 DEF Release, TypeOK, TasksTyped, LockInv, Labels, Busy, SymbolHeld,
        Executing, Submitting, Recovering, Closing, Opening, locks, hand
    <3> QED BY <3>2, <3>3, <3>4, <3>5 DEF TypeOK, TasksTyped, LockInv, Labels, Busy,
      SymbolHeld, Executing, Submitting, Recovering, Closing, Opening, locks, hand
  <2>13. CASE p = Ops /\ CloseEverything
    <3> USE DEF Procs
    <3>1. CASE EmergencyLock \/ CloseAllRows
      BY <2>13, <3>1 DEF EmergencyLock, CloseAllRows, TypeOK, TasksTyped, LockInv,
        Labels, Busy, SymbolHeld, Executing, Submitting, Recovering, Closing, Opening,
        locks, hand
    <3>2. ASSUME NEW t \in Left(snap[Ops]), pc[Ops] = "X_next", Enqueue(Ops, t),
                 job' = [job EXCEPT ![Ops] = t], Goto(Ops, "X_symbol"), UNCHANGED entryLock
          PROVE  LockInv'
      <4>1. t \in Signals
        BY <3>2 DEF Left
      <4>2. ASSUME NEW q \in Procs, pc'[q] \in SymbolHeld
            PROVE  Owns(q, symLock'[SymbolOf[job'[q]]])
        <5>1. q # Ops /\ pc[q] \in SymbolHeld /\ job'[q] = job[q] /\ job[q] \in Signals
          BY <3>2, <4>2 DEF TypeOK, TasksTyped, LockInv, Labels, Busy, SymbolHeld,
            Executing, Submitting, Recovering, Closing, Opening, locks, hand
        <5>2. Owns(q, symLock[SymbolOf[job[q]]])
          BY <5>1 DEF LockInv
        <5> QED BY <3>2, <4>1, <5>1, <5>2, AppendKeepsOwner DEF Enqueue, TypeOK,
          TasksTyped
      <4>3. \A q \in Procs : pc'[q] \in Busy => job'[q] \in Signals
        BY <3>2, <4>1 DEF TypeOK, TasksTyped, LockInv, Labels, Busy, SymbolHeld,
          Executing, Submitting, Recovering, Closing, Opening, locks, hand
      <4>4. \A q \in Procs :
              pc'[q] \in {"E_symbol", "E_check"} \cup Submitting => Owns(q, entryLock')
        BY <3>2 DEF LockInv, TypeOK, TasksTyped, Submitting
      <4> QED BY <4>2, <4>3, <4>4 DEF LockInv
    <3>3. ASSUME CloseAllNext, Goto(Ops, "idle"), UNCHANGED <<symLock, job, snap>>,
                 entryLock' = IF Owns(Ops, entryLock) THEN Tail(entryLock) ELSE entryLock
          PROVE  LockInv'
      <4>1. ASSUME NEW q \in Procs, pc'[q] \in {"E_symbol", "E_check"} \cup Submitting
            PROVE  Owns(q, entryLock')
        <5>1. q # Ops /\ pc[q] \in {"E_symbol", "E_check"} \cup Submitting
          BY <3>3, <4>1 DEF TypeOK, TasksTyped, Submitting
        <5>2. Owns(q, entryLock) /\ ~Owns(Ops, entryLock)
          BY <5>1, OneOwner DEF LockInv
        <5> QED BY <3>3, <5>2
      <4>2. /\ \A q \in Procs : pc'[q] \in Busy => job'[q] \in Signals
            /\ \A q \in Procs : pc'[q] \in SymbolHeld => Owns(q, symLock'[SymbolOf[job'[q]]])
        BY <3>3 DEF TypeOK, TasksTyped, LockInv, Labels, Busy, SymbolHeld, Executing,
          Submitting, Recovering, Closing, Opening, locks, hand
      <4> QED BY <4>1, <4>2 DEF LockInv
    <3> QED BY <2>13, <3>1, <3>2, <3>3 DEF CloseEverything, CloseAllNext
  <2> QED BY <1>1, <2>1, <2>2, <2>3, <2>4, <2>5, <2>6, <2>7, <2>8, <2>9, <2>10, <2>11,
    <2>12, <2>13 DEF Continue, Execute, Failsafe, CloseTrade, Reconcile
<1>2. CASE Request
  <2> USE DEF Procs
  <2>1. ASSUME NEW p \in Workers, NEW t \in Signals, DeliverExecute(p, t) PROVE LockInv'
    BY <2>1, AppendKeepsOwner DEF DeliverExecute, TypeOK, TasksTyped, LockInv, Labels,
      Busy, SymbolHeld, Executing, Submitting, Recovering, Closing, Opening, locks, hand
  <2>2. ASSUME NEW p \in Workers, NEW t \in Signals, RequestClose(p, t) PROVE LockInv'
    <3>1. ASSUME NEW q \in Procs, pc'[q] \in SymbolHeld
          PROVE  Owns(q, symLock'[SymbolOf[job'[q]]])
      <4>1. q # p /\ pc[q] \in SymbolHeld /\ job'[q] = job[q] /\ job[q] \in Signals
        BY <2>2, <3>1 DEF RequestClose, TypeOK, TasksTyped, LockInv, Labels, Busy,
          SymbolHeld, Executing, Submitting, Recovering, Closing, Opening, locks, hand
      <4>2. Owns(q, symLock[SymbolOf[job[q]]])
        BY <4>1 DEF LockInv
      <4> QED BY <2>2, <4>1, <4>2, AppendKeepsOwner DEF RequestClose, Enqueue, TypeOK,
        TasksTyped
    <3>2. \A q \in Procs : pc'[q] \in Busy => job'[q] \in Signals
      BY <2>2 DEF RequestClose, TypeOK, TasksTyped, LockInv, Labels, Busy, SymbolHeld,
        Executing, Submitting, Recovering, Closing, Opening, locks, hand
    <3>3. \A q \in Procs :
            pc'[q] \in {"E_symbol", "E_check"} \cup Submitting => Owns(q, entryLock')
      BY <2>2 DEF RequestClose, LockInv, TypeOK, TasksTyped, Submitting
    <3> QED BY <3>1, <3>2, <3>3 DEF LockInv
  <2>3. CASE EmergencyStop
    <3>1. ASSUME NEW q \in Procs, pc'[q] \in {"E_symbol", "E_check"} \cup Submitting
          PROVE  Owns(q, entryLock')
      <4>1. q # Ops /\ Owns(q, entryLock)
        BY <2>3, <3>1 DEF EmergencyStop, LockInv, TypeOK, TasksTyped, Submitting
      <4> QED BY <2>3, <4>1, AppendKeepsOwner DEF EmergencyStop, TypeOK, TasksTyped
    <3>2. /\ \A q \in Procs : pc'[q] \in Busy => job'[q] \in Signals
          /\ \A q \in Procs : pc'[q] \in SymbolHeld => Owns(q, symLock'[SymbolOf[job'[q]]])
      BY <2>3 DEF EmergencyStop, TypeOK, TasksTyped, LockInv, Labels, Busy, SymbolHeld,
        Executing, Submitting, Recovering, Closing, Opening, locks, hand
    <3> QED BY <3>1, <3>2 DEF LockInv
  <2>4. CASE Pause \/ Resume \/ CloseAll
    BY <2>4 DEF Pause, Resume, CloseAll, TypeOK, TasksTyped, LockInv, Labels, Busy,
      SymbolHeld, Executing, Submitting, Recovering, Closing, Opening, locks, hand
  <2> QED BY <1>2, <2>1, <2>2, <2>3, <2>4 DEF Request
<1>3. CASE Exchange
  BY <1>3 DEF Exchange, FillEntry, DropEntry, ExitPosition, TypeOK, TasksTyped, LockInv,
    Labels, Busy, SymbolHeld, Executing, Submitting, Recovering, Closing, Opening,
    locks, hand
<1>4. CASE Crash
  BY <1>4 DEF Crash, NoRows, TypeOK, TasksTyped, LockInv, Labels, Busy, SymbolHeld,
    Executing, Submitting, Recovering, Closing, Opening, locks, hand
<1>5. CASE \E p \in Reconcilers : ReadRows(p)
  <2> PICK p \in Reconcilers : ReadRows(p)
    BY <1>5
  <2>1. RowsIn(Reconcilable) \in [Signals -> Statuses]
    BY DEF RowsIn, TypeOK, RowsTyped, Statuses
  <2>2. p \in Procs /\ TakeRow(p, RowsIn(Reconcilable)) /\ pc[p] = "idle" /\ UNCHANGED entryLock
    BY DEF ReadRows, Procs
  <2> QED BY <2>1, <2>2, TakeRowKeepsLocks
<1> QED BY <1>1, <1>2, <1>3, <1>4, <1>5 DEF Next

-----------------------------------------------------------------------------
(***************************************************************************)
(* Rows, account and coroutines.                                            *)
(***************************************************************************)

\* An aborted pass takes no new rows.
LEMMA AbortDropsRows ==
  ASSUME TypeOK, NEW p \in Procs, Abort(p)
  PROVE  \A q \in Procs, t \in Signals : snap'[q][t] # Absent => snap[q][t] # Absent
<1> SUFFICES ASSUME NEW q \in Procs, NEW t \in Signals, snap'[q][t] # Absent
             PROVE  snap[q][t] # Absent
  OBVIOUS
<1>1. CASE q = p /\ p = Loop
  BY <1>1 DEF Abort, NoRows, TypeOK, TasksTyped
<1>2. CASE ~(q = p /\ p = Loop)
  <2>1. snap'[q] = snap[q]
    BY <1>2 DEF Abort, TypeOK, TasksTyped
  <2> QED BY <2>1
<1> QED BY <1>1, <1>2

\* A row taken from rows that all exist exists.
LEMMA TakeRowKeepsRows ==
  ASSUME TypeOK, RowInv, NEW p \in Procs,
         NEW rows \in [Signals -> Statuses], TakeRow(p, rows),
         \A t \in Signals : rows[t] # Absent => rowid[t] # 0,
         UNCHANGED <<status, book>>
  PROVE  RowInv'
<1> USE ConstantsAssumption DEF Goto, book
<1> PICK t \in Left(rows) :
       /\ job' = [job EXCEPT ![p] = t] /\ Goto(p, "R_symbol")
       /\ snap' = [snap EXCEPT ![p] = [rows EXCEPT ![t] = Absent]]
  BY DEF TakeRow
<1>1. t \in Signals /\ rowid[t] # 0
  BY DEF Left
<1>2. \A q \in Procs : pc'[q] \in HasRow => rowid'[job'[q]] # 0
  BY <1>1 DEF RowInv, TypeOK, TasksTyped
<1>3. \A q \in Procs, u \in Signals : snap'[q][u] # Absent => rowid'[u] # 0
  BY <1>1 DEF RowInv, TypeOK, TasksTyped
<1> QED BY <1>2, <1>3 DEF RowInv

\* Every step keeps RowInv.
LEMMA RowStep ==
  ASSUME TypeOK, LockInv, RowInv, Next
  PROVE  RowInv'
<1> USE ConstantsAssumption DEF Goto, Mark, Fault, NoFault, book, fills, exch, locks,
  hand, bounds, hist
<1>1. ASSUME NEW p \in Procs, Continue(p) PROVE RowInv'
  <2>1. CASE LockEntry(p) \/ LockSymbol(p) \/ ExecuteCheck(p) \/ ExecuteRoom(p) \/
           Release(p)
    BY <2>1 DEF LockEntry, LockSymbol, ExecuteCheck, ExecuteRoom, Release, TypeOK,
      RowsTyped, TasksTyped, LockInv, Busy, RowInv, HasRow, Statuses, Reconcilable,
      Live, Absent, SymbolHeld, Executing, Submitting, Recovering, Closing, Opening
  <2>2. CASE ExecuteSubmit(p)
    BY <2>2 DEF ExecuteSubmit, TypeOK, RowsTyped, TasksTyped, LockInv, Busy, RowInv,
      HasRow, Statuses, Reconcilable, Live, Absent, SymbolHeld, Executing, Submitting,
      Recovering, Closing, Opening
  <2>3. CASE ExecuteMarkSubmitted(p) \/ ExecuteFail(p)
    BY <2>3 DEF ExecuteMarkSubmitted, ExecuteFail, TypeOK, RowsTyped, TasksTyped,
      LockInv, Busy, RowInv, HasRow, Statuses, Reconcilable, Live, Absent, SymbolHeld,
      Executing, Submitting, Recovering, Closing, Opening
  <2>4. CASE ExecuteWait(p) \/ ExecuteProtect(p)
    BY <2>4 DEF ExecuteWait, ExecuteProtect, TypeOK, RowsTyped, TasksTyped, LockInv,
      Busy, RowInv, HasRow, Statuses, Reconcilable, Live, Absent, SymbolHeld, Executing,
      Submitting, Recovering, Closing, Opening
  <2>5. CASE FailsafeCancel(p) \/ FailsafeClose(p) \/ FailsafeFlat(p)
    BY <2>5 DEF FailsafeCancel, FailsafeClose, FailsafeFlat, Unrecovered, TypeOK,
      RowsTyped, TasksTyped, LockInv, Busy, RowInv, HasRow, Statuses, Reconcilable,
      Live, Absent, SymbolHeld, Executing, Submitting, Recovering, Closing, Opening
  <2>6. CASE FailsafeSettle(p)
    BY <2>6 DEF FailsafeSettle, Unrecovered, TypeOK, RowsTyped, TasksTyped, LockInv,
      Busy, RowInv, HasRow, Statuses, Reconcilable, Live, Absent, SymbolHeld, Executing,
      Submitting, Recovering, Closing, Opening
  <2>7. CASE CloseSend(p) \/ CloseFlat(p)
    BY <2>7 DEF CloseSend, CloseFlat, Unrecovered, TypeOK, RowsTyped, TasksTyped,
      LockInv, Busy, RowInv, HasRow, Statuses, Reconcilable, Live, Absent, SymbolHeld,
      Executing, Submitting, Recovering, Closing, Opening
  <2>8. CASE Finalize(p)
    BY <2>8 DEF Finalize, TypeOK, RowsTyped, TasksTyped, LockInv, Busy, RowInv, HasRow,
      Statuses, Reconcilable, Live, Absent, SymbolHeld, Executing, Submitting,
      Recovering, Closing, Opening
  <2>9. CASE ReconcileUnsettled(p)
    BY <2>9 DEF ReconcileUnsettled, Unrecovered, TypeOK, RowsTyped, TasksTyped, LockInv,
      Busy, RowInv, HasRow, Statuses, Reconcilable, Live, Absent, SymbolHeld, Executing,
      Submitting, Recovering, Closing, Opening
  <2>10. CASE RecoverProtect(p)
    BY <2>10 DEF RecoverProtect, Unrecovered, TypeOK, RowsTyped, TasksTyped, LockInv,
      Busy, RowInv, HasRow, Statuses, Reconcilable, Live, Absent, SymbolHeld, Executing,
      Submitting, Recovering, Closing, Opening
  <2>11. CASE ExecuteCreate(p)
    <3>1. job[p] \in Signals
      BY <2>11 DEF ExecuteCreate, LockInv, Busy, SymbolHeld, Executing, Submitting
    <3>2. /\ rowid' = [rowid EXCEPT ![job[p]] = lastId + 1] /\ lastId' = lastId + 1
          /\ status' = [status EXCEPT ![job[p]] = "OPENING"]
          /\ UNCHANGED <<job, snap>>
      BY <2>11 DEF ExecuteCreate
    <3>3. \A t \in Signals : rowid[t] \in Nat /\ rowid[t] <= lastId /\ lastId \in Nat
      BY DEF RowInv, TypeOK, RowsTyped
    <3>4. \A t \in Signals : rowid'[t] = IF t = job[p] THEN lastId + 1 ELSE rowid[t]
      BY <3>1, <3>2 DEF TypeOK, RowsTyped
    <3>5. \A t \in Signals : rowid[t] # 0 => rowid'[t] # 0
      BY <3>3, <3>4
    <3>6. \A t \in Signals : status'[t] = Absent <=> rowid'[t] = 0
      BY <3>1, <3>2, <3>3, <3>4 DEF RowInv, TypeOK, RowsTyped, Absent
    <3>7. \A t \in Signals : rowid'[t] <= lastId'
      BY <3>2, <3>3, <3>4
    <3>8. \A t, u \in Signals : rowid'[t] = rowid'[u] /\ rowid'[t] # 0 => t = u
      BY <3>3, <3>4 DEF RowInv
    <3>9. ASSUME NEW q \in Procs, pc'[q] \in HasRow PROVE rowid'[job'[q]] # 0
      <4>1. CASE q = p
        BY <3>1, <3>2, <3>3, <3>4, <4>1
      <4>2. CASE q # p
        <5>1. pc[q] \in HasRow /\ job[q] \in Signals
          BY <2>11, <3>9, <4>2 DEF ExecuteCreate, LockInv, Busy, HasRow, TypeOK,
            TasksTyped, SymbolHeld, Executing, Submitting, Recovering, Closing, Opening
        <5> QED BY <3>2, <3>5, <5>1 DEF RowInv
      <4> QED BY <4>1, <4>2
    <3>10. \A q \in Procs, t \in Signals : snap'[q][t] # Absent => rowid'[t] # 0
      BY <3>2, <3>5 DEF RowInv
    <3> QED BY <3>6, <3>7, <3>8, <3>9, <3>10 DEF RowInv
  <2>12. CASE CloseBegin(p)
    <3>1. CASE Goto(p, "release") /\ UNCHANGED <<status, job>>
      BY <2>12, <3>1 DEF CloseBegin, TypeOK, RowsTyped, TasksTyped, LockInv, Busy,
        RowInv, HasRow, Statuses, Reconcilable, Live, Absent, SymbolHeld, Executing,
        Submitting, Recovering, Closing, Opening
    <3>2. ASSUME NEW t \in Signals, IsActiveFor(t, SymbolOf[job[p]]),
                 job' = [job EXCEPT ![p] = t],
                 \/ Goto(p, "finalize") /\ UNCHANGED status
                 \/ Goto(p, "C_send") /\ Mark(t, "CLOSING")
          PROVE  RowInv'
      <4>1. rowid[t] # 0
        BY <3>2 DEF IsActiveFor, Managed, RowInv, Reconcilable, Live, Absent
      <4> QED BY <2>12, <3>2, <4>1 DEF CloseBegin, TypeOK, RowsTyped, TasksTyped,
        LockInv, Busy, RowInv, HasRow, Statuses, Reconcilable, Live, Absent, SymbolHeld,
        Executing, Submitting, Recovering, Closing, Opening
    <3> QED BY <2>12, <3>1, <3>2 DEF CloseBegin
  <2>13. CASE NextRow(p)
    <3>1. CASE TakeRow(p, snap[p])
      <4>1. snap[p] \in [Signals -> Statuses] /\ UNCHANGED <<status, book>>
        BY <2>13 DEF NextRow, TypeOK, TasksTyped
      <4>2. \A t \in Signals : snap[p][t] # Absent => rowid[t] # 0
        BY DEF RowInv
      <4> QED BY <3>1, <4>1, <4>2, TakeRowKeepsRows
    <3>2. CASE Goto(p, "idle") /\ UNCHANGED <<symLock, job, row, snap>>
      BY <2>13, <3>2 DEF NextRow, TypeOK, RowsTyped, TasksTyped, LockInv, Busy, RowInv,
        HasRow, Statuses, Reconcilable, Live, Absent, SymbolHeld, Executing, Submitting,
        Recovering, Closing, Opening
    <3> QED BY <2>13, <3>1, <3>2 DEF NextRow
  <2>14. CASE ReconcileFlat(p)
    <3>1. \A q \in Procs, t \in Signals : snap'[q][t] # Absent => snap[q][t] # Absent
      BY <2>14, AbortDropsRows DEF ReconcileFlat
    <3>2. job[p] \in Signals
      BY <2>14 DEF ReconcileFlat, LockInv, Busy, SymbolHeld, Executing, Submitting,
        Recovering, Closing, Opening
    <3>3. \A t \in Signals : status'[t] = Absent <=> status[t] = Absent
      BY <2>14, <3>2 DEF ReconcileFlat, Unrecovered, RowInv, HasRow, Opening, TypeOK,
        RowsTyped, Absent
    <3>4. \A q \in Procs : pc'[q] \in HasRow => pc[q] \in HasRow
      BY <2>14 DEF ReconcileFlat, Unrecovered, Abort, TypeOK, TasksTyped, HasRow,
        Opening
    <3> QED BY <2>14, <3>1, <3>3, <3>4 DEF ReconcileFlat, RowInv
  <2>15. CASE ReconcileActive(p)
    <3>1. \A q \in Procs, t \in Signals : snap'[q][t] # Absent => snap[q][t] # Absent
      BY <2>15, AbortDropsRows DEF ReconcileActive
    <3>2. job[p] \in Signals
      BY <2>15 DEF ReconcileActive, LockInv, Busy, SymbolHeld, Executing, Submitting,
        Recovering, Closing, Opening
    <3>3. \A t \in Signals : status'[t] = Absent <=> status[t] = Absent
      BY <2>15, <3>2 DEF ReconcileActive, Unrecovered, RowInv, HasRow, Opening, TypeOK,
        RowsTyped, Absent
    <3>4. \A q \in Procs : pc'[q] \in HasRow => pc[q] \in HasRow
      BY <2>15 DEF ReconcileActive, Unrecovered, Abort, TypeOK, TasksTyped, HasRow,
        Opening
    <3> QED BY <2>15, <3>1, <3>3, <3>4 DEF ReconcileActive, RowInv
  <2>16. CASE RecoverOpening(p)
    <3>1. \A q \in Procs, t \in Signals : snap'[q][t] # Absent => snap[q][t] # Absent
      BY <2>16, AbortDropsRows DEF RecoverOpening
    <3>2. job[p] \in Signals
      BY <2>16 DEF RecoverOpening, LockInv, Busy, SymbolHeld, Executing, Submitting,
        Recovering, Closing, Opening
    <3>3. \A t \in Signals : status'[t] = Absent <=> status[t] = Absent
      BY <2>16, <3>2 DEF RecoverOpening, Unrecovered, RowInv, HasRow, Opening, TypeOK,
        RowsTyped, Absent
    <3>4. \A q \in Procs : pc'[q] \in HasRow => pc[q] \in HasRow
      BY <2>16 DEF RecoverOpening, Unrecovered, Abort, TypeOK, TasksTyped, HasRow,
        Opening
    <3> QED BY <2>16, <3>1, <3>3, <3>4 DEF RecoverOpening, RowInv
  <2>17. CASE RecoverAbsent(p)
    <3>1. \A q \in Procs, t \in Signals : snap'[q][t] # Absent => snap[q][t] # Absent
      BY <2>17, AbortDropsRows DEF RecoverAbsent
    <3>2. job[p] \in Signals
      BY <2>17 DEF RecoverAbsent, LockInv, Busy, SymbolHeld, Executing, Submitting,
        Recovering, Closing, Opening
    <3>3. \A t \in Signals : status'[t] = Absent <=> status[t] = Absent
      BY <2>17, <3>2 DEF RecoverAbsent, Unrecovered, RowInv, HasRow, Opening, TypeOK,
        RowsTyped, Absent
    <3>4. \A q \in Procs : pc'[q] \in HasRow => pc[q] \in HasRow
      BY <2>17 DEF RecoverAbsent, Unrecovered, Abort, TypeOK, TasksTyped, HasRow,
        Opening
    <3> QED BY <2>17, <3>1, <3>3, <3>4 DEF RecoverAbsent, RowInv
  <2>18. CASE p = Ops /\ CloseEverything
    <3> USE DEF Procs
    <3>1. CASE EmergencyLock
      BY <2>18, <3>1 DEF EmergencyLock, TypeOK, RowsTyped, TasksTyped, LockInv, Busy,
        RowInv, HasRow, Statuses, Reconcilable, Live, Absent, SymbolHeld, Executing,
        Submitting, Recovering, Closing, Opening
    <3>2. CASE CloseAllRows
      BY <2>18, <3>2 DEF CloseAllRows, RowsIn, TypeOK, RowsTyped, TasksTyped, LockInv,
        Busy, RowInv, HasRow, Statuses, Reconcilable, Live, Absent, SymbolHeld,
        Executing, Submitting, Recovering, Closing, Opening
    <3>3. CASE CloseAllNext
      BY <2>18, <3>3 DEF CloseAllNext, Left, TypeOK, RowsTyped, TasksTyped, LockInv,
        Busy, RowInv, HasRow, Statuses, Reconcilable, Live, Absent, SymbolHeld,
        Executing, Submitting, Recovering, Closing, Opening
    <3> QED BY <2>18, <3>1, <3>2, <3>3 DEF CloseEverything
  <2> QED BY <1>1, <2>1, <2>2, <2>3, <2>4, <2>5, <2>6, <2>7, <2>8, <2>9, <2>10, <2>11,
    <2>12, <2>13, <2>14, <2>15, <2>16, <2>17, <2>18 DEF Continue, Execute, Failsafe,
    CloseTrade, Reconcile
<1>2. CASE Request
  <2>1. ASSUME NEW p \in Workers, NEW t \in Signals, DeliverExecute(p, t) PROVE RowInv'
    BY <2>1 DEF DeliverExecute, Procs, TypeOK, RowsTyped, TasksTyped, LockInv, Busy,
      RowInv, HasRow, Statuses, Reconcilable, Live, Absent, SymbolHeld, Executing,
      Submitting, Recovering, Closing, Opening
  <2>2. ASSUME NEW p \in Workers, NEW t \in Signals, RequestClose(p, t) PROVE RowInv'
    BY <2>2 DEF RequestClose, Procs, TypeOK, RowsTyped, TasksTyped, LockInv, Busy,
      RowInv, HasRow, Statuses, Reconcilable, Live, Absent, SymbolHeld, Executing,
      Submitting, Recovering, Closing, Opening
  <2>3. CASE Pause \/ Resume \/ CloseAll \/ EmergencyStop
    BY <2>3 DEF Pause, Resume, CloseAll, EmergencyStop, Procs, TypeOK, RowsTyped,
      TasksTyped, LockInv, Busy, RowInv, HasRow, Statuses, Reconcilable, Live, Absent,
      SymbolHeld, Executing, Submitting, Recovering, Closing, Opening
  <2> QED BY <1>2, <2>1, <2>2, <2>3 DEF Request
<1>3. CASE Exchange
  BY <1>3 DEF Exchange, FillEntry, DropEntry, ExitPosition, TypeOK, RowsTyped,
    TasksTyped, LockInv, Busy, RowInv, HasRow, Statuses, Reconcilable, Live, Absent,
    SymbolHeld, Executing, Submitting, Recovering, Closing, Opening
<1>4. CASE Crash
  BY <1>4 DEF Crash, NoRows, TypeOK, RowsTyped, TasksTyped, LockInv, Busy, RowInv,
    HasRow, Statuses, Reconcilable, Live, Absent, SymbolHeld, Executing, Submitting,
    Recovering, Closing, Opening
<1>5. CASE \E p \in Reconcilers : ReadRows(p)
  <2> PICK p \in Reconcilers : ReadRows(p)
    BY <1>5
  <2>1. RowsIn(Reconcilable) \in [Signals -> Statuses]
    BY DEF RowsIn, TypeOK, RowsTyped, Statuses
  <2>2. \A t \in Signals : RowsIn(Reconcilable)[t] # Absent => rowid[t] # 0
    BY DEF RowsIn, RowInv
  <2>3. p \in Procs /\ TakeRow(p, RowsIn(Reconcilable)) /\ UNCHANGED <<status, book>>
    BY DEF ReadRows, Procs
  <2> QED BY <2>1, <2>2, <2>3, TakeRowKeepsRows
<1> QED BY <1>1, <1>2, <1>3, <1>4, <1>5 DEF Next

\* Every step keeps EmergencyInv.
LEMMA EmergencyStep ==
  ASSUME TypeOK, LockInv, EmergencyInv, Next
  PROVE  EmergencyInv'
<1> USE ConstantsAssumption DEF Goto, Mark, Fault, NoFault, book, fills, exch, locks,
  hand, bounds, hist
<1>1. ASSUME NEW p \in Procs, Continue(p) PROVE EmergencyInv'
  <2>1. CASE LockEntry(p) \/ LockSymbol(p) \/ ExecuteRoom(p) \/ ExecuteCreate(p)
           \/ ExecuteSubmit(p)
    BY <2>1 DEF LockEntry, LockSymbol, ExecuteRoom, ExecuteCreate, ExecuteSubmit,
      TypeOK, TasksTyped, LockInv, EmergencyInv, SymbolHeld, Executing, Submitting,
      Recovering, Closing, Opening
  <2>2. CASE ExecuteCheck(p)
    BY <2>2 DEF ExecuteCheck, Accepted, TypeOK, TasksTyped, LockInv, EmergencyInv,
      SymbolHeld, Executing, Submitting, Recovering, Closing, Opening
  <2>3. CASE ExecuteMarkSubmitted(p) \/ ExecuteWait(p) \/ ExecuteProtect(p) \/
           ExecuteFail(p)
    BY <2>3 DEF ExecuteMarkSubmitted, ExecuteWait, ExecuteProtect, ExecuteFail, TypeOK,
      TasksTyped, LockInv, EmergencyInv, SymbolHeld, Executing, Submitting, Recovering,
      Closing, Opening
  <2>4. CASE FailsafeCancel(p) \/ FailsafeClose(p) \/ FailsafeFlat(p) \/
           FailsafeSettle(p) \/ CloseBegin(p) \/ CloseSend(p) \/ CloseFlat(p) \/
           Finalize(p)
    BY <2>4 DEF FailsafeCancel, FailsafeClose, FailsafeFlat, FailsafeSettle, CloseBegin,
      CloseSend, CloseFlat, Finalize, Unrecovered, Miss, TypeOK, TasksTyped, LockInv,
      EmergencyInv, SymbolHeld, Executing, Submitting, Recovering, Closing, Opening
  <2>5. CASE NextRow(p) \/ Release(p)
    BY <2>5 DEF NextRow, Release, TakeRow, TypeOK, TasksTyped, LockInv, EmergencyInv,
      SymbolHeld, Executing, Submitting, Recovering, Closing, Opening
  <2>6. CASE ReconcileUnsettled(p) \/ ReconcileFlat(p) \/ ReconcileActive(p) \/
           RecoverOpening(p) \/ RecoverProtect(p) \/ RecoverAbsent(p)
    BY <2>6 DEF ReconcileUnsettled, ReconcileFlat, ReconcileActive, RecoverOpening,
      RecoverProtect, RecoverAbsent, Unrecovered, Abort, TypeOK, TasksTyped, LockInv,
      EmergencyInv, SymbolHeld, Executing, Submitting, Recovering, Closing, Opening
  <2>7. CASE p = Ops /\ CloseEverything
    <3> USE DEF Procs
    <3>1. CASE EmergencyLock
      <4>1. ASSUME NEW q \in Procs PROVE pc[q] \notin Submitting
        BY <3>1, OneOwner DEF EmergencyLock, LockInv, Submitting
      <4> QED BY <3>1, <4>1 DEF EmergencyLock, TypeOK, TasksTyped, LockInv,
        EmergencyInv, SymbolHeld, Executing, Submitting, Recovering, Closing, Opening
    <3>2. CASE CloseAllRows \/ CloseAllNext
      BY <3>2 DEF CloseAllRows, CloseAllNext, TypeOK, TasksTyped, LockInv, EmergencyInv,
        SymbolHeld, Executing, Submitting, Recovering, Closing, Opening
    <3> QED BY <2>7, <3>1, <3>2 DEF CloseEverything
  <2> QED BY <1>1, <2>1, <2>2, <2>3, <2>4, <2>5, <2>6, <2>7 DEF Continue, Execute,
    Failsafe, CloseTrade, Reconcile
<1>2. CASE Request
  BY <1>2 DEF Request, DeliverExecute, RequestClose, Pause, Resume, CloseAll,
    EmergencyStop, Procs, TypeOK, TasksTyped, LockInv, EmergencyInv, SymbolHeld,
    Executing, Submitting, Recovering, Closing, Opening
<1>3. CASE Exchange
  BY <1>3 DEF Exchange, FillEntry, DropEntry, ExitPosition, TypeOK, TasksTyped, LockInv,
    EmergencyInv, SymbolHeld, Executing, Submitting, Recovering, Closing, Opening
<1>4. CASE Crash
  BY <1>4 DEF Crash, NoRows, TypeOK, TasksTyped, LockInv, EmergencyInv, SymbolHeld,
    Executing, Submitting, Recovering, Closing, Opening
<1>5. CASE \E p \in Reconcilers : ReadRows(p)
  BY <1>5 DEF ReadRows, TakeRow, Procs, TypeOK, TasksTyped, LockInv, EmergencyInv,
    SymbolHeld, Executing, Submitting, Recovering, Closing, Opening
<1> QED BY <1>1, <1>2, <1>3, <1>4, <1>5 DEF Next

\* A coroutine moves only itself.
LEMMA OthersStay ==
  ASSUME TypeOK, NEW p \in Procs, Continue(p), NEW q \in Procs, q # p
  PROVE  pc'[q] = pc[q] /\ job'[q] = job[q] /\ seen'[q] = seen[q]
<1> USE ConstantsAssumption DEF Goto, Mark, Fault, NoFault, book, fills, exch, locks,
  hand, bounds, hist
<1>1. CASE LockEntry(p) \/ LockSymbol(p) \/ ExecuteCheck(p) \/ ExecuteRoom(p) \/
         ExecuteCreate(p) \/ ExecuteSubmit(p)
  BY <1>1 DEF LockEntry, LockSymbol, ExecuteCheck, ExecuteRoom, ExecuteCreate,
    ExecuteSubmit, TypeOK, TasksTyped
<1>2. CASE ExecuteMarkSubmitted(p) \/ ExecuteWait(p) \/ ExecuteProtect(p) \/
         ExecuteFail(p)
  BY <1>2 DEF ExecuteMarkSubmitted, ExecuteWait, ExecuteProtect, ExecuteFail, TypeOK,
    TasksTyped
<1>3. CASE FailsafeCancel(p) \/ FailsafeClose(p) \/ FailsafeFlat(p) \/
         FailsafeSettle(p)
  BY <1>3 DEF FailsafeCancel, FailsafeClose, FailsafeFlat, FailsafeSettle, Unrecovered,
    TypeOK, TasksTyped
<1>4. CASE CloseBegin(p) \/ CloseSend(p) \/ CloseFlat(p) \/ Finalize(p)
  BY <1>4 DEF CloseBegin, CloseSend, CloseFlat, Finalize, Unrecovered, TypeOK,
    TasksTyped
<1>5. CASE NextRow(p) \/ Release(p)
  BY <1>5 DEF NextRow, Release, TakeRow, TypeOK, TasksTyped
<1>6. CASE ReconcileUnsettled(p) \/ ReconcileFlat(p) \/ ReconcileActive(p)
  BY <1>6 DEF ReconcileUnsettled, ReconcileFlat, ReconcileActive, Unrecovered, Abort,
    TypeOK, TasksTyped
<1>7. CASE RecoverOpening(p) \/ RecoverProtect(p) \/ RecoverAbsent(p)
  BY <1>7 DEF RecoverOpening, RecoverProtect, RecoverAbsent, Unrecovered, Abort, TypeOK,
    TasksTyped
<1>8. CASE p = Ops /\ CloseEverything
  BY <1>8 DEF CloseEverything, EmergencyLock, CloseAllRows, CloseAllNext, TypeOK,
    TasksTyped
<1> QED BY <1>1, <1>2, <1>3, <1>4, <1>5, <1>6, <1>7, <1>8 DEF Continue, Execute,
  Failsafe, CloseTrade, Reconcile

\* Two coroutines at work never share a symbol.
LEMMA Apart ==
  ASSUME LockInv, NEW p \in Procs, NEW q \in Procs, q # p,
         pc[p] \in SymbolHeld, pc[q] \in SymbolHeld
  PROVE  SymbolOf[job[q]] # SymbolOf[job[p]]
BY OneOwner DEF LockInv

\* A coroutine writes the rows and the orders of one symbol only, and under its lock.
LEMMA OwnSymbol ==
  ASSUME TypeOK, LockInv, NEW p \in Procs, Continue(p), NEW t \in Signals,
         pc[p] \notin SymbolHeld \/ SymbolOf[t] # SymbolOf[job[p]]
  PROVE  status'[t] = status[t] /\ rowid'[t] = rowid[t] /\ ord'[t] = ord[t]
<1> USE ConstantsAssumption DEF Goto, Mark, Fault, NoFault, book, fills, exch, locks,
  hand, bounds, hist
<1>1. CASE LockEntry(p) \/ LockSymbol(p) \/ ExecuteCheck(p) \/ ExecuteRoom(p) \/
         ExecuteCreate(p) \/ ExecuteSubmit(p)
  BY <1>1 DEF LockEntry, LockSymbol, ExecuteCheck, ExecuteRoom, ExecuteCreate,
    ExecuteSubmit, TypeOK, RowsTyped, AccountTyped, TasksTyped, LockInv, Busy,
    SymbolHeld, Executing, Submitting, Recovering, Closing, Opening
<1>2. CASE ExecuteMarkSubmitted(p) \/ ExecuteWait(p) \/ ExecuteProtect(p) \/
         ExecuteFail(p)
  BY <1>2 DEF ExecuteMarkSubmitted, ExecuteWait, ExecuteProtect, ExecuteFail, TypeOK,
    RowsTyped, AccountTyped, TasksTyped, LockInv, Busy, SymbolHeld, Executing,
    Submitting, Recovering, Closing, Opening
<1>3. CASE FailsafeCancel(p) \/ FailsafeClose(p) \/ FailsafeFlat(p) \/
         FailsafeSettle(p)
  BY <1>3 DEF FailsafeCancel, FailsafeClose, FailsafeFlat, FailsafeSettle, Unrecovered,
    CancelEntry, TypeOK, RowsTyped, AccountTyped, TasksTyped, LockInv, Busy, SymbolHeld,
    Executing, Submitting, Recovering, Closing, Opening
<1>4. CASE CloseSend(p) \/ CloseFlat(p) \/ Finalize(p)
  BY <1>4 DEF CloseSend, CloseFlat, Finalize, Unrecovered, CancelEntry, TypeOK,
    RowsTyped, AccountTyped, TasksTyped, LockInv, Busy, SymbolHeld, Executing,
    Submitting, Recovering, Closing, Opening
<1>5. CASE CloseBegin(p)
  BY <1>5 DEF CloseBegin, IsActiveFor, Managed, InSymbol, TypeOK, RowsTyped,
    AccountTyped, TasksTyped, LockInv, Busy, SymbolHeld, Executing, Submitting,
    Recovering, Closing, Opening
<1>6. CASE NextRow(p) \/ Release(p)
  BY <1>6 DEF NextRow, Release, TypeOK, RowsTyped, AccountTyped, TasksTyped, LockInv,
    Busy, SymbolHeld, Executing, Submitting, Recovering, Closing, Opening
<1>7. CASE ReconcileUnsettled(p) \/ ReconcileFlat(p) \/ ReconcileActive(p)
  BY <1>7 DEF ReconcileUnsettled, ReconcileFlat, ReconcileActive, Unrecovered,
    CancelEntry, TypeOK, RowsTyped, AccountTyped, TasksTyped, LockInv, Busy, SymbolHeld,
    Executing, Submitting, Recovering, Closing, Opening
<1>8. CASE RecoverOpening(p) \/ RecoverProtect(p) \/ RecoverAbsent(p)
  BY <1>8 DEF RecoverOpening, RecoverProtect, RecoverAbsent, Unrecovered, TypeOK,
    RowsTyped, AccountTyped, TasksTyped, LockInv, Busy, SymbolHeld, Executing,
    Submitting, Recovering, Closing, Opening
<1>9. CASE p = Ops /\ CloseEverything
  BY <1>9 DEF CloseEverything, EmergencyLock, CloseAllRows, CloseAllNext, TypeOK,
    RowsTyped, AccountTyped, TasksTyped, LockInv, Busy, SymbolHeld, Executing,
    Submitting, Recovering, Closing, Opening
<1> QED BY <1>1, <1>2, <1>3, <1>4, <1>5, <1>6, <1>7, <1>8, <1>9 DEF Continue, Execute,
  Failsafe, CloseTrade, Reconcile

\* EntryInv of the coroutine that moves: only three of its labels matter.
LEMMA EntryOfMover ==
  ASSUME TypeOK, LockInv, RowInv, OrderInv, EntryInv, NEW p \in Procs, Continue(p)
  PROVE  Entering(p)'
<1> USE ConstantsAssumption DEF Goto, Mark, Fault, NoFault, book, fills, exch, locks,
  hand, bounds, hist
<1>1. CASE LockEntry(p) \/ LockSymbol(p) \/ Release(p)
  BY <1>1 DEF LockEntry, LockSymbol, Release, TypeOK, TasksTyped, Entering
<1>2. CASE ExecuteSubmit(p) \/ ExecuteMarkSubmitted(p) \/ ExecuteWait(p) \/
         ExecuteProtect(p) \/ ExecuteFail(p)
  BY <1>2 DEF ExecuteSubmit, ExecuteMarkSubmitted, ExecuteWait, ExecuteProtect,
    ExecuteFail, TypeOK, TasksTyped, Entering
<1>3. CASE FailsafeCancel(p) \/ FailsafeClose(p) \/ FailsafeFlat(p) \/
         FailsafeSettle(p)
  BY <1>3 DEF FailsafeCancel, FailsafeClose, FailsafeFlat, FailsafeSettle, Unrecovered,
    TypeOK, TasksTyped, Entering
<1>4. CASE CloseBegin(p) \/ CloseSend(p) \/ CloseFlat(p) \/ Finalize(p)
  BY <1>4 DEF CloseBegin, CloseSend, CloseFlat, Finalize, Unrecovered, TypeOK,
    TasksTyped, Entering
<1>5. CASE NextRow(p)
  BY <1>5 DEF NextRow, TakeRow, TypeOK, TasksTyped, Entering
<1>6. CASE ReconcileUnsettled(p) \/ ReconcileFlat(p) \/ ReconcileActive(p)
  BY <1>6 DEF ReconcileUnsettled, ReconcileFlat, ReconcileActive, Unrecovered, Abort,
    TypeOK, TasksTyped, Entering
<1>7. CASE RecoverOpening(p) \/ RecoverProtect(p) \/ RecoverAbsent(p)
  BY <1>7 DEF RecoverOpening, RecoverProtect, RecoverAbsent, Unrecovered, Abort, TypeOK,
    TasksTyped, Entering
<1>8. CASE ExecuteCheck(p)
  BY <1>8 DEF ExecuteCheck, Accepted, TypeOK, TasksTyped, Entering
<1>9. CASE ExecuteRoom(p)
  <2>1. pc'[p] \in {"E_create", "release"} /\ (pc'[p] = "E_create" => HasRoom(job[p]))
    BY <1>9 DEF ExecuteRoom, TypeOK, TasksTyped
  <2>2. status[job[p]] = Absent
    BY <1>9 DEF ExecuteRoom, EntryInv, Entering
  <2> QED BY <1>9, <2>1, <2>2 DEF ExecuteRoom, HasRoom, Managed, InSymbol, Entering
<1>10. CASE ExecuteCreate(p)
  <2>1. job[p] \in Signals /\ job'[p] = job[p] /\ pc'[p] = "E_submit"
    BY <1>10 DEF ExecuteCreate, LockInv, Busy, SymbolHeld, Executing, Submitting,
      Recovering, Closing, Opening, TypeOK, TasksTyped
  <2>2. status[job[p]] = Absent
    BY <1>10 DEF ExecuteCreate, EntryInv, Entering
  <2>3. status'[job[p]] = "OPENING"
    BY <1>10, <2>1 DEF ExecuteCreate, TypeOK, RowsTyped
  <2>4. ord'[job[p]] = "none"
    BY <1>10, <2>1, <2>2 DEF ExecuteCreate, RowInv, OrderInv
  <2>5. \A u \in Signals : rowid'[u] = IF u = job[p] THEN lastId + 1 ELSE rowid[u]
    BY <1>10, <2>1 DEF ExecuteCreate, TypeOK, RowsTyped
  <2>6. \A u \in Signals : rowid'[u] <= lastId + 1
    BY <2>5 DEF RowInv, TypeOK, RowsTyped
  <2> QED BY <2>1, <2>3, <2>4, <2>5, <2>6 DEF Entering, InSymbol
<1>11. CASE p = Ops /\ CloseEverything
  BY <1>11 DEF CloseEverything, EmergencyLock, CloseAllRows, CloseAllNext, TypeOK,
    TasksTyped, Entering
<1> QED BY <1>1, <1>2, <1>3, <1>4, <1>5, <1>6, <1>7, <1>8, <1>9, <1>10, <1>11 DEF
  Continue, Execute, Failsafe, CloseTrade, Reconcile

\* Every step keeps EntryInv.
LEMMA EntryStep ==
  ASSUME TypeOK, LockInv, RowInv, OrderInv, EntryInv, Next
  PROVE  EntryInv'
<1> USE ConstantsAssumption
<1>1. \A p \in Procs : Entering(p)
  BY DEF EntryInv
<1>2. SUFFICES \A p \in Procs : Entering(p)'
  BY DEF EntryInv, Entering
<1>3. ASSUME NEW p \in Procs, Continue(p), NEW q \in Procs PROVE Entering(q)'
  <2>1. CASE q = p
    BY <1>3, <2>1, EntryOfMover
  <2>2. CASE q # p /\ pc[q] \in Submitting
    <3>1. pc'[q] = pc[q] /\ job'[q] = job[q] /\ job[q] \in Signals /\ pc[q] \in SymbolHeld
      BY <1>3, <2>2, OthersStay DEF LockInv, Busy, SymbolHeld, Executing
    <3>2. \A u \in InSymbol(SymbolOf[job[q]]) :
            status'[u] = status[u] /\ rowid'[u] = rowid[u] /\ ord'[u] = ord[u]
      BY <1>3, <2>2, <3>1, OwnSymbol, Apart DEF InSymbol
    <3> QED BY <1>1, <3>1, <3>2 DEF Entering, Managed, InSymbol
  <2>3. CASE q # p /\ pc[q] \notin Submitting
    <3>1. pc'[q] \notin Submitting
      BY <1>3, <2>3, OthersStay
    <3> QED BY <3>1 DEF Entering, Submitting
  <2> QED BY <2>1, <2>2, <2>3
<1>4. CASE Request
  <2>1. \A q \in Procs : pc'[q] \in Submitting => pc'[q] = pc[q] /\ job'[q] = job[q]
    BY <1>4 DEF Request, DeliverExecute, RequestClose, Pause, Resume, CloseAll,
      EmergencyStop, hand, Goto, Procs, Submitting, TypeOK, TasksTyped
  <2>2. UNCHANGED <<status, book, exch>>
    BY <1>4 DEF Request, DeliverExecute, RequestClose, Pause, Resume, CloseAll,
      EmergencyStop
  <2> QED BY <1>1, <2>1, <2>2 DEF Entering, Managed, InSymbol, Submitting, book, exch
<1>5. CASE Exchange
  <2>1. /\ UNCHANGED <<status, book, pc, job>>
        /\ \A t \in Signals : ord[t] = "none" => ord'[t] = "none"
    BY <1>5 DEF Exchange, FillEntry, DropEntry, ExitPosition, hand, TypeOK, AccountTyped
  <2>2. \A q \in Procs : pc[q] = "E_submit" => job[q] \in Signals
    BY DEF LockInv, Busy, SymbolHeld, Executing, Submitting
  <2> QED BY <1>1, <2>1, <2>2 DEF Entering, Managed, InSymbol, book
<1>6. CASE Crash
  BY <1>6 DEF Crash, Entering
<1>7. CASE \E p \in Reconcilers : ReadRows(p)
  <2>1. \A q \in Procs : pc'[q] \in Submitting => pc'[q] = pc[q] /\ job'[q] = job[q]
    BY <1>7 DEF ReadRows, TakeRow, Goto, Procs, Submitting, TypeOK, TasksTyped
  <2>2. UNCHANGED <<status, book, exch>>
    BY <1>7 DEF ReadRows
  <2> QED BY <1>1, <2>1, <2>2 DEF Entering, Managed, InSymbol, Submitting, book, exch
<1> QED BY <1>3, <1>4, <1>5, <1>6, <1>7 DEF Next

\* How a coroutine moves the orders: by the one submission, or by a cancel.
LEMMA OrderMoveOf ==
  ASSUME TypeOK, LockInv, NEW p \in Procs, Continue(p), NEW t \in Signals
  PROVE  \/ ord'[t] = ord[t]
         \/ pc[p] = "E_submit" /\ job[p] = t /\ ord'[t] = "inflight" /\ status' = status
         \/ ord[t] = "inflight" /\ ord'[t] = "cancelled"
<1> USE ConstantsAssumption DEF Goto, Mark, Fault, NoFault, book, fills, exch, locks,
  hand, bounds, hist
<1>1. CASE LockEntry(p) \/ LockSymbol(p) \/ ExecuteCheck(p) \/ ExecuteRoom(p) \/
         ExecuteCreate(p) \/ ExecuteMarkSubmitted(p) \/ ExecuteWait(p) \/
         ExecuteProtect(p) \/ ExecuteFail(p)
  BY <1>1 DEF LockEntry, LockSymbol, ExecuteCheck, ExecuteRoom, ExecuteCreate,
    ExecuteMarkSubmitted, ExecuteWait, ExecuteProtect, ExecuteFail, TypeOK,
    AccountTyped, CancelEntry
<1>2. CASE ExecuteSubmit(p)
  BY <1>2 DEF ExecuteSubmit, TypeOK, AccountTyped, CancelEntry
<1>3. CASE FailsafeCancel(p) \/ FailsafeFlat(p) \/ CloseSend(p) \/ CloseFlat(p) \/
         ReconcileActive(p)
  BY <1>3 DEF FailsafeCancel, FailsafeFlat, CloseSend, CloseFlat, ReconcileActive,
    TypeOK, AccountTyped, CancelEntry
<1>4. CASE FailsafeClose(p) \/ FailsafeSettle(p) \/ CloseBegin(p) \/ Finalize(p)
         \/ NextRow(p) \/ Release(p)
  BY <1>4 DEF FailsafeClose, FailsafeSettle, CloseBegin, Finalize, NextRow, Release,
    TypeOK, AccountTyped, CancelEntry
<1>5. CASE ReconcileUnsettled(p) \/ ReconcileFlat(p) \/ RecoverOpening(p) \/
         RecoverProtect(p) \/ RecoverAbsent(p)
  BY <1>5 DEF ReconcileUnsettled, ReconcileFlat, RecoverOpening, RecoverProtect,
    RecoverAbsent, TypeOK, AccountTyped, CancelEntry
<1>6. CASE p = Ops /\ CloseEverything
  BY <1>6 DEF CloseEverything, EmergencyLock, CloseAllRows, CloseAllNext, TypeOK,
    AccountTyped, CancelEntry
<1> QED BY <1>1, <1>2, <1>3, <1>4, <1>5, <1>6 DEF Continue, Execute, Failsafe,
  CloseTrade, Reconcile

\* How the order of an entry moves.
LEMMA OrderMoves ==
  ASSUME TypeOK, LockInv, EntryInv, Next, NEW t \in Signals
  PROVE  \/ ord'[t] = ord[t]
         \/ /\ ord[t] = "none" /\ ord'[t] = "inflight" /\ status' = status
            /\ \E p \in Procs : pc[p] = "E_submit" /\ job[p] = t
         \/ ord[t] = "inflight" /\ ord'[t] \in {"filled", "cancelled"}
<1>1. ASSUME NEW p \in Procs, Continue(p)
      PROVE  \/ ord'[t] = ord[t]
             \/ /\ ord[t] = "none" /\ ord'[t] = "inflight" /\ status' = status
                /\ pc[p] = "E_submit" /\ job[p] = t
             \/ ord[t] = "inflight" /\ ord'[t] \in {"filled", "cancelled"}
  <2>1. pc[p] = "E_submit" /\ job[p] = t => ord[t] = "none"
    BY DEF EntryInv, Entering
  <2> QED BY <1>1, <2>1, OrderMoveOf
<1>2. CASE Exchange
  BY <1>2 DEF Exchange, FillEntry, DropEntry, ExitPosition, TypeOK, AccountTyped
<1>3. CASE Request \/ Crash \/ \E p \in Reconcilers : ReadRows(p)
  <2>1. UNCHANGED exch
    BY <1>3 DEF Request, DeliverExecute, RequestClose, Pause, Resume, CloseAll,
      EmergencyStop, Crash, ReadRows
  <2> QED BY <2>1 DEF exch
<1> QED BY <1>1, <1>2, <1>3 DEF Next

\* How a coroutine adds a row.
LEMMA RowMoveOf ==
  ASSUME TypeOK, LockInv, NEW p \in Procs, Continue(p)
  PROVE  \/ UNCHANGED book
         \/ /\ pc[p] = "E_create" /\ rowid' = [rowid EXCEPT ![job[p]] = lastId + 1]
            /\ UNCHANGED <<ord, pos, exitTo>>
<1> USE ConstantsAssumption DEF Goto, Mark, Fault, NoFault, book, fills, exch, locks,
  hand, bounds, hist
<1>1. CASE LockEntry(p) \/ LockSymbol(p) \/ ExecuteCheck(p) \/ ExecuteRoom(p) \/
         ExecuteCreate(p) \/ ExecuteSubmit(p) \/ ExecuteMarkSubmitted(p) \/
         ExecuteWait(p) \/ ExecuteProtect(p) \/ ExecuteFail(p)
  BY <1>1 DEF LockEntry, LockSymbol, ExecuteCheck, ExecuteRoom, ExecuteCreate,
    ExecuteSubmit, ExecuteMarkSubmitted, ExecuteWait, ExecuteProtect, ExecuteFail
<1>2. CASE FailsafeCancel(p) \/ FailsafeClose(p) \/ FailsafeFlat(p) \/
         FailsafeSettle(p) \/ CloseBegin(p) \/ CloseSend(p) \/ CloseFlat(p) \/
         Finalize(p) \/ NextRow(p) \/ Release(p)
  BY <1>2 DEF FailsafeCancel, FailsafeClose, FailsafeFlat, FailsafeSettle, CloseBegin,
    CloseSend, CloseFlat, Finalize, NextRow, Release
<1>3. CASE ReconcileUnsettled(p) \/ ReconcileFlat(p) \/ ReconcileActive(p) \/
         RecoverOpening(p) \/ RecoverProtect(p) \/ RecoverAbsent(p)
  BY <1>3 DEF ReconcileUnsettled, ReconcileFlat, ReconcileActive, RecoverOpening,
    RecoverProtect, RecoverAbsent
<1>4. CASE p = Ops /\ CloseEverything
  BY <1>4 DEF CloseEverything, EmergencyLock, CloseAllRows, CloseAllNext
<1> QED BY <1>1, <1>2, <1>3, <1>4 DEF Continue, Execute, Failsafe, CloseTrade, Reconcile

\* How the rows grow: by one new row, on a symbol none of whose rows is managed.
LEMMA RowMoves ==
  ASSUME TypeOK, LockInv, EntryInv, Next
  PROVE  \/ UNCHANGED book
         \/ \E w \in Signals :
              /\ status[w] = Absent /\ Managed(SymbolOf[w]) = {}
              /\ \A t \in Signals : rowid'[t] = IF t = w THEN lastId + 1 ELSE rowid[t]
              /\ UNCHANGED <<ord, pos, exitTo>>
<1>1. ASSUME NEW p \in Procs, Continue(p), ~UNCHANGED book
      PROVE  \E w \in Signals :
               /\ status[w] = Absent /\ Managed(SymbolOf[w]) = {}
               /\ \A t \in Signals : rowid'[t] = IF t = w THEN lastId + 1 ELSE rowid[t]
               /\ UNCHANGED <<ord, pos, exitTo>>
  <2>1. /\ pc[p] = "E_create" /\ rowid' = [rowid EXCEPT ![job[p]] = lastId + 1]
        /\ UNCHANGED <<ord, pos, exitTo>>
    BY <1>1, RowMoveOf
  <2>2. job[p] \in Signals
    BY <2>1 DEF LockInv, Busy, SymbolHeld, Executing, Submitting
  <2>3. status[job[p]] = Absent /\ Managed(SymbolOf[job[p]]) = {}
    BY <2>1 DEF EntryInv, Entering
  <2>4. \A t \in Signals : rowid'[t] = IF t = job[p] THEN lastId + 1 ELSE rowid[t]
    BY <2>1, <2>2 DEF TypeOK, RowsTyped
  <2> QED BY <2>1, <2>2, <2>3, <2>4
<1>2. CASE Exchange
  BY <1>2 DEF Exchange, FillEntry, DropEntry, ExitPosition
<1>3. CASE Request \/ Crash \/ \E p \in Reconcilers : ReadRows(p)
  BY <1>3 DEF Request, DeliverExecute, RequestClose, Pause, Resume, CloseAll,
    EmergencyStop, Crash, ReadRows
<1> QED BY <1>1, <1>2, <1>3 DEF Next

\* A coroutine moves no position: it can only ask the exchange.
LEMMA PositionsStay ==
  ASSUME NEW p \in Procs, Continue(p)
  PROVE  pos' = pos
<1> USE ConstantsAssumption DEF Goto, Mark, Fault, NoFault, book, fills, exch, locks,
  hand, bounds, hist
<1>1. CASE LockEntry(p) \/ LockSymbol(p) \/ ExecuteCheck(p) \/ ExecuteRoom(p) \/
         ExecuteCreate(p) \/ ExecuteSubmit(p) \/ ExecuteMarkSubmitted(p) \/
         ExecuteWait(p) \/ ExecuteProtect(p) \/ ExecuteFail(p)
  BY <1>1 DEF LockEntry, LockSymbol, ExecuteCheck, ExecuteRoom, ExecuteCreate,
    ExecuteSubmit, ExecuteMarkSubmitted, ExecuteWait, ExecuteProtect, ExecuteFail
<1>2. CASE FailsafeCancel(p) \/ FailsafeClose(p) \/ FailsafeFlat(p) \/
         FailsafeSettle(p) \/ CloseBegin(p) \/ CloseSend(p) \/ CloseFlat(p) \/
         Finalize(p) \/ NextRow(p) \/ Release(p)
  BY <1>2 DEF FailsafeCancel, FailsafeClose, FailsafeFlat, FailsafeSettle, CloseBegin,
    CloseSend, CloseFlat, Finalize, NextRow, Release
<1>3. CASE ReconcileUnsettled(p) \/ ReconcileFlat(p) \/ ReconcileActive(p) \/
         RecoverOpening(p) \/ RecoverProtect(p) \/ RecoverAbsent(p)
  BY <1>3 DEF ReconcileUnsettled, ReconcileFlat, ReconcileActive, RecoverOpening,
    RecoverProtect, RecoverAbsent
<1>4. CASE p = Ops /\ CloseEverything
  BY <1>4 DEF CloseEverything, EmergencyLock, CloseAllRows, CloseAllNext
<1> QED BY <1>1, <1>2, <1>3, <1>4 DEF Continue, Execute, Failsafe, CloseTrade, Reconcile

\* How the positions move: one fills, or those of a symbol are gone.
LEMMA PositionMoves ==
  ASSUME TypeOK, Next, NEW t \in Signals
  PROVE  \/ t \in pos'[SymbolOf[t]] <=> t \in pos[SymbolOf[t]]
         \/ ord[t] = "inflight" /\ ord'[t] = "filled"
         \/ ord'[t] = ord[t] /\ t \notin pos'[SymbolOf[t]]
<1> USE ConstantsAssumption
<1>1. ASSUME NEW u \in Signals, FillEntry(u)
      PROVE  \/ t \in pos'[SymbolOf[t]] <=> t \in pos[SymbolOf[t]]
             \/ ord[t] = "inflight" /\ ord'[t] = "filled"
  BY <1>1 DEF FillEntry, TypeOK, AccountTyped
<1>2. CASE \E u \in Signals : DropEntry(u)
  BY <1>2 DEF DropEntry
<1>3. ASSUME NEW s \in Symbols, ExitPosition(s)
      PROVE  \/ t \in pos'[SymbolOf[t]] <=> t \in pos[SymbolOf[t]]
             \/ ord'[t] = ord[t] /\ t \notin pos'[SymbolOf[t]]
  BY <1>3 DEF ExitPosition, TypeOK, AccountTyped
<1>4. CASE Request \/ Crash \/ \E p \in Reconcilers : ReadRows(p)
  <2>1. UNCHANGED exch
    BY <1>4 DEF Request, DeliverExecute, RequestClose, Pause, Resume, CloseAll,
      EmergencyStop, Crash, ReadRows
  <2> QED BY <2>1 DEF exch
<1>5. CASE \E p \in Procs : Continue(p)
  BY <1>5, PositionsStay
<1> QED BY <1>1, <1>2, <1>3, <1>4, <1>5 DEF Next, Exchange

\* What the execution listing books, and to which trade.
LEMMA SyncBooks ==
  ASSUME TypeOK, NEW t \in Signals, SyncFills(t), NEW u \in Signals
  PROVE  /\ entryFill'[u] = entryFill[u] \/ (entryFill'[u] => ord[u] = "filled")
         /\ \/ exitTo'[u] = exitTo[u]
            \/ /\ exitTo[u] = None /\ exitTo'[u] = t
               /\ SymbolOf[u] = SymbolOf[t] /\ rowid[u] >= rowid[t] /\ Exited(u)
BY DEF SyncFills, TypeOK, RowsTyped

\* A coroutine writes fills only for the row it works on.
LEMMA FillMoveOf ==
  ASSUME TypeOK, LockInv, NEW p \in Procs, Continue(p)
  PROVE  \/ UNCHANGED fills
         \/ /\ pc[p] \in HasRow /\ job[p] \in Signals
            /\ SyncFills(job[p]) /\ UNCHANGED <<book, pos>>
<1> USE ConstantsAssumption DEF Goto, Mark, Fault, NoFault, book, fills, exch, locks,
  hand, bounds, hist
<1>1. CASE LockEntry(p) \/ LockSymbol(p) \/ ExecuteCheck(p) \/ ExecuteRoom(p) \/
         ExecuteCreate(p) \/ ExecuteSubmit(p) \/ ExecuteMarkSubmitted(p) \/
         ExecuteWait(p) \/ ExecuteProtect(p) \/ ExecuteFail(p)
  BY <1>1 DEF LockEntry, LockSymbol, ExecuteCheck, ExecuteRoom, ExecuteCreate,
    ExecuteSubmit, ExecuteMarkSubmitted, ExecuteWait, ExecuteProtect, ExecuteFail,
    LockInv, Busy, HasRow, TrySync, SymbolHeld, Executing, Submitting, Recovering,
    Closing, Opening
<1>2. CASE FailsafeCancel(p) \/ FailsafeClose(p) \/ FailsafeFlat(p) \/
         CloseBegin(p) \/ CloseSend(p) \/ CloseFlat(p) \/ NextRow(p) \/
         Release(p)
  BY <1>2 DEF FailsafeCancel, FailsafeClose, FailsafeFlat, CloseBegin, CloseSend,
    CloseFlat, NextRow, Release, LockInv, Busy, HasRow, TrySync, SymbolHeld, Executing,
    Submitting, Recovering, Closing, Opening
<1>3. CASE ReconcileUnsettled(p) \/ ReconcileFlat(p) \/ RecoverProtect(p)
  BY <1>3 DEF ReconcileUnsettled, ReconcileFlat, RecoverProtect, LockInv, Busy, HasRow,
    TrySync, SymbolHeld, Executing, Submitting, Recovering, Closing, Opening
<1>4. CASE FailsafeSettle(p) \/ Finalize(p)
  BY <1>4 DEF FailsafeSettle, Finalize, LockInv, Busy, HasRow, TrySync, SymbolHeld,
    Executing, Submitting, Recovering, Closing, Opening
<1>5. CASE ReconcileActive(p) \/ RecoverOpening(p) \/ RecoverAbsent(p)
  BY <1>5 DEF ReconcileActive, RecoverOpening, RecoverAbsent, LockInv, Busy, HasRow,
    TrySync, SymbolHeld, Executing, Submitting, Recovering, Closing, Opening
<1>6. CASE p = Ops /\ CloseEverything
  BY <1>6 DEF CloseEverything, EmergencyLock, CloseAllRows, CloseAllNext, LockInv, Busy,
    HasRow, TrySync, SymbolHeld, Executing, Submitting, Recovering, Closing, Opening
<1> QED BY <1>1, <1>2, <1>3, <1>4, <1>5, <1>6 DEF Continue, Execute, Failsafe,
  CloseTrade, Reconcile

\* How the fills grow.
LEMMA FillMoves ==
  ASSUME TypeOK, LockInv, RowInv, Next
  PROVE  \/ UNCHANGED fills
         \/ \E t \in Signals : rowid[t] # 0 /\ SyncFills(t) /\ UNCHANGED <<book, pos>>
<1>1. ASSUME NEW p \in Procs, Continue(p)
      PROVE  \/ UNCHANGED fills
             \/ \E t \in Signals : rowid[t] # 0 /\ SyncFills(t) /\ UNCHANGED <<book, pos>>
  BY <1>1, FillMoveOf DEF RowInv
<1>2. CASE Exchange
  BY <1>2 DEF Exchange, FillEntry, DropEntry, ExitPosition
<1>3. CASE Request \/ Crash \/ \E p \in Reconcilers : ReadRows(p)
  BY <1>3 DEF Request, DeliverExecute, RequestClose, Pause, Resume, CloseAll,
    EmergencyStop, Crash, ReadRows
<1> QED BY <1>1, <1>2, <1>3 DEF Next

\* What the coroutine that moves saw of its order holds after the step.
LEMMA SeeingOfMover ==
  ASSUME TypeOK, LockInv, EntryInv, OrderInv, NEW p \in Procs, Continue(p)
  PROVE  Seeing(p)'
<1> USE ConstantsAssumption DEF Goto, Mark, Fault, NoFault, book, fills, exch, locks,
  hand, bounds, hist
<1>1. CASE LockEntry(p) \/ LockSymbol(p) \/ ExecuteCheck(p) \/ ExecuteRoom(p) \/
         ExecuteCreate(p) \/ ExecuteSubmit(p)
  BY <1>1 DEF LockEntry, LockSymbol, ExecuteCheck, ExecuteRoom, ExecuteCreate,
    ExecuteSubmit, TypeOK, TasksTyped, Seeing
<1>2. CASE ExecuteMarkSubmitted(p) \/ ExecuteWait(p) \/ ExecuteProtect(p) \/
         ExecuteFail(p)
  BY <1>2 DEF ExecuteMarkSubmitted, ExecuteWait, ExecuteProtect, ExecuteFail, TypeOK,
    TasksTyped, Seeing
<1>3. CASE CloseBegin(p) \/ CloseSend(p) \/ CloseFlat(p) \/ Finalize(p) \/
         NextRow(p) \/ Release(p)
  BY <1>3 DEF CloseBegin, CloseSend, CloseFlat, Finalize, NextRow, Release, TakeRow,
    Unrecovered, TypeOK, TasksTyped, Seeing
<1>4. CASE FailsafeSettle(p)
  BY <1>4 DEF FailsafeSettle, Unrecovered, TypeOK, TasksTyped, Seeing
<1>5. CASE ReconcileUnsettled(p) \/ ReconcileFlat(p) \/ ReconcileActive(p) \/
         RecoverProtect(p) \/ RecoverAbsent(p)
  BY <1>5 DEF ReconcileUnsettled, ReconcileFlat, ReconcileActive, RecoverProtect,
    RecoverAbsent, Unrecovered, Abort, TypeOK, TasksTyped, Seeing
<1>6. CASE FailsafeCancel(p)
  <2>1. job[p] \in Signals
    BY <1>6 DEF FailsafeCancel, LockInv, Busy, SymbolHeld, Executing, Submitting,
      Recovering, Closing, Opening
  <2> QED BY <1>6, <2>1 DEF FailsafeCancel, CancelEntry, CancelAnswered, Seeing, TypeOK,
    TasksTyped, AccountTyped
<1>7. CASE FailsafeClose(p)
  BY <1>7 DEF FailsafeClose, Unrecovered, OrderInv, Seeing, TypeOK, TasksTyped
<1>8. CASE FailsafeFlat(p)
  <2>1. job[p] \in Signals
    BY <1>8 DEF FailsafeFlat, LockInv, Busy, SymbolHeld, Executing, Submitting,
      Recovering, Closing, Opening
  <2> QED BY <1>8, <2>1 DEF FailsafeFlat, CancelEntry, Unrecovered, OrderInv, Seeing,
    TypeOK, TasksTyped, AccountTyped
<1>9. CASE RecoverOpening(p)
  <2>1. pc'[p] = "O_poll" => seen'[p] = ord[job[p]] /\ ord[job[p]] # "inflight"
    BY <1>9 DEF RecoverOpening, Abort, TypeOK, TasksTyped
  <2>2. ord' = ord /\ job' = job /\ pc'[p] \in {"O_poll", "O_protect", "finalize", "release"}
    BY <1>9 DEF RecoverOpening, Abort, TypeOK, TasksTyped
  <2> QED BY <2>1, <2>2 DEF Seeing
<1>10. CASE p = Ops /\ CloseEverything
  BY <1>10 DEF CloseEverything, EmergencyLock, CloseAllRows, CloseAllNext, TypeOK,
    TasksTyped, Seeing
<1> QED BY <1>1, <1>2, <1>3, <1>4, <1>5, <1>6, <1>7, <1>8, <1>9, <1>10 DEF Continue,
  Execute, Failsafe, CloseTrade, Reconcile

\* Every step keeps OrderInv.
LEMMA OrderStep ==
  ASSUME TypeOK, LockInv, RowInv, EntryInv, OrderInv, Next
  PROVE  OrderInv'
<1> USE ConstantsAssumption
<1>1. ASSUME NEW t \in Signals, rowid'[t] = 0 PROVE ord'[t] = "none"
  <2>1. rowid[t] = 0
    BY <1>1, RowMoves DEF book, TypeOK, RowsTyped
  <2>2. ASSUME NEW p \in Procs, pc[p] = "E_submit" PROVE job[p] # t
    BY <2>1, <2>2 DEF RowInv, HasRow
  <2> QED BY <2>1, <2>2, OrderMoves DEF OrderInv
<1>2. ASSUME NEW s \in Symbols, NEW t \in pos'[s]
      PROVE  SymbolOf[t] = s /\ ord'[t] = "filled"
  <2>1. \/ t \in pos[s]
        \/ t \in Signals /\ SymbolOf[t] = s /\ ord'[t] = "filled"
    <3>1. CASE Exchange
      BY <1>2, <3>1 DEF Exchange, FillEntry, DropEntry, ExitPosition, TypeOK,
        AccountTyped
    <3>2. CASE Request \/ Crash \/ \E p \in Reconcilers : ReadRows(p)
      BY <1>2, <3>2 DEF Request, DeliverExecute, RequestClose, Pause, Resume, CloseAll,
        EmergencyStop, Crash, ReadRows, exch
    <3>3. CASE \E p \in Procs : Continue(p)
      BY <1>2, <3>3, PositionsStay
    <3> QED BY <3>1, <3>2, <3>3 DEF Next
  <2>2. t \in pos[s] => t \in Signals
    BY DEF TypeOK, AccountTyped
  <2> QED BY <2>1, <2>2, OrderMoves DEF OrderInv
<1>3. ASSUME NEW t \in Signals, entryFill'[t] PROVE ord'[t] = "filled"
  <2>1. ord[t] = "filled"
    BY <1>3, FillMoves, SyncBooks DEF fills, OrderInv
  <2> QED BY <2>1, OrderMoves
<1>4. ASSUME NEW p \in Procs, Continue(p), NEW q \in Procs PROVE Seeing(q)'
  <2>1. CASE q = p
    BY <1>4, <2>1, SeeingOfMover
  <2>2. CASE q # p /\ pc[q] \in {"F_close", "F_flat", "F_settle", "O_poll"}
    <3>1. /\ pc'[q] = pc[q] /\ job'[q] = job[q] /\ seen'[q] = seen[q]
          /\ job[q] \in Signals /\ pc[q] \in SymbolHeld
      BY <1>4, <2>2, OthersStay DEF LockInv, Busy, SymbolHeld, Recovering, Opening
    <3>2. ord'[job[q]] = ord[job[q]]
      BY <1>4, <2>2, <3>1, OwnSymbol, Apart
    <3> QED BY <3>1, <3>2 DEF OrderInv, Seeing
  <2>3. CASE q # p /\ pc[q] \notin {"F_close", "F_flat", "F_settle", "O_poll"}
    BY <1>4, <2>3, OthersStay DEF Seeing
  <2> QED BY <2>1, <2>2, <2>3
<1>5. ASSUME Exchange, NEW q \in Procs PROVE Seeing(q)'
  <2>1. UNCHANGED <<pc, job, seen>>
    BY <1>5 DEF Exchange, FillEntry, DropEntry, ExitPosition, hand
  <2>2. \A t \in Signals : ord'[t] = ord[t] \/ ord[t] = "inflight"
    BY <1>5 DEF Exchange, FillEntry, DropEntry, ExitPosition, TypeOK, AccountTyped
  <2>3. pc[q] \in {"F_close", "F_flat", "F_settle", "O_poll"} => job[q] \in Signals
    BY DEF LockInv, Busy, SymbolHeld, Recovering, Opening
  <2> QED BY <2>1, <2>2, <2>3 DEF OrderInv, Seeing
<1>6. ASSUME Request \/ Crash \/ \E p \in Reconcilers : ReadRows(p), NEW q \in Procs
      PROVE  Seeing(q)'
  <2>1. pc'[q] \in {"F_close", "F_flat", "F_settle", "O_poll"}
          => pc'[q] = pc[q] /\ job'[q] = job[q] /\ seen'[q] = seen[q]
    BY <1>6 DEF Request, DeliverExecute, RequestClose, Pause, Resume, CloseAll,
      EmergencyStop, Crash, ReadRows, TakeRow, hand, Goto, Procs, TypeOK, TasksTyped
  <2>2. ord' = ord
    BY <1>6 DEF Request, DeliverExecute, RequestClose, Pause, Resume, CloseAll,
      EmergencyStop, Crash, ReadRows, exch
  <2> QED BY <2>1, <2>2 DEF OrderInv, Seeing
<1> QED BY <1>1, <1>2, <1>3, <1>4, <1>5, <1>6 DEF OrderInv, Next

\* An exit seen stays one.
LEMMA ExitStays ==
  ASSUME TypeOK, LockInv, EntryInv, Next, NEW u \in Signals, Exited(u)
  PROVE  Exited(u)'
BY OrderMoves, PositionMoves DEF Exited

\* Every step keeps BookedInv.
LEMMA BookedStep ==
  ASSUME TypeOK, LockInv, RowInv, EntryInv, BookedInv, Next
  PROVE  BookedInv'
<1> SUFFICES ASSUME NEW u \in Signals, exitTo'[u] # None
             PROVE  /\ Exited(u)' /\ SymbolOf[u] = SymbolOf[exitTo'[u]]
                    /\ rowid'[exitTo'[u]] # 0 /\ rowid'[exitTo'[u]] <= rowid'[u]
  BY DEF BookedInv
<1> USE ConstantsAssumption
<1>1. CASE exitTo'[u] = exitTo[u]
  <2> DEFINE t == exitTo[u]
  <2>1. /\ t \in Signals /\ Exited(u) /\ SymbolOf[u] = SymbolOf[t]
        /\ rowid[t] # 0 /\ rowid[t] <= rowid[u]
    BY <1>1 DEF BookedInv, TypeOK, RowsTyped
  <2>2. rowid[u] # 0
    BY <2>1 DEF TypeOK, RowsTyped
  <2>3. rowid'[u] = rowid[u] /\ rowid'[t] = rowid[t]
    BY <2>1, <2>2, RowMoves DEF book, RowInv
  <2> QED BY <1>1, <2>1, <2>3, ExitStays
<1>2. CASE exitTo'[u] # exitTo[u]
  <2>1. PICK t \in Signals : rowid[t] # 0 /\ SyncFills(t) /\ UNCHANGED <<book, pos>>
    BY <1>2, FillMoves DEF fills
  <2>2. exitTo'[u] = t /\ SymbolOf[u] = SymbolOf[t] /\ rowid[u] >= rowid[t] /\ Exited(u)
    BY <1>2, <2>1, SyncBooks
  <2> QED BY <2>1, <2>2, ExitStays DEF book, TypeOK, RowsTyped
<1> QED BY <1>1, <1>2

\* What is booked stays booked.
LEMMA BookedStays ==
  ASSUME TypeOK, LockInv, RowInv, Next, NEW u \in Signals, exitTo[u] # None
  PROVE  exitTo'[u] = exitTo[u]
BY FillMoves, SyncBooks DEF fills

\* Every step keeps NewerInv.
LEMMA NewerStep ==
  ASSUME TypeOK, LockInv, RowInv, EntryInv, NewerInv, ExposureIsManaged,
         ErrorFlatNeverFilled, ClosedHasOwnExit, Next
  PROVE  NewerInv'
<1> USE ConstantsAssumption
<1> SUFFICES ASSUME NEW t \in Signals, NEW u \in Signals, SymbolOf[t] = SymbolOf[u],
                    rowid'[t] # 0, rowid'[t] < rowid'[u]
             PROVE  ord'[t] # "inflight" /\ (ord'[t] = "filled" => exitTo'[t] = t)
  BY DEF NewerInv
<1>1. CASE UNCHANGED book
  <2>1. rowid[t] # 0 /\ rowid[t] < rowid[u]
    BY <1>1 DEF book
  <2>2. ord[t] # "inflight" /\ (ord[t] = "filled" => exitTo[t] = t)
    BY <2>1 DEF NewerInv
  <2>3. ASSUME NEW p \in Procs, pc[p] = "E_submit" PROVE job[p] # t
    <3>1. job[p] = t => rowid[u] <= rowid[t]
      BY <2>3 DEF EntryInv, Entering, InSymbol
    <3> QED BY <2>1, <3>1 DEF TypeOK, RowsTyped
  <2>4. ord'[t] = ord[t]
    BY <2>2, <2>3, OrderMoves
  <2> QED BY <2>2, <2>4, BookedStays
<1>2. ASSUME NEW w \in Signals,
             status[w] = Absent, Managed(SymbolOf[w]) = {},
             \A x \in Signals : rowid'[x] = IF x = w THEN lastId + 1 ELSE rowid[x],
             UNCHANGED <<ord, pos, exitTo>>
      PROVE  ord'[t] # "inflight" /\ (ord'[t] = "filled" => exitTo'[t] = t)
  <2>1. t # w
    BY <1>2 DEF RowInv, TypeOK, RowsTyped
  <2>2. CASE u = w
    <3>1. rowid[t] # 0 /\ status[t] # Absent
      BY <1>2, <2>1 DEF RowInv
    <3>2. status[t] \in {"CLOSED", "ERROR_FLAT"}
      BY <1>2, <2>2, <3>1 DEF Managed, InSymbol, TypeOK, RowsTyped, Statuses
    <3>3. ~Exposed(t)
      BY <3>2 DEF ExposureIsManaged, Reconcilable, Live
    <3> QED BY <1>2, <3>2, <3>3 DEF ErrorFlatNeverFilled, ClosedHasOwnExit, Exposed
  <2>3. CASE u # w
    BY <1>2, <2>1, <2>3 DEF NewerInv
  <2> QED BY <2>2, <2>3
<1> QED BY <1>1, <1>2, RowMoves

\* How a coroutine moves the status of a trade.
LEMMA StatusMoveOf ==
  ASSUME TypeOK, LockInv, RowInv, EntryInv, OrderInv,
         NEW p \in Procs, Continue(p), NEW t \in Signals
  PROVE  \/ status'[t] = status[t] \/ status'[t] \in Reconcilable
         \/ /\ status'[t] = "ERROR_FLAT" /\ ord[t] \in {"none", "cancelled"}
            /\ ord' = ord
         \/ /\ status'[t] = "CLOSED" /\ rowid[t] # 0 /\ TrySync(t) /\ FillsComplete(t)
            /\ UNCHANGED <<book, exch>>
<1> USE ConstantsAssumption DEF Goto, Mark, Fault, NoFault, book, fills, exch, locks,
  hand, bounds, hist
<1>1. CASE LockEntry(p) \/ LockSymbol(p) \/ ExecuteCheck(p) \/ ExecuteRoom(p) \/
         NextRow(p) \/ Release(p)
  BY <1>1 DEF LockEntry, LockSymbol, ExecuteCheck, ExecuteRoom, NextRow, Release,
    TypeOK, RowsTyped, Reconcilable, Live
<1>2. CASE ExecuteCreate(p) \/ ExecuteMarkSubmitted(p) \/ ExecuteWait(p) \/
         ExecuteProtect(p) \/ ExecuteFail(p)
  BY <1>2 DEF ExecuteCreate, ExecuteMarkSubmitted, ExecuteWait, ExecuteProtect,
    ExecuteFail, TypeOK, RowsTyped, Reconcilable, Live
<1>3. CASE FailsafeCancel(p) \/ FailsafeClose(p) \/ FailsafeFlat(p)
  BY <1>3 DEF FailsafeCancel, FailsafeClose, FailsafeFlat, Unrecovered, TypeOK,
    RowsTyped, Reconcilable, Live
<1>4. CASE CloseBegin(p) \/ CloseSend(p) \/ CloseFlat(p)
  BY <1>4 DEF CloseBegin, CloseSend, CloseFlat, Unrecovered, TypeOK, RowsTyped,
    Reconcilable, Live
<1>5. CASE ReconcileUnsettled(p) \/ ReconcileFlat(p) \/ ReconcileActive(p) \/
         RecoverOpening(p) \/ RecoverProtect(p)
  BY <1>5 DEF ReconcileUnsettled, ReconcileFlat, ReconcileActive, RecoverOpening,
    RecoverProtect, Unrecovered, TypeOK, RowsTyped, Reconcilable, Live
<1>6. CASE ExecuteSubmit(p)
  BY <1>6 DEF ExecuteSubmit, EntryInv, Entering, TypeOK, RowsTyped
<1>7. CASE FailsafeSettle(p)
  <2>1. CASE /\ status'[t] # status[t] /\ NeverFilled(p)
            /\ TrySync(job[p]) /\ Mark(job[p], "ERROR_FLAT")
    <3>1. job[p] = t
      BY <2>1 DEF TypeOK, RowsTyped
    <3>2. ord[t] = "cancelled"
      BY <1>7, <2>1, <3>1 DEF FailsafeSettle, NeverFilled, OrderInv, Seeing
    <3>3. ord' = ord /\ status'[t] = "ERROR_FLAT"
      BY <1>7, <2>1, <3>1 DEF FailsafeSettle, TypeOK, RowsTyped
    <3> QED BY <3>2, <3>3
  <2>2. CASE Mark(job[p], "CLOSED_SYNCING") \/ Unrecovered(p)
    BY <2>2 DEF Unrecovered, TypeOK, RowsTyped, Reconcilable, Live
  <2> QED BY <1>7, <2>1, <2>2 DEF FailsafeSettle
<1>8. CASE Finalize(p)
  <2>1. rowid[job[p]] # 0 /\ UNCHANGED <<book, exch>> /\ TrySync(job[p])
    BY <1>8 DEF Finalize, RowInv, HasRow
  <2> QED BY <1>8, <2>1 DEF Finalize, TypeOK, RowsTyped, Reconcilable
<1>9. CASE RecoverAbsent(p)
  <2>1. CASE status'[t] # status[t] /\ ~EntryEvidence(p) /\ Mark(job[p], "ERROR_FLAT")
    <3>1. job[p] = t
      BY <2>1 DEF TypeOK, RowsTyped
    <3>2. seen[p] = ord[t] /\ ord[t] # "inflight" /\ seen[p] # "filled"
      BY <1>9, <2>1, <3>1 DEF RecoverAbsent, EntryEvidence, OrderInv, Seeing
    <3>3. ord' = ord /\ status'[t] = "ERROR_FLAT"
      BY <1>9, <2>1, <3>1 DEF RecoverAbsent, TypeOK, RowsTyped
    <3> QED BY <3>2, <3>3 DEF TypeOK, AccountTyped, OrderStates
  <2>2. CASE Mark(job[p], "CLOSED_SYNCING") \/ UNCHANGED status
    BY <2>2 DEF TypeOK, RowsTyped, Reconcilable, Live
  <2> QED BY <1>9, <2>1, <2>2 DEF RecoverAbsent
<1>10. CASE p = Ops /\ CloseEverything
  BY <1>10 DEF CloseEverything, EmergencyLock, CloseAllRows, CloseAllNext, TypeOK,
    RowsTyped, Reconcilable, Live
<1> QED BY <1>1, <1>2, <1>3, <1>4, <1>5, <1>6, <1>7, <1>8, <1>9, <1>10 DEF Continue,
  Execute, Failsafe, CloseTrade, Reconcile

\* A trade whose fills are complete has its own exit among them: an exit of another
\* trade is booked to it only if that one has a newer row, and by then this one
\* is over and booked.
LEMMA CompleteMeansOwnExit ==
  ASSUME TypeOK, RowInv, OrderInv, NewerInv, BookedInv', NEW t \in Signals, rowid[t] # 0,
         TrySync(t), FillsComplete(t), UNCHANGED <<book, exch>>
  PROVE  exitTo'[t] = t
<1> USE ConstantsAssumption
<1>1. PICK u \in Signals : exitTo'[u] = t
  BY DEF FillsComplete
<1>2. SymbolOf[u] = SymbolOf[t] /\ rowid[t] <= rowid[u] /\ t # None
  BY <1>1 DEF BookedInv, book
<1>3. CASE rowid[u] = rowid[t]
  BY <1>1, <1>3 DEF RowInv
<1>4. CASE rowid[u] # rowid[t]
  <2>1. rowid[t] < rowid[u]
    BY <1>2, <1>4 DEF TypeOK, RowsTyped
  <2>2. ord[t] = "filled"
    BY SyncBooks DEF FillsComplete, TrySync, fills, OrderInv
  <2>3. exitTo[t] = t
    BY <1>2, <2>1, <2>2 DEF NewerInv
  <2>4. exitTo'[t] = exitTo[t]
    BY <1>2, <2>3, SyncBooks DEF TrySync, fills
  <2> QED BY <2>3, <2>4
<1> QED BY <1>3, <1>4

\* How the status of a trade moves: the two verdicts that end it are well founded.
LEMMA StatusMoves ==
  ASSUME TypeOK, LockInv, RowInv, EntryInv, OrderInv, BookedInv, NewerInv, Next,
         NEW t \in Signals
  PROVE  \/ status'[t] = status[t] \/ status'[t] \in Reconcilable
         \/ status'[t] = "ERROR_FLAT" /\ ord[t] \in {"none", "cancelled"} /\ ord' = ord
         \/ status'[t] = "CLOSED" /\ exitTo'[t] = t
<1>1. ASSUME NEW p \in Procs, Continue(p)
      PROVE  \/ status'[t] = status[t] \/ status'[t] \in Reconcilable
             \/ status'[t] = "ERROR_FLAT" /\ ord[t] \in {"none", "cancelled"} /\ ord' = ord
             \/ status'[t] = "CLOSED" /\ exitTo'[t] = t
  BY <1>1, StatusMoveOf, CompleteMeansOwnExit, BookedStep
<1>2. CASE Exchange
  BY <1>2 DEF Exchange, FillEntry, DropEntry, ExitPosition
<1>3. CASE Request \/ Crash \/ \E p \in Reconcilers : ReadRows(p)
  BY <1>3 DEF Request, DeliverExecute, RequestClose, Pause, Resume, CloseAll,
    EmergencyStop, Crash, ReadRows
<1> QED BY <1>1, <1>2, <1>3 DEF Next

\* Every step keeps ExposureIsManaged.
LEMMA ExposureStep ==
  ASSUME TypeOK, LockInv, RowInv, EntryInv, OrderInv, BookedInv, NewerInv,
         ExposureIsManaged, Next
  PROVE  ExposureIsManaged'
<1> SUFFICES ASSUME NEW t \in Signals, Exposed(t)'
             PROVE  status'[t] \in Reconcilable
  BY DEF ExposureIsManaged
<1>1. CASE Exposed(t)
  <2>1. status[t] \in Reconcilable
    BY <1>1 DEF ExposureIsManaged
  <2>2. ord[t] \notin {"none", "cancelled"}
    BY <1>1, ConstantsAssumption DEF Exposed, OrderInv
  <2>3. exitTo'[t] # t
    <3>1. exitTo'[t] = t => Exited(t)'
      BY BookedStep, ConstantsAssumption DEF BookedInv
    <3> QED BY <3>1 DEF Exposed, Exited
  <2> QED BY <2>1, <2>2, <2>3, StatusMoves
<1>2. CASE ~Exposed(t)
  <2>1. ord[t] # "inflight" /\ t \notin pos[SymbolOf[t]]
    BY <1>2 DEF Exposed
  <2>2. ord'[t] # ord[t]
    BY <2>1, PositionMoves DEF Exposed
  <2>3. status' = status /\ \E p \in Procs : pc[p] = "E_submit" /\ job[p] = t
    BY <2>1, <2>2, OrderMoves
  <2>4. status[t] = "OPENING"
    BY <2>3 DEF EntryInv, Entering
  <2> QED BY <2>3, <2>4 DEF Reconcilable, Live
<1> QED BY <1>1, <1>2

\* Every step keeps ErrorFlatNeverFilled.
LEMMA ErrorFlatStep ==
  ASSUME TypeOK, LockInv, RowInv, EntryInv, OrderInv, BookedInv, NewerInv,
         ErrorFlatNeverFilled, Next
  PROVE  ErrorFlatNeverFilled'
<1> SUFFICES ASSUME NEW t \in Signals, status'[t] = "ERROR_FLAT"
             PROVE  ord'[t] \in {"none", "cancelled"}
  BY DEF ErrorFlatNeverFilled
<1>1. CASE status[t] = "ERROR_FLAT"
  <2>1. ord[t] \in {"none", "cancelled"}
    BY <1>1 DEF ErrorFlatNeverFilled
  <2>2. ASSUME NEW p \in Procs, pc[p] = "E_submit" PROVE job[p] # t
    BY <1>1, <2>2 DEF EntryInv, Entering
  <2> QED BY <2>1, <2>2, OrderMoves
<1>2. CASE status[t] # "ERROR_FLAT"
  <2>1. ord[t] \in {"none", "cancelled"} /\ ord' = ord
    BY <1>2, StatusMoves DEF Reconcilable, Live
  <2> QED BY <2>1
<1> QED BY <1>1, <1>2

\* Every step keeps ClosedHasOwnExit.
LEMMA ClosedStep ==
  ASSUME TypeOK, LockInv, RowInv, EntryInv, OrderInv, BookedInv, NewerInv,
         ClosedHasOwnExit, Next
  PROVE  ClosedHasOwnExit'
<1> SUFFICES ASSUME NEW t \in Signals, status'[t] = "CLOSED" PROVE exitTo'[t] = t
  BY DEF ClosedHasOwnExit
<1>1. CASE status[t] = "CLOSED"
  BY <1>1, BookedStays, ConstantsAssumption DEF ClosedHasOwnExit
<1>2. CASE status[t] # "CLOSED"
  BY <1>2, StatusMoves DEF Reconcilable, Live
<1> QED BY <1>1, <1>2

\* The initial state.
LEMMA InitTyped == Init => TypeOK
<1> SUFFICES ASSUME Init PROVE TypeOK
  OBVIOUS
<1> USE DEF Init, Absent
<1>1. RowsTyped
  BY DEF RowsTyped, Statuses
<1>2. AccountTyped
  BY DEF AccountTyped, OrderStates
<1>3. TasksTyped
  BY DEF TasksTyped, Statuses, OrderStates, Labels
<1>4. BoundsTyped
  BY DEF BoundsTyped
<1> QED BY <1>1, <1>2, <1>3, <1>4 DEF TypeOK

LEMMA InitInv == Init => IInv
<1> SUFFICES ASSUME Init PROVE IInv
  OBVIOUS
<1> USE ConstantsAssumption DEF Init, Absent
<1>1. LockInv
  BY DEF LockInv, Busy, SymbolHeld, Executing, Submitting, Recovering, Closing, Opening
<1>2. RowInv
  BY DEF RowInv, HasRow, Recovering, Opening
<1>3. EntryInv /\ OrderInv
  BY DEF EntryInv, Entering, OrderInv, Seeing
<1>4. BookedInv /\ NewerInv
  BY DEF BookedInv, NewerInv
<1>5. EmergencyInv
  BY DEF EmergencyInv
<1>6. ExposureIsManaged /\ ErrorFlatNeverFilled /\ ClosedHasOwnExit
  BY DEF ExposureIsManaged, Exposed, ErrorFlatNeverFilled, ClosedHasOwnExit
<1> QED BY <1>1, <1>2, <1>3, <1>4, <1>5, <1>6 DEF IInv

\* A stuttering step.
LEMMA Stutter ==
  ASSUME TypeOK, IInv, UNCHANGED vars
  PROVE  TypeOK' /\ IInv'
<1> USE DEF vars, book, fills, exch, locks, hand, bounds, hist
<1>1. TypeOK'
  BY DEF TypeOK, RowsTyped, AccountTyped, TasksTyped, BoundsTyped
<1>2. LockInv' /\ RowInv' /\ EmergencyInv'
  BY DEF IInv, LockInv, RowInv, EmergencyInv
<1>3. EntryInv' /\ OrderInv'
  BY DEF IInv, EntryInv, Entering, Managed, InSymbol, OrderInv, Seeing
<1>4. BookedInv' /\ NewerInv'
  BY DEF IInv, BookedInv, NewerInv, Exited
<1>5. ExposureIsManaged' /\ ErrorFlatNeverFilled' /\ ClosedHasOwnExit'
  BY DEF IInv, ExposureIsManaged, Exposed, ErrorFlatNeverFilled, ClosedHasOwnExit
<1> QED BY <1>1, <1>2, <1>3, <1>4, <1>5 DEF IInv

\* The whole invariant: types, locks, and what the rows, the account and the
\* coroutines know of each other.
THEOREM Invariant == Spec => [](TypeOK /\ IInv)
<1>1. Init => TypeOK /\ IInv
  BY InitTyped, InitInv
<1>2. TypeOK /\ IInv /\ [Next]_vars => (TypeOK /\ IInv)'
  <2> SUFFICES ASSUME TypeOK, IInv, Next PROVE TypeOK' /\ IInv'
    BY Stutter
  <2> USE DEF IInv
  <2>1. TypeOK'
    BY RowsStep, AccountStep, TasksStep, BoundsStep DEF TypeOK
  <2>2. LockInv' /\ RowInv' /\ EmergencyInv'
    BY LockStep, RowStep, EmergencyStep
  <2>3. EntryInv' /\ OrderInv'
    BY EntryStep, OrderStep
  <2>4. BookedInv' /\ NewerInv'
    BY BookedStep, NewerStep
  <2>5. ExposureIsManaged' /\ ErrorFlatNeverFilled' /\ ClosedHasOwnExit'
    BY ExposureStep, ErrorFlatStep, ClosedStep
  <2> QED BY <2>1, <2>2, <2>3, <2>4, <2>5
<1> QED BY <1>1, <1>2, PTL DEF Spec

\* Every variable keeps its type, whatever coroutines, exchange and crashes do.
THEOREM TypeCorrect == Spec => []TypeOK
BY Invariant, PTL

\* The locks exclude, for any number of workers, signals and symbols.
THEOREM LocksExclude == Spec => []MutualExclusion
<1>1. LockInv => MutualExclusion
  BY OneOwner DEF LockInv, MutualExclusion
<1> QED BY <1>1, Invariant, PTL DEF IInv

\* No position or entry in flight is ever outside the rows the reconcile pass looks
\* at (RECONCILE_STATUSES), across crashes, faults, late fills and stale rows.
THEOREM ExposureAlwaysManaged == Spec => []ExposureIsManaged
BY Invariant, PTL DEF IInv

\* The verdict ERROR_FLAT (_failsafe_open, _recover_opening_trade) is never given to
\* an entry that filled or still may.
THEOREM ErrorFlatIsFinal == Spec => []ErrorFlatNeverFilled
BY Invariant, PTL DEF IInv

\* A trade is CLOSED only with its own exit booked to it (_finalize_flat_trade),
\* although _sync_fills books by symbol and time.
THEOREM ClosedIsProven == Spec => []ClosedHasOwnExit
BY Invariant, PTL DEF IInv

\* A signal is submitted once: an order leaves "none" only once and is never sent again.
THEOREM OneSubmission == Spec => SubmittedOnce
<1>1. TypeOK /\ IInv /\ [Next]_vars
        => [\A t \in Signals : ord[t] # "none" =>
               ord'[t] # "none" /\ (ord'[t] = "inflight" => ord[t] = "inflight")]_vars
  <2> SUFFICES ASSUME TypeOK, IInv, Next, NEW t \in Signals, ord[t] # "none"
               PROVE  ord'[t] # "none" /\ (ord'[t] = "inflight" => ord[t] = "inflight")
    OBVIOUS
  <2> QED BY OrderMoves DEF IInv
<1> QED BY <1>1, Invariant, PTL DEF Spec, SubmittedOnce

\* From the moment emergency_stop holds the entry lock until trading is resumed, no
\* entry is submitted: the list it closes is definitive.
THEOREM EmergencyListDefinitive == Spec => EmergencyIsDefinitive
<1>1. TypeOK /\ IInv /\ [Next]_vars
        => [stopped # "no" => \A t \in Signals : ord[t] = "none" => ord'[t] = "none"]_vars
  <2> SUFFICES ASSUME TypeOK, IInv, Next, stopped # "no", NEW t \in Signals, ord[t] = "none"
               PROVE  ord'[t] = "none"
    OBVIOUS
  <2>1. \A p \in Procs : pc[p] # "E_submit"
    BY DEF IInv, EmergencyInv, Submitting
  <2> QED BY <2>1, OrderMoves DEF IInv
<1> QED BY <1>1, Invariant, PTL DEF Spec, EmergencyIsDefinitive
=============================================================================
