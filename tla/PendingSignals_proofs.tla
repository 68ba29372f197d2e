------------------------ MODULE PendingSignals_proofs ------------------------
(***************************************************************************)
(* Decisions about pending signals: for every set of signals, symbols and  *)
(* workers, and every bound.                                               *)
(***************************************************************************)
EXTENDS PendingSignals, FiniteSetTheorems, TLAPS

USE DEF Procs

-----------------------------------------------------------------------------
(***************************************************************************)
(* Types.                                                                  *)
(***************************************************************************)
\* The statuses and labels the actions write are among those declared.
LEMMA Sorts ==
  /\ Actionable \subseteq Decisions /\ Unresolved \subseteq Decisions
  /\ Final \subseteq Decisions /\ Absent \in Decisions
  /\ {"idle", "A_read", "A_claim", "A_settle", "X_entry", "X_symbol", "X_check", "X_room",
      "X_wait", "expire", "W_read", "W_set", "J_set", "M_symbol", "M_read", "M_cancel",
      "L_pending", "L_adopt", "L_rows", "L_next", "L_ticker", "L_drop"} \subseteq Labels
BY DEF Actionable, Unresolved, Final, Absent, Decisions, Labels, SymbolHeld, EntryHeld

\* transition_pending writes a status of the table.
LEMMA TransitionTyped ==
  ASSUME TypeOK, NEW t, NEW from, NEW to \in Decisions, Transition(t, from, to)
  PROVE  decision' \in [Signals -> Decisions]
BY DEF TypeOK, Transition

\* A handler's end, and what approve_pending_signal returns, keep the coroutine typed.
LEMMA LeaveTyped ==
  ASSUME TypeOK, NEW p \in Procs, NEW l \in Labels, Leave(p, l)
  PROVE  /\ pc' \in [Procs -> Labels] /\ job' \in [Procs -> Signals \cup {None}]
         /\ was' \in [Procs -> Decisions] /\ result' \in [Procs -> Results]
BY Sorts DEF TypeOK, Leave, Goto, Results

LEMMA DoneTyped ==
  ASSUME TypeOK, NEW p \in Procs, NEW r, Done(p, r)
  PROVE  /\ pc' \in [Procs -> Labels] /\ job' \in [Procs -> Signals \cup {None}]
         /\ was' \in [Procs -> Decisions] /\ result' \in [Procs -> Results]
<1>1. CASE p = Loop /\ r \in {"orphan", "final"}
  BY <1>1, Sorts DEF TypeOK, Done, Goto, hand
<1>2. CASE ~(p = Loop /\ r \in {"orphan", "final"})
  <2> DEFINE l == IF p = Loop /\ r # "error" THEN "L_next" ELSE "idle"
  <2>1. Leave(p, l)
    BY <1>2 DEF Done
  <2>2. l \in Labels
    BY Sorts
  <2> QED BY <2>1, <2>2, LeaveTyped
<1> QED BY <1>1, <1>2

LEMMA ReturnTyped ==
  ASSUME TypeOK, NEW p \in Procs, NEW r \in Results, Return(p, r)
  PROVE  /\ pc' \in [Procs -> Labels] /\ job' \in [Procs -> Signals \cup {None}]
         /\ was' \in [Procs -> Decisions] /\ result' \in [Procs -> Results]
         /\ entryLock' \in Procs \cup {None} /\ symLock' \in [Symbols -> Procs \cup {None}]
<1>1. entryLock' \in Procs \cup {None} /\ symLock' \in [Symbols -> Procs \cup {None}]
  BY DEF TypeOK, Return
<1>2. CASE Approving(p)
  BY <1>1, <1>2, Sorts DEF TypeOK, Return, Goto
<1>3. CASE ~Approving(p)
  <2>1. Leave(p, "idle")
    BY <1>3 DEF Return
  <2> QED BY <1>1, <2>1, Sorts, LeaveTyped
<1> QED BY <1>2, <1>3

\* save_pending: the signal's row is new, the others keep a rank and a status.
LEMMA SaveTyped ==
  ASSUME TypeOK, NEW t, SavePending(t)
  PROVE  /\ decision' \in [Signals -> Decisions] /\ saved' \in [Signals -> Nat]
         /\ refused' \in [Signals -> BOOLEAN]
<1>1. Cardinality({u \in Signals : saved[u] > 0}) \in Nat
  BY ConstantsAssumption, FS_Subset, FS_CardinalityType
<1>2. decision' \in [Signals -> Decisions]
  BY Sorts DEF TypeOK, SavePending, Final, Decisions, Unresolved, Actionable
<1>3. saved' \in [Signals -> Nat]
  <2>1. 1 + Cardinality({u \in Signals : saved[u] > 0}) \in Nat
    BY <1>1
  <2> QED BY <2>1 DEF TypeOK, SavePending
<1>4. refused' \in [Signals -> BOOLEAN]
  <2>1. \A u \in Signals : (refused[u] \/ u \in Superseded(t)) \in BOOLEAN
    OBVIOUS
  <2> QED BY <2>1, Zenon DEF SavePending
<1> QED BY <1>2, <1>3, <1>4

-----------------------------------------------------------------------------
(***************************************************************************)
(* Every step keeps the types.                                             *)
(***************************************************************************)
\* A refusal is remembered as a Boolean.
LEMMA RefusedTyped ==
  ASSUME TypeOK, NEW t, NEW to, Refuse(t, to)
  PROVE  refused' \in [Signals -> BOOLEAN]
BY Zenon DEF TypeOK, Refuse

\* The steps of the handlers.
LEMMA StepTyped ==
  ASSUME TypeOK, NEW p \in Procs, Step(p)
  PROVE  TypeOK'
<1> USE Sorts DEF table, world, locks, hand, bounds
<1>1. CASE ApproveRead(p)
  <2>1. CASE decision[job[p]] \notin Actionable
    BY <1>1, <2>1, DoneTyped DEF ApproveRead, TypeOK
  <2>2. CASE decision[job[p]] \in Actionable
    <3>1. was' \in [Procs -> Decisions]
      BY <1>1, <2>2 DEF ApproveRead, TypeOK
    <3> QED BY <1>1, <2>2, <3>1 DEF ApproveRead, TypeOK, Goto
  <2> QED BY <2>1, <2>2
<1>2. CASE ApproveClaim(p)
  <2>1. decision' \in [Signals -> Decisions]
    BY <1>2, TransitionTyped DEF ApproveClaim, Unresolved
  <2>2. CASE decision[job[p]] \in Claimable
    BY <1>2, <2>1, <2>2 DEF ApproveClaim, TypeOK, Goto
  <2>3. CASE decision[job[p]] \notin Claimable
    BY <1>2, <2>1, <2>3, DoneTyped DEF ApproveClaim, TypeOK
  <2> QED BY <2>2, <2>3
<1>3. CASE ApproveSettle(p)
  <2>1. Settlement(p) \in Decisions
    BY DEF TypeOK, Settlement, ReleasedTo, Final
  <2>2. decision' \in [Signals -> Decisions]
    BY <1>3, <2>1, TransitionTyped DEF ApproveSettle
  <2> QED BY <1>3, <2>2, DoneTyped DEF ApproveSettle, TypeOK
<1>4. CASE ResolveExpired(p)
  <2>1. decision' \in [Signals -> Decisions]
    BY <1>4, TransitionTyped DEF ResolveExpired, Resolve, Final
  <2> QED BY <1>4, <2>1, DoneTyped DEF ResolveExpired, TypeOK
<1>5. CASE ExecuteCheck(p)
  <2>1. CASE Return(p, "ok") /\ UNCHANGED <<table, refused>>
    BY <1>5, <2>1, ReturnTyped DEF ExecuteCheck, TypeOK, Results
  <2>2. CASE Return(p, "final") /\ UNCHANGED <<table, refused>>
    BY <1>5, <2>2, ReturnTyped DEF ExecuteCheck, TypeOK, Results
  <2>3. CASE Return(p, "final") /\ SavePending(job[p])
    BY <1>5, <2>3, ReturnTyped, SaveTyped DEF ExecuteCheck, TypeOK, Results
  <2>4. CASE Goto(p, "X_room") /\ UNCHANGED <<table, refused, locks, hand>>
    BY <1>5, <2>4 DEF ExecuteCheck, TypeOK, Goto
  <2> QED BY <1>5, <2>1, <2>2, <2>3, <2>4 DEF ExecuteCheck
<1>6. CASE ExecuteTurnedDown(p)
  BY <1>6, ReturnTyped DEF ExecuteTurnedDown, TypeOK, Results
<1>7. CASE ExecuteSaveWait(p)
  <2>1. CASE SavePending(job[p]) /\ Goto(p, "X_wait") /\ UNCHANGED <<locks, hand>>
    BY <1>7, <2>1, SaveTyped DEF ExecuteSaveWait, TypeOK, Goto
  <2>2. CASE Return(p, "final") /\ UNCHANGED <<table, refused>>
    BY <1>7, <2>2, ReturnTyped DEF ExecuteSaveWait, TypeOK, Results
  <2> QED BY <1>7, <2>1, <2>2 DEF ExecuteSaveWait
<1>8. CASE ExecuteWait(p)
  <2>1. decision' \in [Signals -> Decisions]
    BY <1>8, TransitionTyped DEF ExecuteWait, Actionable
  <2> QED BY <1>8, <2>1, ReturnTyped DEF ExecuteWait, TypeOK, Results
<1>9. CASE ExecuteOpen(p)
  <2>1. opened' \in [Signals -> BOOLEAN]
    BY <1>9, Zenon DEF ExecuteOpen, TypeOK
  <2> QED BY <1>9, <2>1, ReturnTyped DEF ExecuteOpen, TypeOK, Results
<1>10. CASE ExecuteRaise(p)
  BY <1>10, ReturnTyped DEF ExecuteRaise, TypeOK, Results
<1>11. CASE WaitRead(p)
  <2>1. CASE decision[job[p]] \notin Actionable
    BY <1>11, <2>1, LeaveTyped DEF WaitRead, TypeOK
  <2>2. CASE decision[job[p]] \in Actionable
    BY <1>11, <2>2 DEF WaitRead, TypeOK, Goto
  <2> QED BY <2>1, <2>2
<1>12. CASE WaitSet(p)
  <2>1. decision' \in [Signals -> Decisions]
    BY <1>12, TransitionTyped DEF WaitSet, Actionable
  <2> QED BY <1>12, <2>1, LeaveTyped DEF WaitSet, TypeOK
<1>13. CASE Reject(p)
  <2>1. decision' \in [Signals -> Decisions]
    BY <1>13, TransitionTyped DEF Reject, Refuse, Final
  <2>2. refused' \in [Signals -> BOOLEAN]
    BY <1>13, RefusedTyped DEF Reject
  <2> QED BY <1>13, <2>1, <2>2, LeaveTyped DEF Reject, TypeOK
<1>14. CASE ManagementRead(p)
  <2>1. CASE Goto(p, "M_cancel") /\ UNCHANGED <<symLock, hand>>
    BY <1>14, <2>1 DEF ManagementRead, TypeOK, Goto
  <2>2. CASE FreeSymbol(p) /\ Leave(p, "idle")
    BY <1>14, <2>2, LeaveTyped DEF ManagementRead, TypeOK, FreeSymbol
  <2> QED BY <1>14, <2>1, <2>2 DEF ManagementRead
<1>15. CASE ManagementCancel(p)
  <2>1. decision' \in [Signals -> Decisions]
    BY <1>15, TransitionTyped DEF ManagementCancel, Refuse, Final
  <2>2. refused' \in [Signals -> BOOLEAN]
    BY <1>15, RefusedTyped DEF ManagementCancel
  <2> QED BY <1>15, <2>1, <2>2, LeaveTyped DEF ManagementCancel, TypeOK, FreeSymbol
<1> QED BY <1>1, <1>2, <1>3, <1>4, <1>5, <1>6, <1>7, <1>8, <1>9, <1>10, <1>11, <1>12,
  <1>13, <1>14, <1>15 DEF Step

\* The steps of waiting_entry_loop.
LEMMA LoopTyped ==
  ASSUME TypeOK, LoopStep
  PROVE  TypeOK'
<1> USE Sorts DEF table, world, locks, hand, bounds
<1>0. Loop \in Procs
  OBVIOUS
<1>1. CASE LoopExpire
  <2>1. decision' \in [Signals -> Decisions]
    BY <1>1 DEF LoopExpire, TypeOK, Final, Decisions
  <2> QED BY <1>1, <2>1 DEF LoopExpire, TypeOK, Goto
<1>2. CASE LoopAdopt
  <2>1. decision' \in [Signals -> Decisions]
    BY <1>2, TransitionTyped DEF LoopAdopt, TypeOK, Actionable
  <2> QED BY <1>2, <2>1 DEF LoopAdopt, TypeOK, Goto
<1>3. CASE LoopRows
  BY <1>3 DEF LoopRows, TypeOK, Goto
<1>4. CASE LoopNext
  BY <1>4 DEF LoopNext, TypeOK, Goto
<1>5. CASE LoopTicker
  <2>1. faults' \in Nat
    BY <1>5 DEF LoopTicker, Fault, TypeOK
  <2>2. CASE Goto(Loop, "A_read") /\ UNCHANGED hand
    BY <1>5, <2>1, <2>2 DEF LoopTicker, TypeOK, Goto
  <2>3. CASE Leave(Loop, OutOfZone) \/ Leave(Loop, "idle")
    BY <1>5, <2>1, <2>3, <1>0, LeaveTyped DEF LoopTicker, TypeOK, OutOfZone
  <2> QED BY <1>5, <2>2, <2>3 DEF LoopTicker
<1>6. CASE LoopDrop
  <2>1. decision' \in [Signals -> Decisions]
    BY <1>6, TransitionTyped DEF LoopDrop, Resolve, Final
  <2> QED BY <1>6, <2>1, <1>0, LeaveTyped DEF LoopDrop, TypeOK
<1> QED BY <1>1, <1>2, <1>3, <1>4, <1>5, <1>6 DEF LoopStep

\* All steps.
LEMMA TypeStep ==
  ASSUME TypeOK, [Next]_vars
  PROVE  TypeOK'
<1> USE Sorts DEF table, world, locks, hand, bounds
<1>1. ASSUME NEW p \in Procs, Locking(p) PROVE TypeOK'
  BY <1>1 DEF Locking, LockEntry, LockSymbol, TypeOK, Goto
<1>2. ASSUME NEW p \in Workers, NEW t \in Signals, Request(p, t) PROVE TypeOK'
  <2>1. CASE DeliverExecute(p, t)
    BY <2>1 DEF DeliverExecute, TypeOK, Goto
  <2>2. CASE \E l \in {"A_read", "W_read", "J_set", "expire", "M_symbol"} : Command(p, t, l)
    BY <2>2 DEF Command, TypeOK, Goto
  <2> QED BY <1>2, <2>1, <2>2 DEF Request, PressButton, ApproveExpired, ManagementClose
<1>3. CASE World
  <2>1. ASSUME NEW t \in Signals, Expire(t) PROVE TypeOK'
    <3>1. expired' \in [Signals -> BOOLEAN]
      BY <2>1, Zenon DEF Expire, TypeOK
    <3> QED BY <2>1, <3>1 DEF Expire, TypeOK
  <2>2. ASSUME NEW t \in Signals, PriceTaskExpires(t) PROVE TypeOK'
    BY <2>2 DEF PriceTaskExpires, TypeOK, Goto
  <2>3. ASSUME NEW s \in Symbols, Delist(s) PROVE TypeOK'
    BY <2>3 DEF Delist, TypeOK
  <2> QED BY <1>3, <2>1, <2>2, <2>3 DEF World
<1>4. CASE Restart
  <2>1. decision' \in [Signals -> Decisions]
    BY <1>4 DEF Restart, GivenBack, TypeOK, Actionable
  <2>2. mode' \in AllModes
    BY <1>4, ConstantsAssumption DEF Restart
  <2> QED BY <1>4, <2>1, <2>2 DEF Restart, TypeOK, Results
<1>5. CASE UNCHANGED vars
  BY <1>5 DEF vars, TypeOK
<1> QED BY <1>1, <1>2, <1>3, <1>4, <1>5, StepTyped, LoopTyped DEF Next

-----------------------------------------------------------------------------
(***************************************************************************)
(* The parts of IInv under the steps of handlers and of the loop.          *)
(***************************************************************************)
\* Jobs and locks: what Leave and Return give up was the coroutine's own.
LEMMA JobLockStep ==
  ASSUME TypeOK, JobInv, LockInv, NEW p \in Procs, Step(p)
  PROVE  JobInv' /\ LockInv'
<1> USE ConstantsAssumption DEF table, world, locks, hand, bounds, JobInv, LockInv, Jobless,
  EntryHeld, SymbolHeld, Leave, Done, Return, Goto, FreeSymbol, Approving, Actionable,
    TypeOK, Absent
<1>1. CASE ApproveRead(p)
  BY <1>1 DEF ApproveRead
<1>2. CASE ApproveClaim(p)
  BY <1>2 DEF ApproveClaim
<1>3. CASE ApproveSettle(p)
  BY <1>3 DEF ApproveSettle
<1>4. CASE ResolveExpired(p)
  BY <1>4 DEF ResolveExpired
<1>5. CASE ExecuteCheck(p)
  BY <1>5 DEF ExecuteCheck
<1>6. CASE ExecuteTurnedDown(p)
  BY <1>6 DEF ExecuteTurnedDown
<1>7. CASE ExecuteSaveWait(p)
  BY <1>7 DEF ExecuteSaveWait
<1>8. CASE ExecuteWait(p)
  BY <1>8 DEF ExecuteWait
<1>9. CASE ExecuteOpen(p)
  BY <1>9 DEF ExecuteOpen
<1>10. CASE ExecuteRaise(p)
  BY <1>10 DEF ExecuteRaise
<1>11. CASE WaitRead(p)
  BY <1>11 DEF WaitRead
<1>12. CASE WaitSet(p)
  BY <1>12 DEF WaitSet
<1>13. CASE Reject(p)
  BY <1>13 DEF Reject
<1>14. CASE ManagementRead(p)
  BY <1>14 DEF ManagementRead
<1>15. CASE ManagementCancel(p)
  BY <1>15 DEF ManagementCancel
<1> QED BY <1>1, <1>2, <1>3, <1>4, <1>5, <1>6, <1>7, <1>8, <1>9, <1>10, <1>11, <1>12,
  <1>13, <1>14, <1>15 DEF Step

LEMMA JobLockLoop ==
  ASSUME TypeOK, JobInv, LockInv, LoopStep
  PROVE  JobInv' /\ LockInv'
<1> USE ConstantsAssumption DEF table, world, locks, hand, bounds, JobInv, LockInv, Jobless,
  EntryHeld, SymbolHeld, Leave, Goto, TypeOK, OutOfZone
<1>1. CASE LoopExpire
  BY <1>1 DEF LoopExpire
<1>2. CASE LoopAdopt
  BY <1>2 DEF LoopAdopt
<1>3. CASE LoopRows
  BY <1>3 DEF LoopRows
<1>4. CASE LoopNext
  BY <1>4 DEF LoopNext
<1>5. CASE LoopTicker
  BY <1>5 DEF LoopTicker
<1>6. CASE LoopDrop
  BY <1>6 DEF LoopDrop
<1> QED BY <1>1, <1>2, <1>3, <1>4, <1>5, <1>6 DEF LoopStep

\* transition_pending never moves a final row, save_pending only adds one.
LEMMA RefusedStep ==
  ASSUME TypeOK, JobInv, RefusedInv, NEW p \in Procs, Step(p)
  PROVE  RefusedInv'
<1> USE DEF TypeOK, JobInv, Jobless, table, Transition, Resolve, Refuse, SavePending,
  Superseded, Claimable, Refusable, Expiring, Actionable, Unresolved, Final, Absent,
  RefusedInv
<1>1. CASE ApproveRead(p)
  BY <1>1 DEF ApproveRead
<1>2. CASE ApproveClaim(p)
  BY <1>2 DEF ApproveClaim
<1>3. CASE ApproveSettle(p)
  BY <1>3 DEF ApproveSettle
<1>4. CASE ResolveExpired(p)
  BY <1>4 DEF ResolveExpired
<1>5. CASE ExecuteCheck(p)
  BY <1>5 DEF ExecuteCheck, Manual
<1>6. CASE ExecuteTurnedDown(p)
  BY <1>6 DEF ExecuteTurnedDown
<1>7. CASE ExecuteSaveWait(p)
  BY <1>7 DEF ExecuteSaveWait
<1>8. CASE ExecuteWait(p)
  BY <1>8 DEF ExecuteWait
<1>9. CASE ExecuteOpen(p)
  BY <1>9 DEF ExecuteOpen
<1>10. CASE ExecuteRaise(p)
  BY <1>10 DEF ExecuteRaise
<1>11. CASE WaitRead(p)
  BY <1>11 DEF WaitRead
<1>12. CASE WaitSet(p)
  BY <1>12 DEF WaitSet
<1>13. CASE Reject(p)
  BY <1>13 DEF Reject
<1>14. CASE ManagementRead(p)
  BY <1>14 DEF ManagementRead
<1>15. CASE ManagementCancel(p)
  BY <1>15 DEF ManagementCancel
<1> QED BY <1>1, <1>2, <1>3, <1>4, <1>5, <1>6, <1>7, <1>8, <1>9, <1>10, <1>11, <1>12,
  <1>13, <1>14, <1>15 DEF Step

LEMMA RefusedLoop ==
  ASSUME TypeOK, JobInv, RefusedInv, LoopStep
  PROVE  RefusedInv'
<1> USE DEF TypeOK, JobInv, Jobless, table, Transition, Resolve, Refuse, SavePending,
  Superseded, Claimable, Refusable, Expiring, Actionable, Unresolved, Final, Absent,
  RefusedInv
<1>1. CASE LoopExpire
  BY <1>1 DEF LoopExpire
<1>2. CASE LoopAdopt
  BY <1>2 DEF LoopAdopt
<1>3. CASE LoopRows
  BY <1>3 DEF LoopRows
<1>4. CASE LoopNext
  BY <1>4 DEF LoopNext
<1>5. CASE LoopTicker
  BY <1>5 DEF LoopTicker
<1>6. CASE LoopDrop
  BY <1>6 DEF LoopDrop
<1> QED BY <1>1, <1>2, <1>3, <1>4, <1>5, <1>6 DEF LoopStep

\* In SHADOW_MANUAL mode ExecuteCheck lets only approvals pass; only they settle.
LEMMA ApprovingStep ==
  ASSUME TypeOK, JobInv, ApprovingInv, NEW p \in Procs, Step(p)
  PROVE  ApprovingInv'
<1> USE DEF TypeOK, JobInv, Jobless, hand, table, Leave, Done, Return, Goto, OutOfZone,
  ApprovingInv, Approving, Manual, Actionable, Absent
<1>1. CASE ApproveRead(p)
  BY <1>1 DEF ApproveRead
<1>2. CASE ApproveClaim(p)
  BY <1>2 DEF ApproveClaim
<1>3. CASE ApproveSettle(p)
  BY <1>3 DEF ApproveSettle
<1>4. CASE ResolveExpired(p)
  BY <1>4 DEF ResolveExpired
<1>5. CASE ExecuteCheck(p)
  BY <1>5 DEF ExecuteCheck
<1>6. CASE ExecuteTurnedDown(p)
  BY <1>6 DEF ExecuteTurnedDown
<1>7. CASE ExecuteSaveWait(p)
  BY <1>7 DEF ExecuteSaveWait
<1>8. CASE ExecuteWait(p)
  BY <1>8 DEF ExecuteWait
<1>9. CASE ExecuteOpen(p)
  BY <1>9 DEF ExecuteOpen
<1>10. CASE ExecuteRaise(p)
  BY <1>10 DEF ExecuteRaise
<1>11. CASE WaitRead(p)
  BY <1>11 DEF WaitRead
<1>12. CASE WaitSet(p)
  BY <1>12 DEF WaitSet
<1>13. CASE Reject(p)
  BY <1>13 DEF Reject
<1>14. CASE ManagementRead(p)
  BY <1>14 DEF ManagementRead
<1>15. CASE ManagementCancel(p)
  BY <1>15 DEF ManagementCancel
<1> QED BY <1>1, <1>2, <1>3, <1>4, <1>5, <1>6, <1>7, <1>8, <1>9, <1>10, <1>11, <1>12,
  <1>13, <1>14, <1>15 DEF Step

LEMMA ApprovingLoop ==
  ASSUME TypeOK, JobInv, ApprovingInv, LoopStep
  PROVE  ApprovingInv'
<1> USE DEF TypeOK, JobInv, Jobless, hand, table, Leave, Done, Return, Goto, OutOfZone,
  ApprovingInv, Approving, Manual, Actionable, Absent
<1>1. CASE LoopExpire
  BY <1>1 DEF LoopExpire
<1>2. CASE LoopAdopt
  BY <1>2 DEF LoopAdopt
<1>3. CASE LoopRows
  BY <1>3 DEF LoopRows
<1>4. CASE LoopNext
  BY <1>4 DEF LoopNext
<1>5. CASE LoopTicker
  BY <1>5 DEF LoopTicker
<1>6. CASE LoopDrop
  BY <1>6 DEF LoopDrop
<1> QED BY <1>1, <1>2, <1>3, <1>4, <1>5, <1>6 DEF LoopStep

\* What a step by p does to the decision on t.
Moved(p, t) ==
  /\ \/ decision'[t] = decision[t]
     \/ decision[t] \in Actionable \cup {Absent}
     \/ decision'[t] \in Final
     \/ pc[p] = "A_settle" /\ t = job[p]
  /\ refused'[t] => refused[t] \/ decision[t] \in Actionable

\* q is p, and claims t by this step.
ClaimsNow(p, q, t) ==
  /\ pc[p] = "A_claim" /\ q = p /\ t = job[p]
  /\ decision[t] \in Actionable /\ decision'[t] = "PROCESSING" /\ UNCHANGED refused

LEMMA MovesStep ==
  ASSUME TypeOK, JobInv, NEW p \in Procs, Step(p)
  PROVE  \A t \in Signals : Moved(p, t)
<1> USE DEF TypeOK, JobInv, Jobless, table, Transition, Resolve, Refuse, SavePending,
  Superseded, Claimable, Refusable, Expiring, Actionable, Unresolved, Final, Absent, Moved
<1>1. CASE ApproveRead(p)
  BY <1>1 DEF ApproveRead
<1>2. CASE ApproveClaim(p)
  BY <1>2 DEF ApproveClaim
<1>3. CASE ApproveSettle(p)
  BY <1>3 DEF ApproveSettle
<1>4. CASE ResolveExpired(p)
  BY <1>4 DEF ResolveExpired
<1>5. CASE ExecuteCheck(p)
  BY <1>5 DEF ExecuteCheck, Manual
<1>6. CASE ExecuteTurnedDown(p)
  BY <1>6 DEF ExecuteTurnedDown
<1>7. CASE ExecuteSaveWait(p)
  BY <1>7 DEF ExecuteSaveWait
<1>8. CASE ExecuteWait(p)
  BY <1>8 DEF ExecuteWait
<1>9. CASE ExecuteOpen(p)
  BY <1>9 DEF ExecuteOpen
<1>10. CASE ExecuteRaise(p)
  BY <1>10 DEF ExecuteRaise
<1>11. CASE WaitRead(p)
  BY <1>11 DEF WaitRead
<1>12. CASE WaitSet(p)
  BY <1>12 DEF WaitSet
<1>13. CASE Reject(p)
  BY <1>13 DEF Reject
<1>14. CASE ManagementRead(p)
  BY <1>14 DEF ManagementRead
<1>15. CASE ManagementCancel(p)
  BY <1>15 DEF ManagementCancel
<1> QED BY <1>1, <1>2, <1>3, <1>4, <1>5, <1>6, <1>7, <1>8, <1>9, <1>10, <1>11, <1>12,
  <1>13, <1>14, <1>15 DEF Step

LEMMA MovesLoop ==
  ASSUME TypeOK, JobInv, LoopStep
  PROVE  \A t \in Signals : Moved(Loop, t)
<1> USE DEF TypeOK, JobInv, Jobless, table, Transition, Resolve, Refuse, SavePending,
  Superseded, Claimable, Refusable, Expiring, Actionable, Unresolved, Final, Absent, Moved
<1>1. CASE LoopExpire
  BY <1>1 DEF LoopExpire
<1>2. CASE LoopAdopt
  BY <1>2 DEF LoopAdopt
<1>3. CASE LoopRows
  BY <1>3 DEF LoopRows
<1>4. CASE LoopNext
  BY <1>4 DEF LoopNext
<1>5. CASE LoopTicker
  BY <1>5 DEF LoopTicker
<1>6. CASE LoopDrop
  BY <1>6 DEF LoopDrop
<1> QED BY <1>1, <1>2, <1>3, <1>4, <1>5, <1>6 DEF LoopStep

\* A coroutine comes to claim a decision in ApproveClaim only.
LEMMA ClaimsStep ==
  ASSUME TypeOK, JobInv, NEW p \in Procs, Step(p)
  PROVE  \A q \in Procs, t \in Signals : Claims(q, t)' => Claims(q, t) \/ ClaimsNow(p, q, t)
<1> USE DEF TypeOK, JobInv, Jobless, hand, table, Leave, Done, Return, Goto, OutOfZone,
  Claims, Claimed, Approving, Actionable, Absent, ClaimsNow, Transition, Claimable,
  Unresolved
<1>1. CASE ApproveRead(p)
  BY <1>1 DEF ApproveRead
<1>2. CASE ApproveClaim(p)
  BY <1>2 DEF ApproveClaim
<1>3. CASE ApproveSettle(p)
  BY <1>3 DEF ApproveSettle
<1>4. CASE ResolveExpired(p)
  BY <1>4 DEF ResolveExpired
<1>5. CASE ExecuteCheck(p)
  BY <1>5 DEF ExecuteCheck
<1>6. CASE ExecuteTurnedDown(p)
  BY <1>6 DEF ExecuteTurnedDown
<1>7. CASE ExecuteSaveWait(p)
  BY <1>7 DEF ExecuteSaveWait
<1>8. CASE ExecuteWait(p)
  BY <1>8 DEF ExecuteWait
<1>9. CASE ExecuteOpen(p)
  BY <1>9 DEF ExecuteOpen
<1>10. CASE ExecuteRaise(p)
  BY <1>10 DEF ExecuteRaise
<1>11. CASE WaitRead(p)
  BY <1>11 DEF WaitRead
<1>12. CASE WaitSet(p)
  BY <1>12 DEF WaitSet
<1>13. CASE Reject(p)
  BY <1>13 DEF Reject
<1>14. CASE ManagementRead(p)
  BY <1>14 DEF ManagementRead
<1>15. CASE ManagementCancel(p)
  BY <1>15 DEF ManagementCancel
<1> QED BY <1>1, <1>2, <1>3, <1>4, <1>5, <1>6, <1>7, <1>8, <1>9, <1>10, <1>11, <1>12,
  <1>13, <1>14, <1>15 DEF Step

LEMMA ClaimsLoop ==
  ASSUME TypeOK, JobInv, LoopStep
  PROVE  \A q \in Procs, t \in Signals : Claims(q, t)' => Claims(q, t) \/ ClaimsNow(Loop,
    q, t)
<1> USE DEF TypeOK, JobInv, Jobless, hand, table, Leave, Done, Return, Goto, OutOfZone,
  Claims, Claimed, Approving, Actionable, Absent, ClaimsNow, Transition, Claimable,
  Unresolved
<1>1. CASE LoopExpire
  BY <1>1 DEF LoopExpire
<1>2. CASE LoopAdopt
  BY <1>2 DEF LoopAdopt
<1>3. CASE LoopRows
  BY <1>3 DEF LoopRows
<1>4. CASE LoopNext
  BY <1>4 DEF LoopNext
<1>5. CASE LoopTicker
  BY <1>5 DEF LoopTicker
<1>6. CASE LoopDrop
  BY <1>6 DEF LoopDrop
<1> QED BY <1>1, <1>2, <1>3, <1>4, <1>5, <1>6 DEF LoopStep

\* Whoever claims a decision is alone, and its claim keeps refusals off.
LEMMA ClaimedStep ==
  ASSUME TypeOK, JobInv, RefusedInv, ClaimedInv, ApprovingInv, OneDecider, NEW p \in Procs,
         Step(p) \/ (p = Loop /\ LoopStep)
  PROVE  ClaimedInv' /\ OneDecider'
<1>1. \A t \in Signals : Moved(p, t)
  BY MovesStep, MovesLoop
<1>2. \A q \in Procs, t \in Signals : Claims(q, t)' => Claims(q, t) \/ ClaimsNow(p, q, t)
  BY ClaimsStep, ClaimsLoop
<1>3. pc[p] = "A_settle" => Claims(p, job[p]) /\ \A t \in Signals : ~Claims(p, t)'
  <2> SUFFICES ASSUME pc[p] = "A_settle"
               PROVE  Claims(p, job[p]) /\ \A t \in Signals : ~Claims(p, t)'
    OBVIOUS
  <2>1. Claims(p, job[p])
    BY DEF ApprovingInv, Claims, Claimed
  <2>2. ApproveSettle(p)
    BY DEF Step, LoopStep, ApproveRead, ApproveClaim, ResolveExpired, ExecuteCheck,
      ExecuteTurnedDown, ExecuteSaveWait, ExecuteWait, ExecuteOpen, ExecuteRaise, WaitRead,
      WaitSet, Reject, ManagementRead, ManagementCancel, LoopExpire, LoopAdopt, LoopRows,
      LoopNext, LoopTicker, LoopDrop
  <2>3. pc'[p] \in {"idle", "L_next", "L_drop"}
    BY <2>2 DEF ApproveSettle, Done, Leave, Goto, TypeOK
  <2> QED BY <2>1, <2>3 DEF Claims, Claimed
<1>4. ASSUME NEW q \in Procs, NEW t \in Signals, Claims(q, t)'
      PROVE  ~refused'[t] /\ decision'[t] \notin Actionable \cup {Absent}
  <2>1. CASE ClaimsNow(p, q, t)
    BY <2>1 DEF ClaimsNow, RefusedInv, Actionable, Absent, Final
  <2>2. CASE Claims(q, t)
    <3>1. ~refused[t] /\ decision[t] \notin Actionable \cup {Absent}
      BY <2>2 DEF ClaimedInv
    <3>2. ~(pc[p] = "A_settle" /\ t = job[p])
      BY <1>3, <1>4, <2>2 DEF OneDecider
    <3> QED BY <1>1, <3>1, <3>2 DEF Moved, Final, Actionable, Absent
  <2> QED BY <1>2, <1>4, <2>1, <2>2
<1>5. ASSUME NEW t \in Signals, NEW q \in Procs, NEW r \in Procs, Claims(q, t)', Claims(r,
  t)'
      PROVE  q = r
  <2>1. CASE Claims(q, t) /\ Claims(r, t)
    BY <2>1 DEF OneDecider
  <2>2. CASE ClaimsNow(p, q, t) \/ ClaimsNow(p, r, t)
    <3>1. ~Claims(q, t) /\ ~Claims(r, t)
      BY <2>2 DEF ClaimsNow, ClaimedInv
    <3> QED BY <1>2, <1>5, <3>1 DEF ClaimsNow
  <2> QED BY <1>2, <1>5, <2>1, <2>2
<1> QED BY <1>4, <1>5 DEF ClaimedInv, OneDecider

\* "ok" is returned for a signal that has its trade.
LEMMA SettleStep ==
  ASSUME TypeOK, JobInv, SettleInv, NEW p \in Procs, Step(p)
  PROVE  SettleInv'
<1> USE DEF TypeOK, JobInv, Jobless, hand, table, Leave, Done, Return, Goto, OutOfZone,
  SettleInv
<1>1. CASE ApproveRead(p)
  BY <1>1 DEF ApproveRead
<1>2. CASE ApproveClaim(p)
  BY <1>2 DEF ApproveClaim
<1>3. CASE ApproveSettle(p)
  BY <1>3 DEF ApproveSettle
<1>4. CASE ResolveExpired(p)
  BY <1>4 DEF ResolveExpired
<1>5. CASE ExecuteCheck(p)
  BY <1>5 DEF ExecuteCheck, OpenedAlready
<1>6. CASE ExecuteTurnedDown(p)
  BY <1>6 DEF ExecuteTurnedDown
<1>7. CASE ExecuteSaveWait(p)
  BY <1>7 DEF ExecuteSaveWait
<1>8. CASE ExecuteWait(p)
  BY <1>8 DEF ExecuteWait
<1>9. CASE ExecuteOpen(p)
  BY <1>9 DEF ExecuteOpen
<1>10. CASE ExecuteRaise(p)
  BY <1>10 DEF ExecuteRaise
<1>11. CASE WaitRead(p)
  BY <1>11 DEF WaitRead
<1>12. CASE WaitSet(p)
  BY <1>12 DEF WaitSet
<1>13. CASE Reject(p)
  BY <1>13 DEF Reject
<1>14. CASE ManagementRead(p)
  BY <1>14 DEF ManagementRead
<1>15. CASE ManagementCancel(p)
  BY <1>15 DEF ManagementCancel
<1> QED BY <1>1, <1>2, <1>3, <1>4, <1>5, <1>6, <1>7, <1>8, <1>9, <1>10, <1>11, <1>12,
  <1>13, <1>14, <1>15 DEF Step

LEMMA SettleLoop ==
  ASSUME TypeOK, JobInv, SettleInv, LoopStep
  PROVE  SettleInv'
<1> USE DEF TypeOK, JobInv, Jobless, hand, table, Leave, Done, Return, Goto, OutOfZone,
  SettleInv
<1>1. CASE LoopExpire
  BY <1>1 DEF LoopExpire
<1>2. CASE LoopAdopt
  BY <1>2 DEF LoopAdopt
<1>3. CASE LoopRows
  BY <1>3 DEF LoopRows
<1>4. CASE LoopNext
  BY <1>4 DEF LoopNext
<1>5. CASE LoopTicker
  BY <1>5 DEF LoopTicker
<1>6. CASE LoopDrop
  BY <1>6 DEF LoopDrop
<1> QED BY <1>1, <1>2, <1>3, <1>4, <1>5, <1>6 DEF LoopStep

\* The symbol lock keeps a second task out while the first opens the trade.
LEMMA OpensStep ==
  ASSUME TypeOK, JobInv, LockInv, OpensOnce, NEW p \in Procs, Step(p)
  PROVE  OpensOnce'
<1> USE DEF TypeOK, JobInv, Jobless, hand, table, Leave, Done, Return, Goto, OutOfZone,
  OpensOnce
<1>1. CASE ApproveRead(p)
  BY <1>1 DEF ApproveRead
<1>2. CASE ApproveClaim(p)
  BY <1>2 DEF ApproveClaim
<1>3. CASE ApproveSettle(p)
  BY <1>3 DEF ApproveSettle
<1>4. CASE ResolveExpired(p)
  BY <1>4 DEF ResolveExpired
<1>5. CASE ExecuteCheck(p)
  BY <1>5 DEF ExecuteCheck, OpenedAlready
<1>6. CASE ExecuteTurnedDown(p)
  BY <1>6 DEF ExecuteTurnedDown
<1>7. CASE ExecuteSaveWait(p)
  BY <1>7 DEF ExecuteSaveWait
<1>8. CASE ExecuteWait(p)
  BY <1>8 DEF ExecuteWait
<1>9. CASE ExecuteOpen(p)
  <2>1. \A q \in Procs : pc[q] = "X_room" /\ job[q] = job[p] => q = p
    BY <1>9 DEF ExecuteOpen, LockInv, EntryHeld
  <2>2. \A q \in Procs : pc'[q] = "X_room" => q # p /\ pc[q] = "X_room" /\ job'[q] = job[q]
    BY <1>9 DEF ExecuteOpen
  <2>3. \A t \in Signals : t # job[p] => opened'[t] = opened[t]
    BY <1>9 DEF ExecuteOpen
  <2> QED BY <2>1, <2>2, <2>3
<1>10. CASE ExecuteRaise(p)
  BY <1>10 DEF ExecuteRaise
<1>11. CASE WaitRead(p)
  BY <1>11 DEF WaitRead
<1>12. CASE WaitSet(p)
  BY <1>12 DEF WaitSet
<1>13. CASE Reject(p)
  BY <1>13 DEF Reject
<1>14. CASE ManagementRead(p)
  BY <1>14 DEF ManagementRead
<1>15. CASE ManagementCancel(p)
  BY <1>15 DEF ManagementCancel
<1> QED BY <1>1, <1>2, <1>3, <1>4, <1>5, <1>6, <1>7, <1>8, <1>9, <1>10, <1>11, <1>12,
  <1>13, <1>14, <1>15 DEF Step

LEMMA OpensLoop ==
  ASSUME TypeOK, JobInv, LockInv, OpensOnce, LoopStep
  PROVE  OpensOnce'
<1> USE DEF TypeOK, JobInv, Jobless, hand, table, Leave, Done, Return, Goto, OutOfZone,
  OpensOnce
<1>1. CASE LoopExpire
  BY <1>1 DEF LoopExpire
<1>2. CASE LoopAdopt
  BY <1>2 DEF LoopAdopt
<1>3. CASE LoopRows
  BY <1>3 DEF LoopRows
<1>4. CASE LoopNext
  BY <1>4 DEF LoopNext
<1>5. CASE LoopTicker
  BY <1>5 DEF LoopTicker
<1>6. CASE LoopDrop
  BY <1>6 DEF LoopDrop
<1> QED BY <1>1, <1>2, <1>3, <1>4, <1>5, <1>6 DEF LoopStep

\* APPROVED is written by ApproveSettle on "ok".
LEMMA ApprovedStep ==
  ASSUME TypeOK, JobInv, ApprovingInv, SettleInv, ApprovedWasOpened, NEW p \in Procs,
    Step(p)
  PROVE  ApprovedWasOpened'
<1> USE DEF TypeOK, JobInv, Jobless, table, ApprovedWasOpened, Transition, Resolve,
  Refuse, SavePending
<1>1. CASE ApproveRead(p)
  BY <1>1 DEF ApproveRead
<1>2. CASE ApproveClaim(p)
  BY <1>2 DEF ApproveClaim
<1>3. CASE ApproveSettle(p)
  BY <1>3 DEF ApproveSettle, ApprovingInv, Approving, Actionable, SettleInv, Settlement,
    ReleasedTo
<1>4. CASE ResolveExpired(p)
  BY <1>4 DEF ResolveExpired
<1>5. CASE ExecuteCheck(p)
  BY <1>5 DEF ExecuteCheck
<1>6. CASE ExecuteTurnedDown(p)
  BY <1>6 DEF ExecuteTurnedDown
<1>7. CASE ExecuteSaveWait(p)
  BY <1>7 DEF ExecuteSaveWait
<1>8. CASE ExecuteWait(p)
  BY <1>8 DEF ExecuteWait
<1>9. CASE ExecuteOpen(p)
  BY <1>9 DEF ExecuteOpen
<1>10. CASE ExecuteRaise(p)
  BY <1>10 DEF ExecuteRaise
<1>11. CASE WaitRead(p)
  BY <1>11 DEF WaitRead
<1>12. CASE WaitSet(p)
  BY <1>12 DEF WaitSet
<1>13. CASE Reject(p)
  BY <1>13 DEF Reject
<1>14. CASE ManagementRead(p)
  BY <1>14 DEF ManagementRead
<1>15. CASE ManagementCancel(p)
  BY <1>15 DEF ManagementCancel
<1> QED BY <1>1, <1>2, <1>3, <1>4, <1>5, <1>6, <1>7, <1>8, <1>9, <1>10, <1>11, <1>12,
  <1>13, <1>14, <1>15 DEF Step

LEMMA ApprovedLoop ==
  ASSUME TypeOK, JobInv, ApprovingInv, SettleInv, ApprovedWasOpened, LoopStep
  PROVE  ApprovedWasOpened'
<1> USE DEF TypeOK, JobInv, Jobless, table, ApprovedWasOpened, Transition, Resolve,
  Refuse, SavePending
<1>1. CASE LoopExpire
  BY <1>1 DEF LoopExpire
<1>2. CASE LoopAdopt
  BY <1>2 DEF LoopAdopt
<1>3. CASE LoopRows
  BY <1>3 DEF LoopRows
<1>4. CASE LoopNext
  BY <1>4 DEF LoopNext
<1>5. CASE LoopTicker
  BY <1>5 DEF LoopTicker
<1>6. CASE LoopDrop
  BY <1>6 DEF LoopDrop
<1> QED BY <1>1, <1>2, <1>3, <1>4, <1>5, <1>6 DEF LoopStep

-----------------------------------------------------------------------------
(***************************************************************************)
(* The rest of the steps: locks, requests, the world, restarts.            *)
(***************************************************************************)
\* Nothing but who stands where: no decision, refusal or trade changes.
LEMMA QuietStep ==
  ASSUME TypeOK, IInv, NEW p \in Procs, NEW l \in Labels, NEW j \in Signals,
         l \notin Jobless \cup {"A_settle", "X_room", "X_wait"} \cup SymbolHeld \cup
           EntryHeld,
         l = "X_entry" => was[p] = Absent,
         pc[p] \in {"idle"}, Goto(p, l), job' = [job EXCEPT ![p] = j],
         UNCHANGED <<was, result, decision, opened, refused, mode, locks>>
  PROVE  IInv'
<1>1. JobInv'
  BY DEF IInv, JobInv, Goto, TypeOK
<1>2. LockInv'
  BY DEF IInv, LockInv, Goto, TypeOK, locks
<1>3. RefusedInv' /\ ApprovedWasOpened'
  BY DEF IInv, RefusedInv, ApprovedWasOpened
<1>4. \A q \in Procs, t \in Signals : Claims(q, t)' => Claims(q, t)
  BY DEF TypeOK, Claims, Claimed, Approving, Goto, Actionable, Absent, EntryHeld, SymbolHeld
<1>5. ClaimedInv' /\ OneDecider'
  BY <1>4 DEF IInv, ClaimedInv, OneDecider
<1>6. ApprovingInv'
  BY DEF IInv, ApprovingInv, Approving, Manual, Goto, TypeOK
<1>7. SettleInv' /\ OpensOnce'
  BY DEF IInv, SettleInv, OpensOnce, Goto, TypeOK
<1> QED BY <1>1, <1>2, <1>3, <1>5, <1>6, <1>7 DEF IInv

\* A request finds an idle worker, whose locals are empty.
LEMMA RequestStep ==
  ASSUME TypeOK, IInv, NEW p \in Workers, NEW t \in Signals, Request(p, t)
  PROVE  IInv'
<1>1. CASE DeliverExecute(p, t)
  <2>1. was[p] = Absent
    BY <1>1 DEF DeliverExecute, IInv, JobInv
  <2> QED BY <1>1, <2>1, Sorts, QuietStep DEF DeliverExecute, table, hand, Jobless,
    SymbolHeld, EntryHeld
<1>2. ASSUME NEW l \in {"A_read", "W_read", "J_set", "expire", "M_symbol"}, Command(p, t, l)
      PROVE  IInv'
  BY <1>2, Sorts, QuietStep DEF Command, table, hand, Jobless, SymbolHeld, EntryHeld
<1> QED BY <1>1, <1>2 DEF Request, PressButton, ApproveExpired, ManagementClose

\* The price tasks; the clock and the tickers touch nothing else.
LEMMA WorldStep ==
  ASSUME TypeOK, IInv, World \/ UNCHANGED vars
  PROVE  IInv'
<1>1. ASSUME NEW t \in Signals, PriceTaskExpires(t) PROVE IInv'
  BY <1>1, Sorts, QuietStep DEF PriceTaskExpires, table, hand, Jobless, SymbolHeld,
    EntryHeld
<1>2. CASE UNCHANGED <<table, opened, mode, locks, pc, hand, refused>>
  BY <1>2 DEF table, locks, hand, IInv, JobInv, LockInv, RefusedInv, ClaimedInv,
    ApprovingInv,
    SettleInv, OneDecider, OpensOnce, ApprovedWasOpened, Claims, Approving, Manual
<1> QED BY <1>1, <1>2 DEF World, Expire, Delist, vars

\* A lock is taken only when it is free.
LEMMA LockingStep ==
  ASSUME TypeOK, IInv, NEW p \in Procs, Locking(p)
  PROVE  IInv'
<1> USE DEF table, hand
<1>0. UNCHANGED <<decision, opened, refused, mode, job, was, result>>
  BY DEF Locking, LockEntry, LockSymbol
<1>1. /\ UNCHANGED <<decision, opened, refused, mode, job, was, result>>
      /\ \A q \in Procs \ {p} : pc'[q] = pc[q]
      /\ \/ pc[p] = "X_entry" /\ pc'[p] = "X_symbol"
         \/ pc[p] = "X_symbol" /\ pc'[p] = "X_check"
         \/ pc[p] = "M_symbol" /\ pc'[p] = "M_read"
  <2>1. CASE LockEntry(p)
    BY <1>0, <2>1 DEF LockEntry, Goto, TypeOK
  <2>2. CASE LockSymbol(p)
    BY <1>0, <2>2 DEF LockSymbol, Goto, TypeOK
  <2> QED BY <2>1, <2>2 DEF Locking
<1>2. JobInv'
  BY <1>1 DEF IInv, JobInv, Jobless
<1>3. LockInv'
  <2>1. CASE LockEntry(p)
    BY <2>1, ConstantsAssumption DEF LockEntry, Goto, TypeOK, IInv, LockInv, EntryHeld,
      SymbolHeld
  <2>2. CASE LockSymbol(p)
    <3>1. ASSUME NEW q \in Procs, pc'[q] \in EntryHeld PROVE entryLock' = q
      BY <1>1, <2>2, <3>1 DEF LockSymbol, IInv, LockInv, EntryHeld
    <3>2. ASSUME NEW q \in Procs, pc'[q] \in SymbolHeld PROVE symLock'[SymbolOf[job'[q]]]
      = q
      <4>1. CASE q = p
        <5>1. SymbolOf[job[p]] \in Symbols
          BY <1>1, ConstantsAssumption DEF IInv, JobInv, Jobless
        <5> QED BY <1>1, <2>2, <4>1, <5>1 DEF LockSymbol, TypeOK
      <4>2. CASE q # p
        <5>1. symLock[SymbolOf[job[q]]] = q
          BY <1>1, <3>2, <4>2 DEF IInv, LockInv
        <5>2. SymbolOf[job[q]] # SymbolOf[job[p]]
          BY <2>2, <5>1, ConstantsAssumption DEF LockSymbol
        <5> QED BY <1>1, <2>2, <5>1, <5>2 DEF LockSymbol, TypeOK
      <4> QED BY <4>1, <4>2
    <3> QED BY <3>1, <3>2 DEF LockInv
  <2> QED BY <2>1, <2>2 DEF Locking
<1>4. RefusedInv' /\ ApprovedWasOpened'
  BY <1>1 DEF IInv, RefusedInv, ApprovedWasOpened
<1>5. \A q \in Procs, t \in Signals : Claims(q, t)' => Claims(q, t)
  BY <1>1 DEF Claims, Claimed, Approving
<1>6. ClaimedInv' /\ OneDecider'
  BY <1>1, <1>5 DEF IInv, ClaimedInv, OneDecider
<1>7. ApprovingInv' /\ SettleInv' /\ OpensOnce'
  BY <1>1 DEF IInv, ApprovingInv, Approving, Manual, SettleInv, OpensOnce
<1> QED BY <1>2, <1>3, <1>4, <1>6, <1>7 DEF IInv

\* A restart leaves no claim and no lock behind.
LEMMA RestartStep ==
  ASSUME TypeOK, IInv, Restart
  PROVE  IInv'
<1>1. \A p \in Procs : pc'[p] = "idle" /\ was'[p] = Absent
  BY DEF Restart
<1>2. \A p \in Procs, t \in Signals : ~Claims(p, t)'
  BY <1>1 DEF Claims, Claimed
<1>3. RefusedInv' /\ ApprovedWasOpened'
  BY DEF Restart, GivenBack, IInv, RefusedInv, ApprovedWasOpened, Final, TypeOK
<1> QED BY <1>1, <1>2, <1>3 DEF IInv, JobInv, Jobless, LockInv, EntryHeld, SymbolHeld,
  ClaimedInv, ApprovingInv, SettleInv, OneDecider, OpensOnce

-----------------------------------------------------------------------------
(***************************************************************************)
(* The invariant and what follows from it.                                 *)
(***************************************************************************)
\* Every step keeps IInv.
LEMMA InvariantStep ==
  ASSUME TypeOK, IInv, [Next]_vars
  PROVE  IInv'
<1>1. ASSUME NEW p \in Procs, Step(p) PROVE IInv'
  BY <1>1, JobLockStep, RefusedStep, ApprovingStep, ClaimedStep, SettleStep, OpensStep,
    ApprovedStep DEF IInv
<1>2. CASE LoopStep
  <2>1. ClaimedInv' /\ OneDecider'
    BY <1>2, ClaimedStep DEF IInv
  <2> QED BY <1>2, <2>1, JobLockLoop, RefusedLoop, ApprovingLoop, SettleLoop, OpensLoop,
    ApprovedLoop DEF IInv
<1> QED BY <1>1, <1>2, RequestStep, WorldStep, LockingStep, RestartStep DEF Next

\* TypeOK and IInv hold in every reachable state of every instance.
THEOREM Invariant == Spec => [](TypeOK /\ IInv)
<1>1. Init => TypeOK /\ IInv
  <2> SUFFICES ASSUME Init PROVE TypeOK /\ IInv
    OBVIOUS
  <2>1. TypeOK
    BY ConstantsAssumption, Sorts DEF Init, TypeOK, Results
  <2>2. IInv
    BY DEF Init, IInv, JobInv, Jobless, LockInv, EntryHeld, SymbolHeld, RefusedInv,
      ClaimedInv,
      ApprovingInv, SettleInv, OneDecider, OpensOnce, ApprovedWasOpened, Claims, Claimed,
        Absent
  <2> QED BY <2>1, <2>2
<1>2. TypeOK /\ IInv /\ [Next]_vars => (TypeOK /\ IInv)'
  BY TypeStep, InvariantStep
<1> QED BY <1>1, <1>2, PTL DEF Spec

\* Buttons, commands and waiting_entry_loop never act on one decision at once
\* (claim_pending).
THEOREM OneDeciderHolds == Spec => []OneDecider
<1>1. IInv => OneDecider
  BY DEF IInv
<1> QED BY <1>1, Invariant, PTL

\* A signal is never tried again once it has its trade (execute).
THEOREM OpensOnceHolds == Spec => []OpensOnce
<1>1. IInv => OpensOnce
  BY DEF IInv
<1> QED BY <1>1, Invariant, PTL

\* APPROVED means that the trade exists (approve_pending_signal).
THEOREM ApprovedWasOpenedHolds == Spec => []ApprovedWasOpened
<1>1. IInv => ApprovedWasOpened
  BY DEF IInv
<1> QED BY <1>1, Invariant, PTL

\* Only ExecuteOpen opens a trade.
LEMMA OpenedBy ==
  ASSUME TypeOK, IInv, [Next]_vars, NEW t \in Signals, opened'[t], ~opened[t]
  PROVE  \E p \in Procs : ExecuteOpen(p) /\ job[p] = t
<1> USE DEF table, world, locks, hand, bounds
<1>1. ASSUME opened' = opened PROVE FALSE
  BY <1>1
<1>2. ASSUME NEW p \in Procs, ExecuteOpen(p) PROVE job[p] = t
  BY <1>2 DEF ExecuteOpen, TypeOK
<1>3. ASSUME NEW p \in Procs, Step(p), ~ExecuteOpen(p) PROVE opened' = opened
  BY <1>3 DEF Step, ApproveRead, ApproveClaim, ApproveSettle, ResolveExpired, ExecuteCheck,
    ExecuteTurnedDown, ExecuteSaveWait, ExecuteWait, ExecuteRaise, WaitRead, WaitSet,
      Reject,
    ManagementRead, ManagementCancel
<1>4. ASSUME ~\E p \in Procs : Step(p) PROVE opened' = opened
  BY <1>4 DEF Next, Locking, LockEntry, LockSymbol, LoopStep, LoopExpire, LoopAdopt,
    LoopRows,
    LoopNext, LoopTicker, LoopDrop, Request, DeliverExecute, PressButton, ApproveExpired,
    ManagementClose, Command, World, PriceTaskExpires, Expire, Delist, Restart, vars
<1> QED BY <1>1, <1>2, <1>3, <1>4

\* SHADOW_MANUAL: what was rejected, cancelled or superseded stays unopened, for any
\* number of operators, redeliveries and restarts.
THEOREM RefusalStandsHolds == Spec => RefusalStands
<1>1. TypeOK /\ IInv /\ [Next]_vars =>
        [\A t \in Signals : Manual /\ refused[t] /\ opened'[t] => opened[t]]_vars
  <2> SUFFICES ASSUME TypeOK, IInv, [Next]_vars, NEW t \in Signals,
                      Manual, refused[t], opened'[t], ~opened[t]
               PROVE  FALSE
    OBVIOUS
  <2>1. PICK p \in Procs : ExecuteOpen(p) /\ job[p] = t
    BY OpenedBy
  <2>2. Claims(p, t)
    BY <2>1 DEF ExecuteOpen, IInv, ApprovingInv, Claims, Claimed
  <2> QED BY <2>2 DEF IInv, ClaimedInv
<1> QED BY <1>1, Invariant, PTL DEF Spec, RefusalStands

=============================================================================
