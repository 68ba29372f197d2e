--------------------------- MODULE PendingSignals ---------------------------
(***************************************************************************)
(* Decisions about signals that are not executed at once                   *)
(* (pending_signals in apps/autotrader/storage.py; executor.py).  In       *)
(* SHADOW_MANUAL mode a signal the shadow blocks waits for an operator; in *)
(* ALL_EXECUTE mode one outside its entry zone waits for the price.        *)
(*                                                                         *)
(* Discord buttons and commands, bridge requests, waiting_entry_loop and   *)
(* one price task per decision read a row, await, and then change it by a  *)
(* compare-and-set (transition_pending): each step below is one such       *)
(* database call.  The trade itself is DemoExecutor's; here it is opened   *)
(* or not.                                                                 *)
(***************************************************************************)
EXTENDS Naturals, FiniteSets

CONSTANTS
  Signals,       \* signal ids, one row of pending_signals each
  Symbols, SymbolOf,
  Workers,       \* coroutines serving bridge requests, buttons and Discord commands
  Loop,          \* waiting_entry_loop
  None,          \* no coroutine, no signal
  Modes,         \* values cfg.execution_mode may have at a start
  Delistable,    \* symbols whose ticker may start to fail for good
  MaxDeliveries, \* bound: EXECUTE requests per signal
  MaxCommands,   \* bound: operator commands and management events
  MaxFaults,     \* bound: ticker calls that fail once
  MaxCrashes,    \* bound: process crashes
  MaxEvents      \* bound: commands and crashes together

\* The price task of a decision (_pending_price_loop) is known by the signal.
Procs == Workers \cup {Loop} \cup Signals
AllModes == {"SHADOW_MANUAL", "ALL_EXECUTE"}

ASSUME ConstantsAssumption ==
  /\ IsFiniteSet(Signals)
  /\ SymbolOf \in [Signals -> Symbols]
  /\ Workers \cap Signals = {}
  /\ Loop \notin Workers \cup Signals
  /\ None \notin Procs
  /\ Modes \subseteq AllModes
  /\ Delistable \subseteq Symbols
  /\ {MaxDeliveries, MaxCommands, MaxFaults, MaxCrashes, MaxEvents} \subseteq Nat

Absent == "ABSENT"                      \* no row yet
Actionable == {"PENDING", "WAITING_ENTRY"}
Unresolved == Actionable \cup {"PROCESSING"}
Final == {"APPROVED", "SKIPPED", "EXPIRED", "CANCELLED", "SUPERSEDED"}
Decisions == {Absent} \cup Unresolved \cup Final

\* What execute and approve_pending_signal return, by what their callers do with it.
Results == {"ok", "retry", "orphan", "final", "error"}

SymbolHeld == {"X_check", "X_room", "X_wait", "M_read", "M_cancel"}
EntryHeld == {"X_symbol", "X_check", "X_room", "X_wait"}
Labels == SymbolHeld \cup EntryHeld \cup
  {"idle", "A_read", "A_claim", "A_settle", "X_entry", "expire", "W_read", "W_set",
   "J_set", "M_symbol", "L_pending", "L_adopt", "L_rows", "L_next", "L_ticker", "L_drop"}

VARIABLES
  decision, saved,            \* SQLite: pending_signals (status; received_at as a rank)
  opened,                     \* SQLite: the signal has a trade
  mode,                       \* cfg.execution_mode of this process
  expired, delisted,          \* the clock has passed expires_at; tickers that fail
  entryLock, symLock,         \* owners of the asyncio locks of entry_guard
  pc, job, was, result,       \* coroutines: label, signal, status as read, outcome
  rows,                       \* waiting_entry_loop: rows still to visit
  deliveries, commands, faults, crashes,   \* counters that bound the environment
  refused                     \* history: rejected, cancelled or superseded

table == <<decision, saved>>
world == <<expired, delisted>>
locks == <<entryLock, symLock>>
hand == <<job, was, result>>
bounds == <<deliveries, commands, crashes>>
vars == <<table, opened, mode, world, locks, pc, hand, rows, bounds, faults, refused>>

TypeOK ==
  /\ decision \in [Signals -> Decisions] /\ saved \in [Signals -> Nat]
  /\ opened \in [Signals -> BOOLEAN]
  /\ mode \in AllModes
  /\ expired \in [Signals -> BOOLEAN] /\ delisted \in SUBSET Symbols
  /\ entryLock \in Procs \cup {None} /\ symLock \in [Symbols -> Procs \cup {None}]
  /\ pc \in [Procs -> Labels] /\ job \in [Procs -> Signals \cup {None}]
  /\ was \in [Procs -> Decisions] /\ result \in [Procs -> Results]
  /\ rows \in SUBSET Signals
  /\ deliveries \in [Signals -> Nat] /\ commands \in Nat
  /\ faults \in Nat /\ crashes \in Nat
  /\ refused \in [Signals -> BOOLEAN]

Init ==
  /\ decision = [t \in Signals |-> Absent] /\ saved = [t \in Signals |-> 0]
  /\ opened = [t \in Signals |-> FALSE]
  /\ mode \in Modes
  /\ expired = [t \in Signals |-> FALSE] /\ delisted = {}
  /\ entryLock = None /\ symLock = [s \in Symbols |-> None]
  /\ pc = [p \in Procs |-> "idle"] /\ job = [p \in Procs |-> None]
  /\ was = [p \in Procs |-> Absent] /\ result = [p \in Procs |-> "ok"]
  /\ rows = {}
  /\ deliveries = [t \in Signals |-> 0] /\ commands = 0 /\ faults = 0 /\ crashes = 0
  /\ refused = [t \in Signals |-> FALSE]

-----------------------------------------------------------------------------
(***************************************************************************)
(* The table.                                                              *)
(***************************************************************************)
Manual == mode = "SHADOW_MANUAL"
Goto(p, l) == pc' = [pc EXCEPT ![p] = l]

\* A handler ends, and its local variables with it.
Leave(p, l) ==
  /\ Goto(p, l)
  /\ job' = [job EXCEPT ![p] = None]
  /\ was' = [was EXCEPT ![p] = Absent]
  /\ result' = [result EXCEPT ![p] = "ok"]
Eventful == commands + crashes < MaxEvents
Fault == faults < MaxFaults /\ faults' = faults + 1

\* transition_pending: nothing happens unless the row is still in one of `from`.
Transition(t, from, to) ==
  decision' = IF decision[t] \in from THEN [decision EXCEPT ![t] = to] ELSE decision

\* resolve_pending and its default from_statuses.
Resolve(t, to) == Transition(t, Unresolved, to)

ClaimableAlways == Unresolved           \* mutant: claims what is claimed
Claimable == Actionable

\* A refusal does not reach a decision that is being executed.
RefusableAlways == Unresolved           \* mutant: the default from_statuses
Refusable == Actionable
Refuse(t, to) ==
  /\ Transition(t, Refusable, to)
  /\ refused' = [refused EXCEPT ![t] = @ \/ decision[t] \in Refusable]

\* save_pending, for a signal without a row: older decisions of the symbol give way.
Superseded(t) == {u \in Signals \ {t} : SymbolOf[u] = SymbolOf[t] /\ decision[u] \in Actionable}
SavePending(t) ==
  /\ decision' = [u \in Signals |-> IF u = t THEN "PENDING"
                                    ELSE IF u \in Superseded(t) THEN "SUPERSEDED"
                                    ELSE decision[u]]
  /\ refused' = [u \in Signals |-> refused[u] \/ u \in Superseded(t)]
  /\ saved' = [saved EXCEPT ![t] = 1 + Cardinality({u \in Signals : saved[u] > 0})]

\* pending_for_symbol: the newest unresolved decision of the symbol.
UnresolvedOn(s) == {t \in Signals : SymbolOf[t] = s /\ decision[t] \in Unresolved}
IsPendingFor(t, s) == t \in UnresolvedOn(s) /\ \A u \in UnresolvedOn(s) : saved[u] <= saved[t]

\* Back from approve_pending_signal.  waiting_entry_loop goes on after "ok" and
\* what may be retried, resolves the row after any other reason, and starts over
\* after an exception.  Its list lacks orphan_remote_position.
Done(p, r) ==
  IF p = Loop /\ r \in {"orphan", "final"}
  THEN Goto(p, "L_drop") /\ UNCHANGED hand
  ELSE Leave(p, IF p = Loop /\ r # "error" THEN "L_next" ELSE "idle")

-----------------------------------------------------------------------------
(***************************************************************************)
(* approve_pending_signal, called by buttons, /demo_approve and the loop.  *)
(***************************************************************************)
ApproveRead(p) ==
  /\ pc[p] = "A_read"
  /\ IF decision[job[p]] \notin Actionable THEN Done(p, "final")
     ELSE /\ was' = [was EXCEPT ![p] = decision[job[p]]]
          /\ Goto(p, IF expired[job[p]] THEN "expire" ELSE "A_claim")
          /\ UNCHANGED <<job, result>>
  /\ UNCHANGED <<table, opened, mode, world, locks, rows, bounds, faults, refused>>

\* claim_pending; its loser is told decision_already_claimed.
ApproveClaim(p) ==
  /\ pc[p] = "A_claim"
  /\ Transition(job[p], Claimable, "PROCESSING")
  /\ IF decision[job[p]] \in Claimable THEN Goto(p, "X_entry") /\ UNCHANGED hand
                                       ELSE Done(p, "final")
  /\ UNCHANGED <<saved, opened, mode, world, locks, rows, bounds, faults, refused>>

\* The claimed decision is approved, released to what it was, or skipped.
ReleasedTo(p) == was[p]
Settlement(p) ==
  CASE result[p] = "ok" -> "APPROVED"
    [] result[p] \in {"retry", "orphan", "error"} -> ReleasedTo(p)
    [] OTHER -> "SKIPPED"

ApproveSettle(p) ==
  /\ pc[p] = "A_settle"
  /\ Transition(job[p], {"PROCESSING"}, Settlement(p))
  /\ Done(p, result[p])
  /\ UNCHANGED <<saved, opened, mode, world, locks, rows, bounds, faults, refused>>

\* Wherever the clock is found past expires_at (approve, wait, the loop, the price
\* task): EXPIRED, also when another task has claimed the decision since it was
\* read.  The row is final afterwards, so what the loop does next changes nothing.
ResolveExpired(p) ==
  /\ pc[p] = "expire"
  /\ Resolve(job[p], "EXPIRED")
  /\ Done(p, "final")
  /\ UNCHANGED <<saved, opened, mode, world, locks, rows, bounds, faults, refused>>

-----------------------------------------------------------------------------
(***************************************************************************)
(* execute, as far as decisions and the existence of the trade go.         *)
(***************************************************************************)
\* Called by approve_pending_signal, or by the bridge with a signal the shadow blocks.
Approving(p) == was[p] \in Actionable

DeliverExecute(p, t) ==
  /\ pc[p] = "idle" /\ deliveries[t] < MaxDeliveries
  /\ deliveries' = [deliveries EXCEPT ![t] = @ + 1]
  /\ job' = [job EXCEPT ![p] = t]
  /\ Goto(p, "X_entry")
  /\ UNCHANGED <<table, opened, mode, world, locks, was, result, rows, commands, crashes,
                 faults, refused>>

LockEntry(p) ==
  /\ pc[p] = "X_entry" /\ entryLock = None
  /\ entryLock' = p
  /\ Goto(p, "X_symbol")
  /\ UNCHANGED <<table, opened, mode, world, symLock, hand, rows, bounds, faults, refused>>

LockSymbol(p) ==
  /\ \/ pc[p] = "X_symbol" /\ Goto(p, "X_check")
     \/ pc[p] = "M_symbol" /\ Goto(p, "M_read")
  /\ symLock[SymbolOf[job[p]]] = None
  /\ symLock' = [symLock EXCEPT ![SymbolOf[job[p]]] = p]
  /\ UNCHANGED <<table, opened, mode, world, entryLock, hand, rows, bounds, faults, refused>>

\* Leave entry_guard with an answer.
Return(p, r) ==
  /\ entryLock' = None
  /\ symLock' = [symLock EXCEPT ![SymbolOf[job[p]]] = None]
  /\ IF Approving(p)
     THEN result' = [result EXCEPT ![p] = r] /\ Goto(p, "A_settle") /\ UNCHANGED <<job, was>>
     ELSE Leave(p, "idle")

OpenedAlready(t) == opened[t]

\* Duplicate; expired; blocked by the shadow and not decided (saved unless it is
\* there already); or on to the checks of the portfolio and the market.
ExecuteCheck(p) ==
  /\ pc[p] = "X_check"
  /\ IF OpenedAlready(job[p])
     THEN Return(p, "ok") /\ UNCHANGED <<table, refused>>
     ELSE IF expired[job[p]] \/ (Manual /\ ~Approving(p) /\ decision[job[p]] # Absent)
     THEN Return(p, "final") /\ UNCHANGED <<table, refused>>
     ELSE IF Manual /\ ~Approving(p)
     THEN Return(p, "final") /\ SavePending(job[p])
     ELSE Goto(p, "X_room") /\ UNCHANGED <<table, refused, locks, hand>>
  /\ UNCHANGED <<opened, mode, world, rows, bounds, faults>>

\* Paused, over the cap, short of margin, or outside the window: may be retried.
\* Orphan position on the account.  Symbol busy, TP1 passed, no leverage: final.
ExecuteTurnedDown(p) ==
  /\ pc[p] = "X_room"
  /\ \E r \in {"retry", "orphan", "final"} : Return(p, r)
  /\ UNCHANGED <<table, opened, mode, world, rows, bounds, faults, refused>>

\* Outside the entry zone, from the bridge in ALL_EXECUTE mode: wait, unless the
\* signal has a row.
ExecuteSaveWait(p) ==
  /\ pc[p] = "X_room" /\ ~Manual /\ ~Approving(p)
  /\ SymbolOf[job[p]] \notin delisted
  /\ IF decision[job[p]] = Absent
     THEN SavePending(job[p]) /\ Goto(p, "X_wait") /\ UNCHANGED <<locks, hand>>
     ELSE Return(p, "final") /\ UNCHANGED <<table, refused>>
  /\ UNCHANGED <<opened, mode, world, rows, bounds, faults>>

\* set_pending_waiting, a transaction of its own; it raises if the row is no longer
\* PENDING, and the bridge answers 500.
ExecuteWait(p) ==
  /\ pc[p] = "X_wait"
  /\ Transition(job[p], {"PENDING"}, "WAITING_ENTRY")
  /\ Return(p, "final")
  /\ UNCHANGED <<saved, opened, mode, world, rows, bounds, faults, refused>>

\* create_trade and the rest.  The contract's agreement is found missing (the trade
\* is ERROR_FLAT), or an exception comes after the trade exists.
ExecuteOpen(p) ==
  /\ pc[p] = "X_room" /\ SymbolOf[job[p]] \notin delisted
  /\ opened' = [opened EXCEPT ![job[p]] = TRUE]
  /\ \E r \in {"ok", "final", "error"} : Return(p, r)
  /\ UNCHANGED <<table, mode, world, rows, bounds, faults, refused>>

\* An exception before the trade exists: a call that failed, or an empty wallet, an
\* order that no lot size and cap allow, a risk over the budget.  These last as long
\* as the account and the market, so no bound is set on how often it happens.
ExecuteRaise(p) ==
  /\ pc[p] = "X_room"
  /\ Return(p, "error")
  /\ UNCHANGED <<table, opened, mode, world, rows, bounds, faults, refused>>

-----------------------------------------------------------------------------
(***************************************************************************)
(* Operators (SHADOW_MANUAL only: the buttons and commands refuse to act   *)
(* in the other mode), and the scanner's management events.                *)
(***************************************************************************)
Command(p, t, l) ==
  /\ pc[p] = "idle" /\ commands < MaxCommands /\ Eventful
  /\ commands' = commands + 1
  /\ job' = [job EXCEPT ![p] = t]
  /\ Goto(p, l)
  /\ UNCHANGED <<table, opened, mode, world, locks, was, result, rows, deliveries, crashes,
                 faults, refused>>

\* The buttons of a decision's message; /demo_approve and /demo_skip lead to the
\* same calls for the newest decision of a symbol.
PressButton(p, t) ==
  /\ Manual /\ decision[t] # Absent
  /\ \E l \in {"A_read", "W_read", "J_set"} : Command(p, t, l)

\* approve_pending tests expires_at first, whatever the status of the row.
ApproveExpired(p, t) ==
  /\ Manual /\ IsPendingFor(t, SymbolOf[t]) /\ expired[t]
  /\ Command(p, t, "expire")

\* wait_pending_signal.
WaitRead(p) ==
  /\ pc[p] = "W_read"
  /\ IF decision[job[p]] \notin Actionable THEN Leave(p, "idle")
     ELSE Goto(p, IF expired[job[p]] THEN "expire" ELSE "W_set") /\ UNCHANGED hand
  /\ UNCHANGED <<table, opened, mode, world, locks, rows, bounds, faults, refused>>

WaitSet(p) ==
  /\ pc[p] = "W_set"
  /\ Transition(job[p], {"PENDING"}, "WAITING_ENTRY")
  /\ Leave(p, "idle")
  /\ UNCHANGED <<saved, opened, mode, world, locks, rows, bounds, faults, refused>>

\* skip_pending_signal, skip_pending.
Reject(p) ==
  /\ pc[p] = "J_set"
  /\ Refuse(job[p], "SKIPPED")
  /\ Leave(p, "idle")
  /\ UNCHANGED <<saved, opened, mode, world, locks, rows, bounds, faults>>

\* management: a closing action of the scanner for the signal.
ManagementClose(p, t) == Command(p, t, "M_symbol")

FreeSymbol(p) == symLock' = [symLock EXCEPT ![SymbolOf[job[p]]] = None]

\* Skipped if the signal is not the symbol's newest decision, or if it is being
\* executed; an open trade is closed instead (DemoExecutor).
ManagementRead(p) ==
  /\ pc[p] = "M_read"
  /\ \/ /\ IsPendingFor(job[p], SymbolOf[job[p]]) /\ decision[job[p]] # "PROCESSING"
        /\ Goto(p, "M_cancel") /\ UNCHANGED <<symLock, hand>>
     \/ /\ \/ ~IsPendingFor(job[p], SymbolOf[job[p]])
           \/ decision[job[p]] = "PROCESSING"
           \/ \E u \in Signals : SymbolOf[u] = SymbolOf[job[p]] /\ opened[u]
        /\ FreeSymbol(p) /\ Leave(p, "idle")
  /\ UNCHANGED <<table, opened, mode, world, entryLock, rows, bounds, faults, refused>>

\* _apply_management; it raises when the decision changed meanwhile.
ManagementCancel(p) ==
  /\ pc[p] = "M_cancel"
  /\ Refuse(job[p], "CANCELLED")
  /\ FreeSymbol(p) /\ Leave(p, "idle")
  /\ UNCHANGED <<saved, opened, mode, world, entryLock, rows, bounds, faults>>

-----------------------------------------------------------------------------
(***************************************************************************)
(* waiting_entry_loop, the price tasks, the world and restarts.            *)
(***************************************************************************)
\* expire_pending.
ExpiringWaits == {"WAITING_ENTRY"}      \* mutant: forgets what nobody decided
Expiring == Actionable
LoopExpire ==
  /\ pc[Loop] = "idle"
  /\ decision' = [t \in Signals |-> IF decision[t] \in Expiring /\ expired[t]
                                    THEN "EXPIRED" ELSE decision[t]]
  /\ rows' = {}
  /\ Goto(Loop, IF Manual THEN "L_rows" ELSE "L_pending")
  /\ UNCHANGED <<saved, opened, mode, world, locks, hand, bounds, faults, refused>>

\* pending, in ALL_EXECUTE mode, and waiting_entry.
LoopRows ==
  /\ \/ /\ pc[Loop] = "L_pending" /\ Goto(Loop, "L_adopt")
        /\ rows' = {t \in Signals : decision[t] = "PENDING"}
     \/ /\ pc[Loop] = "L_rows" /\ Goto(Loop, "L_next")
        /\ rows' = {t \in Signals : decision[t] = "WAITING_ENTRY"}
  /\ UNCHANGED <<table, opened, mode, world, locks, hand, bounds, faults, refused>>

\* ALL_EXECUTE: set_pending_waiting on every row read as PENDING, newest first.
LoopAdopt ==
  /\ pc[Loop] = "L_adopt"
  /\ \/ rows = {} /\ Goto(Loop, "L_rows") /\ UNCHANGED <<decision, rows>>
     \/ \E t \in rows :
          /\ \A u \in rows : saved[u] <= saved[t]
          /\ rows' = rows \ {t}
          /\ Transition(t, {"PENDING"}, "WAITING_ENTRY")
          /\ UNCHANGED pc
  /\ UNCHANGED <<saved, opened, mode, world, locks, hand, bounds, faults, refused>>

\* The rows in the order received; one that has expired is resolved.
NewestFirst(t, u) == saved[t] >= saved[u]   \* mutant: the order of pending()
OldestFirst(t, u) == saved[t] <= saved[u]
LoopNext ==
  /\ pc[Loop] = "L_next"
  /\ \/ rows = {} /\ Goto(Loop, "idle") /\ UNCHANGED <<rows, hand>>
     \/ \E t \in rows :
          /\ \A u \in rows : OldestFirst(t, u)
          /\ rows' = rows \ {t}
          /\ job' = [job EXCEPT ![Loop] = t]
          /\ Goto(Loop, IF expired[t] THEN "expire" ELSE "L_ticker")
          /\ UNCHANGED <<was, result>>
  /\ UNCHANGED <<table, opened, mode, world, locks, bounds, faults, refused>>

\* The market price is in the zone, or outside, or the call raises: then the whole
\* pass ends, and the next one starts with the oldest row again.
OutOfZoneBreaks == "idle"               \* mutant: break for continue
OutOfZone == "L_next"
LoopTicker ==
  /\ pc[Loop] = "L_ticker"
  /\ \/ /\ SymbolOf[job[Loop]] \notin delisted
        /\ \/ Goto(Loop, "A_read") /\ UNCHANGED hand
           \/ Leave(Loop, OutOfZone)
        /\ UNCHANGED faults
     \/ /\ Leave(Loop, "idle")
        /\ IF SymbolOf[job[Loop]] \in delisted THEN UNCHANGED faults ELSE Fault
  /\ UNCHANGED <<table, opened, mode, world, locks, rows, bounds, refused>>

\* "WAIT STOPPED": resolved with the default from_statuses.
LoopDrop ==
  /\ pc[Loop] = "L_drop"
  /\ Resolve(job[Loop], "SKIPPED")
  /\ Leave(Loop, "L_next")
  /\ UNCHANGED <<saved, opened, mode, world, locks, rows, bounds, faults, refused>>

\* _pending_price_loop: runs while the row is actionable, if the decision has a
\* message, and finds that it expired.
PriceTaskExpires(t) ==
  /\ pc[t] = "idle" /\ Manual
  /\ decision[t] \in Actionable /\ expired[t]
  /\ job' = [job EXCEPT ![t] = t]
  /\ Goto(t, "expire")
  /\ UNCHANGED <<table, opened, mode, world, locks, was, result, rows, bounds, faults, refused>>

Expire(t) ==
  /\ ~expired[t]
  /\ expired' = [expired EXCEPT ![t] = TRUE]
  /\ UNCHANGED <<table, opened, mode, delisted, locks, pc, hand, rows, bounds, faults, refused>>

Delist(s) ==
  /\ s \in Delistable \ delisted
  /\ delisted' = delisted \cup {s}
  /\ UNCHANGED <<table, opened, mode, expired, locks, pc, hand, rows, bounds, faults, refused>>

\* The process dies and starts again, perhaps in the other mode: Storage.init gives
\* every claimed decision back as PENDING.
LeftClaimed == "PROCESSING"             \* mutant: the start-up forgets the claims
GivenBack == "PENDING"
Restart ==
  /\ crashes < MaxCrashes /\ Eventful /\ crashes' = crashes + 1
  /\ decision' = [t \in Signals |-> IF decision[t] = "PROCESSING" THEN GivenBack
                                    ELSE decision[t]]
  /\ mode' \in Modes
  /\ entryLock' = None /\ symLock' = [s \in Symbols |-> None]
  /\ pc' = [p \in Procs |-> "idle"] /\ job' = [p \in Procs |-> None]
  /\ was' = [p \in Procs |-> Absent] /\ result' = [p \in Procs |-> "ok"]
  /\ rows' = {}
  /\ UNCHANGED <<saved, opened, world, deliveries, commands, faults, refused>>

Locking(p) == LockEntry(p) \/ LockSymbol(p)
Step(p) ==
  \/ ApproveRead(p) \/ ApproveClaim(p) \/ ApproveSettle(p) \/ ResolveExpired(p)
  \/ ExecuteCheck(p) \/ ExecuteTurnedDown(p) \/ ExecuteSaveWait(p) \/ ExecuteWait(p)
  \/ ExecuteOpen(p) \/ ExecuteRaise(p)
  \/ WaitRead(p) \/ WaitSet(p) \/ Reject(p)
  \/ ManagementRead(p) \/ ManagementCancel(p)
LoopStep == LoopExpire \/ LoopAdopt \/ LoopRows \/ LoopNext \/ LoopTicker \/ LoopDrop
Request(p, t) ==
  DeliverExecute(p, t) \/ PressButton(p, t) \/ ApproveExpired(p, t) \/ ManagementClose(p, t)
World == \/ \E t \in Signals : PriceTaskExpires(t) \/ Expire(t)
         \/ \E s \in Symbols : Delist(s)

Next ==
  \/ \E p \in Procs : Locking(p) \/ Step(p)
  \/ LoopStep
  \/ \E p \in Workers, t \in Signals : Request(p, t)
  \/ World \/ Restart

Spec == Init /\ [][Next]_vars

\* asyncio runs every ready coroutine; its locks are first come, first served (the
\* price tasks take none).
Fairness ==
  /\ \A p \in Procs : WF_vars(Step(p))
  /\ \A p \in Workers \cup {Loop} : SF_vars(Locking(p))
  /\ WF_vars(LoopStep)
FairSpec == Spec /\ Fairness

-----------------------------------------------------------------------------
(***************************************************************************)
(* Properties.                                                             *)
(***************************************************************************)
\* Labels between a successful claim and the claimer's settlement.
Claimed == {"X_entry", "X_symbol", "X_check", "X_room", "X_wait", "A_settle"}
Claims(p, t) == pc[p] \in Claimed /\ Approving(p) /\ job[p] = t

\* At most one task acts on a decision at a time, whatever buttons, commands and the
\* loop do at once (claim_pending).
OneDecider ==
  \A t \in Signals, p, q \in Procs : Claims(p, t) /\ Claims(q, t) => p = q

\* No task gets to the order of a signal that has its trade already, through
\* whichever of bridge, operator and loop (execute under entry_guard).
OpensOnce == \A p \in Procs : pc[p] = "X_room" => ~opened[job[p]]

\* SHADOW_MANUAL: a signal an operator rejected, the scanner cancelled or a newer
\* one superseded is not opened afterwards, although the refusal may come at any
\* point of an approval.
RefusalStands ==
  [][\A t \in Signals : Manual /\ refused[t] /\ opened'[t] => opened[t]]_vars

\* APPROVED is what the operator sees of a trade: there is one.
ApprovedWasOpened == \A t \in Signals : decision[t] = "APPROVED" => opened[t]

\* No decision outlives its signal: one past its validity is resolved in the end,
\* also when an approval of it is under way or interrupted by a crash.
DecisionResolves ==
  \A t \in Signals : (expired[t] /\ decision[t] \in Unresolved) ~> decision[t] \notin Unresolved

\* waiting_entry_loop comes to the price of a waiting signal.
Watched(t) == decision[t] # "WAITING_ENTRY" \/ (pc[Loop] = "L_ticker" /\ job[Loop] = t)

\* The approval of a decision received before t raises in the loop, and ends its pass.
OlderBreaks(t) ==
  pc[Loop] = "A_settle" /\ result[Loop] = "error" /\ saved[job[Loop]] < saved[t]

\* "persisted and retried automatically until it enters the zone or expires"
\* (apps/autotrader/README.md), as far as it goes: a waiting signal is looked at again
\* and again whatever the price, the operators, a restart and single failing calls do,
\* unless a ticker fails for good or the attempt at an older one raises.  So the oldest
\* is looked at as long as tickers answer, even if each of its attempts raises.
WatchedInTurn ==
  \A t \in Signals :
    decision[t] = "WAITING_ENTRY" ~> Watched(t) \/ delisted # {} \/ OlderBreaks(t)

-----------------------------------------------------------------------------
(***************************************************************************)
(* The inductive invariant, in named parts.                                *)
(***************************************************************************)
Jobless == {"idle", "L_pending", "L_adopt", "L_rows", "L_next"}
JobInv ==
  /\ \A p \in Procs : pc[p] \notin Jobless => job[p] \in Signals
  /\ \A p \in Workers : pc[p] = "idle" => was[p] = Absent

LockInv ==
  /\ \A p \in Procs : pc[p] \in EntryHeld => entryLock = p
  /\ \A p \in Procs : pc[p] \in SymbolHeld => symLock[SymbolOf[job[p]]] = p

\* What is refused is final; what is claimed is neither refused nor claimable.
RefusedInv == \A t \in Signals : refused[t] => decision[t] \in Final
ClaimedInv ==
  \A p \in Procs, t \in Signals :
    Claims(p, t) => ~refused[t] /\ decision[t] \notin Actionable \cup {Absent}
ApprovingInv ==
  \A p \in Procs : (pc[p] \in {"X_room", "X_wait"} /\ Manual) \/ pc[p] = "A_settle"
                    => Approving(p)

SettleInv ==
  \A p \in Procs : pc[p] = "A_settle" /\ result[p] = "ok" => opened[job[p]]

IInv == JobInv /\ LockInv /\ RefusedInv /\ ClaimedInv /\ ApprovingInv /\ SettleInv
        /\ OneDecider /\ OpensOnce /\ ApprovedWasOpened
=============================================================================
