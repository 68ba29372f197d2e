--------------------------- MODULE BridgeDelivery ---------------------------
(***************************************************************************)
(* The commands of the scanner for one contract on their way through the   *)
(* bridge: tasks of Scanner V2.6 that post and post again (scanner.py,     *)
(* bridge_client.py), the handlers of the AutoTrader that carry them out   *)
(* (bridge_server.py, executor.py execute and management), and the         *)
(* management_events table that tells a repetition from a first delivery.  *)
(*                                                                         *)
(* Of a trade only its being open is kept: DemoExecutor has the rest.      *)
(***************************************************************************)
EXTENDS Naturals

CONSTANTS
  Commands,     \* what the scanners send: [signal, kind], an event_id each
  None,
  Attempts(_),  \* posts of a command: 3 of an EXECUTE, 2 of another in the code
  Most,         \* the most of them
  MaxCrashes,   \* bound: restarts of the AutoTrader
  MaxFaults     \* bound: handlers that raise

Kinds == {"EXECUTE", "CLOSE", "SIGNAL_CLOSED", "MOVE_SL"}
Signals == {c.signal : c \in Commands}
Closing == {"CLOSE", "SIGNAL_CLOSED"}      \* the kinds that cancel a pending signal

ASSUME DeliveryAssumption ==
  /\ \A c \in Commands : c.kind \in Kinds
  /\ None \notin Commands
  /\ Most \in Nat \ {0} /\ \A c \in Commands : Attempts(c) \in 1..Most
  /\ MaxCrashes \in Nat /\ MaxFaults \in Nat

VARIABLES
  at,         \* scanner, per command: where its task is
  attempt,    \* scanner, per command: the attempt it makes
  arriving,   \* requests sent and not taken up: <<command, attempt>>
  serving,    \* the command whose handler holds the lock of the contract, or None
  step,       \* where that handler is
  served,     \* the attempt it serves
  trade,      \* per signal: its row in trades
  pending,    \* per signal: its row in pending_signals
  event,      \* per management command: its row in management_events
  applied,    \* history: times a management command was carried out
  found,      \* history: closes claimed while their signal's trade was open
  unconfirmed,\* history: signals of which a close was sent and not seen to be done
  crashes, faults

scanner == <<at, attempt>>
handler == <<serving, step, served>>
tables == <<trade, pending, event>>
history == <<applied, found, unconfirmed>>
budget == <<crashes, faults>>
vars == <<scanner, arriving, handler, tables, history, budget>>

Requests == Commands \X (1..Most)
Outcome == {"answered", "given_up"}

TypeOK ==
  /\ at \in [Commands -> {"unsent", "sent", "asleep"} \cup Outcome]
  /\ attempt \in [Commands -> 1..Most]
  /\ arriving \subseteq Requests
  /\ serving \in Commands \cup {None} /\ served \in 1..Most
  /\ step \in {"free", "begin", "opening", "claimed", "applied"}
  /\ trade \in [Signals -> {"none", "open", "closed"}]
  /\ pending \in [Signals -> {"none", "open", "processing", "executed", "resolved"}]
  /\ event \in [Commands -> {"none", "fresh", "old", "APPLIED", "FAILED"}]
  /\ applied \in [Commands -> Nat] /\ found \subseteq Commands
  /\ unconfirmed \subseteq Signals
  /\ crashes \in 0..MaxCrashes /\ faults \in 0..MaxFaults

Init ==
  /\ at = [c \in Commands |-> "unsent"] /\ attempt = [c \in Commands |-> 1]
  /\ arriving = {}
  /\ serving = None /\ step = "free" /\ served = 1
  /\ trade = [s \in Signals |-> "none"] /\ pending = [s \in Signals |-> "none"]
  /\ event = [c \in Commands |-> "none"]
  /\ applied = [c \in Commands |-> 0] /\ found = {} /\ unconfirmed = {}
  /\ crashes = 0 /\ faults = 0

-----------------------------------------------------------------------------
(* The scanner: _demo_execute_retry and _demo_management_retry. *)

Goes(c, label) == at' = [at EXCEPT ![c] = label]

\* The post of an attempt; nothing orders the tasks of two commands.
Post(c) ==
  /\ at[c] = "unsent" \/ at[c] = "asleep"
  /\ attempt' = [attempt EXCEPT ![c] = IF at[c] = "asleep" THEN @ + 1 ELSE @]
  /\ Goes(c, "sent")
  /\ \/ arriving' = arriving \cup {<<c, attempt'[c]>>}
     \/ UNCHANGED arriving                               \* refused, lost
  /\ UNCHANGED <<handler, tables, history, budget>>

\* Three seconds without an answer, a failing connection, or another status.
Fails(c) ==
  /\ at[c] = "sent"
  /\ Goes(c, IF attempt[c] < Attempts(c) THEN "asleep" ELSE "given_up")
  /\ UNCHANGED <<attempt, arriving, handler, tables, history, budget>>

-----------------------------------------------------------------------------
(* The AutoTrader.  A handler runs on when its client has gone. *)

Free == step = "free"
Release == serving' = None /\ step' = "free" /\ UNCHANGED served
StepTo(label) == step' = label /\ UNCHANGED <<serving, served, at>>
Raise == Release /\ faults < MaxFaults /\ faults' = faults + 1 /\ UNCHANGED at

\* Status 200: it ends the task, {"ok": false} too, if it still waits for this attempt and
\* the answer is not lost.
Answer(c) ==
  /\ Release
  /\ \/ at[c] = "sent" /\ attempt[c] = served /\ Goes(c, "answered")
     \/ UNCHANGED at

\* BridgeServer.signal up to the lock of the contract.
TakeUp(c, n) ==
  /\ <<c, n>> \in arriving /\ Free
  /\ arriving' = arriving \ {<<c, n>>}
  /\ serving' = c /\ served' = n /\ step' = "begin"
  /\ UNCHANGED <<scanner, tables, history, budget>>

NoneOpen == \A s \in Signals : trade[s] # "open"

\* save_pending: a new row supersedes the open rows of the other signals.
SavePending(s) ==
  pending' = [r \in Signals |-> IF r = s THEN "open"
                                ELSE IF pending[r] = "open" THEN "resolved" ELSE pending[r]]

\* execute: a signal that has a trade is a repetition; the switch, the limits, the entry
\* zone and the shadow verdict may turn it down or keep it pending.
ExecuteTurnedDown(c) ==
  /\ Answer(c)
  /\ UNCHANGED <<tables, history, budget>>

ExecuteKept(c) ==
  /\ trade[c.signal] = "none" /\ pending[c.signal] = "none"
  /\ SavePending(c.signal)
  /\ Answer(c)
  /\ UNCHANGED <<trade, event, history, budget>>

IsNewAlways(s) == NoneOpen                               \* mutant
IsNew(s) == trade[s] = "none" /\ NoneOpen
ExecuteOpens(c) ==
  /\ IsNew(c.signal)
  /\ trade' = [trade EXCEPT ![c.signal] = "open"]
  /\ StepTo("opening")
  /\ UNCHANGED <<pending, event, history, budget>>

Execute(c) ==
  /\ serving = c /\ c.kind = "EXECUTE" /\ step = "begin"
  /\ ExecuteTurnedDown(c) \/ ExecuteKept(c) \/ ExecuteOpens(c)
  /\ UNCHANGED <<attempt, arriving>>

\* The entry is in and protected, or it was refused; or it raised, and the failsafe has
\* flattened it or left it to the recovery.
ExecuteEnds(c) ==
  /\ serving = c /\ step = "opening"
  /\ \/ Answer(c) /\ UNCHANGED <<trade, faults>>
     \/ Answer(c) /\ trade' = [trade EXCEPT ![c.signal] = "closed"] /\ UNCHANGED faults
     \/ /\ Raise
        /\ trade' = [trade EXCEPT ![c.signal] = "closed"] \/ UNCHANGED trade
  /\ UNCHANGED <<attempt, arriving, pending, event, history, crashes>>

-----------------------------------------------------------------------------
(* management *)

\* The rows of the contract are about another signal, or there are none.
TradeTarget(c) == trade[c.signal] = "open"
Pended(s) == pending[s] \in {"open", "processing", "executed"}
PendingTarget(c) == NoneOpen /\ c.kind \in Closing /\ pending[c.signal] = "open"
Target(c) == TradeTarget(c) \/ PendingTarget(c)

\* The latest row of the contract counts: one of another signal may hide this one.
Hidden(c) == ~TradeTarget(c) /\ \E s \in Signals : s # c.signal /\ Pended(s)

ManagementSkipped(c) ==
  /\ ~Target(c) \/ Hidden(c)
  /\ Answer(c)
  /\ UNCHANGED <<event, found>>

\* claim_management_event
ClaimedAgain(c) == FALSE                                 \* mutant
AlreadyClaimed(c) == event[c] \in {"APPLIED", "fresh"}

ManagementRepeated(c) ==
  /\ Target(c) /\ AlreadyClaimed(c)
  /\ Answer(c)
  /\ UNCHANGED <<event, found>>

ManagementClaimed(c) ==
  /\ Target(c) /\ ~AlreadyClaimed(c)
  /\ event' = [event EXCEPT ![c] = "fresh"]
  /\ found' = IF trade[c.signal] = "open" THEN found \cup {c} ELSE found
  /\ StepTo("claimed")

Management(c) ==
  /\ serving = c /\ c.kind # "EXECUTE" /\ step = "begin"
  /\ ManagementSkipped(c) \/ ManagementRepeated(c) \/ ManagementClaimed(c)
  /\ UNCHANGED <<attempt, arriving, trade, pending, applied, unconfirmed, budget>>

Counted(c) == applied' = [applied EXCEPT ![c] = @ + 1] /\ StepTo("applied")

\* close_trade ends the open trade of the contract, confirmed flat or left to the
\* recovery, which is no error.
CloseTrade(c) ==
  /\ TradeTarget(c) /\ c.kind = "CLOSE" /\ Counted(c)
  /\ \/ /\ trade' = [s \in Signals |-> IF trade[s] = "open" THEN "closed" ELSE trade[s]]
        /\ UNCHANGED unconfirmed
     \/ unconfirmed' = unconfirmed \cup {c.signal} /\ UNCHANGED trade
  /\ UNCHANGED pending

\* MOVE_SL, or SIGNAL_CLOSED, which an open trade survives.
KeepTrade(c) ==
  /\ TradeTarget(c) /\ c.kind # "CLOSE" /\ Counted(c)
  /\ UNCHANGED <<trade, pending, unconfirmed>>

CancelPending(c) ==
  /\ ~TradeTarget(c) /\ pending[c.signal] = "open" /\ Counted(c)
  /\ pending' = [pending EXCEPT ![c.signal] = "resolved"]
  /\ UNCHANGED <<trade, unconfirmed>>

\* _apply_management; between the claim and here a decision may take the pending row.
Apply(c) ==
  /\ serving = c /\ step = "claimed"
  /\ CloseTrade(c) \/ KeepTrade(c) \/ CancelPending(c)
  /\ UNCHANGED <<attempt, arriving, event, found, budget>>

\* Bybit or the database raises, or the pending row was taken.
ApplyFails(c) ==
  /\ serving = c /\ step = "claimed"
  /\ event' = [event EXCEPT ![c] = "FAILED"]
  /\ \/ Raise
     \/ /\ ~TradeTarget(c) /\ pending[c.signal] # "open"
        /\ Release /\ UNCHANGED <<at, faults>>
  /\ UNCHANGED <<attempt, arriving, trade, pending, history, crashes>>

Finish(c) ==
  /\ serving = c /\ step = "applied"
  /\ event' = [event EXCEPT ![c] = "APPLIED"]
  /\ Answer(c)
  /\ UNCHANGED <<attempt, arriving, trade, pending, history, budget>>

-----------------------------------------------------------------------------
(* What else touches the contract. *)

\* waiting_entry_loop or a user claims a pending signal, without the lock of the contract.
Decide(s) ==
  /\ pending[s] = "open"
  /\ pending' = [pending EXCEPT ![s] = "processing"]
  /\ UNCHANGED <<scanner, arriving, handler, trade, event, history, budget>>

\* Its execute takes the lock; the decision is written after it is given back.
DecisionExecutes(s) ==
  /\ pending[s] = "processing" /\ Free
  /\ pending' = [pending EXCEPT ![s] = "executed"]
  /\ \/ IsNew(s) /\ trade' = [trade EXCEPT ![s] = "open"]
     \/ UNCHANGED trade
  /\ UNCHANGED <<scanner, arriving, handler, event, history, budget>>

DecisionSettles(s) ==
  /\ pending[s] = "executed"
  /\ \/ pending' = [pending EXCEPT ![s] = "resolved"]
     \/ trade[s] = "none" /\ pending' = [pending EXCEPT ![s] = "open"]
  /\ UNCHANGED <<scanner, arriving, handler, trade, event, history, budget>>

\* A target, the stop, a command of a user or the recovery, all under the lock.
TradeEnds(s) ==
  /\ trade[s] = "open" /\ Free
  /\ trade' = [trade EXCEPT ![s] = "closed"]
  /\ UNCHANGED <<scanner, arriving, handler, pending, event, history, budget>>

\* A claim is 30 seconds old: by then its command is no longer attempted.
ClaimAges(c) ==
  /\ event[c] = "fresh" /\ at[c] \in Outcome
  /\ event' = [event EXCEPT ![c] = "old"]
  /\ UNCHANGED <<scanner, arriving, handler, trade, pending, history, budget>>

\* init returns interrupted decisions; a command stays claimed.
Crash ==
  /\ crashes < MaxCrashes /\ crashes' = crashes + 1
  /\ arriving' = {}
  /\ serving' = None /\ step' = "free" /\ UNCHANGED served
  /\ pending' = [s \in Signals |-> IF pending[s] \in {"processing", "executed"}
                                     THEN "open" ELSE pending[s]]
  /\ UNCHANGED <<scanner, trade, event, history, faults>>

Send(c) == Post(c) \/ Fails(c)
Handle(c) == Execute(c) \/ ExecuteEnds(c) \/ Management(c) \/ Apply(c) \/ ApplyFails(c) \/ Finish(c)
Decision(s) == Decide(s) \/ DecisionExecutes(s) \/ DecisionSettles(s) \/ TradeEnds(s)

Next ==
  \/ \E c \in Commands : Send(c) \/ Handle(c) \/ ClaimAges(c)
  \/ \E c \in Commands, n \in 1..Most : TakeUp(c, n)
  \/ \E s \in Signals : Decision(s)
  \/ Crash

Spec == Init /\ [][Next]_vars

-----------------------------------------------------------------------------
(* Properties *)

\* docs/bridge-protocol.md:44: an event_id is there "for durable idempotency".  However
\* often an event is posted, it is carried out once, unless the AutoTrader is restarted
\* before it could note that it was (claim_management_event).
AppliedOnce == \A c \in Commands : applied[c] <= crashes + 1

\* A close that found its signal's trade open and is noted as APPLIED, so that every
\* repetition is answered as a duplicate, has ended the trade: neither a failure of the
\* first attempt, a restart nor a late EXECUTE leaves it open (finish_management_event).
\* A position Bybit still shows after 20 seconds is excluded: that close may not hold.
AppliedCloseHolds ==
  \A c \in found :
    c.kind = "CLOSE" /\ event[c] = "APPLIED"
      => trade[c.signal] = "closed" \/ c.signal \in unconfirmed

\* A command never ends or opens the trade, or cancels the pending decision, of a signal
\* other than its own (stale_signal_id; save_pending apart, which supersedes).
SparesOthers ==
  [][\A s \in Signals, c \in Commands :
       serving = c /\ c.signal # s =>
         /\ trade'[s] # "closed" \/ trade[s] = "closed"
         /\ trade'[s] # "open" \/ trade[s] = "open"]_vars

=============================================================================
