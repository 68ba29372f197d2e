--------------------------- MODULE StopProtection ---------------------------
(***************************************************************************)
(* The stop of one trade, from the protected entry to the flat position:   *)
(* the database's (trades.sl) and the one in force at Bybit, moved by      *)
(* execute, the passes of reconcile_loop and sync_now, and the scanner's   *)
(* MOVE_SL events (executor.py; lifecycle_executor.py), while the price    *)
(* moves, targets fill, an operator edits the stop by hand and the         *)
(* process restarts.                                                       *)
(*                                                                         *)
(* All of them hold the symbol's lock, so there is one label `at` and one  *)
(* set of locals.  What a pass reads before it has the lock is its `row`.  *)
(***************************************************************************)
EXTENDS RiskLifecycle

CONSTANTS
  Plans,        \* price levels a trade may have
  Prices,       \* ticks
  Loop,         \* reconcile_loop
  Passes,       \* passes over the rows: Loop, sync_now
  MaxIncidents  \* bound: MOVE_SL events, stops set by hand, exchange calls that raise
                \* and process crashes, in all

\* validate_levels.  The entry is the average price of the fills, which may be anywhere.
ValidLevels(p) == Stricter(p.side, p.tp1, p.stop) /\ AtLeast(p.side, p.tp2, p.tp1)

ASSUME ConstantsAssumption ==
  /\ Prices \subseteq Nat \ {NoStop}
  /\ Plans \subseteq [side : {"LONG", "SHORT"}, entry : Prices, stop : Prices,
                      tp1 : Prices, tp2 : Prices]
  /\ \A p \in Plans : ValidLevels(p)
  /\ Loop \in Passes
  /\ MaxIncidents \in Nat

\* PROTECTING: any status of an opening; OVER: flat, whatever the row says of it.
Statuses == {"PROTECTING", "ACTIVE", "RECOVERY_REQUIRED", "OVER"}
Protections == {"NOT_DUE", "FAILED", "APPLIED", "NOT_NEEDED"}  \* be_, tp2_lock_status
Protected == {"APPLIED", "NOT_NEEDED"}
Rows == [status : Statuses, sl : Prices]
Unread == [status |-> "OVER", sl |-> NoStop]
Labels == {"free", "recover", "active", "flatten", "restore", "next", "try",
           "check", "set", "verify", "commit", "mark"}
Openings == {"entry", "open"}           \* by execute; by _recover_opening_trade
Attempts == {"be", "lock"}              \* after the first, the second target
Purposes == Openings \cup Attempts \cup {"restore", "move"}
Attempt(n) == IF n = 1 THEN "be" ELSE "lock"
Number(purpose) == IF purpose = "be" THEN 1 ELSE 2

VARIABLES
  plan,                       \* fixed
  market, open, exStop,       \* the exchange: price, position, its stop
  filled, armed,              \* the exchange: targets that filled; TP orders exist
  status, dbStop, hit, prot,  \* SQLite: trades.status, sl, tpN_hit, be_/tp2_lock_status
  row,                        \* per pass: the row as read, before the lock
  holder, at,                 \* the symbol's lock; the label of whoever holds it
  why, target,                \* in the lock: purpose and value of the stop being set
  seen, tried,                \* in the lock: position and fills as read; attempts made
  incidents                   \* counter that bounds the environment

exchange == <<market, open, exStop, filled, armed>>
trade == <<status, dbStop, hit, prot>>
locals == <<holder, why, target, seen, tried>>
vars == <<plan, exchange, trade, at, locals, row, incidents>>

TypeOK ==
  /\ plan \in Plans
  /\ market \in Prices /\ open \in BOOLEAN /\ exStop \in Prices \cup {NoStop}
  /\ filled \in SUBSET Milestones /\ armed \in BOOLEAN
  /\ status \in Statuses /\ dbStop \in Prices
  /\ hit \in SUBSET Milestones /\ prot \in [Milestones -> Protections]
  /\ row \in [Passes -> Rows \cup {Unread}]
  /\ holder \in Passes \cup {"execute", "management", "nobody"}
  /\ at \in Labels /\ why \in Purposes /\ target \in Prices \cup {NoStop}
  /\ seen \in [stop : Prices \cup {NoStop}, tps : SUBSET Milestones]
  /\ tried \in SUBSET Milestones
  /\ incidents \in Nat

NothingSeen == [stop |-> NoStop, tps |-> {}]

\* execute has sent the entry with its stop, sees the position and is about to set
\* the stop (executor.py:396).
Init ==
  /\ plan \in Plans
  /\ market = plan.entry /\ open = TRUE /\ exStop = plan.stop
  /\ filled = {} /\ armed = FALSE
  /\ status = "PROTECTING" /\ dbStop = plan.stop /\ hit = {}
  /\ prot = [n \in Milestones |-> "NOT_DUE"]
  /\ row = [r \in Passes |-> Unread]
  /\ holder = "execute" /\ at = "check" /\ why = "entry" /\ target = plan.stop
  /\ seen = NothingSeen /\ tried = {}
  /\ incidents = 0

Goto(l) == at' = l
\* The end of the critical section, and of its local variables.
Leave ==
  /\ Goto("free") /\ holder' = "nobody"
  /\ why' = "open" /\ target' = NoStop /\ seen' = NothingSeen /\ tried' = {}
\* The next milestone of the pass.
Proceed ==
  /\ Goto("next")
  /\ why' = "open" /\ target' = NoStop /\ UNCHANGED <<holder, seen, tried>>
Incident == incidents < MaxIncidents /\ incidents' = incidents + 1

\* The price is at a stop, or beyond it.
Blocked(stop) == AtLeast(plan.side, stop, market)

-----------------------------------------------------------------------------
(***************************************************************************)
(* _set_and_verify_stop, for all its callers.                              *)
(***************************************************************************)
SetStop(purpose, stop) ==
  why' = purpose /\ target' = stop /\ Goto("check")
  /\ UNCHANGED <<seen, tried>>

\* What the caller does with an exception.  An opening or active trade goes to
\* recovery, at once if execute opened it; a milestone is tried again; a MOVE_SL
\* event is answered with an error.
Failed ==
  \/ /\ why \in Openings \cup {"restore"}
     /\ status' = "RECOVERY_REQUIRED" /\ UNCHANGED prot
     /\ IF why = "entry" THEN Goto("flatten") /\ UNCHANGED locals ELSE Leave
  \/ /\ why \in Attempts
     /\ prot' = [prot EXCEPT ![Number(why)] = "FAILED"] /\ UNCHANGED status
     /\ Proceed
  \/ /\ why = "move" /\ UNCHANGED <<status, prot>> /\ Leave

SetCheck ==
  /\ at = "check"
  /\ \/ ~Blocked(target) /\ Goto("set") /\ UNCHANGED <<status, prot, locals, incidents>>
     \/ Blocked(target) /\ Failed /\ UNCHANGED incidents
     \/ Incident /\ Failed
  /\ UNCHANGED <<plan, exchange, dbStop, hit, row>>

\* set_full_stop; its answer may get lost.
SetSend ==
  /\ at = "set"
  /\ \/ open /\ exStop' = target /\ Goto("verify") /\ UNCHANGED <<status, prot, locals, incidents>>
     \/ ~open /\ Failed /\ UNCHANGED <<exStop, incidents>>
     \/ Incident /\ Failed /\ exStop' \in {exStop, IF open THEN target ELSE exStop}
  /\ UNCHANGED <<plan, market, open, filled, armed, dbStop, hit, row>>

\* The position is read back: gone; as asked; or edited meanwhile, which is one of
\* four attempts or the last.
SetVerify ==
  /\ at = "verify"
  /\ \/ ~open /\ Failed /\ UNCHANGED <<armed, incidents>>
     \/ /\ open /\ exStop # target
        /\ Failed \/ (Goto("set") /\ UNCHANGED <<status, prot, locals>>)
        /\ UNCHANGED <<armed, incidents>>
     \/ Incident /\ Failed /\ armed' \in {armed, armed \/ why \in Openings}
     \/ /\ open /\ exStop = target /\ UNCHANGED <<status, prot, incidents>>
        /\ armed' = (armed \/ why \in Openings)      \* place_reduce_trigger
        /\ IF why = "restore" THEN Proceed ELSE Goto("commit") /\ UNCHANGED locals
  /\ UNCHANGED <<plan, market, open, exStop, filled, dbStop, hit, row>>

\* The stop is in force: mark_opened, update_sl.
Commit ==
  /\ at = "commit"
  /\ IF why \in Openings
     THEN status' = "ACTIVE" /\ UNCHANGED dbStop
     ELSE dbStop' = target /\ UNCHANGED status
  /\ IF why \in Attempts THEN Goto("mark") /\ UNCHANGED locals ELSE Leave
  /\ UNCHANGED <<plan, exchange, hit, prot, row, incidents>>

\* set_be_status, set_tp2_lock_status.
Mark ==
  /\ at = "mark"
  /\ prot' = [prot EXCEPT ![Number(why)] = "APPLIED"]
  /\ Proceed
  /\ UNCHANGED <<plan, exchange, status, dbStop, hit, row, incidents>>

-----------------------------------------------------------------------------
(***************************************************************************)
(* A pass: reconcile_loop, sync_now.                                       *)
(***************************************************************************)
\* All rows are read first, then each symbol's lock is waited for.
ReadRow(r) ==
  /\ row[r] = Unread /\ holder # r /\ status # "OVER"
  /\ row' = [row EXCEPT ![r] = [status |-> status, sl |-> dbStop]]
  /\ UNCHANGED <<plan, exchange, trade, at, locals, incidents>>

\* _reconcile_trade goes by the status the row had.
TakeRow(r) ==
  /\ at = "free" /\ row[r] # Unread
  /\ CASE row[r].status = "PROTECTING" -> Goto("recover")
       [] row[r].status = "ACTIVE" -> Goto("active")
       [] OTHER -> Goto("flatten")
  /\ target' = IF row[r].status = "PROTECTING" THEN row[r].sl ELSE NoStop
  /\ holder' = r
  /\ row' = [row EXCEPT ![r] = Unread]
  /\ UNCHANGED <<plan, exchange, trade, why, seen, tried, incidents>>

\* _recover_opening_trade: the stop of the row that was read.
Recover ==
  /\ at = "recover"
  /\ \/ /\ open /\ status' = "PROTECTING" /\ SetStop("open", target)
        /\ UNCHANGED <<holder, incidents>>
     \/ ~open /\ status' = "OVER" /\ Leave /\ UNCHANGED incidents
     \/ Incident /\ Leave /\ UNCHANGED status
  /\ UNCHANGED <<plan, exchange, dbStop, hit, prot, row>>

\* RECOVERY_REQUIRED: _failsafe_open closes the position, or fails.
Flatten ==
  /\ at = "flatten"
  /\ \/ open' = FALSE /\ exStop' = NoStop /\ status' = "OVER" /\ UNCHANGED incidents
     \/ Incident /\ status' = "RECOVERY_REQUIRED"
        /\ \/ UNCHANGED <<open, exStop>>
           \/ open' = FALSE /\ exStop' = NoStop
  /\ Leave
  /\ UNCHANGED <<plan, market, filled, armed, dbStop, hit, prot, row>>

\* _sync_fills and the position; the row is read again.
Active ==
  /\ at = "active"
  /\ \/ /\ open /\ Goto("restore")
        /\ seen' = [stop |-> exStop, tps |-> filled]
        /\ UNCHANGED <<status, holder, why, target, tried, incidents>>
     \/ ~open /\ status' = "OVER" /\ Leave /\ UNCHANGED incidents
     \/ Incident /\ Leave /\ UNCHANGED status
  /\ UNCHANGED <<plan, exchange, dbStop, hit, prot, row>>

\* _restore_monotonic_stop.
WeakerUnlessMissing(stop) == Stricter(plan.side, dbStop, stop)   \* mutant: forgets 0
Weaker(stop) == stop = NoStop \/ Stricter(plan.side, dbStop, stop)
NeverAdopted(stop) == FALSE             \* mutant: the database keeps its stop
Adopted(stop) == stop # NoStop /\ Stricter(plan.side, stop, dbStop)

Restore ==
  /\ at = "restore"
  /\ IF Weaker(seen.stop)
     THEN SetStop("restore", dbStop) /\ UNCHANGED <<dbStop, holder>>
     ELSE /\ dbStop' = IF Adopted(seen.stop) THEN seen.stop ELSE dbStop
          /\ Proceed
  /\ UNCHANGED <<plan, exchange, status, hit, prot, row, incidents>>

New == seen.tps \ hit
First(s, n) == n \in s /\ \A m \in s : n <= m

\* A target is seen filled for the first time: set_tp_hit, and an attempt.
TargetHit(n) ==
  /\ at = "next" /\ First(New, n)
  /\ hit' = hit \cup {n}
  /\ tried' = tried \cup {n}
  /\ why' = Attempt(n) /\ Goto("try")
  /\ UNCHANGED <<plan, exchange, status, dbStop, prot, row, holder, target, seen, incidents>>

DueOnce == {n \in hit \ tried : prot[n] = "NOT_DUE"}   \* mutant: a failure is final
Due == {n \in hit \ tried : prot[n] \notin Protected}

\* A milestone not protected yet, or whose attempt failed, is tried in every pass,
Retry(n) ==
  /\ at = "next" /\ New = {} /\ First(Due, n)
  /\ tried' = tried \cup {n}
  /\ why' = Attempt(n) /\ Goto("try")
  /\ UNCHANGED <<plan, exchange, trade, row, holder, target, seen, incidents>>

\* unless the last attempt was only just made.
BackOff(n) ==
  /\ at = "next" /\ New = {} /\ First(Due, n) /\ prot[n] = "FAILED"
  /\ tried' = tried \cup {n}
  /\ UNCHANGED <<plan, exchange, trade, row, at, holder, why, target, seen, incidents>>

EndPass ==
  /\ at = "next" /\ New = {} /\ Due = {}
  /\ Leave
  /\ UNCHANGED <<plan, exchange, trade, row, incidents>>

\* _strictest_current_stop.
Current == IF seen.stop = NoStop THEN dbStop ELSE StrictestStop(plan.side, dbStop, seen.stop)

Milestone(n) == {m \in Milestones : m <= n}

\* _attempt_tp1_breakeven, _attempt_tp2_lock_to_tp1, up to the moving of the stop.
\* Only the second tells "at" from "better than".
Try ==
  /\ at = "try"
  /\ LET n == Number(why)
         moves_stop == MovesStop(plan, Milestone(n), Current) IN
     \/ /\ Evaluates(plan) /\ moves_stop
        /\ SetStop(why, Effective(plan, Milestone(n), Current))
        /\ UNCHANGED <<prot, holder, incidents>>
     \/ /\ Evaluates(plan) /\ ~moves_stop
        /\ prot' = [prot EXCEPT ![n] =
                      IF n = 2 /\ Current = plan.tp1 THEN "APPLIED" ELSE "NOT_NEEDED"]
        /\ Proceed /\ UNCHANGED incidents
     \/ /\ IF Evaluates(plan) THEN Incident ELSE UNCHANGED incidents
        /\ prot' = [prot EXCEPT ![n] = "FAILED"]
        /\ Proceed
  /\ UNCHANGED <<plan, exchange, status, dbStop, hit, row>>

-----------------------------------------------------------------------------
(***************************************************************************)
(* MOVE_SL, the world and restarts.                                        *)
(***************************************************************************)
Loosens(new) ==
  \/ Stricter(plan.side, dbStop, new)
  \/ exStop # NoStop /\ Stricter(plan.side, exStop, new)

MoveStop(new) ==
  /\ at = "free" /\ status # "OVER" /\ open
  /\ Incident
  /\ ~Loosens(new)
  /\ holder' = "management" /\ SetStop("move", new)
  /\ UNCHANGED <<plan, exchange, trade, row>>

MoveMarket ==
  /\ open /\ market' \in Prices \ {market}
  /\ UNCHANGED <<plan, open, exStop, filled, armed, trade, row, at, locals, incidents>>

\* A reduce-only order of a target triggers.
FillTarget(n) ==
  /\ open /\ armed /\ n \notin filled
  /\ AtLeast(plan.side, market, IF n = 1 THEN plan.tp1 ELSE plan.tp2)
  /\ filled' = filled \cup {n}
  /\ UNCHANGED <<plan, market, open, exStop, armed, trade, row, at, locals, incidents>>

\* By its stop, the third target, CLOSE, or by hand.
ClosePosition ==
  /\ open /\ open' = FALSE /\ exStop' = NoStop
  /\ UNCHANGED <<plan, market, filled, armed, trade, row, at, locals, incidents>>

EditStop(new) ==
  /\ open /\ new # exStop /\ (new # NoStop => ~Blocked(new))
  /\ Incident
  /\ exStop' = new
  /\ UNCHANGED <<plan, market, open, filled, armed, trade, row, at, locals>>

Crash ==
  /\ Incident
  /\ row' = [r \in Passes |-> Unread]
  /\ Leave
  /\ UNCHANGED <<plan, exchange, trade>>

Setter == SetCheck \/ SetSend \/ SetVerify \/ Commit \/ Mark
Attempting == \E n \in Milestones : TargetHit(n) \/ Retry(n) \/ BackOff(n)
Step ==
  \/ Setter \/ Recover \/ Flatten \/ Active \/ Restore \/ Attempting \/ EndPass \/ Try
World ==
  \/ MoveMarket \/ ClosePosition
  \/ \E n \in Milestones : FillTarget(n)
  \/ \E new \in Prices \cup {NoStop} : EditStop(new)

Next ==
  \/ Step \/ World \/ Crash
  \/ \E r \in Passes : ReadRow(r) \/ TakeRow(r)
  \/ \E new \in Prices : MoveStop(new)

Spec == Init /\ [][Next]_vars

\* The loop comes again and gets the lock in its turn; whoever has the lock goes on;
\* a back-off ends.
Fairness ==
  /\ WF_vars(Step) /\ WF_vars(ReadRow(Loop)) /\ SF_vars(TakeRow(Loop))
  /\ \A n \in Milestones : SF_vars(Retry(n))
FairSpec == Spec /\ Fairness

-----------------------------------------------------------------------------
(***************************************************************************)
(* Properties.                                                             *)
(***************************************************************************)
\* A milestone the database calls protected is protected by the database's stop,
\* whatever crashed between the two writes or was edited by hand.
ProtectedMeansStop ==
  \A n \in Milestones : prot[n] \in Protected
    => AtLeast(plan.side, dbStop, Desired(plan, {n}))

\* "monotonic stop protection" (README.md), of the database's stop: it only gets
\* stricter, and the protection only advances.
Lifecycle == INSTANCE ProtectedStop WITH
  stage <- {n \in Milestones : prot[n] \in Protected}, stop <- dbStop
ImplementsLifecycle == Lifecycle!Spec

\* No pass and no event sends the exchange a stop weaker than the database's, apart
\* from the recovery of an opening.
SendsNoWeaker ==
  [][SetSend /\ exStop' # exStop /\ why \notin Openings
       => AtLeast(plan.side, exStop', dbStop)]_vars

\* Whatever was edited, lost or interrupted: in the end the stop in force is at
\* least the database's (_restore_monotonic_stop).
DatabaseStopInForce ==
  <>[](open /\ status = "ACTIVE" => exStop # NoStop /\ AtLeast(plan.side, exStop, dbStop))

\* A target that filled is protected in the end, however many attempts fail, unless
\* the price comes back to the stop it calls for or the entry was filled beyond it.
FilledTargetProtects ==
  \A n \in Milestones :
    <>[](/\ open /\ status = "ACTIVE" /\ n \in filled
         /\ Evaluates(plan) /\ ~Blocked(Desired(plan, {n})))
      => <>(AtLeast(plan.side, dbStop, Desired(plan, {n})))

\* "the monotonic guard never permits a stricter SL to be loosened"
\* (apps/autotrader/README.md): a stop on which the row and Bybit agree is not
\* replaced by a weaker one.
StopNeverLoosened ==
  [][SetSend /\ exStop = dbStop => AtLeast(plan.side, exStop', exStop)]_vars

-----------------------------------------------------------------------------
(***************************************************************************)
(* The inductive invariant, in named parts.                                *)
(***************************************************************************)
Setting == at \in {"check", "set", "verify", "commit"}

\* From its restoration to the end of a pass, the database's stop is no weaker than
\* the one the pass saw.
SeenInv ==
  at \in {"next", "try", "mark"} \/ (Setting /\ why \in Attempts \cup {"restore"})
    => seen.stop = NoStop \/ AtLeast(plan.side, dbStop, seen.stop)

\* The stop being set is no weaker than the database's, and than the milestone calls for.
TargetInv ==
  /\ Setting \/ at = "recover" => target \in Prices
  /\ Setting /\ why \notin Openings => AtLeast(plan.side, target, dbStop)
  /\ Setting /\ why \in Attempts
       => AtLeast(plan.side, target, Desired(plan, {Number(why)}))
  /\ at = "mark" => AtLeast(plan.side, dbStop, Desired(plan, {Number(why)}))

\* Only a milestone that was reached, and is not protected yet, is attempted.
AttemptInv ==
  /\ \A n \in Milestones : prot[n] # "NOT_DUE" => n \in hit
  /\ at \in {"try", "mark"} => why \in Attempts
  /\ at \in {"try", "mark"} \/ (Setting /\ why \in Attempts)
       => Number(why) \in hit /\ prot[Number(why)] \notin Protected

IInv == SeenInv /\ TargetInv /\ AttemptInv /\ ProtectedMeansStop
=============================================================================
