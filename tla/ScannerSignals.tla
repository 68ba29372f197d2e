--------------------------- MODULE ScannerSignals ---------------------------
(***************************************************************************)
(* The life of the signals of one contract in Scanner V2.6 (scanner.py,    *)
(* storage.py): the scan opens them; the scan, the websocket, the REST     *)
(* monitor and the context refresh watch them, and any of the four may     *)
(* close them, across a restart and failing writes of the database.        *)
(*                                                                         *)
(* One process, one event loop: an action runs from one await to the next. *)
(* A task keeps the signal object it read (`s`) across its awaits.         *)
(***************************************************************************)
EXTENDS Integers, FiniteSets, FiniteSetsExt

CONSTANTS
  Crews,        \* bounds: the tasks that take part, with the signals they open one after
                \* the other, the restarts and the failing writes of the database they meet
  MaxSignals    \* the most signals of a crew

Signals == 1..MaxSignals
NoSignal == 0
Targets == 1..3
Watchers == {"ws", "monitor"}                \* compare prices with the levels
Reviewers == {"scan", "context"}             \* compare a fresh analysis
Tasks == Watchers \cup Reviewers

ASSUME ScannerAssumption ==
  /\ Crews \subseteq [tasks : SUBSET Tasks, signals : 1..MaxSignals,
                     restarts : Nat, dbFaults : Nat]
  /\ MaxSignals \in Nat \ {0}

Reasons == {"SL", "TP3", "INVALIDATED", "CLOSE_EARLY"}
Levels == <<"HOLD", "PROTECT", "TRAIL">>
Rank(level) == CHOOSE i \in DOMAIN Levels : Levels[i] = level

VARIABLES
  crew,        \* fixed
  rows,        \* SQLite: signals.status, close_reason, tpN_hit
  active,      \* self.active: the signal watched
  closing,     \* self.closing: its close is being written
  management,  \* self.management: the action last recommended
  hits,        \* per signal object: tpN_hit
  notified,    \* per signal object: entry_window_notified
  task,        \* per task: its label and what it holds
  cooled,      \* signal_cooldown_sec have passed since the last row
  relayed,     \* history: signals whose EXECUTE was handed to the bridge task
  closes,      \* history: closes[w][s], the closes of s begun in the watch of w
  popped,      \* history: signals dropped from `active` without a close of their own
  unopened,    \* history: signals whose opening failed (all three since start-up)
  restarts, dbFaults

memory == <<active, closing, management, hits, notified>>
history == <<relayed, closes, popped, unopened>>
moving == <<rows, memory, task, cooled, history, restarts, dbFaults>>
vars == <<crew, moving>>

Idle == [at |-> "idle", s |-> NoSignal, stop |-> FALSE, reach |-> 0, n |-> 1,
         reason |-> "SL", then |-> "idle", execute |-> FALSE]

NoRow == [status |-> "none", reason |-> "none", tps |-> {}]

Labels == {"idle", "observed", "marking", "marked", "closing", "manage", "after", "validity",
           "review", "confirm", "created", "shadow", "ai"}
Doings == [at : Labels, s : Signals \cup {NoSignal}, stop : BOOLEAN, reach : 0..3, n : 1..4,
           reason : Reasons, then : {"idle", "manage", "after"}, execute : BOOLEAN]
Rows == [status : {"none", "ACTIVE", "CLOSED"}, reason : Reasons \cup {"none"},
         tps : SUBSET Targets]

\* At these labels a task holds a signal; a target is marked only if there is one.
Holding == {"observed", "marking", "marked", "closing", "validity", "created", "shadow"}
Holds(r) == /\ r.at \in Holding => r.s # NoSignal
            /\ r.at = "marking" => r.n \in Targets

TypeOK ==
  /\ crew \in Crews
  /\ rows \in [Signals -> Rows]
  /\ active \in Signals \cup {NoSignal} /\ closing \in BOOLEAN
  /\ management \in {Levels[i] : i \in DOMAIN Levels}
  /\ hits \in [Signals -> SUBSET Targets] /\ notified \in [Signals -> BOOLEAN]
  /\ task \in [Tasks -> Doings] /\ \A t \in Tasks : Holds(task[t])
  /\ cooled \in BOOLEAN
  /\ relayed \subseteq Signals /\ popped \subseteq Signals /\ unopened \subseteq Signals
  /\ closes \in [Signals -> [Signals -> Nat]]
  /\ restarts \in Nat /\ dbFaults \in Nat

NoCloses == [w \in Signals |-> [s \in Signals |-> 0]]

Init ==
  /\ crew \in Crews
  /\ rows = [s \in Signals |-> NoRow]
  /\ active = NoSignal /\ closing = FALSE /\ management = "HOLD"
  /\ hits = [s \in Signals |-> {}] /\ notified = [s \in Signals |-> FALSE]
  /\ task = [t \in Tasks |-> Idle]
  /\ cooled = TRUE
  /\ relayed = {} /\ closes = NoCloses /\ popped = {} /\ unopened = {}
  /\ restarts = 0 /\ dbFaults = 0

Watched == active # NoSignal
Becomes(t, r) == task' = [task EXCEPT ![t] = r]

-----------------------------------------------------------------------------
(* Closing: every task ends a signal through _close_active. *)

CanCloseUnguarded == Watched                             \* mutant
CanClose == Watched /\ ~closing

\* _close_active up to its first await.  The bridge task is spawned before the write.
StartClose(t, r, reason, then) ==
  /\ CanClose
  /\ closing' = TRUE /\ closes' = [closes EXCEPT ![active][r.s] = @ + 1]
  /\ Becomes(t, [Idle EXCEPT !.at = "closing", !.s = r.s, !.reason = reason,
                            !.then = then, !.execute = r.execute])
  /\ UNCHANGED <<rows, active, management, hits, notified, cooled, relayed,
                 popped, unopened, restarts, dbFaults>>

\* The `finally` of _close_active: whatever is watched now is dropped.
Drop ==
  /\ active' = NoSignal /\ management' = "HOLD" /\ closing' = FALSE
  /\ UNCHANGED <<hits, notified, cooled, relayed, closes, unopened, restarts>>

Written(s, reason) ==
  rows' = [rows EXCEPT ![s].status = "CLOSED", ![s].reason = reason]

FinishClose(t) ==
  LET r == task[t] IN
  /\ r.at = "closing"
  /\ Written(r.s, r.reason)
  /\ Drop
  /\ popped' = popped \cup ({active} \ {r.s, NoSignal})
  /\ Becomes(t, [Idle EXCEPT !.at = r.then, !.execute = r.execute])
  /\ UNCHANGED dbFaults

FailClose(t) ==
  /\ task[t].at = "closing" /\ dbFaults < crew.dbFaults
  /\ dbFaults' = dbFaults + 1
  /\ Drop
  /\ popped' = popped \cup ({active} \ {NoSignal})
  /\ Becomes(t, Idle)
  /\ UNCHANGED rows

-----------------------------------------------------------------------------
(* The watchers: _realtime_price (ws) and active_monitor_loop (monitor). *)

Look(t) ==
  /\ t \in Watchers \cap crew.tasks /\ task[t].at = "idle"
  /\ Watched /\ (t = "ws" => ~closing)
  /\ Becomes(t, [Idle EXCEPT !.at = "observed", !.s = active])
  /\ UNCHANGED <<rows, memory, cooled, history, restarts, dbFaults>>

\* Before TP3, and before a stop behind a target, the websocket looks again; the
\* monitor does not.
StillThere(t) == t = "ws" => Watched

CountedAlone(t, r) == {n \in r.n..r.reach : n = r.reach}  \* mutant
DueTargets(t, r) ==
  {n \in r.n..r.reach : n \notin hits[r.s] /\ (n = 3 => StillThere(t))}

CloseOrLeave(t, r, reason) ==
  \/ StartClose(t, r, reason, "idle")
  \/ /\ ~CanClose
     /\ Becomes(t, Idle)
     /\ UNCHANGED <<rows, memory, cooled, history, restarts, dbFaults>>

NoticeDue(s) == ~notified[s]
TellWindowClosed(s) ==
  /\ NoticeDue(s)
  /\ notified' = [notified EXCEPT ![s] = TRUE]
  /\ UNCHANGED <<rows, active, closing, management, hits, cooled, history, restarts,
                 dbFaults>>

\* The end of a pass that closed nothing: the monitor looks at expires_at.
EndPass(t, r) ==
  \/ t = "monitor" /\ TellWindowClosed(r.s) /\ Becomes(t, Idle)
  \/ /\ Becomes(t, Idle)
     /\ UNCHANGED <<rows, memory, cooled, history, restarts, dbFaults>>

\* _hit_tp up to its write.
HitTarget(t, r, n) ==
  /\ hits' = [hits EXCEPT ![r.s] = @ \cup {n}]
  /\ Becomes(t, [r EXCEPT !.at = "marking", !.n = n])
  /\ UNCHANGED <<rows, active, closing, management, notified, cooled, history,
                 restarts, dbFaults>>

\* From here to the next await: the next target due, or the end of the pass.
Advance(t, r) ==
  IF DueTargets(t, r) # {} THEN HitTarget(t, r, Min(DueTargets(t, r)))
  ELSE IF r.reach = 3 /\ StillThere(t) THEN CloseOrLeave(t, r, "TP3")
  ELSE IF r.stop /\ StillThere(t) THEN CloseOrLeave(t, r, "SL")
  ELSE EndPass(t, r)

\* A price is at the stop or at a target; the monitor's one-minute bar may span both.
Observe(t) ==
  /\ t \in Watchers /\ task[t].at = "observed"
  /\ \E stop \in BOOLEAN, reach \in 0..3 :
       LET r == [task[t] EXCEPT !.stop = stop, !.reach = reach] IN
       /\ t = "ws" => ~(stop /\ reach > 0)
       /\ IF stop /\ 1 \notin hits[r.s] THEN CloseOrLeave(t, r, "SL") ELSE Advance(t, r)

LevelAt(n) == IF n = 1 THEN "PROTECT" ELSE "TRAIL"

MarkTarget(t) ==
  LET r == task[t] IN
  /\ r.at = "marking"
  /\ rows' = [rows EXCEPT ![r.s].tps = @ \cup {r.n}]
  /\ management' = IF r.n <= 2 THEN LevelAt(r.n) ELSE management
  /\ Becomes(t, [r EXCEPT !.at = "marked", !.n = r.n + 1])
  /\ UNCHANGED <<active, closing, hits, notified, cooled, history, restarts, dbFaults>>

FailMark(t) ==
  /\ task[t].at = "marking" /\ dbFaults < crew.dbFaults
  /\ dbFaults' = dbFaults + 1
  /\ Becomes(t, Idle)
  /\ UNCHANGED <<rows, memory, cooled, history, restarts>>

Continue(t) == task[t].at = "marked" /\ Advance(t, task[t])

-----------------------------------------------------------------------------
(* The reviewers: the rows of scan_once (scan) and _active_context_one.  *)
(* What the analysis says, and whether the data is fresh, is an input.   *)

\* maybe_new_signal, up to its first await, is the last thing a row of the scan does.
LeaveUnchecked(t, r) ==                                  \* mutant
  Becomes(t, IF r.execute THEN [Idle EXCEPT !.at = "confirm"] ELSE Idle)
Leave(t, r) ==
  Becomes(t, IF r.execute /\ ~Watched THEN [Idle EXCEPT !.at = "confirm"] ELSE Idle)

\* _management_decision: what the targets hit allow, CLOSE EARLY apart.
Allowed(s) == IF 2 \in hits[s] THEN {"TRAIL"}
              ELSE IF 1 \in hits[s] THEN {"PROTECT", "TRAIL"}
              ELSE {"HOLD", "PROTECT", "TRAIL"}

Manage(t, r) ==
  \/ StartClose(t, [r EXCEPT !.s = active], "CLOSE_EARLY", "after")
  \/ /\ Watched
     /\ \E level \in Allowed(active) :
          /\ Rank(level) > Rank(management)
          /\ management' = level
     /\ Becomes(t, [Idle EXCEPT !.at = "after", !.execute = r.execute])
     /\ UNCHANGED <<rows, active, closing, hits, notified, cooled, history, restarts,
                    dbFaults>>
  \/ /\ Leave(t, r)
     /\ UNCHANGED <<rows, memory, cooled, history, restarts, dbFaults>>

Review(t, r) ==
  \/ StartClose(t, [r EXCEPT !.s = active], "INVALIDATED", "manage")
  \/ Manage(t, r)

ManageNow(t) == task[t].at = "manage" /\ Manage(t, task[t])

After(t) ==
  /\ task[t].at = "after"
  /\ Leave(t, task[t])
  /\ UNCHANGED <<rows, memory, cooled, history, restarts, dbFaults>>

ScanRow ==
  /\ "scan" \in crew.tasks /\ task["scan"].at = "idle"
  /\ \E execute \in BOOLEAN : Review("scan", [Idle EXCEPT !.execute = execute])

ContextBegin ==
  /\ "context" \in crew.tasks /\ task["context"].at = "idle" /\ Watched
  /\ Becomes("context", [Idle EXCEPT !.at = "observed", !.s = active])
  /\ UNCHANGED <<rows, memory, cooled, history, restarts, dbFaults>>

\* The ticker and the analysis have arrived; without them the pass ends.
ContextAnalysed ==
  LET r == task["context"] IN
  /\ r.at = "observed"
  /\ \/ /\ Becomes("context", IF Watched /\ ~notified[r.s]
                                THEN [r EXCEPT !.at = "validity"] ELSE Idle)
        /\ UNCHANGED <<rows, memory, cooled, history, restarts, dbFaults>>
     \/ Watched /\ notified[r.s] /\ Review("context", r)

\* _update_dynamic_validity, for the signal object read at the beginning of the pass.
Validity ==
  LET r == task["context"] IN
  /\ r.at = "validity"
  /\ Becomes("context", [Idle EXCEPT !.at = "review"])
  /\ \/ TellWindowClosed(r.s)
     \/ UNCHANGED <<rows, memory, cooled, history, restarts, dbFaults>>

ContextReview == task["context"].at = "review" /\ Review("context", task["context"])

-----------------------------------------------------------------------------
(* maybe_new_signal, after its check that nothing is watched: only the scan *)
(* opens signals, one row after the other.                                  *)

Created == {s \in Signals : rows[s].status # "none"}

CreateRow ==
  /\ task["scan"].at = "confirm" /\ cooled /\ Cardinality(Created) < crew.signals
  /\ LET s == Cardinality(Created) + 1 IN
     /\ rows' = [rows EXCEPT ![s].status = "ACTIVE"]
     /\ Becomes("scan", [Idle EXCEPT !.at = "created", !.s = s])
  /\ cooled' = FALSE
  /\ UNCHANGED <<memory, history, restarts, dbFaults>>

\* Within a cooldown, or the insert raises.
DropCandidate ==
  /\ task["scan"].at = "confirm"
  /\ Becomes("scan", Idle)
  /\ UNCHANGED <<rows, memory, cooled, history, restarts, dbFaults>>

Activate ==
  LET r == task["scan"] IN
  /\ r.at = "created"
  /\ active' = r.s /\ management' = "HOLD"
  /\ Becomes("scan", [r EXCEPT !.at = "shadow"])
  /\ UNCHANGED <<rows, closing, hits, notified, cooled, history, restarts, dbFaults>>

\* update_entry_window raises between the new row and self.active: the scan ends there.
FailOpening ==
  LET r == task["scan"] IN
  /\ r.at = "created" /\ dbFaults < crew.dbFaults
  /\ dbFaults' = dbFaults + 1
  /\ unopened' = unopened \cup {r.s}
  /\ Becomes("scan", Idle)
  /\ UNCHANGED <<rows, memory, cooled, relayed, closes, popped, restarts>>

\* The shadow check is done or has failed: the bridge task is spawned, then the AI asked.
RelayLater ==                                            \* mutant
  /\ task["scan"].at = "shadow"
  /\ Becomes("scan", [Idle EXCEPT !.at = "ai"])
  /\ UNCHANGED <<rows, memory, cooled, history, restarts, dbFaults>>

RelayExecute ==
  LET r == task["scan"] IN
  /\ r.at = "shadow"
  /\ relayed' = relayed \cup {r.s}
  /\ Becomes("scan", [Idle EXCEPT !.at = "ai"])
  /\ UNCHANGED <<rows, memory, cooled, closes, popped, unopened, restarts, dbFaults>>

AiAnswers ==
  /\ task["scan"].at = "ai"
  /\ Becomes("scan", Idle)
  /\ UNCHANGED <<rows, memory, cooled, history, restarts, dbFaults>>

-----------------------------------------------------------------------------
(* Time and restarts. *)

\* No await lasts as long as the 30 minutes of the cooldown: by then a task holds no
\* signal but the one watched.
CoolDown ==
  /\ ~cooled /\ \A t \in Tasks : task[t].s \in {NoSignal, active}
  /\ cooled' = TRUE
  /\ UNCHANGED <<rows, memory, task, history, restarts, dbFaults>>

UntouchedRows == {s \in Signals : rows[s].status = "ACTIVE" /\ rows[s].tps = {}} \* mutant
ActiveRows == {s \in Signals : rows[s].status = "ACTIVE"}

\* init: of several ACTIVE rows of a contract the last one read is watched.
Reloaded(open) == IF open = {} THEN NoSignal ELSE Max(open)

Restart ==
  LET open == ActiveRows IN
  /\ restarts < crew.restarts
  /\ restarts' = restarts + 1
  /\ active' = Reloaded(open) /\ closing' = FALSE /\ management' = "HOLD"
  /\ hits' = [s \in Signals |-> rows[s].tps]
  /\ \E expired \in BOOLEAN : notified' = [s \in Signals |-> s \in open /\ expired]
  /\ closes' = NoCloses /\ popped' = open \ {Reloaded(open)} /\ unopened' = {}
  /\ task' = [t \in Tasks |-> Idle]
  /\ UNCHANGED <<rows, cooled, relayed, dbFaults>>

Open == ScanRow \/ CreateRow \/ DropCandidate \/ Activate \/ FailOpening \/ RelayExecute
Context == ContextBegin \/ ContextAnalysed \/ Validity \/ ContextReview
Watch(t) == Look(t) \/ Observe(t) \/ MarkTarget(t) \/ FailMark(t) \/ Continue(t)
Close(t) == FinishClose(t) \/ FailClose(t)
Decide(t) == ManageNow(t) \/ After(t)

Next ==
  /\ \/ Open \/ AiAnswers \/ Context
     \/ \E t \in Watchers : Watch(t)
     \/ \E t \in Tasks : Close(t) \/ Decide(t)
     \/ CoolDown \/ Restart
  /\ UNCHANGED crew

\* Awaits on the database and on Bybit end; nothing is assumed of the AI provider.
Fairness == WF_moving(Activate \/ FailOpening) /\ WF_moving(RelayExecute)

Spec == Init /\ [][Next]_vars
FairSpec == Spec /\ Fairness

-----------------------------------------------------------------------------
(* Properties *)

BeingOpened(s) == task["scan"].at = "created" /\ task["scan"].s = s

\* What is watched is ACTIVE in the database, and an ACTIVE row nobody watches is being
\* opened this moment or was left in one of four ways: its close could not be written,
\* another signal's close resumed late, it was a second row at start-up, or its opening
\* raised after the row was written (_close_active, init, maybe_new_signal).
OrphansExplained ==
  /\ Watched => rows[active].status = "ACTIVE"
  /\ \A s \in Signals : rows[s].status = "ACTIVE" =>
       s = active \/ BeingOpened(s) \/ s \in popped \/ s \in unopened

\* However the four tasks interleave, one watch ends in at most one close, and so in one
\* close event for the AutoTrader (self.closing).  A signal may be closed again, by a task
\* that still holds it after its watch: then a later signal's watch is what that close
\* ends, and its own watch had ended in a close before.
EndedBy(w) == {s \in Signals : closes[w][s] > 0}
OneClosePerWatch ==
  \A w \in Signals :
    /\ \A s \in Signals : closes[w][s] <= 1
    /\ \A s, u \in EndedBy(w) : s = u
    /\ \A s \in EndedBy(w) \ {w} : s < w /\ EndedBy(s) # {}

\* The table never shows a higher target without the lower ones, nor a TP3 close without
\* all three, unless the missing mark is still being written, or its write failed, or
\* the process was restarted before it was (_hit_tp).
BeingMarked(s, n) ==
  \E t \in Watchers : task[t].at = "marking" /\ task[t].s = s /\ task[t].n = n
MarksComplete ==
  restarts = 0 /\ dbFaults = 0 =>
    \A s \in Signals, n \in Targets :
      (\/ \E higher \in rows[s].tps : n < higher
       \/ rows[s].reason = "TP3")
      => n \in rows[s].tps \/ BeingMarked(s, n)

\* A watched signal is never replaced by another one: it is closed, or dropped, first.
NeverReplaced ==
  [][Watched /\ active' # NoSignal => active' = active \/ restarts' # restarts]_vars

\* An EXECUTE written to the database reaches the bridge task whatever the AI provider
\* does (scanner.py:805), unless its opening raised or the process was restarted.
ExecuteRelayed ==
  \A s \in Signals :
    rows[s].status # "none" ~> s \in relayed \/ s \in unopened \/ restarts > 0

\* scanner.py:134: "Active signals are always re-analysed and do not lose their slot."
ActiveKeepsItsSlot ==
  \A s \in Signals : rows[s].status = "ACTIVE" => s = active \/ BeingOpened(s)
=============================================================================
