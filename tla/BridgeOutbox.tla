---------------------------- MODULE BridgeOutbox ----------------------------
(***************************************************************************)
(* The outbox of Scanner V2.5 (scanner.py, storage.py bridge_outbox): the  *)
(* signals of one contract, the tasks that watch and close them, the rows  *)
(* they leave in the database, the events they queue for the AutoTrader,   *)
(* and the loop that delivers the events, over crashes, failing writes and *)
(* a bridge that does not always answer.                                   *)
(*                                                                         *)
(* A handle of a signal outlives an await: the monitor and the websocket   *)
(* loop go on with a signal that another task may have closed meanwhile.   *)
(***************************************************************************)
EXTENDS Integers

CONSTANTS
  Opened,      \* bound: signals of the contract that are ever opened
  Reasons,     \* why a signal is closed: SL, TP3, INVALIDATED, CLOSE_EARLY
  Holding,     \* passes that keep a handle over an await: monitor, websocket, the
               \* context pass up to the entry window
  Fresh,       \* passes that look the signal up and close it at once: scan, context
  MaxCrashes,  \* bound: restarts of the scanner
  MaxFaults    \* bound: writes to the database that fail

Signals == 1..Opened
Judged == {"INVALIDATED", "CLOSE_EARLY"} \cap Reasons     \* by analysis, not by price
Told == {"PROTECT", "WINDOW"}
Keys == {"EXECUTE"} \cup Told \cup Reasons
Events == Signals \X Keys
Tasks == Holding \cup Fresh
None == 0

ASSUME OutboxAssumption ==
  /\ Opened \in Nat
  /\ Reasons \subseteq {"SL", "TP3", "INVALIDATED", "CLOSE_EARLY"}
  /\ MaxCrashes \in Nat /\ MaxFaults \in Nat

VARIABLES
  row,       \* signals, per signal: "none", "ACTIVE" or "CLOSED"
  watched,   \* active[inst_id]: the signal in memory, or None
  closing,   \* inst_id in closing
  opening,   \* maybe_new_signal: "idle", "stored" or "watched"
  doing,     \* per task: what it does, [at, s, key]
  hit,       \* per signal: its first target was reached
  silent,    \* noted, and not told again before a restart: <<signal, key>>; PROTECT
             \* stands for its successor TRAIL too
  outbox,    \* bridge_outbox, per event: its status
  crashes, faults

memory == <<watched, closing, opening, doing, silent>>
store == <<row, hit>>
budget == <<crashes, faults>>
vars == <<memory, store, outbox, budget>>

Idle == [at |-> "idle", s |-> None, key |-> "EXECUTE"]
Doing == [at : {"idle", "holding", "tell", "queue", "store"}, s : Signals \cup {None}, key : Keys]

TypeOK ==
  /\ row \in [Signals -> {"none", "ACTIVE", "CLOSED"}] /\ hit \in [Signals -> BOOLEAN]
  /\ watched \in Signals \cup {None} /\ closing \in BOOLEAN
  /\ opening \in {"idle", "stored", "watched"}
  /\ doing \in [Tasks -> Doing] /\ silent \subseteq Signals \X Told
  /\ outbox \in [Events -> {"none", "due", "later", "DELIVERED"}]
  /\ crashes \in 0..MaxCrashes /\ faults \in 0..MaxFaults

Init ==
  /\ row = [s \in Signals |-> "none"] /\ hit = [s \in Signals |-> FALSE]
  /\ watched = None /\ closing = FALSE /\ opening = "idle"
  /\ doing = [t \in Tasks |-> Idle] /\ silent = {}
  /\ outbox = [e \in Events |-> "none"]
  /\ crashes = 0 /\ faults = 0

Fault == faults < MaxFaults /\ faults' = faults + 1 /\ UNCHANGED crashes
Goes(t, at, s, key) == doing' = [doing EXCEPT ![t] = [at |-> at, s |-> s, key |-> key]]
Rests(t) == doing' = [doing EXCEPT ![t] = Idle]

\* enqueue_bridge: INSERT OR IGNORE, the event id is the primary key.
Enqueue(e) ==
  IF outbox[e] = "none"
    THEN outbox' = [outbox EXCEPT ![e] = "due"]
    ELSE UNCHANGED outbox

-----------------------------------------------------------------------------
(* maybe_new_signal, one at a time under scan_lock *)

Latest == CHOOSE s \in Signals \cup {None} :
            /\ s # None => row[s] # "none"
            /\ \A r \in Signals : row[r] # "none" => r <= s

\* create_signal; the cooldown since the latest signal of the contract is over.
Create ==
  /\ opening = "idle" /\ watched = None /\ Latest + 1 \in Signals
  /\ row' = [row EXCEPT ![Latest + 1] = "ACTIVE"]
  /\ opening' = "stored"
  /\ UNCHANGED <<watched, closing, doing, silent, hit, outbox, budget>>

\* update_entry_window; a failing write leaves the row to the next start.
Watch ==
  /\ opening = "stored"
  /\ \/ opening' = "watched" /\ watched' = Latest /\ UNCHANGED budget
     \/ opening' = "idle" /\ Fault /\ UNCHANGED watched
  /\ UNCHANGED <<closing, doing, silent, store, outbox>>

\* _queue_demo_execute, after the shadow and the smart assessment were awaited.
QueueExecute ==
  /\ opening = "watched" /\ opening' = "idle"
  /\ \/ Enqueue(<<Latest, "EXECUTE">>) /\ UNCHANGED budget
     \/ Fault /\ UNCHANGED outbox
  /\ UNCHANGED <<watched, closing, doing, silent, store>>

-----------------------------------------------------------------------------
(* The tasks that watch it *)

\* active_monitor_loop, _realtime_price: what they do with the signal comes after an await.
Hold(t) ==
  /\ t \in Holding /\ doing[t].at = "idle" /\ watched # None
  /\ Goes(t, "holding", watched, "EXECUTE")
  /\ UNCHANGED <<watched, closing, opening, silent, store, outbox, budget>>

\* _hit_tp: the flag in memory first, then mark_tp, which may fail.
HitFirst(t) ==
  /\ doing[t].at = "holding" /\ ~hit[doing[t].s]
  /\ hit' = [hit EXCEPT ![doing[t].s] = TRUE]
  /\ Goes(t, "holding", doing[t].s, "EXECUTE")
  /\ silent' = silent \cup {<<doing[t].s, "PROTECT">>}      \* management: PROTECT
  /\ UNCHANGED <<row, watched, closing, opening, outbox, budget>>

LetGo(t) ==
  /\ doing[t].at = "holding" /\ Rests(t)
  /\ UNCHANGED <<watched, closing, opening, silent, store, outbox, budget>>

\* The entry window closes (_update_dynamic_validity, monitor), or the trade is to be
\* protected (maybe_manage): noted in memory, announced in Discord, then queued.
Notes(t, s, key) ==
  /\ <<s, key>> \notin silent
  /\ silent' = silent \cup {<<s, key>>}
  /\ Goes(t, "tell", s, key)
  /\ UNCHANGED <<watched, closing, opening, store, outbox, budget>>

WindowCloses(t) == doing[t].at = "holding" /\ Notes(t, doing[t].s, "WINDOW")
Manages(t) ==
  t \in Fresh /\ doing[t].at = "idle" /\ watched # None /\ Notes(t, watched, "PROTECT")

\* _queue_demo_management
Tell(t) ==
  /\ doing[t].at = "tell" /\ Rests(t)
  /\ \/ Enqueue(<<doing[t].s, doing[t].key>>) /\ UNCHANGED budget
     \/ Fault /\ UNCHANGED outbox
  /\ UNCHANGED <<watched, closing, opening, silent, store>>

-----------------------------------------------------------------------------
(* _close_active: claim, queue the event, close the row, let go *)

Claim(t, s, reason) ==
  /\ watched # None /\ ~closing /\ closing' = TRUE
  /\ Goes(t, "queue", s, reason)
  /\ UNCHANGED <<watched, opening, silent, store, outbox, budget>>

PriceCloses(t) ==
  /\ doing[t].at = "holding"
  /\ \E reason \in Reasons \ Judged :
       /\ reason = "TP3" => hit[doing[t].s]
       /\ Claim(t, doing[t].s, reason)

\* maybe_invalidate spares a signal whose first target was reached; CLOSE EARLY does not.
JudgementCloses(t) ==
  /\ t \in Fresh /\ doing[t].at = "idle" /\ watched # None
  /\ \E reason \in Judged :
       /\ reason = "INVALIDATED" => ~hit[watched]
       /\ Claim(t, watched, reason)

RollBack(t) ==
  /\ doing[t].at \in {"queue", "store"}
  /\ Fault /\ closing' = FALSE /\ Rests(t)
  /\ UNCHANGED <<watched, opening, silent, store, outbox>>

\* A failing write is logged, as that of a smart assessment is.
CloseQueuedOrNot(t) ==                                   \* mutant
  /\ doing[t].at = "queue"
  /\ \/ Enqueue(<<doing[t].s, doing[t].key>>) /\ UNCHANGED budget
     \/ Fault /\ UNCHANGED outbox
  /\ Goes(t, "store", doing[t].s, doing[t].key)
  /\ UNCHANGED <<watched, closing, opening, silent, store>>
CloseQueued(t) ==
  /\ doing[t].at = "queue"
  /\ Enqueue(<<doing[t].s, doing[t].key>>)
  /\ Goes(t, "store", doing[t].s, doing[t].key)
  /\ UNCHANGED <<watched, closing, opening, silent, store, budget>>

\* Whatever the contract's signal is by now is let go.
CloseStored(t) ==
  /\ doing[t].at = "store"
  /\ row' = [row EXCEPT ![doing[t].s] = "CLOSED"]
  /\ watched' = None /\ closing' = FALSE /\ Rests(t)
  /\ UNCHANGED <<opening, silent, hit, outbox, budget>>

-----------------------------------------------------------------------------
(* bridge_outbox_loop *)

NoChange == UNCHANGED <<memory, store, crashes>>

\* A due row, which only this loop changes, is posted, and its outcome noted.  Where the
\* process ends, or a write fails, between the two, the event stays due and is sent again.
\* created_at orders the rows of a pass in the code, and nothing does here.
Delivered(e) ==
  /\ outbox[e] = "due" /\ outbox' = [outbox EXCEPT ![e] = "DELIVERED"]
  /\ UNCHANGED faults /\ NoChange

\* No connection, a status of 300 or above, or mark_bridge_delivered failed: RETRY, due
\* again in 2 to 256 seconds (mark_bridge_retry), or due if that write fails too.
Retried(e) ==
  /\ outbox[e] = "due"
  /\ \/ outbox' = [outbox EXCEPT ![e] = "later"] /\ UNCHANGED faults
     \/ faults < MaxFaults /\ faults' = faults + 1 /\ UNCHANGED outbox
  /\ NoChange

\* pending_bridge: its time has come, and the status is PENDING or RETRY.
PendingOnly(e) == FALSE                                  \* mutant
Retries(e) == outbox[e] = "later"
BackoffEnds(e) ==
  /\ Retries(e) /\ outbox' = [outbox EXCEPT ![e] = "due"]
  /\ UNCHANGED <<memory, store, budget>>

-----------------------------------------------------------------------------
\* The process ends at any point; init watches the latest ACTIVE row of the contract, and
\* what was noted is told again, but for a window that has closed meanwhile.  A target
\* whose mark_tp did not commit is forgotten.
Crash ==
  /\ crashes < MaxCrashes /\ crashes' = crashes + 1
  /\ watched' = IF \E s \in Signals : row[s] = "ACTIVE"
                  THEN CHOOSE s \in Signals :
                         row[s] = "ACTIVE" /\ \A r \in Signals : row[r] = "ACTIVE" => r <= s
                  ELSE None
  /\ closing' = FALSE /\ opening' = "idle"
  /\ doing' = [t \in Tasks |-> Idle]
  /\ \E closed \in SUBSET Signals : silent' = {<<s, "WINDOW">> : s \in closed}
  /\ \E lost \in SUBSET Signals : hit' = [s \in Signals |-> hit[s] /\ s \notin lost]
  /\ UNCHANGED <<row, outbox, faults>>

Open == Create \/ Watch \/ QueueExecute
Task(t) ==
  \/ Hold(t) \/ HitFirst(t) \/ LetGo(t) \/ WindowCloses(t) \/ Manages(t) \/ Tell(t)
  \/ PriceCloses(t) \/ JudgementCloses(t) \/ RollBack(t) \/ CloseQueued(t) \/ CloseStored(t)
Loop == \E e \in Events : Delivered(e) \/ Retried(e)

Next ==
  \/ Open \/ Loop \/ Crash
  \/ \E t \in Tasks : Task(t)
  \/ \E e \in Events : BackoffEnds(e)

\* The loop runs on, the clock too, and the AutoTrader answers an event it is sent again
\* and again.
Fair ==
  \A e \in Events : WF_outbox(BackoffEnds(e)) /\ SF_outbox(Delivered(e))
Spec == Init /\ [][Next]_vars /\ Fair

-----------------------------------------------------------------------------
(* Properties *)

\* Comment at scanner.py:766: "Persist the bridge instruction before removing the ACTIVE
\* row".  A signal whose row is CLOSED, and which no start will watch again, has its
\* close in the outbox, whatever write failed and wherever the process ended.
CloseIsQueued ==
  \A s \in Signals : row[s] = "CLOSED" => \E reason \in Reasons : outbox[<<s, reason>>] # "none"

\* Comment at scanner.py:625: "Deliver persisted bridge events and resume automatically
\* after restart."  Once the last signal is done, no event is left undelivered.
EveryEventDelivered ==
  <>[](\A e \in Events : outbox[e] \in {"none", "DELIVERED"})
=============================================================================
