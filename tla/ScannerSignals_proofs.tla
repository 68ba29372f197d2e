------------------------ MODULE ScannerSignals_proofs ------------------------
(***************************************************************************)
(* The safety theorems of ScannerSignals, for any crew, any number of      *)
(* signals, restarts and failing writes.                                   *)
(*                                                                         *)
(* Every step of the four tasks is one of a few kinds (StepKinds); the     *)
(* invariant is proved against the kinds, not against the actions.         *)
(***************************************************************************)
EXTENDS ScannerSignals, FiniteSetTheorems, WellFoundedInduction, TLAPS

\* Rows are numbered as they are created, and only a signal with a row is held.
CreatedInv ==
  /\ \E n \in 0..MaxSignals : Created = 1..n
  /\ \A t \in Tasks : task[t].s # NoSignal => task[t].s \in Created

\* Nothing is watched while the scan opens a signal, and nobody else knows it yet.
OpeningInv ==
  /\ task["scan"].at \in {"confirm", "created"} => ~Watched
  /\ task["scan"].at = "created" =>
       /\ rows[task["scan"].s].status = "ACTIVE"
       /\ \A t \in Tasks \ {"scan"} : task[t].s # task["scan"].s

\* self.closing says that some task is at its close; it is one task.
ClosingInv ==
  /\ closing <=> \E t \in Tasks : task[t].at = "closing"
  /\ \A t, u \in Tasks : task[t].at = "closing" /\ task[u].at = "closing" => t = u
  /\ closing => Watched

\* Until a mark is lost: a target counted is in the row or on its way there, the
\* targets are counted from the first on, and a TP3 close has counted all.
Counted(s, n) == \A k \in Targets : k < n => k \in hits[s]
MarksSound ==
  /\ \A s \in Signals : \A n \in hits[s] :
       Counted(s, n) /\ (n \in rows[s].tps \/ BeingMarked(s, n))
  /\ \A s \in Signals : rows[s].tps \subseteq hits[s]
  /\ \A s \in Signals : rows[s].reason = "TP3" => Targets \subseteq hits[s]
  /\ \A t \in Tasks :
       /\ task[t].at = "observed" => task[t].n = 1
       /\ task[t].at = "marking" => task[t].n \in hits[task[t].s]
       /\ task[t].at = "marked" => Counted(task[t].s, task[t].n)
       /\ task[t].at = "closing" /\ task[t].reason = "TP3" => Targets \subseteq hits[task[t].s]
MarkInv == restarts = 0 /\ dbFaults = 0 => MarksSound

\* The signal watched has not been closed in its watch but for the close being written,
\* a signal not yet watched has not either, and whatever else a task still holds is older
\* than the signal watched and has had its close.
Ended == {w \in Signals : EndedBy(w) # {}}
Opening == {s \in Signals : BeingOpened(s)}
WatchInv ==
  /\ OneClosePerWatch
  /\ Watched => (closing <=> active \in Ended)
  /\ \A s \in Signals : rows[s].status = "none" => s \notin Ended
  /\ Opening \cap Ended = {}
  /\ task["scan"].at = "created" => Created = 1..task["scan"].s
  /\ \A t \in Tasks : task[t].s # NoSignal =>
       /\ Watched => task[t].s <= active
       /\ task[t].s \in Ended \cup Opening \cup {active}

IInv ==
  CreatedInv /\ OpeningInv /\ ClosingInv /\ MarkInv /\ OrphansExplained /\ WatchInv

-----------------------------------------------------------------------------
(***************************************************************************)
(* The kinds of steps.                                                     *)
(***************************************************************************)

\* Task t goes on as q.
MovesTo(t, q) == /\ q \in Doings /\ Holds(q)
                 /\ task' = [task EXCEPT ![t] = q]

\* A step that leaves rows, watch, close and counted targets alone.
Quiet(t, q) ==
  /\ MovesTo(t, q)
  /\ UNCHANGED <<rows, active, closing, hits, closes, popped, unopened, restarts>>
  /\ dbFaults' \in {dbFaults, dbFaults + 1}
  /\ task[t].at \notin {"closing", "created"}
  /\ task[t].at = "marking" => dbFaults' = dbFaults + 1
  /\ q.at \notin {"closing", "created", "marking", "marked"}
  /\ q.s \in {NoSignal, task[t].s, active}
  /\ q.at = "observed" => q.n = 1
  /\ q.at = "confirm" => ~Watched

\* A close begins; one for TP3 only after the targets from task[t].n on.
Starting(t, q) ==
  /\ MovesTo(t, q)
  /\ CanClose /\ closing' = TRUE /\ closes' = [closes EXCEPT ![active][q.s] = @ + 1]
  /\ UNCHANGED <<rows, active, hits, popped, unopened, restarts, dbFaults>>
  /\ task[t].at \notin {"closing", "created", "marking"}
  /\ q.at = "closing" /\ q.s \in {task[t].s, active}
  /\ q.reason = "TP3" =>
       /\ task[t].at \in {"observed", "marked"} /\ q.s = task[t].s
       /\ \A k \in Targets : task[t].n <= k => k \in hits[q.s]

\* Target n is counted, after those from task[t].n on.
Hitting(t, q, n) ==
  /\ MovesTo(t, q)
  /\ t \in Watchers /\ task[t].at \in {"observed", "marked"}
  /\ q.at = "marking" /\ q.s = task[t].s /\ q.n = n
  /\ hits' = [hits EXCEPT ![q.s] = @ \cup {n}]
  /\ UNCHANGED <<rows, active, closing, closes, popped, unopened, restarts, dbFaults>>
  /\ \A k \in Targets : task[t].n <= k /\ k < n => k \in hits[q.s]

LEMMA IdleTyped == Idle \in Doings /\ Holds(Idle)
BY ScannerAssumption DEF Idle, Doings, Labels, Reasons, NoSignal, Holds, Holding

\* StartClose is a kind of its own.
LEMMA StartCloseKind ==
  ASSUME TypeOK, NEW t \in Tasks, NEW r \in Doings, NEW reason \in Reasons,
         NEW then \in {"idle", "manage", "after"}, StartClose(t, r, reason, then),
         r.s # NoSignal, r.s \in {task[t].s, active},
         task[t].at \notin {"closing", "created", "marking"},
         reason = "TP3" =>
           /\ task[t].at \in {"observed", "marked"} /\ r.s = task[t].s
           /\ \A k \in Targets : task[t].n <= k => k \in hits[r.s]
  PROVE  \E q \in Doings : Starting(t, q)
<1> DEFINE q == [Idle EXCEPT !.at = "closing", !.s = r.s, !.reason = reason,
                            !.then = then, !.execute = r.execute]
<1>1. r.s \in Signals \cup {NoSignal} /\ r.execute \in BOOLEAN
  BY DEF Doings
<1>2. q \in Doings
  BY <1>1, IdleTyped DEF Doings, Labels
<1>3. /\ q.at = "closing" /\ q.s = r.s /\ q.reason = reason
      /\ q \in Doings /\ Holds(q)
  <2>1. q.at = "closing" /\ q.s = r.s /\ q.reason = reason
    BY IdleTyped DEF Doings
  <2> HIDE DEF q
  <2> QED BY <1>2, <2>1 DEF Holds
<1>4. MovesTo(t, q)
  BY <1>3 DEF StartClose, Becomes, MovesTo
<1> QED BY <1>3, <1>4 DEF StartClose, Starting

\* The task becomes idle, and nothing else of interest happens.
LEMMA IdleKind ==
  ASSUME TypeOK, NEW t \in Tasks, Becomes(t, Idle),
         UNCHANGED <<rows, active, closing, hits, closes, popped, unopened, restarts, dbFaults>>,
         task[t].at \notin {"closing", "created", "marking"}
  PROVE  \E q \in Doings : Quiet(t, q)
<1>1. Idle.at = "idle" /\ Idle.s = NoSignal
  BY DEF Idle
<1>2. Quiet(t, Idle)
  BY <1>1, IdleTyped DEF Quiet, MovesTo, Becomes
<1> QED BY <1>2, IdleTyped

\* A set of targets has a first one.
LEMMA FirstOfSome ==
  ASSUME NEW T \in SUBSET Targets, T # {}
  PROVE  Min(T) \in T /\ \A k \in T : Min(T) <= k
<1>1. \E m \in T : \A k \in T : m <= k
  <2>1. CASE 1 \in T
    BY <2>1 DEF Targets
  <2>2. CASE 1 \notin T /\ 2 \in T
    BY <2>2 DEF Targets
  <2>3. CASE 1 \notin T /\ 2 \notin T
    <3>1. \A k \in T : k = 3
      BY <2>3 DEF Targets
    <3> QED BY <3>1
  <2> QED BY <2>1, <2>2, <2>3
<1> QED BY <1>1 DEF Min

\* A watcher goes on: it counts the first target due, closes, or ends its pass.
LEMMA AdvanceKind ==
  ASSUME TypeOK, NEW t \in Watchers, NEW r \in Doings, Advance(t, r),
         task[t].at \in {"observed", "marked"}, r.s = task[t].s, r.n = task[t].n
  PROVE  \/ \E q \in Doings : Quiet(t, q) \/ Starting(t, q)
         \/ \E q \in Doings, n \in Targets : Hitting(t, q, n)
<1> USE DEF memory, history
<1>0. t \in Tasks /\ r.s # NoSignal /\ r.s \in Signals /\ r.n \in 1..4 /\ r.reach \in 0..3
  BY DEF Tasks, TypeOK, Holds, Holding, Doings
<1> DEFINE D == DueTargets(t, r)
<1>1. D \subseteq Targets
  BY <1>0 DEF DueTargets, Targets
<1>2. CASE D # {}
  <2> DEFINE n == Min(D)
             q == [r EXCEPT !.at = "marking", !.n = n]
  <2>1. n \in D /\ \A k \in D : n <= k
    BY <1>1, <1>2, FirstOfSome
  <2> HIDE DEF n
  <2>2. n \in Targets /\ HitTarget(t, r, n)
    BY <1>1, <1>2, <2>1 DEF Advance, n
  <2>3. q \in Doings /\ Holds(q) /\ q.at = "marking" /\ q.s = task[t].s /\ q.n = n
    <3>1. n \in 1..4
      BY <2>2 DEF Targets
    <3>2. q \in Doings
      BY <3>1 DEF Doings, Labels
    <3>3. q.at = "marking" /\ q.s = r.s /\ q.n = n
      BY DEF Doings
    <3> QED BY <1>0, <2>2, <3>2, <3>3 DEF Holds
  <2>4. ASSUME NEW k \in Targets, task[t].n <= k, k < n PROVE k \in hits[r.s]
    <3>1. n \in Targets /\ n <= r.reach /\ k # 3 /\ k \notin D
      BY <1>0, <2>1, <2>2, <2>4 DEF DueTargets, Targets
    <3>2. k \in r.n..r.reach
      BY <1>0, <2>4, <3>1 DEF Targets
    <3> QED BY <3>1, <3>2 DEF DueTargets
  <2>5. Hitting(t, q, n)
    BY <2>2, <2>3, <2>4 DEF HitTarget, Becomes, Hitting, MovesTo
  <2> QED BY <2>2, <2>3, <2>5
<1>3. ASSUME NEW reason \in {"TP3", "SL"}, CloseOrLeave(t, r, reason),
             reason = "TP3" => \A k \in Targets : task[t].n <= k => k \in hits[r.s]
      PROVE  \E q \in Doings : Quiet(t, q) \/ Starting(t, q)
  <2>1. CASE StartClose(t, r, reason, "idle")
    BY <1>0, <1>3, <2>1, StartCloseKind DEF Reasons
  <2>2. CASE Becomes(t, Idle) /\ UNCHANGED <<rows, memory, cooled, history, restarts, dbFaults>>
    BY <1>0, <2>2, IdleKind
  <2> QED BY <1>3, <2>1, <2>2 DEF CloseOrLeave
<1>4. CASE D = {} /\ r.reach = 3 /\ StillThere(t)
  <2>1. ASSUME NEW k \in Targets, task[t].n <= k PROVE k \in hits[r.s]
    <3>1. k \in r.n..r.reach
      BY <1>0, <1>4, <2>1 DEF Targets
    <3> QED BY <1>4, <3>1 DEF DueTargets
  <2>2. CloseOrLeave(t, r, "TP3")
    BY <1>4 DEF Advance
  <2> QED BY <1>3, <2>1, <2>2
<1>5. CASE D = {} /\ ~(r.reach = 3 /\ StillThere(t)) /\ r.stop /\ StillThere(t)
  <2>1. CloseOrLeave(t, r, "SL")
    BY <1>5 DEF Advance
  <2> QED BY <1>3, <2>1
<1>6. CASE D = {} /\ ~(r.reach = 3 /\ StillThere(t)) /\ ~(r.stop /\ StillThere(t))
  <2>1. EndPass(t, r)
    BY <1>6 DEF Advance
  <2>2. /\ Becomes(t, Idle)
        /\ UNCHANGED <<rows, active, closing, hits, closes, popped, unopened, restarts, dbFaults>>
    BY <2>1 DEF EndPass, TellWindowClosed
  <2> QED BY <1>0, <2>2, IdleKind
<1> QED BY <1>2, <1>4, <1>5, <1>6

\* A reviewer leaves, to open a signal only if none is watched.
LEMMA LeaveKind ==
  ASSUME TypeOK, NEW t \in Tasks, NEW r \in Doings, Leave(t, r),
         UNCHANGED <<rows, active, closing, hits, closes, popped, unopened, restarts, dbFaults>>,
         task[t].at \notin {"closing", "created", "marking"}
  PROVE  \E q \in Doings : Quiet(t, q)
<1> DEFINE q == [Idle EXCEPT !.at = "confirm"]
<1>1. q \in Doings
  BY IdleTyped DEF Doings, Labels
<1>2. q.at = "confirm" /\ q.s = NoSignal
  BY DEF Idle
<1>3. CASE Becomes(t, q) /\ ~Watched
  <2> HIDE DEF q
  <2>1. Holds(q)
    BY <1>2 DEF Holds, Holding
  <2>2. Quiet(t, q)
    BY <1>1, <1>2, <1>3, <2>1 DEF Quiet, MovesTo, Becomes
  <2> QED BY <1>1, <2>2
<1>4. CASE Becomes(t, Idle)
  BY <1>4, IdleKind
<1> QED BY <1>3, <1>4 DEF Leave

\* A reviewer manages the signal watched: it closes it, keeps it, or leaves.
LEMMA ManageKind ==
  ASSUME TypeOK, NEW t \in Tasks, NEW r \in Doings, Manage(t, r),
         task[t].at \notin {"closing", "created", "marking"}
  PROVE  \E q \in Doings : Quiet(t, q) \/ Starting(t, q)
<1> USE DEF history
<1>1. CASE StartClose(t, [r EXCEPT !.s = active], "CLOSE_EARLY", "after")
  <2> DEFINE r1 == [r EXCEPT !.s = active]
  <2>1. r1 \in Doings /\ r1.s = active
    BY DEF TypeOK, Doings
  <2>2. r1.s # NoSignal
    BY <1>1, <2>1 DEF StartClose, CanClose, Watched
  <2> HIDE DEF r1
  <2>3. "CLOSE_EARLY" \in Reasons /\ "CLOSE_EARLY" # "TP3"
    BY DEF Reasons
  <2>4. StartClose(t, r1, "CLOSE_EARLY", "after")
    BY <1>1 DEF r1
  <2> QED BY <2>1, <2>2, <2>3, <2>4, StartCloseKind
<1>2. CASE /\ Becomes(t, [Idle EXCEPT !.at = "after", !.execute = r.execute])
           /\ UNCHANGED <<rows, active, closing, hits, notified, cooled, history, restarts,
                          dbFaults>>
  <2> DEFINE q == [Idle EXCEPT !.at = "after", !.execute = r.execute]
  <2>1. q \in Doings
    BY IdleTyped DEF Doings, Labels
  <2>2. q.at = "after" /\ q.s = NoSignal
    BY IdleTyped DEF Doings, Idle
  <2>3. task' = [task EXCEPT ![t] = q]
    BY <1>2 DEF Becomes
  <2> HIDE DEF q
  <2>4. Holds(q)
    BY <2>2 DEF Holds, Holding
  <2>5. Quiet(t, q)
    BY <1>2, <2>1, <2>2, <2>3, <2>4 DEF Quiet, MovesTo
  <2> QED BY <2>1, <2>5
<1>3. CASE Leave(t, r) /\ UNCHANGED <<rows, memory, cooled, history, restarts, dbFaults>>
  BY <1>3, LeaveKind DEF memory
<1> QED BY <1>1, <1>2, <1>3 DEF Manage

LEMMA ReviewKind ==
  ASSUME TypeOK, NEW t \in Tasks, NEW r \in Doings, Review(t, r),
         task[t].at \notin {"closing", "created", "marking"}
  PROVE  \E q \in Doings : Quiet(t, q) \/ Starting(t, q)
<1>1. CASE StartClose(t, [r EXCEPT !.s = active], "INVALIDATED", "manage")
  <2> DEFINE r1 == [r EXCEPT !.s = active]
  <2>1. r1 \in Doings /\ r1.s = active
    BY DEF TypeOK, Doings
  <2>2. r1.s # NoSignal
    BY <1>1, <2>1 DEF StartClose, CanClose, Watched
  <2> HIDE DEF r1
  <2>3. "INVALIDATED" \in Reasons /\ "INVALIDATED" # "TP3"
    BY DEF Reasons
  <2>4. StartClose(t, r1, "INVALIDATED", "manage")
    BY <1>1 DEF r1
  <2> QED BY <2>1, <2>2, <2>3, <2>4, StartCloseKind
<1>2. CASE Manage(t, r)
  BY <1>2, ManageKind
<1> QED BY <1>1, <1>2 DEF Review

\* A task begins to look at the signal watched.
LEMMA LookKind ==
  ASSUME TypeOK, NEW t \in Tasks, Watched,
         Becomes(t, [Idle EXCEPT !.at = "observed", !.s = active]),
         UNCHANGED <<rows, active, closing, hits, closes, popped, unopened, restarts, dbFaults>>,
         task[t].at \notin {"closing", "created", "marking"}
  PROVE  \E q \in Doings : Quiet(t, q)
<1> DEFINE q == [Idle EXCEPT !.at = "observed", !.s = active]
<1>1. q \in Doings
  BY IdleTyped DEF Doings, Labels, TypeOK
<1>2. q.at = "observed" /\ q.s = active /\ q.n = 1
  BY IdleTyped DEF Doings, Idle
<1>3. task' = [task EXCEPT ![t] = q]
  BY DEF Becomes
<1> HIDE DEF q
<1>4. Holds(q)
  BY <1>2 DEF Holds, Watched
<1>5. Quiet(t, q)
  BY <1>1, <1>2, <1>3, <1>4 DEF Quiet, MovesTo
<1> QED BY <1>1, <1>5

\* A task goes on to a place where nothing depends on what it holds.
LEMMA PassKind ==
  ASSUME TypeOK, NEW t \in Tasks, NEW place \in {"review", "ai"},
         Becomes(t, [Idle EXCEPT !.at = place]),
         UNCHANGED <<rows, active, closing, hits, closes, popped, unopened, restarts, dbFaults>>,
         task[t].at \notin {"closing", "created", "marking"}
  PROVE  \E q \in Doings : Quiet(t, q)
<1> DEFINE q == [Idle EXCEPT !.at = place]
<1>1. q \in Doings
  BY IdleTyped DEF Doings, Labels
<1>2. q.at = place /\ q.s = NoSignal
  BY IdleTyped DEF Doings, Idle
<1>3. task' = [task EXCEPT ![t] = q]
  BY DEF Becomes
<1> HIDE DEF q
<1>4. Holds(q)
  BY <1>2 DEF Holds, Holding
<1>5. Quiet(t, q)
  BY <1>1, <1>2, <1>3, <1>4 DEF Quiet, MovesTo
<1> QED BY <1>1, <1>5

LEMMA ContextKind ==
  ASSUME TypeOK, Context
  PROVE  \E t \in Tasks, q \in Doings : Quiet(t, q) \/ Starting(t, q)
<1> USE DEF memory, history
<1> DEFINE r == task["context"]
<1>1. "context" \in Tasks /\ r \in Doings
  BY DEF Tasks, Reviewers, TypeOK
<1>2. CASE ContextBegin
  BY <1>1, <1>2, LookKind DEF ContextBegin
<1>3. CASE ContextAnalysed
  <2>1. CASE /\ Becomes("context", IF Watched /\ ~notified[r.s]
                                     THEN [r EXCEPT !.at = "validity"] ELSE Idle)
             /\ UNCHANGED <<rows, memory, cooled, history, restarts, dbFaults>>
    <3> DEFINE q == [r EXCEPT !.at = "validity"]
    <3>1. CASE Becomes("context", q)
      <4>1. q \in Doings
        BY <1>1 DEF Doings, Labels
      <4>2. q.at = "validity" /\ q.s = r.s /\ r.at = "observed"
        BY <1>1, <1>3 DEF Doings, ContextAnalysed
      <4>3. task' = [task EXCEPT !["context"] = q]
        BY <3>1 DEF Becomes
      <4>4. r.s # NoSignal
        BY <1>1, <4>2 DEF TypeOK, Holds, Holding
      <4> HIDE DEF q
      <4>5. Holds(q)
        BY <4>2, <4>4 DEF Holds
      <4>6. Quiet("context", q)
        BY <2>1, <4>1, <4>2, <4>3, <4>5 DEF Quiet, MovesTo
      <4> QED BY <1>1, <4>1, <4>6
    <3>2. CASE Becomes("context", Idle)
      BY <1>1, <1>3, <2>1, <3>2, IdleKind DEF ContextAnalysed
    <3> QED BY <2>1, <3>1, <3>2
  <2>2. CASE Review("context", r)
    BY <1>1, <1>3, <2>2, ReviewKind DEF ContextAnalysed
  <2> QED BY <1>3, <2>1, <2>2 DEF ContextAnalysed
<1>4. CASE Validity
  BY <1>1, <1>4, PassKind DEF Validity, TellWindowClosed
<1>5. CASE ContextReview
  BY <1>1, <1>5, ReviewKind DEF ContextReview
<1> QED BY <1>2, <1>3, <1>4, <1>5 DEF Context

LEMMA WatchKind ==
  ASSUME TypeOK, NEW t \in Watchers, Watch(t), ~MarkTarget(t)
  PROVE  \/ \E q \in Doings : Quiet(t, q) \/ Starting(t, q)
         \/ \E q \in Doings, n \in Targets : Hitting(t, q, n)
<1> USE DEF memory, history
<1>1. t \in Tasks /\ task[t] \in Doings /\ Holds(task[t])
  BY DEF Tasks, TypeOK
<1>2. CASE Look(t)
  BY <1>1, <1>2, LookKind DEF Look
<1>3. CASE Observe(t)
  <2>1. PICK stop \in BOOLEAN, reach \in 0..3 :
          LET r == [task[t] EXCEPT !.stop = stop, !.reach = reach] IN
          IF stop /\ 1 \notin hits[r.s] THEN CloseOrLeave(t, r, "SL") ELSE Advance(t, r)
    BY <1>3 DEF Observe
  <2> DEFINE r == [task[t] EXCEPT !.stop = stop, !.reach = reach]
  <2>2. r \in Doings /\ r.s = task[t].s /\ r.n = task[t].n
    BY <1>1 DEF Doings
  <2>3. task[t].at = "observed" /\ task[t].s # NoSignal
    BY <1>1, <1>3 DEF Observe, Holds, Holding
  <2>4. CloseOrLeave(t, r, "SL") \/ Advance(t, r)
    BY <2>1
  <2> HIDE DEF r
  <2>5. CASE Advance(t, r)
    BY <2>2, <2>3, <2>5, AdvanceKind
  <2>6. CASE StartClose(t, r, "SL", "idle")
    BY <1>1, <2>2, <2>3, <2>6, StartCloseKind DEF Reasons
  <2>7. CASE Becomes(t, Idle) /\ UNCHANGED <<rows, memory, cooled, history, restarts, dbFaults>>
    BY <1>1, <2>3, <2>7, IdleKind
  <2> QED BY <2>4, <2>5, <2>6, <2>7 DEF CloseOrLeave
<1>4. CASE FailMark(t)
  <2>1. Idle.at = "idle" /\ Idle.s = NoSignal
    BY DEF Idle
  <2>2. Quiet(t, Idle)
    BY <1>4, <2>1, IdleTyped DEF FailMark, Quiet, MovesTo, Becomes
  <2> QED BY <2>2, IdleTyped
<1>5. CASE Continue(t)
  BY <1>1, <1>5, AdvanceKind DEF Continue
<1> QED BY <1>2, <1>3, <1>4, <1>5 DEF Watch

\* What a step of the four tasks may be.
Step ==
  \/ \E t \in Tasks, q \in Doings : Quiet(t, q) \/ Starting(t, q)
  \/ \E t \in Watchers, q \in Doings, n \in Targets : Hitting(t, q, n)
  \/ \E t \in Watchers : MarkTarget(t)
  \/ \E t \in Tasks : FinishClose(t) \/ FailClose(t)
  \/ CreateRow \/ Activate \/ FailOpening \/ CoolDown \/ Restart

LEMMA StepKinds ==
  ASSUME TypeOK, Next
  PROVE  Step
<1> USE DEF memory, history
<1>1. "scan" \in Tasks /\ "scan" \in Reviewers /\ Watchers \subseteq Tasks
  BY DEF Tasks, Reviewers
<1>2. CASE ScanRow
  <2>1. PICK execute \in BOOLEAN : Review("scan", [Idle EXCEPT !.execute = execute])
    BY <1>2 DEF ScanRow
  <2>2. [Idle EXCEPT !.execute = execute] \in Doings
    BY IdleTyped DEF Doings
  <2>3. task["scan"].at = "idle"
    BY <1>2 DEF ScanRow
  <2> QED BY <1>1, <2>1, <2>2, <2>3, ReviewKind DEF Step
<1>3. CASE DropCandidate \/ AiAnswers
  <2>1. /\ Becomes("scan", Idle) /\ task["scan"].at \notin {"closing", "created", "marking"}
        /\ UNCHANGED <<rows, active, closing, hits, closes, popped, unopened, restarts, dbFaults>>
    BY <1>3 DEF DropCandidate, AiAnswers
  <2> QED BY <1>1, <2>1, IdleKind DEF Step
<1>4. CASE RelayExecute
  <2>1. /\ Becomes("scan", [Idle EXCEPT !.at = "ai"])
        /\ task["scan"].at \notin {"closing", "created", "marking"}
        /\ UNCHANGED <<rows, active, closing, hits, closes, popped, unopened, restarts, dbFaults>>
    BY <1>4 DEF RelayExecute
  <2> QED BY <1>1, <2>1, PassKind DEF Step
<1>5. CASE Context
  BY <1>5, ContextKind DEF Step
<1>6. ASSUME NEW t \in Watchers, Watch(t) PROVE Step
  <2>1. CASE MarkTarget(t)
    BY <2>1 DEF Step
  <2>2. CASE ~MarkTarget(t)
    BY <1>1, <1>6, <2>2, WatchKind DEF Step
  <2> QED BY <2>1, <2>2
<1>7. ASSUME NEW t \in Tasks, Decide(t) PROVE Step
  <2>1. task[t] \in Doings
    BY DEF TypeOK
  <2>2. CASE ManageNow(t)
    BY <2>1, <2>2, ManageKind DEF ManageNow, Step
  <2>3. CASE After(t)
    BY <2>1, <2>3, LeaveKind DEF After, Step
  <2> QED BY <1>7, <2>2, <2>3 DEF Decide
<1> QED BY <1>2, <1>3, <1>4, <1>5, <1>6, <1>7 DEF Next, Open, Close, Step

-----------------------------------------------------------------------------
(***************************************************************************)
(* Types.                                                                  *)
(***************************************************************************)

\* What the kinds of steps do not speak of.
Others ==
  /\ management \in {"HOLD", "PROTECT", "TRAIL"} /\ notified \in [Signals -> BOOLEAN]
  /\ cooled \in BOOLEAN /\ relayed \subseteq Signals
  /\ restarts \in Nat /\ dbFaults \in Nat

LEMMA LevelSet == {Levels[i] : i \in DOMAIN Levels} = {"HOLD", "PROTECT", "TRAIL"}
<1>1. DOMAIN Levels = {1, 2, 3}
  BY DEF Levels
<1>2. Levels[1] = "HOLD" /\ Levels[2] = "PROTECT" /\ Levels[3] = "TRAIL"
  BY DEF Levels
<1> QED BY <1>1, <1>2

LEMMA OthersTyped == TypeOK => Others
BY LevelSet DEF TypeOK, Others

LEMMA ReviewOthers ==
  ASSUME Others, NEW t \in Tasks, NEW r \in Doings, Review(t, r)
  PROVE  Others'
<1> USE DEF history, memory
<1>1. CASE StartClose(t, [r EXCEPT !.s = active], "INVALIDATED", "manage")
  BY <1>1 DEF StartClose, Others
<1>2. CASE Manage(t, r)
  BY <1>2 DEF Manage, StartClose, Allowed, Others
<1> QED BY <1>1, <1>2 DEF Review

LEMMA AdvanceOthers ==
  ASSUME Others, NEW t \in Watchers, NEW r, r.s \in Signals, Advance(t, r)
  PROVE  Others'
<1> USE DEF history, memory
<1>1. CASE \E n \in Targets \cup {Min(DueTargets(t, r))} : HitTarget(t, r, n)
  BY <1>1 DEF HitTarget, Others
<1>2. CASE \E reason \in Reasons : CloseOrLeave(t, r, reason)
  BY <1>2 DEF CloseOrLeave, StartClose, Others
<1>3. CASE EndPass(t, r)
  BY <1>3 DEF EndPass, TellWindowClosed, Others
<1> QED BY <1>1, <1>2, <1>3 DEF Advance, Reasons

LEMMA WatchOthers ==
  ASSUME TypeOK, Others, NEW t \in Watchers, Watch(t)
  PROVE  Others'
<1> USE DEF history, memory
<1>1. task[t] \in Doings /\ Holds(task[t])
  BY DEF Tasks, TypeOK
<1>2. CASE Look(t)
  BY <1>2 DEF Look, Others
<1>3. CASE Observe(t)
  <2>1. PICK stop \in BOOLEAN, reach \in 0..3 :
          LET r == [task[t] EXCEPT !.stop = stop, !.reach = reach] IN
          IF stop /\ 1 \notin hits[r.s] THEN CloseOrLeave(t, r, "SL") ELSE Advance(t, r)
    BY <1>3 DEF Observe
  <2> DEFINE r == [task[t] EXCEPT !.stop = stop, !.reach = reach]
  <2>2. r.s = task[t].s /\ task[t].s \in Signals
    BY <1>1, <1>3 DEF Doings, Observe, Holds, Holding
  <2>3. CloseOrLeave(t, r, "SL") \/ Advance(t, r)
    BY <2>1
  <2> HIDE DEF r
  <2>4. CASE CloseOrLeave(t, r, "SL")
    BY <2>4 DEF CloseOrLeave, StartClose, Others
  <2> QED BY <2>2, <2>3, <2>4, AdvanceOthers
<1>4. CASE MarkTarget(t)
  BY <1>4 DEF MarkTarget, LevelAt, Others
<1>5. CASE FailMark(t)
  BY <1>5 DEF FailMark, Others
<1>6. CASE Continue(t)
  <2>1. task[t].s \in Signals
    BY <1>1, <1>6 DEF Doings, Continue, Holds, Holding
  <2> QED BY <1>6, <2>1, AdvanceOthers DEF Continue
<1> QED BY <1>2, <1>3, <1>4, <1>5, <1>6 DEF Watch

LEMMA OthersStep ==
  ASSUME TypeOK, Next
  PROVE  Others'
<1> USE OthersTyped DEF history, memory
<1>1. /\ "scan" \in Tasks /\ "context" \in Tasks
      /\ task["scan"] \in Doings /\ Holds(task["scan"])
      /\ task["context"] \in Doings /\ Holds(task["context"])
  BY DEF Tasks, Reviewers, TypeOK
<1>2. CASE ScanRow
  <2>1. PICK execute \in BOOLEAN : Review("scan", [Idle EXCEPT !.execute = execute])
    BY <1>2 DEF ScanRow
  <2>2. [Idle EXCEPT !.execute = execute] \in Doings
    BY IdleTyped DEF Doings
  <2> QED BY <1>1, <2>1, <2>2, ReviewOthers
<1>3. CASE RelayExecute
  <2>1. task["scan"].s \in Signals
    BY <1>1, <1>3 DEF RelayExecute, Holds, Holding, Doings
  <2> QED BY <1>3, <2>1 DEF RelayExecute, Others
<1>4. CASE CreateRow \/ DropCandidate \/ Activate \/ FailOpening \/ AiAnswers \/ CoolDown
  <2>1. CASE CreateRow
    BY <2>1 DEF CreateRow, Others
  <2>2. CASE Activate \/ FailOpening
    BY <2>2 DEF Activate, FailOpening, Others
  <2>3. CASE DropCandidate \/ AiAnswers \/ CoolDown
    BY <2>3 DEF DropCandidate, AiAnswers, CoolDown, Others
  <2> QED BY <1>4, <2>1, <2>2, <2>3
<1>5. CASE Context
  <2>1. CASE ContextBegin
    BY <2>1 DEF ContextBegin, Others
  <2>2. CASE ContextAnalysed
    BY <1>1, <2>2, ReviewOthers DEF ContextAnalysed, Others
  <2>3. CASE Validity
    BY <2>3 DEF Validity, TellWindowClosed, Others
  <2>4. CASE ContextReview
    BY <1>1, <2>4, ReviewOthers DEF ContextReview
  <2> QED BY <1>5, <2>1, <2>2, <2>3, <2>4 DEF Context
<1>6. ASSUME NEW t \in Tasks, Close(t) PROVE Others'
  BY <1>6 DEF Close, FinishClose, FailClose, Drop, Others
<1>7. ASSUME NEW t \in Tasks, Decide(t) PROVE Others'
  <2>1. task[t] \in Doings
    BY DEF TypeOK
  <2>2. CASE ManageNow(t)
    BY <2>1, <2>2, ReviewOthers DEF ManageNow, Review
  <2>3. CASE After(t)
    BY <2>3 DEF After, Others
  <2> QED BY <1>7, <2>2, <2>3 DEF Decide
<1>8. CASE Restart
  BY <1>8 DEF Restart, Others
<1> QED BY <1>2, <1>3, <1>4, <1>5, <1>6, <1>7, <1>8, WatchOthers DEF Next, Open

\* A set of signals has a last one.
LEMMA LastOfSome ==
  ASSUME NEW T \in SUBSET Signals, T # {}
  PROVE  Max(T) \in T /\ \A s \in T : s <= Max(T)
<1> DEFINE D == {MaxSignals - s : s \in T}
<1>0. \A s \in T : s \in Nat /\ MaxSignals - s \in Nat
  BY ScannerAssumption DEF Signals
<1>1. D \subseteq Nat /\ D # {}
  <2>1. D \subseteq Nat
    BY ONLY <1>0
  <2>2. PICK s \in T : TRUE
    OBVIOUS
  <2>3. MaxSignals - s \in D
    OBVIOUS
  <2> QED BY <2>1, <2>3
<1>2. PICK d \in D : \A e \in D : ~ (<<e, d>> \in OpToRel(<, Nat))
  BY <1>1, WFMin, NatLessThanWellFounded
<1>3. \A e \in D : d <= e
  <2> TAKE e \in D
  <2>1. e \in Nat /\ d \in Nat
    BY <1>1
  <2>2. e < d => <<e, d>> \in OpToRel(<, Nat)
    BY ONLY <2>1, Zenon DEF OpToRel
  <2>3. ~ (e < d)
    BY <1>2, <2>2, Zenon
  <2> QED BY <2>1, <2>3
<1>4. PICK s \in T : d = MaxSignals - s
  BY <1>2
<1>5. \A r \in T : s >= r
  <2> TAKE r \in T
  <2>1. d <= MaxSignals - r
    BY <1>3
  <2> QED BY <1>0, <1>4, <2>1, ScannerAssumption
<1>6. Max(T) \in T /\ \A y \in T : Max(T) >= y
  BY <1>5 DEF Max
<1> QED BY <1>0, <1>6

\* The other kinds, by what becomes of the task.
LEMMA MarkKind ==
  ASSUME TypeOK, NEW t \in Watchers, MarkTarget(t)
  PROVE  \E q \in Doings :
           MovesTo(t, q) /\ q.at = "marked" /\ q.s = task[t].s /\ q.n = task[t].n + 1
<1> DEFINE r == task[t]
           q == [r EXCEPT !.at = "marked", !.n = r.n + 1]
<1>1. r \in Doings /\ r.s # NoSignal /\ r.n \in Targets
  BY DEF MarkTarget, TypeOK, Tasks, Holds, Holding
<1>2. r.n + 1 \in 1..4
  BY <1>1 DEF Targets
<1>3. q \in Doings
  BY <1>1, <1>2 DEF Doings, Labels
<1>4. q.at = "marked" /\ q.s = r.s /\ q.n = r.n + 1
  BY <1>1 DEF Doings
<1>5. task' = [task EXCEPT ![t] = q]
  BY DEF MarkTarget, Becomes
<1> HIDE DEF q
<1>6. Holds(q)
  BY <1>1, <1>4 DEF Holds
<1> QED BY <1>3, <1>4, <1>5, <1>6 DEF MovesTo

LEMMA CloseKind ==
  ASSUME TypeOK, NEW t \in Tasks, FinishClose(t) \/ FailClose(t)
  PROVE  \E q \in Doings :
           MovesTo(t, q) /\ q.at \in {"idle", "manage", "after"} /\ q.s = NoSignal
<1> DEFINE r == task[t]
           q == [Idle EXCEPT !.at = r.then, !.execute = r.execute]
<1>1. r.then \in {"idle", "manage", "after"} /\ r.execute \in BOOLEAN
  BY DEF TypeOK, Doings
<1>2. CASE FinishClose(t)
  <2>1. q \in Doings
    BY <1>1, IdleTyped DEF Doings, Labels
  <2>2. q.at = r.then /\ q.s = NoSignal
    BY IdleTyped DEF Doings, Idle
  <2>3. task' = [task EXCEPT ![t] = q]
    BY <1>2 DEF FinishClose, Becomes
  <2> HIDE DEF q
  <2>4. Holds(q)
    BY <1>1, <2>2 DEF Holds, Holding
  <2> QED BY <1>1, <2>1, <2>2, <2>3, <2>4 DEF MovesTo
<1>3. CASE FailClose(t)
  <2>1. Idle.at = "idle" /\ Idle.s = NoSignal
    BY DEF Idle
  <2> QED BY <1>3, <2>1, IdleTyped DEF FailClose, Becomes, MovesTo
<1> QED BY <1>2, <1>3

\* A new row is the one after the last.
Opens(s, q) ==
  /\ MovesTo("scan", q) /\ q.at = "created" /\ q.s = s
  /\ Created = 1..(s - 1)
  /\ rows' = [rows EXCEPT ![s].status = "ACTIVE"]
  /\ task["scan"].at = "confirm"
  /\ UNCHANGED <<active, closing, hits, closes, popped, unopened, restarts, dbFaults>>

LEMMA CreateKind ==
  ASSUME TypeOK, CreatedInv, CreateRow
  PROVE  \E q \in Doings, s \in Signals : Opens(s, q)
<1> DEFINE s == Cardinality(Created) + 1
           q == [Idle EXCEPT !.at = "created", !.s = s]
<1>1. PICK n \in 0..MaxSignals : Created = 1..n
  BY DEF CreatedInv
<1>2. Cardinality(Created) = n
  BY <1>1, FS_Interval, ScannerAssumption
<1>3. crew.signals \in 1..MaxSignals
  BY ScannerAssumption DEF TypeOK
<1>4. s \in Signals /\ Created = 1..(s - 1)
  BY <1>1, <1>2, <1>3, ScannerAssumption DEF CreateRow, Signals
<1>5. /\ task' = [task EXCEPT !["scan"] = q] /\ task["scan"].at = "confirm"
      /\ rows' = [rows EXCEPT ![s].status = "ACTIVE"]
      /\ UNCHANGED <<active, closing, hits, closes, popped, unopened, restarts, dbFaults>>
  BY DEF CreateRow, Becomes, memory, history
<1> HIDE DEF s
<1>6. q \in Doings
  BY <1>4, IdleTyped DEF Doings, Labels
<1>7. q.at = "created" /\ q.s = s
  BY IdleTyped DEF Doings
<1> HIDE DEF q
<1>8. s # NoSignal
  BY <1>4, ScannerAssumption DEF Signals, NoSignal
<1>9. Holds(q)
  BY <1>7, <1>8 DEF Holds
<1> QED BY <1>4, <1>5, <1>6, <1>7, <1>9 DEF MovesTo, Opens

LEMMA ActivateKind ==
  ASSUME TypeOK, Activate
  PROVE  \E q \in Doings :
           /\ MovesTo("scan", q) /\ q.at = "shadow" /\ q.s = task["scan"].s
           /\ q.s \in Signals
<1> DEFINE r == task["scan"]
           q == [r EXCEPT !.at = "shadow"]
<1>1. r \in Doings /\ r.s # NoSignal
  BY DEF Activate, TypeOK, Tasks, Reviewers, Holds, Holding
<1>2. q \in Doings
  BY <1>1 DEF Doings, Labels
<1>3. q.at = "shadow" /\ q.s = r.s
  BY <1>1 DEF Doings
<1>4. task' = [task EXCEPT !["scan"] = q]
  BY DEF Activate, Becomes
<1>5. r.s \in Signals
  BY <1>1 DEF Doings
<1> HIDE DEF q
<1>6. Holds(q)
  BY <1>1, <1>3 DEF Holds
<1> QED BY <1>2, <1>3, <1>4, <1>5, <1>6 DEF MovesTo

LEMMA FailOpeningKind ==
  ASSUME TypeOK, FailOpening
  PROVE  /\ MovesTo("scan", Idle) /\ Idle.at = "idle" /\ Idle.s = NoSignal
         /\ task["scan"].at = "created" /\ task["scan"].s \in Signals
         /\ UNCHANGED <<rows, active, closing, hits, closes, popped, restarts>>
         /\ dbFaults' = dbFaults + 1 /\ unopened' = unopened \cup {task["scan"].s}
<1>1. task["scan"].at = "created"
  BY DEF FailOpening
<1>2. task["scan"].s \in Signals
  BY <1>1 DEF TypeOK, Tasks, Reviewers, Holds, Holding, Doings
<1>3. MovesTo("scan", Idle)
  BY IdleTyped DEF FailOpening, Becomes, MovesTo
<1>4. Idle.at = "idle" /\ Idle.s = NoSignal
  BY DEF Idle
<1> QED BY <1>1, <1>2, <1>3, <1>4 DEF FailOpening, memory

\* One task moves, and all tasks remain typed.
LEMMA MoveFacts ==
  ASSUME TypeOK, NEW t \in Tasks, NEW q, MovesTo(t, q)
  PROVE  /\ task'[t] = q /\ \A u \in Tasks : u # t => task'[u] = task[u]
         /\ task' \in [Tasks -> Doings] /\ \A u \in Tasks : Holds(task'[u])
BY DEF MovesTo, TypeOK

LEMMA ScanIsATask == "scan" \in Tasks /\ "scan" \notin Watchers /\ Watchers \subseteq Tasks
BY DEF Tasks, Reviewers, Watchers

\* No step but a restart touches all tasks; a step of another kind moves one.
LEMMA TaskTyped ==
  ASSUME TypeOK, CreatedInv, Step
  PROVE  task' \in [Tasks -> Doings] /\ \A u \in Tasks : Holds(task'[u])
<1>1. ASSUME NEW t \in Tasks, NEW q \in Doings, Quiet(t, q) \/ Starting(t, q)
      PROVE  MovesTo(t, q)
  BY <1>1 DEF Quiet, Starting
<1>2. ASSUME NEW t \in Watchers, NEW q \in Doings, NEW n \in Targets, Hitting(t, q, n)
      PROVE  t \in Tasks /\ MovesTo(t, q)
  BY <1>2, ScanIsATask DEF Hitting
<1>3. ASSUME NEW t \in Watchers, MarkTarget(t)
      PROVE  t \in Tasks /\ \E q \in Doings : MovesTo(t, q)
  BY <1>3, MarkKind, ScanIsATask
<1>4. CASE CreateRow
  BY <1>4, CreateKind, MoveFacts, ScanIsATask DEF Opens
<1>5. CASE Activate
  BY <1>5, ActivateKind, MoveFacts, ScanIsATask
<1>8. CASE FailOpening
  BY <1>8, FailOpeningKind, MoveFacts, ScanIsATask
<1>6. CASE CoolDown
  BY <1>6 DEF CoolDown, TypeOK
<1>7. CASE Restart
  <2>1. task' = [t \in Tasks |-> Idle]
    BY <1>7 DEF Restart
  <2> QED BY <2>1, IdleTyped
<1> QED BY <1>1, <1>2, <1>3, <1>4, <1>5, <1>6, <1>7, <1>8, CloseKind, MoveFacts DEF Step

\* At a restart the last ACTIVE row of the contract is watched.
LEMMA RestartKind ==
  ASSUME TypeOK, Restart
  PROVE  /\ active' \in ActiveRows \cup {NoSignal}
         /\ active' = NoSignal <=> ActiveRows = {}
         /\ popped' = ActiveRows \ {active'}
<1> DEFINE open == ActiveRows
<1>1. open \subseteq Signals /\ NoSignal \notin Signals
  BY DEF ActiveRows, Signals, NoSignal
<1>2. active' = Reloaded(open) /\ popped' = open \ {Reloaded(open)}
  BY DEF Restart
<1> HIDE DEF open
<1>3. CASE open = {}
  BY <1>2, <1>3 DEF Reloaded, open
<1>4. CASE open # {}
  <2>1. Reloaded(open) \in open
    BY <1>1, <1>4, LastOfSome DEF Reloaded
  <2> QED BY <1>1, <1>2, <1>4, <2>1 DEF open
<1> QED BY <1>3, <1>4

\* The other variables that the kinds speak of.
LEMMA StepTyped ==
  ASSUME TypeOK, CreatedInv, Step
  PROVE  /\ rows' \in [Signals -> Rows] /\ hits' \in [Signals -> SUBSET Targets]
         /\ active' \in Signals \cup {NoSignal} /\ closing' \in BOOLEAN
         /\ popped' \subseteq Signals /\ unopened' \subseteq Signals
         /\ closes' \in [Signals -> [Signals -> Nat]]
<1> DEFINE Goal == /\ rows' \in [Signals -> Rows] /\ hits' \in [Signals -> SUBSET Targets]
                   /\ active' \in Signals \cup {NoSignal} /\ closing' \in BOOLEAN
                   /\ popped' \subseteq Signals /\ unopened' \subseteq Signals
                   /\ closes' \in [Signals -> [Signals -> Nat]]
<1>0. closes \in [Signals -> [Signals -> Nat]] /\ NoCloses \in [Signals -> [Signals -> Nat]]
  BY DEF TypeOK, NoCloses
<1>1. ASSUME NEW t \in Tasks, NEW q \in Doings, Quiet(t, q) PROVE Goal
  BY <1>1 DEF Quiet, TypeOK
<1>10. ASSUME NEW t \in Tasks, NEW q \in Doings, Starting(t, q) PROVE Goal
  <2>1. active \in Signals /\ q.s \in Signals
    BY <1>10 DEF Starting, CanClose, Watched, TypeOK, MovesTo, Holds, Holding, Doings
  <2>2. closes' = [closes EXCEPT ![active][q.s] = @ + 1]
    BY <1>10 DEF Starting
  <2>3. closes' \in [Signals -> [Signals -> Nat]]
    BY <1>0, <2>1, <2>2
  <2> QED BY <1>10, <2>3 DEF Starting, TypeOK
<1>2. ASSUME NEW t \in Watchers, NEW q \in Doings, NEW n \in Targets, Hitting(t, q, n)
      PROVE  Goal
  BY <1>2 DEF Hitting, TypeOK
<1>3. ASSUME NEW t \in Watchers, MarkTarget(t)
      PROVE  Goal
  <2>1. task[t].s \in Signals /\ task[t].n \in Targets
    BY <1>3 DEF MarkTarget, TypeOK, Tasks, Doings, Holds, Holding
  <2>2. rows' = [rows EXCEPT ![task[t].s].tps = @ \cup {task[t].n}]
    BY <1>3 DEF MarkTarget
  <2>3. rows' \in [Signals -> Rows]
    BY <2>1, <2>2 DEF TypeOK, Rows
  <2> QED BY <1>3, <2>3 DEF MarkTarget, history, TypeOK
<1>4. ASSUME NEW t \in Tasks, FinishClose(t) PROVE Goal
  <2>1. task[t].s \in Signals /\ task[t].reason \in Reasons
    BY <1>4 DEF FinishClose, TypeOK, Doings, Holds, Holding
  <2>2. rows' = [rows EXCEPT ![task[t].s].status = "CLOSED", ![task[t].s].reason = task[t].reason]
    BY <1>4 DEF FinishClose, Written
  <2>3. rows' \in [Signals -> Rows]
    BY <2>1, <2>2 DEF TypeOK, Rows
  <2> QED BY <1>4, <2>3 DEF FinishClose, Drop, TypeOK
<1>5. ASSUME NEW t \in Tasks, FailClose(t) PROVE Goal
  BY <1>5 DEF FailClose, Drop, TypeOK
<1>6. CASE CreateRow
  <2>1. PICK q \in Doings, s \in Signals : Opens(s, q)
    BY <1>6, CreateKind
  <2>2. rows' \in [Signals -> Rows]
    BY <2>1 DEF Opens, TypeOK, Rows
  <2> QED BY <2>1, <2>2 DEF Opens, TypeOK
<1>7. CASE Activate
  <2>1. active' \in Signals
    BY <1>7, ActivateKind DEF Activate
  <2> QED BY <1>7, <2>1 DEF Activate, history, TypeOK
<1>8. CASE CoolDown
  BY <1>8 DEF CoolDown, memory, history, TypeOK
<1>11. CASE FailOpening
  BY <1>11, FailOpeningKind DEF TypeOK
<1>9. CASE Restart
  <2>1. /\ hits' = [s \in Signals |-> rows[s].tps] /\ rows' = rows /\ closing' = FALSE
        /\ closes' = NoCloses /\ unopened' = {}
    BY <1>9 DEF Restart
  <2>2. hits' \in [Signals -> SUBSET Targets]
    BY <2>1 DEF TypeOK, Rows
  <2> QED BY <1>0, <1>9, <2>1, <2>2, RestartKind DEF ActiveRows, TypeOK
<1> QED BY <1>1, <1>2, <1>3, <1>4, <1>5, <1>6, <1>7, <1>8, <1>9, <1>10,
          <1>11 DEF Step

LEMMA TypeStep ==
  ASSUME TypeOK, CreatedInv, Next
  PROVE  TypeOK'
<1>1. crew' = crew
  BY DEF Next
<1>2. Step
  BY StepKinds
<1> QED BY <1>1, <1>2, OthersStep, TaskTyped, StepTyped, LevelSet DEF TypeOK, Others

-----------------------------------------------------------------------------
(***************************************************************************)
(* The parts of the invariant, kind by kind.                               *)
(***************************************************************************)

\* What a closing task holds.
LEMMA ClosingHolds ==
  ASSUME TypeOK, NEW t \in Tasks, task[t].at = "closing"
  PROVE  task[t].s \in Signals /\ task[t].s # NoSignal
BY DEF TypeOK, Doings, Holds, Holding

LEMMA NoSignalIsNone == NoSignal \notin Signals
BY DEF NoSignal, Signals

\* The rows keep their numbers as long as no status changes from or to "none".
LEMMA SameCreated ==
  ASSUME \A s \in Signals : rows'[s].status # "none" <=> rows[s].status # "none"
  PROVE  Created' = Created
BY DEF Created

LEMMA CreatedStep ==
  ASSUME TypeOK, IInv, Step
  PROVE  CreatedInv'
<1> USE DEF IInv, CreatedInv
<1>0. active # NoSignal => active \in Created
  BY DEF OrphansExplained, Watched, Created, TypeOK
<1>1. ASSUME NEW t \in Tasks, NEW q \in Doings, Quiet(t, q) \/ Starting(t, q)
      PROVE  CreatedInv'
  <2>1. /\ MovesTo(t, q) /\ rows' = rows
        /\ q.s \in {NoSignal, task[t].s, active}
    BY <1>1 DEF Quiet, Starting
  <2> QED BY <1>0, <2>1, MoveFacts, SameCreated
<1>2. ASSUME NEW t \in Watchers, NEW q \in Doings, NEW n \in Targets, Hitting(t, q, n)
      PROVE  CreatedInv'
  <2>1. t \in Tasks /\ MovesTo(t, q) /\ rows' = rows /\ q.s = task[t].s
    BY <1>2, ScanIsATask DEF Hitting
  <2> QED BY <2>1, MoveFacts, SameCreated
<1>3. ASSUME NEW t \in Watchers, MarkTarget(t)
      PROVE  CreatedInv'
  <2>1. PICK q \in Doings : t \in Tasks /\ MovesTo(t, q) /\ q.s = task[t].s
    BY <1>3, MarkKind, ScanIsATask
  <2>2. rows' = [rows EXCEPT ![task[t].s].tps = @ \cup {task[t].n}]
    BY <1>3 DEF MarkTarget
  <2>3. Created' = Created
    BY <2>2, SameCreated DEF TypeOK, Rows
  <2> QED BY <2>1, <2>3, MoveFacts
<1>4. ASSUME NEW t \in Tasks, FinishClose(t) \/ FailClose(t) PROVE CreatedInv'
  <2>1. PICK q \in Doings : MovesTo(t, q) /\ q.s = NoSignal
    BY <1>4, CloseKind
  <2>2. task[t].s \in Created
    BY <1>4, ClosingHolds DEF FinishClose, FailClose
  <2>3. \/ rows' = rows
        \/ rows' = [rows EXCEPT ![task[t].s].status = "CLOSED",
                                ![task[t].s].reason = task[t].reason]
    BY <1>4 DEF FinishClose, FailClose, Written
  <2>4. \A s \in Signals : rows'[s].status # "none" <=> rows[s].status # "none"
    <3>1. task[t].s \in Signals /\ rows[task[t].s].status # "none"
      BY <2>2 DEF Created
    <3>2. \A s \in Signals \ {task[t].s} : rows'[s] = rows[s]
      BY <2>3 DEF TypeOK
    <3>3. rows'[task[t].s].status \in {"CLOSED", rows[task[t].s].status}
      BY <2>3, <3>1 DEF TypeOK, Rows
    <3> QED BY <3>1, <3>2, <3>3
  <2>5. Created' = Created
    BY <2>4, SameCreated
  <2> QED BY <2>1, <2>5, MoveFacts
<1>5. CASE CreateRow
  <2>1. PICK q \in Doings, s \in Signals : Opens(s, q)
    BY <1>5, CreateKind
  <2>2. Created' = Created \cup {s}
    BY <2>1 DEF Opens, Created, TypeOK, Rows
  <2>3. s \in 1..MaxSignals /\ Created = 1..(s - 1)
    BY <2>1 DEF Opens, Signals
  <2>4. Created' = 1..s /\ s \in 0..MaxSignals
    BY <2>2, <2>3, ScannerAssumption
  <2> QED BY <2>1, <2>2, <2>4, MoveFacts, ScanIsATask DEF Opens
<1>6. CASE Activate
  <2>1. PICK q \in Doings : MovesTo("scan", q) /\ q.s = task["scan"].s
    BY <1>6, ActivateKind
  <2>2. rows' = rows
    BY <1>6 DEF Activate
  <2> QED BY <2>1, <2>2, MoveFacts, SameCreated, ScanIsATask
<1>9. CASE FailOpening
  <2>1. MovesTo("scan", Idle) /\ Idle.s = NoSignal /\ rows' = rows
    BY <1>9, FailOpeningKind
  <2> QED BY <2>1, MoveFacts, SameCreated, ScanIsATask
<1>7. CASE CoolDown
  BY <1>7, SameCreated DEF CoolDown
<1>8. CASE Restart
  <2>1. rows' = rows /\ task' = [t \in Tasks |-> Idle] /\ Idle.s = NoSignal
    BY <1>8 DEF Restart, Idle
  <2> QED BY <2>1, SameCreated
<1> QED BY <1>1, <1>2, <1>3, <1>4, <1>5, <1>6, <1>7, <1>8, <1>9 DEF Step

LEMMA OpeningStep ==
  ASSUME TypeOK, IInv, Step
  PROVE  OpeningInv'
<1> USE ScanIsATask DEF OpeningInv
<1>0. OpeningInv /\ CreatedInv /\ ClosingInv
  BY DEF IInv
<1>10. task["scan"].at = "created" => task["scan"].s \in Signals /\ task["scan"].s # NoSignal
  BY DEF TypeOK, Holds, Holding, Doings
<1>1. ASSUME NEW t \in Tasks, NEW q \in Doings, Quiet(t, q)
      PROVE  OpeningInv'
  <2>1. /\ MovesTo(t, q) /\ rows' = rows /\ active' = active
        /\ task[t].at # "created" /\ q.at # "created"
        /\ q.s \in {NoSignal, task[t].s, active}
        /\ q.at = "confirm" => ~Watched
    BY <1>1 DEF Quiet
  <2> QED BY <1>0, <1>10, <2>1, MoveFacts DEF Watched
<1>2. ASSUME NEW t \in Tasks, NEW q \in Doings, Starting(t, q)
      PROVE  OpeningInv'
  <2>1. MovesTo(t, q) /\ Watched /\ q.at = "closing"
    BY <1>2 DEF Starting, CanClose
  <2>2. task'["scan"].at \notin {"confirm", "created"}
    BY <1>0, <2>1, MoveFacts
  <2> QED BY <2>2
<1>3. ASSUME NEW t \in Watchers, NEW q \in Doings, NEW n \in Targets, Hitting(t, q, n)
      PROVE  OpeningInv'
  <2>1. t \in Tasks /\ MovesTo(t, q) /\ UNCHANGED <<rows, active>> /\ q.s = task[t].s
    BY <1>3 DEF Hitting
  <2> QED BY <1>0, <2>1, MoveFacts DEF Watched
<1>4. ASSUME NEW t \in Watchers, MarkTarget(t)
      PROVE  OpeningInv'
  <2>1. PICK q \in Doings : t \in Tasks /\ MovesTo(t, q) /\ q.s = task[t].s
    BY <1>4, MarkKind
  <2>2. rows' = [rows EXCEPT ![task[t].s].tps = @ \cup {task[t].n}] /\ active' = active
    BY <1>4 DEF MarkTarget
  <2>3. \A s \in Signals : rows'[s].status = rows[s].status
    BY <2>2 DEF TypeOK, Rows
  <2> QED BY <1>0, <1>10, <2>1, <2>2, <2>3, MoveFacts DEF Watched
<1>5. ASSUME NEW t \in Tasks, FinishClose(t) \/ FailClose(t) PROVE OpeningInv'
  <2>1. PICK q \in Doings : MovesTo(t, q) /\ q.at \in {"idle", "manage", "after"}
    BY <1>5, CloseKind
  <2>2. Watched
    BY <1>0, <1>5 DEF ClosingInv, FinishClose, FailClose
  <2>3. task'["scan"].at \notin {"confirm", "created"}
    BY <1>0, <2>1, <2>2, MoveFacts
  <2> QED BY <2>3
<1>6. CASE CreateRow
  <2>1. PICK q \in Doings, s \in Signals : Opens(s, q)
    BY <1>0, <1>6, CreateKind
  <2>2. rows'[s].status = "ACTIVE"
    BY <2>1 DEF Opens, TypeOK, Rows
  <2>3. s \notin Created /\ s # NoSignal
    BY <2>1, NoSignalIsNone DEF Opens, Signals
  <2>4. \A t \in Tasks : task[t].s # s
    BY <1>0, <2>3 DEF CreatedInv
  <2> QED BY <1>0, <2>1, <2>2, <2>4, MoveFacts DEF Opens, Watched
<1>7. CASE Activate
  <2>1. PICK q \in Doings : MovesTo("scan", q) /\ q.at = "shadow"
    BY <1>7, ActivateKind
  <2> QED BY <2>1, MoveFacts
<1>11. CASE FailOpening
  <2>1. MovesTo("scan", Idle) /\ Idle.at = "idle"
    BY <1>11, FailOpeningKind
  <2> QED BY <2>1, MoveFacts
<1>8. CASE CoolDown
  BY <1>0, <1>8 DEF CoolDown, memory, Watched
<1>9. CASE Restart
  BY <1>9 DEF Restart, Idle
<1> QED BY <1>1, <1>2, <1>3, <1>4, <1>5, <1>6, <1>7, <1>8, <1>9, <1>11 DEF Step

LEMMA ClosingStep ==
  ASSUME TypeOK, IInv, Step
  PROVE  ClosingInv'
<1> USE ScanIsATask DEF ClosingInv
<1>0. OpeningInv /\ CreatedInv /\ ClosingInv
  BY DEF IInv
<1>1. ASSUME NEW t \in Tasks, NEW q \in Doings, Quiet(t, q)
      PROVE  ClosingInv'
  <2>1. /\ MovesTo(t, q) /\ UNCHANGED <<active, closing>>
        /\ task[t].at # "closing" /\ q.at # "closing"
    BY <1>1 DEF Quiet
  <2> QED BY <1>0, <2>1, MoveFacts DEF Watched
<1>2. ASSUME NEW t \in Tasks, NEW q \in Doings, Starting(t, q)
      PROVE  ClosingInv'
  <2>1. /\ MovesTo(t, q) /\ Watched /\ ~closing /\ closing' = TRUE /\ active' = active
        /\ q.at = "closing"
    BY <1>2 DEF Starting, CanClose
  <2>2. \A u \in Tasks : task'[u].at = "closing" <=> u = t
    BY <1>0, <2>1, MoveFacts
  <2>3. Watched'
    BY <2>1 DEF Watched
  <2> QED BY <2>1, <2>2, <2>3
<1>3. ASSUME NEW t \in Watchers, NEW q \in Doings, NEW n \in Targets, Hitting(t, q, n)
      PROVE  ClosingInv'
  <2>1. /\ t \in Tasks /\ MovesTo(t, q) /\ UNCHANGED <<active, closing>>
        /\ task[t].at # "closing" /\ q.at # "closing"
    BY <1>3 DEF Hitting
  <2> QED BY <1>0, <2>1, MoveFacts DEF Watched
<1>4. ASSUME NEW t \in Watchers, MarkTarget(t)
      PROVE  ClosingInv'
  <2>1. PICK q \in Doings : t \in Tasks /\ MovesTo(t, q) /\ q.at = "marked"
    BY <1>4, MarkKind
  <2>2. UNCHANGED <<active, closing>> /\ task[t].at = "marking"
    BY <1>4 DEF MarkTarget, history
  <2> QED BY <1>0, <2>1, <2>2, MoveFacts DEF Watched
<1>5. ASSUME NEW t \in Tasks, FinishClose(t) \/ FailClose(t) PROVE ClosingInv'
  <2>1. PICK q \in Doings : MovesTo(t, q) /\ q.at \in {"idle", "manage", "after"}
    BY <1>5, CloseKind
  <2>2. task[t].at = "closing" /\ active' = NoSignal /\ closing' = FALSE
    BY <1>5 DEF FinishClose, FailClose, Drop
  <2>3. \A u \in Tasks : task'[u].at # "closing"
    BY <1>0, <2>1, <2>2, MoveFacts
  <2> QED BY <2>2, <2>3 DEF Watched
<1>6. CASE CreateRow
  <2>1. PICK q \in Doings, s \in Signals : Opens(s, q)
    BY <1>0, <1>6, CreateKind
  <2>2. /\ MovesTo("scan", q) /\ q.at = "created" /\ task["scan"].at = "confirm"
        /\ UNCHANGED <<active, closing>>
    BY <2>1 DEF Opens
  <2> QED BY <1>0, <2>2, MoveFacts DEF Watched
<1>7. CASE Activate
  <2>1. PICK q \in Doings : MovesTo("scan", q) /\ q.at = "shadow"
    BY <1>7, ActivateKind
  <2>2. /\ task["scan"].at = "created" /\ active' \in Signals
        /\ closing' = closing
    BY <1>7, ActivateKind DEF Activate
  <2>3. ~Watched /\ ~closing /\ Watched'
    BY <1>0, <2>2, NoSignalIsNone DEF OpeningInv, Watched
  <2> QED BY <1>0, <2>1, <2>2, <2>3, MoveFacts
<1>10. CASE FailOpening
  <2>1. MovesTo("scan", Idle) /\ Idle.at = "idle" /\ task["scan"].at = "created"
        /\ UNCHANGED <<active, closing>>
    BY <1>10, FailOpeningKind
  <2> QED BY <1>0, <2>1, MoveFacts DEF Watched
<1>8. CASE CoolDown
  BY <1>0, <1>8 DEF CoolDown, memory, history, Watched
<1>9. CASE Restart
  <2>1. /\ task' = [t \in Tasks |-> Idle] /\ Idle.at = "idle" /\ closing' = FALSE
    BY <1>9 DEF Restart, Idle
  <2> QED BY <2>1
<1> QED BY <1>1, <1>2, <1>3, <1>4, <1>5, <1>6, <1>7, <1>8, <1>9, <1>10 DEF Step

LEMMA OrphansStep ==
  ASSUME TypeOK, IInv, Step
  PROVE  OrphansExplained'
<1> USE ScanIsATask DEF OrphansExplained
<1>0. OrphansExplained /\ OpeningInv /\ CreatedInv /\ ClosingInv
  BY DEF IInv
<1>1. ASSUME NEW t \in Tasks, NEW q \in Doings, Quiet(t, q) \/ Starting(t, q)
      PROVE  OrphansExplained'
  <2>1. /\ MovesTo(t, q) /\ UNCHANGED <<rows, active, popped, unopened>>
        /\ task[t].at # "created"
    BY <1>1 DEF Quiet, Starting
  <2>2. \A s \in Signals : BeingOpened(s) => BeingOpened(s)'
    BY <2>1, MoveFacts DEF BeingOpened
  <2> QED BY <1>0, <2>1, <2>2 DEF Watched
<1>2. ASSUME NEW t \in Watchers, NEW q \in Doings, NEW n \in Targets, Hitting(t, q, n)
      PROVE  OrphansExplained'
  <2>1. t \in Tasks /\ MovesTo(t, q) /\ UNCHANGED <<rows, active, popped, unopened>>
    BY <1>2 DEF Hitting
  <2>2. \A s \in Signals : BeingOpened(s) => BeingOpened(s)'
    BY <2>1, MoveFacts DEF BeingOpened
  <2> QED BY <1>0, <2>1, <2>2 DEF Watched
<1>3. ASSUME NEW t \in Watchers, MarkTarget(t)
      PROVE  OrphansExplained'
  <2>1. PICK q \in Doings : t \in Tasks /\ MovesTo(t, q)
    BY <1>3, MarkKind
  <2>2. rows' = [rows EXCEPT ![task[t].s].tps = @ \cup {task[t].n}]
        /\ active' = active /\ popped' = popped /\ unopened' = unopened
    BY <1>3 DEF MarkTarget, history
  <2>3. \A s \in Signals : rows'[s].status = rows[s].status
    BY <2>2 DEF TypeOK, Rows
  <2>4. \A s \in Signals : BeingOpened(s) => BeingOpened(s)'
    BY <2>1, MoveFacts DEF BeingOpened
  <2> QED BY <1>0, <2>2, <2>3, <2>4 DEF Watched, TypeOK
<1>4. ASSUME NEW t \in Tasks, FinishClose(t) PROVE OrphansExplained'
  <2>1. PICK q \in Doings : MovesTo(t, q)
    BY <1>4, CloseKind
  <2>2. /\ rows' = [rows EXCEPT ![task[t].s].status = "CLOSED",
                               ![task[t].s].reason = task[t].reason]
        /\ active' = NoSignal /\ popped' = popped \cup ({active} \ {task[t].s, NoSignal})
        /\ task[t].at = "closing" /\ unopened' = unopened
    BY <1>4 DEF FinishClose, Drop, Written
  <2>3. \A s \in Signals : rows'[s].status = "ACTIVE" =>
          rows[s].status = "ACTIVE" /\ s # task[t].s
    BY <2>2 DEF TypeOK, Rows
  <2>4. \A s \in Signals : BeingOpened(s) => BeingOpened(s)'
    BY <2>1, <2>2, MoveFacts DEF BeingOpened
  <2> QED BY <1>0, <2>2, <2>3, <2>4, NoSignalIsNone DEF Watched
<1>5. ASSUME NEW t \in Tasks, FailClose(t) PROVE OrphansExplained'
  <2>1. PICK q \in Doings : MovesTo(t, q)
    BY <1>5, CloseKind
  <2>2. /\ rows' = rows /\ active' = NoSignal /\ popped' = popped \cup ({active} \ {NoSignal})
        /\ task[t].at = "closing" /\ unopened' = unopened
    BY <1>5 DEF FailClose, Drop
  <2>3. \A s \in Signals : BeingOpened(s) => BeingOpened(s)'
    BY <2>1, <2>2, MoveFacts DEF BeingOpened
  <2> QED BY <1>0, <2>2, <2>3, NoSignalIsNone DEF Watched
<1>6. CASE CreateRow
  <2>1. PICK q \in Doings, s \in Signals : Opens(s, q)
    BY <1>0, <1>6, CreateKind
  <2>2. /\ task'["scan"] = q /\ q.at = "created" /\ q.s = s /\ task["scan"].at = "confirm"
        /\ UNCHANGED <<active, popped, unopened>> /\ rows' = [rows EXCEPT ![s].status = "ACTIVE"]
    BY <2>1, MoveFacts DEF Opens
  <2>3. ~Watched /\ ~Watched' /\ \A r \in Signals : ~BeingOpened(r)
    BY <1>0, <2>2 DEF OpeningInv, Watched, BeingOpened
  <2>4. BeingOpened(s)'
    BY <2>2 DEF BeingOpened
  <2>5. \A r \in Signals \ {s} : rows'[r] = rows[r]
    BY <2>2 DEF TypeOK
  <2> QED BY <1>0, <2>2, <2>3, <2>4, <2>5, NoSignalIsNone DEF Watched
<1>7. CASE Activate
  <2>1. /\ task["scan"].at = "created" /\ active' = task["scan"].s
        /\ rows' = rows /\ popped' = popped /\ unopened' = unopened
        /\ task["scan"].s \in Signals
    BY <1>7, ActivateKind DEF Activate, history
  <2>2. ~Watched /\ rows[task["scan"].s].status = "ACTIVE"
    BY <1>0, <2>1 DEF OpeningInv
  <2>3. \A s \in Signals : BeingOpened(s) => s = active'
    BY <2>1 DEF BeingOpened
  <2> QED BY <1>0, <2>1, <2>2, <2>3, NoSignalIsNone DEF Watched
<1>10. CASE FailOpening
  <2>1. /\ MovesTo("scan", Idle) /\ UNCHANGED <<rows, active, popped>>
        /\ unopened' = unopened \cup {task["scan"].s}
    BY <1>10, FailOpeningKind
  <2>2. \A s \in Signals : BeingOpened(s) => s \in unopened'
    BY <2>1 DEF BeingOpened
  <2> QED BY <1>0, <2>1, <2>2 DEF Watched
<1>8. CASE CoolDown
  BY <1>0, <1>8 DEF CoolDown, memory, history, Watched, BeingOpened
<1>9. CASE Restart
  <2>1. rows' = rows
    BY <1>9 DEF Restart
  <2> QED BY <1>9, <2>1, RestartKind DEF Watched, ActiveRows
<1> QED BY <1>1, <1>2, <1>3, <1>4, <1>5, <1>6, <1>7, <1>8, <1>9, <1>10 DEF Step

\* A step that begins no close, changes no watch, and has no task take up a signal but the
\* one watched.
LEMMA WatchKept ==
  ASSUME TypeOK, IInv, NEW t \in Tasks, NEW q, MovesTo(t, q),
         UNCHANGED <<active, closing, closes>>,
         \A s \in Signals : rows'[s].status = rows[s].status,
         task[t].at # "created", q.at # "created", q.s \in {NoSignal, task[t].s, active}
  PROVE  WatchInv'
<1> USE MoveFacts, ScanIsATask DEF IInv, WatchInv
<1>1. Opening' = Opening
  BY DEF Opening, BeingOpened
<1>2. Ended' = Ended
  BY DEF Ended, EndedBy
<1>3. OneClosePerWatch' /\ (Watched' <=> Watched)
  BY DEF OneClosePerWatch, EndedBy, Watched
<1>4. Created' = Created
  BY SameCreated
<1>5. ASSUME NEW u \in Tasks, task'[u].s # NoSignal
      PROVE  /\ Watched' => task'[u].s <= active'
             /\ task'[u].s \in Ended' \cup Opening' \cup {active'}
  <2>1. task'[u].s = active \/ \E v \in Tasks : task'[u].s = task[v].s
    BY <1>5
  <2>2. CASE task'[u].s = active
    <3>1. active \in Nat
      BY <1>5, <2>2, ScannerAssumption DEF TypeOK, Signals, NoSignal
    <3> QED BY <2>2, <3>1
  <2>3. CASE \E v \in Tasks : task'[u].s = task[v].s
    BY <1>1, <1>2, <1>3, <1>5, <2>3
  <2> QED BY <2>1, <2>2, <2>3
<1>6. task'["scan"].at = "created" => task["scan"].at = "created" /\ task'["scan"] = task["scan"]
  OBVIOUS
<1> QED BY <1>1, <1>2, <1>3, <1>4, <1>5, <1>6 DEF TypeOK

LEMMA WatchStep ==
  ASSUME TypeOK, IInv, Step
  PROVE  WatchInv'
<1> USE ScanIsATask
<1>0. WatchInv /\ ClosingInv /\ OpeningInv /\ CreatedInv /\ OrphansExplained
  BY DEF IInv
<1>1. ASSUME NEW t \in Tasks, NEW q \in Doings, Quiet(t, q)
      PROVE  WatchInv'
  BY <1>1, WatchKept DEF Quiet
<1>2. ASSUME NEW t \in Tasks, NEW q \in Doings, Starting(t, q)
      PROVE  WatchInv'
  <2>1. /\ MovesTo(t, q) /\ Watched /\ ~closing /\ closing' = TRUE
        /\ UNCHANGED <<rows, active>>
        /\ closes' = [closes EXCEPT ![active][q.s] = @ + 1]
        /\ task[t].at # "created" /\ q.at = "closing" /\ q.s \in {task[t].s, active}
    BY <1>2 DEF Starting, CanClose
  <2>2. active \in Signals /\ q.s \in Signals /\ active \in Nat /\ q.s # NoSignal
    BY <2>1, ScannerAssumption DEF Watched, TypeOK, MovesTo, Holds, Holding, Doings, Signals
  <2>3. task["scan"].at # "created" /\ task'["scan"].at # "created"
    BY <1>0, <2>1, MoveFacts DEF OpeningInv
  <2>4. Opening = {} /\ Opening' = {}
    BY <2>3 DEF Opening, BeingOpened
  <2>5. active \notin Ended /\ q.s <= active /\ q.s \in Ended \cup {active}
    BY <1>0, <2>1, <2>2, <2>4 DEF WatchInv
  <2>6. closes \in [Signals -> [Signals -> Nat]] /\ \A s \in Signals : closes[active][s] = 0
    <3>1. closes \in [Signals -> [Signals -> Nat]]
      BY DEF TypeOK
    <3>2. EndedBy(active) = {}
      BY <2>2, <2>5 DEF Ended
    <3>3. ASSUME NEW s \in Signals PROVE closes[active][s] = 0
      <4>1. closes[active][s] \in Nat
        BY <2>2, <3>1
      <4>2. ~(closes[active][s] > 0)
        BY <3>2 DEF EndedBy
      <4> QED BY <4>1, <4>2
    <3> QED BY <3>1, <3>3
  <2>7. /\ \A s \in Signals : closes'[active][s] = IF s = q.s THEN 1 ELSE 0
        /\ \A w \in Signals \ {active} : closes'[w] = closes[w]
    BY <2>1, <2>2, <2>6
  <2>8. Ended' = Ended \cup {active}
    <3>1. \A w \in Signals : w \in Ended <=> \E s \in Signals : closes[w][s] > 0
      BY DEF Ended, EndedBy
    <3>2. \A w \in Signals : w \in Ended' <=> \E s \in Signals : closes'[w][s] > 0
      BY DEF Ended, EndedBy
    <3>3. active \in Ended'
      <4>1. closes'[active][q.s] = 1
        BY <2>2, <2>7
      <4>2. \E s \in Signals : closes'[active][s] > 0
        <5> q.s \in Signals
          BY <2>2
        <5> WITNESS q.s \in Signals
        <5> QED BY ONLY <4>1
      <4> QED BY <2>2, <3>2, <4>2
    <3>4. \A w \in Signals \ {active} : w \in Ended' <=> w \in Ended
      BY <2>7, <3>1, <3>2
    <3>5. Ended \subseteq Signals /\ Ended' \subseteq Signals
      BY DEF Ended
    <3> QED BY <2>2, <3>3, <3>4, <3>5
  <2>9. OneClosePerWatch'
    <3>1. ASSUME NEW w \in Signals, w # active
          PROVE  /\ \A s \in Signals : closes'[w][s] <= 1
                 /\ \A s, u \in Signals : closes'[w][s] > 0 /\ closes'[w][u] > 0 => s = u
                 /\ \A s \in Signals \ {w} : closes'[w][s] > 0 => s < w /\ s \in Ended'
      BY <1>0, <2>7, <2>8, <3>1 DEF WatchInv, OneClosePerWatch, EndedBy, Ended
    <3>2. /\ \A s \in Signals : closes'[active][s] <= 1
          /\ \A s, u \in Signals : closes'[active][s] > 0 /\ closes'[active][u] > 0 => s = u
          /\ \A s \in Signals \ {active} : closes'[active][s] > 0 => s < active /\ s \in Ended'
      <4>1. q.s \in Int /\ (q.s # active => q.s < active /\ q.s \in Ended')
        BY <2>2, <2>5, <2>8, ScannerAssumption DEF Signals
      <4> QED BY <2>7, <4>1
    <3>3. ASSUME NEW w \in Signals
          PROVE  /\ \A s \in Signals : closes'[w][s] <= 1
                 /\ \A s, u \in Signals : closes'[w][s] > 0 /\ closes'[w][u] > 0 => s = u
                 /\ \A s \in Signals \ {w} : closes'[w][s] > 0 => s < w /\ s \in Ended'
      BY <3>1, <3>2
    <3> QED BY <3>3 DEF OneClosePerWatch, EndedBy, Ended
  <2>10. \A s \in Signals : rows'[s].status = "none" => s \notin Ended'
    <3>1. rows[active].status # "none"
      BY <1>0, <2>1 DEF OrphansExplained
    <3> QED BY <1>0, <2>1, <2>8, <3>1 DEF WatchInv
  <2>11. ASSUME NEW u \in Tasks, task'[u].s # NoSignal
         PROVE  task'[u].s <= active /\ task'[u].s \in Ended \cup {active}
    <3>1. CASE u = t
      BY <2>1, <2>5, <3>1, MoveFacts
    <3>2. CASE u # t
      BY <1>0, <2>1, <2>4, <2>11, <3>2, MoveFacts DEF WatchInv
    <3> QED BY <3>1, <3>2
  <2>12. Watched' /\ active' \in Ended'
    BY <2>1, <2>8 DEF Watched
  <2> QED BY <2>1, <2>3, <2>4, <2>8, <2>9, <2>10, <2>11, <2>12 DEF WatchInv
<1>3. ASSUME NEW t \in Watchers, NEW q \in Doings, NEW n \in Targets, Hitting(t, q, n)
      PROVE  WatchInv'
  BY <1>3, WatchKept DEF Hitting
<1>4. ASSUME NEW t \in Watchers, MarkTarget(t)
      PROVE  WatchInv'
  <2>1. PICK q \in Doings : MovesTo(t, q) /\ q.at = "marked" /\ q.s = task[t].s
    BY <1>4, MarkKind
  <2>2. /\ task[t].at = "marking" /\ UNCHANGED <<active, closing, closes>>
        /\ rows' = [rows EXCEPT ![task[t].s].tps = @ \cup {task[t].n}]
    BY <1>4 DEF MarkTarget, history
  <2>3. \A s \in Signals : rows'[s].status = rows[s].status
    BY <2>2 DEF TypeOK, Rows
  <2> QED BY <2>1, <2>2, <2>3, WatchKept
<1>5. ASSUME NEW t \in Tasks, FinishClose(t) \/ FailClose(t) PROVE WatchInv'
  <2>1. PICK q \in Doings :
          MovesTo(t, q) /\ q.at \in {"idle", "manage", "after"} /\ q.s = NoSignal
    BY <1>5, CloseKind
  <2>2. /\ task[t].at = "closing" /\ active' = NoSignal /\ closing' = FALSE
        /\ closes' = closes
    BY <1>5 DEF FinishClose, FailClose, Drop
  <2>3. Watched /\ closing /\ active \in Signals /\ ~Watched'
    BY <1>0, <2>2 DEF ClosingInv, Watched, TypeOK
  <2>4. task["scan"].at # "created" /\ task'["scan"].at # "created"
    BY <1>0, <2>1, <2>3, MoveFacts DEF OpeningInv
  <2>5. Ended' = Ended /\ Opening = {} /\ Opening' = {}
    BY <2>2, <2>4 DEF Ended, EndedBy, Opening, BeingOpened
  <2>6. OneClosePerWatch'
    BY <1>0, <2>2 DEF WatchInv, OneClosePerWatch, EndedBy
  <2>7. \A s \in Signals : rows'[s].status = "none" => s \notin Ended'
    <3>1. \/ rows' = rows
          \/ rows' = [rows EXCEPT ![task[t].s].status = "CLOSED",
                                  ![task[t].s].reason = task[t].reason]
      BY <1>5 DEF FinishClose, FailClose, Written
    <3>2. \A s \in Signals : rows'[s].status = "none" => rows[s].status = "none"
      <4>1. task[t].s \in Signals
        BY <2>2, ClosingHolds
      <4>2. \A s \in Signals \ {task[t].s} : rows'[s] = rows[s]
        BY <3>1 DEF TypeOK
      <4>3. rows'[task[t].s].status \in {"CLOSED", rows[task[t].s].status}
        BY <3>1, <4>1 DEF TypeOK, Rows
      <4> QED BY <4>2, <4>3
    <3> QED BY <1>0, <2>5, <3>2 DEF WatchInv
  <2>8. ASSUME NEW u \in Tasks, task'[u].s # NoSignal
        PROVE  task'[u].s \in Ended
    <3>1. u # t /\ task'[u] = task[u]
      BY <2>1, <2>8, MoveFacts
    <3>2. active \in Ended
      BY <1>0, <2>3 DEF WatchInv
    <3> QED BY <1>0, <2>5, <2>8, <3>1, <3>2 DEF WatchInv
  <2> QED BY <2>3, <2>4, <2>5, <2>6, <2>7, <2>8 DEF WatchInv
<1>6. CASE CreateRow
  <2>1. PICK q \in Doings, s \in Signals : Opens(s, q)
    BY <1>0, <1>6, CreateKind
  <2>2. /\ MovesTo("scan", q) /\ q.at = "created" /\ q.s = s /\ task["scan"].at = "confirm"
        /\ Created = 1..(s - 1) /\ rows' = [rows EXCEPT ![s].status = "ACTIVE"]
        /\ UNCHANGED <<active, closing, closes>>
    BY <2>1 DEF Opens
  <2>3. s \in Nat /\ s > 0 /\ s \notin Created /\ rows[s].status = "none"
    BY <2>2, ScannerAssumption DEF Signals, Created
  <2>4. Created' = Created \cup {s}
    BY <2>2 DEF Created, TypeOK, Rows
  <2>5. Created' = 1..s
    BY <2>2, <2>3, <2>4
  <2>6. ~Watched /\ ~Watched'
    BY <1>0, <2>2 DEF OpeningInv, Watched
  <2>7. Ended' = Ended
    BY <2>2 DEF Ended, EndedBy
  <2>8. s \notin Ended
    BY <1>0, <2>3 DEF WatchInv
  <2>9. OneClosePerWatch'
    BY <1>0, <2>2 DEF WatchInv, OneClosePerWatch, EndedBy
  <2>10. task'["scan"] = q /\ Opening = {} /\ Opening' = {s}
    BY <2>2, MoveFacts DEF Opening, BeingOpened
  <2>11. \A r \in Signals : rows'[r].status = "none" => r \notin Ended'
    <3>1. \A r \in Signals \ {s} : rows'[r] = rows[r]
      BY <2>2 DEF TypeOK
    <3> QED BY <1>0, <2>7, <2>8, <3>1 DEF WatchInv
  <2>12. ASSUME NEW u \in Tasks, task'[u].s # NoSignal
         PROVE  task'[u].s \in Ended' \cup Opening' \cup {active'}
    <3>1. CASE u = "scan"
      BY <2>2, <2>10, <3>1
    <3>2. CASE u # "scan"
      <4>1. task'[u] = task[u]
        BY <2>2, <3>2, MoveFacts
      <4> QED BY <1>0, <2>2, <2>7, <2>10, <2>12, <4>1 DEF WatchInv
    <3> QED BY <3>1, <3>2
  <2> QED BY <2>2, <2>5, <2>6, <2>7, <2>8, <2>9, <2>10, <2>11, <2>12 DEF WatchInv
<1>7. CASE Activate
  <2> DEFINE s == task["scan"].s
  <2>1. PICK q \in Doings : MovesTo("scan", q) /\ q.at = "shadow" /\ q.s = s /\ s \in Signals
    BY <1>7, ActivateKind
  <2>2. /\ task["scan"].at = "created" /\ active' = s
        /\ UNCHANGED <<rows, closing, closes>>
    BY <1>7 DEF Activate, history
  <2>3. /\ ~Watched /\ ~closing /\ Opening = {s} /\ s \notin Ended /\ Created = 1..s
        /\ \A t \in Tasks \ {"scan"} : task[t].s # s
    BY <1>0, <2>1, <2>2 DEF OpeningInv, ClosingInv, WatchInv, Opening, BeingOpened
  <2>4. task'["scan"] = q /\ Opening' = {}
    BY <2>1, MoveFacts DEF Opening, BeingOpened
  <2>5. Ended' = Ended
    BY <2>2 DEF Ended, EndedBy
  <2>6. OneClosePerWatch'
    BY <1>0, <2>2 DEF WatchInv, OneClosePerWatch, EndedBy
  <2>7. s \in Nat
    BY <2>1, ScannerAssumption DEF Signals
  <2>8. ASSUME NEW u \in Tasks, task'[u].s # NoSignal
        PROVE  task'[u].s <= s /\ task'[u].s \in Ended \cup {s}
    <3>1. CASE u = "scan"
      BY <2>1, <2>4, <2>7, <3>1
    <3>2. CASE u # "scan"
      <4>1. task'[u] = task[u] /\ task[u].s # s
        BY <2>1, <2>3, <3>2, MoveFacts
      <4>2. task[u].s \in Created
        BY <1>0, <2>8, <4>1 DEF CreatedInv
      <4>3. task[u].s <= s
        BY <2>3, <2>7, <4>2
      <4>4. task[u].s \in Ended
        BY <1>0, <2>3, <2>8, <4>1 DEF WatchInv, Watched
      <4> QED BY <4>1, <4>3, <4>4
    <3> QED BY <3>1, <3>2
  <2>9. \A r \in Signals : rows'[r].status = "none" => r \notin Ended'
    BY <1>0, <2>2, <2>5 DEF WatchInv
  <2>10. task'["scan"].at # "created"
    BY <2>1, <2>4
  <2> HIDE DEF s
  <2> QED BY <2>2, <2>3, <2>4, <2>5, <2>6, <2>8, <2>9, <2>10 DEF WatchInv
<1>8. CASE FailOpening
  <2>1. /\ MovesTo("scan", Idle) /\ Idle.at = "idle" /\ Idle.s = NoSignal
        /\ task["scan"].at = "created" /\ UNCHANGED <<rows, active, closing, closes>>
    BY <1>8, FailOpeningKind
  <2>2. task'["scan"] = Idle /\ Opening' = {}
    BY <2>1, MoveFacts DEF Opening, BeingOpened
  <2>3. Ended' = Ended
    BY <2>1 DEF Ended, EndedBy
  <2>4. OneClosePerWatch'
    BY <1>0, <2>1 DEF WatchInv, OneClosePerWatch, EndedBy
  <2>5. ~Watched' /\ ~Watched
    BY <1>0, <2>1 DEF Watched, OpeningInv
  <2>6. ASSUME NEW u \in Tasks, task'[u].s # NoSignal
        PROVE  task'[u].s \in Ended'
    <3>1. u # "scan" /\ task'[u] = task[u]
      BY <2>1, <2>2, <2>6, MoveFacts
    <3>2. task[u].s \notin Opening
      BY <1>0, <2>1, <3>1 DEF Opening, BeingOpened, OpeningInv
    <3> QED BY <1>0, <2>3, <2>5, <2>6, <3>1, <3>2 DEF WatchInv, Watched
  <2>7. \A r \in Signals : rows'[r].status = "none" => r \notin Ended'
    BY <1>0, <2>1, <2>3 DEF WatchInv
  <2> QED BY <2>1, <2>2, <2>4, <2>5, <2>6, <2>7 DEF WatchInv
<1>9. CASE CoolDown
  BY <1>0, <1>9 DEF CoolDown, memory, history, WatchInv, OneClosePerWatch, Ended, EndedBy,
                    Opening, BeingOpened, Created, Watched
<1>10. CASE Restart
  <2>1. /\ task' = [t \in Tasks |-> Idle] /\ Idle.at = "idle" /\ Idle.s = NoSignal
        /\ closing' = FALSE /\ closes' = NoCloses
    BY <1>10 DEF Restart, Idle
  <2>2. active' \in Signals \cup {NoSignal}
    BY <1>10, RestartKind DEF ActiveRows
  <2>3. Ended' = {} /\ Opening' = {}
    BY <2>1 DEF Ended, EndedBy, NoCloses, Opening, BeingOpened
  <2>4. OneClosePerWatch'
    BY <2>1 DEF OneClosePerWatch, EndedBy, NoCloses
  <2> QED BY <2>1, <2>2, <2>3, <2>4 DEF WatchInv, Watched
<1> QED BY <1>1, <1>2, <1>3, <1>4, <1>5, <1>6, <1>7, <1>8, <1>9, <1>10 DEF Step

\* No step of these kinds takes a restart or a failure back.
LEMMA NoFaultBefore ==
  ASSUME TypeOK, restarts' = 0, dbFaults' = 0,
         restarts' \in {restarts, restarts + 1}, dbFaults' \in {dbFaults, dbFaults + 1}
  PROVE  restarts' = restarts /\ dbFaults' = dbFaults /\ restarts = 0 /\ dbFaults = 0
BY DEF TypeOK

\* A mark on its way stays on its way when another task moves.
LEMMA BeingMarkedStays ==
  ASSUME TypeOK, NEW t \in Tasks, NEW q, MovesTo(t, q), task[t].at # "marking"
  PROVE  \A s \in Signals, n \in Targets : BeingMarked(s, n) => BeingMarked(s, n)'
<1> TAKE s \in Signals, n \in Targets
<1> HAVE BeingMarked(s, n)
<1>1. PICK u \in Watchers : task[u].at = "marking" /\ task[u].s = s /\ task[u].n = n
  BY DEF BeingMarked
<1>2. u \in Tasks /\ u # t
  BY <1>1, ScanIsATask
<1>3. task'[u] = task[u]
  BY <1>2, MoveFacts
<1> QED BY <1>1, <1>3 DEF BeingMarked

\* A step that leaves rows and counted targets alone, and moves no task to a mark.
LEMMA MarksKept ==
  ASSUME TypeOK, MarksSound, NEW t \in Tasks, NEW q \in Doings, MovesTo(t, q),
         task[t].at # "marking", hits' = hits,
         \A s \in Signals : rows'[s].tps = rows[s].tps /\ rows'[s].reason = rows[s].reason,
         q.at \notin {"marking", "marked"}, q.at = "observed" => q.n = 1,
         q.at = "closing" /\ q.reason = "TP3" => Targets \subseteq hits[q.s]
  PROVE  MarksSound'
<1> USE MoveFacts DEF MarksSound
<1>1. \A s \in Signals, n \in Targets : BeingMarked(s, n) => BeingMarked(s, n)'
  BY BeingMarkedStays
<1>2. \A s \in Signals : \A n \in hits'[s] :
        Counted(s, n)' /\ (n \in rows'[s].tps \/ BeingMarked(s, n)')
  BY <1>1 DEF Counted, TypeOK
<1>3. \A u \in Tasks :
       /\ task'[u].at = "observed" => task'[u].n = 1
       /\ task'[u].at = "marking" => task'[u].n \in hits'[task'[u].s]
       /\ task'[u].at = "marked" => Counted(task[u].s, task[u].n)' /\ task'[u] = task[u]
       /\ task'[u].at = "closing" /\ task'[u].reason = "TP3" => Targets \subseteq hits'[task'[u].s]
  <2> TAKE u \in Tasks
  <2>1. CASE u = t
    BY <2>1
  <2>2. CASE u # t
    <3>1. task'[u] = task[u]
      BY <2>2
    <3> QED BY <3>1 DEF Counted
  <2> QED BY <2>1, <2>2
<1>4. \A u \in Tasks : task'[u].at = "marked" => Counted(task[u].s, task[u].n)'
  BY <1>3
<1> QED BY <1>2, <1>3, <1>4

\* The counting of a target, and its mark.
LEMMA HitKeepsMarks ==
  ASSUME TypeOK, MarksSound, NEW t \in Watchers, NEW q \in Doings, NEW n \in Targets,
         Hitting(t, q, n)
  PROVE  MarksSound'
<1> USE DEF MarksSound
<1>1. /\ t \in Tasks /\ MovesTo(t, q) /\ task[t].at \in {"observed", "marked"}
      /\ q.at = "marking" /\ q.s = task[t].s /\ q.n = n /\ rows' = rows
      /\ hits' = [hits EXCEPT ![q.s] = @ \cup {n}]
      /\ \A k \in Targets : task[t].n <= k /\ k < n => k \in hits[q.s]
  BY ScanIsATask DEF Hitting
<1>2. q.s \in Signals
  BY <1>1 DEF TypeOK, Doings, Holds, Holding
<1>3. Counted(q.s, n)
  <2>1. task[t].n \in 1..4
    BY <1>1 DEF TypeOK, Doings
  <2>2. CASE task[t].at = "observed"
    <3>1. task[t].n = 1
      BY <1>1, <2>2
    <3> QED BY <1>1, <3>1 DEF Counted, Targets
  <2>3. CASE task[t].at = "marked"
    <3>1. Counted(q.s, task[t].n)
      BY <1>1, <2>3
    <3> QED BY <1>1, <2>1, <3>1 DEF Counted, Targets
  <2> QED BY <1>1, <2>2, <2>3
<1>4. \A s \in Signals : hits[s] \subseteq hits'[s] /\ (s # q.s => hits'[s] = hits[s])
  BY <1>1, <1>2 DEF TypeOK
<1>5. hits'[q.s] = hits[q.s] \cup {n}
  BY <1>1, <1>2 DEF TypeOK
<1>6. \A s \in Signals, k \in 1..4 : Counted(s, k) => Counted(s, k)'
  BY <1>4 DEF Counted
<1>7. \A s \in Signals, k \in Targets : BeingMarked(s, k) => BeingMarked(s, k)'
  BY <1>1, BeingMarkedStays
<1>8. BeingMarked(q.s, n)'
  BY <1>1, MoveFacts DEF BeingMarked
<1>9. \A s \in Signals : \A k \in hits'[s] :
        Counted(s, k)' /\ (k \in rows'[s].tps \/ BeingMarked(s, k)')
  <2> TAKE s \in Signals
  <2> TAKE k \in hits'[s]
  <2>1. CASE k \in hits[s]
    <3>1. k \in Targets /\ k \in 1..4
      BY <2>1 DEF TypeOK, Targets
    <3> QED BY <1>1, <1>6, <1>7, <2>1, <3>1
  <2>2. CASE k \notin hits[s]
    <3>1. s = q.s /\ k = n
      BY <1>4, <1>5, <2>2
    <3>2. n \in 1..4
      BY DEF Targets
    <3> QED BY <1>3, <1>6, <1>8, <1>2, <3>1, <3>2
  <2> QED BY <2>1, <2>2
<1>10. ASSUME NEW u \in Tasks
      PROVE  /\ task'[u].at = "observed" => task'[u].n = 1
             /\ task'[u].at = "marking" => task'[u].n \in hits'[task'[u].s]
             /\ (task[u].at = "marked" => Counted(task[u].s, task[u].n))'
             /\ task'[u].at = "closing" /\ task'[u].reason = "TP3" =>
                  Targets \subseteq hits'[task'[u].s]
  <2>1. CASE u = t
    <3>1. task'[u] = q
      BY <1>1, <2>1, MoveFacts
    <3> QED BY <1>1, <1>5, <3>1
  <2>2. CASE u # t
    <3>1. task'[u] = task[u] /\ task[u] \in Doings /\ Holds(task[u])
      BY <1>1, <2>2, MoveFacts DEF TypeOK
    <3>2. task[u].at \in {"marking", "marked", "closing"} => task[u].s \in Signals
      BY <3>1 DEF Doings, Holds, Holding
    <3>3. task[u].at = "marked" => Counted(task[u].s, task[u].n)
      OBVIOUS
    <3>4. (task[u].at = "marked" => Counted(task[u].s, task[u].n))'
      BY <1>4, <3>1, <3>2, <3>3 DEF Counted
    <3> QED BY <1>4, <3>1, <3>2, <3>4
  <2> QED BY <2>1, <2>2
<1>11. \A s \in Signals : /\ rows'[s].tps \subseteq hits'[s]
                          /\ rows'[s].reason = "TP3" => Targets \subseteq hits'[s]
  BY <1>1, <1>4
<1> QED BY <1>9, <1>10, <1>11

LEMMA MarkKeepsMarks ==
  ASSUME TypeOK, MarksSound, NEW t \in Watchers, MarkTarget(t)
  PROVE  MarksSound'
<1> USE DEF MarksSound
<1> DEFINE r == task[t]
<1>1. PICK q \in Doings : MovesTo(t, q) /\ q.at = "marked" /\ q.s = r.s /\ q.n = r.n + 1
  BY MarkKind
<1>2. /\ r.at = "marking" /\ hits' = hits /\ rows' = [rows EXCEPT ![r.s].tps = @ \cup {r.n}]
      /\ t \in Tasks
  BY ScanIsATask DEF MarkTarget
<1>3. r.s \in Signals /\ r.n \in Targets /\ r.n \in hits[r.s]
  BY <1>2 DEF TypeOK, Doings, Holds, Holding
<1>4. \A s \in Signals : /\ rows'[s].tps = IF s = r.s THEN rows[s].tps \cup {r.n} ELSE rows[s].tps
                         /\ rows'[s].reason = rows[s].reason
  BY <1>2, <1>3 DEF TypeOK, Rows
<1>5. ASSUME NEW s \in Signals, NEW n \in Targets, BeingMarked(s, n)
      PROVE  n \in rows'[s].tps \/ BeingMarked(s, n)'
  <2>1. PICK u \in Watchers : task[u].at = "marking" /\ task[u].s = s /\ task[u].n = n
    BY <1>5 DEF BeingMarked
  <2>2. CASE u = t
    BY <1>4, <2>1, <2>2
  <2>3. CASE u # t
    <3>1. task'[u] = task[u]
      BY <1>1, <1>2, <2>3, ScanIsATask, MoveFacts
    <3> QED BY <2>1, <3>1 DEF BeingMarked
  <2> QED BY <2>2, <2>3
<1>6. \A s \in Signals : \A n \in hits'[s] :
        Counted(s, n)' /\ (n \in rows'[s].tps \/ BeingMarked(s, n)')
  <2> TAKE s \in Signals
  <2> TAKE n \in hits'[s]
  <2>1. n \in hits[s] /\ n \in Targets
    BY <1>2 DEF TypeOK
  <2>2. Counted(s, n)'
    BY <1>2, <2>1 DEF Counted
  <2>3. n \in rows[s].tps => n \in rows'[s].tps
    BY <1>4
  <2> QED BY <1>5, <2>1, <2>2, <2>3
<1>7. \A k \in Targets : k < q.n => k \in hits'[q.s]
  <2>1. Counted(r.s, r.n)
    BY <1>3
  <2> QED BY <1>1, <1>2, <1>3, <2>1 DEF Counted, Targets
<1>8. ASSUME NEW u \in Tasks
      PROVE  /\ task'[u].at = "observed" => task'[u].n = 1
             /\ task'[u].at = "marking" => task'[u].n \in hits'[task'[u].s]
             /\ (task[u].at = "marked" => Counted(task[u].s, task[u].n))'
             /\ task'[u].at = "closing" /\ task'[u].reason = "TP3" =>
                  Targets \subseteq hits'[task'[u].s]
  <2>1. CASE u = t
    <3>1. task'[u] = q
      BY <1>1, <1>2, <2>1, MoveFacts
    <3>2. (Counted(task[u].s, task[u].n))'
      BY <1>7, <3>1 DEF Counted
    <3> QED BY <1>1, <3>1, <3>2
  <2>2. CASE u # t
    <3>1. task'[u] = task[u]
      BY <1>1, <1>2, <2>2, MoveFacts
    <3>2. task[u].at = "marked" => Counted(task[u].s, task[u].n)
      OBVIOUS
    <3>3. (task[u].at = "marked" => Counted(task[u].s, task[u].n))'
      BY <1>2, <3>1, <3>2 DEF Counted
    <3> QED BY <1>2, <3>1, <3>3
  <2> QED BY <2>1, <2>2
<1>9. \A s \in Signals : /\ rows'[s].tps \subseteq hits'[s]
                         /\ rows'[s].reason = "TP3" => Targets \subseteq hits'[s]
  BY <1>2, <1>3, <1>4
<1> QED BY <1>6, <1>8, <1>9

LEMMA MarkStep ==
  ASSUME TypeOK, IInv, Step
  PROVE  MarkInv'
<1> SUFFICES ASSUME restarts' = 0, dbFaults' = 0
             PROVE  MarksSound'
  BY DEF MarkInv
<1>0. MarkInv /\ CreatedInv
  BY DEF IInv
<1>1. ASSUME NEW t \in Tasks, NEW q \in Doings, Quiet(t, q)
      PROVE  MarksSound'
  <2>1. /\ MovesTo(t, q) /\ UNCHANGED <<rows, hits, restarts>>
        /\ dbFaults' \in {dbFaults, dbFaults + 1}
        /\ task[t].at = "marking" => dbFaults' = dbFaults + 1
        /\ q.at \notin {"closing", "marking", "marked"} /\ q.at = "observed" => q.n = 1
    BY <1>1 DEF Quiet
  <2>2. restarts = 0 /\ dbFaults = 0 /\ task[t].at # "marking"
    BY <2>1, NoFaultBefore
  <2>3. MarksSound
    BY <1>0, <2>2 DEF MarkInv
  <2>4. /\ \A s \in Signals : rows'[s].tps = rows[s].tps /\ rows'[s].reason = rows[s].reason
        /\ q.at \notin {"marking", "marked"} /\ (q.at = "observed" => q.n = 1)
        /\ q.at # "closing" /\ hits' = hits
    <3>1. rows' = rows /\ hits' = hits
      BY <1>1 DEF Quiet
    <3>2. q.at \notin {"closing", "marking", "marked"} /\ (q.at = "observed" => q.n = 1)
      BY <1>1 DEF Quiet
    <3> QED BY <3>1, <3>2
  <2>5. MovesTo(t, q) /\ task[t].at # "marking"
    BY <2>1, <2>2
  <2> QED BY <2>3, <2>4, <2>5, MarksKept
<1>2. ASSUME NEW t \in Tasks, NEW q \in Doings, Starting(t, q)
      PROVE  MarksSound'
  <2>1. /\ MovesTo(t, q) /\ UNCHANGED <<rows, hits, restarts, dbFaults>>
        /\ task[t].at # "marking" /\ q.at = "closing"
    BY <1>2 DEF Starting
  <2>2. MarksSound
    BY <1>0, <2>1 DEF MarkInv
  <2>3. q.reason = "TP3" => Targets \subseteq hits[q.s]
    <3> HAVE q.reason = "TP3"
    <3>1. /\ task[t].at \in {"observed", "marked"} /\ q.s = task[t].s
          /\ \A k \in Targets : task[t].n <= k => k \in hits[q.s]
      BY <1>2 DEF Starting
    <3>2. task[t].n \in 1..4
      BY DEF TypeOK, Doings
    <3>3. CASE task[t].at = "observed"
      <4>1. task[t].n = 1
        BY <2>2, <3>3 DEF MarksSound
      <4> QED BY <3>1, <4>1 DEF Targets
    <3>4. CASE task[t].at = "marked"
      <4>1. Counted(task[t].s, task[t].n)
        BY <2>2, <3>4 DEF MarksSound
      <4> QED BY <3>1, <3>2, <4>1 DEF Counted, Targets
    <3> QED BY <3>1, <3>3, <3>4
  <2> QED BY <2>1, <2>2, <2>3, MarksKept
<1>3. ASSUME NEW t \in Watchers, NEW q \in Doings, NEW n \in Targets, Hitting(t, q, n)
      PROVE  MarksSound'
  <2>1. MarksSound
    BY <1>0, <1>3 DEF MarkInv, Hitting
  <2> QED BY <1>3, <2>1, HitKeepsMarks
<1>4. ASSUME NEW t \in Watchers, MarkTarget(t)
      PROVE  MarksSound'
  <2>1. MarksSound
    BY <1>0, <1>4 DEF MarkInv, MarkTarget
  <2> QED BY <1>4, <2>1, MarkKeepsMarks
<1>5. ASSUME NEW t \in Tasks, FinishClose(t)
      PROVE  MarksSound'
  <2>1. PICK q \in Doings : MovesTo(t, q) /\ q.at \in {"idle", "manage", "after"}
    BY <1>5, CloseKind
  <2>2. /\ rows' = [rows EXCEPT ![task[t].s].status = "CLOSED",
                               ![task[t].s].reason = task[t].reason]
        /\ UNCHANGED <<hits, restarts, dbFaults>> /\ task[t].at = "closing"
    BY <1>5 DEF FinishClose, Drop, Written
  <2>3. MarksSound
    BY <1>0, <2>2 DEF MarkInv
  <2>4. \A s \in Signals : /\ rows'[s].tps = rows[s].tps
                           /\ rows'[s].reason = "TP3" => Targets \subseteq hits[s]
    <3>1. task[t].s \in Signals
      BY <2>2, ClosingHolds
    <3>2. task[t].reason = "TP3" => Targets \subseteq hits[task[t].s]
      BY <2>2, <2>3 DEF MarksSound
    <3>3. \A s \in Signals : /\ rows'[s].tps = rows[s].tps
                             /\ rows'[s].reason = IF s = task[t].s THEN task[t].reason
                                                                   ELSE rows[s].reason
      BY <2>2, <3>1 DEF TypeOK, Rows
    <3> QED BY <2>3, <3>2, <3>3 DEF MarksSound
  <2>5. \A s \in Signals, n \in Targets : BeingMarked(s, n) => BeingMarked(s, n)'
    BY <2>1, <2>2, BeingMarkedStays
  <2>6. \A s \in Signals : \A n \in hits'[s] :
          Counted(s, n)' /\ (n \in rows'[s].tps \/ BeingMarked(s, n)')
    BY <2>2, <2>3, <2>4, <2>5 DEF MarksSound, Counted, TypeOK
  <2>7. ASSUME NEW u \in Tasks
        PROVE  /\ task'[u].at = "observed" => task'[u].n = 1
               /\ task'[u].at = "marking" => task'[u].n \in hits'[task'[u].s]
               /\ (task[u].at = "marked" => Counted(task[u].s, task[u].n))'
               /\ task'[u].at = "closing" /\ task'[u].reason = "TP3" =>
                    Targets \subseteq hits'[task'[u].s]
    <3>1. CASE u = t
      BY <2>1, <3>1, MoveFacts
    <3>2. CASE u # t
      <4>1. task'[u] = task[u]
        BY <2>1, <3>2, MoveFacts
      <4>2. task[u].at = "marked" => Counted(task[u].s, task[u].n)
        BY <2>3 DEF MarksSound
      <4>3. (task[u].at = "marked" => Counted(task[u].s, task[u].n))'
        BY <2>2, <4>1, <4>2 DEF Counted
      <4> QED BY <2>2, <2>3, <4>1, <4>3 DEF MarksSound
    <3> QED BY <3>1, <3>2
  <2>8. \A s \in Signals : rows'[s].tps \subseteq hits'[s]
    BY <2>2, <2>3, <2>4 DEF MarksSound
  <2> QED BY <2>2, <2>4, <2>6, <2>7, <2>8 DEF MarksSound
<1>6. ASSUME NEW t \in Tasks, FailClose(t)
      PROVE  MarksSound'
  BY <1>6, NoFaultBefore DEF FailClose, TypeOK
<1>7. CASE CreateRow
  <2>1. PICK q \in Doings, s \in Signals : Opens(s, q)
    BY <1>0, <1>7, CreateKind
  <2>2. /\ MovesTo("scan", q) /\ q.at = "created" /\ task["scan"].at = "confirm"
        /\ UNCHANGED <<hits, restarts, dbFaults>> /\ rows' = [rows EXCEPT ![s].status = "ACTIVE"]
    BY <2>1 DEF Opens
  <2>3. MarksSound
    BY <1>0, <2>2 DEF MarkInv
  <2>4. \A r \in Signals : rows'[r].tps = rows[r].tps /\ rows'[r].reason = rows[r].reason
    BY <2>2 DEF TypeOK, Rows
  <2> QED BY <2>2, <2>3, <2>4, ScanIsATask, MarksKept
<1>8. CASE Activate
  <2>1. PICK q \in Doings : MovesTo("scan", q) /\ q.at = "shadow"
    BY <1>8, ActivateKind
  <2>2. task["scan"].at = "created" /\ UNCHANGED <<rows, hits, restarts, dbFaults>>
    BY <1>8 DEF Activate
  <2>3. MarksSound
    BY <1>0, <2>2 DEF MarkInv
  <2> QED BY <2>1, <2>2, <2>3, ScanIsATask, MarksKept
<1>11. CASE FailOpening
  <2>1. dbFaults' = dbFaults + 1
    BY <1>11, FailOpeningKind
  <2> QED BY <2>1 DEF TypeOK
<1>9. CASE CoolDown
  BY <1>0, <1>9 DEF CoolDown, memory, history, MarkInv, MarksSound, Counted, BeingMarked
<1>10. CASE Restart
  BY <1>10 DEF Restart, TypeOK
<1> QED BY <1>1, <1>2, <1>3, <1>4, <1>5, <1>6, <1>7, <1>8, <1>9, <1>10, <1>11 DEF Step

-----------------------------------------------------------------------------
(***************************************************************************)
(* The theorems.                                                           *)
(***************************************************************************)

LEMMA InitTypes == Init => TypeOK
<1> SUFFICES ASSUME Init PROVE TypeOK
  OBVIOUS
<1>1. NoRow \in Rows
  BY DEF NoRow, Rows
<1>2. rows \in [Signals -> Rows] /\ task \in [Tasks -> Doings] /\ \A t \in Tasks : Holds(task[t])
  BY <1>1, IdleTyped DEF Init
<1>3. hits \in [Signals -> SUBSET Targets] /\ notified \in [Signals -> BOOLEAN]
  BY DEF Init
<1>4. management \in {Levels[i] : i \in DOMAIN Levels} /\ active \in Signals \cup {NoSignal}
  BY LevelSet DEF Init
<1>5. crew \in Crews /\ closing \in BOOLEAN /\ cooled \in BOOLEAN
  BY DEF Init
<1>6. /\ relayed \subseteq Signals /\ popped \subseteq Signals /\ unopened \subseteq Signals
      /\ closes \in [Signals -> [Signals -> Nat]] /\ restarts \in Nat /\ dbFaults \in Nat
  BY DEF Init, NoCloses
<1> QED BY <1>2, <1>3, <1>4, <1>5, <1>6 DEF TypeOK

LEMMA InitInv == Init => IInv
<1> SUFFICES ASSUME Init PROVE IInv
  OBVIOUS
<1>1. /\ \A s \in Signals : rows[s] = NoRow /\ hits[s] = {}
      /\ \A t \in Tasks : task[t] = Idle
      /\ ~Watched /\ closing = FALSE /\ closes = NoCloses
  BY DEF Init, Watched
<1>2. /\ Idle.at = "idle" /\ Idle.s = NoSignal
      /\ NoRow.status = "none" /\ NoRow.reason = "none" /\ NoRow.tps = {}
  BY DEF Idle, NoRow
<1>3. CreatedInv
  <2>1. Created = {}
    BY <1>1, <1>2 DEF Created
  <2>2. 0 \in 0..MaxSignals /\ 1..0 = {}
    BY ScannerAssumption
  <2> QED BY <1>1, <1>2, <2>1, <2>2 DEF CreatedInv
<1>4. OpeningInv
  BY <1>1, <1>2, ScanIsATask DEF OpeningInv
<1>5. ClosingInv
  BY <1>1, <1>2 DEF ClosingInv
<1>6. MarkInv
  BY <1>1, <1>2 DEF MarkInv, MarksSound
<1>7. OrphansExplained
  BY <1>1, <1>2 DEF OrphansExplained
<1>8. WatchInv
  <2>1. Ended = {} /\ Opening = {}
    BY <1>1, <1>2, ScanIsATask DEF Ended, EndedBy, NoCloses, Opening, BeingOpened
  <2>2. OneClosePerWatch
    BY <1>1 DEF OneClosePerWatch, EndedBy, NoCloses
  <2> QED BY <1>1, <1>2, <2>1, <2>2, ScanIsATask DEF WatchInv
<1> QED BY <1>3, <1>4, <1>5, <1>6, <1>7, <1>8 DEF IInv

LEMMA Stutter ==
  ASSUME TypeOK, IInv, UNCHANGED vars
  PROVE  TypeOK' /\ IInv'
<1> USE DEF vars, moving, memory, history
<1>1. TypeOK'
  BY DEF TypeOK
<1>2. CreatedInv' /\ OpeningInv' /\ ClosingInv'
  BY DEF IInv, CreatedInv, Created, OpeningInv, ClosingInv, Watched
<1>3. MarkInv'
  BY DEF IInv, MarkInv, MarksSound, Counted, BeingMarked
<1>4. OrphansExplained'
  BY DEF IInv, OrphansExplained, BeingOpened, Watched
<1>5. WatchInv'
  BY DEF IInv, WatchInv, OneClosePerWatch, Ended, EndedBy, Opening, BeingOpened, Watched,
         Created
<1> QED BY <1>1, <1>2, <1>3, <1>4, <1>5 DEF IInv

\* The inductive invariant of the four tasks, whatever the crew, the number of signals,
\* restarts and failing writes (of a close, a target's mark or an opening).
THEOREM SignalsInvariant == Spec => [](TypeOK /\ IInv)
<1>1. Init => TypeOK /\ IInv
  BY InitTypes, InitInv
<1>2. TypeOK /\ IInv /\ [Next]_vars => (TypeOK /\ IInv)'
  <2> SUFFICES ASSUME TypeOK, IInv, [Next]_vars
               PROVE  (TypeOK /\ IInv)'
    OBVIOUS
  <2>1. CASE Next
    <3>1. Step /\ TypeOK'
      BY <2>1, StepKinds, TypeStep DEF IInv
    <3> QED BY <3>1, CreatedStep, OpeningStep, ClosingStep, MarkStep, OrphansStep,
           WatchStep DEF IInv
  <2>2. CASE UNCHANGED vars
    BY <2>2, Stutter
  <2> QED BY <2>1, <2>2
<1> QED BY <1>1, <1>2, PTL DEF Spec

\* What is watched is ACTIVE in the database, and every ACTIVE row that nobody watches is
\* one being opened, or was dropped, or was left when its opening raised (_close_active,
\* init, maybe_new_signal).
THEOREM OrphansAreExplained == Spec => []OrphansExplained
<1>1. IInv => OrphansExplained
  BY DEF IInv
<1> QED BY <1>1, SignalsInvariant, PTL

\* However the scan, the websocket, the monitor and the context refresh interleave, the
\* watch of a signal ends in at most one close; another close of that signal ends the watch
\* of a later one, and only after the signal's own watch ended in a close (self.closing).
THEOREM AtMostOneClose == Spec => []OneClosePerWatch
<1>1. IInv => OneClosePerWatch
  BY DEF IInv, WatchInv
<1> QED BY <1>1, SignalsInvariant, PTL

\* No mark of a target is skipped, and TP3 closes after all three, as long as no write
\* fails and the process is not restarted (_hit_tp).
THEOREM MarksAreComplete == Spec => []MarksComplete
<1>1. TypeOK /\ IInv => MarksComplete
  <2> SUFFICES ASSUME TypeOK, IInv, restarts = 0 /\ dbFaults = 0,
                      NEW s \in Signals, NEW n \in Targets,
                      \/ \E higher \in rows[s].tps : n < higher
                      \/ rows[s].reason = "TP3"
               PROVE  n \in rows[s].tps \/ BeingMarked(s, n)
    BY DEF MarksComplete
  <2>1. MarksSound
    BY DEF IInv, MarkInv
  <2>2. n \in hits[s]
    <3>1. CASE \E higher \in rows[s].tps : n < higher
      BY <2>1, <3>1 DEF MarksSound, Counted
    <3>2. CASE rows[s].reason = "TP3"
      BY <2>1, <3>2 DEF MarksSound
    <3> QED BY <3>1, <3>2
  <2> QED BY <2>1, <2>2 DEF MarksSound
<1> QED BY <1>1, SignalsInvariant, PTL

\* A watched signal leaves its place by a close, a drop or a restart, and never for
\* another signal: maybe_new_signal looked at self.active before its awaits, yet nothing
\* can come to be watched until it writes there.
THEOREM WatchedIsNeverReplaced == Spec => NeverReplaced
<1> DEFINE Kept == Watched /\ active' # NoSignal => active' = active \/ restarts' # restarts
<1>1. TypeOK /\ IInv /\ [Next]_vars => [Kept]_vars
  <2> SUFFICES ASSUME TypeOK, IInv, Next
               PROVE  Kept
    OBVIOUS
  <2>1. Step
    BY StepKinds
  <2>2. CASE Activate
    BY <2>2 DEF Activate, IInv, OpeningInv
  <2>3. CASE Restart
    BY <2>3 DEF Restart, TypeOK
  <2>4. CASE CreateRow \/ FailOpening \/ CoolDown \/ \E t \in Watchers : MarkTarget(t)
    BY <2>4 DEF CreateRow, FailOpening, CoolDown, MarkTarget, memory
  <2>5. ASSUME NEW t \in Tasks, FinishClose(t) \/ FailClose(t)
        PROVE  Kept
    BY <2>5 DEF FinishClose, FailClose, Drop
  <2>6. ASSUME NEW t \in Tasks, NEW q \in Doings, Quiet(t, q) \/ Starting(t, q)
        PROVE  Kept
    BY <2>6 DEF Quiet, Starting
  <2>7. ASSUME NEW t \in Watchers, NEW q \in Doings, NEW n \in Targets, Hitting(t, q, n)
        PROVE  Kept
    BY <2>7 DEF Hitting
  <2> QED BY <2>1, <2>2, <2>3, <2>4, <2>5, <2>6, <2>7 DEF Step
<1> QED BY <1>1, SignalsInvariant, PTL DEF Spec, NeverReplaced

=============================================================================
