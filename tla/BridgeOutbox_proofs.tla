------------------------ MODULE BridgeOutbox_proofs ------------------------
(***************************************************************************)
(* The outbox of Scanner V2.5 holds the close of every signal whose row is *)
(* closed, for any number of signals, tasks, restarts and failing writes.  *)
(***************************************************************************)
EXTENDS BridgeOutbox, WellFoundedInduction, TLAPS

\* A set of signals has a latest one.
LEMMA LatestOfSome ==
  ASSUME NEW T \in SUBSET Signals, T # {}
  PROVE  \E s \in T : \A r \in T : r <= s
  <1> DEFINE D == {Opened - s : s \in T}
  <1>1. D \subseteq Nat /\ D # {}
    <2>1. \A s \in T : s \in Nat /\ Opened - s \in Nat
      BY OutboxAssumption DEF OutboxAssumption, Signals
    <2>2. D \subseteq Nat
      BY ONLY <2>1
    <2>3. PICK s \in T : TRUE
      OBVIOUS
    <2>4. Opened - s \in D
      OBVIOUS
    <2> QED
      BY <2>2, <2>4
  <1>2. PICK d \in D : \A e \in D : ~ (<<e, d>> \in OpToRel(<, Nat))
    BY <1>1, WFMin, NatLessThanWellFounded
  <1>3. \A e \in D : d <= e
    <2> TAKE e \in D
    <2>1. e \in Nat /\ d \in Nat
      BY <1>1
    <2>2. e < d => <<e, d>> \in OpToRel(<, Nat)
      BY ONLY <2>1, Zenon DEF OpToRel
    <2>3. ~ (e < d)
      BY <1>2, <2>2, Zenon
    <2> QED
      BY <2>1, <2>3
  <1>4. PICK s \in T : d = Opened - s
    BY <1>2
  <1>5. \A r \in T : r <= s
    <2> TAKE r \in T
    <2>1. d <= Opened - r
      BY <1>3
    <2> QED
      BY <1>4, <2>1, OutboxAssumption DEF OutboxAssumption, Signals
  <1> QED
    BY <1>5

\* A task at work has a signal; one that closes it has a reason, and the close is in the
\* outbox before the row is written.
CloseInOrder ==
  \A t \in Tasks :
    /\ doing[t].at # "idle" => doing[t].s \in Signals
    /\ doing[t].at \in {"queue", "store"} => doing[t].key \in Reasons
    /\ doing[t].at = "store" => outbox[<<doing[t].s, doing[t].key>>] # "none"

IInv == TypeOK /\ CloseInOrder /\ CloseIsQueued

\* The latest row is that of a signal, or there is none.
LEMMA LatestIsOne == Latest \in Signals \cup {None}
  <1> DEFINE T == {s \in Signals : row[s] # "none"}
             IsLatest(s) == /\ s # None => row[s] # "none"
                            /\ \A r \in Signals : row[r] # "none" => r <= s
  <1>1. \E s \in Signals \cup {None} : IsLatest(s)
    <2>1. CASE T = {}
      BY <2>1
    <2>2. CASE T # {}
      <3>1. PICK s \in T : \A r \in T : r <= s
        BY <2>2, LatestOfSome
      <3> QED
        BY <3>1
    <2> QED
      BY <2>1, <2>2
  <1>2. (CHOOSE s \in Signals \cup {None} : IsLatest(s)) \in Signals \cup {None}
    BY <1>1, Zenon
  <1> QED
    BY <1>2, Zenon DEF Latest

\* Nothing that was queued leaves the outbox, and what is queued now is in it.
LEMMA EnqueueKeeps ==
  ASSUME outbox \in [Events -> {"none", "due", "later", "DELIVERED"}], NEW e, Enqueue(e)
  PROVE  /\ outbox' \in [Events -> {"none", "due", "later", "DELIVERED"}]
         /\ \A f \in Events : outbox[f] # "none" => outbox'[f] # "none"
         /\ e \in Events => outbox'[e] # "none"
  BY DEF Enqueue

\* The pairs of a signal and a reason are events.
LEMMA ClosesAreEvents == \A s \in Signals, reason \in Reasons : <<s, reason>> \in Events
  BY DEF Events, Keys

\* Nothing is watched, done or stored at first.
LEMMA InitIInv == Init => IInv
  <1> SUFFICES ASSUME Init PROVE IInv
    OBVIOUS
  <1> USE DEF Init
  <1>1. crashes \in 0..MaxCrashes /\ faults \in 0..MaxFaults
    BY OutboxAssumption DEF OutboxAssumption
  <1>2. doing \in [Tasks -> Doing]
    BY DEF Idle, Doing, Keys
  <1>3. TypeOK
    BY <1>1, <1>2 DEF TypeOK
  <1>4. CloseInOrder /\ CloseIsQueued
    BY DEF CloseInOrder, CloseIsQueued, Idle
  <1> QED
    BY <1>3, <1>4 DEF IInv

\* A step that leaves the rows and the tasks alone, and takes nothing out of the outbox.
LEMMA QueueGrows ==
  ASSUME IInv, UNCHANGED <<row, doing>>,
         \A f \in Events : outbox[f] # "none" => outbox'[f] # "none"
  PROVE  CloseInOrder' /\ CloseIsQueued'
  <1>1. CloseInOrder'
    BY ClosesAreEvents DEF IInv, CloseInOrder
  <1>2. CloseIsQueued'
    BY ClosesAreEvents DEF IInv, CloseIsQueued
  <1> QED
    BY <1>1, <1>2

\* Opening a signal keeps the invariant.
LEMMA OpenKeeps == ASSUME IInv, Open PROVE IInv'
  <1> USE DEF IInv, memory, store, budget
  <1>1. CASE Create
    <2>1. TypeOK'
      BY <1>1 DEF Create, TypeOK
    <2>2. CloseInOrder'
      BY <1>1 DEF Create, CloseInOrder
    <2>3. CloseIsQueued'
      BY <1>1 DEF Create, CloseIsQueued, TypeOK
    <2> QED
      BY <2>1, <2>2, <2>3
  <1>2. CASE Watch
    <2>1. TypeOK'
      BY <1>2, LatestIsOne, OutboxAssumption DEF Watch, Fault, TypeOK, OutboxAssumption
    <2>2. CloseInOrder' /\ CloseIsQueued'
      BY <1>2, QueueGrows DEF Watch
    <2> QED
      BY <2>1, <2>2
  <1>3. CASE QueueExecute
    <2>1. /\ outbox' \in [Events -> {"none", "due", "later", "DELIVERED"}]
          /\ \A f \in Events : outbox[f] # "none" => outbox'[f] # "none"
      BY <1>3, EnqueueKeeps DEF QueueExecute, TypeOK
    <2>2. TypeOK'
      BY <1>3, <2>1, OutboxAssumption DEF QueueExecute, Fault, TypeOK, OutboxAssumption
    <2>3. CloseInOrder' /\ CloseIsQueued'
      BY <1>3, <2>1, QueueGrows DEF QueueExecute
    <2> QED
      BY <2>2, <2>3
  <1> QED
    BY <1>1, <1>2, <1>3 DEF Open

\* A task that turns to a signal, before it writes the row, keeps the invariant.
LEMMA TurnKeeps ==
  ASSUME IInv, NEW t \in Tasks, NEW at \in {"holding", "tell", "queue"}, NEW s \in Signals,
         NEW key \in Keys, at = "queue" => key \in Reasons, Goes(t, at, s, key),
         UNCHANGED <<row, outbox>>
  PROVE  doing' \in [Tasks -> Doing] /\ CloseInOrder' /\ CloseIsQueued'
  <1>1. doing' \in [Tasks -> Doing]
    BY DEF IInv, TypeOK, Goes, Doing
  <1>2. CloseInOrder'
    BY DEF IInv, TypeOK, Goes, CloseInOrder
  <1>3. CloseIsQueued'
    BY DEF IInv, CloseIsQueued
  <1> QED
    BY <1>1, <1>2, <1>3

\* A task that is done with its signal, having queued something or nothing, keeps it.
LEMMA RestKeeps ==
  ASSUME IInv, NEW t \in Tasks, Rests(t), UNCHANGED row,
         \A f \in Events : outbox[f] # "none" => outbox'[f] # "none"
  PROVE  doing' \in [Tasks -> Doing] /\ CloseInOrder' /\ CloseIsQueued'
  <1>1. doing' \in [Tasks -> Doing]
    BY DEF IInv, TypeOK, Rests, Idle, Doing, Keys
  <1>2. CloseInOrder'
    BY ClosesAreEvents DEF IInv, TypeOK, Rests, Idle, CloseInOrder
  <1>3. CloseIsQueued'
    BY ClosesAreEvents DEF IInv, CloseIsQueued
  <1> QED
    BY <1>1, <1>2, <1>3

\* What a task does before it closes a signal keeps the invariant.
LEMMA WatchKeeps ==
  ASSUME IInv, NEW t \in Tasks,
         Hold(t) \/ HitFirst(t) \/ LetGo(t) \/ WindowCloses(t) \/ Manages(t) \/ Tell(t)
  PROVE  IInv'
  <1> USE DEF IInv, store, budget
  <1>0. /\ {"EXECUTE", "PROTECT", "WINDOW"} \subseteq Keys
        /\ watched # None => watched \in Signals
        /\ doing[t].at # "idle" => doing[t].s \in Signals
    BY DEF Keys, Told, TypeOK, CloseInOrder
  <1>1. CASE Hold(t)
    BY <1>0, <1>1, TurnKeeps DEF Hold, TypeOK
  <1>2. CASE HitFirst(t)
    <2>1. TypeOK'
      BY <1>0, <1>2, TurnKeeps DEF HitFirst, TypeOK, Told
    <2> QED
      BY <1>0, <1>2, <2>1, TurnKeeps DEF HitFirst
  <1>3. CASE LetGo(t)
    BY <1>3, RestKeeps DEF LetGo, TypeOK
  <1>4. CASE WindowCloses(t) \/ Manages(t)
    <2>1. PICK s \in Signals, key \in Told : Notes(t, s, key)
      BY <1>0, <1>4 DEF WindowCloses, Manages, Told
    <2>2. key \in Keys
      BY DEF Keys
    <2>3. TypeOK'
      BY <2>1, <2>2, TurnKeeps DEF Notes, TypeOK
    <2> QED
      BY <2>1, <2>2, <2>3, TurnKeeps DEF Notes
  <1>5. CASE Tell(t)
    <2>1. /\ outbox' \in [Events -> {"none", "due", "later", "DELIVERED"}]
          /\ \A f \in Events : outbox[f] # "none" => outbox'[f] # "none"
      BY <1>5, EnqueueKeeps DEF Tell, TypeOK
    <2>2. doing' \in [Tasks -> Doing] /\ CloseInOrder' /\ CloseIsQueued'
      BY <1>5, <2>1, RestKeeps DEF Tell
    <2>3. TypeOK'
      BY <1>5, <2>1, <2>2, OutboxAssumption DEF Tell, Fault, TypeOK, OutboxAssumption
    <2> QED
      BY <2>2, <2>3
  <1> QED
    BY <1>1, <1>2, <1>3, <1>4, <1>5

\* Claiming a close, queueing its event and writing its row keep the invariant: the event
\* is in the outbox when the row is written.
LEMMA CloseKeeps ==
  ASSUME IInv, NEW t \in Tasks,
         PriceCloses(t) \/ JudgementCloses(t) \/ RollBack(t) \/ CloseQueued(t) \/ CloseStored(t)
  PROVE  IInv'
  <1> USE DEF IInv, store, budget
  <1>0. /\ watched # None => watched \in Signals
        /\ doing[t].at # "idle" => doing[t].s \in Signals
    BY DEF TypeOK, CloseInOrder
  <1>1. CASE PriceCloses(t) \/ JudgementCloses(t)
    <2>1. PICK s \in Signals, reason \in Reasons : Claim(t, s, reason)
      BY <1>0, <1>1 DEF PriceCloses, JudgementCloses, Judged
    <2>2. reason \in Keys
      BY DEF Keys
    <2>3. doing' \in [Tasks -> Doing] /\ CloseInOrder' /\ CloseIsQueued'
      BY <2>1, <2>2, TurnKeeps DEF Claim
    <2>4. TypeOK'
      BY <2>1, <2>3 DEF Claim, TypeOK
    <2> QED
      BY <2>3, <2>4
  <1>2. CASE RollBack(t)
    <2>1. doing' \in [Tasks -> Doing] /\ CloseInOrder' /\ CloseIsQueued'
      BY <1>2, RestKeeps DEF RollBack
    <2>2. faults' \in 0..MaxFaults /\ crashes' = crashes
      BY <1>2, OutboxAssumption DEF RollBack, Fault, TypeOK, OutboxAssumption
    <2>3. TypeOK'
      BY <1>2, <2>1, <2>2 DEF RollBack, TypeOK
    <2> QED
      BY <2>1, <2>3
  <1>3. CASE CloseQueued(t)
    <2> DEFINE e == <<doing[t].s, doing[t].key>>
    <2>1. e \in Events /\ doing[t].s \in Signals /\ doing[t].key \in Reasons
      BY <1>0, <1>3, ClosesAreEvents DEF CloseQueued, CloseInOrder
    <2>2. /\ outbox' \in [Events -> {"none", "due", "later", "DELIVERED"}]
          /\ \A f \in Events : outbox[f] # "none" => outbox'[f] # "none"
          /\ outbox'[e] # "none"
      BY <1>3, <2>1, EnqueueKeeps DEF CloseQueued, TypeOK
    <2>3. doing' = [doing EXCEPT ![t] = [at |-> "store", s |-> doing[t].s, key |-> doing[t].key]]
      BY <1>3 DEF CloseQueued, Goes
    <2>4. TypeOK'
      BY <1>3, <2>1, <2>2, <2>3 DEF CloseQueued, TypeOK, Doing, Keys
    <2>5. CloseInOrder'
      BY <2>1, <2>2, <2>3, ClosesAreEvents DEF CloseInOrder, TypeOK
    <2>6. CloseIsQueued'
      BY <1>3, <2>2, ClosesAreEvents DEF CloseQueued, CloseIsQueued
    <2> QED
      BY <2>4, <2>5, <2>6
  <1>4. CASE CloseStored(t)
    <2>1. /\ doing[t].s \in Signals /\ doing[t].key \in Reasons
          /\ outbox[<<doing[t].s, doing[t].key>>] # "none"
      BY <1>4 DEF CloseStored, CloseInOrder
    <2>2. TypeOK'
      BY <1>4, <2>1 DEF CloseStored, TypeOK, Rests, Idle, Doing, Keys
    <2>3. CloseInOrder'
      BY <1>4 DEF CloseStored, TypeOK, CloseInOrder, Rests, Idle
    <2>4. CloseIsQueued'
      BY <1>4, <2>1 DEF CloseStored, TypeOK, CloseIsQueued
    <2> QED
      BY <2>2, <2>3, <2>4
  <1> QED
    BY <1>1, <1>2, <1>3, <1>4

\* Delivery changes the status of an event that is in the outbox to another one.
LEMMA DeliveryKeeps ==
  ASSUME IInv, NEW e \in Events, Delivered(e) \/ Retried(e) \/ BackoffEnds(e)
  PROVE  IInv'
  <1> USE DEF Delivered, Retried, BackoffEnds, Retries, NoChange, memory, store, budget
  <1>1. TypeOK'
    BY OutboxAssumption DEF IInv, TypeOK, OutboxAssumption
  <1>2. \A f \in Events : outbox[f] # "none" => outbox'[f] # "none"
    BY DEF IInv, TypeOK
  <1>3. UNCHANGED <<row, doing>>
    OBVIOUS
  <1> QED
    BY <1>1, <1>2, <1>3, QueueGrows DEF IInv

\* A restart keeps the invariant: rows and outbox are on disk.
LEMMA CrashKeeps == ASSUME IInv, Crash PROVE IInv'
  <1> DEFINE T == {s \in Signals : row[s] = "ACTIVE"}
  <1>1. watched' \in Signals \cup {None}
    <2>1. CASE T = {}
      BY <2>1 DEF Crash
    <2>2. CASE T # {}
      <3> DEFINE IsLatest(s) == row[s] = "ACTIVE" /\ \A r \in Signals : row[r] = "ACTIVE" => r <= s
      <3>1. \E s \in Signals : IsLatest(s)
        BY <2>2, LatestOfSome
      <3>2. (CHOOSE s \in Signals : IsLatest(s)) \in Signals
        BY <3>1, Zenon
      <3>3. watched' = CHOOSE s \in Signals : IsLatest(s)
        BY <2>2 DEF Crash
      <3> QED
        BY <3>2, <3>3
    <2> QED
      BY <2>1, <2>2
  <1>2. doing' \in [Tasks -> Doing]
    BY DEF Crash, Idle, Doing, Keys
  <1>3. silent' \subseteq Signals \X Told
    BY DEF Crash, Told
  <1>4. hit' \in [Signals -> BOOLEAN]
    BY DEF Crash, IInv, TypeOK
  <1>5. TypeOK'
    <2>1. crashes' \in 0..MaxCrashes /\ faults' \in 0..MaxFaults
      BY OutboxAssumption DEF Crash, IInv, TypeOK, OutboxAssumption
    <2>2. /\ row' = row /\ outbox' = outbox
          /\ closing' \in BOOLEAN /\ opening' = "idle"
      BY DEF Crash
    <2> QED
      BY <1>1, <1>2, <1>3, <1>4, <2>1, <2>2 DEF IInv, TypeOK
  <1>6. CloseInOrder'
    BY DEF Crash, CloseInOrder, Idle
  <1>7. CloseIsQueued'
    BY DEF Crash, IInv, CloseIsQueued
  <1> QED
    BY <1>5, <1>6, <1>7 DEF IInv

LEMMA NextKeeps == ASSUME IInv, [Next]_vars PROVE IInv'
  <1>1. CASE Next
    BY <1>1, OpenKeeps, WatchKeeps, CloseKeeps, DeliveryKeeps, CrashKeeps DEF Next, Task, Loop
  <1>2. CASE UNCHANGED vars
    <2>1. TypeOK' /\ UNCHANGED <<row, doing, outbox>>
      BY <1>2 DEF vars, memory, store, budget, IInv, TypeOK
    <2> QED
      BY <2>1, QueueGrows DEF IInv
  <1> QED
    BY <1>1, <1>2

\* The order of _close_active: event, then row.
THEOREM Invariant == Spec => []IInv
  BY InitIInv, NextKeeps, PTL DEF Spec

\* Every variable keeps its type: a status the outbox loop or init does not know is never
\* written, and what is watched is a signal.
THEOREM TypeCorrect == Spec => []TypeOK
  <1>1. IInv => TypeOK
    BY DEF IInv
  <1> QED
    BY <1>1, Invariant, PTL

\* A signal whose row is CLOSED has its close in the outbox.
THEOREM ClosesReachTheOutbox == Spec => []CloseIsQueued
  <1>1. IInv => CloseIsQueued
    BY DEF IInv
  <1> QED
    BY <1>1, Invariant, PTL
=============================================================================
