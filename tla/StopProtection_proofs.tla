------------------------ MODULE StopProtection_proofs ------------------------
(***************************************************************************)
(* The stop of a trade, for every set of prices, plans and passes, and     *)
(* every number of incidents.                                              *)
(***************************************************************************)
EXTENDS StopProtection, TLAPS

-----------------------------------------------------------------------------
(***************************************************************************)
(* The decisions of risk/lifecycle.py.                                     *)
(***************************************************************************)
\* Strictness orders the prices, whatever the side.
LEMMA StrictnessOrders ==
  ASSUME NEW side, NEW a \in Int, NEW b \in Int, NEW c \in Int
  PROVE  /\ AtLeast(side, a, a)
         /\ AtLeast(side, a, b) /\ AtLeast(side, b, c) => AtLeast(side, a, c)
         /\ ~Stricter(side, a, b) <=> AtLeast(side, b, a)
         /\ Stricter(side, a, b) => AtLeast(side, a, b) /\ a # b
BY DEF AtLeast, Stricter

\* Of two stops the strictest is one of them and no weaker than either.
LEMMA StrictestIsStrictest ==
  ASSUME NEW side, NEW a \in Int, NEW b \in Int
  PROVE  /\ StrictestStop(side, a, b) \in {a, b}
         /\ AtLeast(side, StrictestStop(side, a, b), a)
         /\ AtLeast(side, StrictestStop(side, a, b), b)
BY DEF StrictestStop, AtLeast, Stricter

\* A decision never loosens the current stop and reaches what the milestones call for;
\* one that does not move the stop finds it there.
LEMMA EffectiveProtects ==
  ASSUME NEW p, NEW hit1, NEW current \in Int \ {NoStop}, Desired(p, hit1) \in Int
  PROVE  /\ Effective(p, hit1, current) \in {current, Desired(p, hit1)}
         /\ AtLeast(p.side, Effective(p, hit1, current), current)
         /\ AtLeast(p.side, Effective(p, hit1, current), Desired(p, hit1))
         /\ ~MovesStop(p, hit1, current) => AtLeast(p.side, current, Desired(p, hit1))
<1>1. Effective(p, hit1, current) = StrictestStop(p.side, current, Desired(p, hit1))
  BY DEF Effective
<1> QED BY <1>1, StrictestIsStrictest DEF MovesStop

\* A milestone, and all up to it, call for the same stop: one of the plan's prices.
LEMMA DesiredOfMilestone ==
  ASSUME TypeOK, NEW n \in Milestones
  PROVE  /\ Desired(plan, Milestone(n)) = Desired(plan, {n})
         /\ Desired(plan, {n}) \in Prices
<1>1. plan.entry \in Prices /\ plan.tp1 \in Prices
  BY ConstantsAssumption DEF TypeOK
<1>2. CASE n = 1
  BY <1>1, <1>2 DEF Desired, Milestone, Milestones
<1>3. CASE n = 2
  BY <1>1, <1>3 DEF Desired, Milestone, Milestones
<1> QED BY <1>2, <1>3 DEF Milestones

LEMMA PricesAreStops ==
  Prices \subseteq Int /\ NoStop \in Int /\ NoStop \notin Prices
BY ConstantsAssumption DEF NoStop

-----------------------------------------------------------------------------
(***************************************************************************)
(* Types.                                                                  *)
(***************************************************************************)
LEMMA PurposesTyped ==
  /\ Openings \subseteq Purposes /\ Attempts \subseteq Purposes
  /\ {"open", "restore", "move"} \subseteq Purposes
  /\ \A n \in Milestones : Attempt(n) \in Attempts /\ Number(Attempt(n)) = n
  /\ \A a \in Attempts : Number(a) \in Milestones
BY DEF Purposes, Openings, Attempts, Attempt, Number, Milestones

LEMMA LeaveTyped ==
  ASSUME Leave
  PROVE  /\ at' \in Labels /\ why' \in Purposes /\ target' \in Prices \cup {NoStop}
         /\ holder' \in Passes \cup {"execute", "management", "nobody"}
         /\ seen' \in [stop : Prices \cup {NoStop}, tps : SUBSET Milestones]
         /\ tried' \in SUBSET Milestones
BY PurposesTyped DEF Leave, Goto, Labels, NothingSeen

LEMMA ProceedTyped ==
  ASSUME TypeOK, Proceed
  PROVE  /\ at' \in Labels /\ why' \in Purposes /\ target' \in Prices \cup {NoStop}
         /\ holder' \in Passes \cup {"execute", "management", "nobody"}
         /\ seen' \in [stop : Prices \cup {NoStop}, tps : SUBSET Milestones]
         /\ tried' \in SUBSET Milestones
BY PurposesTyped DEF TypeOK, Proceed, Goto, Labels

LEMMA FailedTyped ==
  ASSUME TypeOK, Failed
  PROVE  /\ at' \in Labels /\ why' \in Purposes /\ target' \in Prices \cup {NoStop}
         /\ holder' \in Passes \cup {"execute", "management", "nobody"}
         /\ seen' \in [stop : Prices \cup {NoStop}, tps : SUBSET Milestones]
         /\ tried' \in SUBSET Milestones
         /\ status' \in Statuses /\ prot' \in [Milestones -> Protections]
<1>1. CASE why \in Openings \cup {"restore"} /\ status' = "RECOVERY_REQUIRED"
           /\ UNCHANGED prot /\ why = "entry" /\ Goto("flatten") /\ UNCHANGED locals
  BY <1>1 DEF TypeOK, Goto, Labels, Statuses, locals
<1>2. CASE status' = "RECOVERY_REQUIRED" /\ UNCHANGED prot /\ Leave
  BY <1>2, LeaveTyped DEF TypeOK, Statuses
<1>3. CASE /\ why \in Attempts
           /\ prot' = [prot EXCEPT ![Number(why)] = "FAILED"] /\ UNCHANGED status
           /\ Proceed
  BY <1>3, ProceedTyped DEF TypeOK, Protections
<1>4. CASE why = "move" /\ UNCHANGED <<status, prot>> /\ Leave
  BY <1>4, LeaveTyped DEF TypeOK
<1> QED BY <1>1, <1>2, <1>3, <1>4 DEF Failed

\* Once the stop was restored, the current stop of an attempt is the database's.
LEMMA CurrentIsDatabases ==
  ASSUME TypeOK, seen.stop = NoStop \/ AtLeast(plan.side, dbStop, seen.stop)
  PROVE  Current = dbStop
<1>1. seen.stop \in Prices \cup {NoStop} /\ dbStop \in Prices
  BY DEF TypeOK
<1> QED BY <1>1 DEF Current, StrictestStop, AtLeast

\* What an attempt decides, which is what the refinement and the invariant rest on.
LEMMA TryDecides ==
  ASSUME TypeOK, NEW n \in Milestones, Current \in Prices
  PROVE  /\ Effective(plan, Milestone(n), Current) \in Prices
         /\ AtLeast(plan.side, Effective(plan, Milestone(n), Current), Current)
         /\ AtLeast(plan.side, Effective(plan, Milestone(n), Current), Desired(plan, {n}))
         /\ ~MovesStop(plan, Milestone(n), Current)
              => AtLeast(plan.side, Current, Desired(plan, {n}))
<1>1. Desired(plan, Milestone(n)) \in Int /\ Current \in Int \ {NoStop}
  BY DesiredOfMilestone, PricesAreStops
<1> QED BY <1>1, EffectiveProtects, DesiredOfMilestone

LEMMA CurrentTyped ==
  ASSUME TypeOK PROVE Current \in Prices
<1>1. seen.stop \in Prices \cup {NoStop} /\ dbStop \in Prices
  BY DEF TypeOK
<1> QED BY <1>1 DEF Current, StrictestStop

LEMMA TypesKept ==
  ASSUME TypeOK, TargetInv, AttemptInv, [Next]_vars
  PROVE  TypeOK'
<1> USE DEF exchange, trade, locals
<1>1. CASE SetCheck
  <2>1. CASE Goto("set") /\ UNCHANGED <<status, prot, locals, incidents>>
    BY <1>1, <2>1 DEF TypeOK, SetCheck, Goto, Labels
  <2>2. CASE Failed /\ (UNCHANGED incidents \/ Incident)
    BY <1>1, <2>2, FailedTyped DEF TypeOK, SetCheck, Incident
  <2> QED BY <1>1, <2>1, <2>2 DEF SetCheck
<1>2. CASE SetSend
  <2>1. exStop' \in Prices \cup {NoStop}
    BY <1>2 DEF TypeOK, SetSend
  <2>2. CASE Goto("verify") /\ UNCHANGED <<status, prot, locals, incidents>>
    BY <1>2, <2>1, <2>2 DEF TypeOK, SetSend, Goto, Labels
  <2>3. CASE Failed /\ (UNCHANGED incidents \/ Incident)
    BY <1>2, <2>1, <2>3, FailedTyped DEF TypeOK, SetSend, Incident
  <2> QED BY <1>2, <2>2, <2>3 DEF SetSend
<1>3. CASE SetVerify
  <2>1. armed' \in BOOLEAN /\ incidents' \in Nat
    <3>1. incidents' \in Nat /\ armed' \in {armed, armed \/ why \in Openings}
      BY <1>3 DEF TypeOK, SetVerify, Incident
    <3>2. armed \in BOOLEAN /\ (armed \/ why \in Openings) \in BOOLEAN
      BY Zenon DEF TypeOK
    <3> QED BY <3>1, <3>2
  <2>2. CASE at' \in {"set", "commit"} /\ UNCHANGED <<status, prot, locals>>
    BY <1>3, <2>1, <2>2 DEF TypeOK, SetVerify, Labels
  <2>3. CASE Failed
    BY <1>3, <2>1, <2>3, FailedTyped DEF TypeOK, SetVerify
  <2>4. CASE Proceed /\ UNCHANGED <<status, prot>>
    BY <1>3, <2>1, <2>4, ProceedTyped DEF TypeOK, SetVerify
  <2> QED BY <1>3, <2>2, <2>3, <2>4 DEF SetVerify, Goto
<1>4. CASE Commit
  <2>1. status' \in Statuses /\ dbStop' \in Prices
    BY <1>4 DEF TypeOK, TargetInv, Setting, Commit, Statuses
  <2>2. CASE Goto("mark") /\ UNCHANGED locals
    BY <1>4, <2>1, <2>2 DEF TypeOK, Commit, Goto, Labels
  <2> QED BY <1>4, <2>1, <2>2, LeaveTyped DEF TypeOK, Commit
<1>5. CASE Mark
  BY <1>5, ProceedTyped DEF TypeOK, Mark, Protections
<1>6. CASE Recover
  <2>1. status' \in Statuses /\ incidents' \in Nat
    BY <1>6 DEF TypeOK, Recover, Statuses, Incident
  <2>2. CASE SetStop("open", target) /\ UNCHANGED holder
    BY <1>6, <2>1, <2>2, PurposesTyped DEF TypeOK, Recover, SetStop, Goto, Labels
  <2>3. CASE Leave
    BY <1>6, <2>1, <2>3, LeaveTyped DEF TypeOK, Recover
  <2> QED BY <1>6, <2>2, <2>3 DEF Recover
<1>7. CASE Flatten
  <2>1. /\ status' \in Statuses /\ incidents' \in Nat /\ open' \in BOOLEAN
        /\ exStop' \in Prices \cup {NoStop}
    <3>1. status' \in Statuses /\ incidents' \in Nat
      BY <1>7 DEF TypeOK, Flatten, Statuses, Incident
    <3>2. UNCHANGED <<open, exStop>> \/ (open' = FALSE /\ exStop' = NoStop)
      BY <1>7, Zenon DEF Flatten
    <3> QED BY <3>1, <3>2 DEF TypeOK
  <2> QED BY <1>7, <2>1, LeaveTyped DEF TypeOK, Flatten
<1>8. CASE Active
  <2>1. status' \in Statuses /\ incidents' \in Nat
    BY <1>8 DEF TypeOK, Active, Statuses, Incident
  <2>2. CASE /\ Goto("restore") /\ seen' = [stop |-> exStop, tps |-> filled]
             /\ UNCHANGED <<holder, why, target, tried>>
    BY <1>8, <2>1, <2>2 DEF TypeOK, Active, Goto, Labels
  <2>3. CASE Leave
    BY <1>8, <2>1, <2>3, LeaveTyped DEF TypeOK, Active
  <2> QED BY <1>8, <2>2, <2>3 DEF Active
<1>9. CASE Restore
  <2>1. dbStop' \in Prices
    BY <1>9 DEF TypeOK, Restore, Adopted
  <2>2. CASE SetStop("restore", dbStop) /\ UNCHANGED holder
    BY <1>9, <2>1, <2>2, PurposesTyped DEF TypeOK, Restore, SetStop, Goto, Labels
  <2>3. CASE Proceed
    BY <1>9, <2>1, <2>3, ProceedTyped DEF TypeOK, Restore
  <2> QED BY <1>9, <2>2, <2>3 DEF Restore
<1>10. CASE \E n \in Milestones : TargetHit(n) \/ Retry(n) \/ BackOff(n)
  <2> PICK n \in Milestones : TargetHit(n) \/ Retry(n) \/ BackOff(n)
    BY <1>10
  <2>1. CASE TargetHit(n)
    BY <2>1, PurposesTyped DEF TypeOK, TargetHit, Goto, Labels
  <2>2. CASE Retry(n)
    BY <2>2, PurposesTyped DEF TypeOK, Retry, Goto, Labels
  <2>3. CASE BackOff(n)
    BY <2>3 DEF TypeOK, BackOff
  <2> QED BY <2>1, <2>2, <2>3
<1>11. CASE EndPass
  BY <1>11, LeaveTyped DEF TypeOK, EndPass
<1>12. CASE Try
  <2>1. prot' \in [Milestones -> Protections] /\ incidents' \in Nat
    BY <1>12 DEF TypeOK, Try, Protections, Incident
  <2>2. CASE Proceed
    BY <1>12, <2>1, <2>2, ProceedTyped DEF TypeOK, Try
  <2>3. CASE /\ SetStop(why, Effective(plan, Milestone(Number(why)), Current))
             /\ UNCHANGED holder
    <3>1. Effective(plan, Milestone(Number(why)), Current) \in Prices
      BY <1>12, CurrentTyped, TryDecides, PurposesTyped DEF Try, AttemptInv
    <3> QED BY <1>12, <2>1, <2>3, <3>1 DEF TypeOK, Try, SetStop, Goto, Labels
  <2> QED BY <1>12, <2>2, <2>3 DEF Try
<1>13. CASE World
  <2>1. CASE MoveMarket
    BY <2>1 DEF TypeOK, MoveMarket
  <2>2. CASE ClosePosition
    BY <2>2 DEF TypeOK, ClosePosition
  <2>3. CASE \E n \in Milestones : FillTarget(n)
    BY <2>3 DEF TypeOK, FillTarget
  <2>4. CASE \E new \in Prices \cup {NoStop} : EditStop(new)
    BY <2>4 DEF TypeOK, EditStop, Incident
  <2> QED BY <1>13, <2>1, <2>2, <2>3, <2>4 DEF World
<1>14. CASE Crash
  BY <1>14, LeaveTyped DEF TypeOK, Crash, Incident, Rows, Unread
<1>15. CASE \E r \in Passes : ReadRow(r)
  BY <1>15 DEF TypeOK, ReadRow, Rows
<1>16. CASE \E r \in Passes : TakeRow(r)
  <2> PICK r \in Passes : TakeRow(r)
    BY <1>16
  <2>1. at' \in Labels
    BY DEF TakeRow, Goto, Labels
  <2>2. target' \in Prices \cup {NoStop}
    BY DEF TypeOK, TakeRow, Rows, Unread
  <2> QED BY <2>1, <2>2 DEF TypeOK, TakeRow
<1>17. CASE \E new \in Prices : MoveStop(new)
  BY <1>17, PurposesTyped DEF TypeOK, MoveStop, SetStop, Goto, Labels, Incident
<1>18. CASE UNCHANGED vars
  BY <1>18 DEF TypeOK, vars
<1> QED BY <1>1, <1>2, <1>3, <1>4, <1>5, <1>6, <1>7, <1>8, <1>9, <1>10, <1>11, <1>12,
           <1>13, <1>14, <1>15, <1>16, <1>17, <1>18 DEF Next, Step, Setter, Attempting

LEMMA TypesInitially ==
  ASSUME Init PROVE TypeOK
<1>1. plan.stop \in Prices /\ plan.entry \in Prices
  BY ConstantsAssumption DEF Init
<1>2. prot \in [Milestones -> Protections] /\ row \in [Passes -> Rows \cup {Unread}]
  BY DEF Init, Protections
<1>3. why \in Purposes /\ at \in Labels /\ status \in Statuses
  BY DEF Init, Purposes, Openings, Labels, Statuses
<1>4. seen \in [stop : Prices \cup {NoStop}, tps : SUBSET Milestones]
  BY DEF Init, NothingSeen
<1> QED BY <1>1, <1>2, <1>3, <1>4 DEF Init, TypeOK

-----------------------------------------------------------------------------
(***************************************************************************)
(* The inductive invariant, part by part.                                  *)
(***************************************************************************)
\* Where a failed call leaves the lock's holder.
LEMMA AfterFailure ==
  ASSUME TypeOK, Failed
  PROVE  /\ \/ at' \in {"free", "flatten"} /\ UNCHANGED prot
            \/ why \in Attempts /\ Proceed /\ prot' = [prot EXCEPT ![Number(why)] = "FAILED"]
         /\ \A n \in Milestones : prot'[n] \in Protected => prot[n] \in Protected
<1>1. CASE at' \in {"free", "flatten"} /\ UNCHANGED prot
  BY <1>1
<1>2. CASE why \in Attempts /\ Proceed /\ prot' = [prot EXCEPT ![Number(why)] = "FAILED"]
  BY <1>2 DEF TypeOK, Protected
<1> QED BY <1>1, <1>2 DEF Failed, Leave, Goto

\* The steps outside _set_and_verify_stop and the attempts lead to a label at which
\* nothing is known of the stop, or leave lock, stop and protection alone.
LEMMA OtherSteps ==
  ASSUME [Next]_vars
  PROVE  \/ SetCheck \/ SetSend \/ SetVerify \/ Commit \/ Mark \/ Recover \/ Restore \/ Try
         \/ \E n \in Milestones : TargetHit(n) \/ Retry(n)
         \/ \E r \in Passes : TakeRow(r)
         \/ \E new \in Prices : MoveStop(new)
         \/ /\ at' \in {"free", "restore"} \/ UNCHANGED <<at, seen, why, target>>
            /\ UNCHANGED <<plan, dbStop, hit, prot>>
<1> USE DEF exchange, trade, locals
<1>1. CASE Flatten \/ EndPass \/ Crash
  BY <1>1 DEF Flatten, EndPass, Crash, Leave, Goto
<1>2. CASE Active
  BY <1>2 DEF Active, Leave, Goto
<1>3. CASE \E n \in Milestones : BackOff(n)
  BY <1>3 DEF BackOff
<1>4. CASE World
  BY <1>4 DEF World, MoveMarket, ClosePosition, FillTarget, EditStop
<1>5. CASE \E r \in Passes : ReadRow(r)
  BY <1>5 DEF ReadRow
<1>6. CASE UNCHANGED vars
  BY <1>6 DEF vars
<1> QED BY <1>1, <1>2, <1>3, <1>4, <1>5, <1>6 DEF Next, Step, Setter, Attempting

\* Calls and verifications leave plan, row and fills as they are.
LEMMA SettingSteps ==
  ASSUME SetCheck \/ SetSend \/ SetVerify
  PROVE  /\ at \in {"check", "set", "verify"} /\ UNCHANGED <<plan, dbStop, hit>>
         /\ \/ Failed
            \/ at' \in {"set", "verify", "commit"} /\ UNCHANGED <<prot, locals>>
            \/ why = "restore" /\ Proceed /\ UNCHANGED prot
BY DEF SetCheck, SetSend, SetVerify, exchange, Goto

LEMMA SeenKept ==
  ASSUME TypeOK, IInv, [Next]_vars
  PROVE  SeenInv'
<1> USE DEF exchange, trade, locals
<1> DEFINE Known == seen.stop = NoStop \/ AtLeast(plan.side, dbStop, seen.stop)
<1>1. CASE SetCheck \/ SetSend \/ SetVerify
  <2>1. CASE at' \in {"free", "flatten"}
    BY <2>1 DEF SeenInv, Setting
  <2>2. CASE Known /\ UNCHANGED <<plan, dbStop, seen>>
    BY <2>2 DEF SeenInv, AtLeast, Stricter
  <2>3. why \in Attempts \cup {"restore"} => Known
    BY <1>1, SettingSteps DEF IInv, SeenInv, Setting
  <2>4. CASE at' \in {"set", "verify", "commit"} /\ UNCHANGED <<prot, locals>>
    BY <1>1, <2>2, <2>3, <2>4, SettingSteps DEF SeenInv
  <2> QED BY <1>1, <2>1, <2>2, <2>3, <2>4, SettingSteps, AfterFailure DEF Proceed
<1>2. CASE Commit
  <2>1. CASE at' = "free"
    BY <2>1 DEF SeenInv, Setting
  <2>2. CASE why \in Attempts /\ dbStop' = target /\ UNCHANGED <<plan, seen>>
    <3>1. AtLeast(plan.side, target, dbStop)
      BY <1>2, <2>2 DEF Commit, IInv, TargetInv, Setting, Attempts, Openings
    <3>2. Known /\ target \in Prices
      BY <1>2, <2>2 DEF Commit, IInv, SeenInv, TargetInv, Setting
    <3>3. seen.stop \in Int /\ dbStop \in Int /\ target \in Int
      BY <3>2, PricesAreStops DEF TypeOK
    <3> HIDE DEF Known
    <3>4. seen.stop = NoStop \/ AtLeast(plan.side, target, seen.stop)
      BY <3>1, <3>2, <3>3, StrictnessOrders DEF Known
    <3> QED BY <2>2, <3>4 DEF SeenInv
  <2> QED BY <1>2, <2>1, <2>2 DEF Commit, Leave, Goto, Attempts, Openings
<1>3. CASE Mark
  BY <1>3 DEF Mark, Proceed, IInv, SeenInv, AtLeast, Stricter
<1>4. CASE Recover
  BY <1>4 DEF Recover, Leave, SetStop, Goto, SeenInv, Setting, Attempts
<1>5. CASE Restore
  <2>1. seen.stop \in Int /\ dbStop \in Int
    BY PricesAreStops DEF TypeOK
  <2>2. CASE Weaker(seen.stop)
    <3>1. Known
      BY <2>1, <2>2, StrictnessOrders DEF Weaker
    <3> QED BY <1>5, <2>2, <3>1 DEF Restore, SetStop, SeenInv, AtLeast, Stricter
  <2>3. CASE ~Weaker(seen.stop)
    <3>1. AtLeast(plan.side, dbStop', seen.stop)
      BY <1>5, <2>1, <2>3, StrictnessOrders DEF Restore, Adopted, Weaker
    <3> QED BY <1>5, <2>3, <3>1 DEF Restore, Proceed, SeenInv, AtLeast, Stricter
  <2> QED BY <2>2, <2>3
<1>6. CASE Try
  BY <1>6 DEF Try, SetStop, Proceed, IInv, SeenInv, AtLeast, Stricter
<1>7. CASE \E n \in Milestones : TargetHit(n) \/ Retry(n)
  BY <1>7 DEF TargetHit, Retry, Goto, IInv, SeenInv, AtLeast, Stricter
<1>8. CASE \E r \in Passes : TakeRow(r)
  BY <1>8 DEF TakeRow, Goto, SeenInv, Setting
<1>9. CASE \E new \in Prices : MoveStop(new)
  BY <1>9 DEF MoveStop, SetStop, Goto, SeenInv, Setting, Attempts
<1>10. CASE at' \in {"free", "restore"}
  BY <1>10 DEF SeenInv, Setting
<1>11. CASE UNCHANGED <<at, seen, why, target, plan, dbStop, hit, prot>>
  BY <1>11 DEF IInv, SeenInv, Setting, AtLeast, Stricter
<1> QED BY <1>1, <1>2, <1>3, <1>4, <1>5, <1>6, <1>7, <1>8, <1>9, <1>10, <1>11, OtherSteps

LEMMA TargetKept ==
  ASSUME TypeOK, IInv, [Next]_vars
  PROVE  TargetInv'
<1> USE DEF exchange, trade, locals
<1>0. Attempts \cap Openings = {} /\ "restore" \notin Attempts /\ "move" \notin Attempts
  BY DEF Attempts, Openings
<1>1. CASE SetCheck \/ SetSend \/ SetVerify
  <2>1. CASE at' \in {"free", "flatten", "next"}
    BY <2>1 DEF TargetInv, Setting
  <2>2. CASE at' \in {"set", "verify", "commit"} /\ UNCHANGED <<prot, locals>>
    <3>1. at \in {"check", "set", "verify"} /\ UNCHANGED <<plan, dbStop>>
      BY <1>1, SettingSteps
    <3> QED BY <2>2, <3>1 DEF IInv, TargetInv, Setting, AtLeast, Stricter, Desired
  <2> QED BY <1>1, <2>1, <2>2, SettingSteps, AfterFailure DEF Proceed, Goto
<1>2. CASE Commit
  <2>1. CASE at' = "free"
    BY <2>1 DEF TargetInv, Setting
  <2>2. CASE why \in Attempts /\ at' = "mark" /\ dbStop' = target /\ UNCHANGED <<plan, why>>
    <3>1. AtLeast(plan.side, target, Desired(plan, {Number(why)}))
      BY <1>2, <2>2 DEF Commit, IInv, TargetInv, Setting
    <3> QED BY <2>2, <3>1 DEF TargetInv, Setting
  <2> QED BY <1>2, <2>1, <2>2, <1>0 DEF Commit, Leave, Goto
<1>3. CASE Mark
  BY <1>3 DEF Mark, Proceed, Goto, TargetInv, Setting
<1>4. CASE Recover
  BY <1>4, <1>0 DEF Recover, Leave, SetStop, Goto, IInv, TargetInv, Setting, Openings
<1>5. CASE Restore
  <2>1. CASE Proceed
    BY <2>1 DEF Proceed, Goto, TargetInv, Setting
  <2>2. CASE SetStop("restore", dbStop) /\ UNCHANGED <<plan, dbStop>>
    <3>1. AtLeast(plan.side, dbStop, dbStop)
      BY DEF AtLeast
    <3> QED BY <1>0, <2>2, <3>1 DEF SetStop, Goto, TargetInv, Setting, TypeOK
  <2> QED BY <1>5, <2>1, <2>2 DEF Restore
<1>6. CASE Try
  <2>1. CASE Proceed
    BY <2>1 DEF Proceed, Goto, TargetInv, Setting
  <2>2. CASE SetStop(why, Effective(plan, Milestone(Number(why)), Current))
    <3>1. Number(why) \in Milestones /\ Current = dbStop /\ Current \in Prices
      BY <1>6, PurposesTyped, CurrentIsDatabases, CurrentTyped
         DEF Try, IInv, AttemptInv, SeenInv
    <3>2. /\ target' \in Prices
          /\ AtLeast(plan.side, target', dbStop)
          /\ AtLeast(plan.side, target', Desired(plan, {Number(why)}))
      BY <2>2, <3>1, TryDecides DEF SetStop
    <3>3. at' = "check" /\ UNCHANGED <<plan, dbStop, why>>
      BY <1>6, <2>2 DEF Try, SetStop, Goto
    <3> QED BY <3>2, <3>3 DEF TargetInv, Setting
  <2> QED BY <1>6, <2>1, <2>2 DEF Try
<1>7. CASE \E n \in Milestones : TargetHit(n) \/ Retry(n)
  BY <1>7 DEF TargetHit, Retry, Goto, TargetInv, Setting
<1>8. CASE \E r \in Passes : TakeRow(r)
  BY <1>8 DEF TakeRow, Goto, TargetInv, Setting, TypeOK, Rows, Unread
<1>9. CASE \E new \in Prices : MoveStop(new)
  <2> PICK new \in Prices : MoveStop(new)
    BY <1>9
  <2>1. new \in Int /\ dbStop \in Int
    BY PricesAreStops DEF TypeOK
  <2>2. AtLeast(plan.side, new, dbStop)
    BY <2>1, StrictnessOrders DEF MoveStop, Loosens
  <2> QED BY <1>0, <2>2 DEF MoveStop, SetStop, Goto, TargetInv, Setting
<1>10. CASE at' \in {"free", "restore"}
  BY <1>10 DEF TargetInv, Setting
<1>11. CASE UNCHANGED <<at, seen, why, target, plan, dbStop, hit, prot>>
  BY <1>11 DEF IInv, TargetInv, Setting, AtLeast, Stricter, Desired
<1> QED BY <1>1, <1>2, <1>3, <1>4, <1>5, <1>6, <1>7, <1>8, <1>9, <1>10, <1>11, OtherSteps

LEMMA AttemptKept ==
  ASSUME TypeOK, IInv, [Next]_vars
  PROVE  AttemptInv'
<1> USE DEF exchange, trade, locals
<1> DEFINE Reached == \A n \in Milestones : prot[n] # "NOT_DUE" => n \in hit
<1>0. /\ "restore" \notin Attempts /\ "move" \notin Attempts /\ Openings \cap Attempts = {}
      /\ "open" \notin Attempts /\ Reached
  BY DEF Attempts, Openings, IInv, AttemptInv
<1>1. CASE SetCheck \/ SetSend \/ SetVerify
  <2>1. at \in {"check", "set", "verify"} /\ UNCHANGED hit
    BY <1>1, SettingSteps
  <2>2. CASE at' \in {"free", "flatten"} /\ UNCHANGED prot
    BY <1>0, <2>1, <2>2 DEF AttemptInv, Setting
  <2>3. CASE /\ why \in Attempts /\ Proceed
             /\ prot' = [prot EXCEPT ![Number(why)] = "FAILED"]
    <3>1. Number(why) \in hit
      BY <2>1, <2>3 DEF IInv, AttemptInv, Setting
    <3> QED BY <1>0, <2>1, <2>3, <3>1 DEF Proceed, Goto, AttemptInv, Setting, TypeOK
  <2>4. CASE Proceed /\ UNCHANGED prot
    BY <1>0, <2>1, <2>4 DEF Proceed, Goto, AttemptInv, Setting
  <2>5. CASE at' \in {"set", "verify", "commit"} /\ UNCHANGED <<prot, locals>>
    BY <2>1, <2>5 DEF IInv, AttemptInv, Setting
  <2> QED BY <1>1, <2>2, <2>3, <2>4, <2>5, SettingSteps, AfterFailure
<1>2. CASE Commit
  BY <1>0, <1>2 DEF Commit, Leave, Goto, IInv, AttemptInv, Setting
<1>3. CASE Mark
  BY <1>0, <1>3 DEF Mark, Proceed, Goto, IInv, AttemptInv, Setting, TypeOK
<1>4. CASE Recover
  BY <1>0, <1>4 DEF Recover, Leave, SetStop, Goto, AttemptInv, Setting
<1>5. CASE Restore
  BY <1>0, <1>5 DEF Restore, Proceed, SetStop, Goto, AttemptInv, Setting
<1>6. CASE Try
  <2>1. Number(why) \in hit /\ why \in Attempts /\ prot[Number(why)] \notin Protected
    BY <1>6 DEF Try, IInv, AttemptInv
  <2>2. CASE Proceed
    BY <1>0, <1>6, <2>1, <2>2 DEF Try, Proceed, Goto, AttemptInv, Setting, TypeOK
  <2>3. CASE at' = "check" /\ UNCHANGED <<prot, hit, why>>
    BY <1>0, <2>1, <2>3 DEF AttemptInv, Setting
  <2> QED BY <1>6, <2>2, <2>3 DEF Try, SetStop, Goto
<1>7. CASE \E n \in Milestones : TargetHit(n) \/ Retry(n)
  <2> PICK n \in Milestones : TargetHit(n) \/ Retry(n)
    BY <1>7
  <2>1. /\ at' = "try" /\ why' = Attempt(n) /\ UNCHANGED prot
        /\ hit \subseteq hit' /\ n \in hit'
    BY DEF TargetHit, Retry, Goto, First, Due
  <2>2. prot[n] \notin Protected
    BY <1>0 DEF TargetHit, Retry, First, New, Due, Protected, TypeOK
  <2> QED BY <1>0, <2>1, <2>2, PurposesTyped DEF AttemptInv, Setting
<1>8. CASE \E r \in Passes : TakeRow(r)
  BY <1>0, <1>8 DEF TakeRow, Goto, AttemptInv, Setting
<1>9. CASE \E new \in Prices : MoveStop(new)
  BY <1>0, <1>9 DEF MoveStop, SetStop, Goto, AttemptInv, Setting
<1>10. CASE at' \in {"free", "restore"} /\ UNCHANGED <<hit, prot>>
  BY <1>0, <1>10 DEF AttemptInv, Setting
<1>11. CASE UNCHANGED <<at, seen, why, target, plan, dbStop, hit, prot>>
  BY <1>11 DEF IInv, AttemptInv, Setting
<1> QED BY <1>1, <1>2, <1>3, <1>4, <1>5, <1>6, <1>7, <1>8, <1>9, <1>10, <1>11, OtherSteps

(***************************************************************************)
(* What a step may do to the stop and the protection: tighten the one, or  *)
(* advance the other when the stop is there.                               *)
(***************************************************************************)
Stage == {n \in Milestones : prot[n] \in Protected}

LEMMA StepAdvances ==
  ASSUME TypeOK, IInv, [Next]_vars
  PROVE  /\ plan' = plan
         /\ \/ Stage' = Stage /\ (dbStop' = dbStop \/ Stricter(plan.side, dbStop', dbStop))
            \/ /\ dbStop' = dbStop
               /\ \E n \in Milestones \ Stage :
                    AtLeast(plan.side, dbStop, Desired(plan, {n})) /\ Stage' = Stage \cup {n}
<1> USE DEF exchange, trade, locals
<1>1. CASE SetCheck \/ SetSend \/ SetVerify
  <2>1. at \in {"check", "set", "verify"} /\ UNCHANGED <<plan, dbStop>>
    BY <1>1, SettingSteps
  <2>2. CASE UNCHANGED prot
    BY <2>1, <2>2 DEF Stage
  <2>3. CASE why \in Attempts /\ prot' = [prot EXCEPT ![Number(why)] = "FAILED"]
    <3>1. prot[Number(why)] \notin Protected
      BY <2>1, <2>3 DEF IInv, AttemptInv, Setting
    <3> QED BY <2>1, <2>3, <3>1 DEF Stage, Protected, TypeOK
  <2> QED BY <1>1, <2>2, <2>3, SettingSteps, AfterFailure
<1>2. CASE Commit
  <2>1. CASE UNCHANGED dbStop
    BY <1>2, <2>1 DEF Commit, Stage
  <2>2. CASE why \notin Openings /\ dbStop' = target
    <3>1. AtLeast(plan.side, target, dbStop)
      BY <1>2, <2>2 DEF Commit, IInv, TargetInv, Setting
    <3> QED BY <1>2, <2>2, <3>1 DEF Commit, Stage, AtLeast
  <2> QED BY <1>2, <2>1, <2>2 DEF Commit
<1>3. CASE Mark
  <2>1. /\ Number(why) \in Milestones \ Stage
        /\ AtLeast(plan.side, dbStop, Desired(plan, {Number(why)}))
    BY <1>3, PurposesTyped DEF Mark, IInv, AttemptInv, TargetInv, Stage
  <2>2. Stage' = Stage \cup {Number(why)}
    BY <1>3, <2>1 DEF Mark, Stage, Protected, TypeOK
  <2> QED BY <1>3, <2>1, <2>2 DEF Mark
<1>4. CASE Recover
  BY <1>4 DEF Recover, Stage
<1>5. CASE Restore
  BY <1>5 DEF Restore, Adopted, Stage
<1>6. CASE Try
  <2> DEFINE n == Number(why)
  <2>1. n \in Milestones \ Stage /\ Current = dbStop /\ Current \in Prices
    BY <1>6, PurposesTyped, CurrentIsDatabases, CurrentTyped
       DEF Try, IInv, AttemptInv, SeenInv, Stage
  <2>2. CASE UNCHANGED prot
    BY <1>6, <2>2 DEF Try, Stage
  <2>3. CASE /\ ~MovesStop(plan, Milestone(n), Current)
             /\ prot' = [prot EXCEPT ![n] = IF n = 2 /\ Current = plan.tp1
                                            THEN "APPLIED" ELSE "NOT_NEEDED"]
    <3>1. AtLeast(plan.side, dbStop, Desired(plan, {n}))
      BY <2>1, <2>3, TryDecides
    <3>2. Stage' = Stage \cup {n}
      BY <2>1, <2>3 DEF Stage, Protected, TypeOK
    <3> QED BY <1>6, <2>1, <3>1, <3>2 DEF Try
  <2>4. CASE prot' = [prot EXCEPT ![n] = "FAILED"]
    BY <1>6, <2>1, <2>4 DEF Try, Stage, Protected, TypeOK
  <2> QED BY <1>6, <2>2, <2>3, <2>4 DEF Try
<1>7. CASE \E n \in Milestones : TargetHit(n) \/ Retry(n)
  BY <1>7 DEF TargetHit, Retry, Stage
<1>8. CASE \E r \in Passes : TakeRow(r)
  BY <1>8 DEF TakeRow, Stage
<1>9. CASE \E new \in Prices : MoveStop(new)
  BY <1>9 DEF MoveStop, Stage
<1>10. CASE UNCHANGED <<plan, dbStop, hit, prot>>
  BY <1>10 DEF Stage
<1> QED BY <1>1, <1>2, <1>3, <1>4, <1>5, <1>6, <1>7, <1>8, <1>9, <1>10, OtherSteps

LEMMA ProtectedKept ==
  ASSUME TypeOK, IInv, TypeOK', [Next]_vars
  PROVE  ProtectedMeansStop'
<1> SUFFICES ASSUME NEW n \in Milestones, n \in Stage'
             PROVE  AtLeast(plan.side, dbStop', Desired(plan, {n}))
  BY StepAdvances DEF ProtectedMeansStop, Stage, AtLeast, Stricter, Desired
<1>1. dbStop \in Int /\ dbStop' \in Int /\ Desired(plan, {n}) \in Int
  BY PricesAreStops, DesiredOfMilestone DEF TypeOK
<1>2. n \in Stage => AtLeast(plan.side, dbStop, Desired(plan, {n}))
  BY DEF IInv, ProtectedMeansStop, Stage
<1>3. n \notin Stage => AtLeast(plan.side, dbStop', Desired(plan, {n}))
  BY StepAdvances
<1>4. dbStop' = dbStop \/ Stricter(plan.side, dbStop', dbStop)
  BY StepAdvances
<1> QED BY <1>1, <1>2, <1>3, <1>4, StrictnessOrders

LEMMA InvariantInitially ==
  ASSUME Init PROVE IInv
<1>1. at = "check" /\ why = "entry" /\ target \in Prices
  BY ConstantsAssumption DEF Init
<1>2. \A n \in Milestones : prot[n] = "NOT_DUE"
  BY DEF Init
<1>3. SeenInv /\ TargetInv
  BY <1>1 DEF SeenInv, TargetInv, Setting, Openings, Attempts
<1> QED BY <1>1, <1>2, <1>3 DEF IInv, AttemptInv, ProtectedMeansStop, Setting, Attempts, Protected

-----------------------------------------------------------------------------
(***************************************************************************)
(* The theorems.                                                           *)
(***************************************************************************)
\* TypeOK and IInv hold in every reachable state.
THEOREM Invariant == Spec => [](TypeOK /\ IInv)
<1>1. Init => TypeOK /\ IInv
  BY TypesInitially, InvariantInitially
<1>2. TypeOK /\ IInv /\ [Next]_vars => (TypeOK /\ IInv)'
  <2> SUFFICES ASSUME TypeOK, IInv, [Next]_vars PROVE (TypeOK /\ IInv)'
    OBVIOUS
  <2>1. TypeOK'
    BY TypesKept DEF IInv
  <2> QED BY <2>1, SeenKept, TargetKept, AttemptKept, ProtectedKept DEF IInv
<1> QED BY <1>1, <1>2, PTL DEF Spec

\* Every variable keeps its type.
THEOREM TypeCorrect == Spec => []TypeOK
BY Invariant, PTL

\* A milestone the database calls protected is protected by the database's stop.
THEOREM ProtectedStopInPlace == Spec => []ProtectedMeansStop
<1>1. IInv => ProtectedMeansStop
  BY DEF IInv
<1> QED BY <1>1, Invariant, PTL

\* Nothing but the recovery of an opening sends a stop weaker than the database's.
THEOREM NothingWeakerSent == Spec => SendsNoWeaker
<1>1. TypeOK /\ IInv /\ [Next]_vars
        => (SetSend /\ exStop' # exStop /\ why \notin Openings
              => AtLeast(plan.side, exStop', dbStop))
  <2> SUFFICES ASSUME IInv, SetSend, exStop' # exStop, why \notin Openings
               PROVE  AtLeast(plan.side, exStop', dbStop)
    OBVIOUS
  <2>1. exStop' = target /\ at = "set"
    BY DEF SetSend
  <2> QED BY <2>1 DEF IInv, TargetInv, Setting
<1> QED BY <1>1, Invariant, PTL DEF Spec, SendsNoWeaker

\* The database's stop and protection implement the abstract life cycle: the stop
\* only gets stricter, the protection only advances, to where the stop is.
THEOREM StopLifecycle == Spec => ImplementsLifecycle
<1> USE DEF Lifecycle!Milestones, Lifecycle!AtLeast, Lifecycle!Stricter, Lifecycle!Desired
<1>1. Init => Lifecycle!Init
  BY DEF Init, Lifecycle!Init, Protected
<1>2. TypeOK /\ IInv /\ TypeOK' /\ [Next]_vars => [Lifecycle!Next]_Lifecycle!vars
  <2> SUFFICES ASSUME TypeOK, IInv, TypeOK', [Next]_vars
               PROVE  Lifecycle!Next \/ UNCHANGED Lifecycle!vars
    OBVIOUS
  <2>1. dbStop' \in Nat /\ plan' = plan
    BY StepAdvances, ConstantsAssumption DEF TypeOK
  <2>2. CASE Stage' = Stage /\ dbStop' = dbStop
    BY <2>1, <2>2 DEF Lifecycle!vars, Stage
  <2>3. CASE Stage' = Stage /\ Stricter(plan.side, dbStop', dbStop)
    BY <2>1, <2>3 DEF Lifecycle!Next, Lifecycle!Tighten, Stage, Stricter
  <2>4. CASE /\ dbStop' = dbStop
             /\ \E n \in Milestones \ Stage :
                  AtLeast(plan.side, dbStop, Desired(plan, {n})) /\ Stage' = Stage \cup {n}
    BY <2>1, <2>4
       DEF Lifecycle!Next, Lifecycle!Advance, Stage, AtLeast, Stricter, Desired, Milestones
  <2> QED BY <2>2, <2>3, <2>4, StepAdvances
<1> QED BY <1>1, <1>2, Invariant, PTL DEF Spec, ImplementsLifecycle, Lifecycle!Spec
=============================================================================
