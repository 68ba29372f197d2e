------------------------ MODULE ScannerParts_proofs ------------------------
(***************************************************************************)
(* What holds of the parts of Scanner V2.6 for all contracts, calls,       *)
(* markets, setups and candles.  A step of another part leaves the         *)
(* variables that a part's invariant is about alone, and `part` never      *)
(* changes.                                                                *)
(***************************************************************************)
EXTENDS ScannerParts, FiniteSetTheorems, WellFoundedInduction, TLAPS

-----------------------------------------------------------------------------
(* The calls of the REST client. *)

\* Without a cooldown nothing is counted; in one, who waits for a turn has not been sent yet.
RestInv ==
  part = "rest" =>
    /\ slipped \in [Requests -> {0, 1}] /\ DOMAIN at = Requests
    /\ \A r \in Requests :
         /\ ~blocked => slipped[r] = 0
         /\ at[r] \in {"queued", "pacing"} => slipped[r] = 0

\* Init establishes the invariant.
LEMMA RestInit == InitAll => RestInv
  <1> SUFFICES ASSUME InitAll, part = "rest" PROVE RestInv
    BY DEF RestInv
  <1>1. Rest!Init
    BY DEF InitAll
  <1> QED BY <1>1 DEF Rest!Init, RestInv

\* A step of a call keeps it: a call is counted when it is sent, and then it is over before
\* it could queue again.
LEMMA RestKeeps ==
  ASSUME RestInv, RestStep PROVE RestInv'
  <1> USE DEF RestInv, RestStep
  <1>1. CASE \E r \in Requests : Rest!Call(r)
    <2> SUFFICES ASSUME NEW r \in Requests, Rest!Call(r) PROVE RestInv'
      BY <1>1
    <2>1. CASE Rest!Queue(r)
      BY <2>1 DEF Rest!Queue, Rest!MayQueue, Rest!Goes
    <2>2. CASE Rest!Refuse(r)
      BY <2>2 DEF Rest!Refuse, Rest!Goes
    <2>3. CASE Rest!TakeTurn(r)
      BY <2>3 DEF Rest!TakeTurn, Rest!Goes
    <2>4. CASE Rest!Send(r)
      <3>1. slipped[r] = 0 /\ at' = [at EXCEPT ![r] = "sent"] /\ blocked' = blocked
        BY <2>4 DEF Rest!Send, Rest!Goes
      <3>2. slipped' = [slipped EXCEPT ![r] = IF blocked THEN 1 ELSE 0]
        BY <2>4, <3>1 DEF Rest!Send
      <3> QED BY <3>1, <3>2
    <2>5. CASE Rest!WakeUp(r)
      BY <2>5 DEF Rest!WakeUp, Rest!Goes
    <2> QED BY <2>1, <2>2, <2>3, <2>4, <2>5 DEF Rest!Call
  <1>2. CASE \E r \in Requests : Rest!Answer(r)
    BY <1>2
    DEF Rest!Answer, Rest!Succeed, Rest!Forbidden, Rest!Fail, Rest!RateLimited, Rest!Goes
  <1>3. CASE Rest!CooldownEnds
    BY <1>3 DEF Rest!CooldownEnds, Rest!Done
  <1> QED BY <1>1, <1>2, <1>3 DEF Rest!Next

\* Every step keeps it.
LEMMA RestSteps == RestInv /\ [NextAll]_allVars => RestInv'
  <1> SUFFICES ASSUME RestInv, [NextAll]_allVars, part' = "rest" PROVE RestInv'
    BY DEF RestInv
  <1>1. CASE RestStep
    BY <1>1, RestKeeps
  <1>2. CASE UNCHANGED <<part, restVars>>
    BY <1>2 DEF RestInv, restVars
  <1> QED
    BY <1>1, <1>2
    DEF NextAll, SignalsStep, ScanStep, AnalysisStep, HotStep, SafetyStep, ReplayStep, allVars

\* For all calls, retries and cooldowns: no call goes out twice in one cooldown after
\* HTTP 403, whatever was queued or asleep when it began.
THEOREM CallsSlipOnce == SpecAll => []SlipsOnce
  <1>1. RestInv => SlipsOnce
    BY DEF RestInv, SlipsOnce, Rest!SlipsOnce
  <1> QED BY <1>1, RestInit, RestSteps, PTL DEF SpecAll

-----------------------------------------------------------------------------
(* The early alerts. *)

HotStates ==
  [stage : {"none"} \cup Hot!Stages, side : Hot!Sides, misses : Nat, told : BOOLEAN]
Shown(c, state) == state.stage = "POTENTIAL" \/ state.told => <<c, state.side>> \in DOMAIN alerted

\* Ages are kept of keys; an alert that is not old enough to be repeated is remembered, and
\* with its age.
AgesInv ==
  /\ DOMAIN alerted \subseteq Hot!Keys /\ alerted \in [DOMAIN alerted -> Nat]
  /\ DOMAIN remembered \subseteq DOMAIN alerted /\ remembered \in [DOMAIN remembered -> Nat]
  /\ \A key \in DOMAIN alerted :
       alerted[key] < Realert => key \in DOMAIN remembered /\ remembered[key] = alerted[key]

\* What is shown as POTENTIAL, or about to be once its alert has been sent, was alerted.
ShownInv ==
  /\ states \in [Coins -> HotStates]
  /\ \A c \in Coins : Shown(c, states[c])
  /\ alerting # Hot!NoAlert =>
       /\ alerting[1] \in Coins /\ alerting[2] \in HotStates
       /\ <<alerting[1], alerting[2].side>> \in DOMAIN alerted
  /\ hotlist \subseteq Coins /\ todo \subseteq Coins

HotInv == part = "hot" => AgesInv /\ ShownInv

\* Init establishes the invariant.
LEMMA HotInit == InitAll => HotInv
  <1> SUFFICES ASSUME InitAll, part = "hot" PROVE AgesInv /\ ShownInv
    BY DEF HotInv
  <1>1. Hot!Init
    BY DEF InitAll
  <1>2. DOMAIN alerted = {} /\ DOMAIN remembered = {}
    BY <1>1 DEF Hot!Init, Hot!Nothing
  <1>3. AgesInv
    BY <1>1, <1>2 DEF Hot!Init, Hot!Nothing, AgesInv
  <1>4. Hot!Cold \in HotStates /\ Hot!Cold.stage = "none" /\ Hot!Cold.told = FALSE
    BY DEF Hot!Cold, HotStates, Hot!Sides
  <1>5. ShownInv
    BY <1>1, <1>4 DEF Hot!Init, ShownInv, Shown
  <1> QED BY <1>3, <1>5

\* Time passes: what is remembered of a recent alert ages with it.
LEMMA TicksKeep ==
  ASSUME AgesInv, ShownInv, Hot!Tick PROVE AgesInv' /\ ShownInv'
  <1> USE DEF AgesInv
  <1>1. Hot!Remember \in Nat /\ Realert \in Nat /\ Realert <= Hot!Remember
    BY AlertAssumption DEF AlertAssumption, Hot!Remember
  <1>2. /\ DOMAIN alerted' = DOMAIN alerted
        /\ \A key \in DOMAIN alerted :
             alerted'[key] = IF alerted[key] < Realert THEN alerted[key] + 1 ELSE alerted[key]
    BY DEF Hot!Tick, Hot!Aged
  <1>3. /\ DOMAIN remembered' = DOMAIN remembered
        /\ \A key \in DOMAIN remembered :
             remembered'[key] = IF remembered[key] < Hot!Remember + 1 THEN remembered[key] + 1
                                                                     ELSE remembered[key]
    BY DEF Hot!Tick, Hot!Aged
  <1>4. alerted' \in [DOMAIN alerted' -> Nat]
    <2>1. alerted' = [key \in DOMAIN alerted |-> alerted'[key]]
      BY <1>2 DEF Hot!Tick, Hot!Aged
    <2> QED BY <1>2, <2>1
  <1>5. remembered' \in [DOMAIN remembered' -> Nat]
    <2>1. remembered' = [key \in DOMAIN remembered |-> remembered'[key]]
      BY <1>3 DEF Hot!Tick, Hot!Aged
    <2> QED BY <1>3, <2>1
  <1>6. AgesInv'
    BY <1>1, <1>2, <1>3, <1>4, <1>5
  <1>7. ShownInv'
    BY <1>2 DEF ShownInv, Shown, Hot!Tick
  <1> QED BY <1>6, <1>7

\* The scan forgets only what may be alerted again, and the states of who left the list.
LEMMA RefreshKeeps ==
  ASSUME AgesInv, ShownInv, Hot!Refresh PROVE AgesInv' /\ ShownInv'
  <1>1. Hot!Remember \in Nat /\ Realert \in Nat /\ Realert <= Hot!Remember
    BY AlertAssumption DEF AlertAssumption, Hot!Remember
  <1>2. remembered' = [key \in Hot!Still |-> remembered[key]] /\ alerted' = alerted
    BY DEF Hot!Refresh
  <1>3. Hot!Still \subseteq DOMAIN remembered
        /\ \A key \in DOMAIN remembered : remembered[key] < Realert => key \in Hot!Still
    BY <1>1 DEF Hot!Still, AgesInv
  <1>4. AgesInv'
    BY <1>1, <1>2, <1>3 DEF AgesInv
  <1>5. Hot!Cold \in HotStates /\ Hot!Cold.stage = "none" /\ Hot!Cold.told = FALSE
    BY DEF Hot!Cold, HotStates, Hot!Sides
  <1>6. ShownInv'
    BY <1>2, <1>5 DEF ShownInv, Shown, Hot!Refresh
  <1> QED BY <1>4, <1>6

\* A contract without a finding: its side is what it was, or it has no state.
LEMMA MissKeeps ==
  ASSUME AgesInv, ShownInv, Hot!Miss PROVE AgesInv' /\ ShownInv'
  <1>1. AgesInv'
    BY DEF AgesInv, Hot!Miss
  <1>2. PICK c \in todo : todo' = todo \ {c} /\ states' = [states EXCEPT ![c] = Hot!Missed(c)]
    BY DEF Hot!Miss, Hot!Keep
  <1>3. c \in Coins /\ states[c] \in HotStates
    BY DEF ShownInv
  <1>4. Hot!Cold \in HotStates /\ Hot!Cold.stage = "none" /\ Hot!Cold.told = FALSE
    BY DEF Hot!Cold, HotStates, Hot!Sides
  <1>5. \/ Hot!Missed(c) = Hot!Cold
        \/ Hot!Missed(c) = states[c]
        \/ Hot!Missed(c) = [states[c] EXCEPT !.misses = @ + 1]
    BY DEF Hot!Missed
  <1>6. Hot!Missed(c) \in HotStates /\ Shown(c, Hot!Missed(c))
    BY <1>3, <1>4, <1>5 DEF HotStates, ShownInv, Shown
  <1>7. ShownInv'
    BY <1>2, <1>3, <1>6 DEF ShownInv, Shown, Hot!Miss
  <1> QED BY <1>1, <1>7

\* A finding: an alert notes its key anew, and without one the key was alerted if the state
\* shows it.
LEMMA FindKeeps ==
  ASSUME AgesInv, ShownInv, Hot!Find PROVE AgesInv' /\ ShownInv' /\ Hot!SpacedStep
  <1>1. PICK c \in todo \ signalled, stage \in Hot!Stages, side \in Hot!Sides :
          LET state == Hot!Found(c, stage, side)
              alert == stage = "POTENTIAL" /\ ~state.told /\ Hot!NotifyAllowed(<<c, side>>)
          IN /\ todo' = todo \ {c}
             /\ IF alert
                  THEN /\ remembered' = Hot!Noted(remembered, <<c, side>>)
                       /\ alerted' = Hot!Noted(alerted, <<c, side>>)
                       /\ alerting' = <<c, [state EXCEPT !.told = TRUE]>>
                       /\ UNCHANGED states
                  ELSE Hot!Keep(c, state) /\ UNCHANGED <<remembered, alerted, alerting>>
    BY DEF Hot!Find
  <1> DEFINE state == Hot!Found(c, stage, side)
             key == <<c, side>>
  <1>2. c \in Coins /\ states[c] \in HotStates /\ key \in Hot!Keys /\ hotlist' = hotlist
        /\ alerting = Hot!NoAlert
    BY DEF ShownInv, Hot!Keys, Hot!Find
  <1>3. /\ state \in HotStates /\ state.stage = stage /\ state.side = side
        /\ state.told => states[c].told /\ states[c].side = side
    BY <1>2 DEF Hot!Found, Hot!Told, HotStates
  <1> HIDE DEF state
  <1>4. CASE stage = "POTENTIAL" /\ ~state.told /\ Hot!NotifyAllowed(key)
    <2>1. /\ remembered' = Hot!Noted(remembered, key) /\ alerted' = Hot!Noted(alerted, key)
          /\ alerting' = <<c, [state EXCEPT !.told = TRUE]>>
          /\ states' = states /\ todo' = todo \ {c}
      BY <1>1, <1>4 DEF state
    <2>2. /\ DOMAIN alerted' = DOMAIN alerted \cup {key} /\ alerted'[key] = 0
          /\ \A k \in DOMAIN alerted : k # key => alerted'[k] = alerted[k]
          /\ alerted' \in [DOMAIN alerted' -> Nat]
      BY <2>1 DEF Hot!Noted, AgesInv
    <2>3. /\ DOMAIN remembered' = DOMAIN remembered \cup {key} /\ remembered'[key] = 0
          /\ \A k \in DOMAIN remembered : k # key => remembered'[k] = remembered[k]
          /\ remembered' \in [DOMAIN remembered' -> Nat]
      BY <2>1 DEF Hot!Noted, AgesInv
    <2>4. AgesInv'
      BY <1>2, <2>2, <2>3 DEF AgesInv
    <2>5. /\ alerting'[1] = c /\ alerting'[2] = [state EXCEPT !.told = TRUE]
          /\ alerting'[2] \in HotStates /\ alerting'[2].side = side
      BY <1>3, <2>1 DEF HotStates
    <2>6. ShownInv'
      BY <1>2, <2>1, <2>2, <2>5 DEF ShownInv, Shown
    <2>7. key \notin DOMAIN alerted \/ alerted[key] >= Realert
      BY <1>4, AlertAssumption DEF Hot!NotifyAllowed, AgesInv, AlertAssumption
    <2>8. \A k \in Hot!Keys : Hot!Alerts(k) => k = key
      BY <2>5 DEF Hot!Alerts
    <2>9. \A d \in Coins : states'[d].stage = "POTENTIAL" => <<d, states'[d].side>> \in DOMAIN alerted'
      BY <2>6 DEF ShownInv, Shown
    <2> QED BY <2>4, <2>6, <2>7, <2>8, <2>9 DEF Hot!SpacedStep
  <1>5. CASE ~(stage = "POTENTIAL" /\ ~state.told /\ Hot!NotifyAllowed(key))
    <2>1. /\ states' = [states EXCEPT ![c] = state] /\ todo' = todo \ {c}
          /\ UNCHANGED <<remembered, alerted, alerting>>
      BY <1>1, <1>5 DEF state, Hot!Keep
    <2>2. Shown(c, state)
      BY <1>2, <1>3, <1>5 DEF Shown, ShownInv, AgesInv, Hot!NotifyAllowed
    <2>3. AgesInv'
      BY <2>1 DEF AgesInv
    <2>4. ShownInv'
      BY <1>2, <1>3, <2>1, <2>2 DEF ShownInv, Shown
    <2>5. \A k \in Hot!Keys : ~Hot!Alerts(k)
      BY <1>2, <2>1 DEF Hot!Alerts
    <2>6. \A d \in Coins : states'[d].stage = "POTENTIAL" => <<d, states'[d].side>> \in DOMAIN alerted'
      BY <2>4 DEF ShownInv, Shown
    <2> QED BY <2>3, <2>4, <2>5, <2>6 DEF Hot!SpacedStep
  <1> QED BY <1>4, <1>5

\* The state that was alerted is written, whatever the scan did meanwhile.
LEMMA AlertedKeeps ==
  ASSUME AgesInv, ShownInv, Hot!Alerted PROVE AgesInv' /\ ShownInv'
  <1>1. AgesInv'
    BY DEF AgesInv, Hot!Alerted
  <1>2. ShownInv'
    BY DEF ShownInv, Shown, Hot!Alerted, Hot!Keep
  <1> QED BY <1>1, <1>2

\* A step in which no alert begins is spaced as long as what is shown was alerted.
LEMMA QuietSpaced ==
  ASSUME ShownInv', alerting' = alerting \/ alerting' = Hot!NoAlert PROVE Hot!SpacedStep
  BY DEF Hot!SpacedStep, Hot!Alerts, ShownInv, Shown

\* A step of the hot task or of the scan beside it keeps the invariant, and its alerts are
\* spaced.
LEMMA HotKeeps ==
  ASSUME HotInv, HotStep PROVE HotInv' /\ Hot!SpacedStep
  <1>1. AgesInv /\ ShownInv /\ Hot!Next
    BY DEF HotInv, HotStep
  <1> SUFFICES AgesInv' /\ ShownInv' /\ Hot!SpacedStep
    BY DEF HotInv
  <1>2. CASE Hot!Find
    BY <1>1, <1>2, FindKeeps
  <1>3. CASE Hot!Alerted
    <2>1. alerting' = Hot!NoAlert
      BY <1>3 DEF Hot!Alerted
    <2> QED BY <1>1, <1>3, <2>1, AlertedKeeps, QuietSpaced
  <1>4. CASE Hot!Tick
    <2>1. alerting' = alerting
      BY <1>4 DEF Hot!Tick
    <2> QED BY <1>1, <1>4, <2>1, TicksKeep, QuietSpaced
  <1>5. CASE Hot!Refresh
    <2>1. alerting' = alerting
      BY <1>5 DEF Hot!Refresh
    <2> QED BY <1>1, <1>5, <2>1, RefreshKeeps, QuietSpaced
  <1>6. CASE Hot!Miss
    <2>1. alerting' = alerting
      BY <1>6 DEF Hot!Miss
    <2> QED BY <1>1, <1>6, <2>1, MissKeeps, QuietSpaced
  <1>7. CASE Hot!SignalOpens \/ Hot!SignalCloses \/ Hot!Snapshot
    <2>1. /\ UNCHANGED <<hotlist, states, remembered, alerting, alerted>>
          /\ todo' = todo \/ todo' = hotlist
      BY <1>7 DEF Hot!SignalOpens, Hot!SignalCloses, Hot!Snapshot
    <2>2. AgesInv' /\ ShownInv'
      BY <1>1, <2>1 DEF AgesInv, ShownInv, Shown
    <2> QED BY <2>1, <2>2, QuietSpaced
  <1> QED BY <1>1, <1>2, <1>3, <1>4, <1>5, <1>6, <1>7 DEF Hot!Next

\* Every step keeps it, and is spaced if it is of this part.
LEMMA HotSteps ==
  HotInv /\ [NextAll]_allVars => HotInv' /\ (part = "hot" => Hot!SpacedStep)
  <1> SUFFICES ASSUME HotInv, [NextAll]_allVars
               PROVE HotInv' /\ (part = "hot" => Hot!SpacedStep)
    OBVIOUS
  <1>1. CASE HotStep
    BY <1>1, HotKeeps
  <1>2. CASE UNCHANGED <<part, hotVars>>
    <2>1. HotInv'
      BY <1>2 DEF HotInv, AgesInv, ShownInv, Shown, hotVars
    <2>2. part = "hot" => ShownInv' /\ alerting' = alerting
      BY <1>2, <2>1 DEF HotInv, hotVars
    <2> QED BY <2>1, <2>2, QuietSpaced
  <1> QED
    BY <1>1, <1>2
    DEF NextAll, SignalsStep, ScanStep, AnalysisStep, RestStep, SafetyStep, ReplayStep, allVars

\* For all contracts, misses and lengths of time: one side of a contract is alerted at most
\* once in early_realert_sec and never shown as POTENTIAL without an alert, however it leaves
\* and rejoins the hot list, loses its state or turns round, and whatever is pruned meanwhile.
THEOREM AlertsAreSpaced == SpecAll => AlertsSpaced
  <1>1. HotInv /\ [NextAll]_allVars => [part = "hot" => Hot!SpacedStep]_allVars
    BY HotSteps
  <1>2. HotInv /\ [NextAll]_allVars => HotInv'
    BY HotSteps
  <1> QED BY <1>1, <1>2, HotInit, PTL DEF SpecAll, AlertsSpaced

-----------------------------------------------------------------------------
(* The replay of a setup.  A price counts by what it makes of one unit, so *)
(* that a LONG and a SHORT are one case: what comes for a LONG at the high *)
(* of a candle comes for a SHORT at its low.                               *)

Pnl(price) == Replay!PnlPerUnit(price)
Best(c) == IF Replay!Long THEN c.high ELSE c.low
Worst(c) == IF Replay!Long THEN c.low ELSE c.high
Candle(c) == c \in Candles /\ Replay!ValidCandle(c)

SetupTypes ==
  /\ setup \in [side : Sides, entry : Positive, stop : Positive, tp : [1..3 -> Positive],
                fraction : [1..3 -> Nat], eligible : Nat]
  /\ Replay!ValidSetup(setup)

\* What each target leaves of the position, and where the stop stands after it.
HitSets == {{}, {1}, {1, 2}, {1, 2, 3}}
LeftAfter(taken) ==
  (IF 1 \in taken THEN 0 ELSE setup.fraction[1]) + (IF 2 \in taken THEN 0 ELSE setup.fraction[2])
    + (IF 3 \in taken THEN 0 ELSE setup.fraction[3])
StopFor(taken) ==
  IF 2 \in taken THEN setup.tp[1] ELSE IF 1 \in taken THEN setup.entry ELSE setup.stop

ClosedStates == {"STOP", "TP3", "END_OF_DATA"}
Runs ==
  [state : {"waiting", "open"} \cup ClosedStates, remaining : Int, stop : Int,
   hits : SUBSET (1..3), gross : Int, favorable : Int, adverse : Int]

\* The books of a run: what was sold so far kept to the prices seen and to the risk, and in
\* profit from the first target on.
Sold(r) == Replay!Whole(setup) - r.remaining
Kept(r) ==
  /\ 0 <= r.remaining /\ r.remaining <= Replay!Whole(setup)
  /\ r.gross <= r.favorable * Sold(r)
  /\ -r.gross <= r.adverse * Sold(r)
  /\ Pnl(setup.stop) * Sold(r) <= r.gross
  /\ 1 \in r.hits => r.gross > 0
\* How far the prices went; a target that was hit was one of them.
Seen(r) ==
  /\ 0 <= r.favorable /\ 0 <= r.adverse
  /\ \A n \in r.hits : Pnl(setup.tp[n]) <= r.favorable
\* Targets are hit in their order, and each moves the stop.
Placed(r) ==
  r.hits \in HitSets /\ r.remaining = LeftAfter(r.hits) /\ r.stop = StopFor(r.hits)
RunInv(r) ==
  /\ r \in Runs /\ Kept(r) /\ Seen(r)
  /\ r.state \in {"waiting", "open"} => Placed(r) /\ r.remaining > 0
  /\ r.state \in ClosedStates => r.remaining = 0
Paired(a, t) ==
  a = t \/ (a.state \in ClosedStates /\ t.state \in ClosedStates /\ a.gross <= t.gross)

ReplayInv ==
  part = "replay" =>
    /\ SetupTypes
    /\ run \in [Replay!Policies -> Runs]
    /\ \A p \in Replay!Policies : RunInv(run[p])
    /\ Paired(run["ADVERSE_FIRST"], run["TARGET_FIRST"])

\* More units of a better price make more.
LEMMA TimesMonotone ==
  ASSUME NEW a \in Int, NEW b \in Int, NEW n \in Nat, a <= b
  PROVE  a * n <= b * n
  OBVIOUS

\* The levels of a setup in their order.
LEMMA LevelsOrdered ==
  ASSUME SetupTypes
  PROVE  /\ Pnl(setup.entry) = 0 /\ Pnl(setup.stop) < 0
         /\ 0 < Pnl(setup.tp[1]) /\ Pnl(setup.tp[1]) < Pnl(setup.tp[2])
         /\ Pnl(setup.tp[2]) < Pnl(setup.tp[3])
         /\ \A n \in 1..3 : setup.fraction[n] \in Nat /\ setup.fraction[n] > 0
         /\ \A p \in Int : Pnl(p) \in Int
         /\ \A n \in 1..3 : setup.tp[n] \in Positive
         /\ setup.entry \in Positive /\ setup.stop \in Positive
  BY DEF SetupTypes, Pnl, Replay!PnlPerUnit, Replay!Long, Replay!ValidSetup, Replay!Stricter,
         Replay!Targets, Positive, Sides

\* Touched, stricter: by what the prices make.
LEMMA ByPnl ==
  ASSUME SetupTypes, NEW c, Candle(c), NEW p \in Int, NEW q \in Int
  PROVE  /\ Replay!TargetTouched(c, p) <=> Pnl(p) <= Pnl(Best(c))
         /\ Replay!StopTouched(c, p) <=> Pnl(Worst(c)) <= Pnl(p)
         /\ Replay!Stricter(setup.side, p, q) <=> Pnl(q) < Pnl(p)
         /\ Pnl(Worst(c)) <= Pnl(c.close) /\ Pnl(c.close) <= Pnl(Best(c))
         /\ Pnl(Worst(c)) \in Int /\ Pnl(Best(c)) \in Int /\ Pnl(c.close) \in Int
         /\ Pnl(p) \in Int /\ Pnl(q) \in Int
         /\ c.close \in Int
  <1>1. c \in [low : Positive, high : Positive, close : Positive]
    BY ReplayAssumption DEF Candle, ReplayAssumption
  <1> QED
    BY <1>1
    DEF SetupTypes, Candle, Replay!ValidCandle, Best, Worst, Pnl, Replay!PnlPerUnit, Replay!Long,
        Replay!TargetTouched, Replay!StopTouched, Replay!Stricter, Positive, Sides

\* exit_fraction at a price the replay saw, no worse than the stop and, from the first target
\* on, without a loss: the books keep.
LEMMA ExitKeeps ==
  ASSUME SetupTypes, NEW r \in Runs, Kept(r), NEW p \in Int, NEW u \in Nat, u <= r.remaining,
         Pnl(p) <= r.favorable, -Pnl(p) <= r.adverse, Pnl(setup.stop) <= Pnl(p),
         1 \in r.hits => 0 <= Pnl(p)
  PROVE  /\ Replay!Exit(r, p, u) \in Runs /\ Kept(Replay!Exit(r, p, u))
         /\ Replay!Exit(r, p, u) =
              [r EXCEPT !.gross = r.gross + Pnl(p) * u, !.remaining = r.remaining - u]
  <1> DEFINE out == Replay!Exit(r, p, u)
  <1>1. out = [r EXCEPT !.gross = r.gross + Pnl(p) * u, !.remaining = r.remaining - u]
    BY DEF Replay!Exit, Pnl
  <1>2. /\ Pnl(p) \in Int /\ Pnl(setup.stop) \in Int /\ Replay!Whole(setup) \in Int
        /\ r.gross \in Int /\ r.remaining \in Int /\ r.favorable \in Int /\ r.adverse \in Int
    BY LevelsOrdered DEF Runs, SetupTypes, Replay!Whole, Positive
  <1>3. out \in Runs
    <2>1. r.gross + Pnl(p) * u \in Int /\ r.remaining - u \in Int
      BY <1>2
    <2> QED BY <1>1, <2>1 DEF Runs
  <1>4. Sold(out) = Sold(r) + u /\ Sold(r) \in Nat
    BY <1>1, <1>2 DEF Sold, Kept, Runs
  <1>5. out.gross = r.gross + Pnl(p) * u /\ out.favorable = r.favorable /\ out.adverse = r.adverse
        /\ out.hits = r.hits /\ out.remaining = r.remaining - u
    BY <1>1 DEF Runs
  <1>6. out.gross <= out.favorable * Sold(out)
    <2>1. Pnl(p) * u <= r.favorable * u
      BY <1>2, TimesMonotone
    <2>2. r.favorable * (Sold(r) + u) = r.favorable * Sold(r) + r.favorable * u
      BY <1>2, <1>4
    <2> QED BY <1>2, <1>4, <1>5, <2>1, <2>2 DEF Kept
  <1>7. -out.gross <= out.adverse * Sold(out)
    <2>1. (-Pnl(p)) * u <= r.adverse * u
      BY <1>2, TimesMonotone
    <2>2. r.adverse * (Sold(r) + u) = r.adverse * Sold(r) + r.adverse * u
      BY <1>2, <1>4
    <2>3. (-Pnl(p)) * u = -(Pnl(p) * u)
      BY <1>2
    <2> QED BY <1>2, <1>4, <1>5, <2>1, <2>2, <2>3 DEF Kept
  <1>8. Pnl(setup.stop) * Sold(out) <= out.gross
    <2>1. Pnl(setup.stop) * u <= Pnl(p) * u
      BY <1>2, TimesMonotone
    <2>2. Pnl(setup.stop) * (Sold(r) + u) = Pnl(setup.stop) * Sold(r) + Pnl(setup.stop) * u
      BY <1>2, <1>4
    <2> QED BY <1>2, <1>4, <1>5, <2>1, <2>2 DEF Kept
  <1>9. 1 \in out.hits => out.gross > 0
    <2>1. 1 \in r.hits => 0 * u <= Pnl(p) * u
      BY <1>2, TimesMonotone
    <2> QED BY <1>2, <1>5, <2>1 DEF Kept
  <1> HIDE DEF out
  <1>10. Kept(out)
    BY <1>2, <1>5, <1>6, <1>7, <1>8, <1>9 DEF Kept
  <1> QED BY <1>1, <1>3, <1>10 DEF out

\* _excursions: the books keep when prices went further.
LEMMA ExcursionsKeep ==
  ASSUME SetupTypes, NEW c, Candle(c), NEW r \in Runs, Kept(r), Seen(r)
  PROVE  LET e == Replay!Excursions(r, c) IN
         /\ e \in Runs /\ Kept(e) /\ Seen(e)
         /\ Pnl(Best(c)) <= e.favorable /\ -Pnl(Worst(c)) <= e.adverse
         /\ e.state = r.state /\ e.hits = r.hits /\ e.remaining = r.remaining
         /\ e.stop = r.stop /\ e.gross = r.gross
  <1> DEFINE e == Replay!Excursions(r, c)
             f == IF r.favorable < Pnl(Best(c)) THEN Pnl(Best(c)) ELSE r.favorable
             a == IF r.adverse < -Pnl(Worst(c)) THEN -Pnl(Worst(c)) ELSE r.adverse
  <1>1. e = [r EXCEPT !.favorable = f, !.adverse = a]
    BY DEF Replay!Excursions, Replay!Most, Pnl, Best, Worst
  <1>2. /\ Pnl(Worst(c)) \in Int /\ Pnl(Best(c)) \in Int
        /\ \A p \in Int : Pnl(p) \in Int
        /\ Replay!Whole(setup) \in Int /\ Pnl(setup.stop) \in Int
        /\ \A n \in 1..3 : Pnl(setup.tp[n]) \in Int
    BY ByPnl, LevelsOrdered DEF SetupTypes, Replay!Whole, Positive
  <1>3. /\ f \in Int /\ a \in Int /\ r.favorable <= f /\ r.adverse <= a
        /\ Pnl(Best(c)) <= f /\ -Pnl(Worst(c)) <= a /\ 0 <= f /\ 0 <= a
    BY <1>2 DEF Runs, Seen
  <1> HIDE DEF f, a
  <1>4. /\ e \in Runs /\ e.favorable = f /\ e.adverse = a /\ e.state = r.state
        /\ e.hits = r.hits /\ e.remaining = r.remaining /\ e.stop = r.stop /\ e.gross = r.gross
    BY <1>1, <1>3 DEF Runs
  <1>5. Sold(r) \in Nat /\ Sold(e) = Sold(r)
    BY <1>2, <1>4 DEF Sold, Kept, Runs
  <1>6. r.favorable * Sold(r) <= f * Sold(r) /\ r.adverse * Sold(r) <= a * Sold(r)
    BY <1>3, <1>5, TimesMonotone DEF Runs
  <1> HIDE DEF e
  <1>7. Kept(e)
    <2>1. e.gross <= e.favorable * Sold(e)
      BY <1>3, <1>4, <1>5, <1>6 DEF Kept, Runs
    <2>2. -e.gross <= e.adverse * Sold(e)
      BY <1>3, <1>4, <1>5, <1>6 DEF Kept, Runs
    <2> QED BY <1>4, <1>5, <2>1, <2>2 DEF Kept
  <1>8. Seen(e)
    BY <1>2, <1>3, <1>4 DEF Seen, Runs
  <1> QED BY <1>3, <1>4, <1>7, <1>8 DEF e

\* A run within a candle, after the targets up to some were looked at.
Within(r, c) ==
  /\ r \in Runs /\ Kept(r) /\ Seen(r) /\ Placed(r)
  /\ Pnl(Best(c)) <= r.favorable /\ -Pnl(Worst(c)) <= r.adverse
Caught(r, c, n) == \A j \in 1..3 : j < n /\ Pnl(setup.tp[j]) <= Pnl(Best(c)) => j \in r.hits

\* The stop after a target is the one this target calls for.
LEMMA StopMoves ==
  ASSUME SetupTypes, NEW r \in Runs, NEW n \in 1..3, r.hits \in HitSets,
         r.hits = {j \in 1..3 : j < n}, r.stop = StopFor(r.hits),
         n < 3 => r.remaining > 0
  PROVE  /\ Replay!StopAfter(r, n) = StopFor(r.hits \cup {n})
         /\ Pnl(r.stop) <= Pnl(StopFor(r.hits \cup {n}))
  <1> USE LevelsOrdered
  <1>1. CASE n = 1
    <2>1. r.hits = {} /\ r.stop = setup.stop /\ r.hits \cup {n} = {1}
      BY <1>1 DEF StopFor
    <2>2. Replay!StopAfter(r, n) = Replay!Effective(Replay!Plan(setup), {1}, setup.stop)
      BY <1>1, <2>1 DEF Replay!StopAfter
    <2>3. Replay!Desired(Replay!Plan(setup), {1}) = setup.entry
      BY DEF Replay!Desired, Replay!Plan
    <2>4. ~Replay!Stricter(setup.side, setup.stop, setup.entry)
      BY DEF SetupTypes, Replay!ValidSetup, Replay!Stricter, Sides, Positive
    <2> QED
      BY <2>1, <2>2, <2>3, <2>4
      DEF Replay!Effective, Replay!StrictestStop, Replay!NoStop, Replay!Plan, StopFor, Positive
  <1>2. CASE n = 2
    <2>1. r.hits = {1} /\ r.stop = setup.entry /\ r.hits \cup {n} = {1, 2}
      BY <1>2 DEF StopFor
    <2>2. Replay!StopAfter(r, n) = Replay!Effective(Replay!Plan(setup), {1, 2}, setup.entry)
      <3>1. Replay!StopAfter(r, n) = Replay!Effective(Replay!Plan(setup), r.hits \cup {n}, r.stop)
        BY <1>2 DEF Replay!StopAfter
      <3> QED BY <2>1, <3>1
    <2>3. Replay!Desired(Replay!Plan(setup), {1, 2}) = setup.tp[1]
      BY DEF Replay!Desired, Replay!Plan
    <2>4. ~Replay!Stricter(setup.side, setup.entry, setup.tp[1])
      BY DEF SetupTypes, Replay!ValidSetup, Replay!Stricter, Sides, Positive
    <2> QED
      BY <2>1, <2>2, <2>3, <2>4
      DEF Replay!Effective, Replay!StrictestStop, Replay!NoStop, Replay!Plan, StopFor, Positive
  <1>3. CASE n = 3
    <2>1. r.hits = {1, 2} /\ r.stop = setup.tp[1] /\ r.hits \cup {n} = {1, 2, 3}
      BY <1>3 DEF StopFor
    <2> QED
      BY <1>3, <2>1 DEF Replay!StopAfter, StopFor, Positive
  <1> QED BY <1>1, <1>2, <1>3

\* A target that a candle reaches is hit once those before it are; the books keep, and what
\* was made, with the rest at the stop or less, does not become less.
LEMMA TargetKeeps ==
  ASSUME SetupTypes, NEW c, Candle(c), NEW r, Within(r, c), NEW n \in 1..3, Caught(r, c, n),
         NEW v \in Int, v <= Pnl(r.stop)
  PROVE  LET h == Replay!HitTarget(r, c, n) IN
         /\ Within(h, c) /\ Caught(h, c, n + 1) /\ h.state = r.state
         /\ v <= Pnl(h.stop)
         /\ r.gross + v * r.remaining <= h.gross + v * h.remaining
  <1> DEFINE h == Replay!HitTarget(r, c, n)
             t == setup.tp[n]
             u == setup.fraction[n]
             out == Replay!Exit(r, t, u)
  <1>1. /\ Pnl(Best(c)) \in Int /\ t \in Int /\ Pnl(t) \in Int
        /\ \A j \in 1..3 : setup.tp[j] \in Int /\ Pnl(setup.tp[j]) \in Int
        /\ Replay!TargetTouched(c, t) <=> Pnl(t) <= Pnl(Best(c))
        /\ u \in Nat /\ u > 0
        /\ r \in Runs /\ r.gross \in Int /\ r.remaining \in Int
    BY ByPnl, LevelsOrdered DEF Positive, Within, Runs
  <1>2. CASE n \in r.hits \/ ~(r.remaining > 0) \/ ~Replay!TargetTouched(c, t)
    <2>1. h = r
      BY <1>2 DEF Replay!HitTarget
    <2>2. ~(r.remaining > 0) => n \in r.hits
      BY LevelsOrdered, <1>1 DEF Within, Placed, HitSets, LeftAfter
    <2>3. Caught(r, c, n + 1)
      BY <1>1, <1>2, <2>2 DEF Caught
    <2> QED BY <1>1, <2>1, <2>3
  <1>3. CASE n \notin r.hits /\ r.remaining > 0 /\ Replay!TargetTouched(c, t)
    <2>1. r.hits = {j \in 1..3 : j < n} /\ r.hits \in HitSets /\ r.remaining = LeftAfter(r.hits)
          /\ r.stop = StopFor(r.hits)
      <3>1. \A j \in 1..3 : j < n => j \in r.hits
        BY <1>1, <1>3, LevelsOrdered DEF Caught
      <3>2. r.hits \in HitSets
        BY DEF Within, Placed
      <3> QED BY <1>3, <3>1, <3>2 DEF Within, Placed, HitSets
    <2>2. /\ LeftAfter(r.hits \cup {n}) = r.remaining - u /\ u <= r.remaining
          /\ (n < 3 => r.remaining - u > 0)
      <3>1. CASE n = 1
        BY <2>1, <3>1, LevelsOrdered DEF LeftAfter
      <3>2. CASE n = 2
        BY <2>1, <3>2, LevelsOrdered DEF LeftAfter
      <3>3. CASE n = 3
        BY <2>1, <3>3, LevelsOrdered DEF LeftAfter
      <3> QED BY <3>1, <3>2, <3>3
    <2>3. Replay!Least(u, r.remaining) = u
      BY <1>1, <2>2 DEF Replay!Least
    <2>4. Pnl(setup.stop) < Pnl(t) /\ 0 < Pnl(t) /\ Pnl(r.stop) < Pnl(t) /\ Pnl(r.stop) \in Int
      <3>1. CASE n = 1
        BY <2>1, <3>1, LevelsOrdered DEF StopFor, Positive
      <3>2. CASE n = 2
        BY <2>1, <3>2, LevelsOrdered DEF StopFor, Positive
      <3>3. CASE n = 3
        BY <2>1, <3>3, LevelsOrdered DEF StopFor, Positive
      <3> QED BY <3>1, <3>2, <3>3
    <2>5. /\ out \in Runs /\ Kept(out)
          /\ out = [r EXCEPT !.gross = r.gross + Pnl(t) * u, !.remaining = r.remaining - u]
      <3>1. Pnl(t) <= r.favorable /\ -Pnl(t) <= r.adverse /\ Pnl(setup.stop) \in Int
        BY <1>1, <1>3, <2>4, LevelsOrdered DEF Within, Seen, Runs, Positive
      <3>2. r \in Runs /\ Kept(r) /\ t \in Int /\ u \in Nat /\ u <= r.remaining
            /\ Pnl(setup.stop) <= Pnl(t) /\ (1 \in r.hits => 0 <= Pnl(t))
        BY <1>1, <2>2, <2>4, <3>1 DEF Within
      <3> HIDE DEF t, u
      <3> QED BY <3>1, <3>2, ExitKeeps
    <2>6. h = [out EXCEPT !.hits = out.hits \cup {n}, !.stop = Replay!StopAfter(out, n)]
      BY <1>3, <2>3 DEF Replay!HitTarget
    <2>7. /\ out.hits = r.hits /\ out.stop = r.stop /\ out.remaining = r.remaining - u
          /\ out.state = r.state /\ out.favorable = r.favorable /\ out.adverse = r.adverse
          /\ out.gross = r.gross + Pnl(t) * u
      BY <1>1, <2>5 DEF Runs
    <2> HIDE DEF out, t, u
    <2>8. Replay!StopAfter(out, n) = StopFor(r.hits \cup {n})
          /\ Pnl(r.stop) <= Pnl(StopFor(r.hits \cup {n}))
      BY <2>1, <2>2, <2>5, <2>7, StopMoves
    <2>9. StopFor(r.hits \cup {n}) \in Int
      BY LevelsOrdered DEF StopFor, Positive
    <2>10. h \in Runs /\ h.hits = r.hits \cup {n} /\ h.stop = StopFor(r.hits \cup {n})
           /\ h.remaining = r.remaining - u /\ h.state = r.state /\ h.favorable = r.favorable
           /\ h.adverse = r.adverse /\ h.gross = r.gross + Pnl(t) * u
      <3>1. out.hits \cup {n} \in SUBSET (1..3)
        BY <2>5 DEF Runs
      <3>2. h = [out EXCEPT !.hits = r.hits \cup {n}, !.stop = StopFor(r.hits \cup {n})]
        BY <2>6, <2>7, <2>8
      <3> HIDE DEF h
      <3> QED BY <2>5, <2>7, <2>9, <3>1, <3>2 DEF Runs
    <2> HIDE DEF h
    <2>11. Kept(h)
      <3>1. h.gross > 0
        <4>1. r.gross >= 0
          <5>1. CASE n = 1
            <6>1. Sold(r) = 0
              BY <1>1, <2>1, <5>1, LevelsOrdered DEF Sold, LeftAfter, Replay!Whole
            <6>2. Pnl(setup.stop) * Sold(r) = 0
              BY <6>1, LevelsOrdered DEF Positive
            <6> QED BY <6>2, <1>1 DEF Within, Kept
          <5>2. CASE n # 1
            BY <1>1, <2>1, <5>2 DEF Within, Kept
          <5> QED BY <5>1, <5>2
        <4>2. 1 * u <= Pnl(t) * u
          BY <1>1, <2>4, TimesMonotone DEF t, u
        <4>3. Pnl(t) * u \in Int /\ u \in Int /\ u > 0
          BY <1>1 DEF t, u
        <4> QED BY <1>1, <2>10, <4>1, <4>2, <4>3
      <3>2. Sold(h) = Sold(out)
        BY <2>7, <2>10 DEF Sold
      <3> QED BY <2>5, <2>7, <2>10, <3>1, <3>2 DEF Kept
    <2>12. Seen(h)
      <3>1. Pnl(t) <= r.favorable
        BY <1>1, <1>3 DEF Within, Runs, t
      <3> QED BY <2>10, <3>1 DEF Within, Seen, t
    <2>13. Placed(h)
      BY <2>1, <2>2, <2>10 DEF Placed, HitSets
    <2>14. Caught(h, c, n + 1)
      BY <2>10 DEF Caught
    <2>15. v <= Pnl(h.stop)
      BY <2>4, <2>8, <2>9, <2>10, LevelsOrdered
    <2>16. r.gross + v * r.remaining <= h.gross + v * h.remaining
      <3>1. v * u <= Pnl(t) * u
        BY <1>1, <2>4, TimesMonotone DEF t, u
      <3>2. v * (r.remaining - u) = v * r.remaining - v * u
        BY <1>1 DEF u
      <3>3. v * u \in Int /\ Pnl(t) * u \in Int /\ v * r.remaining \in Int
        BY <1>1 DEF t, u
      <3> QED BY <1>1, <2>10, <3>1, <3>2, <3>3
    <2>17. Within(h, c)
      BY <2>10, <2>11, <2>12, <2>13 DEF Within
    <2> QED BY <2>10, <2>14, <2>15, <2>16, <2>17 DEF h
  <1> QED BY <1>2, <1>3

\* The three targets of a candle one after the other.
LEMMA TargetsKeep ==
  ASSUME SetupTypes, NEW c, Candle(c), NEW r, Within(r, c), r.state = "open",
         NEW v \in Int, v <= Pnl(r.stop)
  PROVE  LET h == Replay!HitTargets(r, c) IN
         /\ h \in Runs /\ Kept(h) /\ Seen(h)
         /\ Pnl(Best(c)) <= h.favorable /\ -Pnl(Worst(c)) <= h.adverse
         /\ r.gross + v * r.remaining <= h.gross + v * h.remaining
         /\ \/ h.state = "open" /\ Placed(h) /\ h.remaining > 0 /\ v <= Pnl(h.stop)
            \/ h.state = "TP3" /\ h.remaining = 0
  <1> DEFINE h1 == Replay!HitTarget(r, c, 1)
             h2 == Replay!HitTarget(h1, c, 2)
             h3 == Replay!HitTarget(h2, c, 3)
             h == Replay!HitTargets(r, c)
  <1>1. Caught(r, c, 1)
    BY DEF Caught
  <1>2. /\ Within(h1, c) /\ Caught(h1, c, 2) /\ h1.state = "open" /\ v <= Pnl(h1.stop)
        /\ r.gross + v * r.remaining <= h1.gross + v * h1.remaining
    BY <1>1, TargetKeeps
  <1>3. /\ Within(h2, c) /\ Caught(h2, c, 3) /\ h2.state = "open" /\ v <= Pnl(h2.stop)
        /\ h1.gross + v * h1.remaining <= h2.gross + v * h2.remaining
    <2> HIDE DEF h1
    <2> QED BY <1>2, TargetKeeps
  <1>4. /\ Within(h3, c) /\ h3.state = "open" /\ v <= Pnl(h3.stop)
        /\ h2.gross + v * h2.remaining <= h3.gross + v * h3.remaining
    <2> HIDE DEF h1, h2
    <2> QED BY <1>3, TargetKeeps
  <1>5. h = IF h3.remaining = 0 THEN [h3 EXCEPT !.state = "TP3"] ELSE h3
    BY DEF Replay!HitTargets
  <1> HIDE DEF h1, h2, h3, h
  <1>6. r.gross + v * r.remaining <= h3.gross + v * h3.remaining
    <2>1. \A x \in {r, h1, h2, h3} : x.gross + v * x.remaining \in Int
      BY <1>2, <1>3, <1>4 DEF Within, Runs
    <2> QED BY <1>2, <1>3, <1>4, <2>1
  <1>7. /\ h \in Runs /\ h.gross = h3.gross /\ h.remaining = h3.remaining /\ h.hits = h3.hits
        /\ h.favorable = h3.favorable /\ h.adverse = h3.adverse /\ h.stop = h3.stop
        /\ h.state = IF h3.remaining = 0 THEN "TP3" ELSE "open"
    BY <1>4, <1>5 DEF Within, Runs, ClosedStates
  <1>8. Kept(h) /\ Seen(h) /\ Placed(h)
    BY <1>4, <1>7 DEF Within, Kept, Seen, Placed, Sold
  <1>9. h.remaining >= 0 /\ h.remaining \in Int
    BY <1>7, <1>8 DEF Kept, Runs
  <1> QED BY <1>4, <1>6, <1>7, <1>8, <1>9 DEF Within, h

\* The stop of a run in a candle that reaches it is a price the replay saw.
LEMMA StopOutKeeps ==
  ASSUME SetupTypes, NEW c, Candle(c), NEW r, Within(r, c), r.state = "open",
         r.remaining > 0, Replay!StopTouched(c, r.stop)
  PROVE  LET s == Replay!StopOut(r, c) IN
         /\ RunInv(s) /\ s.state = "STOP"
         /\ s.gross = r.gross + Pnl(r.stop) * r.remaining
  <1> DEFINE out == Replay!Exit(r, r.stop, r.remaining)
             s == Replay!StopOut(r, c)
  <1>1. s = [out EXCEPT !.state = "STOP"]
    BY DEF Replay!StopOut
  <1>2. /\ r \in Runs /\ Kept(r) /\ Placed(r) /\ r.stop \in Int /\ r.remaining \in Nat
        /\ Seen(r) /\ r.adverse \in Int /\ r.favorable \in Int
    BY DEF Within, Runs
  <1>3. /\ Pnl(setup.stop) <= Pnl(r.stop) /\ (1 \in r.hits => 0 <= Pnl(r.stop))
        /\ Pnl(r.stop) <= r.favorable
    BY <1>2, LevelsOrdered DEF Placed, HitSets, StopFor, Seen, Positive
  <1>4. -Pnl(r.stop) <= r.adverse
    BY <1>2, ByPnl DEF Within
  <1>5. /\ out \in Runs /\ Kept(out)
        /\ out = [r EXCEPT !.gross = r.gross + Pnl(r.stop) * r.remaining,
                           !.remaining = r.remaining - r.remaining]
    <2>1. r.remaining <= r.remaining
      BY <1>2
    <2> HIDE DEF out
    <2> QED BY <1>2, <1>3, <1>4, <2>1, ExitKeeps DEF out
  <1> HIDE DEF out
  <1>6. /\ s \in Runs /\ s.gross = out.gross /\ s.remaining = out.remaining /\ s.hits = out.hits
        /\ s.favorable = out.favorable /\ s.adverse = out.adverse /\ s.state = "STOP"
    BY <1>1, <1>5 DEF Runs, ClosedStates
  <1>7. /\ out.remaining = 0 /\ out.gross = r.gross + Pnl(r.stop) * r.remaining
        /\ out.hits = r.hits /\ out.favorable = r.favorable /\ out.adverse = r.adverse
    BY <1>2, <1>5 DEF Runs
  <1> HIDE DEF s
  <1>8. Kept(s) /\ Seen(s)
    BY <1>2, <1>5, <1>6, <1>7 DEF Kept, Seen, Sold
  <1> QED BY <1>6, <1>7, <1>8 DEF RunInv, ClosedStates, s

\* An open run, the targets of a candle and then its stop: it stays open only if the candle
\* did not reach the stop, and does not make less than the stop it began with.
LEMMA AfterStopKeeps ==
  ASSUME SetupTypes, NEW c, Candle(c), NEW r, Within(r, c), r.state = "open"
  PROVE  LET a == Replay!AfterStop(r, c) IN
         /\ RunInv(a) /\ a.state \in {"open", "STOP", "TP3"}
         /\ a.state = "open" => ~Replay!StopTouched(c, a.stop) /\ Within(a, c)
         /\ Replay!StopTouched(c, r.stop)
              => a.state # "open" /\ r.gross + Pnl(r.stop) * r.remaining <= a.gross
  <1> DEFINE h == Replay!HitTargets(r, c)
             a == Replay!AfterStop(r, c)
             v == Pnl(r.stop)
  <1>1. a = Replay!StopOut(h, c)
    BY DEF Replay!AfterStop
  <1>2. v \in Int /\ r.stop \in Int
    BY LevelsOrdered DEF Within, Runs
  <1>3. /\ h \in Runs /\ Kept(h) /\ Seen(h)
        /\ Pnl(Best(c)) <= h.favorable /\ -Pnl(Worst(c)) <= h.adverse
        /\ r.gross + v * r.remaining <= h.gross + v * h.remaining
        /\ \/ h.state = "open" /\ Placed(h) /\ h.remaining > 0 /\ v <= Pnl(h.stop)
           \/ h.state = "TP3" /\ h.remaining = 0
    BY <1>2, TargetsKeep
  <1> HIDE DEF h
  <1>4. CASE h.state = "TP3" /\ h.remaining = 0
    <2>1. a = h
      BY <1>1, <1>4 DEF Replay!StopOut
    <2>2. v * h.remaining = 0 /\ h.gross \in Int
      BY <1>2, <1>3, <1>4 DEF Runs
    <2>3. RunInv(h)
      BY <1>3, <1>4 DEF RunInv
    <2> QED BY <1>3, <1>4, <2>1, <2>2, <2>3
  <1>5. CASE /\ h.state = "open" /\ Placed(h) /\ h.remaining > 0 /\ v <= Pnl(h.stop)
             /\ ~Replay!StopTouched(c, h.stop)
    <2>1. a = h
      BY <1>1, <1>5 DEF Replay!StopOut
    <2>2. RunInv(h) /\ Within(h, c)
      BY <1>3, <1>5 DEF RunInv, Within, ClosedStates
    <2>3. ~Replay!StopTouched(c, r.stop)
      <3>1. h.stop \in Int /\ Pnl(h.stop) \in Int
        BY <1>3, LevelsOrdered DEF Runs
      <3> QED BY <1>2, <1>5, <3>1, ByPnl
    <2> QED BY <1>5, <2>1, <2>2, <2>3
  <1>6. CASE /\ h.state = "open" /\ Placed(h) /\ h.remaining > 0 /\ v <= Pnl(h.stop)
             /\ Replay!StopTouched(c, h.stop)
    <2>1. Within(h, c)
      BY <1>3, <1>6 DEF Within
    <2>2. RunInv(a) /\ a.state = "STOP" /\ a.gross = h.gross + Pnl(h.stop) * h.remaining
      BY <1>1, <1>6, <2>1, StopOutKeeps
    <2>3. h.gross + v * h.remaining <= a.gross
      <3>1. h.remaining \in Nat /\ h.gross \in Int /\ Pnl(h.stop) \in Int
        BY <1>3, <1>6, LevelsOrdered DEF Runs
      <3>2. v * h.remaining <= Pnl(h.stop) * h.remaining
        BY <1>2, <1>6, <3>1, TimesMonotone
      <3> QED BY <1>2, <2>2, <3>1, <3>2
    <2>4. r.gross + v * r.remaining <= a.gross
      <3>1. /\ r.gross + v * r.remaining \in Int /\ h.gross + v * h.remaining \in Int
            /\ a.gross \in Int
        BY <1>2, <1>3, <2>2 DEF Within, Runs, RunInv
      <3> QED BY <1>3, <2>3, <3>1
    <2> QED BY <2>2, <2>4
  <1> QED BY <1>3, <1>4, <1>5, <1>6

\* One candle of an open run under both policies: the adverse one makes no more.
LEMMA ReplayedKeeps ==
  ASSUME SetupTypes, NEW c, Candle(c), NEW r, RunInv(r), r.state = "open"
  PROVE  /\ \A p \in Replay!Policies :
              LET a == Replay!Replayed(p, r, c) IN
              /\ RunInv(a) /\ a.state \in {"open", "STOP", "TP3"}
              /\ a.state = "open" => ~Replay!StopTouched(c, a.stop) /\ Within(a, c)
         /\ Paired(Replay!Replayed("ADVERSE_FIRST", r, c), Replay!Replayed("TARGET_FIRST", r, c))
  <1> DEFINE e == Replay!Excursions(r, c)
             a == Replay!Replayed("ADVERSE_FIRST", r, c)
             t == Replay!Replayed("TARGET_FIRST", r, c)
  <1>1. r \in Runs /\ Kept(r) /\ Seen(r) /\ Placed(r) /\ r.remaining > 0
    BY DEF RunInv
  <1>2. Within(e, c) /\ e.state = "open" /\ e.remaining > 0
    BY <1>1, ExcursionsKeep DEF Within, Placed
  <1>3. /\ t = Replay!AfterStop(e, c)
        /\ a = Replay!AfterStop(Replay!StopOut(e, c), c)
    BY DEF Replay!Replayed, Replay!StopsFirst
  <1> HIDE DEF e, a, t
  <1>4. /\ RunInv(t) /\ t.state \in {"open", "STOP", "TP3"}
        /\ t.state = "open" => ~Replay!StopTouched(c, t.stop) /\ Within(t, c)
        /\ Replay!StopTouched(c, e.stop)
             => t.state # "open" /\ e.gross + Pnl(e.stop) * e.remaining <= t.gross
    BY <1>2, <1>3, AfterStopKeeps
  <1>5. CASE ~Replay!StopTouched(c, e.stop)
    <2>1. a = t
      BY <1>3, <1>5 DEF Replay!StopOut
    <2> QED BY <1>4, <2>1 DEF Replay!Policies, Paired, a, t
  <1>6. CASE Replay!StopTouched(c, e.stop)
    <2> DEFINE s == Replay!StopOut(e, c)
    <2>1. /\ RunInv(s) /\ s.state = "STOP"
          /\ s.gross = e.gross + Pnl(e.stop) * e.remaining
      BY <1>2, <1>6, StopOutKeeps
    <2>2. a = s
      BY <1>3, <2>1 DEF Replay!AfterStop
    <2> HIDE DEF s
    <2>3. Paired(a, t)
      BY <1>4, <1>6, <2>1, <2>2 DEF Paired, ClosedStates
    <2> QED BY <1>4, <2>1, <2>2, <2>3 DEF Replay!Policies, a, t
  <1> QED BY <1>5, <1>6

\* One candle of any run: a run that waits enters or waits on, a closed one is left alone.
LEMMA AfterKeeps ==
  ASSUME SetupTypes, NEW c, Candle(c), NEW r, RunInv(r)
  PROVE  /\ \A p \in Replay!Policies :
              LET a == Replay!After(p, r, c) IN
              /\ RunInv(a)
              /\ a.state = "open" => ~Replay!StopTouched(c, a.stop) /\ Within(a, c)
              /\ r.state \in ClosedStates => a = r
         /\ Paired(Replay!After("ADVERSE_FIRST", r, c), Replay!After("TARGET_FIRST", r, c))
  <1>1. CASE r.state = "open"
    <2>1. \A p : Replay!After(p, r, c) = Replay!Replayed(p, r, c)
      BY <1>1 DEF Replay!After
    <2> QED BY <1>1, <2>1, ReplayedKeeps DEF ClosedStates
  <1>2. CASE r.state = "waiting" /\ Replay!Enters(c)
    <2> DEFINE o == [r EXCEPT !.state = "open"]
    <2>1. \A p : Replay!After(p, r, c) = Replay!Replayed(p, o, c)
      BY <1>2 DEF Replay!After
    <2>2. RunInv(o) /\ o.state = "open"
      BY <1>2 DEF RunInv, Runs, Kept, Seen, Sold, Placed, ClosedStates
    <2> HIDE DEF o
    <2> QED BY <1>2, <2>1, <2>2, ReplayedKeeps DEF ClosedStates
  <1>3. CASE r.state # "open" /\ ~(r.state = "waiting" /\ Replay!Enters(c))
    <2>1. \A p : Replay!After(p, r, c) = r
      BY <1>3 DEF Replay!After
    <2> QED BY <1>3, <2>1 DEF Paired
  <1> QED BY <1>1, <1>2, <1>3

\* After the last candle what remains of an open run is closed at its close.
LEMMA EndKeeps ==
  ASSUME SetupTypes, NEW c, Candle(c), NEW r, RunInv(r), r.state = "open",
         ~Replay!StopTouched(c, r.stop), Within(r, c)
  PROVE  LET e == [Replay!Exit(r, c.close, r.remaining) EXCEPT !.state = "END_OF_DATA"] IN
         RunInv(e) /\ e.state = "END_OF_DATA"
  <1> DEFINE out == Replay!Exit(r, c.close, r.remaining)
             e == [out EXCEPT !.state = "END_OF_DATA"]
  <1>1. /\ r \in Runs /\ Kept(r) /\ Seen(r) /\ Placed(r) /\ r.stop \in Int
        /\ r.remaining \in Nat /\ r.remaining <= r.remaining
        /\ r.favorable \in Int /\ r.adverse \in Int
    BY DEF Within, Runs, Kept
  <1>2. /\ c.close \in Int /\ Pnl(c.close) \in Int /\ Pnl(r.stop) < Pnl(c.close)
        /\ Pnl(c.close) <= r.favorable /\ -Pnl(c.close) <= r.adverse
    BY <1>1, ByPnl DEF Within
  <1>3. /\ Pnl(setup.stop) <= Pnl(r.stop) /\ (1 \in r.hits => 0 <= Pnl(r.stop))
        /\ Pnl(setup.stop) \in Int /\ Pnl(r.stop) \in Int
    BY <1>1, LevelsOrdered DEF Placed, HitSets, StopFor, Positive
  <1>4. /\ out \in Runs /\ Kept(out)
        /\ out = [r EXCEPT !.gross = r.gross + Pnl(c.close) * r.remaining,
                           !.remaining = r.remaining - r.remaining]
    <2>1. Pnl(setup.stop) <= Pnl(c.close) /\ (1 \in r.hits => 0 <= Pnl(c.close))
      BY <1>2, <1>3
    <2> HIDE DEF out
    <2> QED BY <1>1, <1>2, <2>1, ExitKeeps DEF out
  <1> HIDE DEF out
  <1>5. /\ e \in Runs /\ e.gross = out.gross /\ e.remaining = out.remaining /\ e.hits = out.hits
        /\ e.favorable = out.favorable /\ e.adverse = out.adverse /\ e.state = "END_OF_DATA"
    BY <1>4 DEF Runs, ClosedStates
  <1>6. /\ out.remaining = 0 /\ out.hits = r.hits /\ out.favorable = r.favorable
        /\ out.adverse = r.adverse
    BY <1>1, <1>4 DEF Runs
  <1> HIDE DEF e
  <1>7. Kept(e) /\ Seen(e)
    BY <1>1, <1>4, <1>5, <1>6 DEF Kept, Seen, Sold
  <1> QED BY <1>5, <1>6, <1>7 DEF RunInv, ClosedStates, e, out

\* Init establishes the invariant.
LEMMA ReplayInit == InitAll => ReplayInv
  <1> SUFFICES ASSUME InitAll, part = "replay" PROVE ReplayInv
    BY DEF ReplayInv
  <1>1. Replay!Init
    BY DEF InitAll
  <1>2. SetupTypes
    BY <1>1, ReplayAssumption DEF Replay!Init, SetupTypes, ReplayAssumption
  <1> DEFINE r == Replay!Untouched(setup)
  <1>3. /\ r \in Runs /\ r.state = "waiting" /\ r.remaining = Replay!Whole(setup)
        /\ r.stop = setup.stop /\ r.hits = {} /\ r.gross = 0 /\ r.favorable = 0 /\ r.adverse = 0
        /\ Replay!Whole(setup) \in Int /\ Replay!Whole(setup) > 0
        /\ Replay!Whole(setup) = LeftAfter({}) /\ Pnl(setup.stop) \in Int
    BY <1>2, LevelsOrdered DEF Replay!Untouched, Runs, Replay!Whole, LeftAfter, Positive
  <1>4. \A p \in Replay!Policies : run[p] = r
    BY <1>1 DEF Replay!Init
  <1>5. run \in [Replay!Policies -> Runs]
    BY <1>1, <1>3 DEF Replay!Init
  <1> HIDE DEF r
  <1>6. RunInv(r)
    <2>1. Sold(r) = 0
      BY <1>3 DEF Sold
    <2>2. 0 * Sold(r) = 0 /\ Pnl(setup.stop) * Sold(r) = 0
      BY <1>3, <2>1
    <2>3. Kept(r)
      BY <1>3, <2>2 DEF Kept
    <2>4. Placed(r) /\ Seen(r)
      BY <1>3 DEF Placed, Seen, HitSets, StopFor
    <2> QED BY <1>3, <2>3, <2>4 DEF RunInv, ClosedStates
  <1> QED BY <1>2, <1>4, <1>5, <1>6 DEF ReplayInv, Paired, Replay!Policies

\* A candle, the last one or not, keeps it.
LEMMA ReplayKeeps ==
  ASSUME ReplayInv, ReplayStep PROVE ReplayInv'
  <1>1. /\ part = "replay" /\ part' = "replay" /\ SetupTypes /\ setup' = setup
        /\ run \in [Replay!Policies -> Runs]
        /\ \A p \in Replay!Policies : RunInv(run[p])
        /\ Paired(run["ADVERSE_FIRST"], run["TARGET_FIRST"])
    BY DEF ReplayInv, ReplayStep, Replay!Next, Replay!Series, Replay!EndOfData
  <1>2. PICK c \in Candles : Candle(c) /\ (Replay!Series(c) \/ Replay!EndOfData(c))
    BY DEF ReplayStep, Replay!Next, Candle
  <1> DEFINE after(p) == Replay!After(p, run[p], c)
             a == after("ADVERSE_FIRST")
             t == after("TARGET_FIRST")
             Ended(r) == IF r.state = "open"
                         THEN [Replay!Exit(r, c.close, r.remaining) EXCEPT !.state = "END_OF_DATA"]
                         ELSE r
  <1>3. /\ RunInv(a) /\ RunInv(t)
        /\ a.state = "open" => ~Replay!StopTouched(c, a.stop) /\ Within(a, c)
        /\ t.state = "open" => ~Replay!StopTouched(c, t.stop) /\ Within(t, c)
        /\ run["ADVERSE_FIRST"].state \in ClosedStates => a = run["ADVERSE_FIRST"]
        /\ run["TARGET_FIRST"].state \in ClosedStates => t = run["TARGET_FIRST"]
    BY <1>1, <1>2, AfterKeeps DEF Replay!Policies
  <1>4. Paired(a, t)
    <2>1. CASE run["ADVERSE_FIRST"] = run["TARGET_FIRST"]
      <3>1. RunInv(run["ADVERSE_FIRST"])
        BY <1>1 DEF Replay!Policies
      <3> QED BY <1>1, <1>2, <2>1, <3>1, AfterKeeps
    <2>2. CASE run["ADVERSE_FIRST"] # run["TARGET_FIRST"]
      BY <1>1, <1>3, <2>2 DEF Paired
    <2> QED BY <2>1, <2>2
  <1>5. CASE Replay!Series(c)
    <2>1. run' = [p \in Replay!Policies |-> after(p)]
      BY <1>5 DEF Replay!Series
    <2>2. run'["ADVERSE_FIRST"] = a /\ run'["TARGET_FIRST"] = t
      BY <2>1 DEF Replay!Policies
    <2> HIDE DEF a, t, after
    <2>3. run' \in [Replay!Policies -> Runs]
      BY <1>3, <2>1, <2>2 DEF Replay!Policies, RunInv
    <2>4. SetupTypes'
      BY <1>1 DEF SetupTypes, Replay!ValidSetup, Replay!Stricter
    <2>5. \A r : RunInv(r)' <=> RunInv(r)
      BY <1>1 DEF RunInv, Kept, Seen, Placed, Sold, Pnl, Replay!PnlPerUnit, Replay!Long,
        Replay!Whole, LeftAfter, StopFor
    <2> QED BY <1>1, <1>3, <1>4, <2>2, <2>3, <2>4, <2>5 DEF ReplayInv, Replay!Policies, Paired
  <1>6. CASE Replay!EndOfData(c)
    <2>1. run' = [p \in Replay!Policies |-> Ended(after(p))]
      BY <1>6 DEF Replay!EndOfData
    <2>2. run'["ADVERSE_FIRST"] = Ended(a) /\ run'["TARGET_FIRST"] = Ended(t)
      BY <2>1 DEF Replay!Policies
    <2> HIDE DEF a, t, after
    <2>3. RunInv(Ended(a)) /\ RunInv(Ended(t))
      BY <1>1, <1>2, <1>3, EndKeeps
    <2>4. Paired(Ended(a), Ended(t))
      BY <1>4 DEF Paired, ClosedStates
    <2> HIDE DEF Ended
    <2>5. run' \in [Replay!Policies -> Runs]
      BY <2>1, <2>2, <2>3 DEF Replay!Policies, RunInv
    <2>6. SetupTypes'
      BY <1>1 DEF SetupTypes, Replay!ValidSetup, Replay!Stricter
    <2>7. \A r : RunInv(r)' <=> RunInv(r)
      BY <1>1 DEF RunInv, Kept, Seen, Placed, Sold, Pnl, Replay!PnlPerUnit, Replay!Long,
        Replay!Whole, LeftAfter, StopFor
    <2> QED BY <1>1, <2>2, <2>3, <2>4, <2>5, <2>6, <2>7 DEF ReplayInv, Replay!Policies, Paired
  <1> QED BY <1>2, <1>5, <1>6

\* Every step keeps it.
LEMMA ReplaySteps == ReplayInv /\ [NextAll]_allVars => ReplayInv'
  <1> SUFFICES ASSUME ReplayInv, [NextAll]_allVars, part' = "replay" PROVE ReplayInv'
    BY DEF ReplayInv
  <1>1. CASE ReplayStep
    BY <1>1, ReplayKeeps
  <1>2. CASE UNCHANGED <<part, replayVars>>
    BY <1>2
    DEF replayVars, ReplayInv, SetupTypes, Replay!ValidSetup, RunInv, Kept, Seen, Placed, Sold,
        Pnl, Replay!PnlPerUnit, Replay!Long, Replay!Whole, LeftAfter, StopFor, Paired
  <1> QED
    BY <1>1, <1>2
    DEF NextAll, SignalsStep, ScanStep, AnalysisStep, RestStep, HotStep, SafetyStep, allVars

\* For all setups and candles: the conservative policy never makes more of a series than the
\* optimistic one.
THEOREM AdversePolicyIsNoBetter == SpecAll => []AdverseIsNoBetter
  <1>1. ReplayInv => AdverseIsNoBetter
    <2> SUFFICES ASSUME ReplayInv, part = "replay",
                        Replay!Closed("ADVERSE_FIRST"), Replay!Closed("TARGET_FIRST")
                 PROVE  run["ADVERSE_FIRST"].gross <= run["TARGET_FIRST"].gross
      BY DEF AdverseIsNoBetter, Replay!AdverseIsNoBetter
    <2>1. \A p \in Replay!Policies : run[p].gross \in Int
      BY DEF ReplayInv, Runs
    <2> QED BY <2>1 DEF ReplayInv, Paired, Replay!Policies
  <1> QED BY <1>1, ReplayInit, ReplaySteps, PTL DEF SpecAll

\* For all setups and candles: a result keeps to the best and the worst price the replay saw
\* and to the risk, and a replay that hit its first target ends in profit.
THEOREM ResultsAreWithinExcursions == SpecAll => []ResultWithinExcursions
  <1>1. ReplayInv => ResultWithinExcursions
    <2> SUFFICES ASSUME ReplayInv, part = "replay", NEW p \in Replay!Policies, Replay!Closed(p)
                 PROVE  /\ run[p].gross <= run[p].favorable * Replay!Whole(setup)
                        /\ -run[p].gross <= run[p].adverse * Replay!Whole(setup)
                        /\ Replay!PnlPerUnit(setup.stop) * Replay!Whole(setup) <= run[p].gross
                        /\ 1 \in run[p].hits => run[p].gross > 0
      BY DEF ResultWithinExcursions, Replay!ResultWithinExcursions
    <2>1. RunInv(run[p]) /\ run[p].remaining = 0 /\ SetupTypes
      BY DEF ReplayInv, RunInv, Replay!Closed, ClosedStates
    <2>2. Replay!Whole(setup) \in Int
      BY <2>1 DEF SetupTypes, Replay!Whole
    <2>3. Sold(run[p]) = Replay!Whole(setup)
      BY <2>1, <2>2 DEF Sold
    <2> QED BY <2>1, <2>3 DEF RunInv, Kept, Pnl
  <1> QED BY <1>1, ReplayInit, ReplaySteps, PTL DEF SpecAll

-----------------------------------------------------------------------------
(* The scan.  A contract that waits has others before it in the queue of   *)
(* the rotation lane; each scan takes as many of them away as the lane has *)
(* slots for contracts with candles, and nothing goes in before it.        *)

Before(rank, d, c) == rank[d] < rank[c] \/ (rank[d] = rank[c] /\ d < c)
Ranks == [Contracts -> Nat]
Able == Contracts \ short
Ahead(c) == {d \in Able : Before(last, d, c)}
FreeSlots == Scan!RotationSlots - Cardinality(short)

ScanInv ==
  part = "scan" =>
    /\ last \in Ranks /\ waited \in [Contracts -> Nat]
    /\ short \subseteq Contracts
    /\ Cardinality(short) < Scan!RotationSlots =>
         \A c \in Able : FreeSlots * waited[c] + Cardinality(Ahead(c)) <= Cardinality(Able) - 1

\* MarketScan counts as this module does.
LEMMA SameCount == \A S : Scan!Cardinality(S) = Cardinality(S)
  BY Zenon DEF Scan!Cardinality, Cardinality, Scan!IsFiniteSet, IsFiniteSet

\* A set of natural numbers has a least one.
LEMMA LeastNatural ==
  ASSUME NEW T, T \subseteq Nat, T # {}
  PROVE  \E d \in T : \A e \in T : d <= e
  <1>1. PICK d \in T : \A e \in T : ~ (<<e, d>> \in OpToRel(<, Nat))
    BY WFMin, NatLessThanWellFounded
  <1>2. \A e \in T : d <= e
    <2> TAKE e \in T
    <2>1. e \in Nat /\ d \in Nat
      OBVIOUS
    <2>2. e < d => <<e, d>> \in OpToRel(<, Nat)
      BY ONLY <2>1, Zenon DEF OpToRel
    <2>3. ~ (e < d)
      BY <1>1, <2>2, Zenon
    <2> QED BY <2>1, <2>3
  <1> QED BY <1>2

\* The queue is a strict order of all contracts.
LEMMA QueueOrder ==
  ASSUME NEW rank \in Ranks, NEW c \in Contracts, NEW d \in Contracts, NEW e \in Contracts
  PROVE  /\ ~Before(rank, c, c)
         /\ Before(rank, c, d) /\ Before(rank, d, e) => Before(rank, c, e)
         /\ Before(rank, c, d) \/ Before(rank, d, c) \/ c = d
  BY MarketAssumption DEF MarketAssumption, Ranks, Before

\* Any contracts have a first one.
LEMMA QueueHasFirst ==
  ASSUME NEW rank \in Ranks, NEW S, S \subseteq Contracts, S # {}
  PROVE  \E m \in S : \A d \in S : ~Before(rank, d, m)
  <1> DEFINE D == {rank[c] : c \in S}
  <1>1. \A c \in S : c \in Nat /\ rank[c] \in Nat
    BY MarketAssumption DEF MarketAssumption, Ranks
  <1>2. D \subseteq Nat /\ D # {}
    BY <1>1
  <1>3. PICK l \in D : \A e \in D : l <= e
    <2> HIDE DEF D
    <2> QED BY <1>2, LeastNatural
  <1> DEFINE E == {c \in S : rank[c] = l}
  <1>4. E \subseteq Nat /\ E # {}
    BY <1>1, <1>3
  <1>5. PICK m \in E : \A e \in E : m <= e
    <2> HIDE DEF E
    <2> QED BY <1>4, LeastNatural
  <1>6. \A d \in S : ~Before(rank, d, m)
    <2> TAKE d \in S
    <2>1. l <= rank[d] /\ rank[m] = l /\ (rank[d] = l => m <= d)
      BY <1>3, <1>5
    <2> QED BY <1>1, <1>2, <1>3, <1>5, <2>1 DEF Before
  <1> QED BY <1>5, <1>6

\* Sets of contracts are finite.
LEMMA ContractsFinite ==
  ASSUME NEW S, S \subseteq Contracts
  PROVE  IsFiniteSet(S) /\ Cardinality(S) \in Nat /\ Cardinality(S) <= Cardinality(Contracts)
  BY MarketAssumption, FS_Subset, FS_CardinalityType DEF MarketAssumption

\* Those with fewer than k of a set before them are k, if it has so many.
LEMMA FirstOnes ==
  ASSUME NEW rank \in Ranks, NEW B, B \subseteq Contracts, NEW k \in Nat, k <= Cardinality(B)
  PROVE  k <= Cardinality({x \in B : Cardinality({d \in B : Before(rank, d, x)}) < k})
  <1> DEFINE F == {x \in B : Cardinality({d \in B : Before(rank, d, x)}) < k}
  <1>1. F \subseteq B /\ F \subseteq Contracts
    OBVIOUS
  <1>2. CASE B \ F = {}
    <2>1. F = B
      BY <1>1, <1>2
    <2> HIDE DEF F
    <2> QED BY <2>1 DEF F
  <1>3. CASE B \ F # {}
    <2>1. B \ F \subseteq Contracts
      OBVIOUS
    <2>2. PICK x \in B \ F : \A d \in B \ F : ~Before(rank, d, x)
      <3> HIDE DEF F
      <3> QED BY <1>3, <2>1, QueueHasFirst
    <2> DEFINE P == {d \in B : Before(rank, d, x)}
    <2>3. ~(Cardinality(P) < k)
      BY <2>2
    <2> HIDE DEF F
    <2>4. P \subseteq F
      BY <2>2
    <2> HIDE DEF P
    <2>5. Cardinality(P) <= Cardinality(F) /\ Cardinality(P) \in Nat /\ Cardinality(F) \in Nat
      BY <1>1, <2>4, ContractsFinite, FS_Subset
    <2> QED BY <2>3, <2>5 DEF F
  <1> QED BY <1>2, <1>3

\* A contract that is left over by the rotation lane has the whole lane before it.
LEMMA LaneIsAhead ==
  ASSUME last \in Ranks, NEW priority, NEW c \in Contracts, c \notin priority,
         c \notin Scan!Fair(priority)
  PROVE  Scan!RotationSlots <= Cardinality({d \in Scan!Fair(priority) : Before(last, d, c)})
  <1> DEFINE rest == Contracts \ priority
             B == {d \in rest : Before(last, d, c)}
             R == Scan!RotationSlots
             F == {x \in B : Cardinality({d \in B : Before(last, d, x)}) < R}
             G == {d \in Scan!Fair(priority) : Before(last, d, c)}
  <1>1. R \in Nat
    BY MarketAssumption DEF MarketAssumption, Scan!RotationSlots, Scan!Least
  <1>2. Scan!Fair(priority) =
          {x \in rest : Cardinality({d \in rest : Before(last, d, x)}) < R}
    BY SameCount, Zenon DEF Scan!Fair, Scan!LongerUnscanned, Before
  <1> HIDE DEF R
  <1>3. Cardinality(B) \in Nat /\ B \subseteq Contracts
    BY ContractsFinite
  <1>4. R <= Cardinality(B)
    BY <1>1, <1>2, <1>3
  <1>5. \A x \in B : {d \in B : Before(last, d, x)} = {d \in rest : Before(last, d, x)}
    BY QueueOrder
  <1>6. F \subseteq G
    BY <1>2, <1>5
  <1>7. R <= Cardinality(F)
    <2> HIDE DEF B
    <2> QED BY <1>1, <1>3, <1>4, FirstOnes
  <1>8. G \subseteq Contracts /\ F \subseteq Contracts
    BY <1>2
  <1> HIDE DEF F, G
  <1>9. Cardinality(F) <= Cardinality(G) /\ Cardinality(F) \in Nat /\ Cardinality(G) \in Nat
    BY <1>6, <1>8, ContractsFinite, FS_Subset
  <1> QED BY <1>1, <1>7, <1>9 DEF G, R

\* The stamps of a scan put the contracts just analysed last and keep the order of the others.
LEMMA RestampOrder ==
  ASSUME last \in Ranks, NEW done
  PROVE  LET new == Scan!Restamp(done) IN
         /\ new \in Ranks
         /\ \A c \in Contracts \ done, d \in Contracts :
              Before(new, d, c) => d \notin done /\ Before(last, d, c)
  <1> DEFINE new == Scan!Restamp(done)
             stamps == {last[c] : c \in Contracts \ done}
             others == stamps \ {0}
             upTo(c) == {r \in others : r <= last[c]}
  <1>1. \A c \in Contracts : last[c] \in Nat /\ c \in Nat
    BY MarketAssumption DEF MarketAssumption, Ranks
  <1>2. IsFiniteSet(others) /\ others \subseteq Nat
    <2> DEFINE f == [c \in Contracts \ done |-> last[c]]
    <2>1. f \in Surjection(Contracts \ done, stamps)
      BY DEF Surjection
    <2>2. IsFiniteSet(Contracts \ done)
      BY ContractsFinite
    <2> HIDE DEF f
    <2>3. IsFiniteSet(stamps)
      <3> HIDE DEF stamps
      <3> QED BY <2>1, <2>2, FS_Surjection
    <2>4. IsFiniteSet(stamps \ {0})
      <3> HIDE DEF stamps
      <3> QED BY <2>3, FS_Difference
    <2> QED BY <1>1, <2>4
  <1>3. new = [c \in Contracts |-> IF c \in done THEN Cardinality(others) + 1
                                   ELSE Cardinality(upTo(c))]
    BY SameCount, Zenon DEF Scan!Restamp
  <1>4. \A c \in Contracts \ done : last[c] > 0 => last[c] \in others
    BY <1>1
  <1> HIDE DEF others, new
  <1>5. /\ Cardinality(others) \in Nat
        /\ \A c \in Contracts : Cardinality(upTo(c)) \in Nat
                                /\ Cardinality(upTo(c)) <= Cardinality(others)
                                /\ IsFiniteSet(upTo(c))
    <2>1. Cardinality(others) \in Nat
      BY <1>2, FS_CardinalityType
    <2>2. ASSUME NEW c \in Contracts
          PROVE  Cardinality(upTo(c)) \in Nat /\ Cardinality(upTo(c)) <= Cardinality(others)
                 /\ IsFiniteSet(upTo(c))
      <3>1. upTo(c) \in SUBSET others
        OBVIOUS
      <3> HIDE DEF upTo
      <3> QED BY <1>2, <3>1, FS_Subset, FS_CardinalityType
    <2> QED BY <2>1, <2>2
  <1> HIDE DEF upTo
  <1>6. new \in Ranks
    BY <1>3, <1>5 DEF Ranks
  <1>7. ASSUME NEW c \in Contracts \ done, NEW d \in Contracts, Before(new, d, c)
        PROVE  d \notin done /\ Before(last, d, c)
    <2>1. d \notin done
      <3>1. d \in done => new[c] < new[d]
        BY <1>3, <1>5
      <3> QED BY <1>6, <1>7, <3>1 DEF Before, Ranks
    <2>2. new[c] = Cardinality(upTo(c)) /\ new[d] = Cardinality(upTo(d))
      BY <1>3, <2>1
    <2>3. CASE last[c] < last[d]
      <3>1. upTo(c) \in SUBSET upTo(d) /\ last[d] \in upTo(d) /\ last[d] \notin upTo(c)
        <4>1. \A r \in others : r \in Nat
          BY <1>2
        <4>2. last[d] \in others
          BY <1>1, <1>4, <2>1, <2>3
        <4>3. upTo(c) \in SUBSET upTo(d)
          BY <1>1, <2>3, <4>1 DEF upTo
        <4> QED BY <1>1, <2>3, <4>2, <4>3 DEF upTo
      <3>2. Cardinality(upTo(c)) <= Cardinality(upTo(d))
            /\ (Cardinality(upTo(d)) = Cardinality(upTo(c)) => upTo(d) = upTo(c))
        BY <1>5, <3>1, FS_Subset
      <3>3. new[c] < new[d]
        BY <1>5, <2>2, <3>1, <3>2
      <3> QED BY <1>6, <1>7, <3>3 DEF Before, Ranks
    <2>4. CASE last[c] = last[d]
      <3>1. new[c] = new[d]
        BY <2>2, <2>4 DEF upTo
      <3> QED BY <1>6, <1>7, <2>1, <2>4, <3>1 DEF Before, Ranks
    <2>5. CASE last[d] < last[c]
      BY <2>1, <2>5 DEF Before
    <2> QED BY <1>1, <2>3, <2>4, <2>5
  <1> QED BY <1>6, <1>7 DEF new

\* The lane has slots to spare as long as too few contracts are short of candles to fill it.
LEMMA SlotsToSpare ==
  ASSUME short \subseteq Contracts, Cardinality(short) < Scan!RotationSlots
  PROVE  Scan!RotationSlots \in Nat /\ Cardinality(short) \in Nat /\ FreeSlots \in Nat \ {0}
  <1>1. Scan!RotationSlots \in Nat
    BY MarketAssumption DEF MarketAssumption, Scan!RotationSlots, Scan!Least
  <1>2. Cardinality(short) \in Nat
    BY ContractsFinite
  <1> QED BY <1>1, <1>2 DEF FreeSlots

\* A contract that a scan leaves over has come nearer by the spare slots.
LEMMA QueueAdvances ==
  ASSUME last \in Ranks, short \subseteq Contracts, Cardinality(short) < Scan!RotationSlots,
         NEW priority, NEW selected, priority \cup Scan!Fair(priority) \subseteq selected,
         NEW c \in Able, c \notin selected
  PROVE  LET new == Scan!Restamp(selected \ short) IN
         FreeSlots + Cardinality({d \in Able : Before(new, d, c)}) <= Cardinality(Ahead(c))
  <1> DEFINE done == selected \ short
             new == Scan!Restamp(done)
             G == {d \in Scan!Fair(priority) : Before(last, d, c)}
             H == G \ short
             A == {d \in Able : Before(new, d, c)}
  <1>1. c \in Contracts \ done /\ c \notin priority /\ c \notin Scan!Fair(priority)
    BY DEF Able
  <1>2. Scan!RotationSlots <= Cardinality(G)
    BY <1>1, LaneIsAhead
  <1>3. \A d \in Contracts : Before(new, d, c) => d \notin done /\ Before(last, d, c)
    BY <1>1, RestampOrder
  <1>4. Scan!Fair(priority) \subseteq Contracts
    BY Zenon DEF Scan!Fair
  <1>5. G \subseteq Contracts /\ H \subseteq Ahead(c) /\ H \subseteq done
    BY <1>4 DEF Able, Ahead
  <1>6. A \subseteq Ahead(c) \ H
    BY <1>3, <1>5 DEF Able, Ahead
  <1> HIDE DEF G, A, H
  <1>7. FreeSlots <= Cardinality(H) /\ Cardinality(H) \in Nat
    <2>1. IsFiniteSet(G) /\ Cardinality(G) \in Nat
      BY <1>5, ContractsFinite
    <2>2. Cardinality(H) = Cardinality(G) - Cardinality(G \cap short)
      BY <2>1, FS_Difference DEF H
    <2>3. IsFiniteSet(short)
      BY ContractsFinite
    <2>4. G \cap short \in SUBSET short
      OBVIOUS
    <2>5. Cardinality(G \cap short) <= Cardinality(short) /\ IsFiniteSet(G \cap short)
      BY <2>3, <2>4, FS_Subset
    <2>6. Cardinality(G \cap short) \in Nat
      BY <2>5, FS_CardinalityType
    <2>7. IsFiniteSet(H)
      BY <2>1, FS_Difference DEF H
    <2>8. Cardinality(H) \in Nat
      BY <2>7, FS_CardinalityType
    <2> QED BY <1>2, <2>1, <2>2, <2>5, <2>6, <2>8, SlotsToSpare DEF FreeSlots
  <1>8. Cardinality(A) + Cardinality(H) <= Cardinality(Ahead(c))
    <2>1. Ahead(c) \subseteq Contracts /\ Ahead(c) \ H \subseteq Contracts
      BY DEF Ahead, Able
    <2>2. IsFiniteSet(Ahead(c)) /\ Cardinality(Ahead(c)) \in Nat /\ IsFiniteSet(Ahead(c) \ H)
      BY <2>1, ContractsFinite
    <2>3. Cardinality(Ahead(c) \ H) = Cardinality(Ahead(c)) - Cardinality(Ahead(c) \cap H)
      BY <2>2, FS_Difference
    <2>4. Ahead(c) \cap H = H
      BY <1>5
    <2>5. Cardinality(A) <= Cardinality(Ahead(c) \ H)
      BY <1>6, <2>2, FS_Subset
    <2>6. A \subseteq Contracts
      BY <1>6, <2>1
    <2>7. Cardinality(A) \in Nat /\ Cardinality(Ahead(c) \ H) \in Nat
      BY <2>1, <2>6, ContractsFinite
    <2> QED BY <1>7, <2>2, <2>3, <2>4, <2>5, <2>7
  <1>9. Cardinality(A) \in Nat /\ Cardinality(Ahead(c)) \in Nat
    <2>1. A \subseteq Contracts /\ Ahead(c) \subseteq Contracts
      BY <1>6 DEF Ahead, Able
    <2> QED BY <2>1, ContractsFinite
  <1> QED BY <1>7, <1>8, <1>9, SlotsToSpare DEF A

\* Whoever waits, at most all the others are before it.
LEMMA OthersAhead ==
  ASSUME short \subseteq Contracts, NEW rank \in Ranks, NEW c \in Able
  PROVE  Cardinality({d \in Able : Before(rank, d, c)}) <= Cardinality(Able) - 1
  <1> DEFINE A == {d \in Able : Before(rank, d, c)}
  <1>1. A \subseteq Able \ {c} /\ Able \subseteq Contracts
    BY QueueOrder DEF Able
  <1>2. IsFiniteSet(Able) /\ Cardinality(Able) \in Nat
    BY <1>1, ContractsFinite
  <1>3. Cardinality(Able \ {c}) = Cardinality(Able) - 1 /\ IsFiniteSet(Able \ {c})
    BY <1>2, FS_RemoveElement
  <1> HIDE DEF A
  <1>4. Cardinality(A) <= Cardinality(Able \ {c})
    BY <1>1, <1>3, FS_Subset
  <1> QED BY <1>3, <1>4 DEF A

\* Init establishes the invariant.
LEMMA ScanInit == InitAll => ScanInv
  <1> SUFFICES ASSUME InitAll, part = "scan" PROVE ScanInv
    BY DEF ScanInv
  <1>1. Scan!Init
    BY DEF InitAll
  <1>2. short \subseteq Contracts /\ last \in Ranks /\ waited \in [Contracts -> Nat]
    BY <1>1, MarketAssumption DEF Scan!Init, MarketAssumption, Ranks
  <1>3. ASSUME NEW c \in Able, Cardinality(short) < Scan!RotationSlots
        PROVE  FreeSlots * waited[c] + Cardinality(Ahead(c)) <= Cardinality(Able) - 1
    <2>1. Cardinality(Ahead(c)) <= Cardinality(Able) - 1
      BY <1>2, OthersAhead DEF Ahead
    <2>2. waited[c] = 0
      BY <1>1 DEF Scan!Init, Able
    <2>3. FreeSlots * waited[c] = 0
      BY <1>2, <1>3, <2>2, SlotsToSpare
    <2>4. Able \subseteq Contracts /\ Ahead(c) \subseteq Contracts
      BY DEF Able, Ahead
    <2>5. Cardinality(Able) \in Nat /\ Cardinality(Ahead(c)) \in Nat
      BY <2>4, ContractsFinite
    <2> QED BY <2>1, <2>3, <2>5
  <1> QED BY <1>2, <1>3 DEF ScanInv

\* What a scan does to the stamps and to the waits.
LEMMA ScanDoes ==
  ASSUME Scan!Scan
  PROVE  \E priority, selected :
           /\ priority \cup Scan!Fair(priority) \subseteq selected
           /\ last' = Scan!Restamp(selected \ short)
           /\ waited' = [c \in Contracts |->
                           IF c \in selected \ short \/ c \in short THEN 0
                           ELSE Scan!Least(waited[c] + 1, Scan!Cardinality(Contracts))]
           /\ short' = short
  <1>1. PICK byVolume \in Rankings, byMove \in Rankings :
          \E priority \in {Scan!Priority(byVolume, byMove)} :
          \E selected \in {Scan!Filled(priority \cup Scan!Fair(priority), byVolume)} :
          \E done \in {Scan!Stamped(selected)} :
            /\ last' = Scan!Restamp(done)
            /\ waited' = [c \in Contracts |->
                           IF c \in done \/ c \in short THEN 0
                           ELSE Scan!Least(waited[c] + 1, Scan!Cardinality(Contracts))]
            /\ UNCHANGED <<trading, short>>
    BY Zenon DEF Scan!Scan
  <1>2. PICK priority :
          \E selected \in {Scan!Filled(priority \cup Scan!Fair(priority), byVolume)} :
          \E done \in {Scan!Stamped(selected)} :
            /\ last' = Scan!Restamp(done)
            /\ waited' = [c \in Contracts |->
                           IF c \in done \/ c \in short THEN 0
                           ELSE Scan!Least(waited[c] + 1, Scan!Cardinality(Contracts))]
            /\ UNCHANGED <<trading, short>>
    BY <1>1, Zenon
  <1>3. PICK selected \in {Scan!Filled(priority \cup Scan!Fair(priority), byVolume)} :
          \E done \in {Scan!Stamped(selected)} :
            /\ last' = Scan!Restamp(done)
            /\ waited' = [c \in Contracts |->
                           IF c \in done \/ c \in short THEN 0
                           ELSE Scan!Least(waited[c] + 1, Scan!Cardinality(Contracts))]
            /\ UNCHANGED <<trading, short>>
    BY <1>2, Zenon
  <1>4. PICK done \in {Scan!Stamped(selected)} :
            /\ last' = Scan!Restamp(done)
            /\ waited' = [c \in Contracts |->
                           IF c \in done \/ c \in short THEN 0
                           ELSE Scan!Least(waited[c] + 1, Scan!Cardinality(Contracts))]
            /\ UNCHANGED <<trading, short>>
    BY <1>3, Zenon
  <1>5. priority \cup Scan!Fair(priority) \subseteq selected
    BY <1>3, Zenon DEF Scan!Filled, Scan!Extend
  <1>6. done = selected \ short
    BY <1>4, Zenon DEF Scan!Stamped
  <1>7. short' = short
    BY <1>4
  <1> QED BY <1>4, <1>5, <1>6, <1>7, Zenon

\* A scan keeps it: who is analysed starts to wait anew with at most all the others before
\* it, and who is left over is nearer by the spare slots.
LEMMA ScanKeeps ==
  ASSUME ScanInv, part = "scan", part' = "scan", Scan!Scan PROVE ScanInv'
  <1>1. last \in Ranks /\ waited \in [Contracts -> Nat] /\ short \subseteq Contracts
    BY DEF ScanInv
  <1>2. PICK priority, selected :
           /\ priority \cup Scan!Fair(priority) \subseteq selected
           /\ last' = Scan!Restamp(selected \ short)
           /\ waited' = [c \in Contracts |->
                           IF c \in selected \ short \/ c \in short THEN 0
                           ELSE Scan!Least(waited[c] + 1, Scan!Cardinality(Contracts))]
           /\ short' = short
    BY ScanDoes
  <1>3. last' \in Ranks
    BY <1>1, <1>2, RestampOrder
  <1>4. Cardinality(Contracts) \in Nat /\ Scan!Cardinality(Contracts) = Cardinality(Contracts)
    BY ContractsFinite, SameCount
  <1>5. waited' \in [Contracts -> Nat]
    <2>1. \A c \in Contracts : waited[c] \in Nat
      BY <1>1
    <2> QED BY <1>2, <1>4, <2>1 DEF Scan!Least
  <1>6. Able' = Able /\ FreeSlots' = FreeSlots /\ Scan!RotationSlots' = Scan!RotationSlots
    BY <1>2 DEF Able, FreeSlots, Scan!RotationSlots
  <1>7. ASSUME NEW c \in Able, Cardinality(short) < Scan!RotationSlots
        PROVE  FreeSlots * waited'[c] + Cardinality(Ahead(c)') <= Cardinality(Able) - 1
    <2>1. Ahead(c)' = {d \in Able : Before(last', d, c)}
      BY <1>6 DEF Ahead, Before
    <2>2. FreeSlots \in Nat
      BY <1>1, <1>7, SlotsToSpare
    <2>3. Able \subseteq Contracts /\ Ahead(c) \subseteq Contracts
          /\ {d \in Able : Before(last', d, c)} \subseteq Contracts
      BY DEF Able, Ahead
    <2>4. Cardinality(Able) \in Nat /\ Cardinality(Ahead(c)) \in Nat
          /\ Cardinality(Ahead(c)') \in Nat
      BY <2>1, <2>3, ContractsFinite
    <2>5. CASE c \in selected
      <3>1. waited'[c] = 0
        BY <1>2, <2>3, <2>5 DEF Able
      <3>2. Cardinality(Ahead(c)') <= Cardinality(Able) - 1
        BY <1>1, <1>3, <2>1, OthersAhead
      <3>3. FreeSlots * waited'[c] = 0
        BY <2>2, <3>1
      <3> QED BY <2>4, <3>2, <3>3
    <2>6. CASE c \notin selected
      <3>1. FreeSlots + Cardinality(Ahead(c)') <= Cardinality(Ahead(c))
        BY <1>1, <1>2, <1>7, <2>1, <2>6, QueueAdvances
      <3>2. FreeSlots * waited[c] + Cardinality(Ahead(c)) <= Cardinality(Able) - 1
        BY <1>7 DEF ScanInv
      <3> DEFINE w == waited[c]
                 v == waited'[c]
      <3>3. w \in Nat /\ v \in Nat /\ v <= w + 1
        <4>1. v = Scan!Least(waited[c] + 1, Scan!Cardinality(Contracts))
          BY <1>2, <2>3, <2>6 DEF Able
        <4>2. w \in Nat /\ v \in Nat
          BY <1>1, <1>5, <2>3
        <4> QED BY <1>4, <4>1, <4>2 DEF Scan!Least
      <3> HIDE DEF w, v
      <3>4. FreeSlots * v <= FreeSlots * w + FreeSlots
        <4>1. FreeSlots * v <= FreeSlots * (w + 1)
          BY <2>2, <3>3
        <4>2. FreeSlots * (w + 1) = FreeSlots * w + FreeSlots
          BY <2>2, <3>3
        <4> QED BY <4>1, <4>2
      <3>5. FreeSlots * v \in Nat /\ FreeSlots * w \in Nat
        BY <2>2, <3>3
      <3>6. FreeSlots * w + Cardinality(Ahead(c)) <= Cardinality(Able) - 1
        BY <3>2 DEF w
      <3>7. FreeSlots * v + Cardinality(Ahead(c)') <= Cardinality(Able) - 1
        BY <2>2, <2>4, <3>1, <3>4, <3>5, <3>6
      <3> QED BY <3>7 DEF v
    <2> QED BY <2>5, <2>6
  <1> QED BY <1>1, <1>2, <1>3, <1>5, <1>6, <1>7 DEF ScanInv

\* Every step keeps it.
LEMMA ScanSteps == ScanInv /\ [NextAll]_allVars => ScanInv'
  <1> SUFFICES ASSUME ScanInv, [NextAll]_allVars, part' = "scan" PROVE ScanInv'
    BY DEF ScanInv
  <1>1. CASE ScanStep /\ Scan!Scan
    BY <1>1, ScanKeeps DEF ScanStep
  <1>2. CASE UNCHANGED <<part, last, short, waited>>
    <2>1. /\ Able' = Able /\ FreeSlots' = FreeSlots /\ Scan!RotationSlots' = Scan!RotationSlots
          /\ \A c : Ahead(c)' = Ahead(c)
      BY <1>2 DEF Able, FreeSlots, Scan!RotationSlots, Ahead, Before
    <2> QED BY <1>2, <2>1 DEF ScanInv
  <1>3. CASE ScanStep /\ Scan!SignalsChange
    BY <1>2, <1>3 DEF ScanStep, Scan!SignalsChange
  <1> QED
    BY <1>1, <1>2, <1>3
    DEF NextAll, SignalsStep, ScanStep, AnalysisStep, RestStep, HotStep, SafetyStep, ReplayStep,
        Scan!Next, allVars, scanVars

\* What a quotient rounded up bounds.
LEMMA RoundUp ==
  ASSUME NEW n \in Int, NEW k \in Nat \ {0}, NEW w \in Nat, k * w <= n - 1
  PROVE  w < (n + k - 1) \div k
  <1> DEFINE q == (n + k - 1) \div k
             r == (n + k - 1) % k
  <1>1. n + k - 1 \in Int
    OBVIOUS
  <1>2. q \in Int /\ r \in 0..(k - 1) /\ n + k - 1 = k * q + r
    BY <1>1
  <1> HIDE DEF q, r
  <1>3. k * w + k <= k * q + r
    <2>1. k * w \in Int /\ k * q \in Int
      BY <1>2
    <2> QED BY <1>2, <2>1
  <1>4. ~(q <= w)
    <2> SUFFICES ASSUME q <= w PROVE FALSE
      OBVIOUS
    <2>1. k * q <= k * w
      BY <1>2
    <2>2. k * w \in Int /\ k * q \in Int
      BY <1>2
    <2> QED BY <1>2, <1>3, <2>1, <2>2
  <1> QED BY <1>2, <1>4 DEF q

\* For all contracts, rankings, leaders and signals: while fewer contracts are short of
\* candles than the rotation lane has slots, every other contract is analysed within one
\* round of the slots that are left.
THEOREM RotationReachesAll == SpecAll => []WaitBounded
  <1>1. ScanInv => WaitBounded
    <2> SUFFICES ASSUME ScanInv, part = "scan", Cardinality(short) < Scan!RotationSlots,
                        NEW c \in Contracts \ short
                 PROVE  waited[c] < Scan!RoundLength
      BY SameCount DEF WaitBounded, Scan!WaitBounded
    <2>1. waited[c] \in Nat /\ short \subseteq Contracts /\ c \in Able
      BY DEF ScanInv, Able
    <2>2. FreeSlots * waited[c] + Cardinality(Ahead(c)) <= Cardinality(Able) - 1
      BY <2>1 DEF ScanInv
    <2>3. Able \subseteq Contracts /\ Ahead(c) \subseteq Contracts
      BY DEF Able, Ahead
    <2>4. Cardinality(Able) \in Nat /\ Cardinality(Ahead(c)) \in Nat
      BY <2>3, ContractsFinite
    <2>5. FreeSlots \in Nat \ {0}
      BY <2>1, SlotsToSpare
    <2>6. FreeSlots * waited[c] <= Cardinality(Able) - 1
      <3>1. FreeSlots * waited[c] \in Nat
        BY <2>1, <2>5
      <3> QED BY <2>2, <2>4, <3>1
    <2>7. waited[c] < (Cardinality(Able) + FreeSlots - 1) \div FreeSlots
      BY <2>1, <2>4, <2>5, <2>6, RoundUp
    <2>8. Scan!RoundLength = (Cardinality(Able) + FreeSlots - 1) \div FreeSlots
      BY SameCount, Zenon DEF Scan!RoundLength, Able, FreeSlots
    <2> QED BY <2>7, <2>8
  <1> QED BY <1>1, ScanInit, ScanSteps, PTL DEF SpecAll

-----------------------------------------------------------------------------
(* The analysis: what is written for a LONG and what is written for a SHORT agree, rule by *)
(* rule, on a market and on its mirror image.                                              *)

Opposite(side) == IF side = "LONG" THEN "SHORT" ELSE "LONG"
Swap(points) == <<points[2], points[1]>>
Pairs == {<<a, b>> : a \in Int, b \in Int}

\* What the mirror image of a market consists of.
LEMMA MirrorFields ==
  ASSUME NEW m \in MarketViews
  PROVE  LET n == Analysis!Mirror(m) IN
         /\ n.v4 = Analysis!MirrorView(m.v4) /\ n.v1 = Analysis!MirrorView(m.v1)
         /\ n.v15 = Analysis!MirrorView(m.v15) /\ n.body15 = -m.body15
         /\ n.busy15 = m.busy15 /\ n.near15 = m.near15 /\ n.busy5 = m.busy5
         /\ n.btc = Analysis!MirrorContext(m.btc) /\ n.eth = Analysis!MirrorContext(m.eth)
         /\ n.strength = -m.strength
         /\ n.cur = Analysis!MirrorBar(m.cur) /\ n.prev = -m.prev
         /\ n.top = -m.bottom /\ n.bottom = -m.top /\ n.high = -m.low /\ n.low = -m.high
         /\ n.fast = -m.fast /\ n.slow = -m.slow
         /\ n.high10 = -m.low10 /\ n.low10 = -m.high10
         /\ n.resistance = {-x : x \in m.support} /\ n.support = {-x : x \in m.resistance}
         /\ n.tight = m.tight /\ n.price = m.price
         /\ n.micro = Analysis!MirrorMicro(m.micro)
  <1> DEFINE views == Analysis!MirrorViews(m)
             bars == Analysis!MirrorBars(views)
             n == Analysis!Mirror(m)
             ViewFields == {"v4", "v1", "v15", "body15", "btc", "eth", "strength"}
             BarFields == {"cur", "prev", "top", "bottom", "high", "low", "micro"}
             LevelFields == {"fast", "slow", "high10", "low10", "resistance", "support"}
  <1>1. /\ views.v4 = Analysis!MirrorView(m.v4) /\ views.v1 = Analysis!MirrorView(m.v1)
        /\ views.v15 = Analysis!MirrorView(m.v15) /\ views.body15 = -m.body15
        /\ views.btc = Analysis!MirrorContext(m.btc) /\ views.eth = Analysis!MirrorContext(m.eth)
        /\ views.strength = -m.strength
    BY DEF MarketViews, Analysis!MirrorViews
  <1>2. DOMAIN views = DOMAIN m /\ \A f \in DOMAIN m \ ViewFields : views[f] = m[f]
    BY Zenon DEF Analysis!MirrorViews
  <1>3. DOMAIN m = {"v4", "v1", "v15", "body15", "busy15", "near15", "busy5", "btc", "eth",
             "strength", "micro", "resistance", "support", "tight", "price", "cur", "prev",
             "top", "bottom", "high", "low", "fast", "slow", "low10", "high10"}
    BY DEF MarketViews
  <1> HIDE DEF views
  <1>4. /\ bars.cur = Analysis!MirrorBar(views.cur) /\ bars.prev = -views.prev
        /\ bars.top = -views.bottom /\ bars.bottom = -views.top /\ bars.high = -views.low
        /\ bars.low = -views.high /\ bars.micro = Analysis!MirrorMicro(views.micro)
    BY <1>2, <1>3 DEF Analysis!MirrorBars
  <1>5. DOMAIN bars = DOMAIN views /\ \A f \in DOMAIN views \ BarFields : bars[f] = views[f]
    BY Zenon DEF Analysis!MirrorBars
  <1> HIDE DEF bars
  <1>6. n = Analysis!MirrorLevels(bars)
    BY Zenon DEF Analysis!Mirror, bars, views
  <1> HIDE DEF n
  <1>7. /\ n.fast = -bars.fast /\ n.slow = -bars.slow /\ n.high10 = -bars.low10
        /\ n.low10 = -bars.high10 /\ n.resistance = {-x : x \in bars.support}
        /\ n.support = {-x : x \in bars.resistance}
    BY <1>2, <1>3, <1>5, <1>6 DEF Analysis!MirrorLevels
  <1>8. DOMAIN n = DOMAIN bars /\ \A f \in DOMAIN bars \ LevelFields : n[f] = bars[f]
    BY <1>6, Zenon DEF Analysis!MirrorLevels
  <1>9. /\ n.v4 = views.v4 /\ n.v1 = views.v1 /\ n.v15 = views.v15 /\ n.body15 = views.body15
        /\ n.btc = views.btc /\ n.eth = views.eth /\ n.strength = views.strength
    BY <1>2, <1>3, <1>5, <1>8
  <1>10. /\ n.cur = Analysis!MirrorBar(m.cur) /\ n.prev = -m.prev /\ n.top = -m.bottom
         /\ n.bottom = -m.top /\ n.high = -m.low /\ n.low = -m.high
         /\ n.micro = Analysis!MirrorMicro(m.micro)
    BY <1>2, <1>3, <1>4, <1>5, <1>8
  <1>11. /\ bars.fast = m.fast /\ bars.slow = m.slow /\ bars.low10 = m.low10
         /\ bars.high10 = m.high10 /\ bars.support = m.support /\ bars.resistance = m.resistance
    BY <1>2, <1>3, <1>5
  <1>12. /\ n.busy15 = m.busy15 /\ n.near15 = m.near15 /\ n.busy5 = m.busy5
         /\ n.tight = m.tight /\ n.price = m.price
    BY <1>2, <1>3, <1>5, <1>8
  <1> QED BY <1>1, <1>7, <1>9, <1>10, <1>11, <1>12 DEF n

\* The trend of a timeframe turns round.
LEMMA TrendTurns ==
  ASSUME NEW v \in TimeframeViews
  PROVE  /\ Analysis!Trend(Analysis!MirrorView(v)) = Analysis!MirrorTrend(Analysis!Trend(v))
         /\ Analysis!Trend(v) \in Trends
  BY DEF TimeframeViews, Signs, Trends, Analysis!Trend, Analysis!MirrorView, Analysis!MirrorTrend

\* The direction of a context turns round.
LEMMA ContextTurns ==
  ASSUME NEW c \in ContextViews
  PROVE  /\ Analysis!ContextDirection(Analysis!MirrorContext(c)) =
              Analysis!MirrorTrend(Analysis!ContextDirection(c))
         /\ Analysis!ContextDirection(c) \in Trends
  BY DEF ContextViews, Trends, Analysis!ContextDirection, Analysis!MirrorContext,
         Analysis!MirrorTrend

\* What opposes a side opposes, turned round, the other side.
LEMMA OpposesTurns ==
  ASSUME NEW t \in Trends, NEW side \in Sides
  PROVE  Analysis!Opposes(Analysis!MirrorTrend(t), Opposite(side)) <=> Analysis!Opposes(t, side)
  BY DEF Trends, Sides, Opposite, Analysis!Opposes, Analysis!MirrorTrend

\* A bar with a range closes as high above its low as its mirror image below its high.
LEMMA BarTurns ==
  ASSUME NEW b \in Bar, ~Analysis!Flat(b), NEW p \in 0..100
  PROVE  /\ Analysis!MirrorBar(b) \in Bar
         /\ Analysis!Range(Analysis!MirrorBar(b)) = Analysis!Range(b)
         /\ Analysis!Range(b) = b.h - b.l
         /\ Analysis!ClosesAbove(Analysis!MirrorBar(b), p) <=> Analysis!ClosesBelow(b, 100 - p)
         /\ Analysis!ClosesBelow(Analysis!MirrorBar(b), p) <=> Analysis!ClosesAbove(b, 100 - p)
         /\ Analysis!BodyAtLeast(Analysis!MirrorBar(b), p) <=> Analysis!BodyAtLeast(b, p)
  <1>1. b.o \in Int /\ b.h \in Int /\ b.l \in Int /\ b.c \in Int /\ b.h > b.l
    BY DEF Bar, Analysis!Flat
  <1>2. /\ Analysis!MirrorBar(b).o = -b.o /\ Analysis!MirrorBar(b).h = -b.l
        /\ Analysis!MirrorBar(b).l = -b.h /\ Analysis!MirrorBar(b).c = -b.c
        /\ Analysis!MirrorBar(b) \in Bar
    BY <1>1 DEF Analysis!MirrorBar, Bar
  <1>3. Analysis!Range(b) = b.h - b.l /\ Analysis!Range(Analysis!MirrorBar(b)) = b.h - b.l
    BY <1>1, <1>2 DEF Analysis!Range, Analysis!Greater
  <1> DEFINE r == b.h - b.l
             x == p * r
  <1>4. r \in Int /\ x \in Int /\ (100 - p) * r = 100 * r - x
    BY <1>1
  <1> HIDE DEF x
  <1>5. (-b.c + b.h) * 100 >= x <=> (b.c - b.l) * 100 <= 100 * r - x
    BY <1>1, <1>4
  <1>6. (-b.c + b.h) * 100 <= x <=> (b.c - b.l) * 100 >= 100 * r - x
    BY <1>1, <1>4
  <1>7. Analysis!ClosesAbove(Analysis!MirrorBar(b), p) <=> Analysis!ClosesBelow(b, 100 - p)
    BY <1>1, <1>2, <1>3, <1>4, <1>5 DEF Analysis!ClosesAbove, Analysis!ClosesBelow, x
  <1>8. Analysis!ClosesBelow(Analysis!MirrorBar(b), p) <=> Analysis!ClosesAbove(b, 100 - p)
    BY <1>1, <1>2, <1>3, <1>4, <1>6 DEF Analysis!ClosesAbove, Analysis!ClosesBelow, x
  <1>9. Analysis!Abs(Analysis!MirrorBar(b).c - Analysis!MirrorBar(b).o) = Analysis!Abs(b.c - b.o)
    BY <1>1, <1>2 DEF Analysis!Abs
  <1> QED BY <1>2, <1>3, <1>7, <1>8, <1>9 DEF Analysis!BodyAtLeast

\* The triggers of a LONG are those of a SHORT in the mirror image, and the other way round.
LEMMA TriggersTurn ==
  ASSUME NEW m \in MarketViews, ~Analysis!Flat(m.cur)
  PROVE  /\ Analysis!TriggersShort(Analysis!Mirror(m)) = Analysis!TriggersLong(m)
         /\ Analysis!TriggersLong(Analysis!Mirror(m)) = Analysis!TriggersShort(m)
  <1> DEFINE n == Analysis!Mirror(m)
             b == m.cur
  <1>1. /\ b \in Bar /\ b.o \in Int /\ b.h \in Int /\ b.l \in Int /\ b.c \in Int
        /\ m.prev \in Int /\ m.top \in Int /\ m.bottom \in Int /\ m.high \in Int /\ m.low \in Int
        /\ m.fast \in Int /\ m.slow \in Int /\ m.price \in Int
    BY DEF MarketViews, Bar
  <1>2. \A k \in Int : Analysis!Part(n, k) = Analysis!Part(m, k) /\ Analysis!Part(m, k) \in Int
    BY <1>1, MirrorFields DEF Analysis!Part
  <1>3. /\ n.cur = Analysis!MirrorBar(b) /\ n.cur.o = -b.o /\ n.cur.h = -b.l /\ n.cur.l = -b.h
        /\ n.cur.c = -b.c
    BY MirrorFields DEF Analysis!MirrorBar
  <1>4. /\ n.prev = -m.prev /\ n.top = -m.bottom /\ n.bottom = -m.top /\ n.high = -m.low
        /\ n.low = -m.high
    BY MirrorFields
  <1>5. /\ Analysis!Lesser(n.fast, n.slow) = -Analysis!Greater(m.fast, m.slow)
        /\ Analysis!Greater(n.fast, n.slow) = -Analysis!Lesser(m.fast, m.slow)
        /\ Analysis!Greater(m.fast, m.slow) \in Int /\ Analysis!Lesser(m.fast, m.slow) \in Int
    BY <1>1, MirrorFields DEF Analysis!Lesser, Analysis!Greater
  <1>6. /\ Analysis!ClosesBelow(n.cur, 42) <=> Analysis!ClosesAbove(b, 58)
        /\ Analysis!ClosesBelow(n.cur, 32) <=> Analysis!ClosesAbove(b, 68)
        /\ Analysis!ClosesBelow(n.cur, 35) <=> Analysis!ClosesAbove(b, 65)
        /\ Analysis!ClosesBelow(n.cur, 34) <=> Analysis!ClosesAbove(b, 66)
        /\ Analysis!ClosesAbove(n.cur, 58) <=> Analysis!ClosesBelow(b, 42)
        /\ Analysis!ClosesAbove(n.cur, 68) <=> Analysis!ClosesBelow(b, 32)
        /\ Analysis!ClosesAbove(n.cur, 65) <=> Analysis!ClosesBelow(b, 35)
        /\ Analysis!ClosesAbove(n.cur, 66) <=> Analysis!ClosesBelow(b, 34)
        /\ Analysis!BodyAtLeast(n.cur, 30) <=> Analysis!BodyAtLeast(b, 30)
        /\ Analysis!BodyAtLeast(n.cur, 38) <=> Analysis!BodyAtLeast(b, 38)
    BY <1>1, <1>3, BarTurns
  <1> HIDE DEF n
  <1>7. Analysis!TriggersShort(n) = Analysis!TriggersLong(m)
    BY <1>1, <1>2, <1>3, <1>4, <1>5, <1>6
    DEF Analysis!TriggersShort, Analysis!TriggersLong
  <1>8. Analysis!TriggersLong(n) = Analysis!TriggersShort(m)
    BY <1>1, <1>2, <1>3, <1>4, <1>5, <1>6
    DEF Analysis!TriggersShort, Analysis!TriggersLong
  <1> QED BY <1>7, <1>8 DEF n

\* The confirmations of the 1m bars turn round.
LEMMA MicroTurns ==
  ASSUME NEW u \in MicroViews, NEW side \in Sides
  PROVE  /\ Analysis!MicroConfirmations(Analysis!MirrorMicro(u), Opposite(side)) =
              Analysis!MicroConfirmations(u, side)
         /\ Analysis!MicroConfirmations(u, side) \in Int
  <1> DEFINE w == Analysis!MirrorMicro(u)
  <1>1. /\ u.body \in Int /\ u.position \in Int /\ u.cross \in Int /\ u.above \in Int
        /\ u.rose \in Int /\ u.fell \in Int /\ u.net \in Int /\ u.busy \in BOOLEAN
    BY DEF MicroViews
  <1>2. /\ w.body = -u.body /\ w.position = 100 - u.position /\ w.cross = -u.cross
        /\ w.above = -u.above /\ w.rose = u.fell /\ w.fell = u.rose /\ w.net = -u.net
        /\ w.busy = u.busy
    BY DEF MicroViews, Analysis!MirrorMicro
  <1> HIDE DEF w
  <1> DEFINE bull(x) == x.body > 0 /\ x.position >= 58
             bear(x) == x.body < 0 /\ x.position <= 42
             up(x) == x.cross > 0 /\ x.above > 0
             down(x) == x.cross < 0 /\ x.above < 0
             rising(x) == x.rose >= 2 /\ x.net > 0
             falling(x) == x.fell >= 2 /\ x.net < 0
             buying(x) == x.busy /\ x.body > 0
             selling(x) == x.busy /\ x.body < 0
  <1>3. /\ bull(w) <=> bear(u)
        /\ bear(w) <=> bull(u)
        /\ up(w) <=> down(u)
        /\ down(w) <=> up(u)
        /\ rising(w) <=> falling(u)
        /\ falling(w) <=> rising(u)
    BY <1>1, <1>2
  <1>4. (w.body > 0 <=> u.body < 0) /\ (w.body < 0 <=> u.body > 0)
    BY <1>1, <1>2
  <1>5. (buying(w) <=> selling(u)) /\ (selling(w) <=> buying(u))
    BY <1>2, <1>4, Zenon
  <1>6. \A x : Analysis!MicroConfirmations(x, "LONG") =
                 Analysis!One(bull(x)) + Analysis!One(up(x)) + Analysis!One(rising(x))
                 + Analysis!One(buying(x))
    BY Zenon DEF Analysis!MicroConfirmations
  <1>7. \A x : Analysis!MicroConfirmations(x, "SHORT") =
                 Analysis!One(bear(x)) + Analysis!One(down(x)) + Analysis!One(falling(x))
                 + Analysis!One(selling(x))
    <2>1. "SHORT" # "LONG"
      OBVIOUS
    <2> QED BY <2>1, Zenon DEF Analysis!MicroConfirmations
  <1> HIDE DEF bull, bear, up, down, rising, falling, buying, selling
  <1>8. CASE side = "LONG"
    <2>1. Opposite(side) = "SHORT"
      BY <1>8 DEF Opposite
    <2> QED BY <1>3, <1>5, <1>6, <1>7, <1>8, <2>1 DEF Analysis!One, w
  <1>9. CASE side = "SHORT"
    <2>1. Opposite(side) = "LONG"
      BY <1>9 DEF Opposite
    <2> QED BY <1>3, <1>5, <1>6, <1>7, <1>9, <2>1 DEF Analysis!One, w
  <1> QED BY <1>8, <1>9 DEF Sides

\* So does the rejection wick of the 5m bar.
LEMMA RejectionTurns ==
  ASSUME NEW b \in Bar, ~Analysis!Flat(b), NEW side \in Sides
  PROVE  Analysis!OppositeRejection(Analysis!MirrorBar(b), Opposite(side)) <=>
           Analysis!OppositeRejection(b, side)
  <1> DEFINE d == Analysis!MirrorBar(b)
  <1>1. b.o \in Int /\ b.h \in Int /\ b.l \in Int /\ b.c \in Int
    BY DEF Bar
  <1>2. d.o = -b.o /\ d.h = -b.l /\ d.l = -b.h /\ d.c = -b.c
    BY DEF Analysis!MirrorBar
  <1>3. /\ Analysis!ClosesBelow(d, 28) <=> Analysis!ClosesAbove(b, 72)
        /\ Analysis!ClosesAbove(d, 72) <=> Analysis!ClosesBelow(b, 28)
        /\ Analysis!Range(d) = Analysis!Range(b)
    BY BarTurns
  <1>4. Analysis!Abs(d.c - d.o) = Analysis!Abs(b.c - b.o)
    BY <1>1, <1>2 DEF Analysis!Abs
  <1>5. /\ d.h - Analysis!Greater(d.o, d.c) = Analysis!Lesser(b.o, b.c) - b.l
        /\ Analysis!Lesser(d.o, d.c) - d.l = b.h - Analysis!Greater(b.o, b.c)
    BY <1>1, <1>2 DEF Analysis!Greater, Analysis!Lesser
  <1> HIDE DEF d
  <1> DEFINE body(x) == Analysis!Greater(Analysis!Abs(x.c - x.o) * 100, Analysis!Range(x) * 8)
             upper(x) == x.h - Analysis!Greater(x.o, x.c)
             lower(x) == Analysis!Lesser(x.o, x.c) - x.l
             up(x) == upper(x) * 1000 > 18 * body(x) /\ ~Analysis!ClosesAbove(x, 72)
             down(x) == lower(x) * 1000 > 18 * body(x) /\ ~Analysis!ClosesBelow(x, 28)
  <1>6. body(d) = body(b) /\ upper(d) = lower(b) /\ lower(d) = upper(b)
    BY <1>3, <1>4, <1>5, Zenon
  <1> HIDE DEF body, upper, lower
  <1>7. (up(d) <=> down(b)) /\ (down(d) <=> up(b))
    <2>1. upper(d) * 1000 > 18 * body(d) <=> lower(b) * 1000 > 18 * body(b)
      BY <1>6
    <2>2. lower(d) * 1000 > 18 * body(d) <=> upper(b) * 1000 > 18 * body(b)
      BY <1>6
    <2> HIDE DEF d
    <2>3. up(d) <=> down(b)
      BY <1>3, <2>1
    <2>4. down(d) <=> up(b)
      BY <1>3, <2>2
    <2> QED BY <2>3, <2>4
  <1>8. "SHORT" # "LONG"
    OBVIOUS
  <1>9. \A x : /\ Analysis!OppositeRejection(x, "LONG") <=> up(x)
               /\ Analysis!OppositeRejection(x, "SHORT") <=> down(x)
    BY <1>8, Zenon DEF Analysis!OppositeRejection, body, upper, lower
  <1> HIDE DEF up, down
  <1>10. CASE side = "LONG"
    BY <1>7, <1>9, <1>10, Zenon DEF Opposite, d
  <1>11. CASE side = "SHORT"
    BY <1>7, <1>8, <1>9, <1>11, Zenon DEF Opposite, d
  <1> QED BY <1>10, <1>11 DEF Sides

\* Points of two rules are pairs; they turn round by changing places.
LEMMA EitherTurns ==
  ASSUME NEW c \in BOOLEAN, NEW d \in BOOLEAN, NEW n \in Int
  PROVE  /\ Analysis!Either(c, d, n) \in Pairs
         /\ ~(c /\ d) => Analysis!Either(d, c, n) = Swap(Analysis!Either(c, d, n))
  BY DEF Analysis!Either, Swap, Pairs

\* Sums of pairs change places with their terms.
LEMMA BothTurn ==
  ASSUME NEW a \in Pairs, NEW b \in Pairs
  PROVE  /\ Analysis!Both(a, b) \in Pairs
         /\ Analysis!Both(Swap(a), Swap(b)) = Swap(Analysis!Both(a, b))
  BY DEF Analysis!Both, Swap, Pairs

\* A rule that goes by a sign changes places.
LEMMA SignTurns ==
  ASSUME NEW s \in Int, NEW n \in Int
  PROVE  /\ Analysis!Sign(s, n) \in Pairs
         /\ Analysis!Sign(-s, n) = Swap(Analysis!Sign(s, n))
  BY DEF Analysis!Sign, Analysis!Either, Swap, Pairs

\* The points of 4h turn round.
LEMMA RegimeTurns ==
  ASSUME NEW v \in TimeframeViews
  PROVE  /\ Analysis!RegimePoints(v) \in Pairs
         /\ Analysis!RegimePoints(Analysis!MirrorView(v)) = Swap(Analysis!RegimePoints(v))
  <1>1. v.cross \in Int /\ v.above \in Int /\ v.structure \in Int /\ v.rsi \in Int
    BY DEF TimeframeViews, Signs
  <1> DEFINE w == Analysis!MirrorView(v)
             e(x) == Analysis!Either(x.above > 0 /\ x.rsi >= 50, x.above < 0 /\ x.rsi <= 50, 4)
  <1>2. /\ w.cross = -v.cross /\ w.above = -v.above /\ w.structure = -v.structure
        /\ w.rsi = 100 - v.rsi
    BY DEF Analysis!MirrorView
  <1> HIDE DEF w
  <1>3. e(v) \in Pairs /\ e(w) = Swap(e(v))
    BY <1>1, <1>2 DEF Analysis!Either, Pairs, Swap
  <1>4. /\ Analysis!Sign(v.cross, 6) \in Pairs /\ Analysis!Sign(v.structure, 5) \in Pairs
        /\ Analysis!Sign(w.cross, 6) = Swap(Analysis!Sign(v.cross, 6))
        /\ Analysis!Sign(w.structure, 5) = Swap(Analysis!Sign(v.structure, 5))
    BY <1>1, <1>2, SignTurns
  <1> HIDE DEF e
  <1> QED BY <1>3, <1>4, BothTurn DEF Analysis!RegimePoints, e, w

\* The points of 1h turn round.
LEMMA BiasTurns ==
  ASSUME NEW v \in TimeframeViews
  PROVE  /\ Analysis!BiasPoints(v) \in Pairs
         /\ Analysis!BiasPoints(Analysis!MirrorView(v)) = Swap(Analysis!BiasPoints(v))
  <1>1. v.cross \in Int /\ v.above \in Int /\ v.structure \in Int /\ v.rsi \in Int
    BY DEF TimeframeViews, Signs
  <1> DEFINE w == Analysis!MirrorView(v)
             e(x) == Analysis!Either(52 <= x.rsi /\ x.rsi <= 70, 30 <= x.rsi /\ x.rsi <= 48, 3)
  <1>2. /\ w.cross = -v.cross /\ w.above = -v.above /\ w.structure = -v.structure
        /\ w.rsi = 100 - v.rsi
    BY DEF Analysis!MirrorView
  <1> HIDE DEF w
  <1>3. e(v) \in Pairs /\ e(w) = Swap(e(v))
    BY <1>1, <1>2 DEF Analysis!Either, Pairs, Swap
  <1>4. /\ Analysis!Sign(v.cross, 10) \in Pairs /\ Analysis!Sign(v.structure, 8) \in Pairs
        /\ Analysis!Sign(v.above, 4) \in Pairs
        /\ Analysis!Sign(w.cross, 10) = Swap(Analysis!Sign(v.cross, 10))
        /\ Analysis!Sign(w.structure, 8) = Swap(Analysis!Sign(v.structure, 8))
        /\ Analysis!Sign(w.above, 4) = Swap(Analysis!Sign(v.above, 4))
    BY <1>1, <1>2, SignTurns
  <1> HIDE DEF e
  <1> QED BY <1>3, <1>4, BothTurn DEF Analysis!BiasPoints, e, w

\* The points of 15m turn round, unless a bar with volume closed where it opened.
LEMMA SetupTurns ==
  ASSUME NEW v \in TimeframeViews, NEW busy \in BOOLEAN, NEW near \in BOOLEAN,
         NEW body \in Signs, ~(busy /\ body = 0)
  PROVE  /\ Analysis!SetupPoints(v, busy, body, near) \in Pairs
         /\ Analysis!SetupPoints(Analysis!MirrorView(v), busy, -body, near) =
              Swap(Analysis!SetupPoints(v, busy, body, near))
  <1>1. v.cross \in Int /\ v.above \in Int /\ v.structure \in Int /\ v.rsi \in Int
        /\ body \in Int
    BY DEF TimeframeViews, Signs
  <1> DEFINE w == Analysis!MirrorView(v)
             e(x) == Analysis!Either(x.above > 0 /\ x.rsi >= 50, x.above < 0 /\ x.rsi <= 50, 4)
             f(x) == Analysis!Either(busy /\ x >= 0, busy, 2)
             g(t) == Analysis!Either(near /\ t = "BULLISH", near /\ t = "BEARISH", 2)
             t == Analysis!Trend(v)
  <1>2. /\ w.cross = -v.cross /\ w.above = -v.above /\ w.structure = -v.structure
        /\ w.rsi = 100 - v.rsi
    BY DEF Analysis!MirrorView
  <1>3. t \in Trends /\ Analysis!Trend(w) = Analysis!MirrorTrend(t)
    BY TrendTurns
  <1> HIDE DEF w, t
  <1>4. e(v) \in Pairs /\ e(w) = Swap(e(v))
    BY <1>1, <1>2 DEF Analysis!Either, Pairs, Swap
  <1>5. f(body) \in Pairs /\ f(-body) = Swap(f(body))
    BY <1>1 DEF Analysis!Either, Pairs, Swap
  <1>6. g(t) \in Pairs /\ g(Analysis!MirrorTrend(t)) = Swap(g(t))
    BY <1>3 DEF Trends, Analysis!MirrorTrend, Analysis!Either, Pairs, Swap
  <1>7. /\ Analysis!Sign(v.cross, 7) \in Pairs /\ Analysis!Sign(v.structure, 5) \in Pairs
        /\ Analysis!Sign(w.cross, 7) = Swap(Analysis!Sign(v.cross, 7))
        /\ Analysis!Sign(w.structure, 5) = Swap(Analysis!Sign(v.structure, 5))
    BY <1>1, <1>2, SignTurns
  <1> HIDE DEF e, f, g
  <1>8. Analysis!SetupPoints(v, busy, body, near) =
          Analysis!Both(Analysis!Both(Analysis!Sign(v.cross, 7), Analysis!Sign(v.structure, 5)),
                        Analysis!Both(e(v), Analysis!Both(f(body), g(t))))
    BY Zenon DEF Analysis!SetupPoints, e, f, g, t
  <1>9. Analysis!SetupPoints(w, busy, -body, near) =
          Analysis!Both(Analysis!Both(Analysis!Sign(w.cross, 7), Analysis!Sign(w.structure, 5)),
                        Analysis!Both(e(w), Analysis!Both(f(-body), g(Analysis!Trend(w)))))
    BY Zenon DEF Analysis!SetupPoints, e, f, g
  <1> QED BY <1>3, <1>4, <1>5, <1>6, <1>7, <1>8, <1>9, BothTurn DEF w

\* The points of 5m turn round.
LEMMA TriggerPointsTurn ==
  ASSUME NEW m \in MarketViews, ~Analysis!Flat(m.cur)
  PROVE  /\ Analysis!TriggerPoints(m) \in Pairs
         /\ Analysis!TriggerPoints(Analysis!Mirror(m)) = Swap(Analysis!TriggerPoints(m))
  <1> DEFINE n == Analysis!Mirror(m)
  <1>1. m.cur.o \in Int /\ m.cur.c \in Int /\ m.busy5 \in BOOLEAN
    BY DEF MarketViews, Bar
  <1>2. n.cur = Analysis!MirrorBar(m.cur) /\ n.busy5 = m.busy5
    BY MirrorFields
  <1>3. /\ Analysis!TriggersShort(n) = Analysis!TriggersLong(m)
        /\ Analysis!TriggersLong(n) = Analysis!TriggersShort(m)
    BY TriggersTurn
  <1> HIDE DEF n
  <1>4. n.cur.o = -m.cur.o /\ n.cur.c = -m.cur.c
    BY <1>2 DEF Analysis!MirrorBar
  <1> DEFINE long == Analysis!TriggersLong(m) # {}
             down == Analysis!TriggersShort(m) # {}
             up(x) == x.busy5 /\ x.cur.c > x.cur.o
             dn(x) == x.busy5 /\ x.cur.c < x.cur.o
  <1>5. n.cur.c > n.cur.o <=> m.cur.c < m.cur.o
    BY <1>1, <1>4
  <1>6. n.cur.c < n.cur.o <=> m.cur.c > m.cur.o
    BY <1>1, <1>4
  <1>7. (up(n) <=> dn(m)) /\ (dn(n) <=> up(m))
    BY <1>2, <1>5, <1>6, Zenon
  <1>8. ~(up(m) /\ dn(m))
    BY <1>1
  <1>9. Analysis!TriggerPoints(m) =
          Analysis!Both(Analysis!Both(Analysis!Either(long, FALSE, 20),
                                      Analysis!Either(FALSE, down, 20)),
                        Analysis!Either(up(m), dn(m), 5))
    BY Zenon DEF Analysis!TriggerPoints
  <1>10. Analysis!TriggerPoints(n) =
          Analysis!Both(Analysis!Both(Analysis!Either(down, FALSE, 20),
                                      Analysis!Either(FALSE, long, 20)),
                        Analysis!Either(up(n), dn(n), 5))
    BY <1>3, Zenon DEF Analysis!TriggerPoints
  <1> HIDE DEF long, down, up, dn
  <1>11. /\ Analysis!Either(up(m), dn(m), 5) \in Pairs
         /\ Analysis!Either(up(n), dn(n), 5) = Swap(Analysis!Either(up(m), dn(m), 5))
    BY <1>7, <1>8 DEF Analysis!Either, Pairs, Swap
  <1>12. LET a == Analysis!Both(Analysis!Either(long, FALSE, 20), Analysis!Either(FALSE, down, 20))
             b == Analysis!Both(Analysis!Either(down, FALSE, 20), Analysis!Either(FALSE, long, 20))
         IN a \in Pairs /\ b = Swap(a)
    BY DEF Analysis!Both, Analysis!Either, Pairs, Swap
  <1> QED BY <1>9, <1>10, <1>11, <1>12, BothTurn DEF n

\* The points of BTC and of ETH turn round.
LEMMA ContextPointsTurn ==
  ASSUME NEW c \in ContextViews, NEW k \in Int
  PROVE  /\ Analysis!ContextPoints(c, k) \in Pairs
         /\ Analysis!ContextPoints(Analysis!MirrorContext(c), k) =
              Swap(Analysis!ContextPoints(c, k))
  <1> DEFINE t == Analysis!ContextDirection(c)
  <1>1. t \in Trends
        /\ Analysis!ContextDirection(Analysis!MirrorContext(c)) = Analysis!MirrorTrend(t)
    BY ContextTurns
  <1> HIDE DEF t
  <1> QED BY <1>1 DEF Analysis!ContextPoints, Analysis!Either, Analysis!MirrorTrend, Trends,
                      Pairs, Swap, t

\* All points turn round, but for a 15m bar with volume that closed where it opened.
LEMMA PointsTurn ==
  ASSUME NEW m \in MarketViews, ~Analysis!Flat(m.cur), ~(m.busy15 /\ m.body15 = 0)
  PROVE  /\ Analysis!Points(m) \in Pairs
         /\ Analysis!Points(Analysis!Mirror(m)) = Swap(Analysis!Points(m))
  <1> DEFINE n == Analysis!Mirror(m)
  <1>1. /\ m.v4 \in TimeframeViews /\ m.v1 \in TimeframeViews /\ m.v15 \in TimeframeViews
        /\ m.body15 \in Signs /\ m.busy15 \in BOOLEAN /\ m.near15 \in BOOLEAN
        /\ m.btc \in ContextViews /\ m.eth \in ContextViews /\ m.strength \in Int
    BY DEF MarketViews
  <1>2. /\ n.v4 = Analysis!MirrorView(m.v4) /\ n.v1 = Analysis!MirrorView(m.v1)
        /\ n.v15 = Analysis!MirrorView(m.v15) /\ n.body15 = -m.body15
        /\ n.busy15 = m.busy15 /\ n.near15 = m.near15
        /\ n.btc = Analysis!MirrorContext(m.btc) /\ n.eth = Analysis!MirrorContext(m.eth)
        /\ n.strength = -m.strength
    BY MirrorFields
  <1> DEFINE r(x) == Analysis!RegimePoints(x.v4)
             b(x) == Analysis!BiasPoints(x.v1)
             s(x) == Analysis!SetupPoints(x.v15, x.busy15, x.body15, x.near15)
             t(x) == Analysis!TriggerPoints(x)
             c(x) == Analysis!ContextPoints(x.btc, 2)
             e(x) == Analysis!ContextPoints(x.eth, 1)
             g(x) == Analysis!Sign(x.strength, 2)
  <1> HIDE DEF n
  <1>3. /\ r(m) \in Pairs /\ r(n) = Swap(r(m)) /\ b(m) \in Pairs /\ b(n) = Swap(b(m))
        /\ s(m) \in Pairs /\ s(n) = Swap(s(m))
    BY <1>1, <1>2, RegimeTurns, BiasTurns, SetupTurns
  <1>4. t(m) \in Pairs /\ t(n) = Swap(t(m))
    BY TriggerPointsTurn DEF n
  <1>5. /\ c(m) \in Pairs /\ c(n) = Swap(c(m)) /\ e(m) \in Pairs /\ e(n) = Swap(e(m))
        /\ g(m) \in Pairs /\ g(n) = Swap(g(m))
    BY <1>1, <1>2, ContextPointsTurn, SignTurns
  <1>6. \A x : Analysis!Points(x) =
          Analysis!Both(Analysis!Both(r(x), b(x)),
                        Analysis!Both(Analysis!Both(s(x), t(x)),
                                      Analysis!Both(Analysis!Both(c(x), e(x)), g(x))))
    BY Zenon DEF Analysis!Points
  <1> HIDE DEF r, b, s, t, c, e, g
  <1> QED BY <1>3, <1>4, <1>5, <1>6, BothTurn DEF n

\* The nearest of some levels above is, turned round, the nearest of those below.
LEMMA NearestTurns ==
  ASSUME NEW S, S \subseteq Nat, S # {}, NEW T, T = {-y : y \in S}
  PROVE  Analysis!LeastOf(S) \in Nat /\ Analysis!GreatestOf(T) = -Analysis!LeastOf(S)
  <1> DEFINE least == Analysis!LeastOf(S)
             greatest == Analysis!GreatestOf(T)
  <1>1. PICK l \in S : \A y \in S : l <= y
    BY LeastNatural
  <1>2. least \in S /\ \A y \in S : least <= y
    BY <1>1, Zenon DEF Analysis!LeastOf
  <1>3. -l \in T /\ \A y \in T : -l >= y
    BY <1>1
  <1>4. greatest \in T /\ \A y \in T : greatest >= y
    BY <1>3, Zenon DEF Analysis!GreatestOf
  <1> HIDE DEF least, greatest
  <1>5. least = l
    BY <1>1, <1>2
  <1>6. greatest = -l
    BY <1>1, <1>3, <1>4
  <1> QED BY <1>1, <1>5, <1>6 DEF least, greatest

\* The nearest obstacle on the way is as far away.
LEMMA ObstacleTurns ==
  ASSUME NEW m \in MarketViews, NEW side \in Sides
  PROVE  Analysis!Abs(Analysis!Obstacle(Analysis!Mirror(m), Opposite(side))) =
           Analysis!Abs(Analysis!Obstacle(m, side))
  <1> DEFINE n == Analysis!Mirror(m)
             above(x) == {y \in x.resistance : y > 0}
             below(x) == {y \in x.support : y < 0}
  <1>1. m.resistance \subseteq Int /\ m.support \subseteq Int
    BY DEF MarketViews
  <1>2. n.resistance = {-x : x \in m.support} /\ n.support = {-x : x \in m.resistance}
    BY MirrorFields
  <1> HIDE DEF n
  <1>3. above(m) \subseteq Nat /\ above(n) \subseteq Nat
    BY <1>1, <1>2
  <1>4. below(n) = {-y : y \in above(m)} /\ below(m) = {-y : y \in above(n)}
    BY <1>1, <1>2
  <1>5. \A x : Analysis!Obstacle(x, "LONG") =
          IF above(x) # {} THEN Analysis!LeastOf(above(x)) ELSE 0
    <2>1. "LONG" # "SHORT"
      OBVIOUS
    <2> QED BY <2>1, Zenon DEF Analysis!Obstacle
  <1>6. \A x : Analysis!Obstacle(x, "SHORT") =
          IF below(x) # {} THEN Analysis!GreatestOf(below(x)) ELSE 0
    <2>1. "LONG" # "SHORT"
      OBVIOUS
    <2> QED BY <2>1, Zenon DEF Analysis!Obstacle
  <1> HIDE DEF above, below
  <1>7. /\ above(m) # {} => /\ Analysis!LeastOf(above(m)) \in Nat
                            /\ Analysis!GreatestOf(below(n)) = -Analysis!LeastOf(above(m))
        /\ above(n) # {} => /\ Analysis!LeastOf(above(n)) \in Nat
                            /\ Analysis!GreatestOf(below(m)) = -Analysis!LeastOf(above(n))
    BY <1>3, <1>4, NearestTurns
  <1>8. (below(n) = {} <=> above(m) = {}) /\ (below(m) = {} <=> above(n) = {})
    BY <1>4
  <1>9. CASE side = "LONG"
    <2>1. Opposite(side) = "SHORT"
      BY <1>9 DEF Opposite
    <2> QED BY <1>5, <1>6, <1>7, <1>8, <1>9, <2>1 DEF Analysis!Abs, n
  <1>10. CASE side = "SHORT"
    <2>1. Opposite(side) = "LONG"
      BY <1>10 DEF Opposite
    <2> QED BY <1>5, <1>6, <1>7, <1>8, <1>10, <2>1 DEF Analysis!Abs, n
  <1> QED BY <1>9, <1>10 DEF Sides

\* The stop lies as far on the other side.
LEMMA StopTurns ==
  ASSUME NEW m \in MarketViews, NEW side \in Sides
  PROVE  LET n == Analysis!Mirror(m) IN
         /\ Analysis!SwingStop(n, Opposite(side)) = -Analysis!SwingStop(m, side)
         /\ Analysis!SwingStop(m, side) \in Int
         /\ Analysis!Risk(n, Opposite(side)) = Analysis!Risk(m, side)
         /\ Analysis!Risk(m, side) \in Int
  <1> DEFINE n == Analysis!Mirror(m)
  <1>1. m.low10 \in Int /\ m.high10 \in Int
    BY DEF MarketViews
  <1>2. n.low10 = -m.high10 /\ n.high10 = -m.low10
    BY MirrorFields
  <1> HIDE DEF n
  <1>3. CASE side = "LONG"
    <2>1. Opposite(side) = "SHORT"
      BY <1>3 DEF Opposite
    <2>2. /\ Analysis!SwingStop(n, "SHORT") = -Analysis!SwingStop(m, "LONG")
          /\ Analysis!SwingStop(m, "LONG") \in Int
      BY <1>1, <1>2 DEF Analysis!SwingStop, Analysis!Lesser, Analysis!Greater
    <2> QED BY <1>3, <2>1, <2>2 DEF Analysis!Risk, n
  <1>4. CASE side = "SHORT"
    <2>1. Opposite(side) = "LONG"
      BY <1>4 DEF Opposite
    <2>2. /\ Analysis!SwingStop(n, "LONG") = -Analysis!SwingStop(m, "SHORT")
          /\ Analysis!SwingStop(m, "SHORT") \in Int
      BY <1>1, <1>2 DEF Analysis!SwingStop, Analysis!Lesser, Analysis!Greater
    <2> QED BY <1>4, <2>1, <2>2 DEF Analysis!Risk, n
  <1> QED BY <1>3, <1>4 DEF Sides

\* Each gate opens for the one as for the other.
LEMMA GatesTurn ==
  ASSUME NEW m \in MarketViews, ~Analysis!Flat(m.cur), NEW side \in Sides
  PROVE  LET n == Analysis!Mirror(m)
             other == Opposite(side)
         IN /\ Analysis!BiasOk(n, other) <=> Analysis!BiasOk(m, side)
            /\ Analysis!RegimeOpposes(n, other) <=> Analysis!RegimeOpposes(m, side)
            /\ Analysis!SetupOpposes(n, other) <=> Analysis!SetupOpposes(m, side)
            /\ Analysis!ContextOpposes(n, other) <=> Analysis!ContextOpposes(m, side)
            /\ Analysis!Volatile(n) <=> Analysis!Volatile(m)
            /\ Analysis!TooLate(n) <=> Analysis!TooLate(m)
            /\ Analysis!Rejected(n, other) <=> Analysis!Rejected(m, side)
            /\ Analysis!StopOk(n, other) <=> Analysis!StopOk(m, side)
            /\ Analysis!RoomOk(n, other) <=> Analysis!RoomOk(m, side)
  <1> DEFINE n == Analysis!Mirror(m)
             other == Opposite(side)
  <1>1. /\ m.v4 \in TimeframeViews /\ m.v1 \in TimeframeViews /\ m.v15 \in TimeframeViews
        /\ m.btc \in ContextViews /\ m.eth \in ContextViews
        /\ m.cur \in Bar /\ m.fast \in Int /\ m.price \in Int
    BY DEF MarketViews
  <1>2. /\ n.v4 = Analysis!MirrorView(m.v4) /\ n.v1 = Analysis!MirrorView(m.v1)
        /\ n.v15 = Analysis!MirrorView(m.v15)
        /\ n.btc = Analysis!MirrorContext(m.btc) /\ n.eth = Analysis!MirrorContext(m.eth)
        /\ n.cur = Analysis!MirrorBar(m.cur) /\ n.fast = -m.fast /\ n.price = m.price
    BY MirrorFields
  <1>3. /\ Analysis!Risk(n, other) = Analysis!Risk(m, side)
        /\ Analysis!Abs(Analysis!Obstacle(n, other)) = Analysis!Abs(Analysis!Obstacle(m, side))
    BY StopTurns, ObstacleTurns
  <1> HIDE DEF n
  <1>4. Analysis!BiasOk(n, other) <=> Analysis!BiasOk(m, side)
    BY <1>1, <1>2, TrendTurns DEF Analysis!BiasOk, Analysis!MirrorTrend, Trends, Opposite, Sides
  <1>5. /\ Analysis!RegimeOpposes(n, other) <=> Analysis!RegimeOpposes(m, side)
        /\ Analysis!SetupOpposes(n, other) <=> Analysis!SetupOpposes(m, side)
        /\ Analysis!ContextOpposes(n, other) <=> Analysis!ContextOpposes(m, side)
    BY <1>1, <1>2, TrendTurns, ContextTurns, OpposesTurns
    DEF Analysis!RegimeOpposes, Analysis!SetupOpposes, Analysis!ContextOpposes
  <1>6. Analysis!Volatile(n) <=> Analysis!Volatile(m)
    BY <1>2 DEF Analysis!Volatile
  <1>7. Analysis!TooLate(n) <=> Analysis!TooLate(m)
    <2>1. m.cur.h \in Int /\ m.cur.l \in Int
      BY <1>1 DEF Bar
    <2>2. n.cur.h - n.cur.l = m.cur.h - m.cur.l
      BY <1>2, <2>1 DEF Analysis!MirrorBar
    <2>3. Analysis!Abs(n.fast) = Analysis!Abs(m.fast)
      BY <1>1, <1>2 DEF Analysis!Abs
    <2> QED BY <2>2, <2>3 DEF Analysis!TooLate
  <1>8. Analysis!Rejected(n, other) <=> Analysis!Rejected(m, side)
    BY <1>1, <1>2, RejectionTurns DEF Analysis!Rejected
  <1>9. /\ Analysis!StopOk(n, other) <=> Analysis!StopOk(m, side)
        /\ Analysis!RoomOk(n, other) <=> Analysis!RoomOk(m, side)
    <2> HIDE DEF other
    <2>1. Analysis!StopOk(n, other) <=> Analysis!StopOk(m, side)
      BY <1>2, <1>3 DEF Analysis!StopOk
    <2>2. Analysis!RoomOk(n, other) <=> Analysis!RoomOk(m, side)
      BY <1>2, <1>3 DEF Analysis!RoomOk
    <2> QED BY <2>1, <2>2
  <1> QED BY <1>4, <1>5, <1>6, <1>7, <1>8, <1>9 DEF n

\* So do the confirmations and the triggers that count, the penalty and the score.
LEMMA ScoreTurns ==
  ASSUME NEW m \in MarketViews, ~Analysis!Flat(m.cur), NEW side \in Sides, NEW points \in Pairs
  PROVE  LET n == Analysis!Mirror(m)
             other == Opposite(side)
         IN /\ Analysis!Triggers(n, other) = Analysis!Triggers(m, side)
            /\ Analysis!Confirmations(n, other) = Analysis!Confirmations(m, side)
            /\ Analysis!Score(n, other, Swap(points)) = Analysis!Score(m, side, points)
  <1> DEFINE n == Analysis!Mirror(m)
             other == Opposite(side)
  <1>1. Analysis!Triggers(n, other) = Analysis!Triggers(m, side)
    BY TriggersTurn DEF Analysis!Triggers, Opposite, Sides
  <1>2. Analysis!Confirmations(n, other) = Analysis!Confirmations(m, side)
    <2>1. m.micro \in MicroViews /\ n.micro = Analysis!MirrorMicro(m.micro)
      BY MirrorFields DEF MarketViews
    <2> QED BY <2>1, MicroTurns DEF Analysis!Confirmations
  <1>3. n.tight = m.tight
    BY MirrorFields
  <1>4. Analysis!Penalty(n, other) = Analysis!Penalty(m, side)
    <2>1. \A a, b : (a <=> b) => /\ Analysis!One(a) = Analysis!One(b)
                                /\ Analysis!One(~a) = Analysis!One(~b)
      BY Zenon DEF Analysis!One
    <2> HIDE DEF n, other
    <2>2. /\ Analysis!One(~Analysis!BiasOk(n, other)) = Analysis!One(~Analysis!BiasOk(m, side))
          /\ Analysis!One(Analysis!RegimeOpposes(n, other)) =
               Analysis!One(Analysis!RegimeOpposes(m, side))
          /\ Analysis!One(Analysis!SetupOpposes(n, other)) =
               Analysis!One(Analysis!SetupOpposes(m, side))
          /\ Analysis!One(Analysis!ContextOpposes(n, other)) =
               Analysis!One(Analysis!ContextOpposes(m, side))
          /\ Analysis!One(~Analysis!Volatile(n)) = Analysis!One(~Analysis!Volatile(m))
          /\ Analysis!One(Analysis!TooLate(n)) = Analysis!One(Analysis!TooLate(m))
          /\ Analysis!One(Analysis!Rejected(n, other)) = Analysis!One(Analysis!Rejected(m, side))
          /\ Analysis!One(~Analysis!StopOk(n, other)) = Analysis!One(~Analysis!StopOk(m, side))
          /\ Analysis!One(~Analysis!RoomOk(n, other)) = Analysis!One(~Analysis!RoomOk(m, side))
      BY <2>1, GatesTurn, Zenon DEF n, other
    <2> QED BY <1>3, <2>2, Zenon DEF Analysis!Penalty
  <1>5. (IF other = "LONG" THEN Swap(points)[1] ELSE Swap(points)[2]) =
          IF side = "LONG" THEN points[1] ELSE points[2]
    BY DEF Swap, Pairs, Opposite, Sides
  <1> HIDE DEF n, other
  <1>6. Analysis!Score(n, other, Swap(points)) = Analysis!Score(m, side, points)
    BY <1>2, <1>4, <1>5, Zenon DEF Analysis!Score
  <1> QED BY <1>1, <1>2, <1>6 DEF n, other

\* The targets lie as far on the other side.
LEMMA TargetsTurn ==
  ASSUME NEW side \in Sides, NEW risk \in Int
  PROVE  Analysis!Targets(Opposite(side), risk) = [k \in 1..3 |-> -Analysis!Targets(side, risk)[k]]
  BY DEF Analysis!Targets, Opposite, Sides

\* The whole assessment turns round.
LEMMA AssessmentTurns ==
  ASSUME NEW m \in MarketViews, ~Analysis!Flat(m.cur), NEW side \in Sides, NEW score
  PROVE  Analysis!Assess(Analysis!Mirror(m), Opposite(side), score) =
           Analysis!MirrorAnalysis(Analysis!Assess(m, side, score))
  <1> DEFINE n == Analysis!Mirror(m)
             other == Opposite(side)
             a == Analysis!Assess(m, side, score)
             risk == Analysis!Risk(m, side)
  <1>1. n.tight = m.tight
    BY MirrorFields
  <1>2. /\ Analysis!Triggers(n, other) = Analysis!Triggers(m, side)
        /\ Analysis!Confirmations(n, other) = Analysis!Confirmations(m, side)
    <2>1. <<0, 0>> \in Pairs
      BY DEF Pairs
    <2> QED BY <2>1, ScoreTurns
  <1>3. Analysis!TooLate(n) <=> Analysis!TooLate(m)
    BY GatesTurn
  <1>4. Analysis!Executes(n, other, score) <=> Analysis!Executes(m, side, score)
    BY <1>1, <1>2, GatesTurn, Zenon DEF Analysis!Executes
  <1>5. Analysis!Status(n, other, score) = Analysis!Status(m, side, score)
    BY <1>4, Zenon DEF Analysis!Status
  <1>6. /\ Analysis!SwingStop(n, other) = -Analysis!SwingStop(m, side)
        /\ Analysis!Risk(n, other) = risk /\ risk \in Int
    BY StopTurns
  <1> HIDE DEF n, risk
  <1>7. Analysis!Targets(other, risk) = [k \in 1..3 |-> -Analysis!Targets(side, risk)[k]]
    BY <1>6, TargetsTurn
  <1>8. a = [side |-> side, status |-> Analysis!Status(m, side, score), score |-> score,
             triggers |-> Analysis!Triggers(m, side),
             micro |-> Analysis!Confirmations(m, side), fresh |-> ~Analysis!TooLate(m),
             sl |-> Analysis!SwingStop(m, side), tp |-> Analysis!Targets(side, risk)]
    BY Zenon DEF Analysis!Assess, risk
  <1>9. Analysis!Assess(n, other, score) =
          [side |-> other, status |-> Analysis!Status(m, side, score), score |-> score,
           triggers |-> Analysis!Triggers(m, side),
           micro |-> Analysis!Confirmations(m, side), fresh |-> ~Analysis!TooLate(m),
           sl |-> -Analysis!SwingStop(m, side),
           tp |-> [k \in 1..3 |-> -Analysis!Targets(side, risk)[k]]]
    <2>1. (~Analysis!TooLate(n)) = (~Analysis!TooLate(m))
      BY <1>3, Zenon
    <2> QED BY <1>2, <1>5, <1>6, <1>7, <2>1, Zenon DEF Analysis!Assess
  <1>10. other = IF side = "LONG" THEN "SHORT" ELSE "LONG"
    BY DEF Opposite
  <1>11. /\ a.side = side /\ a.status = Analysis!Status(m, side, score) /\ a.score = score
         /\ a.triggers = Analysis!Triggers(m, side)
         /\ a.micro = Analysis!Confirmations(m, side)
         /\ a.fresh = ~Analysis!TooLate(m)
         /\ a.sl = Analysis!SwingStop(m, side) /\ a.tp = Analysis!Targets(side, risk)
    BY <1>8
  <1> HIDE DEF a, other
  <1>12. Analysis!Assess(n, other, score) = Analysis!MirrorAnalysis(a)
    BY <1>9, <1>10, <1>11, Zenon DEF Analysis!MirrorAnalysis
  <1> QED BY <1>12 DEF n, a, other

\* The analysis of the mirror image, unless both sides have the same points.
LEMMA AnalysisTurns ==
  ASSUME NEW m \in MarketViews, ~Analysis!Flat(m.cur), ~(m.busy15 /\ m.body15 = 0),
         Analysis!Points(m)[1] # Analysis!Points(m)[2]
  PROVE  Analysis!Analyse(Analysis!Mirror(m)) =
           Analysis!MirrorAnalysis(Analysis!Analyse(m))
  <1> DEFINE n == Analysis!Mirror(m)
             points == Analysis!Points(m)
             side == Analysis!Preferred(points)
             score == Analysis!Score(m, side, points)
  <1>1. points \in Pairs /\ Analysis!Points(n) = Swap(points)
    BY PointsTurn
  <1>2. side \in Sides
    BY DEF Analysis!Preferred, Sides
  <1>3. Analysis!Preferred(Swap(points)) = Opposite(side)
    <2>1. points[1] # points[2]
      OBVIOUS
    <2> HIDE DEF points
    <2> QED BY <1>1, <2>1 DEF Analysis!Preferred, Swap, Pairs, Opposite
  <1> HIDE DEF points, side, n
  <1>4. Analysis!Score(n, Opposite(side), Swap(points)) = score
    BY <1>1, <1>2, ScoreTurns DEF n
  <1>5. Analysis!Analyse(n) = Analysis!Assess(n, Opposite(side), score)
    BY <1>1, <1>3, <1>4, Zenon DEF Analysis!Analyse, Analysis!AssessFor
  <1>6. Analysis!Analyse(m) = Analysis!Assess(m, side, score)
    BY Zenon DEF Analysis!Analyse, Analysis!AssessFor, points, side
  <1> HIDE DEF score
  <1>7. Analysis!Assess(Analysis!Mirror(m), Opposite(side), score) =
           Analysis!MirrorAnalysis(Analysis!Assess(m, side, score))
    BY <1>2, AssessmentTurns
  <1> QED BY <1>5, <1>6, <1>7, Zenon DEF n

\* What is kept is the analysis of the market.
AnalysisInv ==
  part = "analysis" =>
    market \in Markets /\ (analysis = Analysis!None \/ analysis = Analysis!Analyse(market))

\* Init establishes the invariant.
LEMMA AnalysisInit == InitAll => AnalysisInv
  <1> SUFFICES ASSUME InitAll, part = "analysis" PROVE AnalysisInv
    BY DEF AnalysisInv
  <1>1. Analysis!Init
    BY DEF InitAll
  <1> QED BY <1>1 DEF Analysis!Init, AnalysisInv

\* Every step keeps it.
LEMMA AnalysisSteps == AnalysisInv /\ [NextAll]_allVars => AnalysisInv'
  <1> SUFFICES ASSUME AnalysisInv, [NextAll]_allVars, part' = "analysis" PROVE AnalysisInv'
    BY DEF AnalysisInv
  <1>1. CASE AnalysisStep
    <2>1. market' = market /\ analysis' = Analysis!Analyse(market)
      BY <1>1 DEF AnalysisStep, Analysis!Next, Analysis!Analyze
    <2>2. Analysis!Analyse(market)' = Analysis!Analyse(market')
      BY Zenon
    <2>3. market \in Markets
      BY <1>1 DEF AnalysisInv, AnalysisStep
    <2> QED BY <2>1, <2>2, <2>3 DEF AnalysisInv
  <1>2. CASE UNCHANGED <<part, analysisVars>>
    BY <1>2 DEF AnalysisInv, analysisVars
  <1> QED
    BY <1>1, <1>2
    DEF NextAll, SignalsStep, ScanStep, RestStep, HotStep, SafetyStep, ReplayStep, allVars

\* For all markets and thresholds: turned upside down, a market gets the same score and
\* status for the other side, and its stop and targets upside down, but for a draw, a 15m
\* bar with volume that closed where it opened, and a 5m bar without a range.
THEOREM HalvesAgree == SpecAll => []MirroredAnalysis
  <1>1. AnalysisInv => MirroredAnalysis
    <2> SUFFICES ASSUME AnalysisInv, part = "analysis", analysis # Analysis!None,
                        Analysis!Points(market)[1] # Analysis!Points(market)[2],
                        ~(market.busy15 /\ market.body15 = 0), ~Analysis!Flat(market.cur)
                 PROVE  Analysis!Analyse(Analysis!Mirror(market)) =
                          Analysis!MirrorAnalysis(analysis)
      BY Zenon DEF MirroredAnalysis, Analysis!MirroredAnalysis
    <2>1. market \in MarketViews
      BY AnalysisAssumption DEF AnalysisInv
    <2>2. analysis = Analysis!Analyse(market)
      BY DEF AnalysisInv
    <2>3. Analysis!Analyse(Analysis!Mirror(market)) =
            Analysis!MirrorAnalysis(Analysis!Analyse(market))
      BY <2>1, AnalysisTurns
    <2> QED BY <2>2, <2>3, Zenon
  <1> QED BY <1>1, AnalysisInit, AnalysisSteps, PTL DEF SpecAll

=============================================================================
