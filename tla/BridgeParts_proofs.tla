------------------------- MODULE BridgeParts_proofs -------------------------
(***************************************************************************)
(* What holds of a command's way for all requests, clocks, orders,         *)
(* positions and bounds: of the delivery, that an event is carried out     *)
(* once in each run of the AutoTrader, that a close noted as applied holds *)
(* and that no command touches the trade of another signal; of the         *)
(* protocol, that a command is not turned down for its age and reaches the *)
(* executor as it was meant; of the orders of a trade, that they keep to   *)
(* the budget of the risk and that the targets sell the position; of the   *)
(* margin, that what is added stays within the ratio; of the fills, that   *)
(* a closed trade's books are exact and a listed execution is settled.  A  *)
(* step of another part leaves the variables that a part's invariant is    *)
(* about alone, and `part` never changes.                                  *)
(***************************************************************************)
EXTENDS BridgeParts, SequenceTheorems, WellFoundedInduction, TLAPS

-----------------------------------------------------------------------------
(* The delivery of the commands of a contract. *)

\* A task that will post again has posts left.
PostsLeft == \A c \in Commands : at[c] = "asleep" => attempt[c] < Most

\* The lock of the contract has a holder exactly while a handler is at work, and a handler
\* past its claim serves a management command whose row says so.
HandlerAtWork ==
  /\ serving = None <=> step = "free"
  /\ step = "opening" => serving.kind = "EXECUTE"
  /\ step \in {"claimed", "applied"} =>
       serving.kind # "EXECUTE" /\ event[serving] \in {"fresh", "old"}

\* A restart forgives one carrying out: without it the row says APPLIED, or the handler is
\* about to write that.
Noted(c) == event[c] = "APPLIED" \/ (serving = c /\ step = "applied")
CountedOnce ==
  \A c \in Commands : applied[c] <= crashes + (IF Noted(c) THEN 1 ELSE 0)

OneOpen == \A s, t \in Signals : trade[s] = "open" /\ trade[t] = "open" => s = t

\* A close that found an open trade: the signal has one, and once the close is carried out
\* the trade is over or unconfirmed.
CloseHolds ==
  \A c \in found :
    /\ trade[c.signal] # "none"
    /\ c.kind = "CLOSE" /\ Noted(c)
         => trade[c.signal] = "closed" \/ c.signal \in unconfirmed

DeliveryInv == TypeOK /\ PostsLeft /\ HandlerAtWork /\ CountedOnce /\ OneOpen /\ CloseHolds

\* The constants, as the steps below use them.
LEMMA Constants ==
  /\ \A c \in Commands : c.signal \in Signals /\ c.kind \in Kinds /\ c # None
  /\ Most \in Nat /\ Most > 0 /\ MaxCrashes \in Nat /\ MaxFaults \in Nat
  /\ \A c \in Commands : Attempts(c) \in 1..Most
  BY DeliveryAssumption DEF DeliveryAssumption, Signals

\* Init establishes the invariant.
LEMMA DeliveryInit == Init => DeliveryInv
  BY Constants
  DEF Init, DeliveryInv, TypeOK, Requests, PostsLeft, HandlerAtWork, CountedOnce, Noted, OneOpen,
      CloseHolds

\* The post of an attempt keeps the invariant.
LEMMA PostKeeps ==
  ASSUME NEW c \in Commands, DeliveryInv, Post(c) PROVE DeliveryInv'
  <1> USE Constants DEF DeliveryInv, Post, Goes, handler, tables, history, budget
  <1>1. TypeOK'
    <2>1. attempt' \in [Commands -> 1..Most]
      BY DEF TypeOK, PostsLeft
    <2>2. arriving' \subseteq Requests
      <3>1. <<c, attempt'[c]>> \in Requests
        BY <2>1 DEF Requests
      <3> QED
        BY <3>1 DEF TypeOK
    <2> QED
      BY <2>1, <2>2 DEF TypeOK, Outcome
  <1>2. PostsLeft'
    BY DEF TypeOK, PostsLeft
  <1>3. HandlerAtWork'
    BY DEF TypeOK, HandlerAtWork
  <1>4. CountedOnce'
    BY DEF TypeOK, HandlerAtWork, CountedOnce, Noted
  <1>5. OneOpen'
    BY DEF TypeOK, OneOpen
  <1>6. CloseHolds'
    BY DEF TypeOK, HandlerAtWork, CloseHolds, Noted
  <1> QED
    BY <1>1, <1>2, <1>3, <1>4, <1>5, <1>6

\* An attempt given up keeps the invariant.
LEMMA FailsKeeps ==
  ASSUME NEW c \in Commands, DeliveryInv, Fails(c) PROVE DeliveryInv'
  <1> USE Constants DEF DeliveryInv, Fails, Goes, handler, tables, history, budget
  <1>1. TypeOK'
    BY DEF TypeOK, Requests, Outcome
  <1>2. PostsLeft'
    BY DEF TypeOK, PostsLeft
  <1>3. HandlerAtWork'
    BY DEF TypeOK, HandlerAtWork
  <1>4. CountedOnce'
    BY DEF TypeOK, HandlerAtWork, CountedOnce, Noted
  <1>5. OneOpen'
    BY DEF TypeOK, OneOpen
  <1>6. CloseHolds'
    BY DEF TypeOK, HandlerAtWork, CloseHolds, Noted
  <1> QED
    BY <1>1, <1>2, <1>3, <1>4, <1>5, <1>6

\* A handler that takes the lock keeps the invariant.
LEMMA TakeUpKeeps ==
  ASSUME NEW c \in Commands, NEW n \in 1..Most, DeliveryInv, TakeUp(c, n) PROVE DeliveryInv'
  <1> USE Constants DEF DeliveryInv, TakeUp, Free, scanner, tables, history, budget
  <1>1. TypeOK'
    BY DEF TypeOK, Requests, Outcome
  <1>2. PostsLeft'
    BY DEF TypeOK, PostsLeft
  <1>3. HandlerAtWork'
    BY DEF TypeOK, HandlerAtWork
  <1>4. CountedOnce'
    BY DEF TypeOK, HandlerAtWork, CountedOnce, Noted
  <1>5. OneOpen'
    BY DEF TypeOK, OneOpen
  <1>6. CloseHolds'
    BY DEF TypeOK, HandlerAtWork, CloseHolds, Noted
  <1> QED
    BY <1>1, <1>2, <1>3, <1>4, <1>5, <1>6

\* EXECUTE up to the row of its trade keeps the invariant.
LEMMA ExecuteKeeps ==
  ASSUME NEW c \in Commands, DeliveryInv, Execute(c) PROVE DeliveryInv'
  <1> USE Constants DEF DeliveryInv, Execute, ExecuteTurnedDown, ExecuteKept, SavePending, ExecuteOpens, IsNew, NoneOpen, Answer, Release, StepTo, Goes, tables, history, budget
  <1>1. TypeOK'
    BY DEF TypeOK, Requests, Outcome
  <1>2. PostsLeft'
    BY DEF TypeOK, PostsLeft
  <1>3. HandlerAtWork'
    BY DEF TypeOK, HandlerAtWork
  <1>4. CountedOnce'
    BY DEF TypeOK, HandlerAtWork, CountedOnce, Noted
  <1>5. OneOpen'
    BY DEF TypeOK, OneOpen
  <1>6. CloseHolds'
    BY DEF TypeOK, HandlerAtWork, CloseHolds, Noted
  <1> QED
    BY <1>1, <1>2, <1>3, <1>4, <1>5, <1>6

\* The end of an EXECUTE keeps the invariant.
LEMMA ExecuteEndsKeeps ==
  ASSUME NEW c \in Commands, DeliveryInv, ExecuteEnds(c) PROVE DeliveryInv'
  <1> USE Constants DEF DeliveryInv, ExecuteEnds, Answer, Raise, Release, Goes, history
  <1>1. TypeOK'
    BY DEF TypeOK, Requests, Outcome
  <1>2. PostsLeft'
    BY DEF TypeOK, PostsLeft
  <1>3. HandlerAtWork'
    BY DEF TypeOK, HandlerAtWork
  <1>4. CountedOnce'
    BY DEF TypeOK, HandlerAtWork, CountedOnce, Noted
  <1>5. OneOpen'
    BY DEF TypeOK, OneOpen
  <1>6. CloseHolds'
    BY DEF TypeOK, HandlerAtWork, CloseHolds, Noted
  <1> QED
    BY <1>1, <1>2, <1>3, <1>4, <1>5, <1>6

\* A management command up to its claim keeps the invariant.
LEMMA ManagementKeeps ==
  ASSUME NEW c \in Commands, DeliveryInv, Management(c) PROVE DeliveryInv'
  <1> USE Constants DEF DeliveryInv, Management, ManagementSkipped, ManagementRepeated, ManagementClaimed, Target, TradeTarget, PendingTarget, Hidden, AlreadyClaimed, NoneOpen, Closing, Answer, Release, StepTo, Goes, tables, budget
  <1>1. TypeOK'
    BY DEF TypeOK, Requests, Outcome
  <1>2. PostsLeft'
    BY DEF TypeOK, PostsLeft
  <1>3. HandlerAtWork'
    BY DEF TypeOK, HandlerAtWork
  <1>4. CountedOnce'
    BY DEF TypeOK, HandlerAtWork, CountedOnce, Noted
  <1>5. OneOpen'
    BY DEF TypeOK, OneOpen
  <1>6. CloseHolds'
    BY DEF TypeOK, HandlerAtWork, CloseHolds, Noted
  <1> QED
    BY <1>1, <1>2, <1>3, <1>4, <1>5, <1>6

\* A management command carried out keeps the invariant.
LEMMA ApplyKeeps ==
  ASSUME NEW c \in Commands, DeliveryInv, Apply(c) PROVE DeliveryInv'
  <1> USE Constants DEF DeliveryInv, Apply, CloseTrade, KeepTrade, CancelPending, TradeTarget, Counted, StepTo, budget
  <1>1. TypeOK'
    BY DEF TypeOK, Requests, Outcome
  <1>2. PostsLeft'
    BY DEF TypeOK, PostsLeft
  <1>3. HandlerAtWork'
    BY DEF TypeOK, HandlerAtWork
  <1>4. CountedOnce'
    BY DEF TypeOK, HandlerAtWork, CountedOnce, Noted
  <1>5. OneOpen'
    BY DEF TypeOK, OneOpen
  <1>6. CloseHolds'
    BY DEF TypeOK, HandlerAtWork, CloseHolds, Noted
  <1> QED
    BY <1>1, <1>2, <1>3, <1>4, <1>5, <1>6

\* A management command that raises keeps the invariant.
LEMMA ApplyFailsKeeps ==
  ASSUME NEW c \in Commands, DeliveryInv, ApplyFails(c) PROVE DeliveryInv'
  <1> USE Constants DEF DeliveryInv, ApplyFails, Raise, Release, TradeTarget, history
  <1>1. TypeOK'
    BY DEF TypeOK, Requests, Outcome
  <1>2. PostsLeft'
    BY DEF TypeOK, PostsLeft
  <1>3. HandlerAtWork'
    BY DEF TypeOK, HandlerAtWork
  <1>4. CountedOnce'
    BY DEF TypeOK, HandlerAtWork, CountedOnce, Noted
  <1>5. OneOpen'
    BY DEF TypeOK, OneOpen
  <1>6. CloseHolds'
    BY DEF TypeOK, HandlerAtWork, CloseHolds, Noted
  <1> QED
    BY <1>1, <1>2, <1>3, <1>4, <1>5, <1>6

\* A management command noted as applied keeps the invariant.
LEMMA FinishKeeps ==
  ASSUME NEW c \in Commands, DeliveryInv, Finish(c) PROVE DeliveryInv'
  <1> USE Constants DEF DeliveryInv, Finish, Answer, Release, Goes, history, budget
  <1>1. TypeOK'
    BY DEF TypeOK, Requests, Outcome
  <1>2. PostsLeft'
    BY DEF TypeOK, PostsLeft
  <1>3. HandlerAtWork'
    BY DEF TypeOK, HandlerAtWork
  <1>4. CountedOnce'
    BY DEF TypeOK, HandlerAtWork, CountedOnce, Noted
  <1>5. OneOpen'
    BY DEF TypeOK, OneOpen
  <1>6. CloseHolds'
    BY DEF TypeOK, HandlerAtWork, CloseHolds, Noted
  <1> QED
    BY <1>1, <1>2, <1>3, <1>4, <1>5, <1>6

\* A claim of 30 seconds keeps the invariant.
LEMMA ClaimAgesKeeps ==
  ASSUME NEW c \in Commands, DeliveryInv, ClaimAges(c) PROVE DeliveryInv'
  <1> USE Constants DEF DeliveryInv, ClaimAges, scanner, handler, history, budget
  <1>1. TypeOK'
    BY DEF TypeOK, Requests, Outcome
  <1>2. PostsLeft'
    BY DEF TypeOK, PostsLeft
  <1>3. HandlerAtWork'
    BY DEF TypeOK, HandlerAtWork
  <1>4. CountedOnce'
    BY DEF TypeOK, HandlerAtWork, CountedOnce, Noted
  <1>5. OneOpen'
    BY DEF TypeOK, OneOpen
  <1>6. CloseHolds'
    BY DEF TypeOK, HandlerAtWork, CloseHolds, Noted
  <1> QED
    BY <1>1, <1>2, <1>3, <1>4, <1>5, <1>6

\* A pending decision, and the end of a trade by itself keeps the invariant.
LEMMA DecisionKeeps ==
  ASSUME NEW s \in Signals, DeliveryInv, Decision(s) PROVE DeliveryInv'
  <1> USE Constants DEF DeliveryInv, Decision, Decide, DecisionExecutes, DecisionSettles, TradeEnds, Free, IsNew, NoneOpen, scanner, handler, history, budget
  <1>1. TypeOK'
    BY DEF TypeOK, Requests, Outcome
  <1>2. PostsLeft'
    BY DEF TypeOK, PostsLeft
  <1>3. HandlerAtWork'
    BY DEF TypeOK, HandlerAtWork
  <1>4. CountedOnce'
    BY DEF TypeOK, HandlerAtWork, CountedOnce, Noted
  <1>5. OneOpen'
    BY DEF TypeOK, OneOpen
  <1>6. CloseHolds'
    BY DEF TypeOK, HandlerAtWork, CloseHolds, Noted
  <1> QED
    BY <1>1, <1>2, <1>3, <1>4, <1>5, <1>6

\* A restart keeps the invariant.
LEMMA DeliveryCrashKeeps ==
  ASSUME DeliveryInv, Crash PROVE DeliveryInv'
  <1> USE Constants DEF DeliveryInv, Crash, scanner, history
  <1>1. TypeOK'
    BY DEF TypeOK, Requests, Outcome
  <1>2. PostsLeft'
    BY DEF TypeOK, PostsLeft
  <1>3. HandlerAtWork'
    BY DEF TypeOK, HandlerAtWork
  <1>4. CountedOnce'
    BY DEF TypeOK, HandlerAtWork, CountedOnce, Noted
  <1>5. OneOpen'
    BY DEF TypeOK, OneOpen
  <1>6. CloseHolds'
    BY DEF TypeOK, HandlerAtWork, CloseHolds, Noted
  <1> QED
    BY <1>1, <1>2, <1>3, <1>4, <1>5, <1>6

\* Every step keeps the invariant.
LEMMA NextKeeps == DeliveryInv /\ [Next]_vars => DeliveryInv'
  <1> SUFFICES ASSUME DeliveryInv, [Next]_vars PROVE DeliveryInv'
    OBVIOUS
  <1>1. CASE UNCHANGED vars
    BY <1>1
    DEF DeliveryInv, TypeOK, PostsLeft, HandlerAtWork, CountedOnce, Noted, OneOpen, CloseHolds,
        vars, scanner, handler, tables, history, budget
  <1>2. ASSUME NEW c \in Commands, Send(c) \/ Handle(c) \/ ClaimAges(c) PROVE DeliveryInv'
    BY <1>2, PostKeeps, FailsKeeps, ExecuteKeeps, ExecuteEndsKeeps, ManagementKeeps,
       ApplyKeeps, ApplyFailsKeeps, FinishKeeps, ClaimAgesKeeps DEF Send, Handle
  <1>3. ASSUME NEW c \in Commands, NEW n \in 1..Most, TakeUp(c, n) PROVE DeliveryInv'
    BY <1>3, TakeUpKeeps
  <1>4. ASSUME NEW s \in Signals, Decision(s) PROVE DeliveryInv'
    BY <1>4, DecisionKeeps
  <1>5. CASE Crash
    BY <1>5, DeliveryCrashKeeps
  <1> QED
    BY <1>1, <1>2, <1>3, <1>4, <1>5 DEF Next

\* The invariant holds in every reachable state (management, execute).
THEOREM DeliveryHolds == Spec => []DeliveryInv
  BY DeliveryInit, NextKeeps, PTL DEF Spec

\* The state stays within its types.
THEOREM TypeCorrect == Spec => []TypeOK
  <1>1. DeliveryInv => TypeOK
    BY DEF DeliveryInv
  <1> QED
    BY <1>1, DeliveryHolds, PTL

\* An event is carried out at most once in each run of the AutoTrader
\* (claim_management_event, finish_management_event).
THEOREM Idempotent == Spec => []AppliedOnce
  <1>1. DeliveryInv => AppliedOnce
    <2> SUFFICES ASSUME DeliveryInv, NEW c \in Commands PROVE applied[c] <= crashes + 1
      BY DEF AppliedOnce
    <2>1. applied[c] \in Nat /\ crashes \in Nat
      BY Constants DEF DeliveryInv, TypeOK
    <2>2. applied[c] <= crashes + (IF Noted(c) THEN 1 ELSE 0)
      BY DEF DeliveryInv, CountedOnce
    <2>3. CASE Noted(c)
      BY <2>1, <2>2, <2>3
    <2>4. CASE ~Noted(c)
      BY <2>1, <2>2, <2>4
    <2> QED
      BY <2>3, <2>4
  <1> QED
    BY <1>1, DeliveryHolds, PTL

\* A close that found an open trade and is noted as applied has ended it, or Bybit still
\* showed the position (close_trade).
THEOREM AppliedCloseIsFinal == Spec => []AppliedCloseHolds
  <1>1. DeliveryInv => AppliedCloseHolds
    BY DEF DeliveryInv, CloseHolds, Noted, AppliedCloseHolds
  <1> QED
    BY <1>1, DeliveryHolds, PTL

\* While a handler serves a command, no trade of another signal opens or closes
\* (stale_signal_id and the lock of the contract).
LEMMA StepSparesOthers ==
  ASSUME DeliveryInv, [Next]_vars, NEW s \in Signals, NEW c \in Commands,
         serving = c, c.signal # s
  PROVE  trade'[s] = trade[s]
  <1> USE Constants DEF DeliveryInv
  <1>1. step # "free"
    BY DEF HandlerAtWork
  <1>2. CASE UNCHANGED vars
    BY <1>2 DEF vars, tables
  <1>3. ASSUME NEW d \in Commands, Send(d) \/ ClaimAges(d) PROVE trade'[s] = trade[s]
    BY <1>3 DEF Send, Post, Fails, ClaimAges, tables
  <1>4. ASSUME NEW d \in Commands, Execute(d) PROVE trade'[s] = trade[s]
    BY <1>4 DEF Execute, ExecuteTurnedDown, ExecuteKept, ExecuteOpens, tables, TypeOK
  <1>5. ASSUME NEW d \in Commands, ExecuteEnds(d) PROVE trade'[s] = trade[s]
    BY <1>5 DEF ExecuteEnds, TypeOK
  <1>6. ASSUME NEW d \in Commands, Apply(d) PROVE trade'[s] = trade[s]
    BY <1>6 DEF Apply, CloseTrade, KeepTrade, CancelPending, TradeTarget, OneOpen, TypeOK
  <1>7. ASSUME NEW d \in Commands, Management(d) \/ ApplyFails(d) \/ Finish(d)
        PROVE  trade'[s] = trade[s]
    BY <1>7 DEF Management, ApplyFails, Finish
  <1>8. ASSUME NEW d \in Commands, NEW n \in 1..Most, TakeUp(d, n)
        PROVE  trade'[s] = trade[s]
    BY <1>8 DEF TakeUp, tables
  <1>9. ASSUME NEW r \in Signals, Decision(r) PROVE trade'[s] = trade[s]
    BY <1>1, <1>9
    DEF Decision, Decide, DecisionExecutes, DecisionSettles, TradeEnds, Free
  <1>10. CASE Crash
    BY <1>10 DEF Crash
  <1> QED
    BY <1>2, <1>3, <1>4, <1>5, <1>6, <1>7, <1>8, <1>9, <1>10 DEF Next, Handle

THEOREM OthersSpared == Spec => SparesOthers
  <1>1. DeliveryInv /\ [Next]_vars =>
          [\A s \in Signals, c \in Commands :
             serving = c /\ c.signal # s =>
               /\ trade'[s] # "closed" \/ trade[s] = "closed"
               /\ trade'[s] # "open" \/ trade[s] = "open"]_vars
    BY StepSparesOthers
  <1> QED
    BY <1>1, DeliveryHolds, PTL DEF Spec, SparesOthers


-----------------------------------------------------------------------------
(* The builders and the validator. *)

\* What a built EXECUTE keeps of the raw command, and what the builder made sure of.
BuiltFrom(b, r) ==
  /\ b \in RawCommands /\ b.event = "EXECUTE" /\ b.symbol = "plain"
  /\ b.side = Protocol!NormalizeSide(r.side)
  /\ b.action = r.action /\ b.id = r.id /\ b.signal = r.signal /\ b.levels = r.levels
  /\ b.source = r.source /\ b.expires = r.expires /\ b.new_sl = r.new_sl /\ b.smart = r.smart
SoundExecute(r) ==
  /\ Protocol!IsSide(r.side) /\ Protocol!Positive(r.levels) /\ r.levels.low <= r.levels.high
  /\ Protocol!Ordered(r.side, r.levels)
  /\ Protocol!Identifier(r.signal) /\ Protocol!IsSymbol(r.symbol)

LEMMA InvalidEvent == Protocol!Invalid.event = "invalid"
  BY DEF Protocol!Invalid

\* build_execute_payload.
LEMMA ExecuteBuilt ==
  ASSUME NEW r \in RawCommands, NEW now \in Int, Protocol!BuildExecute(r, now) # Protocol!Invalid
  PROVE  /\ BuiltFrom(Protocol!BuildExecute(r, now), r)
         /\ SoundExecute(r) /\ Protocol!SourceTimesValid(r.source, r.expires, now)
  <1>1. SoundExecute(r) /\ Protocol!SourceTimesValid(r.source, r.expires, now)
    BY DEF Protocol!BuildExecute, SoundExecute
  <1>2. Protocol!BuildExecute(r, now)
          = [r EXCEPT !.event = "EXECUTE", !.side = Protocol!NormalizeSide(@),
                      !.symbol = Protocol!NormalizeSymbol(@)]
    BY DEF Protocol!BuildExecute
  <1>3. Protocol!NormalizeSymbol(r.symbol) = "plain"
    BY <1>1 DEF SoundExecute, Protocol!NormalizeSymbol
  <1>4. Protocol!NormalizeSide(r.side) \in Texts
    BY DEF Protocol!NormalizeSide, RawCommands, Texts
  <1>5. "EXECUTE" \in Texts /\ "plain" \in Texts
    BY DEF Texts
  <1>6. ASSUME NEW side \in Texts, NEW symbol \in Texts,
               side = Protocol!NormalizeSide(r.side), symbol = "plain",
               NEW b, b = [r EXCEPT !.event = "EXECUTE", !.side = side, !.symbol = symbol]
        PROVE  BuiltFrom(b, r)
    <2>1. b \in RawCommands
      BY <1>5, <1>6 DEF RawCommands
    <2> QED BY <2>1, <1>6 DEF BuiltFrom, RawCommands
  <1>7. BuiltFrom(Protocol!BuildExecute(r, now), r)
    BY <1>2, <1>3, <1>4, <1>5, <1>6
  <1> QED BY <1>1, <1>7

\* A sound EXECUTE is refused for its times alone.
LEMMA ExecuteIsBuilt ==
  ASSUME NEW r \in RawCommands, NEW now \in Int,
         SoundExecute(r), Protocol!SourceTimesValid(r.source, r.expires, now)
  PROVE  /\ Protocol!BuildExecute(r, now) # Protocol!Invalid
         /\ Protocol!BuildExecute(r, now)
              = [r EXCEPT !.event = "EXECUTE", !.side = Protocol!NormalizeSide(@),
                          !.symbol = Protocol!NormalizeSymbol(@)]
  <1>1. Protocol!BuildExecute(r, now)
          = [r EXCEPT !.event = "EXECUTE", !.side = Protocol!NormalizeSide(@),
                      !.symbol = Protocol!NormalizeSymbol(@)]
    BY DEF Protocol!BuildExecute, SoundExecute
  <1>2. Protocol!BuildExecute(r, now).event = "EXECUTE"
    BY <1>1 DEF RawCommands
  <1> QED BY <1>1, <1>2, InvalidEvent

\* build_management_payload.
ManagedFrom(b, r) ==
  /\ b \in RawCommands /\ b.event = "MANAGEMENT" /\ b.symbol = "plain"
  /\ b.side = r.side /\ b.action = r.action /\ b.id = r.id /\ b.signal = r.signal
  /\ b.levels = r.levels /\ b.source = r.source /\ b.expires = r.expires
  /\ b.new_sl = r.new_sl /\ b.smart = r.smart
SoundManagement(r) ==
  /\ r.action # "" /\ r.new_sl # 0
  /\ Protocol!Identifier(r.id) /\ Protocol!Identifier(r.signal) /\ Protocol!IsSymbol(r.symbol)

LEMMA ManagementBuilt ==
  ASSUME NEW r \in RawCommands, NEW now \in Int,
         Protocol!BuildManagement(r, now) # Protocol!Invalid
  PROVE  /\ ManagedFrom(Protocol!BuildManagement(r, now), r)
         /\ SoundManagement(r) /\ Protocol!SourceTimesValid(r.source, 0, now)
  <1>1. SoundManagement(r) /\ Protocol!SourceTimesValid(r.source, 0, now)
    BY DEF Protocol!BuildManagement, SoundManagement
  <1>2. Protocol!BuildManagement(r, now)
          = [r EXCEPT !.event = "MANAGEMENT", !.symbol = Protocol!NormalizeSymbol(@)]
    BY DEF Protocol!BuildManagement
  <1>3. Protocol!NormalizeSymbol(r.symbol) = "plain"
    BY <1>1 DEF SoundManagement, Protocol!NormalizeSymbol
  <1>4. "MANAGEMENT" \in Texts /\ "plain" \in Texts
    BY DEF Texts
  <1>5. ASSUME NEW symbol \in Texts, symbol = "plain",
               NEW b, b = [r EXCEPT !.event = "MANAGEMENT", !.symbol = symbol]
        PROVE  ManagedFrom(b, r)
    <2>1. b \in RawCommands
      BY <1>4, <1>5 DEF RawCommands
    <2> QED BY <2>1, <1>5 DEF ManagedFrom, RawCommands
  <1> QED BY <1>1, <1>2, <1>3, <1>4, <1>5

LEMMA ManagementIsBuilt ==
  ASSUME NEW r \in RawCommands, NEW now \in Int,
         SoundManagement(r), Protocol!SourceTimesValid(r.source, 0, now)
  PROVE  /\ Protocol!BuildManagement(r, now) # Protocol!Invalid
         /\ Protocol!BuildManagement(r, now)
              = [r EXCEPT !.event = "MANAGEMENT", !.symbol = Protocol!NormalizeSymbol(@)]
  <1>1. Protocol!BuildManagement(r, now)
          = [r EXCEPT !.event = "MANAGEMENT", !.symbol = Protocol!NormalizeSymbol(@)]
    BY DEF Protocol!BuildManagement, SoundManagement
  <1>2. Protocol!BuildManagement(r, now).event = "MANAGEMENT"
    BY <1>1 DEF RawCommands
  <1> QED BY <1>1, <1>2, InvalidEvent

\* What the validator fills in: a window that is missing, the action of a shorthand.
LEMMA Windowed ==
  ASSUME NEW r \in RawCommands
  PROVE  LET w == Protocol!WithWindow(r)
         IN /\ w \in RawCommands
            /\ w.event = r.event /\ w.action = r.action /\ w.id = r.id /\ w.signal = r.signal
            /\ w.symbol = r.symbol /\ w.side = r.side /\ w.source = r.source
            /\ w.expires = r.expires /\ w.new_sl = r.new_sl /\ w.smart = r.smart
            /\ r.levels.low # 0 /\ r.levels.high # 0 => w = r
  <1> DEFINE low == IF r.levels.low = 0 THEN r.levels.entry ELSE r.levels.low
             high == IF r.levels.high = 0 THEN r.levels.entry ELSE r.levels.high
             l == [r.levels EXCEPT !.low = low, !.high = high]
  <1>1. r.levels \in Prices7
    BY DEF RawCommands
  <1>2. l \in Prices7 /\ (r.levels.low # 0 /\ r.levels.high # 0 => l = r.levels)
    BY <1>1 DEF Prices7
  <1>3. Protocol!WithWindow(r) = [r EXCEPT !.levels = l]
    BY <1>1 DEF Protocol!WithWindow, RawCommands, Prices7
  <1> HIDE DEF l
  <1> QED BY <1>2, <1>3 DEF RawCommands

LEMMA Actioned ==
  ASSUME NEW r \in RawCommands
  PROVE  LET w == Protocol!WithAction(r)
         IN /\ w \in RawCommands /\ w.signal = r.signal /\ w.source = r.source
            /\ w.smart = r.smart
            /\ r.action # "" => w = r
            /\ r.action = "" => w.action = IF r.event \in Protocol!Aliases THEN r.event ELSE ""
  BY DEF Protocol!WithAction, RawCommands

LEMMA ExecuteArm ==
  ASSUME NEW r \in RawCommands, NEW now \in Int, r.event \in {"", "EXECUTE"}
  PROVE  Protocol!Validate(r, now) = Protocol!BuildExecute(Protocol!WithWindow(r), now)
  <1>1. r.event \notin {"MANAGEMENT"} \cup Protocol!Aliases
    BY DEF Protocol!Aliases
  <1> QED BY <1>1, Zenon DEF Protocol!Validate

\* An event of the validator's result.
LEMMA ValidCases ==
  ASSUME NEW r \in RawCommands, NEW now \in Int, Protocol!Validate(r, now) # Protocol!Invalid
  PROVE  \/ /\ r.event \in {"", "EXECUTE"}
            /\ Protocol!Validate(r, now) = Protocol!BuildExecute(Protocol!WithWindow(r), now)
         \/ /\ r.event \in {"MANAGEMENT"} \cup Protocol!Aliases
            /\ r.event \notin {"", "EXECUTE"}
            /\ Protocol!Validate(r, now) = Protocol!BuildManagement(Protocol!WithAction(r), now)
  BY Zenon DEF Protocol!Validate, Protocol!Aliases

\* What was meant by a raw command is what the validator makes of it.
MeantBy(v, r) ==
  /\ v \in RawCommands /\ v.event \in {"EXECUTE", "MANAGEMENT"}
  /\ v.signal = r.signal
  /\ v.event = "EXECUTE" <=> r.event \in {"", "EXECUTE"}
  /\ v.event = "MANAGEMENT" => v.action = IF r.action # "" THEN r.action ELSE r.event
WellLevelled(v) ==
  v.event = "EXECUTE" =>
    /\ 0 < v.levels.low /\ v.levels.low <= v.levels.high
    /\ IF v.side = "LONG"
         THEN v.levels.sl < v.levels.entry /\ v.levels.entry < v.levels.tp3
         ELSE v.levels.sl > v.levels.entry /\ v.levels.entry > v.levels.tp3

LEMMA SoundLevels ==
  ASSUME NEW r \in RawCommands, NEW b, BuiltFrom(b, r), SoundExecute(r)
  PROVE  WellLevelled(b)
  <1>1. r.levels \in Prices7
    BY DEF RawCommands
  <1>2. r.levels.low \in Nat /\ r.levels.high \in Nat /\ r.levels.entry \in Nat
        /\ r.levels.sl \in Nat /\ r.levels.tp1 \in Nat /\ r.levels.tp2 \in Nat
        /\ r.levels.tp3 \in Nat
    BY <1>1 DEF Prices7
  <1>3. r.levels.low > 0
    BY <1>1 DEF SoundExecute, Protocol!Positive, Prices7
  <1>4. b.side = "LONG" \/ b.side = "SHORT"
    BY DEF BuiltFrom, SoundExecute, Protocol!IsSide
  <1>5. CASE b.side = "LONG"
    BY <1>2, <1>3, <1>5 DEF BuiltFrom, SoundExecute, Protocol!Ordered, WellLevelled
  <1>6. CASE b.side = "SHORT"
    BY <1>2, <1>3, <1>6 DEF BuiltFrom, SoundExecute, Protocol!Ordered, WellLevelled
  <1> QED BY <1>4, <1>5, <1>6

LEMMA Validated ==
  ASSUME NEW r \in RawCommands, NEW now \in Int, Protocol!Validate(r, now) # Protocol!Invalid
  PROVE  MeantBy(Protocol!Validate(r, now), r) /\ WellLevelled(Protocol!Validate(r, now))
  <1> DEFINE v == Protocol!Validate(r, now)
  <1>1. CASE /\ r.event \in {"", "EXECUTE"}
             /\ v = Protocol!BuildExecute(Protocol!WithWindow(r), now)
    <2> DEFINE w == Protocol!WithWindow(r)
    <2>1. w \in RawCommands /\ w.signal = r.signal
      BY Windowed
    <2>2. BuiltFrom(v, w) /\ SoundExecute(w)
      BY <2>1, <1>1, ExecuteBuilt
    <2>3. WellLevelled(v)
      BY <2>1, <2>2, SoundLevels
    <2> QED BY <2>1, <2>2, <2>3, <1>1 DEF BuiltFrom, MeantBy
  <1>2. CASE /\ r.event \in {"MANAGEMENT"} \cup Protocol!Aliases
             /\ r.event \notin {"", "EXECUTE"}
             /\ v = Protocol!BuildManagement(Protocol!WithAction(r), now)
    <2> DEFINE w == Protocol!WithAction(r)
    <2>1. w \in RawCommands /\ w.signal = r.signal
      BY Actioned
    <2>2. ManagedFrom(v, w) /\ SoundManagement(w)
      BY <2>1, <1>2, ManagementBuilt
    <2>3. w.action # "" /\ v.action = w.action /\ v.event = "MANAGEMENT"
      BY <2>2 DEF ManagedFrom, SoundManagement
    <2>4. v.action = IF r.action # "" THEN r.action ELSE r.event
      BY <2>3, Actioned
    <2> QED BY <2>1, <2>2, <2>3, <2>4, <1>2 DEF ManagedFrom, MeantBy, WellLevelled
  <1> QED BY <1>1, <1>2, ValidCases

\* The time of the validation can only refuse a command, not change it; and a command
\* that was valid is refused later only if its own time is ahead of the clock.
LEMMA ValidLater ==
  ASSUME NEW r \in RawCommands, NEW now \in Int, NEW later \in Int,
         Protocol!Validate(r, now) # Protocol!Invalid,
         r.source > 0 => r.source <= later + MaxAhead
  PROVE  Protocol!Validate(r, later) = Protocol!Validate(r, now)
  <1>0. r.source \in Int /\ r.expires \in Nat /\ MaxAhead \in Nat
    BY ProtocolAssumption DEF RawCommands
  <1>1. CASE /\ r.event \in {"", "EXECUTE"}
             /\ Protocol!Validate(r, now) = Protocol!BuildExecute(Protocol!WithWindow(r), now)
    <2> DEFINE w == Protocol!WithWindow(r)
    <2>1. w \in RawCommands /\ w.source = r.source /\ w.expires = r.expires
      BY Windowed
    <2>2. SoundExecute(w) /\ Protocol!SourceTimesValid(w.source, w.expires, now)
      BY <2>1, <1>1, ExecuteBuilt
    <2>3. Protocol!SourceTimesValid(w.source, w.expires, later)
      BY <2>1, <2>2, <1>0 DEF Protocol!SourceTimesValid
    <2>4. Protocol!BuildExecute(w, later) = Protocol!BuildExecute(w, now)
      BY <2>1, <2>2, <2>3, ExecuteIsBuilt
    <2>5. Protocol!Validate(r, later) = Protocol!BuildExecute(w, later)
      BY <1>1, ExecuteArm
    <2> QED BY <2>4, <2>5, <1>1
  <1>2. CASE /\ r.event \in {"MANAGEMENT"} \cup Protocol!Aliases
             /\ r.event \notin {"", "EXECUTE"}
             /\ Protocol!Validate(r, now) = Protocol!BuildManagement(Protocol!WithAction(r), now)
    <2> DEFINE w == Protocol!WithAction(r)
    <2>1. w \in RawCommands /\ w.source = r.source
      BY Actioned
    <2>2. SoundManagement(w) /\ Protocol!SourceTimesValid(w.source, 0, now)
      BY <2>1, <1>2, ManagementBuilt
    <2>3. Protocol!SourceTimesValid(w.source, 0, later)
      BY <2>1, <2>2, <1>0 DEF Protocol!SourceTimesValid
    <2>4. Protocol!BuildManagement(w, later) = Protocol!BuildManagement(w, now)
      BY <2>1, <2>2, <2>3, ManagementIsBuilt
    <2>5. Protocol!Validate(r, later) = Protocol!BuildManagement(w, later)
      BY <1>2, Zenon DEF Protocol!Validate
    <2> QED BY <2>4, <2>5, <1>2
  <1> QED BY <1>1, <1>2, ValidCases

\* Validating what the builders made changes nothing.
LEMMA BuiltIsValid ==
  ASSUME NEW r \in RawCommands, NEW now \in Int, NEW later \in Int, NEW b,
         b \in {Protocol!BuildExecute(r, now), Protocol!BuildManagement(r, now)},
         b # Protocol!Invalid,
         r.source > 0 => r.source <= later + MaxAhead
  PROVE  Protocol!Validate(b, later) = b /\ b # Protocol!Invalid
  <1>0. r.source \in Int /\ r.expires \in Nat /\ MaxAhead \in Nat
    BY ProtocolAssumption DEF RawCommands
  <1>1. CASE b = Protocol!BuildExecute(r, now)
    <2>1. /\ BuiltFrom(b, r) /\ SoundExecute(r)
          /\ Protocol!SourceTimesValid(r.source, r.expires, now)
      BY <1>1, ExecuteBuilt
    <2>2. Protocol!IsSide(b.side) /\ Protocol!NormalizeSide(b.side) = b.side
      BY <2>1 DEF BuiltFrom, SoundExecute, Protocol!IsSide, Protocol!NormalizeSide
    <2>3. b.symbol = "plain" /\ Protocol!IsSymbol(b.symbol)
          /\ Protocol!NormalizeSymbol(b.symbol) = b.symbol
      BY <2>1 DEF BuiltFrom, Protocol!IsSymbol, Protocol!NormalizeSymbol, Protocol!Separated
    <2>4. Protocol!Ordered(b.side, b.levels)
      <3>1. Protocol!NormalizeSide(b.side) = Protocol!NormalizeSide(r.side) /\ b.levels = r.levels
        BY <2>1, <2>2 DEF BuiltFrom
      <3> QED BY <2>1, <3>1 DEF SoundExecute, Protocol!Ordered
    <2>5. SoundExecute(b) /\ Protocol!SourceTimesValid(b.source, b.expires, later)
      BY <2>1, <2>2, <2>3, <2>4, <1>0 DEF BuiltFrom, SoundExecute, Protocol!SourceTimesValid
    <2>6. b \in RawCommands /\ b.event = "EXECUTE"
      BY <2>1 DEF BuiltFrom
    <2>7. b.levels \in Prices7
      BY <2>6 DEF RawCommands
    <2>8. b.levels.low # 0 /\ b.levels.high # 0
      BY <2>5, <2>7 DEF SoundExecute, Protocol!Positive, Prices7
    <2>9. Protocol!WithWindow(b) = b
      BY <2>6, <2>8, Windowed
    <2>10. Protocol!Validate(b, later) = Protocol!BuildExecute(b, later)
      BY <2>6, <2>9, SMT DEF Protocol!Validate, Protocol!Aliases
    <2>11. Protocol!BuildExecute(b, later)
             = [b EXCEPT !.event = "EXECUTE", !.side = Protocol!NormalizeSide(@),
                         !.symbol = Protocol!NormalizeSymbol(@)]
      BY <2>5, <2>6, ExecuteIsBuilt
    <2>12. @ = b
      BY <2>2, <2>3, <2>6 DEF RawCommands
    <2> QED BY <2>10, <2>11, <2>12
  <1>2. CASE b = Protocol!BuildManagement(r, now)
    <2>1. /\ ManagedFrom(b, r) /\ SoundManagement(r)
          /\ Protocol!SourceTimesValid(r.source, 0, now)
      BY <1>2, ManagementBuilt
    <2>3. b.symbol = "plain" /\ Protocol!IsSymbol(b.symbol)
          /\ Protocol!NormalizeSymbol(b.symbol) = b.symbol
      BY <2>1 DEF ManagedFrom, Protocol!IsSymbol, Protocol!NormalizeSymbol, Protocol!Separated
    <2>5. SoundManagement(b) /\ Protocol!SourceTimesValid(b.source, 0, later)
      BY <2>1, <2>3, <1>0 DEF ManagedFrom, SoundManagement, Protocol!SourceTimesValid
    <2>6. b \in RawCommands /\ b.event = "MANAGEMENT" /\ b.action # ""
      BY <2>1 DEF ManagedFrom, SoundManagement
    <2>9. Protocol!WithAction(b) = b
      BY <2>6, Actioned
    <2>10. Protocol!Validate(b, later) = Protocol!BuildManagement(b, later)
      BY <2>6, <2>9 DEF Protocol!Validate
    <2>11. Protocol!BuildManagement(b, later)
             = [b EXCEPT !.event = "MANAGEMENT", !.symbol = Protocol!NormalizeSymbol(@)]
      BY <2>5, <2>6, ManagementIsBuilt
    <2>12. @ = b
      BY <2>3, <2>6 DEF RawCommands
    <2> QED BY <2>10, <2>11, <2>12
  <1> QED BY <1>1, <1>2

-----------------------------------------------------------------------------
(* The way of a command.  Scanner V2.6 rebuilds it for every post, dated with the post; V2.5 *)
(* dates it when it is written, which is no later than any post.                             *)

RebuiltAt(r, time) ==
  LET dated == [r EXCEPT !.source = time, !.smart = 0]
  IN IF r.event = "EXECUTE" THEN Protocol!BuildExecute(dated, time)
     ELSE Protocol!BuildManagement(dated, time)

\* Whatever V2.6 posts says what it was given, and is not refused for its age.
LEMMA RebuiltIsMeant ==
  ASSUME NEW r \in Raws, NEW time \in Int, RebuiltAt(r, time) # Protocol!Invalid
  PROVE  LET b == RebuiltAt(r, time)
         IN /\ MeantBy(b, r) /\ WellLevelled(b) /\ Protocol!Parses(b)
            /\ \A later \in Int :
                 time <= later + MaxAhead => Protocol!Validate(b, later) = b
  <1> DEFINE b == RebuiltAt(r, time)
             d == [r EXCEPT !.source = time, !.smart = 0]
  <1>1. r \in RawCommands /\ (r.event \in {"", "EXECUTE"} => r.action = "")
    BY ProtocolAssumption
  <1>2. /\ d \in RawCommands /\ d.source = time /\ d.smart = 0 /\ d.signal = r.signal
        /\ d.event = r.event /\ d.action = r.action
    BY <1>1 DEF RawCommands
  <1> HIDE DEF d
  <1>3. CASE r.event = "EXECUTE"
    <2>1. b = Protocol!BuildExecute(d, time)
      BY <1>3 DEF RebuiltAt, d
    <2>2. BuiltFrom(b, d) /\ SoundExecute(d)
      BY <2>1, <1>2, ExecuteBuilt
    <2>3. WellLevelled(b)
      BY <2>2, <1>2, SoundLevels
    <2>4. MeantBy(b, r) /\ b.smart = 0
      BY <2>2, <1>2, <1>3 DEF BuiltFrom, MeantBy
    <2>5. ASSUME NEW later \in Int, time <= later + MaxAhead
          PROVE  Protocol!Validate(b, later) = b
      BY <2>1, <2>5, <1>2, BuiltIsValid
    <2> QED BY <2>3, <2>4, <2>5 DEF Protocol!Parses
  <1>4. CASE r.event # "EXECUTE"
    <2>1. b = Protocol!BuildManagement(d, time)
      BY <1>4 DEF RebuiltAt, d
    <2>2. ManagedFrom(b, d) /\ SoundManagement(d)
      BY <2>1, <1>2, ManagementBuilt
    <2>3. d.action # ""
      BY <2>2 DEF SoundManagement
    <2>4. MeantBy(b, r) /\ b.smart = 0 /\ b.event = "MANAGEMENT"
      BY <2>2, <2>3, <1>1, <1>2 DEF ManagedFrom, MeantBy
    <2>5. ASSUME NEW later \in Int, time <= later + MaxAhead
          PROVE  Protocol!Validate(b, later) = b
      BY <2>1, <2>5, <1>2, BuiltIsValid
    <2> QED BY <2>4, <2>5 DEF Protocol!Parses, WellLevelled
  <1> QED BY <1>3, <1>4

Sound(b) ==
  /\ Protocol!Validate(b, b.source) # Protocol!Invalid
  /\ Protocol!Parses(Protocol!Validate(b, b.source))

ProtocolTypes ==
  /\ clock \in Nat /\ skew \in Int /\ raw \in Raws /\ client \in {"v26", "v25", "external"}
  /\ written \in BOOLEAN /\ signed \in Int /\ way \in Int
  /\ sent \in Nat /\ sent <= clock
  /\ status \in {0, 200, 401, 422}

\* A post is signed with the scanner's time of the post.
PostInv ==
  sent # 0 =>
    /\ signed = sent + skew
    /\ client = "v26" => body = RebuiltAt(raw, signed) /\ body # Protocol!Invalid
    /\ client # "v26" => written
    /\ client = "v25" => body.source <= signed

\* What waits says what its sender wrote, and was written no later than now.
WrittenInv ==
  written =>
    /\ client # "v26"
    /\ body \in RawCommands /\ body.signal = raw.signal
    /\ body.event = raw.event /\ body.action = raw.action
    /\ client = "v25" => body.source <= clock + skew

\* What the answers say of the way behind them.
AnswerInv ==
  /\ status = 401 => way - skew \notin -MaxSkew..MaxSkew
  /\ status = 422 => client # "v26" /\ (client = "v25" => written /\ ~Sound(body))
  /\ handed # Protocol!Invalid =>
       /\ MeantBy(handed, raw) /\ WellLevelled(handed)
       /\ client = "v26" => handed = body /\ status = 200 /\ sent = 0

ProtocolInv ==
  part = "protocol" => ProtocolTypes /\ PostInv /\ WrittenInv /\ AnswerInv

LEMMA ProtocolInit == InitAll => ProtocolInv
  <1> SUFFICES ASSUME InitAll, part = "protocol"
               PROVE  ProtocolTypes /\ PostInv /\ WrittenInv /\ AnswerInv
    BY DEF ProtocolInv
  <1>1. Protocol!Init
    BY DEF InitAll
  <1>2. ProtocolTypes
    <2>1. /\ clock = 1 /\ skew \in Skews /\ raw \in Raws /\ client \in {"v26", "v25", "external"}
          /\ written = FALSE /\ signed = 0 /\ sent = 0 /\ way = 0 /\ status = 0
      BY <1>1 DEF Protocol!Init
    <2>2. skew \in Int
      BY <2>1, ProtocolAssumption
    <2>3. written \in BOOLEAN
      BY <2>1
    <2>4. clock \in Nat /\ signed \in Int /\ way \in Int /\ sent \in Nat /\ sent <= clock
      BY <2>1
    <2>5. status \in {0, 200, 401, 422}
      BY <2>1
    <2> QED BY <2>1, <2>2, <2>3, <2>4, <2>5 DEF ProtocolTypes
  <1>3. PostInv /\ WrittenInv
    BY <1>1 DEF Protocol!Init, PostInv, WrittenInv
  <1>4. AnswerInv
    BY <1>1 DEF Protocol!Init, AnswerInv
  <1> QED BY <1>2, <1>3, <1>4

\* V2.5 changes the time and the id of what it was given.
LEMMA WrittenByV25 ==
  ASSUME NEW r \in RawCommands, NEW time \in Int
  PROVE  LET b == [r EXCEPT !.source = time, !.id = Protocol!BridgeEventId(@)]
         IN /\ b \in RawCommands /\ b.signal = r.signal /\ b.event = r.event
            /\ b.action = r.action /\ b.source = time
  <1>1. Protocol!BridgeEventId(r.id) \in Nat
    BY DEF Protocol!BridgeEventId, RawCommands
  <1> QED BY <1>1 DEF RawCommands

LEMMA ProtocolMoves ==
  ASSUME ProtocolInv, NextAll, part = "protocol"
  PROVE  ProtocolTypes' /\ PostInv' /\ WrittenInv' /\ AnswerInv'
  <1> USE DEF Protocol!setting, Protocol!letter, Protocol!answer
  <1>0. ProtocolTypes /\ PostInv /\ WrittenInv /\ AnswerInv
    BY DEF ProtocolInv
  <1>1. Protocol!Next
    BY DEF NextAll, DeliveryStep, ProtocolStep, OrdersStep, MarginStep, FillsStep
  <1>2. raw \in RawCommands /\ MaxSkew \in Nat /\ MaxAhead \in Nat /\ MaxSkew <= MaxAhead
    BY <1>0, ProtocolAssumption DEF ProtocolTypes
  <1>3. CASE Protocol!Tick
    <2>1. clock' = clock + 1 /\ UNCHANGED <<skew, raw, client, written, body, signed, sent, way, handed, status>>
      BY <1>3 DEF Protocol!Tick
    <2>2. ProtocolTypes'
      BY <2>1, <1>0 DEF ProtocolTypes
    <2>3. PostInv'
      BY <2>1, <1>0 DEF PostInv
    <2>4. WrittenInv'
      BY <2>1, <1>0, <1>2 DEF WrittenInv, ProtocolTypes, RawCommands
    <2>5. AnswerInv'
      BY <2>1, <1>0 DEF AnswerInv
    <2> QED BY <2>2, <2>3, <2>4, <2>5
  <1>4. CASE Protocol!Write
    <2>1. /\ client # "v26" /\ ~written /\ written'
          /\ UNCHANGED <<clock, skew, raw, client, signed, sent, way, handed, status>>
      BY <1>4 DEF Protocol!Write
    <2>2. sent = 0
      BY <2>1, <1>0 DEF PostInv
    <2>3. /\ body' \in RawCommands /\ body'.signal = raw.signal
          /\ body'.event = raw.event /\ body'.action = raw.action
          /\ client = "v25" => body'.source = clock + skew
      <3>1. CASE client = "v25"
        <4>1. clock + skew \in Int
          BY <1>0 DEF ProtocolTypes
        <4>2. body' = [raw EXCEPT !.source = clock + skew, !.id = Protocol!BridgeEventId(@)]
          BY <1>4, <3>1 DEF Protocol!Write, Protocol!ScannerClock
        <4> QED BY <4>1, <4>2, <1>2, WrittenByV25
      <3>2. CASE client # "v25"
        <4>1. body' = raw
          BY <1>4, <3>2 DEF Protocol!Write
        <4> QED BY <4>1, <3>2, <1>2
      <3> QED BY <3>1, <3>2
    <2>4. ProtocolTypes'
      BY <2>1, <1>0 DEF ProtocolTypes
    <2>5. WrittenInv'
      BY <2>1, <2>3, <1>0 DEF WrittenInv, ProtocolTypes
    <2> QED BY <2>1, <2>2, <2>4, <2>5, <1>0 DEF PostInv, AnswerInv
  <1>5. CASE Protocol!Post
    <2>1. /\ sent = 0 /\ status # 200 /\ signed' = clock + skew /\ sent' = clock
          /\ UNCHANGED <<clock, skew, raw, client, written, way, handed, status>>
      BY <1>5 DEF Protocol!Post, Protocol!SigningTime, Protocol!ScannerClock
    <2>2. CASE client = "v26"
      <3>1. body' = RebuiltAt(raw, clock + skew) /\ body' # Protocol!Invalid
        BY <1>5, <2>2 DEF Protocol!Post, Protocol!RebuiltByV26, RebuiltAt, Protocol!ScannerClock
      <3>2. ~written /\ status # 422 /\ handed = Protocol!Invalid
        BY <1>0, <2>1, <2>2 DEF WrittenInv, AnswerInv
      <3>3. ProtocolTypes'
        BY <1>0, <2>1 DEF ProtocolTypes
      <3>4. PostInv'
        BY <3>1, <2>1, <2>2 DEF PostInv
      <3> QED BY <3>2, <3>3, <3>4, <2>1, <1>0 DEF WrittenInv, AnswerInv
    <2>3. CASE client # "v26"
      <3>1. written /\ body' = body
        BY <1>5, <2>3 DEF Protocol!Post
      <3>2. ProtocolTypes'
        BY <1>0, <2>1 DEF ProtocolTypes
      <3>3. PostInv'
        BY <3>1, <2>1, <2>3, <1>0 DEF PostInv, WrittenInv
      <3> QED BY <3>1, <3>2, <3>3, <2>1, <2>3, <1>0 DEF WrittenInv, AnswerInv
    <2> QED BY <2>2, <2>3
  <1>6. CASE Protocol!Lost
    <2>1. sent # 0 /\ sent' = 0
          /\ UNCHANGED <<clock, skew, raw, client, written, body, signed, way, handed, status>>
      BY <1>6 DEF Protocol!Lost
    <2> QED BY <2>1, <1>0 DEF ProtocolTypes, PostInv, WrittenInv, AnswerInv
  <1>7. CASE Protocol!Arrive
    <2>1. /\ sent # 0 /\ sent' = 0 /\ way' = clock - sent
          /\ UNCHANGED <<clock, skew, raw, client, written, body, signed>>
      BY <1>7 DEF Protocol!Arrive
    <2>2. ProtocolTypes'
      BY <1>7, <2>1, <1>0 DEF Protocol!Arrive, ProtocolTypes
    <2>3. PostInv' /\ WrittenInv'
      BY <2>1, <1>0 DEF PostInv, WrittenInv
    <2>4. signed = sent + skew /\ clock - signed = way' - skew
      BY <2>1, <1>0 DEF PostInv, ProtocolTypes
    <2>5. client = "v26" =>
            MeantBy(body, raw) /\ WellLevelled(body) /\ handed = Protocol!Invalid
      BY <2>1, <1>0, RebuiltIsMeant DEF PostInv, ProtocolTypes, AnswerInv
    <2>6. CASE Protocol!Unauthorized /\ status' = 401 /\ UNCHANGED handed
      BY <2>1, <2>4, <2>5, <2>6, <2>2, <2>3, <1>0 DEF Protocol!Unauthorized, AnswerInv
    <2>7. ASSUME ~Protocol!Unauthorized
          PROVE  /\ signed <= clock + MaxAhead
                 /\ client = "v26" => Protocol!Validate(body, clock) = body /\ Protocol!Accepted
                 /\ client # "v26" => body \in RawCommands
                 /\ client = "v25" /\ Sound(body) => Protocol!Accepted
      <3>1. clock - signed >= -MaxSkew /\ clock \in Int /\ signed \in Int
        BY <2>7, <1>0, <1>2 DEF Protocol!Unauthorized, ProtocolTypes
      <3>2. signed <= clock + MaxAhead
        BY <3>1, <1>2
      <3>3. ASSUME client = "v26"
            PROVE  Protocol!Validate(body, clock) = body /\ Protocol!Accepted
        <4>1. body = RebuiltAt(raw, signed) /\ body # Protocol!Invalid
          BY <3>3, <2>1, <1>0 DEF PostInv
        <4>2. Protocol!Validate(body, clock) = body /\ Protocol!Parses(body)
          BY <4>1, <3>1, <3>2, <1>0, RebuiltIsMeant DEF ProtocolTypes
        <4> QED BY <4>1, <4>2 DEF Protocol!Accepted
      <3>4. client # "v26" => body \in RawCommands
        BY <2>1, <1>0 DEF PostInv, WrittenInv
      <3>5. ASSUME client = "v25", Sound(body)
            PROVE  Protocol!Accepted
        <4>1. body \in RawCommands /\ body.source \in Int /\ body.source <= signed
          BY <3>5, <3>4, <2>1, <1>0 DEF PostInv, RawCommands
        <4>2. body.source <= clock + MaxAhead
          BY <4>1, <3>1, <3>2, <1>2
        <4>3. Protocol!Validate(body, clock) = Protocol!Validate(body, body.source)
          BY <4>1, <4>2, <3>1, <3>5, ValidLater DEF Sound
        <4> QED BY <4>3, <3>5 DEF Sound, Protocol!Accepted
      <3> QED BY <3>2, <3>3, <3>4, <3>5
    <2>8. CASE ~Protocol!Unauthorized /\ ~Protocol!Accepted /\ status' = 422 /\ UNCHANGED handed
      <3>1. client # "v26" /\ (client = "v25" => ~Sound(body)) /\ written
        BY <2>7, <2>8, <2>1, <1>0 DEF PostInv
      <3> QED BY <3>1, <2>1, <2>2, <2>3, <2>8, <1>0 DEF AnswerInv
    <2>9. CASE /\ ~Protocol!Unauthorized /\ Protocol!Accepted
               /\ status' = 200 /\ handed' = Protocol!Validate(body, clock)
      <3>1. CASE client = "v26"
        <4>1. handed' = body /\ MeantBy(body, raw) /\ WellLevelled(body)
          BY <2>7, <2>9, <2>5, <3>1
        <4>2. MeantBy(handed', raw') /\ WellLevelled(handed') /\ handed' = body'
          BY <4>1, <2>1
        <4>3. status' = 200 /\ sent' = 0
          BY <2>1, <2>9
        <4>4. AnswerInv'
          BY <4>2, <4>3 DEF AnswerInv
        <4> QED BY <4>4, <2>2, <2>3
      <3>2. CASE client # "v26"
        <4>1. body \in RawCommands /\ clock \in Int
              /\ Protocol!Validate(body, clock) # Protocol!Invalid
          BY <2>7, <2>9, <3>2, <1>0 DEF Protocol!Accepted, ProtocolTypes
        <4>2. MeantBy(handed', body) /\ WellLevelled(handed')
          BY <4>1, <2>9, Validated
        <4>3. body.signal = raw.signal /\ body.event = raw.event /\ body.action = raw.action
          BY <2>1, <3>2, <1>0 DEF PostInv, WrittenInv
        <4>4. MeantBy(handed', raw)
          BY <4>2, <4>3 DEF MeantBy
        <4> QED BY <4>2, <4>4, <2>1, <2>2, <2>3, <2>9, <3>2 DEF AnswerInv
      <3> QED BY <3>1, <3>2
    <2> QED BY <1>7, <2>6, <2>8, <2>9 DEF Protocol!Arrive
  <1> QED BY <1>1, <1>3, <1>4, <1>5, <1>6, <1>7 DEF Protocol!Next

\* A step of another part, or none, leaves the protocol as it is.
LEMMA ProtocolStutters ==
  ASSUME ProtocolInv, UNCHANGED <<part, protocolVars>>
  PROVE  ProtocolInv'
  BY DEF protocolVars, ProtocolInv, ProtocolTypes, PostInv, WrittenInv, AnswerInv

LEMMA ProtocolSteps == ProtocolInv /\ [NextAll]_allVars => ProtocolInv'
  <1>1. ASSUME ProtocolInv, NextAll
        PROVE  ProtocolInv'
    <2>1. part' = part
      BY <1>1 DEF NextAll, DeliveryStep, ProtocolStep, OrdersStep, MarginStep, FillsStep
    <2>2. CASE part = "protocol"
      BY <1>1, <2>2, ProtocolMoves DEF ProtocolInv
    <2>3. CASE part # "protocol"
      BY <2>1, <2>3 DEF ProtocolInv
    <2> QED BY <2>2, <2>3
  <1>2. ASSUME ProtocolInv, UNCHANGED allVars
        PROVE  ProtocolInv'
    BY <1>2, ProtocolStutters DEF allVars
  <1> QED BY <1>1, <1>2

\* The inductive invariant of the protocol.
THEOREM ProtocolHolds == SpecAll => []ProtocolInv
  BY ProtocolInit, ProtocolSteps, PTL DEF SpecAll

\* However long a command of a scanner waited for the bridge, whatever the difference of the
\* clocks and however often it was posted: a 401 says that it was too long under way (or the
\* clocks differ too much), and a 422 that it was no command when it was written.
THEOREM CommandsDoNotAge == SpecAll => []AgeIsHarmless
  <1>1. ProtocolInv => AgeIsHarmless
    <2> SUFFICES ASSUME ProtocolInv, part = "protocol"
                 PROVE  Protocol!AgeIsHarmless
      BY DEF AgeIsHarmless
    <2>1. AnswerInv /\ ProtocolTypes
      BY DEF ProtocolInv
    <2>2. Protocol!WasSound <=> Sound(body)
      BY DEF Protocol!WasSound, Sound
    <2> QED BY <2>1, <2>2 DEF AnswerInv, ProtocolTypes, Protocol!AgeIsHarmless
  <1> QED BY <1>1, ProtocolHolds, PTL

\* What reaches the executor is the command its sender meant, with positive levels in order,
\* and the command V2.6 built itself; for all commands, clocks and bounds.
THEOREM CommandsAreHandedAsMeant == SpecAll => []HandedAsMeant
  <1>1. ProtocolInv => HandedAsMeant
    BY DEF ProtocolInv, AnswerInv, MeantBy, WellLevelled, HandedAsMeant, Protocol!HandedAsMeant
  <1> QED BY <1>1, ProtocolHolds, PTL

-----------------------------------------------------------------------------
(* Quantities: whole numbers of lots. *)

Whole(x, size) == \E k \in Int : x = k * size

LEMMA WholeSums ==
  ASSUME NEW size \in Positive, NEW x \in Int, NEW y \in Int, Whole(x, size), Whole(y, size)
  PROVE  Whole(x + y, size) /\ Whole(x - y, size)
  <1>1. PICK k \in Int : x = k * size
    BY DEF Whole
  <1>2. PICK l \in Int : y = l * size
    BY DEF Whole
  <1>3. /\ x + y = (k + l) * size /\ k + l \in Int
        /\ x - y = (k - l) * size /\ k - l \in Int
    BY <1>1, <1>2 DEF Positive
  <1> QED BY <1>3 DEF Whole

LEMMA WholeStep == ASSUME NEW size \in Positive PROVE Whole(size, size) /\ Whole(0, size)
  <1>1. size = 1 * size /\ 0 = 0 * size
    BY DEF Positive
  <1> QED BY <1>1 DEF Whole

\* A whole quantity above zero is a lot at least.
LEMMA WholeIsLot ==
  ASSUME NEW size \in Positive, NEW x \in Int, Whole(x, size), x > 0
  PROVE  x >= size
  <1>1. PICK k \in Int : x = k * size
    BY DEF Whole
  <1>2. k >= 1
    BY <1>1 DEF Positive
  <1>3. k * size >= size
    BY <1>2 DEF Positive
  <1> QED BY <1>1, <1>3

LEMMA FloorIsWhole ==
  ASSUME NEW lot \in Lots, NEW x \in Nat
  PROVE  LET f == Orders!FloorStep(x, lot)
         IN f \in Nat /\ f <= x /\ Whole(f, lot.step) /\ (Whole(x, lot.step) => f = x)
  <1> DEFINE size == lot.step
  <1>1. size \in Nat \ {0}
    BY DEF Lots, Positive
  <1> HIDE DEF size
  <1>2. x \div size \in Nat /\ (x \div size) * size <= x /\ (x \div size) * size \in Nat
    BY <1>1
  <1>3. Orders!FloorStep(x, lot) = (x \div size) * size
    BY DEF Orders!FloorStep, size
  <1>4. Whole(Orders!FloorStep(x, lot), size)
    BY <1>2, <1>3 DEF Whole
  <1>5. ASSUME Whole(x, size)
        PROVE  (x \div size) * size = x
    <2>1. PICK k \in Int : x = k * size
      BY <1>5 DEF Whole
    <2>2. k \in Nat
      BY <2>1, <1>1
    <2>3. (k * size) \div size = k
      BY <2>2, <1>1
    <2> QED BY <2>1, <2>3
  <1> QED BY <1>2, <1>3, <1>4, <1>5 DEF size

\* split_qty: three whole quantities that make up the whole of the total.
LEMMA SplitIsWhole ==
  ASSUME NEW lot \in Lots, NEW total \in Nat
  PROVE  LET q == Orders!SplitQty(total, lot)
         IN /\ q \in [Orders!Targets -> Nat]
            /\ \A n \in Orders!Targets : Whole(q[n], lot.step)
            /\ q[1] + q[2] + q[3] = Orders!FloorStep(total, lot)
  <1> DEFINE whole == Orders!FloorStep(total, lot)
             a == (whole * Tenths[1]) \div 10
             b == (whole * Tenths[2]) \div 10
             first == Orders!FloorStep(a, lot)
             second == Orders!FloorStep(b, lot)
  <1>1. whole \in Nat /\ Whole(whole, lot.step)
    BY FloorIsWhole
  <1>2. /\ Tenths[1] \in Nat /\ Tenths[2] \in Nat /\ Tenths[1] + Tenths[2] <= 10
    BY OrdersAssumption
  <1> HIDE DEF whole
  <1>3. a \in Nat /\ b \in Nat /\ 10 * a <= whole * Tenths[1] /\ 10 * b <= whole * Tenths[2]
    BY <1>1, <1>2
  <1>4. whole * Tenths[1] + whole * Tenths[2] <= whole * 10
    BY <1>1, <1>2
  <1>5. whole * Tenths[1] \in Nat /\ whole * Tenths[2] \in Nat
    BY <1>1, <1>2
  <1>6. a + b <= whole
    BY <1>1, <1>3, <1>4, <1>5
  <1> HIDE DEF a, b
  <1>7. /\ first \in Nat /\ first <= a /\ Whole(first, lot.step)
        /\ second \in Nat /\ second <= b /\ Whole(second, lot.step)
    BY <1>3, FloorIsWhole
  <1>8. lot.step \in Positive
    BY DEF Lots
  <1> HIDE DEF first, second
  <1>9. whole - first - second \in Nat
    BY <1>1, <1>3, <1>6, <1>7
  <1>10. Whole(whole - first - second, lot.step)
    BY <1>1, <1>7, <1>8, WholeSums
  <1>11. Orders!SplitQty(total, lot) = <<first, second, whole - first - second>>
    BY DEF Orders!SplitQty, first, second, a, b, whole
  <1>12. Orders!Targets = {1, 2, 3}
    BY DEF Orders!Targets
  <1>13. first + second + (whole - first - second) = whole
    BY <1>1, <1>7
  <1> QED BY <1>7, <1>9, <1>10, <1>11, <1>12, <1>13 DEF whole

-----------------------------------------------------------------------------
(* The sizing of a trade.                                                                    *)

LEMMA Division ==
  ASSUME NEW x \in Nat, NEW u \in Nat \ {0}
  PROVE  /\ x \div u \in Nat
         /\ (x \div u) * u <= x /\ x < (x \div u) * u + u
  OBVIOUS

LEMMA DivisionBound ==
  ASSUME NEW x \in Nat, NEW u \in Nat \ {0}, NEW k \in Nat, k * u <= x
  PROVE  k <= x \div u
  <1>1. x \div u \in Nat /\ x < (x \div u) * u + u
    BY Division
  <1>2. k * u < ((x \div u) + 1) * u
    BY <1>1
  <1>3. k < (x \div u) + 1
    BY <1>1, <1>2
  <1> QED BY <1>1, <1>3

LEMMA CaseTypes ==
  ASSUME NEW c \in Cases
  PROVE  /\ c.market \in Nat \ {0} /\ c.stop \in Nat /\ c.budget \in Nat /\ c.margin \in Nat
         /\ c.lot \in Lots /\ c.lev \in Limits
         /\ c.lot.step \in Nat \ {0} /\ c.lot.min \in Nat \ {0}
         /\ Orders!Distance(c) \in Nat
         /\ Orders!Leverage(c.lev) \in Nat
         /\ Orders!FloorNotional(c) \in Nat /\ Orders!CapNotional(c) \in Nat
  <1>1. /\ c.market \in Nat \ {0} /\ c.stop \in Nat /\ c.budget \in Nat /\ c.margin \in Nat
        /\ c.lot \in Lots /\ c.lev \in Limits
    BY OrdersAssumption DEF Positive
  <1>2. c.lot.step \in Nat \ {0} /\ c.lot.min \in Nat \ {0}
    BY <1>1 DEF Lots, Positive
  <1>3. Orders!Distance(c) \in Nat
    BY <1>1 DEF Orders!Distance, Orders!Abs
  <1>4. Orders!Leverage(c.lev) \in Nat
    <2>1. c.lev.max \in Nat /\ c.lev.step \in Nat /\ LeverageWanted \in Nat
      BY <1>1, OrdersAssumption DEF Limits
    <2>2. Orders!Lesser(LeverageWanted, c.lev.max) \in Nat
      BY <2>1 DEF Orders!Lesser
    <2> QED BY <2>1, <2>2, Division DEF Orders!Leverage
  <1>5. Orders!FloorNotional(c) \in Nat
    BY <1>4, OrdersAssumption DEF Orders!FloorNotional
  <1>6. c.margin * Orders!Leverage(c.lev) \in Nat
    BY <1>1, <1>4
  <1>7. Orders!CapNotional(c) \in Nat
    BY <1>6, OrdersAssumption DEF Orders!CapNotional, Orders!Lesser
  <1> QED BY <1>1, <1>2, <1>3, <1>4, <1>5, <1>7

\* The unit of the notional: the price of a lot.
Unit(c) == c.market * c.lot.step
Risked(c) == c.budget \div (Orders!Distance(c) * c.lot.step)
LotsWanted(c) ==
  Orders!Lesser(Orders!Greater(Risked(c), Orders!FloorNotional(c) \div Unit(c)),
                Orders!CapNotional(c) \div Unit(c))
LotsUp(c) == (Orders!FloorNotional(c) + Unit(c) - 1) \div Unit(c)

LEMMA SizingTypes ==
  ASSUME NEW c \in Cases, Orders!Distance(c) > 0
  PROVE  /\ Unit(c) \in Nat \ {0} /\ Orders!Distance(c) * c.lot.step \in Nat \ {0}
         /\ Risked(c) \in Nat /\ LotsWanted(c) \in Nat /\ LotsUp(c) \in Nat
  <1>1. Unit(c) \in Nat \ {0} /\ Orders!Distance(c) * c.lot.step \in Nat \ {0}
    BY CaseTypes DEF Unit
  <1>2. Risked(c) \in Nat
    BY <1>1, CaseTypes, Division DEF Risked
  <1>3. Orders!FloorNotional(c) \div Unit(c) \in Nat /\ Orders!CapNotional(c) \div Unit(c) \in Nat
    BY <1>1, CaseTypes, Division
  <1>4. LotsWanted(c) \in Nat
    BY <1>2, <1>3 DEF LotsWanted, Orders!Lesser, Orders!Greater
  <1>5. Orders!FloorNotional(c) + Unit(c) - 1 \in Nat
    BY <1>1, CaseTypes
  <1>6. LotsUp(c) \in Nat
    BY <1>1, <1>5, Division DEF LotsUp
  <1> QED BY <1>1, <1>2, <1>4, <1>6

\* A trade that can be split into three is no order of the smallest quantity: what it buys
\* is a number of lots, rounded down, or up to the floor of the margin.
LEMMA TradableIsWhole ==
  ASSUME NEW c \in Cases, Orders!Tradable(c)
  PROVE  /\ Orders!OrderQty(c) \in Nat /\ Whole(Orders!OrderQty(c), c.lot.step)
         /\ Orders!OrderQty(c) = IF Orders!BelowFloor(c) THEN LotsUp(c) * c.lot.step
                                 ELSE LotsWanted(c) * c.lot.step
         /\ ~Orders!BelowFloor(c) => Orders!Quantity(c) = LotsWanted(c) * c.lot.step
  <1> DEFINE qty == Orders!OrderQty(c)
             min == c.lot.min
             up == LotsUp(c) * c.lot.step
             down == LotsWanted(c) * c.lot.step
  <1>0. Orders!Distance(c) > 0 /\ Orders!Splits(qty, c.lot)
    BY DEF Orders!Tradable
  <1>1. LotsWanted(c) \in Nat /\ LotsUp(c) \in Nat /\ c.lot.step \in Nat \ {0}
        /\ min \in Nat \ {0} /\ c.lot \in Lots
    BY <1>0, SizingTypes, CaseTypes
  <1>2. up \in Nat /\ down \in Nat
    BY <1>1
  <1>3. Orders!Quantity(c) = Orders!Greater(down, min)
    BY Zenon DEF Orders!Quantity, LotsWanted, Risked, Unit
  <1>4. Orders!QtyUp(Orders!FloorNotional(c), c.market, c.lot) = Orders!Greater(up, min)
    BY Zenon DEF Orders!QtyUp, LotsUp, Unit
  <1>5. qty = IF Orders!BelowFloor(c) THEN Orders!Greater(up, min) ELSE Orders!Greater(down, min)
    BY <1>3, <1>4 DEF Orders!OrderQty
  <1> HIDE DEF min, up, down
  <1>6. qty \in Nat
    BY <1>1, <1>2, <1>5 DEF Orders!Greater
  <1>7. qty > min
    <2> DEFINE q == Orders!SplitQty(qty, c.lot)
    <2>1. q \in [Orders!Targets -> Nat] /\ q[1] + q[2] + q[3] = Orders!FloorStep(qty, c.lot)
          /\ Orders!FloorStep(qty, c.lot) <= qty
      BY <1>1, <1>6, SplitIsWhole, FloorIsWhole
    <2>2. q[1] >= min /\ q[2] >= min /\ q[3] >= min
      BY <1>0 DEF Orders!Splits, Orders!Targets, min
    <2>3. q[1] \in Nat /\ q[2] \in Nat /\ q[3] \in Nat
      BY <2>1 DEF Orders!Targets
    <2> HIDE DEF q
    <2>4. Orders!FloorStep(qty, c.lot) \in Nat
      BY <1>1, <1>6, FloorIsWhole
    <2>5. q[1] + q[2] + q[3] <= qty
      BY <2>1
    <2> HIDE DEF qty
    <2> QED BY <2>2, <2>3, <2>5, <1>1, <1>6
  <1>8. qty = IF Orders!BelowFloor(c) THEN up ELSE down
    BY <1>1, <1>2, <1>5, <1>7 DEF Orders!Greater
  <1>9. ~Orders!BelowFloor(c) => Orders!Quantity(c) = down
    BY <1>8 DEF Orders!OrderQty
  <1>10. Whole(up, c.lot.step) /\ Whole(down, c.lot.step)
    BY <1>1 DEF Whole, up, down
  <1> QED BY <1>6, <1>8, <1>9, <1>10 DEF up, down

\* Rounding up to the floor stops at the first lot that reaches it.
LEMMA UpToTheFloor ==
  ASSUME NEW c \in Cases, Orders!Tradable(c), Orders!BelowFloor(c)
  PROVE  /\ Orders!OrderQty(c) * c.market >= Orders!FloorNotional(c)
         /\ (Orders!OrderQty(c) - c.lot.step) * c.market < Orders!FloorNotional(c)
  <1> DEFINE f == Orders!FloorNotional(c)
             u == Unit(c)
             n == LotsUp(c)
             qty == Orders!OrderQty(c)
             size == c.lot.step
             market == c.market
  <1>1. /\ f \in Nat /\ u \in Nat \ {0} /\ n \in Nat /\ size \in Nat \ {0}
        /\ market \in Nat \ {0} /\ u = market * size
    BY SizingTypes, CaseTypes DEF Orders!Tradable, Unit
  <1>2. n * u <= f + u - 1 /\ f + u - 1 < n * u + u
    BY <1>1, Division DEF LotsUp
  <1>3. qty = n * size
    BY TradableIsWhole
  <1> HIDE DEF f, u, n, qty, size, market
  <1>4. qty * market = n * u /\ (qty - size) * market = n * u - u
    BY <1>1, <1>3
  <1>5. n * u \in Nat
    BY <1>1
  <1>6. n * u >= f /\ n * u - u < f
    BY <1>1, <1>2, <1>5
  <1>7. qty * market >= f /\ (qty - size) * market < f
    BY <1>4, <1>6
  <1> QED BY <1>7 DEF f, qty, size, market

\* A trade whose risk alone would not reach the floor asks for the floor, rounded down.
LEMMA FloorIsWanted ==
  ASSUME NEW c \in Cases, Orders!Tradable(c), ~Orders!BelowFloor(c),
         c.budget * c.market < Orders!FloorNotional(c) * Orders!Distance(c)
  PROVE  /\ Orders!OrderQty(c) * c.market >= Orders!FloorNotional(c)
         /\ (Orders!OrderQty(c) - c.lot.step) * c.market < Orders!FloorNotional(c)
  <1> DEFINE f == Orders!FloorNotional(c)
             u == Unit(c)
             d == Orders!Distance(c)
             r == Risked(c)
             n == LotsWanted(c)
             qty == Orders!OrderQty(c)
             size == c.lot.step
             market == c.market
             risk == c.budget
             cap == Orders!CapNotional(c)
  <1>1. /\ f \in Nat /\ u \in Nat \ {0} /\ n \in Nat /\ r \in Nat /\ size \in Nat \ {0}
        /\ market \in Nat \ {0} /\ u = market * size /\ d \in Nat \ {0} /\ risk \in Nat
        /\ d * size \in Nat \ {0} /\ cap \in Nat
    BY SizingTypes, CaseTypes DEF Orders!Tradable, Unit
  <1>2. r * (d * size) <= risk
    BY <1>1, Division DEF Risked
  <1>3. risk * market < f * d
    OBVIOUS
  <1>4. n = Orders!Lesser(Orders!Greater(r, f \div u), cap \div u)
    BY DEF LotsWanted
  <1>5. qty = n * size /\ qty * market >= f
    <2>1. qty = n * size /\ Orders!Quantity(c) = n * size
      BY TradableIsWhole
    <2>2. Orders!Quantity(c) \in Nat
      BY <2>1, <1>1
    <2> QED BY <2>1, <2>2, <1>1 DEF Orders!BelowFloor
  <1> HIDE DEF f, u, d, r, n, qty, size, market, risk, cap
  <1>6. r * u <= f
    <2>1. (r * u) * d = (r * (d * size)) * market
      BY <1>1
    <2>2. (r * (d * size)) * market <= risk * market
      BY <1>1, <1>2
    <2>3. (r * u) * d < f * d
      BY <2>1, <2>2, <1>1, <1>3
    <2>4. r * u < f
      <3>1. r * u \in Nat
        BY <1>1
      <3> DEFINE x == r * u
      <3> HIDE DEF x
      <3>2. x \in Nat /\ x * d < f * d
        BY <2>3, <3>1 DEF x
      <3>3. x < f
        BY <3>2, <1>1
      <3> QED BY <3>3 DEF x
    <2> QED BY <2>4, <1>1
  <1>7. r <= f \div u /\ f \div u \in Nat /\ cap \div u \in Nat /\ (f \div u) * u <= f
    BY <1>1, <1>6, Division, DivisionBound
  <1>8. n <= f \div u
    BY <1>1, <1>4, <1>7 DEF Orders!Lesser, Orders!Greater
  <1>9. n * u <= f
    <2>1. n * u <= (f \div u) * u
      BY <1>1, <1>7, <1>8
    <2> QED BY <2>1, <1>1, <1>7
  <1>10. (qty - size) * market = n * u - u /\ n * u \in Nat
    BY <1>1, <1>5
  <1>11. qty * market >= f /\ (qty - size) * market < f
    BY <1>1, <1>5, <1>9, <1>10
  <1> QED BY <1>11 DEF f, qty, size, market

\* What the sizing lets through: the budget, or the smallest that the floor admits.
LEMMA TradableRisk ==
  ASSUME NEW c \in Cases, Orders!Tradable(c)
  PROVE  LET qty == Orders!OrderQty(c)
         IN /\ \/ qty * Orders!Distance(c) * 1000 <= c.budget * 1001
               \/ /\ qty * c.market >= Orders!FloorNotional(c)
                  /\ (qty - c.lot.step) * c.market < Orders!FloorNotional(c)
            /\ qty * c.market * 1000 <= Orders!CapNotional(c) * 1001
  BY UpToTheFloor, FloorIsWanted DEF Orders!Tradable, Orders!FloorApplied

-----------------------------------------------------------------------------
(* The orders.  What was bought is what is held and what the targets sold; it never changes *)
(* after the entry, the orders never sum up to more, and the plan never to less.  The       *)
(* recovery walks the targets in their order: `left` and what it has accounted for make up  *)
(* what was bought.  An order smaller than planned took all that was left.                  *)

Stages ==
  {"received", "refused", "submitted", "filled", "placing", "active", "failsafe",
   "syncing", "reading", "restoring", "flat"}
OrderStates == [at : {"none", "open", "filled", "cancelled"}, qty : Nat, filled : Nat]

Bought == pos + tp[1].filled + tp[2].filled + tp[3].filled
Ordered == tp[1].qty + tp[2].qty + tp[3].qty
Planned == plan[1] + plan[2] + plan[3]
OrderedUpTo(n) ==
  tp[1].qty + (IF n >= 2 THEN tp[2].qty ELSE 0) + (IF n >= 3 THEN tp[3].qty ELSE 0)
Accounted(n) ==
  (IF n >= 2 THEN tp[1].qty ELSE booked[1]) + (IF n >= 3 THEN tp[2].qty ELSE booked[2])
    + booked[3]

OrderTypes ==
  /\ case \in Cases /\ stage \in Stages /\ pos \in Nat
  /\ plan \in [1..3 -> Nat] /\ tp \in [1..3 -> OrderStates] /\ booked \in [1..3 -> Nat]
  /\ next \in 1..3 /\ left \in Nat /\ missed \in BOOLEAN /\ cancels \in Nat

StageInv ==
  /\ stage \notin {"received", "refused"} =>
       /\ Orders!Tradable(case)
       /\ \A n \in 1..3 : plan[n] >= case.lot.min
  /\ stage \in {"received", "refused", "submitted", "filled"} =>
       \A n \in 1..3 : tp[n].at = "none"
  /\ stage \in {"received", "refused", "submitted"} => pos = 0
  /\ stage = "submitted" => Planned = Orders!OrderQty(case)
  /\ stage \in {"syncing", "reading"} => next = 1
  /\ stage = "active" => \A n \in 1..3 : tp[n].at # "none"

LotsInv ==
  /\ Whole(pos, case.lot.step) /\ Whole(left, case.lot.step)
  /\ \A n \in 1..3 :
       /\ Whole(plan[n], case.lot.step) /\ Whole(booked[n], case.lot.step)
       /\ Whole(tp[n].qty, case.lot.step) /\ Whole(tp[n].filled, case.lot.step)

TargetInv ==
  /\ \A n \in 1..3 :
       /\ tp[n].at = "none" => tp[n].qty = 0 /\ tp[n].filled = 0
       /\ tp[n].at = "open" => tp[n].filled < tp[n].qty
       /\ tp[n].at = "filled" => tp[n].filled = tp[n].qty
       /\ tp[n].filled <= tp[n].qty /\ tp[n].qty <= plan[n] /\ booked[n] <= tp[n].filled
       /\ cancels = 0 => tp[n].at # "cancelled"
  /\ tp[1].at = "none" => tp[2].at = "none"
  /\ tp[2].at = "none" => tp[3].at = "none"

SumInv == Ordered <= Bought /\ Bought <= Planned

PlacingInv ==
  stage = "placing" =>
    /\ Bought = Planned
    /\ \A n \in 1..3 : IF n < next THEN tp[n].at # "none" /\ tp[n].qty = plan[n]
                       ELSE tp[n].at = "none"

RestoringInv ==
  stage = "restoring" =>
    /\ \A n \in 1..3 : n < next => tp[n].at # "none"
    /\ left = 0 \/ left + Accounted(next) <= Bought
    /\ ~missed => left + Accounted(next) >= Bought

ShortInv ==
  ~missed =>
    \A n \in 1..3 : tp[n].at # "none" /\ tp[n].qty < plan[n] => OrderedUpTo(n) = Bought

OrdersParts ==
  /\ OrderTypes /\ StageInv /\ LotsInv /\ TargetInv
  /\ SumInv /\ PlacingInv /\ RestoringInv /\ ShortInv
OrdersInv == part = "orders" => OrdersParts

LEMMA OrdersInit == InitAll => OrdersInv
  <1> SUFFICES ASSUME InitAll, part = "orders"
               PROVE  OrdersParts
    BY DEF OrdersInv
  <1>1. /\ case \in Cases /\ stage = "received" /\ pos = 0
        /\ plan = [n \in 1..3 |-> 0] /\ booked = [n \in 1..3 |-> 0]
        /\ tp = [n \in 1..3 |-> [at |-> "none", qty |-> 0, filled |-> 0]]
        /\ next = 1 /\ left = 0 /\ missed = FALSE /\ cancels = 0
    BY DEF InitAll, Orders!Init, Orders!Targets, Orders!NoOrder
  <1>2. OrderTypes
    <2>1. tp \in [1..3 -> OrderStates]
      BY <1>1 DEF OrderStates
    <2>2. stage \in Stages
      BY <1>1 DEF Stages
    <2>3. missed \in BOOLEAN
      BY <1>1
    <2>4. plan \in [1..3 -> Nat] /\ booked \in [1..3 -> Nat] /\ next \in 1..3
      BY <1>1
    <2> QED BY <1>1, <2>1, <2>2, <2>3, <2>4 DEF OrderTypes
  <1>3. StageInv
    BY <1>1 DEF StageInv
  <1>4. LotsInv
    <2>1. case.lot.step \in Positive
      BY <1>1, CaseTypes DEF Positive
    <2>2. Whole(0, case.lot.step)
      BY <2>1, WholeStep
    <2> QED BY <1>1, <2>2 DEF LotsInv
  <1>5. TargetInv /\ SumInv /\ PlacingInv /\ RestoringInv /\ ShortInv
    BY <1>1 DEF TargetInv, SumInv, PlacingInv, RestoringInv, ShortInv, Ordered, Bought, Planned
  <1> QED BY <1>2, <1>3, <1>4, <1>5 DEF OrdersParts

\* The plan for a whole quantity that can be split.
LEMMA PlanIsWhole ==
  ASSUME NEW lot \in Lots, NEW qty \in Nat, Whole(qty, lot.step), Orders!Splits(qty, lot)
  PROVE  LET p == Orders!SplitQty(qty, lot)
         IN /\ p \in [1..3 -> Nat] /\ p[1] + p[2] + p[3] = qty
            /\ \A n \in 1..3 : Whole(p[n], lot.step) /\ p[n] >= lot.min
  <1>1. Orders!Targets = 1..3
    BY DEF Orders!Targets
  <1>2. Orders!FloorStep(qty, lot) = qty
    BY FloorIsWhole
  <1> QED BY <1>1, <1>2, SplitIsWhole DEF Orders!Splits

LEMMA SizeKeeps == OrdersParts /\ Orders!Size => OrdersParts'
  <1> SUFFICES ASSUME OrdersParts, Orders!Size
               PROVE  OrdersParts'
    OBVIOUS
  <1>1. /\ stage = "received"
        /\ UNCHANGED <<case, pos, tp, booked, next, left, missed, cancels>>
    BY DEF Orders!Size
  <1>2. /\ OrderTypes /\ StageInv /\ LotsInv /\ TargetInv /\ SumInv /\ ShortInv
    BY DEF OrdersParts
  <1>3. pos = 0 /\ \A n \in 1..3 : tp[n].at = "none" /\ tp[n].qty = 0 /\ tp[n].filled = 0
    BY <1>1, <1>2 DEF StageInv, TargetInv
  <1>4. CASE stage' = "refused" /\ UNCHANGED plan
    <2>1. OrderTypes'
      BY <1>1, <1>2, <1>4 DEF OrderTypes, Stages
    <2>2. StageInv'
      BY <1>1, <1>3, <1>4 DEF StageInv
    <2>3. LotsInv' /\ TargetInv' /\ SumInv' /\ ShortInv'
      BY <1>1, <1>2, <1>4
      DEF LotsInv, TargetInv, SumInv, ShortInv, Ordered, Bought, Planned, OrderedUpTo
    <2> QED BY <2>1, <2>2, <2>3, <1>4 DEF OrdersParts, PlacingInv, RestoringInv
  <1>5. CASE /\ Orders!Tradable(case) /\ stage' = "submitted"
             /\ plan' = Orders!SplitQty(Orders!OrderQty(case), case.lot)
    <2>1. case \in Cases /\ case.lot \in Lots
      BY <1>2, CaseTypes DEF OrderTypes
    <2>2. Orders!OrderQty(case) \in Nat /\ Whole(Orders!OrderQty(case), case.lot.step)
          /\ Orders!Splits(Orders!OrderQty(case), case.lot)
      BY <1>5, <2>1, TradableIsWhole DEF Orders!Tradable
    <2>3. /\ plan' \in [1..3 -> Nat] /\ plan'[1] + plan'[2] + plan'[3] = Orders!OrderQty(case)
          /\ \A n \in 1..3 : Whole(plan'[n], case.lot.step) /\ plan'[n] >= case.lot.min
      BY <1>5, <2>1, <2>2, PlanIsWhole
    <2>4. OrderTypes'
      BY <1>1, <1>2, <1>5, <2>3 DEF OrderTypes, Stages
    <2>5. StageInv'
      BY <1>1, <1>3, <1>5, <2>3 DEF StageInv, Planned
    <2>6. LotsInv'
      BY <1>1, <1>2, <2>3 DEF LotsInv
    <2>7. TargetInv'
      BY <1>1, <1>2, <1>3, <2>3 DEF TargetInv
    <2>8. SumInv' /\ ShortInv'
      BY <1>1, <1>3, <2>2, <2>3 DEF SumInv, ShortInv, Ordered, Bought, Planned
    <2> QED BY <2>4, <2>5, <2>6, <2>7, <2>8, <1>5 DEF OrdersParts, PlacingInv, RestoringInv
  <1> QED BY <1>4, <1>5 DEF Orders!Size

LEMMA EntryFillsKeeps == OrdersParts /\ Orders!EntryFills => OrdersParts'
  <1> SUFFICES ASSUME OrdersParts, Orders!EntryFills
               PROVE  OrdersParts'
    OBVIOUS
  <1>1. /\ stage = "submitted" /\ stage' = "filled"
        /\ UNCHANGED <<case, plan, tp, booked, next, left, missed, cancels>>
    BY DEF Orders!EntryFills
  <1>2. PICK unfilled \in Unfilled :
          pos' = Orders!OrderQty(case) - unfilled * case.lot.step /\ pos' > 0
    BY DEF Orders!EntryFills
  <1>3. /\ OrderTypes /\ StageInv /\ LotsInv /\ TargetInv /\ SumInv
    BY DEF OrdersParts
  <1>4. \A n \in 1..3 : tp[n].at = "none" /\ tp[n].qty = 0 /\ tp[n].filled = 0
    BY <1>1, <1>3 DEF StageInv, TargetInv
  <1>5. /\ Orders!Tradable(case) /\ case \in Cases /\ case.lot.step \in Positive
        /\ unfilled \in Nat /\ Planned = Orders!OrderQty(case)
    BY <1>1, <1>3, CaseTypes, OrdersAssumption DEF StageInv, OrderTypes, Positive
  <1>6. Orders!OrderQty(case) \in Nat /\ Whole(Orders!OrderQty(case), case.lot.step)
    BY <1>5, TradableIsWhole
  <1> DEFINE rest == unfilled * case.lot.step
  <1>7. rest \in Nat /\ Whole(rest, case.lot.step)
    BY <1>5 DEF Whole, Positive
  <1> HIDE DEF rest
  <1>8. pos' = Orders!OrderQty(case) - rest
    BY <1>2 DEF rest
  <1>9. pos' \in Nat /\ pos' <= Orders!OrderQty(case)
    BY <1>2, <1>6, <1>7, <1>8
  <1>10. Whole(pos', case.lot.step)
    BY <1>5, <1>6, <1>7, <1>8, WholeSums
  <1>11. OrderTypes'
    BY <1>1, <1>3, <1>9 DEF OrderTypes, Stages
  <1>12. StageInv'
    BY <1>1, <1>3, <1>4 DEF StageInv
  <1>13. LotsInv' /\ TargetInv'
    BY <1>1, <1>3, <1>10 DEF LotsInv, TargetInv
  <1>14. SumInv' /\ ShortInv'
    BY <1>1, <1>4, <1>5, <1>9 DEF SumInv, ShortInv, Ordered, Bought, Planned
  <1> QED BY <1>1, <1>11, <1>12, <1>13, <1>14 DEF OrdersParts, PlacingInv, RestoringInv

LEMMA ReplanKeeps == OrdersParts /\ Orders!Replan => OrdersParts'
  <1> SUFFICES ASSUME OrdersParts, Orders!Replan
               PROVE  OrdersParts'
    OBVIOUS
  <1>1. /\ stage = "filled" /\ UNCHANGED <<case, pos, tp, booked, left, missed, cancels>>
    BY DEF Orders!Replan
  <1>2. /\ OrderTypes /\ StageInv /\ LotsInv /\ TargetInv /\ SumInv /\ ShortInv
    BY DEF OrdersParts
  <1>3. \A n \in 1..3 : tp[n].at = "none" /\ tp[n].qty = 0 /\ tp[n].filled = 0
    BY <1>1, <1>2 DEF StageInv, TargetInv
  <1>4. CASE stage' = "failsafe" /\ UNCHANGED <<plan, next>>
    <2>1. OrderTypes'
      BY <1>1, <1>2, <1>4 DEF OrderTypes, Stages
    <2>2. StageInv'
      BY <1>1, <1>2, <1>4 DEF StageInv
    <2>3. LotsInv' /\ TargetInv' /\ SumInv' /\ ShortInv'
      BY <1>1, <1>2, <1>4
      DEF LotsInv, TargetInv, SumInv, ShortInv, Ordered, Bought, Planned, OrderedUpTo
    <2> QED BY <2>1, <2>2, <2>3, <1>4 DEF OrdersParts, PlacingInv, RestoringInv
  <1>5. CASE /\ Orders!Splits(pos, case.lot) /\ plan' = Orders!SplitQty(pos, case.lot)
             /\ stage' = "placing" /\ next' = 1
    <2>1. case \in Cases /\ case.lot \in Lots /\ pos \in Nat /\ Whole(pos, case.lot.step)
      BY <1>2, CaseTypes DEF OrderTypes, LotsInv
    <2>2. /\ plan' \in [1..3 -> Nat] /\ plan'[1] + plan'[2] + plan'[3] = pos
          /\ \A n \in 1..3 : Whole(plan'[n], case.lot.step) /\ plan'[n] >= case.lot.min
      BY <1>5, <2>1, PlanIsWhole
    <2>3. OrderTypes'
      BY <1>1, <1>2, <1>5, <2>2 DEF OrderTypes, Stages
    <2>4. StageInv'
      BY <1>1, <1>2, <1>5, <2>2 DEF StageInv
    <2>5. LotsInv'
      BY <1>1, <1>2, <2>2 DEF LotsInv
    <2>6. TargetInv'
      BY <1>1, <1>2, <1>3, <2>2 DEF TargetInv
    <2>7. SumInv' /\ ShortInv' /\ PlacingInv'
      BY <1>1, <1>3, <1>5, <2>1, <2>2
      DEF SumInv, ShortInv, PlacingInv, Ordered, Bought, Planned
    <2> QED BY <2>3, <2>4, <2>5, <2>6, <2>7, <1>5 DEF OrdersParts, RestoringInv
  <1> QED BY <1>4, <1>5 DEF Orders!Replan

\* A new order, and the way on to the next target.
LEMMA OrderIsOpen ==
  ASSUME OrderTypes, NEW n \in 1..3, NEW qty \in Nat, Orders!Order(n, qty)
  PROVE  /\ tp' \in [1..3 -> OrderStates]
         /\ tp'[n].at = "open" /\ tp'[n].qty = qty /\ tp'[n].filled = 0
         /\ \A m \in 1..3 : m # n => tp'[m] = tp[m]
  <1> DEFINE order == [at |-> "open", qty |-> qty, filled |-> 0]
  <1>1. order \in OrderStates /\ order.at = "open" /\ order.qty = qty /\ order.filled = 0
    BY DEF OrderStates
  <1>2. tp' = [tp EXCEPT ![n] = order]
    BY DEF Orders!Order
  <1> HIDE DEF order
  <1> QED BY <1>1, <1>2 DEF OrderTypes

LEMMA OnwardsMoves ==
  ASSUME OrderTypes, Orders!Onwards
  PROVE  \/ next = 3 /\ stage' = "active" /\ next' = next
         \/ next \in 1..2 /\ next' = next + 1 /\ stage' = stage
  BY DEF Orders!Onwards, OrderTypes

LEMMA PlaceKeeps == OrdersParts /\ Orders!Place => OrdersParts'
  <1> SUFFICES ASSUME OrdersParts, Orders!Place
               PROVE  OrdersParts'
    OBVIOUS
  <1>1. /\ stage = "placing" /\ Orders!Order(next, plan[next]) /\ Orders!Onwards
        /\ UNCHANGED <<case, pos, plan, booked, left, missed, cancels>>
    BY DEF Orders!Place
  <1>2. /\ OrderTypes /\ StageInv /\ LotsInv /\ TargetInv /\ SumInv /\ PlacingInv /\ ShortInv
    BY DEF OrdersParts
  <1>3. /\ case \in Cases /\ case.lot.min \in Nat \ {0} /\ case.lot.step \in Positive
        /\ next \in 1..3 /\ plan[next] \in Nat /\ plan[next] >= case.lot.min
    BY <1>1, <1>2, CaseTypes DEF OrderTypes, StageInv, Positive
  <1>4. /\ tp' \in [1..3 -> OrderStates]
        /\ tp'[next].at = "open" /\ tp'[next].qty = plan[next] /\ tp'[next].filled = 0
        /\ \A m \in 1..3 : m # next => tp'[m] = tp[m]
    BY <1>1, <1>2, <1>3, OrderIsOpen
  <1>5. /\ Bought = Planned
        /\ \A n \in 1..3 : IF n < next THEN tp[n].at # "none" /\ tp[n].qty = plan[n]
                           ELSE tp[n].at = "none" /\ tp[n].qty = 0 /\ tp[n].filled = 0
    BY <1>1, <1>2 DEF PlacingInv, TargetInv
  <1>6. \/ next = 3 /\ stage' = "active" /\ next' = next
        \/ next \in 1..2 /\ next' = next + 1 /\ stage' = "placing"
    BY <1>1, <1>2, OnwardsMoves
  <1>7. OrderTypes'
    BY <1>1, <1>2, <1>4, <1>6 DEF OrderTypes, Stages
  <1>8. StageInv'
    BY <1>1, <1>2, <1>4, <1>5, <1>6 DEF StageInv
  <1>9. LotsInv'
    <2>1. Whole(0, case.lot.step)
      BY <1>3, WholeStep
    <2> QED BY <2>1, <1>1, <1>2, <1>3, <1>4 DEF LotsInv
  <1>10. TargetInv'
    BY <1>1, <1>2, <1>3, <1>4, <1>5 DEF TargetInv, OrderTypes
  <1>11. Bought' = Bought
    BY <1>1, <1>3, <1>4, <1>5 DEF Bought
  <1>12. SumInv'
    <2>1. \A n \in 1..3 : plan[n] \in Nat /\ tp'[n].qty <= plan[n] /\ tp'[n].qty \in Nat
      BY <1>1, <1>4, <1>5, <1>7, <1>10 DEF OrderTypes, OrderStates, TargetInv
    <2>2. Ordered' <= Planned
      BY <2>1 DEF Ordered, Planned
    <2>3. Planned' = Planned
      BY <1>1 DEF Planned
    <2>4. Planned \in Int
      BY <2>1 DEF Planned
    <2> QED BY <2>2, <2>3, <2>4, <1>5, <1>11 DEF SumInv
  <1>13. PlacingInv'
    BY <1>1, <1>3, <1>4, <1>5, <1>6, <1>11 DEF PlacingInv, Planned
  <1>14. ShortInv'
    <2>1. \A n \in 1..3 : tp'[n].at # "none" => tp'[n].qty = plan'[n]
      BY <1>1, <1>3, <1>4, <1>5
    <2>2. \A n \in 1..3 : plan'[n] \in Nat
      BY <1>7 DEF OrderTypes
    <2> QED BY <2>1, <2>2 DEF ShortInv
  <1> QED BY <1>6, <1>7, <1>8, <1>9, <1>10, <1>12, <1>13, <1>14 DEF OrdersParts, RestoringInv

\* What an order says of its quantities is kept when it trades or is cancelled, and so is
\* what was bought.
LEMMA TargetFillsKeeps ==
  ASSUME OrdersParts, NEW n \in 1..3, Orders!TargetFills(n)
  PROVE  OrdersParts'
  <1>1. /\ tp[n].at = "open"
        /\ UNCHANGED <<case, stage, plan, booked, next, left, missed, cancels>>
    BY DEF Orders!TargetFills
  <1>2. PICK traded \in {case.lot.step, tp[n].qty - tp[n].filled} :
          /\ traded <= pos /\ pos' = pos - traded
          /\ tp' = [tp EXCEPT ![n].filled = @ + traded,
                              ![n].at = IF tp[n].filled + traded = tp[n].qty THEN "filled" ELSE @]
    BY DEF Orders!TargetFills
  <1>3. /\ OrderTypes /\ StageInv /\ LotsInv /\ TargetInv
        /\ SumInv /\ PlacingInv /\ RestoringInv /\ ShortInv
    BY DEF OrdersParts
  <1>4. /\ case.lot.step \in Positive /\ case.lot.step \in Nat /\ pos \in Nat
        /\ tp[n] \in OrderStates /\ tp[n].qty \in Nat /\ tp[n].filled \in Nat
    BY <1>3, CaseTypes DEF OrderTypes, OrderStates, Positive
  <1>5. tp[n].filled < tp[n].qty
    BY <1>1, <1>3 DEF TargetInv
  <1>6. /\ traded \in Nat /\ traded > 0 /\ tp[n].filled + traded <= tp[n].qty
        /\ Whole(traded, case.lot.step)
    <2>1. Whole(tp[n].qty - tp[n].filled, case.lot.step)
      <3>1. Whole(tp[n].qty, case.lot.step) /\ Whole(tp[n].filled, case.lot.step)
        BY <1>3 DEF LotsInv
      <3> DEFINE q == tp[n].qty
                 f == tp[n].filled
                 size == case.lot.step
      <3>2. /\ q \in Int /\ f \in Int /\ size \in Positive
            /\ Whole(q, size) /\ Whole(f, size)
        BY <3>1, <1>4
      <3> HIDE DEF q, f, size
      <3>3. Whole(q - f, size)
        BY <3>2, WholeSums
      <3> QED BY <3>3 DEF q, f, size
    <2>2. tp[n].qty - tp[n].filled >= case.lot.step
      BY <2>1, <1>4, <1>5, WholeIsLot
    <2>3. Whole(case.lot.step, case.lot.step)
      BY <1>4, WholeStep
    <2> QED BY <2>1, <2>2, <2>3, <1>2, <1>4, <1>5 DEF Positive
  <1>7. /\ tp' \in [1..3 -> OrderStates]
        /\ tp'[n].filled = tp[n].filled + traded /\ tp'[n].qty = tp[n].qty
        /\ tp'[n].at = IF tp[n].filled + traded = tp[n].qty THEN "filled" ELSE "open"
        /\ \A m \in 1..3 : m # n => tp'[m] = tp[m]
    <2> DEFINE order == [tp[n] EXCEPT !.filled = @ + traded,
                           !.at = IF tp[n].filled + traded = tp[n].qty THEN "filled" ELSE @]
    <2>1. /\ order \in OrderStates /\ order.filled = tp[n].filled + traded
          /\ order.qty = tp[n].qty
          /\ order.at = IF tp[n].filled + traded = tp[n].qty THEN "filled" ELSE "open"
      <3>1. CASE tp[n].filled + traded = tp[n].qty
        BY <3>1, <1>1, <1>4, <1>6 DEF OrderStates
      <3>2. CASE tp[n].filled + traded # tp[n].qty
        <4>1. order = [tp[n] EXCEPT !.filled = tp[n].filled + traded]
          BY <3>2, <1>1, <1>4 DEF OrderStates
        <4> QED BY <4>1, <3>2, <1>1, <1>4, <1>6 DEF OrderStates
      <3> QED BY <3>1, <3>2
    <2>2. tp' = [tp EXCEPT ![n] = order]
      BY <1>2, <1>3, <1>4 DEF OrderTypes, OrderStates
    <2> HIDE DEF order
    <2> QED BY <2>1, <2>2, <1>3 DEF OrderTypes
  <1>8. pos' \in Nat /\ Whole(pos', case.lot.step)
    BY <1>2, <1>3, <1>4, <1>6, WholeSums DEF LotsInv
  <1>9. /\ \A m \in 1..3 : /\ tp'[m].qty = tp[m].qty
                           /\ tp'[m].at = "none" <=> tp[m].at = "none"
                           /\ tp[m].filled <= tp'[m].filled
    BY <1>1, <1>3, <1>4, <1>6, <1>7 DEF OrderTypes, OrderStates
  <1>10. Bought' = Bought
    <2>1. \A m \in 1..3 : tp[m].filled \in Nat
      BY <1>3 DEF OrderTypes, OrderStates
    <2> QED BY <2>1, <1>2, <1>4, <1>6, <1>7 DEF Bought
  <1>11. OrderTypes'
    BY <1>1, <1>3, <1>7, <1>8 DEF OrderTypes
  <1>12. StageInv'
    BY <1>1, <1>2, <1>3, <1>9 DEF StageInv, Planned
  <1>13. LotsInv'
    <2>1. Whole(tp'[n].filled, case.lot.step)
      BY <1>3, <1>4, <1>6, <1>7, WholeSums DEF LotsInv
    <2> QED BY <2>1, <1>1, <1>3, <1>7, <1>8 DEF LotsInv
  <1>14. TargetInv'
    <2>1. \A m \in 1..3 :
            /\ tp'[m].at = "none" => tp'[m].qty = 0 /\ tp'[m].filled = 0
            /\ tp'[m].at = "open" => tp'[m].filled < tp'[m].qty
            /\ tp'[m].at = "filled" => tp'[m].filled = tp'[m].qty
            /\ tp'[m].filled <= tp'[m].qty
            /\ cancels = 0 => tp'[m].at # "cancelled"
      BY <1>3, <1>4, <1>6, <1>7 DEF TargetInv
    <2>2. \A m \in 1..3 : tp'[m].qty <= plan[m] /\ booked[m] <= tp'[m].filled
      <3>1. \A m \in 1..3 : booked[m] \in Nat /\ tp[m].filled \in Nat /\ tp'[m].filled \in Nat
        BY <1>3, <1>11 DEF OrderTypes, OrderStates
      <3> QED BY <3>1, <1>3, <1>9 DEF TargetInv
    <2> QED BY <2>1, <2>2, <1>1, <1>3, <1>9 DEF TargetInv
  <1>15. SumInv' /\ PlacingInv' /\ RestoringInv' /\ ShortInv'
    BY <1>1, <1>3, <1>9, <1>10
    DEF SumInv, PlacingInv, RestoringInv, ShortInv, Ordered, Planned, Accounted, OrderedUpTo
  <1> QED BY <1>11, <1>12, <1>13, <1>14, <1>15 DEF OrdersParts

LEMMA CancelledKeeps ==
  ASSUME OrdersParts, NEW n \in 1..3, Orders!Cancelled(n)
  PROVE  OrdersParts'
  <1>1. /\ tp[n].at = "open" /\ tp' = [tp EXCEPT ![n].at = "cancelled"]
        /\ cancels' = cancels + 1
        /\ UNCHANGED <<case, stage, pos, plan, booked, next, left, missed>>
    BY DEF Orders!Cancelled
  <1>2. /\ OrderTypes /\ StageInv /\ LotsInv /\ TargetInv
        /\ SumInv /\ PlacingInv /\ RestoringInv /\ ShortInv
    BY DEF OrdersParts
  <1>3. /\ tp' \in [1..3 -> OrderStates]
        /\ \A m \in 1..3 : /\ tp'[m].qty = tp[m].qty /\ tp'[m].filled = tp[m].filled
                           /\ tp'[m].at = IF m = n THEN "cancelled" ELSE tp[m].at
    BY <1>1, <1>2 DEF OrderTypes, OrderStates
  <1>4. \A m \in 1..3 : tp'[m].at = "none" <=> tp[m].at = "none"
    BY <1>1, <1>3
  <1>5. Bought' = Bought /\ Ordered' = Ordered /\ Planned' = Planned
    BY <1>1, <1>3 DEF Bought, Ordered, Planned
  <1>6. OrderTypes'
    BY <1>1, <1>2, <1>3 DEF OrderTypes
  <1>7. StageInv'
    BY <1>1, <1>2, <1>4, <1>5 DEF StageInv
  <1>8. LotsInv'
    BY <1>1, <1>2, <1>3 DEF LotsInv
  <1>9. TargetInv'
    <2>1. cancels' # 0
      BY <1>1, <1>2 DEF OrderTypes
    <2> QED BY <2>1, <1>1, <1>2, <1>3, <1>4 DEF TargetInv
  <1>10. SumInv' /\ PlacingInv' /\ RestoringInv' /\ ShortInv'
    BY <1>1, <1>2, <1>3, <1>4, <1>5
    DEF SumInv, PlacingInv, RestoringInv, ShortInv, Accounted, OrderedUpTo
  <1> QED BY <1>6, <1>7, <1>8, <1>9, <1>10 DEF OrdersParts

LEMMA CrashKeeps == OrdersParts /\ Orders!Crash => OrdersParts'
  <1> SUFFICES ASSUME OrdersParts, Orders!Crash
               PROVE  OrdersParts'
    OBVIOUS
  <1>1. /\ stage \in {"filled", "placing", "syncing", "reading", "restoring"}
        /\ stage' = "syncing" /\ next' = 1
        /\ UNCHANGED <<case, pos, plan, tp, booked, left, missed, cancels>>
    BY DEF Orders!Crash
  <1>2. /\ OrderTypes /\ StageInv /\ LotsInv /\ TargetInv /\ SumInv /\ ShortInv
    BY DEF OrdersParts
  <1>3. OrderTypes'
    BY <1>1, <1>2 DEF OrderTypes, Stages
  <1>4. StageInv'
    BY <1>1, <1>2 DEF StageInv
  <1>5. LotsInv' /\ TargetInv' /\ SumInv' /\ ShortInv'
    BY <1>1, <1>2 DEF LotsInv, TargetInv, SumInv, ShortInv, Ordered, Bought, Planned, OrderedUpTo
  <1> QED BY <1>1, <1>3, <1>4, <1>5 DEF OrdersParts, PlacingInv, RestoringInv

LEMMA SyncKeeps == OrdersParts /\ Orders!Sync => OrdersParts'
  <1> SUFFICES ASSUME OrdersParts, Orders!Sync
               PROVE  OrdersParts'
    OBVIOUS
  <1>1. /\ stage = "syncing" /\ stage' = "reading"
        /\ UNCHANGED <<case, pos, plan, tp, next, left, missed, cancels>>
    BY DEF Orders!Sync
  <1>2. /\ OrderTypes /\ StageInv /\ LotsInv /\ TargetInv /\ SumInv /\ ShortInv
    BY DEF OrdersParts
  <1>3. \A n \in 1..3 : tp[n].filled \in Nat
    BY <1>2 DEF OrderTypes, OrderStates
  <1>4. /\ booked' \in [1..3 -> Nat]
        /\ \A n \in 1..3 : booked'[n] = tp[n].filled \/ booked'[n] = booked[n]
    <2>1. CASE booked' = [n \in Orders!Targets |-> tp[n].filled]
      BY <2>1, <1>3 DEF Orders!Targets
    <2>2. CASE UNCHANGED booked
      BY <2>2, <1>2 DEF OrderTypes
    <2> QED BY <2>1, <2>2 DEF Orders!Sync
  <1>5. OrderTypes'
    BY <1>1, <1>2, <1>4 DEF OrderTypes, Stages
  <1>6. StageInv'
    BY <1>1, <1>2 DEF StageInv, Planned
  <1>7. LotsInv'
    BY <1>1, <1>2, <1>4 DEF LotsInv
  <1>8. TargetInv'
    <2>1. \A n \in 1..3 : booked'[n] <= tp[n].filled
      BY <1>2, <1>3, <1>4 DEF TargetInv
    <2> QED BY <2>1, <1>1, <1>2 DEF TargetInv
  <1>9. SumInv' /\ ShortInv'
    BY <1>1, <1>2 DEF SumInv, ShortInv, Ordered, Bought, Planned, OrderedUpTo
  <1> QED BY <1>1, <1>5, <1>6, <1>7, <1>8, <1>9 DEF OrdersParts, PlacingInv, RestoringInv

LEMMA ReadPositionKeeps == OrdersParts /\ Orders!ReadPosition => OrdersParts'
  <1> SUFFICES ASSUME OrdersParts, Orders!ReadPosition
               PROVE  OrdersParts'
    OBVIOUS
  <1>1. stage = "reading" /\ UNCHANGED <<case, pos, plan, tp, booked, next, cancels>>
    BY DEF Orders!ReadPosition
  <1>2. /\ OrderTypes /\ StageInv /\ LotsInv /\ TargetInv /\ SumInv /\ ShortInv
    BY DEF OrdersParts
  <1>3. CASE stage' = "flat" /\ UNCHANGED <<left, missed>>
    <2>1. OrderTypes'
      BY <1>1, <1>2, <1>3 DEF OrderTypes, Stages
    <2>2. StageInv'
      BY <1>1, <1>2, <1>3 DEF StageInv
    <2>3. LotsInv' /\ TargetInv' /\ SumInv' /\ ShortInv'
      BY <1>1, <1>2, <1>3
      DEF LotsInv, TargetInv, SumInv, ShortInv, Ordered, Bought, Planned, OrderedUpTo
    <2> QED BY <2>1, <2>2, <2>3, <1>3 DEF OrdersParts, PlacingInv, RestoringInv
  <1>4. CASE /\ stage' = "restoring" /\ left' = pos
             /\ missed' = (missed \/ \E n \in Orders!Targets : booked[n] # tp[n].filled)
    <2>1. next = 1 /\ next' = 1
      BY <1>1, <1>2 DEF StageInv
    <2>2. missed' \in BOOLEAN /\ (~missed' => ~missed /\ \A n \in 1..3 : booked[n] = tp[n].filled)
      BY <1>4 DEF Orders!Targets
    <2>3. OrderTypes'
      BY <1>1, <1>2, <1>4, <2>2 DEF OrderTypes, Stages
    <2>4. StageInv'
      BY <1>1, <1>2, <1>4 DEF StageInv
    <2>5. LotsInv' /\ TargetInv' /\ SumInv'
      BY <1>1, <1>2, <1>4 DEF LotsInv, TargetInv, SumInv, Ordered, Bought, Planned
    <2>6. ShortInv'
      BY <1>1, <1>2, <2>2 DEF ShortInv, Bought, OrderedUpTo
    <2>7. \A n \in 1..3 : booked[n] \in Nat /\ tp[n].filled \in Nat /\ booked[n] <= tp[n].filled
      BY <1>2 DEF OrderTypes, OrderStates, TargetInv
    <2>8. pos \in Nat /\ Accounted(1) = booked[1] + booked[2] + booked[3]
      BY <1>2 DEF Accounted, OrderTypes
    <2>9. pos + Accounted(1) <= Bought /\ (~missed' => pos + Accounted(1) >= Bought)
      BY <2>2, <2>7, <2>8 DEF Bought
    <2>10. Accounted(next)' = Accounted(1) /\ Bought' = Bought
      BY <1>1, <2>1 DEF Accounted, Bought
    <2>11. RestoringInv'
      BY <1>4, <2>1, <2>9, <2>10 DEF RestoringInv
    <2> QED BY <2>3, <2>4, <2>5, <2>6, <2>11, <1>4 DEF OrdersParts, PlacingInv
  <1> QED BY <1>3, <1>4 DEF Orders!ReadPosition

\* What a target still needs, and the order it gets if what is left is enough for it.
LEMMA NeedIs ==
  ASSUME OrderTypes, NEW n \in 1..3
  PROVE  /\ Orders!Need(n) \in Nat
         /\ Orders!Need(n) = IF plan[n] > booked[n] THEN plan[n] - booked[n] ELSE 0
  <1>1. plan[n] \in Nat /\ booked[n] \in Nat
    BY DEF OrderTypes
  <1> QED BY <1>1 DEF Orders!Need, Orders!Greater

LEMMA RestoredIs ==
  ASSUME OrdersParts, NEW n \in 1..3, stage = "restoring", tp[n].at = "none",
         Orders!Restored(n) <= left
  PROVE  /\ Orders!Restored(n) \in Nat /\ Orders!Restored(n) > 0
         /\ Whole(Orders!Restored(n), case.lot.step)
         /\ Orders!Restored(n) = IF plan[n] < left THEN plan[n] ELSE left
  <1>1. /\ OrderTypes /\ LotsInv /\ TargetInv /\ StageInv
    BY DEF OrdersParts
  <1>2. /\ case.lot \in Lots /\ case.lot.min \in Nat \ {0}
        /\ plan[n] \in Nat /\ left \in Nat /\ booked[n] \in Nat /\ tp[n].filled \in Nat
    BY <1>1, CaseTypes DEF OrderTypes, OrderStates
  <1>3. plan[n] >= case.lot.min /\ booked[n] = 0
    BY <1>1, <1>2 DEF StageInv, TargetInv
  <1>4. Orders!Need(n) = plan[n]
    BY <1>1, <1>2, <1>3, NeedIs
  <1> DEFINE want == IF plan[n] < left THEN plan[n] ELSE left
  <1>5. want \in Nat /\ Whole(want, case.lot.step)
    BY <1>1, <1>2 DEF LotsInv
  <1>6. Orders!Lesser(Orders!Need(n), left) = want
    BY <1>4 DEF Orders!Lesser
  <1> DEFINE floor == Orders!FloorStep(want, case.lot)
  <1>7. floor = want
    BY <1>2, <1>5, FloorIsWhole
  <1>8. Orders!Restored(n) = IF want < case.lot.min THEN case.lot.min ELSE want
    <2>1. Orders!Restored(n) = Orders!Greater(want, case.lot.min)
      BY <1>6, <1>7, Zenon DEF Orders!Restored
    <2> HIDE DEF want
    <2> QED BY <2>1, <1>2, <1>5 DEF Orders!Greater
  <1>9. want >= case.lot.min
    BY <1>2, <1>3, <1>8
  <1> QED BY <1>2, <1>5, <1>8, <1>9

\* A target that is passed over: its order, or what it sold, accounts for it.
LEMMA PassedOver ==
  ASSUME OrdersParts, stage = "restoring", tp[next].at # "none",
         UNCHANGED <<case, pos, plan, tp, booked, missed, cancels>>,
         Orders!Onwards, left' \in Nat, Whole(left', case.lot.step),
         left' = 0 \/ left' + plan[next] - booked[next] <= left,
         left' + plan[next] - booked[next] >= left \/ (left' = left /\ booked[next] >= plan[next])
  PROVE  OrdersParts'
  <1>1. /\ OrderTypes /\ StageInv /\ LotsInv /\ TargetInv /\ SumInv /\ RestoringInv /\ ShortInv
    BY DEF OrdersParts
  <1>2. \/ next = 3 /\ stage' = "active" /\ next' = next
        \/ next \in 1..2 /\ next' = next + 1 /\ stage' = "restoring"
    BY <1>1, OnwardsMoves
  <1>3. \A n \in 1..3 : /\ plan[n] \in Nat /\ booked[n] \in Nat
                        /\ tp[n].qty \in Nat /\ tp[n].filled \in Nat
                        /\ tp[n].qty <= plan[n] /\ booked[n] <= tp[n].filled
                        /\ tp[n].filled <= tp[n].qty
    BY <1>1 DEF OrderTypes, OrderStates, TargetInv
  <1>4. left \in Nat /\ pos \in Nat /\ next \in 1..3
    BY <1>1 DEF OrderTypes
  <1>5. Bought' = Bought /\ Ordered' = Ordered /\ Planned' = Planned /\ Bought \in Nat
    BY <1>3, <1>4 DEF Bought, Ordered, Planned
  <1>6. OrderTypes'
    BY <1>1, <1>2 DEF OrderTypes, Stages
  <1>7. \A n \in 1..3 : n <= next => tp[n].at # "none"
    BY <1>1, <1>4 DEF RestoringInv
  <1>8. StageInv'
    BY <1>1, <1>2, <1>7 DEF StageInv
  <1>9. LotsInv' /\ TargetInv' /\ SumInv' /\ ShortInv'
    BY <1>1, <1>5 DEF LotsInv, TargetInv, SumInv, ShortInv, OrderedUpTo
  <1>10. ASSUME next \in 1..2, next' = next + 1
         PROVE  RestoringInv'
    <2>1. /\ Accounted(next + 1) = Accounted(next) - booked[next] + tp[next].qty
          /\ Accounted(next) \in Nat
      BY <1>3, <1>10 DEF Accounted
    <2>2. Accounted(next)' = Accounted(next + 1)
      BY <1>10 DEF Accounted
    <2>3. left' = 0 \/ left' + Accounted(next + 1) <= Bought
      <3>1. CASE left = 0
        BY <3>1, <1>3, <1>4
      <3>2. CASE left + Accounted(next) <= Bought
        BY <3>2, <2>1, <1>3, <1>4, <1>5
      <3> QED BY <3>1, <3>2, <1>1 DEF RestoringInv
    <2>4. ASSUME ~missed
          PROVE  left' + Accounted(next + 1) >= Bought
      <3>1. left + Accounted(next) >= Bought
        BY <2>4, <1>1 DEF RestoringInv
      <3>2. CASE tp[next].qty = plan[next]
        BY <3>1, <3>2, <2>1, <1>3, <1>4, <1>5
      <3>3. CASE tp[next].qty < plan[next]
        <4>1. OrderedUpTo(next) = Bought
          BY <3>3, <2>4, <1>1, <1>4 DEF ShortInv
        <4>2. Accounted(next + 1) >= OrderedUpTo(next)
          BY <1>3, <1>10 DEF Accounted, OrderedUpTo
        <4>3. OrderedUpTo(next) \in Nat /\ Accounted(next + 1) \in Nat
          BY <1>3, <1>10 DEF Accounted, OrderedUpTo
        <4> QED BY <4>1, <4>2, <4>3
      <3> QED BY <3>2, <3>3, <1>3, <1>4
    <2>5. \A n \in 1..3 : n < next' => tp'[n].at # "none"
      BY <1>7, <1>10
    <2> QED BY <2>2, <2>3, <2>4, <2>5, <1>5 DEF RestoringInv
  <1>11. RestoringInv'
    BY <1>2, <1>10 DEF RestoringInv
  <1> QED BY <1>2, <1>6, <1>8, <1>9, <1>11 DEF OrdersParts, PlacingInv

\* A target that gets its order: as planned, or all that is left.
LEMMA OrderedAgain ==
  ASSUME OrdersParts, stage = "restoring", tp[next].at = "none",
         UNCHANGED <<case, pos, plan, booked, missed, cancels>>,
         Orders!Restored(next) <= left, Orders!Order(next, Orders!Restored(next)),
         left' = left - Orders!Restored(next), Orders!Onwards
  PROVE  OrdersParts'
  <1> DEFINE r == Orders!Restored(next)
  <1>1. /\ OrderTypes /\ StageInv /\ LotsInv /\ TargetInv /\ SumInv /\ RestoringInv /\ ShortInv
    BY DEF OrdersParts
  <1>2. \/ next = 3 /\ stage' = "active" /\ next' = next
        \/ next \in 1..2 /\ next' = next + 1 /\ stage' = "restoring"
    BY <1>1, OnwardsMoves
  <1>3. left \in Nat /\ pos \in Nat /\ next \in 1..3 /\ case.lot.step \in Positive
    BY <1>1, CaseTypes DEF OrderTypes, Positive
  <1>4. /\ r \in Nat /\ r > 0 /\ r <= left /\ Whole(r, case.lot.step)
        /\ r = IF plan[next] < left THEN plan[next] ELSE left
    BY <1>3, RestoredIs
  <1>5. /\ tp' \in [1..3 -> OrderStates]
        /\ tp'[next].at = "open" /\ tp'[next].qty = r /\ tp'[next].filled = 0
        /\ \A m \in 1..3 : m # next => tp'[m] = tp[m]
    BY <1>1, <1>3, <1>4, OrderIsOpen
  <1>6. left' = left - r
    OBVIOUS
  <1> HIDE DEF r
  <1>7. \A n \in 1..3 :
          /\ plan[n] \in Nat /\ booked[n] \in Nat /\ tp[n].qty \in Nat /\ tp[n].filled \in Nat
          /\ tp[n].qty <= plan[n] /\ booked[n] <= tp[n].filled /\ tp[n].filled <= tp[n].qty
    BY <1>1 DEF OrderTypes, OrderStates, TargetInv
  <1>8. \A n \in 1..3 :
          n >= next => /\ tp[n].at = "none" /\ tp[n].qty = 0 /\ tp[n].filled = 0
                       /\ booked[n] = 0
    <2>1. \A n \in 1..3 : n >= next => tp[n].at = "none"
      BY <1>1, <1>3 DEF TargetInv
    <2> QED BY <2>1, <1>1, <1>7 DEF TargetInv
  <1>9. \A n \in 1..3 : n < next => tp[n].at # "none"
    BY <1>1, <1>3 DEF RestoringInv
  <1>10. Bought' = Bought /\ Planned' = Planned /\ Bought \in Nat
    BY <1>3, <1>5, <1>7, <1>8 DEF Bought, Planned
  <1>11. Ordered' = Ordered + r /\ Ordered \in Nat /\ Accounted(next) = Ordered
    <2>1. /\ tp'[1].qty = IF next = 1 THEN r ELSE tp[1].qty
          /\ tp'[2].qty = IF next = 2 THEN r ELSE tp[2].qty
          /\ tp'[3].qty = IF next = 3 THEN r ELSE tp[3].qty
      BY <1>3, <1>5
    <2>2. CASE next = 1
      BY <2>1, <2>2, <1>4, <1>7, <1>8 DEF Ordered, Accounted
    <2>3. CASE next = 2
      BY <2>1, <2>3, <1>4, <1>7, <1>8 DEF Ordered, Accounted
    <2>4. CASE next = 3
      BY <2>1, <2>4, <1>4, <1>7, <1>8 DEF Ordered, Accounted
    <2> QED BY <2>2, <2>3, <2>4, <1>3
  <1>12. left + Ordered <= Bought
    BY <1>1, <1>3, <1>4, <1>11 DEF RestoringInv
  <1>13. OrderTypes'
    BY <1>1, <1>2, <1>3, <1>4, <1>5, <1>6 DEF OrderTypes, Stages
  <1>14. StageInv'
    BY <1>1, <1>2, <1>5, <1>9 DEF StageInv, Planned
  <1>15. LotsInv'
    <2>1. Whole(left', case.lot.step) /\ Whole(0, case.lot.step)
      <3> DEFINE size == case.lot.step
      <3>1. size \in Positive /\ Whole(left, size) /\ Whole(r, size)
        BY <1>1, <1>3, <1>4 DEF LotsInv
      <3> HIDE DEF size
      <3>2. left \in Int /\ r \in Int
        BY <1>3, <1>4
      <3>3. Whole(left - r, size)
        BY <3>1, <3>2, WholeSums
      <3>4. Whole(0, size)
        BY <3>1, WholeStep
      <3> QED BY <3>3, <3>4, <1>6 DEF size
    <2> QED BY <2>1, <1>1, <1>4, <1>5 DEF LotsInv
  <1>16. TargetInv'
    <2>1. r <= plan[next]
      BY <1>3, <1>4, <1>7
    <2> QED BY <2>1, <1>1, <1>3, <1>4, <1>5, <1>7, <1>8, <1>9 DEF TargetInv
  <1>17. SumInv'
    <2>1. Planned \in Nat /\ Bought <= Planned
      BY <1>1, <1>7 DEF SumInv, Planned
    <2> QED BY <2>1, <1>3, <1>4, <1>10, <1>11, <1>12 DEF SumInv
  <1>18. ShortInv'
    <2> SUFFICES ASSUME ~missed, NEW n \in 1..3, tp'[n].at # "none", tp'[n].qty < plan[n]
                 PROVE  OrderedUpTo(n)' = Bought
      BY <1>10 DEF ShortInv
    <2>1. CASE n = next
      <3>1. r = left
        BY <2>1, <1>3, <1>4, <1>5, <1>7
      <3>2. left + Ordered >= Bought
        BY <1>1, <1>11 DEF RestoringInv
      <3>3. OrderedUpTo(n)' = Ordered + r
        <4>1. \A m \in 1..3 : m > n => tp'[m].qty = 0
          BY <2>1, <1>3, <1>5, <1>8
        <4>2. \A m \in 1..3 : tp'[m].qty \in Nat
          BY <1>5 DEF OrderStates
        <4>3. OrderedUpTo(n)' = Ordered'
          BY <4>1, <4>2, <1>3, <2>1 DEF OrderedUpTo, Ordered
        <4> QED BY <4>3, <1>11
      <3> QED BY <3>1, <3>2, <3>3, <1>3, <1>10, <1>11, <1>12
    <2>2. CASE n # next
      <3>1. n < next /\ tp[n].at # "none" /\ tp[n].qty < plan[n]
        BY <2>2, <1>3, <1>5, <1>8
      <3>2. OrderedUpTo(n) = Bought
        BY <3>1, <1>1 DEF ShortInv
      <3>3. OrderedUpTo(n)' = OrderedUpTo(n)
        BY <3>1, <1>3, <1>5 DEF OrderedUpTo
      <3> QED BY <3>2, <3>3
    <2> QED BY <2>1, <2>2
  <1>19. ASSUME next \in 1..2, next' = next + 1
         PROVE  RestoringInv'
    <2>1. Accounted(next)' = Ordered + r
      <3>1. \A m \in 1..3 : m >= next' => tp'[m].qty = 0 /\ booked'[m] = 0
        BY <1>3, <1>5, <1>8, <1>19
      <3>2. \A m \in 1..3 : tp'[m].qty \in Nat
        BY <1>5 DEF OrderStates
      <3>3. Accounted(next)' = Ordered'
        BY <3>1, <3>2, <1>19 DEF Accounted, Ordered
      <3> QED BY <3>3, <1>11
    <2>2. \A n \in 1..3 : n < next' => tp'[n].at # "none"
      BY <1>5, <1>9, <1>19
    <2>3. left' + (Ordered + r) = left + Ordered
      BY <1>3, <1>4, <1>6, <1>11
    <2>4. ~missed => left + Ordered >= Bought
      BY <1>1, <1>11 DEF RestoringInv
    <2> QED BY <2>1, <2>2, <2>3, <2>4, <1>10, <1>12 DEF RestoringInv
  <1>20. RestoringInv'
    BY <1>2, <1>19 DEF RestoringInv
  <1> QED BY <1>2, <1>13, <1>14, <1>15, <1>16, <1>17, <1>18, <1>20 DEF OrdersParts, PlacingInv

LEMMA RestoreTargetKeeps == OrdersParts /\ Orders!RestoreTarget => OrdersParts'
  <1> SUFFICES ASSUME OrdersParts, Orders!RestoreTarget
               PROVE  OrdersParts'
    OBVIOUS
  <1>1. stage = "restoring" /\ UNCHANGED <<case, pos, plan, booked, missed, cancels>>
    BY DEF Orders!RestoreTarget
  <1>2. /\ OrderTypes /\ StageInv /\ LotsInv /\ TargetInv /\ SumInv /\ ShortInv
    BY DEF OrdersParts
  <1>3. /\ next \in 1..3 /\ left \in Nat /\ plan[next] \in Nat /\ booked[next] \in Nat
        /\ tp[next].qty \in Nat /\ tp[next].filled \in Nat
        /\ case.lot.min \in Nat \ {0} /\ case.lot.step \in Positive
    BY <1>2, CaseTypes DEF OrderTypes, OrderStates, Positive
  <1>4. /\ Orders!Need(next) \in Nat
        /\ Orders!Need(next) = IF plan[next] > booked[next] THEN plan[next] - booked[next] ELSE 0
    BY <1>2, <1>3, NeedIs
  <1>5. CASE Orders!Need(next) = 0 /\ Orders!Onwards /\ UNCHANGED <<tp, left>>
    <2>1. booked[next] >= plan[next]
      BY <1>3, <1>4, <1>5
    <2>2. plan[next] >= case.lot.min
      BY <1>1, <1>2, <1>3 DEF StageInv
    <2>3. tp[next].filled > 0
      BY <2>1, <2>2, <1>2, <1>3 DEF TargetInv
    <2>4. tp[next].at # "none"
      BY <2>3, <1>2, <1>3 DEF TargetInv
    <2>5. left' \in Nat /\ Whole(left', case.lot.step)
      BY <1>2, <1>3, <1>5 DEF LotsInv
    <2>6. left' = 0 \/ left' + plan[next] - booked[next] <= left
      BY <2>1, <1>3, <1>5
    <2> QED BY <2>1, <2>4, <2>5, <2>6, <1>1, <1>5, PassedOver
  <1>6. CASE /\ Orders!Need(next) > 0 /\ Orders!Known(next)
             /\ left' = Orders!LeftBeside(next) /\ Orders!Onwards /\ UNCHANGED tp
    <2>1. Orders!Need(next) = plan[next] - booked[next]
      BY <1>3, <1>4, <1>6
    <2>2. tp[next].at # "none"
      BY <1>6 DEF Orders!Known
    <2> DEFINE rest == left - (plan[next] - booked[next])
    <2>3. rest \in Int /\ left' = IF 0 > rest THEN 0 ELSE rest
      BY <2>1, <1>3, <1>6 DEF Orders!LeftBeside, Orders!Greater
    <2>4. Whole(rest, case.lot.step) /\ Whole(0, case.lot.step)
      <3> DEFINE size == case.lot.step
                 p == plan[next]
                 b == booked[next]
      <3>1. /\ size \in Positive /\ p \in Int /\ b \in Int /\ left \in Int /\ p - b \in Int
            /\ Whole(p, size) /\ Whole(b, size) /\ Whole(left, size)
        BY <1>2, <1>3 DEF LotsInv
      <3> HIDE DEF size, p, b
      <3>2. Whole(p - b, size)
        BY <3>1, WholeSums
      <3>3. Whole(left - (p - b), size)
        BY <3>1, <3>2, WholeSums
      <3>4. Whole(0, size)
        BY <3>1, WholeStep
      <3> QED BY <3>3, <3>4 DEF size, p, b
    <2>5. left' \in Nat /\ Whole(left', case.lot.step)
      BY <2>3, <2>4
    <2>6. /\ left' = 0 \/ left' + plan[next] - booked[next] <= left
          /\ left' + plan[next] - booked[next] >= left
      BY <2>3, <1>3
    <2> QED BY <2>2, <2>5, <2>6, <1>1, <1>6, PassedOver
  <1>7. CASE /\ Orders!Need(next) > 0 /\ tp[next].at = "none" /\ Orders!Restored(next) <= left
             /\ Orders!Order(next, Orders!Restored(next))
             /\ left' = Orders!Greater(0, left - Orders!Restored(next)) /\ Orders!Onwards
    <2>1. Orders!Restored(next) \in Nat
      BY <1>1, <1>3, <1>7, RestoredIs
    <2>2. left' = left - Orders!Restored(next)
      BY <2>1, <1>3, <1>7 DEF Orders!Greater
    <2> QED BY <2>2, <1>1, <1>7, OrderedAgain
  <1>8. CASE stage' = "failsafe" /\ UNCHANGED <<tp, left, next>>
    <2>1. OrderTypes'
      BY <1>1, <1>2, <1>8 DEF OrderTypes, Stages
    <2>2. StageInv'
      BY <1>1, <1>2, <1>8 DEF StageInv
    <2>3. LotsInv' /\ TargetInv' /\ SumInv' /\ ShortInv'
      BY <1>1, <1>2, <1>8
      DEF LotsInv, TargetInv, SumInv, ShortInv, Ordered, Bought, Planned, OrderedUpTo
    <2> QED BY <2>1, <2>2, <2>3, <1>8 DEF OrdersParts, PlacingInv, RestoringInv
  <1> QED BY <1>5, <1>6, <1>7, <1>8 DEF Orders!RestoreTarget

LEMMA OrdersMove ==
  ASSUME OrdersParts, Orders!Next
  PROVE  OrdersParts'
  <1>1. CASE \E n \in Orders!Targets : Orders!TargetFills(n) \/ Orders!Cancelled(n)
    <2>1. PICK n \in 1..3 : Orders!TargetFills(n) \/ Orders!Cancelled(n)
      BY <1>1 DEF Orders!Targets
    <2> QED BY <2>1, TargetFillsKeeps, CancelledKeeps
  <1> QED BY <1>1, SizeKeeps, EntryFillsKeeps, ReplanKeeps, PlaceKeeps, CrashKeeps, SyncKeeps,
             ReadPositionKeeps, RestoreTargetKeeps
      DEF Orders!Next

LEMMA OrdersSteps == OrdersInv /\ [NextAll]_allVars => OrdersInv'
  <1>1. ASSUME OrdersInv, NextAll
        PROVE  OrdersInv'
    <2>1. part' = part
      BY <1>1 DEF NextAll, DeliveryStep, ProtocolStep, OrdersStep, MarginStep, FillsStep
    <2>2. CASE part = "orders"
      <3>1. Orders!Next
        BY <1>1, <2>2
        DEF NextAll, DeliveryStep, ProtocolStep, OrdersStep, MarginStep, FillsStep
      <3> QED BY <3>1, <1>1, <2>2, OrdersMove DEF OrdersInv
    <2>3. CASE part # "orders"
      BY <2>1, <2>3 DEF OrdersInv
    <2> QED BY <2>2, <2>3
  <1>2. ASSUME OrdersInv, UNCHANGED <<part, ordersVars>>
        PROVE  OrdersInv'
    BY <1>2
    DEF ordersVars, OrdersInv, OrdersParts, OrderTypes, StageInv, LotsInv, TargetInv, SumInv,
        PlacingInv, RestoringInv, ShortInv, Bought, Ordered, Planned, OrderedUpTo, Accounted
  <1> QED BY <1>1, <1>2 DEF allVars

\* The inductive invariant of the orders.
THEOREM OrdersHold == SpecAll => []OrdersInv
  BY OrdersInit, OrdersSteps, PTL DEF SpecAll

\* For all prices, stops, budgets, lots, leverages and limits: an order risks no more than the
\* budget, or it is the smallest that the floor of the margin admits, within the cap.
THEOREM RiskIsWithinBudget == SpecAll => []RiskWithinBudget
  <1>1. OrdersInv => RiskWithinBudget
    <2> SUFFICES ASSUME OrdersParts, stage \notin {"received", "refused"}
                 PROVE  LET qty == Orders!OrderQty(case)
                        IN /\ \/ qty * Orders!Distance(case) * 1000 <= case.budget * 1001
                              \/ /\ qty * case.market >= Orders!FloorNotional(case)
                                 /\ (qty - case.lot.step) * case.market
                                      < Orders!FloorNotional(case)
                           /\ qty * case.market * 1000 <= Orders!CapNotional(case) * 1001
      BY DEF OrdersInv, RiskWithinBudget, Orders!RiskWithinBudget
    <2>1. case \in Cases /\ Orders!Tradable(case)
      BY DEF OrdersParts, OrderTypes, StageInv
    <2> QED BY <2>1, TradableRisk
  <1> QED BY <1>1, OrdersHold, PTL

\* For all lots, partial entries, fills, crashes, listings that failed and cancellations: the
\* open targets never sell more than is held, and those of an active trade all of it, unless
\* one was cancelled or a fill escaped the recovery.
THEOREM TargetsSellThePosition == SpecAll => []TargetsMatchPosition
  <1>1. OrdersInv => TargetsMatchPosition
    <2> SUFFICES ASSUME OrdersParts
                 PROVE  Orders!TargetsMatchPosition
      BY DEF OrdersInv, TargetsMatchPosition
    <2>1. /\ OrderTypes /\ StageInv /\ TargetInv /\ SumInv /\ ShortInv
      BY DEF OrdersParts
    <2> DEFINE rest(n) == IF tp[n].at = "open" THEN tp[n].qty - tp[n].filled ELSE 0
    <2>2. \A n \in 1..3 : /\ tp[n].qty \in Nat /\ tp[n].filled \in Nat /\ plan[n] \in Nat
                          /\ tp[n].at \in {"none", "open", "filled", "cancelled"}
      BY <2>1 DEF OrderTypes, OrderStates
    <2>3. \A n \in 1..3 : rest(n) \in Nat /\ rest(n) <= tp[n].qty - tp[n].filled
      BY <2>1, <2>2 DEF TargetInv
    <2>4. pos \in Nat /\ Ordered <= Bought /\ Bought <= Planned
      BY <2>1 DEF OrderTypes, SumInv
    <2>5. ASSUME stage = "active", cancels = 0, ~missed
          PROVE  /\ \A n \in 1..3 : rest(n) = tp[n].qty - tp[n].filled
                 /\ Ordered = Bought
      <3>1. \A n \in 1..3 : tp[n].at \in {"open", "filled"}
        BY <2>1, <2>2, <2>5 DEF StageInv, TargetInv
      <3>2. \A n \in 1..3 : rest(n) = tp[n].qty - tp[n].filled
        BY <2>1, <2>2, <3>1 DEF TargetInv
      <3>3. CASE \E n \in 1..3 : tp[n].qty < plan[n]
        <4>1. PICK n \in 1..3 : tp[n].qty < plan[n]
          BY <3>3
        <4>2. OrderedUpTo(n) = Bought
          BY <4>1, <3>1, <2>1, <2>5 DEF ShortInv
        <4>3. OrderedUpTo(n) <= Ordered /\ OrderedUpTo(n) \in Nat /\ Ordered \in Nat
          BY <2>2 DEF OrderedUpTo, Ordered
        <4> QED BY <4>2, <4>3, <3>2, <2>4
      <3>4. CASE \A n \in 1..3 : tp[n].qty = plan[n]
        <4>1. Ordered = Planned /\ Ordered \in Nat
          BY <3>4, <2>2 DEF Ordered, Planned
        <4>2. Bought \in Nat
          BY <2>2, <2>4 DEF Bought
        <4> QED BY <4>1, <4>2, <3>2, <2>4
      <3>5. \A n \in 1..3 : tp[n].qty <= plan[n]
        BY <2>1 DEF TargetInv
      <3> QED BY <3>2, <3>3, <3>4, <3>5, <2>2
    <2> DEFINE open == rest(1) + rest(2) + rest(3)
    <2>6. open <= pos
      BY <2>2, <2>3, <2>4 DEF Ordered, Bought
    <2>7. stage = "active" /\ cancels = 0 /\ ~missed => open = pos
      <3> SUFFICES ASSUME stage = "active", cancels = 0, ~missed
                   PROVE  open = pos
        OBVIOUS
      <3>1. /\ rest(1) = tp[1].qty - tp[1].filled /\ rest(2) = tp[2].qty - tp[2].filled
            /\ rest(3) = tp[3].qty - tp[3].filled /\ Ordered = Bought
        BY <2>5
      <3> HIDE DEF rest
      <3> QED BY <3>1, <2>2, <2>4 DEF Ordered, Bought
    <2>8. open = Orders!Sum3([n \in Orders!Targets |-> rest(n)])
      BY DEF Orders!Sum3, Orders!Targets
    <2> QED BY <2>6, <2>7, <2>8 DEF Orders!TargetsMatchPosition
  <1> QED BY <1>1, OrdersHold, PTL

-----------------------------------------------------------------------------
(* The margin.  Unless a record of it was lost, what Bybit holds is what is recorded, or it *)
(* is being recorded.  In the first call it is what the call has added; and the turns that  *)
(* are left are always enough for what the call may still add.                              *)

CallRecords == [cap : Nat, step : Nat, added : Nat, turns : Nat, amount : Nat]

MarginTypes ==
  /\ position \in Positions /\ extra \in Nat /\ stored \in Nat
  /\ call \in CallRecords /\ calls \in Nat /\ lost \in BOOLEAN

BooksInv ==
  ~lost => extra = stored + (IF lock \in {"noting", "manual"} THEN call.amount ELSE 0)

FirstCallInv ==
  /\ calls = 0 => extra = 0 /\ stored = 0 /\ lock = "free"
  /\ calls <= 1 /\ lock \in {"adding", "noting"} =>
       extra = call.added /\ call.cap <= position.initial * Ratio
  /\ calls <= 1 /\ ~lost => extra <= position.initial * Ratio

TurnsInv ==
  /\ lock \in {"adding", "noting"} =>
       /\ call.added <= call.cap
       /\ call.added = call.cap \/ call.added + call.turns * call.step >= call.cap
  /\ lock = "exhausted" => call.added = call.cap

MarginParts == MarginTypes /\ BooksInv /\ FirstCallInv /\ TurnsInv
MarginInv == part = "margin" => MarginParts

LEMMA MarginInit == InitAll => MarginInv
  <1> SUFFICES ASSUME InitAll, part = "margin"
               PROVE  MarginParts
    BY DEF MarginInv
  <1>1. /\ position \in Positions /\ extra = 0 /\ stored = 0 /\ lock = "free"
        /\ call = [cap |-> 0, step |-> 0, added |-> 0, turns |-> 0, amount |-> 0]
        /\ calls = 0 /\ lost = FALSE
    BY DEF InitAll, Margin!Init, Margin!Idle
  <1>2. position.initial * Ratio \in Nat
    BY <1>1, MarginAssumption
  <1>3. MarginTypes
    <2>1. call \in CallRecords
      BY <1>1 DEF CallRecords
    <2>2. lost \in BOOLEAN
      BY <1>1
    <2> QED BY <1>1, <2>1, <2>2 DEF MarginTypes
  <1>4. BooksInv /\ FirstCallInv /\ TurnsInv
    BY <1>1, <1>2 DEF BooksInv, FirstCallInv, TurnsInv
  <1> QED BY <1>3, <1>4 DEF MarginParts

\* Twenty steps of a quarter and more reach five times the margin.
LEMMA StepsReach ==
  ASSUME NEW margin \in Nat, NEW s \in Nat, s >= (margin + 3) \div 4
  PROVE  margin * Ratio <= Turns * s
  <1>1. Ratio \in Nat /\ Turns \in Nat /\ 4 * Ratio <= Turns
    BY MarginAssumption
  <1>2. margin <= 4 * s
    OBVIOUS
  <1>3. margin * Ratio <= (4 * s) * Ratio
    BY <1>1, <1>2
  <1>4. (4 * s) * Ratio = (4 * Ratio) * s
    BY <1>1
  <1>5. (4 * Ratio) * s <= Turns * s
    BY <1>1
  <1>6. margin * Ratio \in Nat /\ (4 * Ratio) * s \in Nat /\ Turns * s \in Nat
    BY <1>1
  <1> QED BY <1>3, <1>4, <1>5, <1>6

LEMMA BeginKeeps == MarginParts /\ Margin!Begin => MarginParts'
  <1> SUFFICES ASSUME MarginParts, Margin!Begin
               PROVE  MarginParts'
    OBVIOUS
  <1> DEFINE cap == Margin!Lesser(Margin!PositionIM * Ratio,
                                  Margin!Greater(0, Margin!Available) \div Share)
             s == Margin!Greater(Step, (Margin!PositionIM + 3) \div 4)
  <1>1. /\ lock = "free" /\ calls' = calls + 1
        /\ UNCHANGED <<position, extra, stored, opened, lost, recoveries>>
    BY DEF Margin!Begin
  <1>2. \/ lock' \in {"protected", "unavailable"} /\ UNCHANGED call
        \/ /\ lock' = "adding"
           /\ call' = [cap |-> cap, step |-> s, added |-> 0, turns |-> Turns, amount |-> 0]
    BY DEF Margin!Begin
  <1>3. MarginTypes /\ BooksInv /\ FirstCallInv
    BY DEF MarginParts
  <1>4. /\ position.initial \in Nat /\ position.wallet \in Nat /\ extra \in Nat
        /\ Ratio \in Nat /\ Step \in Nat /\ Share \in Nat \ {0} /\ Turns \in Nat
        /\ calls \in Nat /\ call \in CallRecords
    BY <1>3, MarginAssumption DEF MarginTypes, Positive
  <1> DEFINE margin == position.initial + extra
             room == Margin!Greater(0, Margin!Available) \div Share
  <1>5. margin \in Nat /\ margin * Ratio \in Nat /\ room \in Nat
    <2>1. Margin!Greater(0, Margin!Available) \in Nat
      BY <1>4 DEF Margin!Greater, Margin!Available
    <2>2. room \in Nat
      BY <2>1, <1>4, Division
    <2> QED BY <2>2, <1>4
  <1>6. cap \in Nat /\ cap <= margin * Ratio
    <2> HIDE DEF room
    <2>1. cap = IF margin * Ratio < room THEN margin * Ratio ELSE room
      BY DEF Margin!Lesser, Margin!PositionIM, room
    <2> HIDE DEF cap
    <2> QED BY <2>1, <1>5
  <1>7. s \in Nat /\ s >= (margin + 3) \div 4
    <2>1. (margin + 3) \div 4 \in Nat
      BY <1>5
    <2>2. s = IF Step > (margin + 3) \div 4 THEN Step ELSE (margin + 3) \div 4
      BY DEF Margin!Greater, Margin!PositionIM
    <2> QED BY <2>1, <2>2, <1>4
  <1> HIDE DEF cap, s, room
  <1>8. cap <= Turns * s
    <2>1. margin * Ratio <= Turns * s
      BY <1>5, <1>7, StepsReach
    <2>2. Turns * s \in Nat
      BY <1>4, <1>7
    <2> QED BY <2>1, <2>2, <1>5, <1>6
  <1>9. calls' <= 1 => extra = 0
    BY <1>1, <1>3, <1>4 DEF FirstCallInv
  <1>10. extra = 0 => margin * Ratio = position.initial * Ratio
    BY <1>4
  <1>11. calls' <= 1 => extra <= position.initial * Ratio
    <2>1. position.initial * Ratio \in Nat
      BY <1>4
    <2> QED BY <2>1, <1>9
  <1>12. calls' \in Nat /\ calls' # 0
    BY <1>1, <1>4
  <1>13. CASE lock' \in {"protected", "unavailable"} /\ UNCHANGED call
    <2>1. MarginTypes' /\ BooksInv' /\ TurnsInv'
      BY <1>1, <1>3, <1>12, <1>13 DEF MarginTypes, BooksInv, TurnsInv
    <2>2. FirstCallInv'
      BY <1>1, <1>11, <1>12, <1>13 DEF FirstCallInv
    <2> QED BY <2>1, <2>2 DEF MarginParts
  <1>14. CASE /\ lock' = "adding"
              /\ call' = [cap |-> cap, step |-> s, added |-> 0, turns |-> Turns, amount |-> 0]
    <2>1. /\ call' \in CallRecords /\ call'.cap = cap /\ call'.step = s /\ call'.added = 0
          /\ call'.turns = Turns
      BY <1>4, <1>6, <1>7, <1>14 DEF CallRecords
    <2>2. MarginTypes' /\ BooksInv'
      BY <2>1, <1>1, <1>3, <1>12, <1>14 DEF MarginTypes, BooksInv
    <2>3. TurnsInv'
      <3>1. Turns * s \in Nat /\ 0 + Turns * s = Turns * s
        BY <1>4, <1>7
      <3> QED BY <2>1, <3>1, <1>6, <1>8, <1>14 DEF TurnsInv
    <2>4. FirstCallInv'
      BY <2>1, <1>1, <1>6, <1>9, <1>10, <1>11, <1>12, <1>14 DEF FirstCallInv
    <2> QED BY <2>2, <2>3, <2>4 DEF MarginParts
  <1> QED BY <1>2, <1>13, <1>14

LEMMA AddKeeps == MarginParts /\ Margin!Add => MarginParts'
  <1> SUFFICES ASSUME MarginParts, Margin!Add
               PROVE  MarginParts'
    OBVIOUS
  <1>1. /\ lock = "adding" /\ call.turns > 0 /\ call.added < call.cap
        /\ UNCHANGED <<position, stored, opened, calls, lost, recoveries>>
    BY DEF Margin!Add
  <1>2. MarginTypes /\ BooksInv /\ FirstCallInv /\ TurnsInv
    BY DEF MarginParts
  <1>3. /\ call.cap \in Nat /\ call.step \in Nat /\ call.added \in Nat /\ call.turns \in Nat
        /\ extra \in Nat /\ call \in CallRecords
    BY <1>2 DEF MarginTypes, CallRecords
  <1>4. CASE lock' = "failed" /\ UNCHANGED <<extra, call>>
    BY <1>1, <1>2, <1>4 DEF MarginParts, MarginTypes, BooksInv, FirstCallInv, TurnsInv
  <1> DEFINE amount == Margin!Lesser(call.step, call.cap - call.added)
  <1>5. CASE /\ extra' = extra + amount /\ lock' = "noting"
             /\ call' = [call EXCEPT !.added = @ + amount, !.amount = amount, !.turns = @ - 1]
    <2>1. amount = IF call.step < call.cap - call.added THEN call.step
                   ELSE call.cap - call.added
      BY DEF Margin!Lesser
    <2>2. amount \in Nat /\ call.added + amount <= call.cap
      BY <2>1, <1>1, <1>3
    <2> HIDE DEF amount
    <2>3. /\ call' \in CallRecords /\ call'.cap = call.cap /\ call'.step = call.step
          /\ call'.added = call.added + amount /\ call'.amount = amount
          /\ call'.turns = call.turns - 1
      <3>1. call.turns - 1 \in Nat /\ call.added + amount \in Nat
        BY <2>2, <1>1, <1>3
      <3>2. call' = [call EXCEPT !.added = call.added + amount, !.amount = amount,
                                 !.turns = call.turns - 1]
        BY <1>5
      <3> QED BY <3>1, <3>2, <2>2, <1>3 DEF CallRecords
    <2>4. MarginTypes'
      BY <2>2, <2>3, <1>1, <1>2, <1>5 DEF MarginTypes
    <2>5. BooksInv'
      BY <2>3, <1>1, <1>2, <1>5 DEF BooksInv, MarginTypes
    <2>6. TurnsInv'
      <3>1. CASE amount = call.step
        <4> DEFINE k == call.turns * call.step
        <4>1. (call.turns - 1) * call.step = k - call.step /\ k \in Nat
          BY <1>3
        <4>2. call.added + k >= call.cap
          BY <1>1, <1>2, <1>3 DEF TurnsInv
        <4> HIDE DEF k
        <4>3. call'.added + call'.turns * call'.step >= call'.cap
          BY <4>1, <4>2, <3>1, <2>3, <1>3
        <4> QED BY <4>3, <2>2, <2>3, <1>5 DEF TurnsInv
      <3>2. CASE amount = call.cap - call.added
        BY <3>2, <2>2, <2>3, <1>3, <1>5 DEF TurnsInv
      <3> QED BY <3>1, <3>2, <2>1
    <2>7. FirstCallInv'
      <3>1. calls # 0
        BY <1>1, <1>2 DEF FirstCallInv
      <3>2. position.initial * Ratio \in Nat
        BY <1>2, MarginAssumption DEF MarginTypes
      <3>3. calls <= 1 => /\ extra' = call'.added /\ call'.cap <= position.initial * Ratio
                          /\ extra' <= position.initial * Ratio
        BY <3>2, <2>2, <2>3, <1>1, <1>2, <1>3, <1>5 DEF FirstCallInv
      <3> QED BY <3>1, <3>3, <1>1, <1>5 DEF FirstCallInv
    <2> QED BY <2>4, <2>5, <2>6, <2>7 DEF MarginParts
  <1> QED BY <1>4, <1>5 DEF Margin!Add

LEMMA NoteKeeps == MarginParts /\ Margin!Note => MarginParts'
  <1> SUFFICES ASSUME MarginParts, Margin!Note
               PROVE  MarginParts'
    OBVIOUS
  <1>1. /\ lock = "noting" /\ stored' = stored + call.amount
        /\ lock' \in {"protected", "adding"}
        /\ UNCHANGED <<position, extra, opened, call, calls, lost, recoveries>>
    BY DEF Margin!Note
  <1>2. MarginTypes /\ BooksInv /\ FirstCallInv /\ TurnsInv
    BY DEF MarginParts
  <1>3. call.amount \in Nat /\ calls # 0
    BY <1>1, <1>2 DEF MarginTypes, CallRecords, FirstCallInv
  <1>4. MarginTypes' /\ BooksInv'
    BY <1>1, <1>2, <1>3 DEF MarginTypes, BooksInv
  <1>5. FirstCallInv' /\ TurnsInv'
    BY <1>1, <1>2, <1>3 DEF FirstCallInv, TurnsInv
  <1> QED BY <1>4, <1>5 DEF MarginParts

LEMMA ExhaustedKeeps == MarginParts /\ Margin!Exhausted => MarginParts'
  <1> SUFFICES ASSUME MarginParts, Margin!Exhausted
               PROVE  MarginParts'
    OBVIOUS
  <1>1. /\ lock = "adding" /\ (call.turns = 0 \/ call.added = call.cap)
        /\ lock' = "exhausted"
        /\ UNCHANGED <<position, extra, stored, opened, call, calls, lost, recoveries>>
    BY DEF Margin!Exhausted
  <1>2. MarginTypes /\ BooksInv /\ FirstCallInv /\ TurnsInv
    BY DEF MarginParts
  <1>3. call.added = call.cap
    <2>1. call.step \in Nat /\ call.added \in Nat /\ call.cap \in Nat
      BY <1>2 DEF MarginTypes, CallRecords
    <2>2. 0 * call.step = 0
      BY <2>1
    <2> QED BY <2>1, <2>2, <1>1, <1>2 DEF TurnsInv
  <1>4. calls # 0
    BY <1>1, <1>2 DEF FirstCallInv
  <1> QED BY <1>1, <1>2, <1>3, <1>4
      DEF MarginParts, MarginTypes, BooksInv, FirstCallInv, TurnsInv

LEMMA OpenedKeeps == MarginParts /\ Margin!Opened => MarginParts'
  <1> SUFFICES ASSUME MarginParts, Margin!Opened
               PROVE  MarginParts'
    OBVIOUS
  <1>1. /\ lock = "protected" /\ lock' = "free"
        /\ UNCHANGED <<position, extra, stored, call, calls, lost>>
    BY DEF Margin!Opened
  <1> QED BY <1>1 DEF MarginParts, MarginTypes, BooksInv, FirstCallInv, TurnsInv

\* Bybit's positionIM less what is recorded is the initial margin, if nothing was lost.
LEMMA ManualAddKeeps ==
  ASSUME MarginParts, NEW amount \in Amounts, Margin!ManualAdd(amount)
  PROVE  MarginParts'
  <1>1. /\ lock = "free" /\ lock' = "manual" /\ calls > 0 /\ amount <= Margin!ManualRoom
        /\ extra' = extra + amount
        /\ call' = [cap |-> 0, step |-> 0, added |-> 0, turns |-> 0, amount |-> amount]
        /\ UNCHANGED <<position, stored, opened, calls, lost, recoveries>>
    BY DEF Margin!ManualAdd, Margin!ManualLeft, Margin!Idle
  <1>2. MarginTypes /\ BooksInv /\ FirstCallInv
    BY DEF MarginParts
  <1>3. /\ amount \in Nat /\ extra \in Nat /\ stored \in Nat /\ calls \in Nat
        /\ position.initial \in Nat /\ Ratio \in Nat /\ position.initial * Ratio \in Nat
    BY <1>2, MarginAssumption DEF MarginTypes
  <1>4. call' \in CallRecords /\ call'.amount = amount
    BY <1>1, <1>3 DEF CallRecords
  <1>5. calls <= 1 /\ ~lost => extra' <= position.initial * Ratio
    <2> SUFFICES ASSUME calls <= 1, ~lost
                 PROVE  extra' <= position.initial * Ratio
      OBVIOUS
    <2>1. extra = stored /\ extra <= position.initial * Ratio
      BY <1>1, <1>2, <1>3 DEF BooksInv, FirstCallInv
    <2>2. Margin!InitialEstimate = position.initial
      BY <2>1, <1>3 DEF Margin!InitialEstimate, Margin!PositionIM, Margin!Greater
    <2>3. Margin!ManualRoom = position.initial * Ratio - stored
      BY <2>1, <2>2, <1>3 DEF Margin!ManualRoom, Margin!Greater
    <2> QED BY <2>1, <2>3, <1>1, <1>3
  <1>6. MarginTypes' /\ BooksInv' /\ TurnsInv'
    BY <1>1, <1>2, <1>3, <1>4 DEF MarginTypes, BooksInv, TurnsInv
  <1>7. FirstCallInv'
    BY <1>1, <1>3, <1>5 DEF FirstCallInv
  <1> QED BY <1>6, <1>7 DEF MarginParts

LEMMA ManualNoteKeeps == MarginParts /\ Margin!ManualNote => MarginParts'
  <1> SUFFICES ASSUME MarginParts, Margin!ManualNote
               PROVE  MarginParts'
    OBVIOUS
  <1>1. /\ lock = "manual" /\ stored' = stored + call.amount /\ lock' = "free"
        /\ UNCHANGED <<position, extra, opened, call, calls, lost, recoveries>>
    BY DEF Margin!ManualNote
  <1>2. MarginTypes /\ BooksInv /\ FirstCallInv /\ TurnsInv
    BY DEF MarginParts
  <1>3. call.amount \in Nat /\ calls # 0
    BY <1>1, <1>2 DEF MarginTypes, CallRecords, FirstCallInv
  <1>4. MarginTypes' /\ BooksInv'
    BY <1>1, <1>2, <1>3 DEF MarginTypes, BooksInv
  <1>5. FirstCallInv' /\ TurnsInv'
    BY <1>1, <1>2, <1>3 DEF FirstCallInv, TurnsInv
  <1> QED BY <1>4, <1>5 DEF MarginParts

\* A crash between Bybit and the record loses it.
LEMMA MarginCrashKeeps == MarginParts /\ Margin!Crash => MarginParts'
  <1> SUFFICES ASSUME MarginParts, Margin!Crash
               PROVE  MarginParts'
    OBVIOUS
  <1>1. /\ calls > 0 /\ lock' = "free"
        /\ call' = [cap |-> 0, step |-> 0, added |-> 0, turns |-> 0, amount |-> 0]
        /\ lost' = (lost \/ lock \in {"noting", "manual"})
        /\ UNCHANGED <<position, extra, stored, opened, calls>>
    BY DEF Margin!Crash, Margin!Idle
  <1>2. MarginTypes /\ BooksInv /\ FirstCallInv
    BY DEF MarginParts
  <1>3. call' \in CallRecords /\ lost' \in BOOLEAN /\ (~lost' => ~lost /\ lock \notin {"noting", "manual"})
    BY <1>1, <1>2 DEF CallRecords, MarginTypes
  <1>4. MarginTypes'
    BY <1>1, <1>2, <1>3 DEF MarginTypes
  <1>5. BooksInv' /\ TurnsInv'
    BY <1>1, <1>2, <1>3 DEF BooksInv, TurnsInv
  <1>6. FirstCallInv'
    BY <1>1, <1>2, <1>3 DEF FirstCallInv, MarginTypes
  <1> QED BY <1>4, <1>5, <1>6 DEF MarginParts

LEMMA MarginSteps == MarginInv /\ [NextAll]_allVars => MarginInv'
  <1>1. ASSUME MarginInv, NextAll
        PROVE  MarginInv'
    <2>1. part' = part
      BY <1>1 DEF NextAll, DeliveryStep, ProtocolStep, OrdersStep, MarginStep, FillsStep
    <2>2. CASE part = "margin"
      <3>1. Margin!Next /\ MarginParts
        BY <1>1, <2>2
        DEF NextAll, DeliveryStep, ProtocolStep, OrdersStep, MarginStep, FillsStep, MarginInv
      <3>2. MarginParts'
        BY <3>1, BeginKeeps, AddKeeps, NoteKeeps, ExhaustedKeeps, OpenedKeeps, ManualAddKeeps,
           ManualNoteKeeps, MarginCrashKeeps
        DEF Margin!Next
      <3> QED BY <3>2 DEF MarginInv
    <2>3. CASE part # "margin"
      BY <2>1, <2>3 DEF MarginInv
    <2> QED BY <2>2, <2>3
  <1>2. ASSUME MarginInv, UNCHANGED <<part, marginVars>>
        PROVE  MarginInv'
    BY <1>2
    DEF marginVars, MarginInv, MarginParts, MarginTypes, BooksInv, FirstCallInv, TurnsInv
  <1> QED BY <1>1, <1>2 DEF allVars

\* The inductive invariant of the margin.
THEOREM MarginHolds == SpecAll => []MarginInv
  BY MarginInit, MarginSteps, PTL DEF SpecAll

\* For all positions, ratios, steps and amounts: what assist and operator add stays within
\* the ratio, and the turns, four for each time the initial margin may be added, are never
\* what stops a call.
THEOREM MarginIsBounded == SpecAll => []MarginBounded
  <1>1. MarginInv => MarginBounded
    BY DEF MarginInv, MarginParts, FirstCallInv, TurnsInv, MarginBounded, Margin!MarginBounded
  <1> QED BY <1>1, MarginHolds, PTL

-----------------------------------------------------------------------------
(* Sums.  The induction that shows what a recursive sum comes to is by the least natural *)
(* number for which it would not.                                                        *)

\* A set of natural numbers has a least one.
LEMMA LeastNatural ==
  ASSUME NEW T, T \subseteq Nat, T # {}
  PROVE  \E d \in T : \A e \in T : d <= e
  <1>1. PICK d \in T : \A e \in T : ~ (<<e, d>> \in OpToRel(<, Nat))
    BY WFMin, NatLessThanWellFounded
  <1>2. \A e \in T : d <= e
    <2> TAKE e \in T
    <2>1. e \in Nat /\ d \in Nat
      OBVIOUS
    <2>2. e < d => <<e, d>> \in OpToRel(<, Nat)
      BY ONLY <2>1, Zenon DEF OpToRel
    <2>3. ~ (e < d)
      BY <1>1, <2>2, Zenon
    <2> QED BY <2>1, <2>3
  <1> QED BY <1>2

\* A set with 0 and with the successor of each of its members, up to n, has all up to n.
LEMMA UpTo ==
  ASSUME NEW n \in Nat, NEW S, 0 \in S, \A k \in 0..(n - 1) : k \in S => k + 1 \in S
  PROVE  \A k \in 0..n : k \in S
  <1> SUFFICES ASSUME {k \in 0..n : k \notin S} # {} PROVE FALSE
    OBVIOUS
  <1> DEFINE T == {k \in 0..n : k \notin S}
  <1>1. T \subseteq Nat /\ T # {}
    OBVIOUS
  <1>2. PICK m \in T : \A e \in T : m <= e
    <2> HIDE DEF T
    <2> QED BY <1>1, LeastNatural
  <1>3. m \in 0..n /\ m # 0 /\ m - 1 \in 0..(n - 1)
    OBVIOUS
  <1>4. m - 1 \in S
    BY <1>2, <1>3
  <1> QED BY <1>3, <1>4

\* f is the sum of w up to each number up to n.
IsSum(f, w, n) == f = [k \in 0..n |-> IF k = 0 THEN 0 ELSE f[k - 1] + w[k]]

LEMMA SumIsOne ==
  ASSUME NEW w, NEW n PROVE Fills!SumUpTo(w, n) = (CHOOSE f : IsSum(f, w, n))[n]
  BY Zenon DEF Fills!SumUpTo, IsSum

LEMMA SumExists ==
  ASSUME NEW w, NEW n \in Nat PROVE \E f : IsSum(f, w, n)
  <1> DEFINE S == {k \in Nat : \E f : IsSum(f, w, k)}
  <1>1. 0 \in S
    <2>1. IsSum([k \in 0..0 |-> 0], w, 0)
      BY DEF IsSum
    <2> QED BY <2>1
  <1>2. ASSUME NEW k \in Nat, k \in S PROVE k + 1 \in S
    <2>1. PICK f : IsSum(f, w, k)
      BY <1>2
    <2> DEFINE g == [j \in 0..(k + 1) |-> IF j = k + 1 THEN f[k] + w[k + 1] ELSE f[j]]
    <2>2. \A j \in 0..k : f[j] = IF j = 0 THEN 0 ELSE f[j - 1] + w[j]
      BY <2>1 DEF IsSum
    <2>3. \A j \in 0..(k + 1) : g[j] = IF j = 0 THEN 0 ELSE g[j - 1] + w[j]
      <3> TAKE j \in 0..(k + 1)
      <3>1. CASE j = k + 1
        BY <3>1
      <3>2. CASE j \in 0..k
        <4>1. g[j] = f[j] /\ (j # 0 => g[j - 1] = f[j - 1])
          BY <3>2
        <4> HIDE DEF g
        <4> QED BY <2>2, <3>2, <4>1
      <3> QED BY <3>1, <3>2
    <2>4. IsSum(g, w, k + 1)
      BY <2>3 DEF IsSum
    <2> QED BY <2>4
  <1> HIDE DEF S
  <1>3. n \in S
    BY <1>1, <1>2, UpTo
  <1> QED BY <1>3 DEF S

LEMMA SumUnique ==
  ASSUME NEW w, NEW n \in Nat, NEW f, NEW g, IsSum(f, w, n), IsSum(g, w, n)
  PROVE  \A k \in 0..n : f[k] = g[k]
  <1> DEFINE S == {k \in Nat : f[k] = g[k]}
  <1>1. \A k \in 0..n : /\ f[k] = IF k = 0 THEN 0 ELSE f[k - 1] + w[k]
                        /\ g[k] = IF k = 0 THEN 0 ELSE g[k - 1] + w[k]
    BY DEF IsSum
  <1>2. 0 \in S
    BY <1>1
  <1>3. ASSUME NEW k \in 0..(n - 1), k \in S PROVE k + 1 \in S
    <2>1. k + 1 \in 0..n /\ k + 1 # 0 /\ (k + 1) - 1 = k
      OBVIOUS
    <2> QED BY <1>1, <1>3, <2>1
  <1> HIDE DEF S
  <1>4. \A k \in 0..n : k \in S
    BY <1>2, <1>3, UpTo
  <1> QED BY <1>4 DEF S

\* What a sum comes to, number by number.
LEMMA SumStep ==
  ASSUME NEW w, NEW n \in Nat
  PROVE  /\ Fills!SumUpTo(w, 0) = 0
         /\ Fills!SumUpTo(w, n + 1) = Fills!SumUpTo(w, n) + w[n + 1]
  <1> DEFINE s(k) == CHOOSE f : IsSum(f, w, k)
  <1>1. \A k \in Nat : IsSum(s(k), w, k)
    BY SumExists, Zenon
  <1>2. \A k \in Nat : Fills!SumUpTo(w, k) = s(k)[k]
    BY SumIsOne, Zenon
  <1> HIDE DEF s
  <1>3. \A k \in Nat : \A j \in 0..k : s(k)[j] = IF j = 0 THEN 0 ELSE s(k)[j - 1] + w[j]
    <2> TAKE k \in Nat
    <2> DEFINE f == s(k)
    <2>1. f = [j \in 0..k |-> IF j = 0 THEN 0 ELSE f[j - 1] + w[j]]
      BY <1>1, Zenon DEF IsSum
    <2> HIDE DEF f
    <2>2. \A j \in 0..k : f[j] = IF j = 0 THEN 0 ELSE f[j - 1] + w[j]
      BY <2>1
    <2> QED BY <2>2 DEF f
  <1>4. s(n + 1)[n] = s(n)[n]
    <2> DEFINE g == [j \in 0..n |-> s(n + 1)[j]]
    <2>1. \A j \in 0..n : g[j] = IF j = 0 THEN 0 ELSE g[j - 1] + w[j]
      <3> TAKE j \in 0..n
      <3>1. j \in 0..(n + 1) /\ n + 1 \in Nat
        OBVIOUS
      <3>2. s(n + 1)[j] = IF j = 0 THEN 0 ELSE s(n + 1)[j - 1] + w[j]
        BY <1>3, <3>1
      <3>3. g[j] = s(n + 1)[j] /\ (j # 0 => g[j - 1] = s(n + 1)[j - 1])
        OBVIOUS
      <3> QED BY <3>2, <3>3
    <2>2. IsSum(g, w, n)
      BY <2>1 DEF IsSum
    <2>3. g[n] = s(n + 1)[n]
      OBVIOUS
    <2> HIDE DEF g
    <2>4. n \in 0..n /\ IsSum(s(n), w, n)
      BY <1>1
    <2> QED BY <2>2, <2>3, <2>4, SumUnique
  <1>5. s(n + 1)[n + 1] = s(n + 1)[n] + w[n + 1]
    <2>1. n + 1 \in Nat /\ n + 1 \in 0..(n + 1) /\ n + 1 # 0 /\ (n + 1) - 1 = n
      OBVIOUS
    <2> QED BY <1>3, <2>1
  <1>6. s(0)[0] = 0
    BY <1>3
  <1> QED BY <1>2, <1>4, <1>5, <1>6


\* A sum of integers is one; it depends on the numbers only, adds up, and is no less than any
\* of them when none is negative.
LEMMA SumIsInt ==
  ASSUME NEW n \in Nat, NEW w, \A k \in 1..n : w[k] \in Int
  PROVE  Fills!SumUpTo(w, n) \in Int
  <1> DEFINE S == {k \in 0..n : Fills!SumUpTo(w, k) \in Int}
  <1>1. 0 \in S
    BY SumStep
  <1>2. ASSUME NEW k \in 0..(n - 1), k \in S PROVE k + 1 \in S
    <2>1. Fills!SumUpTo(w, k + 1) = Fills!SumUpTo(w, k) + w[k + 1] /\ k + 1 \in 1..n
      BY SumStep
    <2> QED BY <1>2, <2>1
  <1> HIDE DEF S
  <1>3. \A k \in 0..n : k \in S
    BY <1>1, <1>2, UpTo
  <1> QED BY <1>3 DEF S

LEMMA SumOfDifferences ==
  ASSUME NEW n \in Nat, NEW w, NEW a, NEW b,
         \A k \in 1..n : a[k] \in Int /\ b[k] \in Int /\ w[k] = a[k] - b[k]
  PROVE  Fills!SumUpTo(w, n) = Fills!SumUpTo(a, n) - Fills!SumUpTo(b, n)
  <1> DEFINE S == {k \in 0..n : /\ Fills!SumUpTo(a, k) \in Int /\ Fills!SumUpTo(b, k) \in Int
                                /\ Fills!SumUpTo(w, k) = Fills!SumUpTo(a, k) - Fills!SumUpTo(b, k)}
  <1>1. 0 \in S
    BY SumStep
  <1>2. ASSUME NEW k \in 0..(n - 1), k \in S PROVE k + 1 \in S
    <2>1. /\ Fills!SumUpTo(w, k + 1) = Fills!SumUpTo(w, k) + w[k + 1]
          /\ Fills!SumUpTo(a, k + 1) = Fills!SumUpTo(a, k) + a[k + 1]
          /\ Fills!SumUpTo(b, k + 1) = Fills!SumUpTo(b, k) + b[k + 1]
      BY SumStep
    <2>2. k + 1 \in 1..n /\ k + 1 \in 0..n
      OBVIOUS
    <2> QED BY <1>2, <2>1, <2>2
  <1> HIDE DEF S
  <1>3. \A k \in 0..n : k \in S
    BY <1>1, <1>2, UpTo
  <1> QED BY <1>3 DEF S

\* What is added behind does not count where it is nothing.
LEMMA SumWithoutRest ==
  ASSUME NEW n \in Nat, NEW m \in Nat, n <= m, NEW v, NEW w,
         \A k \in 1..n : v[k] = w[k] /\ w[k] \in Int, \A k \in (n + 1)..m : v[k] = 0
  PROVE  Fills!SumUpTo(v, m) = Fills!SumUpTo(w, n)
  <1> DEFINE S == {k \in 0..m : Fills!SumUpTo(v, k) = Fills!SumUpTo(w, IF k <= n THEN k ELSE n)}
  <1>1. 0 \in S
    BY SumStep
  <1>2. ASSUME NEW k \in 0..(m - 1), k \in S PROVE k + 1 \in S
    <2>1. /\ Fills!SumUpTo(v, k + 1) = Fills!SumUpTo(v, k) + v[k + 1]
          /\ Fills!SumUpTo(w, k + 1) = Fills!SumUpTo(w, k) + w[k + 1]
      BY SumStep
    <2>2. k + 1 \in 0..m
      OBVIOUS
    <2>3. CASE k < n
      <3>1. k + 1 \in 1..n /\ k <= n /\ k + 1 <= n
        BY <2>3
      <3>2. v[k + 1] = w[k + 1]
        BY <3>1
      <3> QED BY <1>2, <2>1, <2>2, <3>1, <3>2
    <2>4. CASE ~ (k < n)
      <3>1. k + 1 \in (n + 1)..m /\ ~ (k + 1 <= n) /\ (k <= n => k = n)
        BY <2>4
      <3>2. v[k + 1] = 0 /\ Fills!SumUpTo(w, n) \in Int
        BY <3>1, SumIsInt
      <3>3. Fills!SumUpTo(v, k) = Fills!SumUpTo(w, n)
        BY <1>2, <3>1
      <3> QED BY <2>1, <2>2, <3>1, <3>2, <3>3
    <2> QED BY <2>3, <2>4
  <1> HIDE DEF S
  <1>3. \A k \in 0..m : k \in S
    BY <1>1, <1>2, UpTo
  <1>4. m <= n => m = n
    OBVIOUS
  <1> QED BY <1>3, <1>4 DEF S

LEMMA SumOfNothing ==
  ASSUME NEW n \in Nat, NEW w, \A k \in 1..n : w[k] = 0
  PROVE  Fills!SumUpTo(w, n) = 0
  BY SumWithoutRest, SumStep

LEMMA SumIsNoLess ==
  ASSUME NEW n \in Nat, NEW w, \A k \in 1..n : w[k] \in Nat
  PROVE  Fills!SumUpTo(w, n) \in Nat /\ \A j \in 1..n : w[j] <= Fills!SumUpTo(w, n)
  <1> DEFINE S == {k \in 0..n : /\ Fills!SumUpTo(w, k) \in Nat
                                /\ \A j \in 1..k : w[j] <= Fills!SumUpTo(w, k)}
  <1>1. 0 \in S
    BY SumStep
  <1>2. ASSUME NEW k \in 0..(n - 1), k \in S PROVE k + 1 \in S
    <2>1. Fills!SumUpTo(w, k + 1) = Fills!SumUpTo(w, k) + w[k + 1]
      BY SumStep
    <2>2. k + 1 \in 1..n /\ k + 1 \in 0..n /\ \A j \in 1..(k + 1) : j \in 1..n /\ (j \in 1..k \/ j = k + 1)
      OBVIOUS
    <2>3. w[k + 1] \in Nat /\ Fills!SumUpTo(w, k) \in Nat
      BY <1>2, <2>2
    <2>4. Fills!SumUpTo(w, k + 1) \in Nat
      BY <2>1, <2>3
    <2>5. ASSUME NEW j \in 1..(k + 1) PROVE w[j] <= Fills!SumUpTo(w, k + 1)
      <3>1. CASE j \in 1..k
        BY <1>2, <2>1, <2>2, <2>3, <3>1
      <3>2. CASE j = k + 1
        BY <2>1, <2>3, <3>2
      <3> QED BY <2>2, <3>1, <3>2
    <2> QED BY <2>2, <2>4, <2>5
  <1> HIDE DEF S
  <1>3. \A k \in 0..n : k \in S
    BY <1>1, <1>2, UpTo
  <1> QED BY <1>3 DEF S

-----------------------------------------------------------------------------
(* The fills. *)

FillRecords ==
  [of : Trades, side : {"Buy", "Sell"}, qty : Positive, price : Nat, time : Nat,
   link : Nat, closes : BOOLEAN]
RowStates == {"none", "ACTIVE", "CLOSED_SYNCING", "RECOVERY_REQUIRED", "CLOSED"}

FillsTypes ==
  /\ ticks \in 1..MaxClock /\ misses \in Nat
  /\ rows \in [Trades -> RowStates]
  /\ received \in [Trades -> Nat] /\ detected \in [Trades -> Nat]
  /\ net \in [Trades -> Int]
  /\ execs \in Seq(FillRecords) /\ listed \in 0..Len(execs)
  /\ DOMAIN books \subseteq 1..listed

\* Trades follow one another, and none is found flat before it began.
FollowInv ==
  \A t \in Trades :
    /\ rows[t] = "none" => detected[t] = 0
    /\ rows[t] # "none" =>
         /\ \A u \in Trades : u < t => rows[u] = "CLOSED"
         /\ received[t] \in 1..ticks
         /\ detected[t] # 0 => received[t] <= detected[t]

\* An execution is of a trade that has begun; the two of the entry carry its link and come first.
ShapeInv ==
  \A i \in 1..Len(execs) :
    /\ rows[execs[i].of] # "none"
    /\ execs[i].side = IF execs[i].closes THEN Fills!ExitSide(execs[i].of)
                                          ELSE Fills!EntrySide(execs[i].of)
    /\ execs[i].link \in {execs[i].of, 0}
    /\ received[execs[i].of] <= execs[i].time /\ execs[i].time <= ticks
    /\ ~execs[i].closes => execs[i].link = execs[i].of /\ execs[i].time = received[execs[i].of]
    /\ \A j \in 1..Len(execs) :
         execs[j].of = execs[i].of /\ execs[i].closes /\ ~execs[j].closes => j < i

\* The numbers of executions x, and the sum of such numbers over a set of them.
QtyOf(x) == [i \in 1..Len(x) |-> x[i].qty]
ValueOf(x) == [i \in 1..Len(x) |-> x[i].qty * x[i].price]
FeeOf(x) == [i \in 1..Len(x) |-> Fee]
SumOver(n, S, v) == Fills!SumUpTo([i \in 1..n |-> IF i \in S THEN v[i] ELSE 0], n)

\* Those of a trade's entry, and those that closed it since; a trade buys two and sells no more.
Entries(x, t) == {i \in 1..Len(x) : x[i].of = t /\ ~x[i].closes}
Exits(x, t) == {i \in 1..Len(x) : x[i].of = t /\ x[i].closes}
BoughtOf(x, t) == SumOver(Len(x), Entries(x, t), QtyOf(x))
SoldOf(x, t) == SumOver(Len(x), Exits(x, t), QtyOf(x))
SizeInv == \A t \in Trades : rows[t] # "none" => BoughtOf(execs, t) = 2 /\ SoldOf(execs, t) <= 2

\* An execution is booked to its own trade, and one that closes after those of the entry.
BookedWell(b) ==
  \A i \in DOMAIN b :
    /\ b[i] = execs[i].of
    /\ execs[i].closes => Entries(execs, execs[i].of) \subseteq DOMAIN b
BookedInv == BookedWell(books)

\* The net result is that of the executions booked, also while some are missing.
EntriesIn(x, b, t) == {i \in DOMAIN b : b[i] = t /\ x[i].side = Fills!EntrySide(t)}
ExitsIn(x, b, t) == {i \in DOMAIN b : b[i] = t /\ x[i].side # Fills!EntrySide(t)}
NetOf(x, b, t) ==
  LET entry == SumOver(Len(x), EntriesIn(x, b, t), QtyOf(x))
      exit == SumOver(Len(x), ExitsIn(x, b, t), QtyOf(x))
      paid == IF entry = 0 THEN 0
              ELSE (SumOver(Len(x), EntriesIn(x, b, t), ValueOf(x)) * exit * 2) \div entry
      got == SumOver(Len(x), ExitsIn(x, b, t), ValueOf(x)) * 2
      fees == SumOver(Len(x), EntriesIn(x, b, t) \cup ExitsIn(x, b, t), FeeOf(x)) * 2
  IN (IF SideOf[t] = "LONG" THEN got - paid ELSE paid - got) - fees
NetInv == \A t \in Trades : net[t] = NetOf(execs, books, t)

\* A closed trade has all its executions booked, and sold all it bought.
ClosedInv ==
  \A t \in Trades : rows[t] = "CLOSED" =>
    Fills!Own(t) \subseteq DOMAIN books /\ SoldOf(execs, t) = 2

FillsParts ==
  FillsTypes /\ FollowInv /\ ShapeInv /\ SizeInv /\ BookedInv /\ NetInv /\ ClosedInv
FillsInv == part = "fills" => FillsParts

\* Executions as a sequence.
LEMMA Executions ==
  ASSUME NEW x \in Seq(FillRecords)
  PROVE  /\ Len(x) \in Nat /\ DOMAIN x = 1..Len(x)
         /\ \A i \in 1..Len(x) : /\ x[i] \in FillRecords /\ x[i].of \in Trades
                                 /\ x[i].qty \in Positive /\ x[i].qty \in Nat
                                 /\ x[i].price \in Nat /\ x[i].qty * x[i].price \in Nat
                                 /\ x[i].closes \in BOOLEAN /\ x[i].time \in Nat
  <1>1. Len(x) \in Nat /\ DOMAIN x = 1..Len(x) /\ \A i \in 1..Len(x) : x[i] \in FillRecords
    OBVIOUS
  <1>2. ASSUME NEW i \in 1..Len(x)
        PROVE  /\ x[i].of \in Trades /\ x[i].qty \in Positive /\ x[i].qty \in Nat
               /\ x[i].price \in Nat /\ x[i].closes \in BOOLEAN /\ x[i].time \in Nat
    BY <1>1 DEF FillRecords, Positive
  <1>3. ASSUME NEW p \in Nat, NEW q \in Nat PROVE p * q \in Nat
    OBVIOUS
  <1> QED BY <1>1, <1>2, <1>3

\* A sum over a set of executions is whole, the difference of two is that of their numbers,
\* and none of its numbers is more than it when none is negative.
LEMMA SumOverIsInt ==
  ASSUME NEW n \in Nat, NEW S, NEW v, \A i \in 1..n : v[i] \in Int
  PROVE  SumOver(n, S, v) \in Int
  BY SumIsInt DEF SumOver

LEMMA SumOverDiffers ==
  ASSUME NEW n \in Nat, NEW S, NEW v, NEW A, NEW a, NEW B, NEW b,
         \A i \in 1..n : a[i] \in Int /\ b[i] \in Int,
         \A i \in 1..n : (IF i \in S THEN v[i] ELSE 0)
                         = (IF i \in A THEN a[i] ELSE 0) - (IF i \in B THEN b[i] ELSE 0)
  PROVE  SumOver(n, S, v) = SumOver(n, A, a) - SumOver(n, B, b)
  <1> DEFINE w == [i \in 1..n |-> IF i \in S THEN v[i] ELSE 0]
             p == [i \in 1..n |-> IF i \in A THEN a[i] ELSE 0]
             q == [i \in 1..n |-> IF i \in B THEN b[i] ELSE 0]
  <1>1. \A i \in 1..n : p[i] \in Int /\ q[i] \in Int /\ w[i] = p[i] - q[i]
    OBVIOUS
  <1> HIDE DEF w, p, q
  <1>2. Fills!SumUpTo(w, n) = Fills!SumUpTo(p, n) - Fills!SumUpTo(q, n)
    BY <1>1, SumOfDifferences
  <1> QED BY <1>2 DEF w, p, q, SumOver

LEMMA SumOverIsNoLess ==
  ASSUME NEW n \in Nat, NEW S, NEW v, \A i \in 1..n : v[i] \in Nat
  PROVE  /\ SumOver(n, S, v) \in Nat
         /\ \A i \in 1..n : i \in S => v[i] <= SumOver(n, S, v)
  <1> DEFINE w == [i \in 1..n |-> IF i \in S THEN v[i] ELSE 0]
  <1>1. \A i \in 1..n : w[i] \in Nat /\ (i \in S => w[i] = v[i])
    OBVIOUS
  <1> HIDE DEF w
  <1>2. Fills!SumUpTo(w, n) \in Nat /\ \A i \in 1..n : w[i] <= Fills!SumUpTo(w, n)
    BY <1>1, SumIsNoLess
  <1> QED BY <1>1, <1>2 DEF w, SumOver

\* What is added behind is not of the set.
LEMMA SumOverGrows ==
  ASSUME NEW n \in Nat, NEW m \in Nat, n <= m, NEW S, NEW v, NEW w,
         \A i \in (n + 1)..m : i \notin S,
         \A i \in 1..n : v[i] \in Int /\ w[i] = v[i]
  PROVE  SumOver(m, S, w) = SumOver(n, S, v)
  <1> DEFINE p == [i \in 1..m |-> IF i \in S THEN w[i] ELSE 0]
             q == [i \in 1..n |-> IF i \in S THEN v[i] ELSE 0]
  <1>1. /\ \A i \in 1..n : p[i] = q[i] /\ q[i] \in Int
        /\ \A i \in (n + 1)..m : p[i] = 0
    OBVIOUS
  <1> HIDE DEF p, q
  <1>2. Fills!SumUpTo(p, m) = Fills!SumUpTo(q, n)
    BY <1>1, SumWithoutRest
  <1> QED BY <1>2 DEF p, q, SumOver

LEMMA SumOverNothing ==
  ASSUME NEW n \in Nat, NEW v PROVE SumOver(n, {}, v) = 0
  BY SumOfNothing DEF SumOver

LEMMA NumbersOf ==
  ASSUME NEW x \in Seq(FillRecords)
  PROVE  \A i \in 1..Len(x) : /\ QtyOf(x)[i] = x[i].qty /\ QtyOf(x)[i] \in Nat /\ QtyOf(x)[i] >= 1
                              /\ ValueOf(x)[i] \in Int /\ FeeOf(x)[i] = Fee /\ FeeOf(x)[i] \in Int
  <1>1. ASSUME NEW i \in 1..Len(x)
        PROVE  /\ x[i].qty \in Nat /\ x[i].qty >= 1 /\ x[i].qty * x[i].price \in Int
               /\ Fee \in Int
    BY Executions, FillsAssumption DEF Positive
  <1> QED BY <1>1 DEF QtyOf, ValueOf, FeeOf

\* A part of the executions that comes to as much as all of them is all of them.
LEMMA PartIsAll ==
  ASSUME NEW x \in Seq(FillRecords), NEW S, NEW A, A \subseteq S, S \subseteq 1..Len(x),
         SumOver(Len(x), S, QtyOf(x)) <= SumOver(Len(x), A, QtyOf(x))
  PROVE  A = S
  <1> DEFINE n == Len(x)
             v == QtyOf(x)
  <1>1. n \in Nat /\ \A i \in 1..n : v[i] \in Nat /\ v[i] \in Int /\ v[i] >= 1
    BY Executions, NumbersOf
  <1> HIDE DEF v
  <1>2. SumOver(n, S \ A, v) = SumOver(n, S, v) - SumOver(n, A, v)
    <2>1. \A i \in 1..n : (IF i \in S \ A THEN v[i] ELSE 0)
                          = (IF i \in S THEN v[i] ELSE 0) - (IF i \in A THEN v[i] ELSE 0)
      BY <1>1
    <2> HIDE DEF n
    <2> QED BY <1>1, <2>1, SumOverDiffers
  <1>3. /\ \A i \in 1..n : i \in S \ A => v[i] <= SumOver(n, S \ A, v)
        /\ SumOver(n, S, v) \in Nat /\ SumOver(n, A, v) \in Nat
    <2> HIDE DEF n
    <2> QED BY <1>1, SumOverIsNoLess
  <1>4. SumOver(n, S, v) <= SumOver(n, A, v)
    BY DEF v
  <1>5. \A i \in 1..n : i \notin S \ A
    <2> SUFFICES ASSUME NEW i \in 1..n, i \in S \ A PROVE FALSE
      OBVIOUS
    <2>1. v[i] \in Nat /\ v[i] >= 1 /\ v[i] <= SumOver(n, S \ A, v)
      BY <1>1, <1>3
    <2> HIDE DEF n
    <2> QED BY <1>2, <1>3, <1>4, <2>1
  <1> QED BY <1>5

\* The totals of the model are such sums.
LEMMA TotalsAreSums ==
  ASSUME execs \in Seq(FillRecords), NEW S
  PROVE  /\ Fills!Total(S, Fills!Qty) = SumOver(Len(execs), S, QtyOf(execs))
         /\ Fills!Total(S, Fills!Value) = SumOver(Len(execs), S, ValueOf(execs))
         /\ Fills!Total(S, Fills!Charge) = SumOver(Len(execs), S, FeeOf(execs))
  BY Executions
  DEF Fills!Total, Fills!Weights, SumOver, Fills!Qty, Fills!Value, Fills!Charge, QtyOf, ValueOf, FeeOf

LEMMA NetIsNetOf ==
  ASSUME execs \in Seq(FillRecords), NEW t \in Trades, NEW b
  PROVE  Fills!NetPnl(t, b) = NetOf(execs, b, t)
  BY TotalsAreSums
  DEF Fills!NetPnl, NetOf, Fills!EntryFills, Fills!ExitFills, EntriesIn, ExitsIn

\* Executions of a trade by what they are.
LEMMA KindsOf ==
  ASSUME execs \in Seq(FillRecords), ShapeInv, NEW t \in Trades, NEW i \in 1..Len(execs)
  PROVE  /\ i \in Fills!Own(t) <=> execs[i].of = t
         /\ i \in Entries(execs, t) <=> execs[i].of = t /\ ~execs[i].closes
         /\ i \in Exits(execs, t) <=> execs[i].of = t /\ execs[i].closes
         /\ execs[i].of = t =>
              /\ execs[i].side = Fills!EntrySide(t) <=> ~execs[i].closes
              /\ execs[i].side = "Sell" <=> (execs[i].closes <=> SideOf[t] = "LONG")
  <1>1. /\ i \in DOMAIN execs /\ execs[i].closes \in BOOLEAN
        /\ execs[i].side = IF execs[i].closes THEN Fills!ExitSide(execs[i].of)
                                              ELSE Fills!EntrySide(execs[i].of)
    BY Executions DEF ShapeInv
  <1>2. /\ i \in Fills!Own(t) <=> execs[i].of = t
        /\ i \in Entries(execs, t) <=> execs[i].of = t /\ ~execs[i].closes
        /\ i \in Exits(execs, t) <=> execs[i].of = t /\ execs[i].closes
    BY <1>1 DEF Fills!Own, Entries, Exits
  <1>3. execs[i].of = t =>
          /\ execs[i].side = Fills!EntrySide(t) <=> ~execs[i].closes
          /\ execs[i].side = "Sell" <=> (execs[i].closes <=> SideOf[t] = "LONG")
    BY <1>1 DEF Fills!EntrySide, Fills!ExitSide
  <1> QED BY <1>2, <1>3

\* What is held of a trade is what it bought less what it sold.
LEMMA HeldIsDifference ==
  ASSUME execs \in Seq(FillRecords), ShapeInv, NEW t \in Trades
  PROVE  /\ BoughtOf(execs, t) \in Nat /\ SoldOf(execs, t) \in Nat
         /\ Fills!Held(t) = BoughtOf(execs, t) - SoldOf(execs, t)
  <1> DEFINE n == Len(execs)
             moved == [i \in DOMAIN execs |-> IF execs[i].side = Fills!EntrySide(t)
                                               THEN execs[i].qty ELSE -execs[i].qty]
             v == QtyOf(execs)
  <1>1. n \in Nat /\ DOMAIN execs = 1..n /\ \A i \in 1..n : v[i] \in Nat /\ v[i] \in Int
    BY Executions, NumbersOf
  <1>2. ASSUME NEW i \in 1..n
        PROVE  (IF i \in Fills!Own(t) THEN moved[i] ELSE 0)
               = (IF i \in Entries(execs, t) THEN v[i] ELSE 0)
                 - (IF i \in Exits(execs, t) THEN v[i] ELSE 0)
    <2>1. v[i] = execs[i].qty /\ v[i] \in Nat
      BY NumbersOf
    <2>2. moved[i] = IF execs[i].side = Fills!EntrySide(t) THEN execs[i].qty ELSE -execs[i].qty
      BY <1>1
    <2> HIDE DEF moved, v
    <2>3. CASE execs[i].of # t
      BY <2>3, KindsOf
    <2>4. CASE execs[i].of = t /\ execs[i].closes
      BY <2>1, <2>2, <2>4, KindsOf
    <2>5. CASE execs[i].of = t /\ ~execs[i].closes
      BY <2>1, <2>2, <2>5, KindsOf
    <2> QED BY <2>3, <2>4, <2>5
  <1>3. Fills!Held(t) = SumOver(n, Fills!Own(t), moved)
    BY <1>1 DEF Fills!Held, Fills!Total, Fills!Weights, SumOver
  <1>4. BoughtOf(execs, t) = SumOver(n, Entries(execs, t), v) /\ SoldOf(execs, t) = SumOver(n, Exits(execs, t), v)
    BY DEF BoughtOf, SoldOf
  <1> HIDE DEF n, moved, v
  <1>5. SumOver(n, Fills!Own(t), moved) = SumOver(n, Entries(execs, t), v) - SumOver(n, Exits(execs, t), v)
    BY <1>1, <1>2, SumOverDiffers
  <1>6. BoughtOf(execs, t) \in Nat /\ SoldOf(execs, t) \in Nat
    BY <1>1, <1>4, SumOverIsNoLess
  <1> QED BY <1>3, <1>4, <1>5, <1>6

\* What of a trade is booked is of its own, by side; a trade that is complete has all of it
\* booked, and sold all it bought.
LEMMA BookedIsOwn ==
  ASSUME execs \in Seq(FillRecords), ShapeInv, NEW t \in Trades,
         NEW b, DOMAIN b \subseteq 1..Len(execs), BookedWell(b)
  PROVE  /\ EntriesIn(execs, b, t) = Entries(execs, t) \cap DOMAIN b
         /\ ExitsIn(execs, b, t) = Exits(execs, t) \cap DOMAIN b
  <1>1. ASSUME NEW i \in DOMAIN b
        PROVE  /\ i \in 1..Len(execs) /\ b[i] = execs[i].of
               /\ i \in EntriesIn(execs, b, t) <=> b[i] = t /\ execs[i].side = Fills!EntrySide(t)
               /\ i \in ExitsIn(execs, b, t) <=> b[i] = t /\ execs[i].side # Fills!EntrySide(t)
    BY DEF BookedWell, EntriesIn, ExitsIn
  <1>2. ASSUME NEW i \in DOMAIN b
        PROVE  /\ i \in EntriesIn(execs, b, t) <=> i \in Entries(execs, t)
               /\ i \in ExitsIn(execs, b, t) <=> i \in Exits(execs, t)
    BY <1>1, KindsOf
  <1>3. EntriesIn(execs, b, t) \subseteq DOMAIN b /\ ExitsIn(execs, b, t) \subseteq DOMAIN b
    BY DEF EntriesIn, ExitsIn
  <1> QED BY <1>2, <1>3

LEMMA CompleteIsAll ==
  ASSUME execs \in Seq(FillRecords), ShapeInv, NEW t \in Trades,
         BoughtOf(execs, t) = 2, SoldOf(execs, t) <= 2,
         NEW b, DOMAIN b \subseteq 1..Len(execs), BookedWell(b), Fills!Complete(t, b)
  PROVE  Fills!Own(t) \subseteq DOMAIN b /\ SoldOf(execs, t) = 2
  <1> DEFINE n == Len(execs)
             v == QtyOf(execs)
             E == EntriesIn(execs, b, t)
             X == ExitsIn(execs, b, t)
  <1>1. n \in Nat /\ \A i \in 1..n : v[i] \in Nat
    BY Executions, NumbersOf
  <1>2. SumOver(n, E, v) > 0 /\ SumOver(n, X, v) >= SumOver(n, E, v)
    BY TotalsAreSums DEF Fills!Complete, Fills!EntryFills, Fills!ExitFills, EntriesIn, ExitsIn
  <1>3. E = Entries(execs, t) \cap DOMAIN b /\ X = Exits(execs, t) \cap DOMAIN b
    BY BookedIsOwn
  <1>4. /\ BoughtOf(execs, t) = SumOver(n, Entries(execs, t), v)
        /\ SoldOf(execs, t) = SumOver(n, Exits(execs, t), v)
    BY DEF BoughtOf, SoldOf
  <1> HIDE DEF v, E, X
  <1>5. X # {}
    <2> HIDE DEF n
    <2> SUFFICES ASSUME X = {} PROVE FALSE
      OBVIOUS
    <2>1. SumOver(n, X, v) = 0
      BY <1>1, SumOverNothing
    <2>2. SumOver(n, E, v) \in Nat
      BY <1>1, SumOverIsNoLess
    <2> QED BY <1>2, <2>1, <2>2
  <1>6. E = Entries(execs, t)
    <2>1. PICK i \in DOMAIN b : i \in Exits(execs, t)
      BY <1>3, <1>5
    <2>2. Entries(execs, t) \subseteq DOMAIN b
      BY <2>1, KindsOf DEF BookedWell, Exits
    <2> QED BY <1>3, <2>2
  <1>7. X = Exits(execs, t) /\ SoldOf(execs, t) = 2
    <2>1. X \subseteq Exits(execs, t) /\ Exits(execs, t) \subseteq 1..Len(execs)
      BY <1>3 DEF Exits
    <2>2. SumOver(n, Exits(execs, t), v) \in Nat /\ SumOver(n, X, v) \in Nat
      <3> HIDE DEF n
      <3> QED BY <1>1, SumOverIsNoLess
    <2>3. SumOver(n, X, v) >= 2 /\ SumOver(n, Exits(execs, t), v) <= 2
      BY <1>2, <1>4, <1>6
    <2>4. X = Exits(execs, t)
      BY <2>1, <2>2, <2>3, PartIsAll DEF v
    <2> QED BY <1>4, <2>2, <2>3, <2>4
  <1>8. ASSUME NEW i \in Fills!Own(t) PROVE i \in DOMAIN b
    <2>1. i \in 1..Len(execs) /\ execs[i].of = t
      BY Executions DEF Fills!Own
    <2>2. execs[i].closes \in BOOLEAN
      BY <2>1, Executions
    <2>3. i \in Entries(execs, t) \/ i \in Exits(execs, t)
      BY <2>1, <2>2, KindsOf
    <2> QED BY <1>3, <1>6, <1>7, <2>3
  <1> QED BY <1>7, <1>8

\* With all of a trade booked, its net result is what its executions moved.
LEMMA NetIsCash ==
  ASSUME execs \in Seq(FillRecords), ShapeInv, NEW t \in Trades,
         BoughtOf(execs, t) = 2, SoldOf(execs, t) = 2,
         NEW b, DOMAIN b \subseteq 1..Len(execs), BookedWell(b), Fills!Own(t) \subseteq DOMAIN b
  PROVE  NetOf(execs, b, t) = Fills!Cash(t) * 2
  <1> DEFINE n == Len(execs)
             v == ValueOf(execs)
             f == FeeOf(execs)
             E == Entries(execs, t)
             X == Exits(execs, t)
             O == Fills!Own(t)
             flow == [i \in DOMAIN execs |->
                        (IF execs[i].side = "Sell" THEN Fills!Value[i] ELSE -Fills!Value[i]) - Fee]
             money == [i \in 1..n |-> IF execs[i].side = "Sell" THEN v[i] ELSE -v[i]]
  <1>1. n \in Nat /\ DOMAIN execs = 1..n /\ \A i \in 1..n : v[i] \in Int /\ f[i] \in Int /\ f[i] = Fee
    BY Executions, NumbersOf
  <1>2. EntriesIn(execs, b, t) = E /\ ExitsIn(execs, b, t) = X /\ E \cup X = O
    <2>1. \A i \in 1..n : (i \in E \/ i \in X) <=> i \in O
      BY KindsOf, Executions
    <2>2. E \subseteq 1..n /\ X \subseteq 1..n /\ O \subseteq 1..n
      BY <1>1 DEF Entries, Exits, Fills!Own
    <2> QED BY <2>1, <2>2, BookedIsOwn
  <1>3. /\ SumOver(n, E, QtyOf(execs)) = 2 /\ SumOver(n, X, QtyOf(execs)) = 2
    BY DEF BoughtOf, SoldOf
  <1>4. Fills!Cash(t) = SumOver(n, O, flow)
    BY <1>1 DEF Fills!Cash, Fills!Total, Fills!Weights, SumOver
  <1>5. ASSUME NEW i \in 1..n
        PROVE  /\ money[i] \in Int
               /\ (IF i \in O THEN flow[i] ELSE 0)
                    = (IF i \in O THEN money[i] ELSE 0) - (IF i \in O THEN f[i] ELSE 0)
               /\ SideOf[t] = "LONG" =>
                    (IF i \in O THEN money[i] ELSE 0)
                      = (IF i \in X THEN v[i] ELSE 0) - (IF i \in E THEN v[i] ELSE 0)
               /\ SideOf[t] # "LONG" =>
                    (IF i \in O THEN money[i] ELSE 0)
                      = (IF i \in E THEN v[i] ELSE 0) - (IF i \in X THEN v[i] ELSE 0)
    <2>1. /\ v[i] \in Int /\ f[i] = Fee /\ Fee \in Int /\ Fills!Value[i] = v[i]
          /\ money[i] = IF execs[i].side = "Sell" THEN v[i] ELSE -v[i]
          /\ flow[i] = (IF execs[i].side = "Sell" THEN Fills!Value[i] ELSE -Fills!Value[i]) - Fee
      BY <1>1, FillsAssumption DEF Fills!Value, ValueOf
    <2>2. /\ i \in O <=> execs[i].of = t
          /\ i \in E <=> execs[i].of = t /\ ~execs[i].closes
          /\ i \in X <=> execs[i].of = t /\ execs[i].closes
          /\ execs[i].of = t =>
                (execs[i].side = "Sell" <=> (execs[i].closes <=> SideOf[t] = "LONG"))
      BY KindsOf
    <2> HIDE DEF v, f, E, X, O, flow, money, n
    <2>3. CASE execs[i].of # t
      BY <2>1, <2>2, <2>3
    <2>4. CASE execs[i].of = t /\ execs[i].closes
      BY <2>1, <2>2, <2>4
    <2>5. CASE execs[i].of = t /\ ~execs[i].closes
      BY <2>1, <2>2, <2>5
    <2> QED BY <2>3, <2>4, <2>5
  <1> HIDE DEF v, f, E, X, O, flow, money, n
  <1>6. SumOver(n, O, flow) = SumOver(n, O, money) - SumOver(n, O, f)
    BY <1>1, <1>5, SumOverDiffers
  <1>7. SumOver(n, O, money) = IF SideOf[t] = "LONG" THEN SumOver(n, X, v) - SumOver(n, E, v)
                                                     ELSE SumOver(n, E, v) - SumOver(n, X, v)
    <2>1. CASE SideOf[t] = "LONG"
      <3>1. \A i \in 1..n : (IF i \in O THEN money[i] ELSE 0)
                            = (IF i \in X THEN v[i] ELSE 0) - (IF i \in E THEN v[i] ELSE 0)
        BY <1>5, <2>1
      <3> QED BY <1>1, <2>1, <3>1, SumOverDiffers
    <2>2. CASE SideOf[t] # "LONG"
      <3>1. \A i \in 1..n : (IF i \in O THEN money[i] ELSE 0)
                            = (IF i \in E THEN v[i] ELSE 0) - (IF i \in X THEN v[i] ELSE 0)
        BY <1>5, <2>2
      <3> QED BY <1>1, <2>2, <3>1, SumOverDiffers
    <2> QED BY <2>1, <2>2
  <1>8. SumOver(n, E, v) \in Int /\ SumOver(n, X, v) \in Int /\ SumOver(n, O, f) \in Int
    BY <1>1, SumOverIsInt
  <1>9. NetOf(execs, b, t) =
          (IF SideOf[t] = "LONG"
             THEN SumOver(n, X, v) * 2 - (SumOver(n, E, v) * 2 * 2) \div 2
             ELSE (SumOver(n, E, v) * 2 * 2) \div 2 - SumOver(n, X, v) * 2)
          - SumOver(n, O, f) * 2
    <2> DEFINE I == EntriesIn(execs, b, t)
               J == ExitsIn(execs, b, t)
    <2>1. NetOf(execs, b, t) =
            (IF SideOf[t] = "LONG"
               THEN SumOver(n, J, v) * 2 - (IF SumOver(n, I, QtyOf(execs)) = 0 THEN 0 ELSE
                      (SumOver(n, I, v) * SumOver(n, J, QtyOf(execs)) * 2)
                        \div SumOver(n, I, QtyOf(execs)))
               ELSE (IF SumOver(n, I, QtyOf(execs)) = 0 THEN 0 ELSE
                      (SumOver(n, I, v) * SumOver(n, J, QtyOf(execs)) * 2)
                        \div SumOver(n, I, QtyOf(execs))) - SumOver(n, J, v) * 2)
            - SumOver(n, I \cup J, f) * 2
      BY DEF NetOf, n, v, f
    <2>2. I = E /\ J = X /\ I \cup J = O
      BY <1>2
    <2> HIDE DEF I, J
    <2>3. SumOver(n, I, QtyOf(execs)) = 2 /\ SumOver(n, J, QtyOf(execs)) = 2
          /\ SumOver(n, I \cup J, f) = SumOver(n, O, f)
          /\ SumOver(n, I, v) = SumOver(n, E, v) /\ SumOver(n, J, v) = SumOver(n, X, v)
      BY <1>3, <2>2
    <2> QED BY <1>8, <2>1, <2>3
  <1>10. ASSUME NEW k \in Int PROVE (k * 2 * 2) \div 2 = k * 2
    OBVIOUS
  <1> QED BY <1>4, <1>6, <1>7, <1>8, <1>9, <1>10

\* Executions y continue executions x.
Continues(y, x) == Len(x) <= Len(y) /\ \A i \in 1..Len(x) : y[i] = x[i]

LEMMA SumsContinue ==
  ASSUME NEW x \in Seq(FillRecords), NEW y \in Seq(FillRecords), Continues(y, x),
         NEW S, S \subseteq 1..Len(x)
  PROVE  /\ SumOver(Len(y), S, QtyOf(y)) = SumOver(Len(x), S, QtyOf(x))
         /\ SumOver(Len(y), S, ValueOf(y)) = SumOver(Len(x), S, ValueOf(x))
         /\ SumOver(Len(y), S, FeeOf(y)) = SumOver(Len(x), S, FeeOf(x))
  <1>1. Len(x) \in Nat /\ Len(y) \in Nat /\ Len(x) <= Len(y)
    BY Executions DEF Continues
  <1>2. ASSUME NEW i \in 1..Len(x)
        PROVE  /\ QtyOf(x)[i] \in Int /\ QtyOf(y)[i] = QtyOf(x)[i]
               /\ ValueOf(x)[i] \in Int /\ ValueOf(y)[i] = ValueOf(x)[i]
               /\ FeeOf(x)[i] \in Int /\ FeeOf(y)[i] = FeeOf(x)[i]
    <2>1. i \in 1..Len(y) /\ y[i] = x[i]
      BY <1>1 DEF Continues
    <2>2. QtyOf(x)[i] \in Int /\ ValueOf(x)[i] \in Int /\ FeeOf(x)[i] \in Int
      BY NumbersOf
    <2> QED BY <2>1, <2>2 DEF QtyOf, ValueOf, FeeOf
  <1>3. \A i \in 1..Len(x) : QtyOf(x)[i] \in Int /\ QtyOf(y)[i] = QtyOf(x)[i]
    BY <1>2
  <1>4. \A i \in 1..Len(x) : ValueOf(x)[i] \in Int /\ ValueOf(y)[i] = ValueOf(x)[i]
    BY <1>2
  <1>5. \A i \in 1..Len(x) : FeeOf(x)[i] \in Int /\ FeeOf(y)[i] = FeeOf(x)[i]
    BY <1>2
  <1>6. SumOver(Len(y), S, QtyOf(y)) = SumOver(Len(x), S, QtyOf(x))
    <2> DEFINE v == QtyOf(x)
               w == QtyOf(y)
               n == Len(x)
               m == Len(y)
    <2>1. n \in Nat /\ m \in Nat /\ n <= m /\ \A i \in (n + 1)..m : i \notin S
      BY <1>1
    <2>2. \A i \in 1..n : v[i] \in Int /\ w[i] = v[i]
      BY <1>3
    <2> HIDE DEF v, w, n, m
    <2>3. SumOver(m, S, w) = SumOver(n, S, v)
      BY <2>1, <2>2, SumOverGrows
    <2> QED BY <2>3 DEF v, w, n, m
  <1>7. SumOver(Len(y), S, ValueOf(y)) = SumOver(Len(x), S, ValueOf(x))
    <2> DEFINE v == ValueOf(x)
               w == ValueOf(y)
               n == Len(x)
               m == Len(y)
    <2>1. n \in Nat /\ m \in Nat /\ n <= m /\ \A i \in (n + 1)..m : i \notin S
      BY <1>1
    <2>2. \A i \in 1..n : v[i] \in Int /\ w[i] = v[i]
      BY <1>4
    <2> HIDE DEF v, w, n, m
    <2>3. SumOver(m, S, w) = SumOver(n, S, v)
      BY <2>1, <2>2, SumOverGrows
    <2> QED BY <2>3 DEF v, w, n, m
  <1>8. SumOver(Len(y), S, FeeOf(y)) = SumOver(Len(x), S, FeeOf(x))
    <2> DEFINE v == FeeOf(x)
               w == FeeOf(y)
               n == Len(x)
               m == Len(y)
    <2>1. n \in Nat /\ m \in Nat /\ n <= m /\ \A i \in (n + 1)..m : i \notin S
      BY <1>1
    <2>2. \A i \in 1..n : v[i] \in Int /\ w[i] = v[i]
      BY <1>5
    <2> HIDE DEF v, w, n, m
    <2>3. SumOver(m, S, w) = SumOver(n, S, v)
      BY <2>1, <2>2, SumOverGrows
    <2> QED BY <2>3 DEF v, w, n, m
  <1> QED BY <1>6, <1>7, <1>8

\* What is not booked yet changes no result.
LEMMA NetContinues ==
  ASSUME NEW x \in Seq(FillRecords), NEW y \in Seq(FillRecords), Continues(y, x),
         NEW b, DOMAIN b \subseteq 1..Len(x), NEW t \in Trades
  PROVE  NetOf(y, b, t) = NetOf(x, b, t)
  <1> DEFINE E == EntriesIn(x, b, t)
             X == ExitsIn(x, b, t)
  <1>1. EntriesIn(y, b, t) = E /\ ExitsIn(y, b, t) = X
    BY DEF Continues, EntriesIn, ExitsIn
  <1>2. E \subseteq 1..Len(x) /\ X \subseteq 1..Len(x) /\ E \cup X \subseteq 1..Len(x)
    BY DEF EntriesIn, ExitsIn
  <1> HIDE DEF E, X
  <1>3. /\ SumOver(Len(y), E, QtyOf(y)) = SumOver(Len(x), E, QtyOf(x))
        /\ SumOver(Len(y), X, QtyOf(y)) = SumOver(Len(x), X, QtyOf(x))
        /\ SumOver(Len(y), E, ValueOf(y)) = SumOver(Len(x), E, ValueOf(x))
        /\ SumOver(Len(y), X, ValueOf(y)) = SumOver(Len(x), X, ValueOf(x))
        /\ SumOver(Len(y), E \cup X, FeeOf(y)) = SumOver(Len(x), E \cup X, FeeOf(x))
    BY <1>2, SumsContinue
  <1>4. EntriesIn(x, b, t) = E /\ ExitsIn(x, b, t) = X
    BY DEF E, X
  <1> QED BY <1>1, <1>3, <1>4 DEF NetOf

\* What is of one trade changes no sum of another.
LEMMA OthersContinue ==
  ASSUME NEW x \in Seq(FillRecords), NEW y \in Seq(FillRecords), Continues(y, x),
         NEW u \in Trades, \A i \in (Len(x) + 1)..Len(y) : y[i].of # u
  PROVE  /\ Entries(y, u) = Entries(x, u) /\ Exits(y, u) = Exits(x, u)
         /\ BoughtOf(y, u) = BoughtOf(x, u) /\ SoldOf(y, u) = SoldOf(x, u)
  <1>1. Entries(y, u) = Entries(x, u) /\ Exits(y, u) = Exits(x, u)
    <2>1. Len(x) \in Nat /\ Len(y) \in Nat
      BY Executions
    <2>2. \A i \in 1..Len(y) : i \in 1..Len(x) \/ i \in (Len(x) + 1)..Len(y)
      BY <2>1
    <2>3. \A i \in 1..Len(x) : i \in 1..Len(y) /\ y[i] = x[i]
      BY <2>1 DEF Continues
    <2> QED BY <2>2, <2>3 DEF Entries, Exits
  <1>2. Entries(x, u) \subseteq 1..Len(x) /\ Exits(x, u) \subseteq 1..Len(x)
    BY DEF Entries, Exits
  <1> QED BY <1>1, <1>2, SumsContinue DEF BoughtOf, SoldOf

\* An execution that closes adds to what its trade sold.
LEMMA SaleAdds ==
  ASSUME NEW x \in Seq(FillRecords), NEW e \in FillRecords, e.closes
  PROVE  /\ Append(x, e) \in Seq(FillRecords) /\ Continues(Append(x, e), x)
         /\ Entries(Append(x, e), e.of) = Entries(x, e.of)
         /\ BoughtOf(Append(x, e), e.of) = BoughtOf(x, e.of)
         /\ SoldOf(Append(x, e), e.of) = SoldOf(x, e.of) + e.qty
  <1> DEFINE y == Append(x, e)
             n == Len(x)
             t == e.of
  <1>1. /\ y \in Seq(FillRecords) /\ n \in Nat /\ Len(y) = n + 1 /\ y[n + 1] = e
        /\ \A i \in 1..n : y[i] = x[i]
    OBVIOUS
  <1> HIDE DEF y
  <1>2. Continues(y, x)
    BY <1>1 DEF Continues
  <1>3. Entries(y, t) = Entries(x, t) /\ Exits(y, t) = Exits(x, t) \cup {n + 1}
    BY <1>1 DEF Entries, Exits
  <1>4. BoughtOf(y, t) = BoughtOf(x, t)
    <2>1. Entries(x, t) \subseteq 1..Len(x)
      BY DEF Entries
    <2> QED BY <1>1, <1>2, <1>3, <2>1, SumsContinue DEF BoughtOf
  <1>5. SoldOf(y, t) = SoldOf(x, t) + e.qty
    <2> DEFINE w == [i \in 1..(n + 1) |-> IF i \in Exits(y, t) THEN QtyOf(y)[i] ELSE 0]
               v == [i \in 1..n |-> IF i \in Exits(x, t) THEN QtyOf(x)[i] ELSE 0]
    <2>1. /\ \A i \in 1..n : v[i] \in Int /\ w[i] = v[i]
          /\ w[n + 1] = e.qty
      <3>1. \A i \in 1..n : i \in 1..Len(y) /\ QtyOf(y)[i] = QtyOf(x)[i] /\ QtyOf(x)[i] \in Int
                            /\ (i \in Exits(y, t) <=> i \in Exits(x, t))
        BY <1>1, <1>3, NumbersOf DEF QtyOf
      <3>2. QtyOf(y)[n + 1] = e.qty /\ n + 1 \in Exits(y, t) /\ n + 1 \in 1..(n + 1)
        BY <1>1, <1>3 DEF QtyOf
      <3>3. n + 1 \in 1..(n + 1) /\ \A i \in 1..n : i \in 1..(n + 1)
        BY <1>1
      <3>4. \A i \in 1..n : w[i] = (IF i \in Exits(y, t) THEN QtyOf(y)[i] ELSE 0)
                            /\ v[i] = (IF i \in Exits(x, t) THEN QtyOf(x)[i] ELSE 0)
        BY <3>3
      <3>5. w[n + 1] = IF n + 1 \in Exits(y, t) THEN QtyOf(y)[n + 1] ELSE 0
        BY <3>3
      <3> HIDE DEF n, w, v
      <3> QED BY <3>1, <3>2, <3>4, <3>5
    <2> HIDE DEF w, v
    <2>2. Fills!SumUpTo(w, n + 1) = Fills!SumUpTo(w, n) + w[n + 1]
      BY <1>1, SumStep
    <2>3. Fills!SumUpTo(w, n) = Fills!SumUpTo(v, n)
      <3>1. n \in Nat /\ n <= n /\ (\A i \in 1..n : w[i] = v[i] /\ v[i] \in Int)
            /\ \A i \in (n + 1)..n : w[i] = 0
        BY <1>1, <2>1
      <3> HIDE DEF n
      <3> QED BY <3>1, SumWithoutRest
    <2>4. SoldOf(y, t) = Fills!SumUpTo(w, n + 1) /\ SoldOf(x, t) = Fills!SumUpTo(v, n)
      BY <1>1 DEF SoldOf, SumOver, w, v
    <2> QED BY <2>1, <2>2, <2>3, <2>4
  <1> QED BY <1>1, <1>2, <1>3, <1>4, <1>5 DEF y

\* The two executions of an entry are what a trade buys.
LEMMA EntryBuysTwo ==
  ASSUME NEW x \in Seq(FillRecords), NEW y \in Seq(FillRecords), Continues(y, x),
         NEW t \in Trades, Len(y) = Len(x) + 2,
         \A i \in 1..Len(x) : x[i].of # t,
         \A i \in (Len(x) + 1)..Len(y) : y[i].of = t /\ ~y[i].closes /\ y[i].qty = 1
  PROVE  BoughtOf(y, t) = 2 /\ SoldOf(y, t) = 0
  <1> DEFINE n == Len(x)
             w == [i \in 1..(n + 2) |-> IF i \in Entries(y, t) THEN QtyOf(y)[i] ELSE 0]
  <1>1. n \in Nat /\ \A i \in 1..n : i \in 1..Len(y) /\ y[i] = x[i]
    <2>1. n \in Nat /\ Len(y) = n + 2 /\ \A i \in 1..n : y[i] = x[i]
      BY Executions DEF Continues
    <2> HIDE DEF n
    <2> QED BY <2>1
  <1>2. \A i \in 1..(n + 2) : i \in 1..n \/ i = n + 1 \/ i = n + 2
    BY <1>1
  <1>3. n + 1 \in (n + 1)..(n + 2) /\ n + 2 \in (n + 1)..(n + 2)
    BY <1>1
  <1>4. Entries(y, t) = {n + 1, n + 2} /\ Exits(y, t) = {}
    BY <1>1, <1>2, <1>3 DEF Entries, Exits
  <1>5. /\ \A i \in 1..n : w[i] = 0
        /\ w[n + 1] = 1 /\ w[n + 2] = 1
    BY <1>1, <1>3, <1>4 DEF QtyOf
  <1>6. BoughtOf(y, t) = Fills!SumUpTo(w, n + 2)
    BY DEF BoughtOf, SumOver
  <1>7. SoldOf(y, t) = 0
    BY <1>1, <1>4, SumOverNothing DEF SoldOf
  <1> HIDE DEF w, n
  <1>8. Fills!SumUpTo(w, n) = 0
    BY <1>1, <1>5, SumOfNothing
  <1>9. /\ Fills!SumUpTo(w, n + 1) = Fills!SumUpTo(w, n) + w[n + 1]
        /\ Fills!SumUpTo(w, (n + 1) + 1) = Fills!SumUpTo(w, n + 1) + w[(n + 1) + 1]
    BY <1>1, SumStep
  <1>10. (n + 1) + 1 = n + 2
    BY <1>1
  <1> QED BY <1>5, <1>6, <1>7, <1>8, <1>9, <1>10

\* Every moment is in a week.
LEMMA InSomeWeek ==
  ASSUME NEW n \in Nat, NEW w \in Positive
  PROVE  \E k \in 0..n : k * w <= n /\ n < k * w + w
  <1> DEFINE S == {m \in Nat : \E k \in 0..m : k * w <= m /\ m < k * w + w}
  <1>0. w \in Nat /\ w >= 1
    BY DEF Positive
  <1>1. 0 \in S
    <2>1. 0 \in 0..0 /\ 0 * w <= 0 /\ 0 < 0 * w + w
      BY <1>0
    <2> QED BY <2>1
  <1>2. ASSUME NEW m \in 0..(n - 1), m \in S PROVE m + 1 \in S
    <2>1. PICK k \in 0..m : k * w <= m /\ m < k * w + w
      BY <1>2
    <2>2. k * w \in Nat /\ (k + 1) * w = k * w + w
      BY <1>0
    <2>3. CASE m + 1 < k * w + w
      <3>1. k \in 0..(m + 1) /\ k * w <= m + 1
        BY <2>1, <2>2
      <3> QED BY <2>3, <3>1
    <2>4. CASE ~ (m + 1 < k * w + w)
      <3>1. k + 1 \in 0..(m + 1) /\ (k + 1) * w <= m + 1 /\ m + 1 < (k + 1) * w + w
        BY <1>0, <2>1, <2>2, <2>4
      <3> QED BY <3>1
    <2> QED BY <2>3, <2>4
  <1> HIDE DEF S
  <1>3. \A m \in 0..n : m \in S
    BY <1>1, <1>2, UpTo
  <1>4. n \in S
    BY <1>3
  <1> QED BY <1>4 DEF S

\* What the listing shows of a trade is booked to it, but for what is later than it looks.
LEMMA OwnIsRelevant ==
  ASSUME FillsTypes, FollowInv, ShapeInv, NEW t \in Trades, rows[t] # "none",
         NEW i \in 1..listed, execs[i].of = t, execs[i].time <= Fills!ListedUntil(t)
  PROVE  i \in Fills!Relevant(t)
  <1> DEFINE from == received[t] - 1
             past == execs[i].time - from
  <1>1. /\ i \in 1..Len(execs) /\ execs[i].time \in Nat /\ execs[i].closes \in BOOLEAN
        /\ ticks \in 1..MaxClock /\ received[t] \in 1..ticks /\ MaxClock \in Nat /\ Week \in Positive
    <2>1. i \in 1..Len(execs) /\ execs \in Seq(FillRecords) /\ ticks \in 1..MaxClock
      BY Executions DEF FillsTypes
    <2>2. received[t] \in 1..ticks
      BY DEF FollowInv
    <2> QED BY <2>1, <2>2, Executions, FillsAssumption DEF Positive
  <1>2. /\ received[t] <= execs[i].time /\ execs[i].time <= ticks
        /\ ~execs[i].closes => execs[i].link = t
    BY <1>1 DEF ShapeInv
  <1>3. from \in Nat /\ past \in Nat /\ past <= MaxClock /\ execs[i].time = from + past
    <2>1. ASSUME NEW r, NEW x \in Nat, NEW c, NEW m \in Nat,
                 c \in 1..m, r \in 1..c, r <= x, x <= c
          PROVE  r - 1 \in Nat /\ x - (r - 1) \in Nat /\ x - (r - 1) <= m
                 /\ x = (r - 1) + (x - (r - 1))
      BY <2>1
    <2> QED BY <1>1, <1>2, <2>1
  <1> HIDE DEF from, past
  <1>4. PICK k \in 0..past : k * Week <= past /\ past < k * Week + Week
    BY <1>1, <1>3, InSomeWeek
  <1>5. /\ k \in 0..MaxClock /\ k * Week \in Nat /\ Week \in Nat
    BY <1>1, <1>3 DEF Positive
  <1>6. /\ from + k * Week <= execs[i].time
        /\ execs[i].time < (from + k * Week) + Week
    BY <1>3, <1>4, <1>5
  <1>7. i \in Fills!Listing(from, Fills!ListedUntil(t))
    BY <1>5, <1>6 DEF Fills!Listing, Fills!WindowStarts
  <1> QED BY <1>1, <1>2, <1>7 DEF Fills!Relevant, from

\* An execution that is not booked yet is booked to its trade: the trades before it have all
\* theirs, those after it have not begun.
LEMMA RelevantIsOwn ==
  ASSUME FillsParts, NEW t \in Trades, rows[t] \notin {"none", "CLOSED"}
  PROVE  /\ Fills!Relevant(t) \subseteq 1..listed
         /\ \A i \in Fills!Relevant(t) : i \notin DOMAIN books => execs[i].of = t
  <1>1. Fills!Relevant(t) \subseteq 1..listed
    BY DEF Fills!Relevant, Fills!Listing
  <1>2. ASSUME NEW i \in Fills!Relevant(t), i \notin DOMAIN books
        PROVE  execs[i].of = t
    <2>1. /\ execs \in Seq(FillRecords) /\ listed \in 0..Len(execs)
      BY DEF FillsParts, FillsTypes
    <2>2. i \in 1..Len(execs)
      BY <1>1, <2>1, Executions
    <2> DEFINE u == execs[i].of
    <2>3. u \in Trades /\ rows[u] # "none"
      BY <2>1, <2>2, Executions DEF FillsParts, ShapeInv
    <2>4. i \in Fills!Own(u)
      BY <2>1, <2>2, Executions DEF Fills!Own
    <2>5. rows[u] # "CLOSED"
      BY <1>2, <2>3, <2>4 DEF FillsParts, ClosedInv
    <2> HIDE DEF u
    <2>6. ~ (u < t) /\ ~ (t < u)
      BY <2>3, <2>5 DEF FillsParts, FollowInv
    <2>7. u \in Nat /\ t \in Nat
      BY <2>3, FillsAssumption DEF Positive
    <2> QED BY <2>6, <2>7 DEF u
  <1> QED BY <1>1, <1>2

\* A synchronisation books nothing to the wrong trade, and an exit only with its entry.
LEMMA SyncedWell ==
  ASSUME FillsParts, NEW t \in Trades, rows[t] \notin {"none", "CLOSED"}
  PROVE  /\ DOMAIN Fills!Synced(t) \subseteq 1..listed
         /\ DOMAIN books \subseteq DOMAIN Fills!Synced(t)
         /\ BookedWell(Fills!Synced(t))
         /\ \A u \in Trades : u # t =>
              /\ EntriesIn(execs, Fills!Synced(t), u) = EntriesIn(execs, books, u)
              /\ ExitsIn(execs, Fills!Synced(t), u) = ExitsIn(execs, books, u)
  <1> DEFINE b == Fills!Synced(t)
  <1>1. /\ DOMAIN b = DOMAIN books \cup Fills!Relevant(t)
        /\ \A i \in DOMAIN b : b[i] = IF i \in DOMAIN books THEN books[i] ELSE t
    BY DEF Fills!Synced
  <1> HIDE DEF b
  <1>2. /\ Fills!Relevant(t) \subseteq 1..listed
        /\ \A i \in Fills!Relevant(t) : i \notin DOMAIN books => execs[i].of = t
    BY RelevantIsOwn
  <1>3. /\ execs \in Seq(FillRecords) /\ listed \in 0..Len(execs) /\ DOMAIN books \subseteq 1..listed
        /\ FollowInv /\ ShapeInv /\ FillsTypes /\ BookedWell(books)
    BY DEF FillsParts, FillsTypes, BookedInv
  <1>4. DOMAIN b \subseteq 1..listed /\ DOMAIN books \subseteq DOMAIN b
    BY <1>1, <1>2, <1>3
  <1>5. ASSUME NEW i \in DOMAIN b
        PROVE  /\ b[i] = execs[i].of
               /\ execs[i].closes => Entries(execs, execs[i].of) \subseteq DOMAIN b
    <2>1. CASE i \in DOMAIN books
      BY <1>1, <1>3, <2>1 DEF BookedWell
    <2>2. CASE i \notin DOMAIN books
      <3>1. b[i] = t /\ execs[i].of = t /\ i \in 1..listed
        BY <1>1, <1>2, <2>2
      <3>2. ASSUME execs[i].closes, NEW j \in Entries(execs, t)
            PROVE  j \in DOMAIN b
        <4>1. j \in 1..Len(execs) /\ execs[j].of = t /\ ~execs[j].closes
          BY DEF Entries
        <4>2. i \in 1..Len(execs) /\ Len(execs) \in Nat
          BY <1>3, <3>1, Executions
        <4>3. j < i
          BY <3>1, <3>2, <4>1, <4>2, <1>3 DEF ShapeInv
        <4>4. j \in 1..listed
          BY <1>3, <3>1, <4>1, <4>2, <4>3
        <4>5. execs[j].time = received[t] /\ received[t] \in 1..ticks
              /\ (detected[t] # 0 => received[t] <= detected[t])
          BY <1>3, <4>1 DEF ShapeInv, FollowInv
        <4>6. execs[j].time <= Fills!ListedUntil(t)
          <5>1. Grace \in Nat /\ detected[t] \in Nat /\ ticks \in Nat
            BY <1>3, FillsAssumption DEF FillsTypes
          <5> QED BY <4>5, <5>1 DEF Fills!ListedUntil
        <4>7. j \in Fills!Relevant(t)
          BY <1>3, <4>1, <4>4, <4>6, OwnIsRelevant
        <4> QED BY <1>1, <4>7
      <3> QED BY <3>1, <3>2
    <2> QED BY <2>1, <2>2
  <1>6. ASSUME NEW u \in Trades, u # t
        PROVE  /\ EntriesIn(execs, b, u) = EntriesIn(execs, books, u)
               /\ ExitsIn(execs, b, u) = ExitsIn(execs, books, u)
    <2>1. \A i : (i \in DOMAIN b /\ b[i] = u) <=> (i \in DOMAIN books /\ books[i] = u)
      BY <1>1, <1>4, <1>6
    <2> QED BY <2>1 DEF EntriesIn, ExitsIn
  <1> QED BY <1>4, <1>5, <1>6 DEF b, BookedWell

LEMMA FillsInit == InitAll => FillsInv
  <1> SUFFICES ASSUME InitAll, part = "fills" PROVE FillsParts
    BY DEF FillsInv
  <1>1. Fills!Init
    BY DEF InitAll
  <1>2. /\ ticks = 1 /\ misses = 0 /\ rows = [t \in Trades |-> "none"]
        /\ received = [t \in Trades |-> 0] /\ detected = [t \in Trades |-> 0]
        /\ books = <<>> /\ net = [t \in Trades |-> 0] /\ execs = <<>> /\ listed = 0
    BY <1>1 DEF Fills!Init
  <1>3. /\ execs \in Seq(FillRecords) /\ Len(execs) = 0 /\ 1..Len(execs) = {} /\ DOMAIN books = {}
    BY <1>2
  <1>4. FillsTypes
    BY <1>2, <1>3, FillsAssumption DEF FillsTypes, RowStates, Positive
  <1>5. FollowInv /\ ShapeInv /\ SizeInv /\ BookedInv /\ ClosedInv
    BY <1>2, <1>3 DEF FollowInv, ShapeInv, SizeInv, BookedInv, BookedWell, ClosedInv
  <1>6. ASSUME NEW t \in Trades PROVE NetOf(execs, books, t) = 0
    <2> DEFINE v == ValueOf(execs)
               q == QtyOf(execs)
               f == FeeOf(execs)
    <2>1. EntriesIn(execs, books, t) = {} /\ ExitsIn(execs, books, t) = {}
      BY <1>3 DEF EntriesIn, ExitsIn
    <2>2. SumOver(Len(execs), {}, q) = 0 /\ SumOver(Len(execs), {}, v) = 0
          /\ SumOver(Len(execs), {}, f) = 0
      <3> HIDE DEF v, q, f
      <3> QED BY <1>3, SumOverNothing
    <2>3. {} \cup {} = {}
      OBVIOUS
    <2> QED BY <2>1, <2>2, <2>3 DEF NetOf
  <1>7. NetInv
    BY <1>2, <1>6 DEF NetInv
  <1> QED BY <1>4, <1>5, <1>7 DEF FillsParts

\* Time passes, and the listing shows more.
LEMMA TimeKeeps == FillsParts /\ (Fills!Tick \/ Fills!List) => FillsParts'
  <1> SUFFICES ASSUME FillsParts, Fills!Tick \/ Fills!List PROVE FillsParts'
    OBVIOUS
  <1>1. UNCHANGED <<rows, received, detected, books, net, execs, misses>>
    BY DEF Fills!Tick, Fills!List
  <1>2. execs \in Seq(FillRecords) /\ ticks \in 1..MaxClock /\ listed \in 0..Len(execs)
        /\ DOMAIN books \subseteq 1..listed /\ Len(execs) \in Nat /\ MaxClock \in Nat
    BY Executions, FillsAssumption DEF FillsParts, FillsTypes, Positive
  <1>3. ticks' \in 1..MaxClock /\ ticks <= ticks' /\ listed' \in 0..Len(execs) /\ listed <= listed'
    BY <1>2 DEF Fills!Tick, Fills!List
  <1>4. FillsTypes'
    BY <1>1, <1>2, <1>3 DEF FillsParts, FillsTypes
  <1>5. FollowInv'
    <2> SUFFICES ASSUME NEW t \in Trades, rows[t] # "none" PROVE received[t] \in 1..ticks'
      BY <1>1 DEF FollowInv, FillsParts
    <2>1. received[t] \in 1..ticks
      BY DEF FillsParts, FollowInv
    <2> QED BY <1>2, <1>3, <2>1
  <1>6. ShapeInv'
    <2> SUFFICES ASSUME NEW i \in 1..Len(execs) PROVE execs[i].time <= ticks'
      BY <1>1 DEF ShapeInv, FillsParts
    <2>1. execs[i].time <= ticks /\ execs[i].time \in Nat
      BY <1>2, Executions DEF FillsParts, ShapeInv
    <2> QED BY <1>2, <1>3, <2>1
  <1>7. SizeInv' /\ BookedInv' /\ NetInv'
    BY <1>1 DEF FillsParts, SizeInv, BookedInv, BookedWell, NetInv
  <1>8. ClosedInv'
    BY <1>1 DEF FillsParts, ClosedInv, Fills!Own
  <1> QED BY <1>4, <1>5, <1>6, <1>7, <1>8 DEF FillsParts

\* A trade that is open is marked, by what the position looks like.
LEMMA MarkKeeps ==
  ASSUME FillsParts, NEW t \in Trades, rows[t] \notin {"none", "CLOSED"},
         NEW s \in RowStates, s \notin {"none", "CLOSED"}, rows' = [rows EXCEPT ![t] = s],
         detected' = detected \/ detected' = [detected EXCEPT ![t] = Fills!FirstFlat(t)],
         misses' \in Nat, UNCHANGED <<ticks, received, books, net, execs, listed>>
  PROVE  FillsParts'
  <1>1. /\ ticks \in 1..MaxClock /\ detected \in [Trades -> Nat] /\ rows \in [Trades -> RowStates]
        /\ received[t] \in 1..ticks /\ MaxClock \in Nat
        /\ (detected[t] # 0 => received[t] <= detected[t])
    BY FillsAssumption DEF FillsParts, FillsTypes, FollowInv, Positive
  <1>2. /\ detected' \in [Trades -> Nat]
        /\ \A u \in Trades : u # t => detected'[u] = detected[u]
        /\ detected'[t] # 0 => received[t] <= detected'[t]
    BY <1>1 DEF Fills!FirstFlat
  <1>3. /\ rows' \in [Trades -> RowStates] /\ rows'[t] = s
        /\ \A u \in Trades : u # t => rows'[u] = rows[u]
    BY <1>1
  <1>4. FillsTypes'
    BY <1>2, <1>3 DEF FillsParts, FillsTypes
  <1>5. FollowInv'
    BY <1>2, <1>3 DEF FillsParts, FollowInv
  <1>6. ShapeInv'
    <2>1. \A u \in Trades : rows[u] # "none" => rows'[u] # "none"
      BY <1>3
    <2>2. \A i \in 1..Len(execs) : execs[i].of \in Trades
      BY Executions DEF FillsParts, FillsTypes
    <2>3. \A i \in 1..Len(execs) : rows'[execs[i].of] # "none"
      BY <2>1, <2>2 DEF FillsParts, ShapeInv
    <2> QED BY <2>3 DEF FillsParts, ShapeInv
  <1>7. SizeInv' /\ BookedInv' /\ NetInv'
    BY <1>3 DEF FillsParts, SizeInv, BookedInv, BookedWell, NetInv
  <1>8. ClosedInv'
    BY <1>3 DEF FillsParts, ClosedInv, Fills!Own
  <1> QED BY <1>4, <1>5, <1>6, <1>7, <1>8 DEF FillsParts

\* A trade holds something only while it is open.
LEMMA HoldersAreOpen ==
  ASSUME FillsParts, NEW t \in Trades, Fills!Held(t) # 0
  PROVE  rows[t] \notin {"none", "CLOSED"}
  <1>1. execs \in Seq(FillRecords) /\ ShapeInv
    BY DEF FillsParts, FillsTypes
  <1>2. Fills!Held(t) = BoughtOf(execs, t) - SoldOf(execs, t)
        /\ BoughtOf(execs, t) \in Nat /\ SoldOf(execs, t) \in Nat
    BY <1>1, HeldIsDifference
  <1>3. rows[t] # "CLOSED"
    BY <1>2 DEF FillsParts, SizeInv, ClosedInv
  <1>4. ASSUME rows[t] = "none" PROVE FALSE
    <2>1. Entries(execs, t) = {} /\ Exits(execs, t) = {}
      BY <1>1, <1>4 DEF ShapeInv, Entries, Exits
    <2>2. BoughtOf(execs, t) = 0 /\ SoldOf(execs, t) = 0
      <3> DEFINE q == QtyOf(execs)
      <3>1. Len(execs) \in Nat
        BY <1>1, Executions
      <3>2. SumOver(Len(execs), {}, q) = 0
        <4> HIDE DEF q
        <4> QED BY <3>1, SumOverNothing
      <3> QED BY <2>1, <3>2 DEF BoughtOf, SoldOf
    <2> QED BY <1>2, <2>2
  <1> QED BY <1>3, <1>4

\* An execution of a trade closes some of what it holds.
LEMMA SaleKeeps ==
  ASSUME FillsParts, NEW t \in Trades, NEW s \in RowStates, s \notin {"none", "CLOSED"},
         rows' = rows \/ rows' = [rows EXCEPT ![t] = s],
         NEW qty \in 1..Fills!Held(t), NEW p \in Prices, NEW link \in {t, 0},
         execs' = Append(execs, Fills!Execution(t, Fills!ExitSide(t), qty, p, link, TRUE)),
         UNCHANGED <<ticks, received, detected, books, net, listed, misses>>
  PROVE  FillsParts'
  <1> DEFINE e == Fills!Execution(t, Fills!ExitSide(t), qty, p, link, TRUE)
             n == Len(execs)
  <1>1. /\ execs \in Seq(FillRecords) /\ ShapeInv /\ FollowInv /\ FillsTypes /\ n \in Nat
        /\ ticks \in Nat /\ t \in Nat /\ listed \in 0..n /\ DOMAIN books \subseteq 1..listed
    BY Executions, FillsAssumption DEF FillsParts, FillsTypes, Positive
  <1>2. /\ Fills!Held(t) = BoughtOf(execs, t) - SoldOf(execs, t)
        /\ BoughtOf(execs, t) \in Nat /\ SoldOf(execs, t) \in Nat
    BY <1>1, HeldIsDifference
  <1>3. rows[t] \notin {"none", "CLOSED"}
    BY <1>2, HoldersAreOpen
  <1>4. qty \in Positive /\ qty <= Fills!Held(t)
    BY <1>2 DEF Positive
  <1>5. /\ e \in FillRecords /\ e.of = t /\ e.closes /\ e.qty = qty /\ e.time = ticks
        /\ e.link = link /\ e.side = Fills!ExitSide(t)
    <2>1. Fills!ExitSide(t) \in {"Buy", "Sell"} /\ p \in Nat /\ link \in Nat
      BY <1>1, FillsAssumption DEF Fills!ExitSide
    <2> QED BY <1>1, <1>4, <2>1 DEF Fills!Execution, FillRecords
  <1>17. n = Len(execs) /\ n \in Nat
    BY <1>1
  <1> HIDE DEF e, n
  <1>6. /\ execs' = Append(execs, e) /\ execs' \in Seq(FillRecords) /\ Len(execs') = n + 1
        /\ execs'[n + 1] = e /\ DOMAIN execs' = 1..(n + 1)
        /\ \A i \in 1..n : execs'[i] = execs[i]
    <2>1. execs' = Append(execs, e)
      BY DEF e
    <2>2. ASSUME NEW x \in Seq(FillRecords)
          PROVE  /\ Append(x, e) \in Seq(FillRecords) /\ Len(Append(x, e)) = Len(x) + 1
                 /\ Append(x, e)[Len(x) + 1] = e /\ DOMAIN Append(x, e) = 1..(Len(x) + 1)
                 /\ \A i \in 1..Len(x) : Append(x, e)[i] = x[i]
      BY <1>5
    <2> QED BY <1>17, <1>1, <2>1, <2>2
  <1>7. Continues(execs', execs) /\ \A i \in 1..(n + 1) : i \in 1..n \/ i = n + 1
    BY <1>17, <1>1, <1>6 DEF Continues
  <1>8. /\ rows' \in [Trades -> RowStates] /\ rows'[t] \notin {"none", "CLOSED"}
        /\ \A u \in Trades : u # t => rows'[u] = rows[u]
    BY <1>17, <1>1, <1>3 DEF FillsTypes
  <1>9. /\ \A u \in Trades : Entries(execs', u) = Entries(execs, u)
        /\ BoughtOf(execs', t) = BoughtOf(execs, t) /\ SoldOf(execs', t) = SoldOf(execs, t) + qty
        /\ \A u \in Trades : u # t => /\ BoughtOf(execs', u) = BoughtOf(execs, u)
                                      /\ SoldOf(execs', u) = SoldOf(execs, u)
    <2>1. /\ Entries(execs', t) = Entries(execs, t)
          /\ BoughtOf(execs', t) = BoughtOf(execs, t) /\ SoldOf(execs', t) = SoldOf(execs, t) + qty
      <3>1. /\ Entries(Append(execs, e), e.of) = Entries(execs, e.of)
            /\ BoughtOf(Append(execs, e), e.of) = BoughtOf(execs, e.of)
            /\ SoldOf(Append(execs, e), e.of) = SoldOf(execs, e.of) + e.qty
        BY <1>1, <1>5, SaleAdds
      <3>2. e.of = t /\ e.qty = qty /\ execs' = Append(execs, e)
        BY <1>5, <1>6
      <3> QED BY <3>1, <3>2
    <2>2. ASSUME NEW u \in Trades, u # t
          PROVE  /\ Entries(execs', u) = Entries(execs, u)
                 /\ BoughtOf(execs', u) = BoughtOf(execs, u) /\ SoldOf(execs', u) = SoldOf(execs, u)
      <3>1. \A i \in (Len(execs) + 1)..Len(execs') : execs'[i].of # u
        <4>1. (Len(execs) + 1)..Len(execs') = {n + 1}
          BY <1>6, <1>17
        <4> QED BY <1>5, <1>6, <2>2, <4>1
      <3> QED BY <1>17, <1>1, <1>6, <1>7, <3>1, OthersContinue
    <2> QED BY <2>1, <2>2
  <1>10. FillsTypes'
    <2>1. listed' \in 0..Len(execs')
      BY <1>17, <1>1, <1>6
    <2> QED BY <1>17, <1>1, <1>6, <1>8, <2>1 DEF FillsTypes
  <1>11. FollowInv'
    BY <1>17, <1>1, <1>3, <1>8 DEF FollowInv
  <1>12. ShapeInv'
    <2> SUFFICES ASSUME NEW i \in 1..(n + 1)
                 PROVE  /\ rows'[execs'[i].of] # "none"
                        /\ execs'[i].side = IF execs'[i].closes THEN Fills!ExitSide(execs'[i].of)
                                            ELSE Fills!EntrySide(execs'[i].of)
                        /\ execs'[i].link \in {execs'[i].of, 0}
                        /\ received[execs'[i].of] <= execs'[i].time /\ execs'[i].time <= ticks
                        /\ ~execs'[i].closes =>
                             execs'[i].link = execs'[i].of /\ execs'[i].time = received[execs'[i].of]
                        /\ \A j \in 1..(n + 1) :
                             execs'[j].of = execs'[i].of /\ execs'[i].closes /\ ~execs'[j].closes
                             => j < i
      BY <1>17, <1>6 DEF ShapeInv
    <2>1. CASE i \in 1..n
      <3>1. execs'[i] = execs[i] /\ execs[i].of \in Trades
        BY <1>17, <1>1, <1>6, <2>1, Executions
      <3>2. \A j \in 1..(n + 1) : ~execs'[j].closes => j \in 1..n /\ execs'[j] = execs[j]
        BY <1>17, <1>5, <1>6, <1>7
      <3>3. rows'[execs[i].of] # "none"
        BY <1>17, <1>1, <1>8, <2>1, <3>1 DEF ShapeInv
      <3> QED BY <1>17, <1>1, <2>1, <3>1, <3>2, <3>3 DEF ShapeInv
    <2>2. CASE i = n + 1
      <3>1. \A j \in 1..(n + 1) : ~execs'[j].closes => j < n + 1
        <4> SUFFICES ASSUME NEW j \in 1..(n + 1), ~execs'[j].closes PROVE j < n + 1
          OBVIOUS
        <4>1. j # n + 1
          BY <1>5, <1>6
        <4> QED BY <1>17, <4>1
      <3>2. received[t] <= ticks
        BY <1>17, <1>1, <1>3 DEF FollowInv
      <3>3. ticks <= ticks
        BY <1>17, <1>1
      <3> QED BY <1>17, <1>5, <1>6, <1>8, <2>2, <3>1, <3>2, <3>3
    <2> QED BY <1>17, <1>7, <2>1, <2>2
  <1>13. SizeInv'
    <2> SUFFICES ASSUME NEW u \in Trades, rows'[u] # "none"
                 PROVE  BoughtOf(execs', u) = 2 /\ SoldOf(execs', u) <= 2
      BY DEF SizeInv
    <2>1. CASE u = t
      <3>1. BoughtOf(execs, t) = 2
        BY <1>17, <1>3 DEF FillsParts, SizeInv
      <3>2. qty \in Nat
        BY <1>17, <1>4 DEF Positive
      <3>3. SoldOf(execs, t) \in Nat /\ qty <= 2 - SoldOf(execs, t)
        BY <1>2, <1>4, <3>1
      <3>4. SoldOf(execs, t) + qty <= 2
        BY <3>2, <3>3
      <3> QED BY <1>9, <2>1, <3>1, <3>4
    <2>2. CASE u # t
      BY <1>17, <1>8, <1>9, <2>2 DEF FillsParts, SizeInv
    <2> QED BY <2>1, <2>2
  <1>14. BookedInv'
    <2> SUFFICES ASSUME NEW i \in DOMAIN books
                 PROVE  /\ books[i] = execs'[i].of
                        /\ execs'[i].closes => Entries(execs', execs'[i].of) \subseteq DOMAIN books
      BY DEF BookedInv, BookedWell
    <2>1. i \in 1..n /\ execs'[i] = execs[i] /\ execs[i].of \in Trades
      <3>1. i \in 1..n
        BY <1>1, <1>17
      <3> QED BY <1>1, <1>6, <1>17, <3>1, Executions
    <2> QED BY <1>17, <1>9, <2>1 DEF FillsParts, BookedInv, BookedWell
  <1>15. NetInv'
    <2>1. DOMAIN books \subseteq 1..Len(execs)
      <3>1. 1..listed \subseteq 1..n
        BY <1>1, <1>17
      <3> QED BY <1>1, <1>17, <3>1
    <2>2. \A u \in Trades : NetOf(execs', books, u) = NetOf(execs, books, u)
      <3> SUFFICES ASSUME NEW u \in Trades PROVE NetOf(execs', books, u) = NetOf(execs, books, u)
        OBVIOUS
      <3>1. execs \in Seq(FillRecords) /\ execs' \in Seq(FillRecords) /\ Continues(execs', execs)
        BY <1>1, <1>6, <1>7
      <3> QED BY <2>1, <3>1, NetContinues
    <2> QED BY <2>2 DEF FillsParts, NetInv
  <1>16. ClosedInv'
    <2> SUFFICES ASSUME NEW u \in Trades, rows'[u] = "CLOSED"
                 PROVE  Fills!Own(u)' \subseteq DOMAIN books /\ SoldOf(execs', u) = 2
      BY DEF ClosedInv
    <2>1. u # t /\ rows[u] = "CLOSED"
      BY <1>17, <1>8
    <2>2. Fills!Own(u)' = Fills!Own(u)
      <3>1. DOMAIN execs = 1..n /\ DOMAIN execs' = 1..(n + 1) /\ execs'[n + 1].of # u
            /\ \A i \in 1..n : execs'[i] = execs[i]
        BY <1>1, <1>5, <1>6, <1>17, <2>1, Executions
      <3>2. \A i \in 1..n : i \in 1..(n + 1)
        BY <1>17
      <3> QED BY <1>7, <3>1, <3>2 DEF Fills!Own
    <2> QED BY <1>17, <1>9, <2>1, <2>2 DEF FillsParts, ClosedInv
  <1> QED BY <1>17, <1>10, <1>11, <1>12, <1>13, <1>14, <1>15, <1>16 DEF FillsParts

\* A trade begins with the two executions of its entry.
LEMMA OpenKeeps ==
  ASSUME FillsParts, NEW t \in Trades, Fills!Open(t)
  PROVE  FillsParts'
  <1> DEFINE n == Len(execs)
             two == [k \in 1..2 |->
                       Fills!Execution(t, Fills!EntrySide(t), 1, EntryPrices[k], t, FALSE)]
  <1>1. /\ rows[t] = "none" /\ \A u \in Trades : u < t => rows[u] = "CLOSED"
        /\ rows' = [rows EXCEPT ![t] = "ACTIVE"] /\ received' = [received EXCEPT ![t] = ticks]
        /\ execs' = execs \o two
        /\ UNCHANGED <<ticks, detected, books, net, listed, misses>>
    BY DEF Fills!Open
  <1>2. /\ execs \in Seq(FillRecords) /\ ShapeInv /\ FollowInv /\ FillsTypes
        /\ n = Len(execs) /\ n \in Nat
        /\ ticks \in 1..MaxClock /\ t \in Nat /\ listed \in 0..n /\ DOMAIN books \subseteq 1..listed
    BY Executions, FillsAssumption DEF FillsParts, FillsTypes, Positive
  <1>3. ASSUME NEW k \in 1..2
        PROVE  /\ two[k] \in FillRecords /\ two[k].of = t /\ ~two[k].closes /\ two[k].qty = 1
               /\ two[k].side = Fills!EntrySide(t) /\ two[k].link = t /\ two[k].time = ticks
    <2>1. Fills!EntrySide(t) \in {"Buy", "Sell"} /\ EntryPrices[k] \in Nat /\ ticks \in Nat
      BY <1>2, FillsAssumption DEF Fills!EntrySide
    <2> QED BY <1>2, <2>1 DEF Fills!Execution, FillRecords, Positive
  <1>4. two \in Seq(FillRecords) /\ Len(two) = 2
    <2>1. two \in [1..2 -> FillRecords]
      BY <1>3
    <2> HIDE DEF two
    <2>2. two = <<two[1], two[2]>> /\ two[1] \in FillRecords /\ two[2] \in FillRecords
      BY <2>1
    <2>3. \A a, b \in FillRecords : <<a, b>> \in Seq(FillRecords) /\ Len(<<a, b>>) = 2
      OBVIOUS
    <2> QED BY <2>2, <2>3
  <1> HIDE DEF two, n
  <1>5. /\ execs' \in Seq(FillRecords) /\ Len(execs') = n + 2 /\ DOMAIN execs' = 1..(n + 2)
        /\ \A i \in 1..n : execs'[i] = execs[i]
        /\ execs'[n + 1] = two[1] /\ execs'[n + 2] = two[2]
    <2>1. ASSUME NEW x \in Seq(FillRecords), NEW y \in Seq(FillRecords), Len(y) = 2
          PROVE  /\ x \o y \in Seq(FillRecords) /\ Len(x \o y) = Len(x) + 2
                 /\ DOMAIN (x \o y) = 1..(Len(x) + 2)
                 /\ \A i \in 1..Len(x) : (x \o y)[i] = x[i]
                 /\ (x \o y)[Len(x) + 1] = y[1] /\ (x \o y)[Len(x) + 2] = y[2]
      <3>1. Len(x) \in Nat /\ x \o y \in Seq(FillRecords) /\ Len(x \o y) = Len(x) + 2
        <4>1. Len(x) \in Nat
          BY LenProperties
        <4>2. x \o y \in Seq(FillRecords) /\ Len(x \o y) = Len(x) + Len(y)
          BY ConcatProperties
        <4> QED BY <2>1, <4>1, <4>2
      <3>2. DOMAIN (x \o y) = 1..(Len(x) + 2)
        BY <3>1
      <3>3. \A i \in 1..(Len(x) + 2) :
              (x \o y)[i] = IF i <= Len(x) THEN x[i] ELSE y[i - Len(x)]
        BY <2>1, ConcatProperties
      <3>4. (Len(x) + 1) - Len(x) = 1 /\ (Len(x) + 2) - Len(x) = 2
        BY <3>1
      <3> QED BY <3>1, <3>2, <3>3, <3>4
    <2> QED BY <1>1, <1>2, <1>4, <2>1
  <1>6. \A i \in 1..(n + 2) : i \in 1..n \/ i = n + 1 \/ i = n + 2
    BY <1>2
  <1>7. /\ Continues(execs', execs)
        /\ \A i \in 1..(n + 2) : i \notin 1..n =>
             /\ execs'[i].of = t /\ ~execs'[i].closes /\ execs'[i].qty = 1
             /\ execs'[i].side = Fills!EntrySide(t) /\ execs'[i].link = t /\ execs'[i].time = ticks
    BY <1>2, <1>3, <1>5, <1>6 DEF Continues
  <1>8. /\ rows' \in [Trades -> RowStates] /\ rows'[t] = "ACTIVE" /\ received'[t] = ticks
        /\ \A u \in Trades : u # t => rows'[u] = rows[u] /\ received'[u] = received[u]
        /\ received' \in [Trades -> Nat]
    BY <1>1, <1>2 DEF FillsTypes, RowStates
  <1>9. \A i \in 1..n : execs[i].of \in Trades /\ execs[i].of # t /\ execs'[i] = execs[i]
    BY <1>1, <1>2, <1>5, Executions DEF ShapeInv
  <1>10. ASSUME NEW u \in Trades, u # t
         PROVE  /\ Entries(execs', u) = Entries(execs, u)
                /\ BoughtOf(execs', u) = BoughtOf(execs, u) /\ SoldOf(execs', u) = SoldOf(execs, u)
    <2>1. \A i \in (Len(execs) + 1)..Len(execs') : i \in 1..(n + 2) /\ i \notin 1..n
      BY <1>2, <1>5
    <2>2. \A i \in (Len(execs) + 1)..Len(execs') : execs'[i].of # u
      BY <1>7, <1>10, <2>1
    <2> QED BY <1>2, <1>5, <1>7, <2>2, OthersContinue
  <1>11. BoughtOf(execs', t) = 2 /\ SoldOf(execs', t) = 0
    <2>1. \A i \in (Len(execs) + 1)..Len(execs') : i \in 1..(n + 2) /\ i \notin 1..n
      BY <1>2, <1>5
    <2>2. \A i \in (Len(execs) + 1)..Len(execs') :
            execs'[i].of = t /\ ~execs'[i].closes /\ execs'[i].qty = 1
      BY <1>7, <2>1
    <2>3. (\A i \in 1..Len(execs) : execs[i].of # t) /\ Len(execs') = Len(execs) + 2
      BY <1>2, <1>5, <1>9
    <2> QED BY <1>2, <1>5, <1>7, <2>2, <2>3, EntryBuysTwo
  <1>12. FillsTypes'
    <2>1. listed' \in 0..Len(execs') /\ DOMAIN books' \subseteq 1..listed'
      BY <1>1, <1>2, <1>5
    <2> QED BY <1>1, <1>2, <1>5, <1>8, <2>1 DEF FillsTypes
  <1>13. FollowInv'
    <2> SUFFICES ASSUME NEW u \in Trades
                 PROVE  /\ rows'[u] = "none" => detected[u] = 0
                        /\ rows'[u] # "none" =>
                             /\ \A v \in Trades : v < u => rows'[v] = "CLOSED"
                             /\ received'[u] \in 1..ticks
                             /\ detected[u] # 0 => received'[u] <= detected[u]
      BY <1>1 DEF FollowInv
    <2>1. CASE u = t
      <3>1. \A v \in Trades : v < t => v # t
        BY FillsAssumption DEF Positive
      <3> QED BY <1>1, <1>2, <1>8, <2>1, <3>1 DEF FollowInv
    <2>2. CASE u # t
      BY <1>1, <1>2, <1>8, <2>2 DEF FollowInv
    <2> QED BY <2>1, <2>2
  <1>14. ShapeInv'
    <2> SUFFICES ASSUME NEW i \in 1..(n + 2)
                 PROVE  /\ rows'[execs'[i].of] # "none"
                        /\ execs'[i].side = IF execs'[i].closes THEN Fills!ExitSide(execs'[i].of)
                                            ELSE Fills!EntrySide(execs'[i].of)
                        /\ execs'[i].link \in {execs'[i].of, 0}
                        /\ received'[execs'[i].of] <= execs'[i].time /\ execs'[i].time <= ticks
                        /\ ~execs'[i].closes =>
                             /\ execs'[i].link = execs'[i].of
                             /\ execs'[i].time = received'[execs'[i].of]
                        /\ \A j \in 1..(n + 2) :
                             execs'[j].of = execs'[i].of /\ execs'[i].closes /\ ~execs'[j].closes
                             => j < i
      BY <1>1, <1>5 DEF ShapeInv
    <2>1. CASE i \in 1..n
      <3>1. execs'[i] = execs[i] /\ execs[i].of \in Trades /\ execs[i].of # t
        BY <1>9, <2>1
      <3>2. \A j \in 1..(n + 2) : execs'[j].of # t => j \in 1..n /\ execs'[j] = execs[j]
        BY <1>7, <1>9
      <3>3. rows'[execs[i].of] # "none" /\ received'[execs[i].of] = received[execs[i].of]
        BY <1>2, <1>8, <2>1, <3>1 DEF ShapeInv
      <3> QED BY <1>2, <2>1, <3>1, <3>2, <3>3 DEF ShapeInv
    <2>2. CASE i \notin 1..n
      <3>1. ticks <= ticks
        BY <1>2
      <3> QED BY <1>7, <1>8, <2>2, <3>1
    <2> QED BY <2>1, <2>2
  <1>15. SizeInv'
    <2> SUFFICES ASSUME NEW u \in Trades, rows'[u] # "none"
                 PROVE  BoughtOf(execs', u) = 2 /\ SoldOf(execs', u) <= 2
      BY DEF SizeInv
    <2>1. CASE u = t
      BY <1>11, <2>1
    <2>2. CASE u # t
      BY <1>8, <1>10, <2>2 DEF FillsParts, SizeInv
    <2> QED BY <2>1, <2>2
  <1>16. DOMAIN books \subseteq 1..n
    <2>1. 1..listed \subseteq 1..n
      BY <1>2
    <2> QED BY <1>2, <2>1
  <1>17. BookedInv'
    <2> SUFFICES ASSUME NEW i \in DOMAIN books
                 PROVE  /\ books[i] = execs'[i].of
                        /\ execs'[i].closes => Entries(execs', execs'[i].of) \subseteq DOMAIN books
      BY <1>1 DEF BookedInv, BookedWell
    <2>1. i \in 1..n /\ execs'[i] = execs[i] /\ execs[i].of \in Trades /\ execs[i].of # t
      BY <1>9, <1>16
    <2> QED BY <1>10, <2>1 DEF FillsParts, BookedInv, BookedWell
  <1>18. NetInv'
    <2>1. \A u \in Trades : NetOf(execs', books, u) = NetOf(execs, books, u)
      <3> SUFFICES ASSUME NEW u \in Trades PROVE NetOf(execs', books, u) = NetOf(execs, books, u)
        OBVIOUS
      <3> QED BY <1>2, <1>5, <1>7, <1>16, NetContinues
    <2> QED BY <1>1, <2>1 DEF FillsParts, NetInv
  <1>19. ClosedInv'
    <2> SUFFICES ASSUME NEW u \in Trades, rows'[u] = "CLOSED"
                 PROVE  Fills!Own(u)' \subseteq DOMAIN books /\ SoldOf(execs', u) = 2
      BY <1>1 DEF ClosedInv
    <2>1. u # t /\ rows[u] = "CLOSED"
      BY <1>8
    <2>2. Fills!Own(u)' = Fills!Own(u)
      <3>1. DOMAIN execs = 1..n /\ DOMAIN execs' = 1..(n + 2)
            /\ \A i \in 1..(n + 2) : i \notin 1..n => execs'[i].of # u
        BY <1>2, <1>5, <1>7, <2>1, Executions
      <3>2. \A i \in 1..n : i \in 1..(n + 2) /\ execs'[i] = execs[i]
        BY <1>2, <1>5
      <3> QED BY <3>1, <3>2 DEF Fills!Own
    <2> QED BY <1>10, <2>1, <2>2 DEF FillsParts, ClosedInv
  <1> QED BY <1>12, <1>13, <1>14, <1>15, <1>17, <1>18, <1>19 DEF FillsParts

\* A pass books what the listing shows, and closes the trade that is complete with it.
LEMMA BookKeeps ==
  ASSUME FillsParts, NEW t \in Trades, rows[t] \notin {"none", "CLOSED"},
         (books' = books /\ net' = net) \/ Fills!Book(t, Fills!Synced(t)),
         \/ rows' = rows
         \/ rows' = [rows EXCEPT ![t] = IF Fills!Complete(t, books') THEN "CLOSED" ELSE @],
         misses' \in Nat, UNCHANGED <<ticks, received, detected, execs, listed>>
  PROVE  FillsParts'
  <1>1. /\ execs \in Seq(FillRecords) /\ ShapeInv /\ FollowInv /\ FillsTypes
        /\ listed \in 0..Len(execs) /\ DOMAIN books \subseteq 1..listed /\ Len(execs) \in Nat
        /\ BookedWell(books)
    BY Executions DEF FillsParts, FillsTypes, BookedInv
  <1>2. /\ DOMAIN books' \subseteq 1..listed /\ DOMAIN books \subseteq DOMAIN books'
        /\ BookedWell(books')
        /\ \A u \in Trades : u # t =>
             /\ EntriesIn(execs, books', u) = EntriesIn(execs, books, u)
             /\ ExitsIn(execs, books', u) = ExitsIn(execs, books, u)
    <2>1. CASE books' = books
      BY <1>1, <2>1
    <2>2. CASE books' = Fills!Synced(t)
      BY <2>2, SyncedWell
    <2> QED BY <2>1, <2>2 DEF Fills!Book
  <1>3. DOMAIN books' \subseteq 1..Len(execs)
    <2>1. 1..listed \subseteq 1..Len(execs)
      BY <1>1
    <2> QED BY <1>2, <2>1
  <1>4. /\ rows' \in [Trades -> RowStates]
        /\ \A u \in Trades : u # t => rows'[u] = rows[u]
        /\ rows'[t] # "none"
        /\ rows'[t] = "CLOSED" => Fills!Complete(t, books')
    BY <1>1 DEF FillsTypes, RowStates
  <1>5. ASSUME NEW u \in Trades
        PROVE  net'[u] = NetOf(execs, books', u) /\ NetOf(execs, books', u) \in Int
    <2>1. NetOf(execs, books', u) \in Int
      <3> DEFINE v == ValueOf(execs)
                 q == QtyOf(execs)
                 f == FeeOf(execs)
                 E == EntriesIn(execs, books', u)
                 X == ExitsIn(execs, books', u)
      <3>1. \A i \in 1..Len(execs) : q[i] \in Nat /\ v[i] \in Int /\ f[i] \in Int
        BY <1>1, NumbersOf
      <3> HIDE DEF v, q, f, E, X
      <3>2. SumOver(Len(execs), E, q) \in Nat /\ SumOver(Len(execs), X, q) \in Nat
        BY <1>1, <3>1, SumOverIsNoLess
      <3>3. /\ SumOver(Len(execs), E, v) \in Int /\ SumOver(Len(execs), X, v) \in Int
            /\ SumOver(Len(execs), E \cup X, f) \in Int
        BY <1>1, <3>1, SumOverIsInt
      <3>4. ASSUME NEW entry \in Nat, NEW exit \in Nat, NEW cost \in Int, entry # 0
            PROVE  (cost * exit * 2) \div entry \in Int
        <4>1. cost * exit \in Int
          BY <3>4
        <4>2. (cost * exit) * 2 \in Int
          BY <4>1
        <4> QED BY <3>4, <4>2
      <3> QED BY <3>2, <3>3, <3>4 DEF NetOf, v, q, f, E, X
    <2>2. CASE books' = books /\ net' = net
      BY <2>1, <2>2 DEF FillsParts, NetInv
    <2>3. CASE Fills!Book(t, Fills!Synced(t))
      <3>1. books' = Fills!Synced(t) /\ net' = [net EXCEPT ![t] = Fills!NetPnl(t, books')]
        BY <2>3 DEF Fills!Book
      <3>2. CASE u = t
        <4>1. net'[t] = Fills!NetPnl(t, books')
          BY <1>1, <3>1 DEF FillsTypes
        <4> QED BY <1>1, <2>1, <3>2, <4>1, NetIsNetOf
      <3>3. CASE u # t
        <4>1. net'[u] = net[u]
          BY <1>1, <3>1, <3>3 DEF FillsTypes
        <4>2. NetOf(execs, books', u) = NetOf(execs, books, u)
          BY <1>2, <3>3 DEF NetOf
        <4> QED BY <2>1, <4>1, <4>2 DEF FillsParts, NetInv
      <3> QED BY <3>2, <3>3
    <2> QED BY <2>2, <2>3
  <1>6. FillsTypes'
    <2>1. net' \in [Trades -> Int]
      <3>1. net' = net \/ net' = [net EXCEPT ![t] = Fills!NetPnl(t, Fills!Synced(t))]
        BY DEF Fills!Book
      <3>2. net \in [Trades -> Int]
        BY <1>1 DEF FillsTypes
      <3>3. net' = [net EXCEPT ![t] = net'[t]]
        BY <3>1, <3>2
      <3>4. net'[t] \in Int
        BY <1>5
      <3> QED BY <3>2, <3>3, <3>4
    <2> QED BY <1>1, <1>2, <1>4, <2>1 DEF FillsTypes
  <1>7. FollowInv'
    BY <1>1, <1>4 DEF FollowInv
  <1>8. ShapeInv'
    <2>1. \A u \in Trades : rows[u] # "none" => rows'[u] # "none"
      BY <1>4
    <2>2. \A i \in 1..Len(execs) : execs[i].of \in Trades
      BY <1>1, Executions
    <2>3. \A i \in 1..Len(execs) : rows'[execs[i].of] # "none"
      BY <1>1, <2>1, <2>2 DEF ShapeInv
    <2> QED BY <1>1, <2>3 DEF ShapeInv
  <1>9. SizeInv' /\ BookedInv' /\ NetInv'
    <2>1. SizeInv'
      BY <1>4 DEF FillsParts, SizeInv
    <2>2. BookedInv'
      BY <1>2 DEF BookedInv, BookedWell
    <2>3. NetInv'
      BY <1>5 DEF NetInv
    <2> QED BY <2>1, <2>2, <2>3
  <1>10. ClosedInv'
    <2> SUFFICES ASSUME NEW u \in Trades, rows'[u] = "CLOSED"
                 PROVE  Fills!Own(u) \subseteq DOMAIN books' /\ SoldOf(execs, u) = 2
      BY DEF ClosedInv, Fills!Own
    <2>1. CASE u = t
      <3>1. Fills!Complete(t, books')
        BY <1>4, <2>1
      <3>2. BoughtOf(execs, t) = 2 /\ SoldOf(execs, t) <= 2
        BY DEF FillsParts, SizeInv
      <3> QED BY <1>1, <1>2, <1>3, <2>1, <3>1, <3>2, CompleteIsAll
    <2>2. CASE u # t
      BY <1>2, <1>4, <2>2 DEF FillsParts, ClosedInv
    <2> QED BY <2>1, <2>2
  <1> QED BY <1>6, <1>7, <1>8, <1>9, <1>10 DEF FillsParts

\* Each operation of the fills keeps it.
LEMMA FillsPartsKept == FillsParts /\ Fills!Next => FillsParts'
  <1>1. ASSUME FillsParts, Fills!Tick \/ Fills!List PROVE FillsParts'
    BY <1>1, TimeKeeps
  <1>2. ASSUME FillsParts, NEW t \in Trades
        PROVE  /\ misses \in Nat /\ misses + 1 \in Nat /\ Fills!Held(t) \in Int
               /\ (Fills!Held(t) > 0 => Fills!Held(t) # 0)
               /\ (Fills!Held(t) # 0 /\ rows[t] # "none" => Fills!Held(t) \in 1..Fills!Held(t))
    <2>1. execs \in Seq(FillRecords) /\ ShapeInv /\ misses \in Nat
      BY <1>2 DEF FillsParts, FillsTypes
    <2>2. Fills!Held(t) = BoughtOf(execs, t) - SoldOf(execs, t)
          /\ BoughtOf(execs, t) \in Nat /\ SoldOf(execs, t) \in Nat
      BY <2>1, HeldIsDifference
    <2>3. rows[t] # "none" => Fills!Held(t) >= 0
      BY <1>2, <2>2 DEF FillsParts, SizeInv
    <2> QED BY <2>1, <2>2, <2>3
  <1>3. ASSUME FillsParts, NEW t \in Trades, Fills!Open(t) PROVE FillsParts'
    BY <1>3, OpenKeeps
  <1>4. ASSUME FillsParts, NEW t \in Trades, Fills!Exit(t) PROVE FillsParts'
    <2>1. /\ UNCHANGED <<ticks, rows, received, detected, books, net, listed, misses>>
          /\ \E qty \in 1..Fills!Held(t), p \in Prices, link \in {t, 0} :
               execs' = Append(execs, Fills!Execution(t, Fills!ExitSide(t), qty, p, link, TRUE))
      BY <1>4 DEF Fills!Exit, Fills!NoTrade
    <2>2. "ACTIVE" \in RowStates \ {"none", "CLOSED"}
      BY DEF RowStates
    <2> QED BY <1>4, <2>1, <2>2, SaleKeeps
  <1>5. ASSUME FillsParts, NEW t \in Trades, Fills!SyncActive(t) PROVE FillsParts'
    <2>1. /\ rows[t] = "ACTIVE" /\ Fills!Book(t, Fills!Synced(t))
          /\ UNCHANGED <<ticks, rows, received, detected, execs, listed, misses>>
      BY <1>5 DEF Fills!SyncActive
    <2> QED BY <1>2, <1>5, <2>1, BookKeeps
  <1>6. ASSUME FillsParts, NEW t \in Trades, Fills!FlatSeen(t) PROVE FillsParts'
    <2>1. /\ rows[t] = "ACTIVE" /\ rows' = [rows EXCEPT ![t] = "CLOSED_SYNCING"]
          /\ detected' = [detected EXCEPT ![t] = Fills!FirstFlat(t)]
          /\ (misses' = misses \/ misses' = misses + 1)
          /\ UNCHANGED <<ticks, received, books, net, execs, listed>>
      BY <1>6 DEF Fills!FlatSeen
    <2>2. "CLOSED_SYNCING" \in RowStates
      BY DEF RowStates
    <2> QED BY <1>2, <1>6, <2>1, <2>2, MarkKeeps
  <1>7. ASSUME FillsParts, NEW t \in Trades, Fills!Finalize(t) PROVE FillsParts'
    <2>1. /\ rows[t] = "CLOSED_SYNCING"
          /\ (books' = books /\ net' = net) \/ Fills!Book(t, Fills!Synced(t))
          /\ rows' = [rows EXCEPT ![t] = IF Fills!Complete(t, books') THEN "CLOSED" ELSE @]
          /\ (misses' = misses \/ misses' = misses + 1)
          /\ UNCHANGED <<ticks, received, detected, execs, listed>>
      BY <1>7 DEF Fills!Finalize
    <2> QED BY <1>2, <1>7, <2>1, BookKeeps
  <1>8. ASSUME FillsParts, NEW t \in Trades, Fills!Reappears(t) PROVE FillsParts'
    <2>1. /\ rows[t] = "CLOSED_SYNCING" /\ rows' = [rows EXCEPT ![t] = "RECOVERY_REQUIRED"]
          /\ UNCHANGED <<ticks, received, detected, books, net, execs, listed, misses>>
      BY <1>8 DEF Fills!Reappears
    <2>2. "RECOVERY_REQUIRED" \in RowStates
      BY DEF RowStates
    <2> QED BY <1>2, <1>8, <2>1, <2>2, MarkKeeps
  <1>9. ASSUME FillsParts, NEW t \in Trades, Fills!Failsafe(t) PROVE FillsParts'
    <2>1. /\ rows[t] = "RECOVERY_REQUIRED" /\ rows' = [rows EXCEPT ![t] = "CLOSED_SYNCING"]
          /\ UNCHANGED <<ticks, received, detected, books, net, listed, misses>>
      BY <1>9 DEF Fills!Failsafe
    <2>2. "CLOSED_SYNCING" \in RowStates
      BY DEF RowStates
    <2>3. CASE Fills!Held(t) = 0
      <3>1. execs' = execs
        BY <1>9, <2>3 DEF Fills!Failsafe
      <3> QED BY <1>2, <1>9, <2>1, <2>2, <3>1, MarkKeeps
    <2>4. CASE Fills!Held(t) # 0
      <3>1. PICK p \in Prices :
              execs' = Append(execs, Fills!Execution(t, Fills!ExitSide(t), Fills!Held(t), p, t, TRUE))
        BY <1>9, <2>4 DEF Fills!Failsafe
      <3>2. Fills!Held(t) \in 1..Fills!Held(t)
        BY <1>2, <1>9, <2>1, <2>4
      <3>3. t \in {t, 0}
        OBVIOUS
      <3> QED BY <1>9, <2>1, <2>2, <3>1, <3>2, <3>3, SaleKeeps
    <2> QED BY <2>3, <2>4
  <1> QED BY <1>1, <1>3, <1>4, <1>5, <1>6, <1>7, <1>8, <1>9 DEF Fills!Next

LEMMA FillsSteps == FillsInv /\ [NextAll]_allVars => FillsInv'
  <1>1. ASSUME FillsInv, NextAll
        PROVE  FillsInv'
    <2>1. part' = part
      BY <1>1 DEF NextAll, DeliveryStep, ProtocolStep, OrdersStep, MarginStep, FillsStep
    <2>2. CASE part = "fills"
      <3>1. Fills!Next /\ FillsParts
        BY <1>1, <2>2
        DEF NextAll, DeliveryStep, ProtocolStep, OrdersStep, MarginStep, FillsStep, FillsInv
      <3>2. FillsParts'
        BY <3>1, FillsPartsKept
      <3> QED BY <3>2 DEF FillsInv
    <2>3. CASE part # "fills"
      BY <2>1, <2>3 DEF FillsInv
    <2> QED BY <2>2, <2>3
  <1>2. ASSUME FillsInv, UNCHANGED <<part, fillsVars>>
        PROVE  FillsInv'
    BY <1>2
    DEF fillsVars, FillsInv, FillsParts, FillsTypes, FollowInv, ShapeInv, SizeInv, BookedInv,
        BookedWell, NetInv, ClosedInv, Fills!Own
  <1> QED BY <1>1, <1>2 DEF allVars

\* The inductive invariant of the fills.
THEOREM FillsHold == SpecAll => []FillsInv
  BY FillsInit, FillsSteps, PTL DEF SpecAll

\* For all trades, prices, fees, listings and faults: a closed trade has exactly its own
\* executions, and its net result is the money they moved.
THEOREM BooksAreExact == SpecAll => []BooksExact
  <1>1. ASSUME FillsInv, part = "fills" PROVE Fills!BooksExact
    <2> SUFFICES ASSUME NEW t \in Trades, rows[t] = "CLOSED"
                 PROVE  /\ {i \in DOMAIN books : books[i] = t} = Fills!Own(t)
                        /\ net[t] = Fills!Cash(t) * 2
      BY DEF Fills!BooksExact
    <2>1. /\ execs \in Seq(FillRecords) /\ ShapeInv /\ DOMAIN books \subseteq 1..listed
          /\ listed \in 0..Len(execs) /\ BookedWell(books)
          /\ BoughtOf(execs, t) = 2 /\ SoldOf(execs, t) = 2 /\ Fills!Own(t) \subseteq DOMAIN books
          /\ net[t] = NetOf(execs, books, t)
      BY <1>1 DEF FillsInv, FillsParts, FillsTypes, BookedInv, SizeInv, NetInv, ClosedInv
    <2>2. DOMAIN books \subseteq 1..Len(execs) /\ DOMAIN execs = 1..Len(execs)
      <3>1. Len(execs) \in Nat /\ DOMAIN execs = 1..Len(execs)
        BY <2>1, Executions
      <3>2. 1..listed \subseteq 1..Len(execs)
        BY <2>1, <3>1
      <3> QED BY <2>1, <3>1, <3>2
    <2>3. {i \in DOMAIN books : books[i] = t} = Fills!Own(t)
      BY <2>1, <2>2 DEF BookedWell, Fills!Own
    <2> QED BY <2>1, <2>2, <2>3, NetIsCash
  <1>2. FillsInv => BooksExact
    BY <1>1 DEF BooksExact
  <1> QED BY <1>2, FillsHold, PTL

\* A flat trade whose executions are all listed is closed by the next pass that can read
\* them, but for one that is later than the minute after it was found flat.
THEOREM ListedIsSettled == SpecAll => SettledOnceListed
  <1>1. ASSUME FillsInv, part = "fills", NEW t \in Trades,
               rows[t] = "CLOSED_SYNCING", Fills!Held(t) = 0, listed = Len(execs),
               Fills!Finalize(t), UNCHANGED misses, ~Fills!Late(t)
        PROVE  rows'[t] = "CLOSED"
    <2> DEFINE b == Fills!Synced(t)
    <2>1. FillsParts
      BY <1>1 DEF FillsInv
    <2>2. /\ execs \in Seq(FillRecords) /\ ShapeInv /\ FollowInv /\ FillsTypes
          /\ Len(execs) \in Nat /\ DOMAIN execs = 1..Len(execs) /\ misses \in Nat
          /\ rows \in [Trades -> RowStates] /\ BoughtOf(execs, t) = 2
      BY <1>1, <2>1, Executions DEF FillsParts, FillsTypes, SizeInv
    <2>3. b = books' /\ rows' = [rows EXCEPT ![t] = IF Fills!Complete(t, books') THEN "CLOSED" ELSE @]
      <3>1. misses' # misses + 1
        BY <1>1, <2>2
      <3> QED BY <1>1, <3>1 DEF Fills!Finalize, Fills!Book
    <2>4. /\ DOMAIN b \subseteq 1..Len(execs) /\ BookedWell(b)
          /\ DOMAIN b = DOMAIN books \cup Fills!Relevant(t)
      <3>1. rows[t] \notin {"none", "CLOSED"}
        BY <1>1
      <3>2. DOMAIN b \subseteq 1..listed /\ BookedWell(b)
        BY <2>1, <3>1, SyncedWell
      <3>3. DOMAIN b = DOMAIN books \cup Fills!Relevant(t)
        BY DEF Fills!Synced
      <3> QED BY <1>1, <3>2, <3>3
    <2> HIDE DEF b
    <2>5. ASSUME NEW i \in Fills!Own(t) PROVE i \in DOMAIN b
      <3>1. i \in 1..listed /\ execs[i].of = t /\ execs[i].time \in Nat /\ execs[i].time <= ticks
        BY <1>1, <2>2, Executions DEF Fills!Own, ShapeInv
      <3>2. ~ (execs[i].time > detected[t] + Grace)
        BY <1>1 DEF Fills!Late
      <3>3. detected[t] \in Nat /\ Grace \in Nat /\ ticks \in Nat
        BY <2>2, FillsAssumption DEF FillsTypes
      <3>4. execs[i].time <= Fills!ListedUntil(t)
        BY <3>1, <3>2, <3>3 DEF Fills!ListedUntil
      <3>5. i \in Fills!Relevant(t)
        BY <1>1, <2>2, <3>1, <3>4, OwnIsRelevant
      <3> QED BY <2>4, <3>5
    <2>6. EntriesIn(execs, b, t) = Entries(execs, t) /\ ExitsIn(execs, b, t) = Exits(execs, t)
      <3>1. Entries(execs, t) \subseteq Fills!Own(t) /\ Exits(execs, t) \subseteq Fills!Own(t)
        BY <2>2 DEF Entries, Exits, Fills!Own
      <3> QED BY <2>2, <2>4, <2>5, <3>1, BookedIsOwn
    <2>7. SoldOf(execs, t) = 2
      BY <1>1, <2>2, HeldIsDifference
    <2>8. Fills!Complete(t, b)
      <3>1. /\ Fills!Total(Fills!EntryFills(t, b), Fills!Qty) = BoughtOf(execs, t)
            /\ Fills!Total(Fills!ExitFills(t, b), Fills!Qty) = SoldOf(execs, t)
        BY <2>2, <2>6, TotalsAreSums
        DEF Fills!EntryFills, Fills!ExitFills, EntriesIn, ExitsIn, BoughtOf, SoldOf
      <3> QED BY <2>2, <2>7, <3>1 DEF Fills!Complete
    <2> QED BY <2>2, <2>3, <2>8
  <1>2. FillsInv => (part = "fills" => Fills!SettlesListed)
    BY <1>1 DEF Fills!SettlesListed
  <1>3. FillsInv /\ [NextAll]_allVars => [part = "fills" => Fills!SettlesListed]_allVars
    BY <1>2
  <1> QED BY <1>3, FillsInit, FillsSteps, PTL DEF SpecAll, SettledOnceListed

=============================================================================
