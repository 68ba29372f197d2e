---------------------------- MODULE ScannerParts ----------------------------
(***************************************************************************)
(* Scanner V2.6 part by part: the signals of one contract (ScannerSignals), *)
(* the choice of the contracts (MarketScan), the analysis of one of them   *)
(* (SetupAnalysis), the REST client (RestClient), the early alerts         *)
(* (HotMonitor), the health watch (SafetyWatch), and the replay of its     *)
(* setups (CandleReplay).  The parts share no state that a property is     *)
(* about: `part` never changes and names the one that runs.                *)
(***************************************************************************)
EXTENDS ScannerSignals, Sequences

CONSTANTS
  Contracts, Core, Rankings, ActiveSets, ShortSets, Total, Slots,    \* MarketScan
  Markets, ExecuteScore, PotentialScore, MinMicro, HardBlock,        \* SetupAnalysis
  Requests, Retries, MaxBlocks,                                      \* RestClient
  Coins, CancelMisses, Realert, Floor,                               \* HotMonitor
  Grace,                                                             \* SafetyWatch
  Setups, Candles, MaxCandles                                        \* CandleReplay

\* A contract is its place in the alphabet.
ASSUME MarketAssumption ==
  /\ Contracts \subseteq Nat /\ IsFiniteSet(Contracts)
  /\ ShortSets \subseteq SUBSET Contracts
  /\ Total \in Nat /\ Slots \in Nat

Positive == Nat \ {0}
Sides == {"LONG", "SHORT"}

\* What TradeSetup and Candle let through of prices (backtesting/models.py:63, 92): above zero.
ASSUME ReplayAssumption ==
  /\ Setups \subseteq [side : Sides, entry : Positive, stop : Positive, tp : [1..3 -> Positive],
                       fraction : [1..3 -> Nat], eligible : Nat]
  /\ Candles \subseteq [low : Positive, high : Positive, close : Positive]
  /\ MaxCandles \in Nat

Signs == {-1, 0, 1}
Trends == {"BULLISH", "BEARISH", "NEUTRAL"}
TimeframeViews == [cross : Signs, above : Signs, structure : Signs, rsi : Int]
ContextViews == [h1 : Trends, m15 : Trends]
MicroViews == [body : Int, position : Int, cross : Int, above : Int, rose : Int, fell : Int,
               net : Int, busy : BOOLEAN]
Bar == [o : Int, h : Int, l : Int, c : Int]
MarketViews ==
  [v4 : TimeframeViews, v1 : TimeframeViews, v15 : TimeframeViews, body15 : Signs,
   busy15 : BOOLEAN, near15 : BOOLEAN, busy5 : BOOLEAN, btc : ContextViews, eth : ContextViews,
   strength : Int, micro : MicroViews, resistance : SUBSET Int, support : SUBSET Int,
   tight : BOOLEAN, price : Int, cur : Bar, prev : Int, top : Int, bottom : Int, high : Int,
   low : Int, fast : Int, slow : Int, low10 : Int, high10 : Int]

ASSUME AlertAssumption == Realert \in Nat /\ Floor \in Nat

ASSUME AnalysisAssumption ==
  /\ Markets \subseteq MarketViews
  /\ ExecuteScore \in Int /\ PotentialScore \in Int /\ MinMicro \in Int /\ HardBlock \in BOOLEAN

VARIABLES
  part,
  last, trading, short, waited,
  market, analysis,
  at, attempt, pacing, blocked, slipped, blocks,
  hotlist, signalled, states, remembered, todo, alerting, alerted,
  anyActive, good, since, announced, shown,
  setup, seen, run

scanVars == <<last, trading, short, waited>>
analysisVars == <<market, analysis>>
restVars == <<at, attempt, pacing, blocked, slipped, blocks>>
hotVars == <<hotlist, signalled, states, remembered, todo, alerting, alerted>>
safetyVars == <<anyActive, good, since, announced, shown>>
replayVars == <<setup, seen, run>>
allVars == <<part, scanVars, analysisVars, restVars, hotVars, safetyVars, replayVars, vars>>

Scan == INSTANCE MarketScan WITH active <- trading
Analysis == INSTANCE SetupAnalysis
Rest == INSTANCE RestClient
Hot == INSTANCE HotMonitor WITH active <- signalled, memory <- remembered
Safety == INSTANCE SafetyWatch
Replay == INSTANCE CandleReplay

Unused == "unused"
NoScan == last = Unused /\ trading = Unused /\ short = Unused /\ waited = Unused
NoAnalysis == market = Unused /\ analysis = Unused
NoRest ==
  /\ at = Unused /\ attempt = Unused /\ pacing = Unused /\ blocked = Unused
  /\ slipped = Unused /\ blocks = Unused
NoHot ==
  /\ hotlist = Unused /\ signalled = Unused /\ states = Unused /\ remembered = Unused
  /\ todo = Unused /\ alerting = Unused /\ alerted = Unused
NoSafety ==
  /\ anyActive = Unused /\ good = Unused /\ since = Unused /\ announced = Unused
  /\ shown = Unused
NoReplay == setup = Unused /\ seen = Unused /\ run = Unused

\* The signals' own variables while another part runs.
AtRest == Init /\ crew = CHOOSE c \in Crews : TRUE

InitAll ==
  \/ /\ part = "signals" /\ Init
     /\ NoScan /\ NoAnalysis /\ NoRest /\ NoHot /\ NoSafety /\ NoReplay
  \/ /\ AtRest
     /\ \/ part = "scan" /\ Scan!Init /\ NoAnalysis /\ NoRest /\ NoHot /\ NoSafety /\ NoReplay
        \/ part = "analysis" /\ Analysis!Init /\ NoScan /\ NoRest /\ NoHot /\ NoSafety /\ NoReplay
        \/ part = "rest" /\ Rest!Init /\ NoScan /\ NoAnalysis /\ NoHot /\ NoSafety /\ NoReplay
        \/ part = "hot" /\ Hot!Init /\ NoScan /\ NoAnalysis /\ NoRest /\ NoSafety /\ NoReplay
        \/ part = "safety" /\ Safety!Init /\ NoScan /\ NoAnalysis /\ NoRest /\ NoHot /\ NoReplay
        \/ part = "replay" /\ Replay!Init /\ NoScan /\ NoAnalysis /\ NoRest /\ NoHot /\ NoSafety

SignalsStep ==
  /\ part = "signals" /\ Next
  /\ UNCHANGED <<part, scanVars, analysisVars, restVars, hotVars, safetyVars, replayVars>>
ScanStep ==
  /\ part = "scan" /\ Scan!Next
  /\ UNCHANGED <<part, analysisVars, restVars, hotVars, safetyVars, replayVars, vars>>
AnalysisStep ==
  /\ part = "analysis" /\ Analysis!Next
  /\ UNCHANGED <<part, scanVars, restVars, hotVars, safetyVars, replayVars, vars>>
RestStep ==
  /\ part = "rest" /\ Rest!Next
  /\ UNCHANGED <<part, scanVars, analysisVars, hotVars, safetyVars, replayVars, vars>>
HotStep ==
  /\ part = "hot" /\ Hot!Next
  /\ UNCHANGED <<part, scanVars, analysisVars, restVars, safetyVars, replayVars, vars>>
SafetyRound ==
  /\ part = "safety" /\ Safety!Round
  /\ UNCHANGED <<part, scanVars, analysisVars, restVars, hotVars, replayVars, vars>>
SafetyStep ==
  /\ part = "safety" /\ Safety!Next
  /\ UNCHANGED <<part, scanVars, analysisVars, restVars, hotVars, replayVars, vars>>
ReplayStep ==
  /\ part = "replay" /\ Replay!Next
  /\ UNCHANGED <<part, scanVars, analysisVars, restVars, hotVars, safetyVars, vars>>

NextAll ==
  SignalsStep \/ ScanStep \/ AnalysisStep \/ RestStep \/ HotStep \/ SafetyStep \/ ReplayStep

\* The fairness of the parts whose properties need it (ScannerSignals, SafetyWatch).
SpecAll ==
  /\ InitAll /\ [][NextAll]_allVars
  /\ Fairness
  /\ WF_safetyVars(SafetyRound)

-----------------------------------------------------------------------------
(* The properties of the parts. *)

\* Every other contract is analysed within one round of the rotation lane (MarketScan).
WaitBounded == part = "scan" => Scan!WaitBounded

\* No call goes out twice in one cooldown after HTTP 403 (RestClient).
SlipsOnce == part = "rest" => Rest!SlipsOnce

\* One side of a contract is alerted once in early_realert_sec, and is not shown as POTENTIAL
\* without an alert (HotMonitor).
AlertsSpaced == [][part = "hot" => Hot!SpacedStep]_allVars

\* The default policy of a replay is the conservative one (CandleReplay).
AdverseIsNoBetter == part = "replay" => Replay!AdverseIsNoBetter

\* A replay keeps to the prices it saw and to the risk, and a first target saves it from
\* a loss (CandleReplay).
ResultWithinExcursions == part = "replay" => Replay!ResultWithinExcursions

\* Turned upside down, a market gets the same analysis for the other side (SetupAnalysis).
MirroredAnalysis == part = "analysis" => Analysis!MirroredAnalysis

\* A freeze of the management that lasts is announced, and withdrawn once it has ended
\* for good (SafetyWatch).
AnnouncementFollows ==
  /\ <>[](part = "safety" /\ Safety!Stale) => <>[](part = "safety" /\ announced)
  /\ <>[](part = "safety" /\ ~Safety!Stale) => <>[](part = "safety" /\ ~announced)
=============================================================================
