---------------------------- MODULE SetupAnalysis ----------------------------
(***************************************************************************)
(* The signal core of Scanner V2.6: analyze, its 5m triggers, 1m           *)
(* confirmations and rejection wick (strategy.py:209-422).  Every rule is  *)
(* written twice there, once for a LONG and once for a SHORT, and so it is *)
(* here.  Prices are offsets from the last price, in hundredths of the 5m  *)
(* ATR; scores count halves of a point.                                    *)
(***************************************************************************)
EXTENDS Integers

CONSTANTS
  Markets,                        \* what candles, ticker and context come to
  ExecuteScore, PotentialScore,   \* cfg, in points
  MinMicro,                       \* cfg.min_micro_confirmations
  HardBlock                       \* cfg.context_hard_block

VARIABLES market, analysis
vars == <<market, analysis>>

None == [side |-> "NONE"]
Lesser(a, b) == IF a < b THEN a ELSE b
Greater(a, b) == IF a > b THEN a ELSE b
Abs(n) == IF n < 0 THEN -n ELSE n
One(b) == IF b THEN 1 ELSE 0

\* What is read of a timeframe: on which side the fast mean is of the slow one (cross), and
\* the close of the fast one (above), the structure, the RSI; signs are -1, 0 or 1.
Trend(v) == CASE v.cross = 1 /\ v.above = 1 -> "BULLISH"
              [] v.cross = -1 /\ v.above = -1 -> "BEARISH"
              [] OTHER -> "NEUTRAL"
ContextDirection(c) ==
  CASE c.h1 = "BULLISH" /\ c.m15 # "BEARISH" -> "BULLISH"
    [] c.h1 = "BEARISH" /\ c.m15 # "BULLISH" -> "BEARISH"
    [] OTHER -> "NEUTRAL"

-----------------------------------------------------------------------------
(* The last bars. *)

\* close_position and body_ratio, in percent of the candle's range.
Range(c) == Greater(c.h - c.l, 1)
ClosesAbove(c, percent) == (c.c - c.l) * 100 >= percent * Range(c)
ClosesBelow(c, percent) == (c.c - c.l) * 100 <= percent * Range(c)
BodyAtLeast(c, percent) == Abs(c.c - c.o) * 100 >= percent * Range(c)

\* A part of the price, in units of 1/100000: Part(m, 35) is 0.035%.
Part(m, n) == (m.price * n) \div 100000

\* The 5m bars: the last (cur), the close before it (prev), the extremes of the 24 bars
\* before those (top, bottom), of the last seven (high, low); the means (fast, slow).
TriggersLong(m) ==
  LET cur == m.cur
      anchor == Greater(m.fast, m.slow)
  IN {k \in {"RETEST", "SWEEP", "RECLAIM", "REACTION"} :
        \/ /\ k = "RETEST" /\ m.prev > m.top + Part(m, 35)
           /\ cur.l <= m.top + Part(m, 200) /\ cur.c > m.top /\ ClosesAbove(cur, 58)
        \/ /\ k = "SWEEP" /\ cur.l < m.low - Part(m, 50) /\ cur.c > m.low
           /\ cur.c > cur.o /\ ClosesAbove(cur, 68) /\ BodyAtLeast(cur, 30)
        \/ /\ k = "RECLAIM" /\ m.prev < anchor /\ cur.c > anchor
           /\ cur.c > cur.o /\ ClosesAbove(cur, 65)
        \/ /\ k = "REACTION" /\ cur.l <= anchor + Part(m, 180)
           /\ cur.c > cur.o /\ ClosesAbove(cur, 66) /\ BodyAtLeast(cur, 38)}
TriggersShort(m) ==
  LET cur == m.cur
      anchor == Lesser(m.fast, m.slow)
  IN {k \in {"RETEST", "SWEEP", "RECLAIM", "REACTION"} :
        \/ /\ k = "RETEST" /\ m.prev < m.bottom - Part(m, 35)
           /\ cur.h >= m.bottom - Part(m, 200) /\ cur.c < m.bottom /\ ClosesBelow(cur, 42)
        \/ /\ k = "SWEEP" /\ cur.h > m.high + Part(m, 50) /\ cur.c < m.high
           /\ cur.c < cur.o /\ ClosesBelow(cur, 32) /\ BodyAtLeast(cur, 30)
        \/ /\ k = "RECLAIM" /\ m.prev > anchor /\ cur.c < anchor
           /\ cur.c < cur.o /\ ClosesBelow(cur, 35)
        \/ /\ k = "REACTION" /\ cur.h >= anchor - Part(m, 180)
           /\ cur.c < cur.o /\ ClosesBelow(cur, 34) /\ BodyAtLeast(cur, 38)}

\* The 1m bars: the last one's body (sign) and its close's position in percent, the two
\* means, how many of the last three rose and fell, where they went together, the volume.
MicroConfirmations(u, side) ==
  IF side = "LONG"
  THEN One(u.body > 0 /\ u.position >= 58) + One(u.cross > 0 /\ u.above > 0)
       + One(u.rose >= 2 /\ u.net > 0) + One(u.busy /\ u.body > 0)
  ELSE One(u.body < 0 /\ u.position <= 42) + One(u.cross < 0 /\ u.above < 0)
       + One(u.fell >= 2 /\ u.net < 0) + One(u.busy /\ u.body < 0)

\* The wick is more than 1.8 of a body that counts at least 8% of the range.
OppositeRejection(c, side) ==
  LET body == Greater(Abs(c.c - c.o) * 100, Range(c) * 8)
      upper == c.h - Greater(c.o, c.c)
      lower == Lesser(c.o, c.c) - c.l
  IN IF side = "LONG" THEN upper * 1000 > 18 * body /\ ~ClosesAbove(c, 72)
     ELSE lower * 1000 > 18 * body /\ ~ClosesBelow(c, 28)

-----------------------------------------------------------------------------
(* The score of each side, in halves of a point. *)

Either(c, d, n) == IF c THEN <<2 * n, 0>> ELSE IF d THEN <<0, 2 * n>> ELSE <<0, 0>>
Sign(s, n) == Either(s > 0, s < 0, n)
Both(a, b) == <<a[1] + b[1], a[2] + b[2]>>

\* 4h
RegimePoints(v) ==
  Both(Both(Sign(v.cross, 6), Sign(v.structure, 5)),
       Either(v.above > 0 /\ v.rsi >= 50, v.above < 0 /\ v.rsi <= 50, 4))
\* 1h
BiasPoints(v) ==
  Both(Both(Sign(v.cross, 10), Sign(v.structure, 8)),
       Both(Sign(v.above, 4), Either(52 <= v.rsi /\ v.rsi <= 70, 30 <= v.rsi /\ v.rsi <= 48, 3)))
\* 15m
SetupPoints(v, busy, body, near) ==
  Both(Both(Sign(v.cross, 7), Sign(v.structure, 5)),
       Both(Either(v.above > 0 /\ v.rsi >= 50, v.above < 0 /\ v.rsi <= 50, 4),
            Both(Either(busy /\ body >= 0, busy, 2),
                 Either(near /\ Trend(v) = "BULLISH", near /\ Trend(v) = "BEARISH", 2))))
\* 5m
TriggerPoints(m) ==
  Both(Both(Either(TriggersLong(m) # {}, FALSE, 20), Either(FALSE, TriggersShort(m) # {}, 20)),
       Either(m.busy5 /\ m.cur.c > m.cur.o, m.busy5 /\ m.cur.c < m.cur.o, 5))
\* BTC and ETH
ContextPoints(c, n) ==
  Either(ContextDirection(c) = "BULLISH", ContextDirection(c) = "BEARISH", n)

Points(m) ==
  Both(Both(RegimePoints(m.v4), BiasPoints(m.v1)),
  Both(Both(SetupPoints(m.v15, m.busy15, m.body15, m.near15), TriggerPoints(m)),
       Both(Both(ContextPoints(m.btc, 2), ContextPoints(m.eth, 1)), Sign(m.strength, 2))))

-----------------------------------------------------------------------------
(* The gates, for the side with more points. *)

\* A stop behind the swing of the last ten bars, and at least 1.05 ATR away.
SwingStop(m, side) ==
  IF side = "LONG" THEN Lesser(-105, m.low10 - 12) ELSE Greater(105, m.high10 + 12)

LeastOf(S) == CHOOSE x \in S : \A y \in S : x <= y
GreatestOf(S) == CHOOSE x \in S : \A y \in S : x >= y

\* The nearest obstacle on the way, of those at 15m and 1h; 0: none is known.
Obstacle(m, side) ==
  LET above == {x \in m.resistance : x > 0}
      below == {x \in m.support : x < 0}
  IN IF side = "LONG" THEN IF above # {} THEN LeastOf(above) ELSE 0
     ELSE IF below # {} THEN GreatestOf(below) ELSE 0

OpposesLongOnly(trend, side) == side = "LONG" /\ trend = "BEARISH"   \* mutant: half of it
Opposes(trend, side) ==
  (side = "LONG" /\ trend = "BEARISH") \/ (side = "SHORT" /\ trend = "BULLISH")
ContextOpposes(m, side) ==
  Opposes(ContextDirection(m.btc), side) /\ Opposes(ContextDirection(m.eth), side)
RegimeOpposes(m, side) == Opposes(Trend(m.v4), side)

SetupOpposes(m, side) == Opposes(Trend(m.v15), side)
BiasOk(m, side) ==
  (side = "LONG" /\ Trend(m.v1) = "BULLISH") \/ (side = "SHORT" /\ Trend(m.v1) = "BEARISH")
Volatile(m) == 6 * m.price <= 1000000 /\ 1000000 <= 250 * m.price
TooLate(m) == Abs(m.fast) > 130 \/ m.cur.h - m.cur.l > 230
Rejected(m, side) == OppositeRejection(m.cur, side)

Risk(m, side) == IF side = "LONG" THEN -SwingStop(m, side) ELSE SwingStop(m, side)
StopOk(m, side) ==
  /\ 65 <= Risk(m, side) /\ Risk(m, side) <= 200
  /\ 15 * m.price <= Risk(m, side) * 10000 /\ Risk(m, side) * 100 <= 4 * m.price
RoomOk(m, side) ==
  LET obstacle == Abs(Obstacle(m, side))
  IN obstacle = 0 \/ obstacle * 920 >= 1800 * Risk(m, side)

Triggers(m, side) == IF side = "LONG" THEN TriggersLong(m) ELSE TriggersShort(m)
Confirmations(m, side) == MicroConfirmations(m.micro, side)

Penalty(m, side) ==
  2 * (10 * One(~BiasOk(m, side)) + 10 * One(RegimeOpposes(m, side))
       + 8 * One(SetupOpposes(m, side)) + 6 * One(ContextOpposes(m, side))
       + 8 * One(~m.tight) + 8 * One(~Volatile(m)) + 12 * One(TooLate(m))
       + 10 * One(Rejected(m, side)) + 12 * One(~StopOk(m, side)) + 12 * One(~RoomOk(m, side)))
Score(m, side, points) ==
  Greater(0, Lesser(200, (IF side = "LONG" THEN points[1] ELSE points[2])
                         + Lesser(20, Confirmations(m, side) * 5) - Penalty(m, side)))

\* Gates no score makes up for.
Executes(m, side, score) ==
  /\ score >= 2 * ExecuteScore /\ Triggers(m, side) # {} /\ BiasOk(m, side)
  /\ ~RegimeOpposes(m, side) /\ ~SetupOpposes(m, side)
  /\ Confirmations(m, side) >= MinMicro /\ ~TooLate(m)
  /\ m.tight /\ Volatile(m) /\ ~Rejected(m, side) /\ StopOk(m, side) /\ RoomOk(m, side)
  /\ ~(HardBlock /\ ContextOpposes(m, side))
Status(m, side, score) ==
  IF Executes(m, side, score) THEN "EXECUTE"
  ELSE IF score >= 2 * PotentialScore THEN "POTENTIAL" ELSE "WAIT"

\* The multiples of the risk that the targets are, above the price or below it.
Targets(side, risk) == [n \in 1..3 |-> IF side = "LONG" THEN n * risk ELSE -(n * risk)]

Assess(m, side, score) ==
  [side |-> side, status |-> Status(m, side, score), score |-> score,
   triggers |-> Triggers(m, side), micro |-> Confirmations(m, side), fresh |-> ~TooLate(m),
   sl |-> SwingStop(m, side), tp |-> Targets(side, Risk(m, side))]

Preferred(points) == IF points[1] >= points[2] THEN "LONG" ELSE "SHORT"
AssessFor(m, side, points) == Assess(m, side, Score(m, side, points))
Analyse(m) == AssessFor(m, Preferred(Points(m)), Points(m))

Init == market \in Markets /\ analysis = None
Analyze == analysis = None /\ analysis' = Analyse(market) /\ UNCHANGED market
Next == Analyze

-----------------------------------------------------------------------------
(* Property *)

MirrorTrend(t) == CASE t = "BULLISH" -> "BEARISH" [] t = "BEARISH" -> "BULLISH" [] OTHER -> t
MirrorView(v) == [cross |-> -v.cross, above |-> -v.above, structure |-> -v.structure, rsi |-> 100 - v.rsi]
MirrorContext(c) == [h1 |-> MirrorTrend(c.h1), m15 |-> MirrorTrend(c.m15)]
MirrorBar(b) == [o |-> -b.o, h |-> -b.l, l |-> -b.h, c |-> -b.c]
MirrorMicro(u) ==
  [u EXCEPT !.body = -@, !.position = 100 - @, !.cross = -@, !.above = -@,
            !.rose = u.fell, !.fell = u.rose, !.net = -@]
MirrorViews(m) ==
  [m EXCEPT !.v4 = MirrorView(@), !.v1 = MirrorView(@), !.v15 = MirrorView(@), !.body15 = -@,
            !.btc = MirrorContext(@), !.eth = MirrorContext(@), !.strength = -@]
MirrorBars(m) ==
  [m EXCEPT !.cur = MirrorBar(@), !.prev = -@, !.top = -m.bottom, !.bottom = -m.top,
            !.high = -m.low, !.low = -m.high, !.micro = MirrorMicro(@)]
MirrorLevels(m) ==
  [m EXCEPT !.fast = -@, !.slow = -@, !.high10 = -m.low10, !.low10 = -m.high10,
            !.resistance = {-x : x \in m.support}, !.support = {-x : x \in m.resistance}]
Mirror(m) == MirrorLevels(MirrorBars(MirrorViews(m)))

MirrorAnalysis(a) ==
  [side |-> IF a.side = "LONG" THEN "SHORT" ELSE "LONG", status |-> a.status, score |-> a.score,
   triggers |-> a.triggers, micro |-> a.micro, fresh |-> a.fresh,
   sl |-> -a.sl, tp |-> [n \in 1..3 |-> -a.tp[n]]]

\* The two halves of the code agree: turned upside down, a market gets the same score and
\* status for the other side, and its stop and targets upside down, unless both sides have
\* the same points (a LONG then), the 15m bar closed where it opened (bullish then) or the
\* 5m bar has no range: close_position says then that it closed at its low, which confirms
\* a SHORT after a breakdown and no LONG after a breakout (indicators.py:50).
Flat(c) == c.h <= c.l
MirroredAnalysis ==
  /\ analysis # None
  /\ Points(market)[1] # Points(market)[2] /\ ~(market.busy15 /\ market.body15 = 0)
  /\ ~Flat(market.cur)
  => Analyse(Mirror(market)) = MirrorAnalysis(analysis)
=============================================================================
