----------------------------- MODULE MCScanner -----------------------------
(* The TLC instance of ScannerParts. *)
EXTENDS ScannerParts

SixContracts == 1..6
LastOne == <<6>>
SomeRankings == {<<1, 2, 3, 4, 5, 6>>, <<6, 5, 4, 3, 2, 1>>, <<3, 4, 6, 5, 1, 2>>}
SomeActive == {{}, {1}, {2, 5}}
SomeShort == {{}, {1}, {4}}

\* Setups of either side, those with targets on the wrong side are not let through.
SomeSetups ==
  {[side |-> d, entry |-> 4, stop |-> p, tp |-> tp, fraction |-> f, eligible |-> e] :
     d \in Sides, p \in {2, 6}, tp \in {<<5, 6, 7>>, <<3, 2, 1>>},
     f \in {<<1, 1, 1>>, <<1, 2, 3>>}, e \in {1, 2}}
Prices == 1..7
AllCandles == [low : Prices, high : Prices, close : Prices]

\* Markets as an analysis sees them: the views of the timeframes with the context, and the
\* 5m bars with all their triggers, each with something of the other.
View(x, a, s, r) == [cross |-> x, above |-> a, structure |-> s, rsi |-> r]
Views == {View(1, 1, 1, 60), View(1, -1, 0, 49), View(0, 1, -1, 50), View(-1, -1, -1, 40)}
Backdrop(h, m) == [h1 |-> h, m15 |-> m]
High(a, b) == IF a > b THEN a ELSE b
Low(a, b) == IF a < b THEN a ELSE b
Bars ==
  {[cur |-> [o |-> o, c |-> c, h |-> High(o, c) + up, l |-> Low(o, c) - down],
    prev |-> p, top |-> b[1], bottom |-> b[2], high |-> b[1] - 10, low |-> b[2] + 10,
    fast |-> f[1], slow |-> f[2],
    low10 |-> Low(b[2] + 10, Low(o, c) - down) - deep,
    high10 |-> High(b[1] - 10, High(o, c) + up) + deep] :
      o \in {-40, 0, 40}, c \in {-40, 0, 40}, up \in {5, 30, 60}, down \in {5, 30, 60},
      p \in {-20, 90}, b \in {<<-30, -120>>, <<60, -60>>, <<120, 30>>},
      f \in {<<-20, -40>>, <<150, 100>>}, deep \in {0, 100}}
\* Bars without a range.
FlatBars ==
  {[b EXCEPT !.cur = [o |-> 0, c |-> 0, h |-> 0, l |-> 0]] :
     b \in {x \in Bars : x.cur.o = 0 /\ x.cur.c = 0 /\ x.cur.h = 5 /\ x.cur.l = -5}}
FewBars ==
  {b \in Bars : /\ b.cur.o = -b.cur.c /\ b.cur.c # 0 /\ b.cur.h - b.cur.l = 90 /\ b.prev = -20
                /\ b.fast # 150 /\ b.top = 60 /\ b.low10 > -150}
Micro(s, position, mean, rose, fell, busy) ==
  [body |-> s, position |-> position, cross |-> mean, above |-> s, rose |-> rose, fell |-> fell,
   net |-> s, busy |-> busy]
Micros == {Micro(1, 60, 1, 2, 1, TRUE), Micro(-1, 42, 1, 1, 2, FALSE), Micro(0, 50, 0, 1, 1, TRUE)}
MarketOf(v4, v1, v15, body, btc, eth, strength, b, u, resistance, support, tight, price) ==
  [v4 |-> v4, v1 |-> v1, v15 |-> v15, body15 |-> body, busy15 |-> body # -1,
   near15 |-> body # -1, busy5 |-> body # -1, btc |-> btc, eth |-> eth, strength |-> strength,
   micro |-> u, resistance |-> resistance, support |-> support, tight |-> tight, price |-> price,
   cur |-> b.cur, prev |-> b.prev, top |-> b.top, bottom |-> b.bottom, high |-> b.high,
   low |-> b.low, fast |-> b.fast, slow |-> b.slow, low10 |-> b.low10, high10 |-> b.high10]
Up == View(1, 1, 1, 60)
Down == View(-1, -1, -1, 40)
Calm == Backdrop("NEUTRAL", "NEUTRAL")
Falling == Backdrop("BEARISH", "NEUTRAL")
\* What Bitcoin and Ether do; and the room and the price, too low once for the volatility.
Leaders ==
  {<<Backdrop("BULLISH", "NEUTRAL"), Calm>>, <<Backdrop("BULLISH", "BEARISH"), Falling>>,
   <<Backdrop("BEARISH", "BEARISH"), Calm>>, <<Backdrop("BEARISH", "BEARISH"), Falling>>}
Rooms == {<<{}, 20000>>, <<{150, 250}, 20000>>, <<{150, 250}, 3000>>}
SomeMarkets ==
  {MarketOf(v4, v1, v15, body, l[1], l[2], 1, b, u, {}, {}, TRUE, 20000) :
     v4 \in Views, v1 \in Views, v15 \in Views, body \in {-1, 0, 1}, l \in Leaders,
     b \in FewBars, u \in Micros}
  \cup {MarketOf(v, v, v, 1, Calm, Calm, 0, b, u, r[1], {-90, -300}, r[2] = 20000, r[2]) :
          v \in {Up, Down}, b \in Bars \cup FlatBars, u \in Micros, r \in Rooms}

\* Two of three tasks at a time: all that may go wrong for {scan, ws}.
CrewsAll ==
  {[tasks |-> {"scan", "ws"}, signals |-> 2, restarts |-> 1, dbFaults |-> 1],
   [tasks |-> {"scan", "ws", "context"}, signals |-> 2, restarts |-> 0, dbFaults |-> 0],
   [tasks |-> {"scan", "ws", "monitor"}, signals |-> 1, restarts |-> 0, dbFaults |-> 0]}
CrewContext == {[tasks |-> {"scan", "ws", "context"}, signals |-> 2, restarts |-> 0, dbFaults |-> 0]}
=============================================================================
