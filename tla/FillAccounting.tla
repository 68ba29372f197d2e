--------------------------- MODULE FillAccounting ---------------------------
(***************************************************************************)
(* The executions of one contract and the trades they are booked to:       *)
(* executions (bybit_demo.py), _sync_fills and _finalize_flat_trade        *)
(* (executor.py), fills and recalc_pnl (storage.py).  Trades follow one    *)
(* another on the contract.  The clock is counted in ticks; an entry is    *)
(* filled in two halves, so quantities count halves.  A handler that marks *)
(* a row and finalizes it is two steps: the exchange acts between them.    *)
(***************************************************************************)
EXTENDS Integers, Sequences

CONSTANTS
  Trades,       \* 1..n: the trades, in the order of their signals
  SideOf,       \* the side of each
  EntryPrices,  \* of the two halves
  Prices,       \* of the exits
  Fee,          \* of each execution
  Week,         \* the ticks one request to the exchange covers
  Grace,        \* executions are listed up to 60 s after the position was found flat
  MaxClock, MaxFaults

VARIABLES
  clock,
  status,       \* SQLite: status of each trade, "none" without a row
  received, detected,   \* SQLite: received_at, close_detected_at (0: not set)
  booked,       \* SQLite: the trade of each execution in the table fills
  net,          \* SQLite: net_pnl_usdt, twice: so averages of two prices stay whole
  execs,        \* Bybit: the executions, in the order of time
  listed,       \* Bybit: how many of them the listing shows so far
  faults
vars == <<clock, status, received, detected, booked, net, execs, listed, faults>>

NoTrade == 0
Own(t) == {i \in DOMAIN execs : execs[i].of = t}

SumUpTo(w, n) ==
  LET sum[k \in 0..n] == IF k = 0 THEN 0 ELSE sum[k - 1] + w[k]
  IN sum[n]
\* The sum of a value over a set of executions.
Weights(S, value) == [i \in DOMAIN execs |-> IF i \in S THEN value[i] ELSE 0]
Total(S, value) == SumUpTo(Weights(S, value), Len(execs))
Qty == [i \in DOMAIN execs |-> execs[i].qty]
Value == [i \in DOMAIN execs |-> execs[i].qty * execs[i].price]
Charge == [i \in DOMAIN execs |-> Fee]

EntrySide(t) == IF SideOf[t] = "LONG" THEN "Buy" ELSE "Sell"
ExitSide(t) == IF SideOf[t] = "LONG" THEN "Sell" ELSE "Buy"
\* Bybit: what is still open of a trade.
Held(t) ==
  LET signed == [i \in DOMAIN execs |->
                   IF execs[i].side = EntrySide(t) THEN execs[i].qty ELSE -execs[i].qty]
  IN Total(Own(t), signed)

-----------------------------------------------------------------------------
(* recalc_pnl and fill_quantities (storage.py:678-715), on bookings b. *)

EntryFills(t, b) == {i \in DOMAIN b : b[i] = t /\ execs[i].side = EntrySide(t)}
ExitFills(t, b) == {i \in DOMAIN b : b[i] = t /\ execs[i].side # EntrySide(t)}
Complete(t, b) ==
  LET entry == Total(EntryFills(t, b), Qty)
  IN entry > 0 /\ Total(ExitFills(t, b), Qty) >= entry

\* (exit price - average entry) * quantity, the other way round for a short, less fees.
NetPnl(t, b) ==
  LET entry == Total(EntryFills(t, b), Qty)
      exit == Total(ExitFills(t, b), Qty)
      paid == IF entry = 0 THEN 0 ELSE (Total(EntryFills(t, b), Value) * exit * 2) \div entry
      got == Total(ExitFills(t, b), Value) * 2
      fees == Total(EntryFills(t, b) \cup ExitFills(t, b), Charge) * 2
  IN (IF SideOf[t] = "LONG" THEN got - paid ELSE paid - got) - fees

-----------------------------------------------------------------------------
(* The listing (bybit_demo.py:391-429): a request for each week, which     *)
(* begins right after the last moment of the one before.                   *)

StartsGapped(from) == {from + k * (Week + 1) : k \in 0..MaxClock}   \* mutant: one tick later
WindowStarts(from) == {from + k * Week : k \in 0..MaxClock}
Listing(from, to) ==
  {i \in 1..listed : \E w \in WindowStarts(from) :
     w <= execs[i].time /\ execs[i].time < w + Week /\ execs[i].time <= to}

\* _sync_fills: its link finds an entry or a target; what else closed size while the
\* trade was looked at is its stop, or a close by hand.
ListedUntil(t) ==
  IF detected[t] = 0 \/ detected[t] + Grace > clock THEN clock ELSE detected[t] + Grace
Relevant(t) ==
  {i \in Listing(received[t] - 1, ListedUntil(t)) :
     execs[i].time >= received[t] /\ (execs[i].link = t \/ execs[i].closes)}

\* An execution that is in the table keeps its trade (PRIMARY KEY).
Retaken(t) ==                                                        \* mutant: it does not
  [i \in DOMAIN booked \cup Relevant(t) |-> IF i \in Relevant(t) THEN t ELSE booked[i]]
Synced(t) ==
  [i \in DOMAIN booked \cup Relevant(t) |-> IF i \in DOMAIN booked THEN booked[i] ELSE t]

Book(t, b) == booked' = b /\ net' = [net EXCEPT ![t] = NetPnl(t, b)]

-----------------------------------------------------------------------------
(* The trades. *)

Init ==
  /\ clock = 1 /\ faults = 0
  /\ status = [t \in Trades |-> "none"]
  /\ received = [t \in Trades |-> 0] /\ detected = [t \in Trades |-> 0]
  /\ booked = <<>> /\ net = [t \in Trades |-> 0]
  /\ execs = <<>> /\ listed = 0

Execution(t, side, qty, price, link, closes) ==
  [of |-> t, side |-> side, qty |-> qty, price |-> price, time |-> clock,
   link |-> link, closes |-> closes]

\* execute: no earlier trade of the contract is unsettled; the entry is filled at once.
Open(t) ==
  /\ status[t] = "none" /\ \A u \in Trades : u < t => status[u] = "CLOSED"
  /\ status' = [status EXCEPT ![t] = "ACTIVE"] /\ received' = [received EXCEPT ![t] = clock]
  /\ execs' = execs \o [n \in 1..2 |-> Execution(t, EntrySide(t), 1, EntryPrices[n], t, FALSE)]
  /\ UNCHANGED <<clock, detected, booked, net, listed, faults>>

\* A target with its link, or a stop or a close by hand without one.
Exit(t) ==
  /\ Held(t) > 0
  /\ \E qty \in 1..Held(t), p \in Prices, link \in {t, NoTrade} :
       execs' = Append(execs, Execution(t, ExitSide(t), qty, p, link, TRUE))
  /\ UNCHANGED <<clock, status, received, detected, booked, net, listed, faults>>

Tick == clock < MaxClock /\ clock' = clock + 1
        /\ UNCHANGED <<status, received, detected, booked, net, execs, listed, faults>>
List == listed < Len(execs) /\ listed' = listed + 1
        /\ UNCHANGED <<clock, status, received, detected, booked, net, execs, faults>>

\* A pass over an open trade.
SyncActive(t) ==
  /\ status[t] = "ACTIVE" /\ Synced(t) # booked /\ Book(t, Synced(t))
  /\ UNCHANGED <<clock, status, received, detected, execs, listed, faults>>

\* mark_flat_syncing keeps the first time; Bybit's position may be missing by mistake,
\* which _reconcile_trade knows ("Position reappeared during fill finalization").
FirstFlat(t) == IF detected[t] = 0 THEN clock ELSE detected[t]
FlatSeen(t) ==
  /\ status[t] = "ACTIVE"
  /\ IF Held(t) = 0 THEN UNCHANGED faults ELSE faults < MaxFaults /\ faults' = faults + 1
  /\ status' = [status EXCEPT ![t] = "CLOSED_SYNCING"]
  /\ detected' = [detected EXCEPT ![t] = FirstFlat(t)]
  /\ UNCHANGED <<clock, received, booked, net, execs, listed>>

\* _finalize_flat_trade; a listing that fails leaves the fills as they were.
Finalize(t) ==
  /\ status[t] = "CLOSED_SYNCING"
  /\ \/ Book(t, Synced(t)) /\ UNCHANGED faults
     \/ faults < MaxFaults /\ faults' = faults + 1 /\ UNCHANGED <<booked, net>>
  /\ status' = [status EXCEPT ![t] = IF Complete(t, booked') THEN "CLOSED" ELSE @]
  /\ UNCHANGED <<clock, received, detected, execs, listed>>

Reappears(t) ==
  /\ status[t] = "CLOSED_SYNCING" /\ Held(t) > 0
  /\ status' = [status EXCEPT ![t] = "RECOVERY_REQUIRED"]
  /\ UNCHANGED <<clock, received, detected, booked, net, execs, listed, faults>>

\* _failsafe_open: the close order carries the trade's prefix.
Failsafe(t) ==
  /\ status[t] = "RECOVERY_REQUIRED"
  /\ IF Held(t) = 0 THEN UNCHANGED execs
     ELSE \E p \in Prices :
            execs' = Append(execs, Execution(t, ExitSide(t), Held(t), p, t, TRUE))
  /\ status' = [status EXCEPT ![t] = "CLOSED_SYNCING"]
  /\ UNCHANGED <<clock, received, detected, booked, net, listed, faults>>

Next ==
  \/ Tick \/ List
  \/ \E t \in Trades :
       Open(t) \/ Exit(t) \/ SyncActive(t) \/ FlatSeen(t) \/ Finalize(t) \/ Reappears(t) \/ Failsafe(t)

-----------------------------------------------------------------------------
(* Properties *)

\* What the money of a trade's own executions comes to.
Cash(t) ==
  LET flow == [i \in DOMAIN execs |->
                 (IF execs[i].side = "Sell" THEN Value[i] ELSE -Value[i]) - Fee]
  IN Total(Own(t), flow)

\* A closed trade has exactly its own executions, and its net result is the money they
\* moved ("uses actual Bybit demo fills", apps/autotrader/README.md:122), however late and
\* in whatever parts they were listed.
BooksExact ==
  \A t \in Trades : status[t] = "CLOSED" =>
    /\ {i \in DOMAIN booked : booked[i] = t} = Own(t)
    /\ net[t] = Cash(t) * 2

\* A trade that is flat and whose executions are all listed is closed by the next pass that
\* can read them, except for an execution later than that minute: close_detected_at was set
\* by a position that was missing by mistake, and is never set again.
Late(t) == \E i \in Own(t) : execs[i].time > detected[t] + Grace
SettlesListed ==
  \A t \in Trades :
    /\ status[t] = "CLOSED_SYNCING" /\ Held(t) = 0 /\ listed = Len(execs)
    /\ Finalize(t) /\ UNCHANGED faults
    => status'[t] = "CLOSED" \/ Late(t)
SettledOnceListed == [][SettlesListed]_vars
=============================================================================
