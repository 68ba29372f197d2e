---------------------------- MODULE BridgeParts ----------------------------
(***************************************************************************)
(* The way of a command, part by part: what is checked of one command      *)
(* (BridgeProtocol), how those of a contract meet (BridgeDelivery), and    *)
(* what becomes of the opened trade in numbers: its orders (OrderPlan),    *)
(* its margin (MarginAssist) and its fills (FillAccounting).  The parts    *)
(* share no state: `part` never changes and names the one that runs.       *)
(***************************************************************************)
EXTENDS BridgeDelivery, Integers, Sequences

CONSTANTS
  Raws, Skews, MaxSkew, MaxAhead, Horizon,                    \* BridgeProtocol
  Cases, LeverageWanted, MinMargin, MaxNotional, Tenths, Unfilled, OrderCrashes, MaxCancels,
                                                              \* OrderPlan
  Positions, Ratio, Step, Share, Turns, Amounts,              \* MarginAssist
  Trades, SideOf, EntryPrices, Prices, Fee, Week, Grace, MaxClock  \* FillAccounting

\* A price, a time or a length is a natural number, 0 where there is none; new_sl may be -1.
Prices7 == [entry : Nat, low : Nat, high : Nat, sl : Nat, tp1 : Nat, tp2 : Nat, tp3 : Nat]
\* Any text; those the builders write are named, because the provers do not look into STRING.
Texts == STRING \cup {"EXECUTE", "MANAGEMENT", "LONG", "SHORT", "plain",
                     "PROTECT", "MOVE_SL", "CLOSE", "INVALIDATED", "CLOSE_EARLY"}
RawCommands ==
  [event : Texts, action : Texts, id : Nat, signal : Nat, symbol : Texts, side : Texts,
   levels : Prices7, source : Int, expires : Nat, new_sl : Int, smart : Nat]

\* An EXECUTE names no action; the 30 s of the signature are less than the 300 s that a
\* command's own time may be ahead (bridge.py:23, 173).
ASSUME ProtocolAssumption ==
  /\ Raws \subseteq RawCommands
  /\ \A r \in Raws : r.event \in {"", "EXECUTE"} => r.action = ""
  /\ Skews \subseteq Int
  /\ MaxSkew \in Nat /\ MaxAhead \in Nat /\ MaxSkew <= MaxAhead
  /\ Horizon \in Nat

Positive == Nat \ {0}
Lots == [step : Positive, min : Positive, notional : Nat]
Limits == [min : Nat, max : Nat, step : Nat]

\* Bybit's price, lot and smallest quantity are above zero; the fractions of the targets are
\* of one whole (config.py:126).
ASSUME OrdersAssumption ==
  /\ Cases \subseteq [market : Positive, stop : Nat, budget : Nat, margin : Nat,
                      lot : Lots, lev : Limits]
  /\ LeverageWanted \in Nat /\ MinMargin \in Nat /\ MaxNotional \in Nat
  /\ Tenths \in [1..2 -> 0..10] /\ Tenths[1] + Tenths[2] <= 10
  /\ Unfilled \subseteq Nat /\ OrderCrashes \in Nat /\ MaxCancels \in Nat

\* At most five times the initial margin, in steps above zero (config.py:135, 137), each at
\* least a quarter of it: 20 turns (executor.py:577, 583).
ASSUME MarginAssumption ==
  /\ Positions \subseteq [initial : Nat, needed : Nat, wallet : Nat]
  /\ Ratio \in Nat /\ Step \in Positive /\ Share \in Positive
  /\ Turns \in Nat /\ 4 * Ratio <= Turns
  /\ Amounts \subseteq Nat /\ MaxCrashes \in Nat

\* Trades have ids from 1 on, a price is not negative.  Executions are listed by weeks from
\* one second before a trade on, as many as there are up to the end of the listing.
ASSUME FillsAssumption ==
  /\ Trades \subseteq Positive
  /\ SideOf \in [Trades -> {"LONG", "SHORT"}] /\ EntryPrices \in [1..2 -> Nat]
  /\ Prices \subseteq Nat /\ Fee \in Int
  /\ Week \in Positive /\ Grace \in Nat /\ MaxClock \in Positive

VARIABLES
  part,
  clock, skew, raw, client, written, body, signed, sent, way, handed, status,
  case, stage, pos, plan, tp, booked, next, left, missed, restarts, cancels,
  position, extra, stored, opened, lock, call, calls, lost, recoveries,
  ticks, rows, received, detected, books, net, execs, listed, misses

protocolVars == <<clock, skew, raw, client, written, body, signed, sent, way, handed, status>>
ordersVars == <<case, stage, pos, plan, tp, booked, next, left, missed, restarts, cancels>>
marginVars == <<position, extra, stored, opened, lock, call, calls, lost, recoveries>>
fillsVars == <<ticks, rows, received, detected, books, net, execs, listed, misses>>
allVars == <<part, protocolVars, ordersVars, marginVars, fillsVars, vars>>

Protocol == INSTANCE BridgeProtocol

Orders == INSTANCE OrderPlan WITH MaxCrashes <- OrderCrashes, crashes <- restarts

Margin == INSTANCE MarginAssist WITH at <- lock, crashes <- recoveries

Fills == INSTANCE FillAccounting WITH
  clock <- ticks, status <- rows, booked <- books, faults <- misses

Unused == "unused"
NoProtocol ==
  /\ clock = Unused /\ skew = Unused /\ raw = Unused /\ client = Unused /\ written = Unused
  /\ body = Unused /\ signed = Unused /\ sent = Unused /\ way = Unused /\ handed = Unused
  /\ status = Unused
NoOrders ==
  /\ case = Unused /\ stage = Unused /\ pos = Unused /\ plan = Unused /\ tp = Unused
  /\ booked = Unused /\ next = Unused /\ left = Unused /\ missed = Unused
  /\ restarts = Unused /\ cancels = Unused
NoMargin ==
  /\ position = Unused /\ extra = Unused /\ stored = Unused /\ opened = Unused
  /\ lock = Unused /\ call = Unused /\ calls = Unused /\ lost = Unused /\ recoveries = Unused
NoFills ==
  /\ ticks = Unused /\ rows = Unused /\ received = Unused /\ detected = Unused
  /\ books = Unused /\ net = Unused /\ execs = Unused /\ listed = Unused /\ misses = Unused

InitAll ==
  /\ Init
  /\ \/ part = "delivery" /\ NoProtocol /\ NoOrders /\ NoMargin /\ NoFills
     \/ part = "protocol" /\ Protocol!Init /\ NoOrders /\ NoMargin /\ NoFills
     \/ part = "orders" /\ Orders!Init /\ NoProtocol /\ NoMargin /\ NoFills
     \/ part = "margin" /\ Margin!Init /\ NoProtocol /\ NoOrders /\ NoFills
     \/ part = "fills" /\ Fills!Init /\ NoProtocol /\ NoOrders /\ NoMargin

DeliveryStep ==
  part = "delivery" /\ Next /\ UNCHANGED <<part, protocolVars, ordersVars, marginVars, fillsVars>>
ProtocolStep ==
  part = "protocol" /\ Protocol!Next /\ UNCHANGED <<part, ordersVars, marginVars, fillsVars, vars>>
OrdersStep ==
  part = "orders" /\ Orders!Next /\ UNCHANGED <<part, protocolVars, marginVars, fillsVars, vars>>
MarginStep ==
  part = "margin" /\ Margin!Next /\ UNCHANGED <<part, protocolVars, ordersVars, fillsVars, vars>>
FillsStep ==
  part = "fills" /\ Fills!Next /\ UNCHANGED <<part, protocolVars, ordersVars, marginVars, vars>>
NextAll == DeliveryStep \/ ProtocolStep \/ OrdersStep \/ MarginStep \/ FillsStep
SpecAll == InitAll /\ [][NextAll]_allVars

-----------------------------------------------------------------------------
(* The properties of the parts. *)

\* The time a command waited is no reason to turn it down.
AgeIsHarmless == part = "protocol" => Protocol!AgeIsHarmless

\* What reaches the executor is what the sender meant, with its levels in order.
HandedAsMeant == part = "protocol" => Protocol!HandedAsMeant

\* An order risks no more than the budget or is the smallest the margin's floor admits.
RiskWithinBudget == part = "orders" => Orders!RiskWithinBudget

\* The open targets sell the position, whatever crashed or filled meanwhile.
TargetsMatchPosition == part = "orders" => Orders!TargetsMatchPosition

\* The margin added to a trade keeps to its cap, and 20 turns are enough to reach it.
MarginBounded == part = "margin" => Margin!MarginBounded

\* A closed trade has its own executions, and its net result is the money they moved.
BooksExact == part = "fills" => Fills!BooksExact

\* A flat trade is closed by the next pass once its executions are listed.
SettledOnceListed == [][part = "fills" => Fills!SettlesListed]_allVars
=============================================================================
