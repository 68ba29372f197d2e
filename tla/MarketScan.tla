----------------------------- MODULE MarketScan -----------------------------
(***************************************************************************)
(* Which contracts a scan of V2.6 analyses (scanner.py choose_candidates,  *)
(* scan_once, coverage_health): a priority lane of core, moving and liquid *)
(* contracts, and a rotation lane for the least recently analysed.         *)
(* A contract is a number, its place in the alphabet of symbols.           *)
(***************************************************************************)
EXTENDS Integers, FiniteSets, Sequences

CONSTANTS
  Contracts,   \* live perpetuals
  Core,        \* cfg.core, as a sequence
  Rankings,    \* orders the tickers may put the contracts in, by volume or by move
  ActiveSets,  \* sets of contracts that may have an ACTIVE signal
  ShortSets,   \* sets of contracts whose candles never suffice for an analysis
  Total,       \* deep_candidates_per_scan
  Slots        \* rotating_candidates

VARIABLES
  last,    \* last_deep_scan_by_iid, as ranks: 0 never, a higher rank is more recent
  active,  \* contracts with an ACTIVE signal
  short,   \* fixed
  waited   \* history: scans since the last analysis

vars == <<last, active, short, waited>>

Init ==
  /\ last = [c \in Contracts |-> 0] /\ active \in ActiveSets /\ short \in ShortSets
  /\ waited = [c \in Contracts |-> 0]

-----------------------------------------------------------------------------
(* choose_candidates *)

Least(a, b) == IF a < b THEN a ELSE b
Greater(a, b) == IF a > b THEN a ELSE b
RotationSlots == Least(Slots, Total)
PriorityBudget == Total - RotationSlots

\* add(), along a list, until `limit` contracts are selected.
Extend(selected, list, limit) ==
  LET NewUpTo(i) == {list[j] : j \in 1..i} \ selected
  IN selected \cup {list[i] : i \in {j \in DOMAIN list :
                        Cardinality(selected) + Cardinality(NewUpTo(j)) <= limit}}

AlphabetFirst(c, d) == c < d                             \* mutant
LongerUnscanned(c, d) == last[c] < last[d] \/ (last[c] = last[d] /\ c < d)

\* The rotation lane: the contracts with fewer than RotationSlots others before them.
Fair(seen) ==
  LET rest == Contracts \ seen
  IN {c \in rest : Cardinality({d \in rest : LongerUnscanned(d, c)}) < RotationSlots}

Priority(byVolume, byMove) ==
  Extend(active, Core \o byMove \o byVolume, PriorityBudget + Cardinality(active))

\* Unused capacity goes to liquid contracts.  The list is never longer than the active
\* contracts and `Total` others, so cutting it to that length changes nothing.
Filled(selected, byVolume) ==
  Extend(selected, byVolume, Greater(Total, Cardinality(active)))

-----------------------------------------------------------------------------
(* scan_once: only the contracts whose analysis succeeded are stamped. *)

\* Ranks instead of times: the contracts just analysed come last, the others keep their order.
Stamped(selected) == selected \ short

Restamp(done) ==
  LET others == {last[c] : c \in Contracts \ done} \ {0}
      NewRank(c) == IF c \in done THEN Cardinality(others) + 1
                    ELSE Cardinality({r \in others : r <= last[c]})
  IN [c \in Contracts |-> NewRank(c)]

Scan ==
  \E byVolume, byMove \in Rankings :
  \E priority \in {Priority(byVolume, byMove)} :
  \E selected \in {Filled(priority \cup Fair(priority), byVolume)} :
  \E done \in {Stamped(selected)} :
    /\ last' = Restamp(done)
    /\ waited' = [c \in Contracts |->
                    IF c \in done \/ c \in short THEN 0
                    ELSE Least(waited[c] + 1, Cardinality(Contracts))]
    /\ UNCHANGED <<active, short>>

\* Signals open and close between two scans.
SignalsChange ==
  /\ active' \in ActiveSets \ {active}
  /\ UNCHANGED <<last, short, waited>>

Next == Scan \/ SignalsChange
Spec == Init /\ [][Next]_vars
FairSpec == Spec /\ WF_vars(Scan)

-----------------------------------------------------------------------------
(* Properties *)

\* As long as fewer contracts are short of candles than the lane has slots, what is left
\* of the lane reaches every other contract in turn: none waits longer than one round,
\* whatever the movers, the leaders and the active signals are (choose_candidates).
RoundLength ==
  LET slots == RotationSlots - Cardinality(short)
  IN (Cardinality(Contracts \ short) + slots - 1) \div slots
WaitBounded ==
  Cardinality(short) < RotationSlots =>
    \A c \in Contracts \ short : waited[c] < RoundLength
=============================================================================
