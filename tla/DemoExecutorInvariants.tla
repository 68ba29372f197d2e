---------------------- MODULE DemoExecutorInvariants ----------------------
(***************************************************************************)
(* The inductive invariant of DemoExecutor, in named parts: what locks,    *)
(* rows, account and coroutines know of each other.                        *)
(***************************************************************************)
EXTENDS DemoExecutor

\* Labels at which a coroutine works for a trade, or waits to.
Busy == SymbolHeld \cup {"E_entry", "E_symbol", "C_symbol", "R_symbol", "X_symbol"}

\* The locks do what they are for.
LockInv ==
  /\ \A p \in Procs : pc[p] \in Busy => job[p] \in Signals
  /\ \A p \in Procs : pc[p] \in SymbolHeld => Owns(p, symLock[SymbolOf[job[p]]])
  /\ \A p \in Procs : pc[p] \in {"E_symbol", "E_check"} \cup Submitting => Owns(p, entryLock)

\* Labels at which the job is known to have a row.
HasRow == {"E_submit", "E_mark", "E_wait", "E_protect", "E_fail", "C_send", "C_flat",
           "R_symbol", "R_trade", "finalize"} \cup Recovering \cup Opening

RowInv ==
  /\ \A t \in Signals : status[t] = Absent <=> rowid[t] = 0
  /\ \A t \in Signals : rowid[t] <= lastId
  /\ \A t, u \in Signals : rowid[t] = rowid[u] /\ rowid[t] # 0 => t = u
  /\ \A p \in Procs : pc[p] \in HasRow => rowid[job[p]] # 0
  /\ \A p \in Procs, t \in Signals : snap[p][t] # Absent => rowid[t] # 0

\* An entry under way: nothing else of the symbol is managed, nothing is sent yet.
Entering(p) ==
  /\ pc[p] \in {"E_room", "E_create"} => status[job[p]] = Absent
  /\ pc[p] = "E_create" => Managed(SymbolOf[job[p]]) = {}
  /\ pc[p] = "E_submit" =>
       /\ status[job[p]] = "OPENING" /\ ord[job[p]] = "none"
       /\ \A u \in InSymbol(SymbolOf[job[p]]) : rowid[u] <= rowid[job[p]]
EntryInv == \A p \in Procs : Entering(p)

\* What a coroutine saw of the entry order still holds.
Seeing(p) ==
  /\ pc[p] \in {"F_close", "F_flat", "F_settle"} /\ seen[p] = "cancelled"
       => ord[job[p]] = "cancelled"
  /\ pc[p] = "O_poll" => seen[p] = ord[job[p]] /\ ord[job[p]] # "inflight"

OrderInv ==
  /\ \A t \in Signals : rowid[t] = 0 => ord[t] = "none"
  /\ \A s \in Symbols : \A t \in pos[s] : SymbolOf[t] = s /\ ord[t] = "filled"
  /\ \A t \in Signals : entryFill[t] => ord[t] = "filled"
  /\ \A p \in Procs : Seeing(p)

BookedInv ==
  \A u \in Signals : exitTo[u] # None =>
     /\ Exited(u) /\ SymbolOf[u] = SymbolOf[exitTo[u]]
     /\ rowid[exitTo[u]] # 0 /\ rowid[exitTo[u]] <= rowid[u]

\* A newer row on the symbol: the older trade is over.
NewerInv ==
  \A t, u \in Signals :
    SymbolOf[t] = SymbolOf[u] /\ rowid[t] # 0 /\ rowid[t] < rowid[u] =>
      ord[t] # "inflight" /\ (ord[t] = "filled" => exitTo[t] = t)

EmergencyInv ==
  stopped # "no" => ~enabled /\ \A p \in Procs : pc[p] \notin Submitting

\* All of it: inductive together with TypeOK, and it implies the safety properties
\* on the right half.
IInv == /\ LockInv /\ RowInv /\ EntryInv /\ OrderInv /\ BookedInv /\ NewerInv /\ EmergencyInv
        /\ ExposureIsManaged /\ ErrorFlatNeverFilled /\ ClosedHasOwnExit

\* entry_guard and the symbol locks (executor.py) exclude: no two coroutines are at
\* work on one symbol, and no two between the entry lock and the sent order.
MutualExclusion ==
  \A p, q \in Procs : p # q =>
    /\ ~(pc[p] \in SymbolHeld /\ pc[q] \in SymbolHeld /\ SymbolOf[job[p]] = SymbolOf[job[q]])
    /\ ~(pc[p] \in Submitting /\ pc[q] \in Submitting)

(***************************************************************************)
(* What holds besides when a poll outlasts every accepted order, so that   *)
(* "flat" is final (~LateFills): the invariant of the portfolio cap and of *)
(* the emergency stop.                                                     *)
(***************************************************************************)

\* A row of t that says s: a position was seen, or flat was; in both the entry is
\* decided, and after flat nothing of t is left on the account.
Settled(t, s) ==
  /\ s \in {"PROTECTING", "ACTIVE", "CLOSED_SYNCING"} =>
       status[t] # "OPENING" /\ ord[t] # "inflight"
  /\ s = "CLOSED_SYNCING" => t \notin pos[SymbolOf[t]]

\* It is true of the rows stored, of those read, and of the one in hand.
PollInv ==
  /\ \A t \in Signals : Settled(t, status[t])
  /\ \A p \in Procs, t \in Signals : Settled(t, snap[p][t])
  /\ \A p \in Procs : pc[p] \in {"R_symbol", "R_trade", "O_begin"} => Settled(job[p], row[p])
  /\ \A p \in Procs : pc[p] \in {"F_settle", "finalize"} => ~Exposed(job[p])

\* An exposed trade is live, so the count that guards an entry sees it.
ExposedSymbols == {SymbolOf[t] : t \in {u \in Signals : Exposed(u)}}

CapInv ==
  /\ IsFiniteSet(ExposedSymbols)
  /\ Cardinality(ExposedSymbols) <= MaxOpen
  /\ \A p \in Procs : pc[p] \in {"E_create", "E_submit"} => Cardinality(ExposedSymbols) < MaxOpen

\* close_all: what is exposed is still on the list, or being closed.
OpsLabels == {"idle", "X_entry", "X_rows", "X_next", "X_symbol", "finalize", "release"} \cup Closing
Listed(t) == \/ t \in Left(snap[Ops])
             \/ job[Ops] = t /\ pc[Ops] \in {"X_symbol"} \cup Closing

ListInv ==
  /\ pc[Ops] \in OpsLabels
  /\ stopped = "entries" /\ ~missed /\ pc[Ops] \notin {"idle", "X_entry", "X_rows"} =>
       \A t \in Signals : Exposed(t) => Listed(t)

PortfolioInv == PollInv /\ CapInv /\ ListInv /\ EmergencyLeavesFlat

=============================================================================
