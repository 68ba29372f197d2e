----------------------------- MODULE HotMonitor -----------------------------
(***************************************************************************)
(* The early alerts of Scanner V2.6 (scanner.py _refresh_hotlist,          *)
(* _handle_early, hot_monitor_loop): the scan replaces the hot list, the   *)
(* hot task analyses it and alerts, and an alert is an await during which  *)
(* the scan may drop the contract or open a signal for it.  The memory of  *)
(* the alerts keeps their times; it is pruned by the scan, not by the one  *)
(* that reads it.                                                          *)
(***************************************************************************)
EXTENDS Naturals, FiniteSets

CONSTANTS
  Coins,         \* contracts
  CancelMisses,  \* early_cancel_misses
  Realert,       \* early_realert_sec, in ticks
  Floor          \* the 900 s below which no alert is forgotten, in ticks

Sides == {"LONG", "SHORT"}
Stages == {"EARLY", "POTENTIAL"}
Cold == [stage |-> "none", side |-> "LONG", misses |-> 0, told |-> FALSE]

VARIABLES
  hotlist,   \* self.hotlist
  active,    \* contracts with an ACTIVE signal
  states,    \* self.hot_states; Cold: no entry (told: notified_rank is 2)
  memory,    \* early_notify_memory: per key alerted, its age in ticks
  todo,      \* hot task: contracts of its snapshot not handled yet
  alerting,  \* hot task: the contract and state of the alert being sent, if any
  alerted    \* history: per key ever alerted, the ticks since the last time

vars == <<hotlist, active, states, memory, todo, alerting, alerted>>
Keys == Coins \X Sides
NoAlert == <<>>
Nothing == [k \in {} |-> 0]

Init ==
  /\ hotlist = {} /\ active = {} /\ todo = {}
  /\ states = [c \in Coins |-> Cold]
  /\ memory = Nothing /\ alerting = NoAlert
  /\ alerted = Nothing

\* Ages: nothing depends on how far past a limit one is.
Aged(ages, limit) == [k \in DOMAIN ages |-> IF ages[k] < limit THEN ages[k] + 1 ELSE ages[k]]
Noted(ages, key) == [k \in DOMAIN ages \cup {key} |-> IF k = key THEN 0 ELSE ages[k]]

\* How long an alert is remembered at least.
Remember == IF Floor < 3 * Realert THEN 3 * Realert ELSE Floor
StillThird == {k \in DOMAIN memory : 3 * memory[k] <= Realert}   \* mutant: / 3 for * 3
Still == {k \in DOMAIN memory : memory[k] <= Remember}

\* _refresh_hotlist: never a contract with an ACTIVE signal; who is left out loses its state,
\* but what was alerted is remembered.
Dropped(new) == {c \in Coins : c \notin new}
Refresh ==
  /\ hotlist' \in SUBSET (Coins \ active)
  /\ states' = [c \in Coins |-> IF c \in Dropped(hotlist') THEN Cold ELSE states[c]]
  /\ memory' = [k \in Still |-> memory[k]]
  /\ UNCHANGED <<active, todo, alerting, alerted>>

SignalOpens ==
  /\ \E c \in Coins \ active : active' = active \cup {c}
  /\ UNCHANGED <<hotlist, states, memory, todo, alerting, alerted>>

SignalCloses ==
  /\ \E c \in active : active' = active \ {c}
  /\ UNCHANGED <<hotlist, states, memory, todo, alerting, alerted>>

\* hot_monitor_loop takes the hot list as it is and analyses all of it.
Snapshot ==
  /\ todo = {} /\ alerting = NoAlert /\ hotlist # {}
  /\ todo' = hotlist
  /\ UNCHANGED <<hotlist, active, states, memory, alerting, alerted>>

Keep(c, state) == states' = [states EXCEPT ![c] = state]

\* _handle_early without a finding: the misses are counted.
Missed(c) ==
  LET prev == states[c] IN
  IF c \in active THEN Cold
  ELSE IF prev.stage = "none" THEN prev
  ELSE IF prev.misses + 1 >= CancelMisses THEN Cold
  ELSE [prev EXCEPT !.misses = @ + 1]

Miss ==
  /\ alerting = NoAlert
  /\ \E c \in todo : todo' = todo \ {c} /\ Keep(c, Missed(c))
  /\ UNCHANGED <<hotlist, active, memory, alerting, alerted>>

\* What was told of one side says nothing of the other.
ToldBefore(c, side) == states[c].told                    \* mutant: whatever the side
Told(c, side) == states[c].stage # "none" /\ states[c].side = side /\ states[c].told
Found(c, stage, side) ==
  [stage |-> stage, side |-> side, misses |-> 0, told |-> Told(c, side)]

\* _early_notify_allowed
AlwaysAllowed(key) == TRUE                               \* mutant
NotifyAllowed(key) == key \notin DOMAIN memory \/ memory[key] >= Realert

\* _handle_early with a finding, up to the alert if there is one.
Find ==
  /\ alerting = NoAlert
  /\ \E c \in todo \ active, stage \in Stages, side \in Sides :
       LET state == Found(c, stage, side)
           alert == stage = "POTENTIAL" /\ ~state.told /\ NotifyAllowed(<<c, side>>)
       IN /\ todo' = todo \ {c}
          /\ IF alert
               THEN /\ memory' = Noted(memory, <<c, side>>)
                    /\ alerted' = Noted(alerted, <<c, side>>)
                    /\ alerting' = <<c, [state EXCEPT !.told = TRUE]>>
                    /\ UNCHANGED states
               ELSE Keep(c, state) /\ UNCHANGED <<memory, alerted, alerting>>
  /\ UNCHANGED <<hotlist, active>>

\* The alert was delivered or not: the state is written whatever happened meanwhile.
Alerted ==
  /\ alerting # NoAlert
  /\ Keep(alerting[1], alerting[2])
  /\ alerting' = NoAlert
  /\ UNCHANGED <<hotlist, active, memory, todo, alerted>>

\* Time passes.
Tick ==
  /\ memory' = Aged(memory, Remember + 1)
  /\ alerted' = Aged(alerted, Realert)
  /\ UNCHANGED <<hotlist, active, states, todo, alerting>>

Next ==
  \/ Refresh \/ SignalOpens \/ SignalCloses
  \/ Snapshot \/ Miss \/ Find \/ Alerted \/ Tick

Spec == Init /\ [][Next]_vars

-----------------------------------------------------------------------------
(* Properties *)

\* A step that begins an alert of the key.
Alerts(key) ==
  alerting = NoAlert /\ alerting' # NoAlert /\ key = <<alerting'[1], alerting'[2].side>>

\* However a contract leaves and rejoins the hot list, loses its state or turns round, and
\* whatever _refresh_hotlist prunes: one side of it is alerted at most once in
\* early_realert_sec, and is not shown as POTENTIAL without having been alerted at all.  An
\* alert that Discord did not take counts as one: it is not repeated.
SpacedStep ==
  /\ \A key \in Keys : Alerts(key) => key \notin DOMAIN alerted \/ alerted[key] >= Realert
  /\ \A c \in Coins : states'[c].stage = "POTENTIAL" => <<c, states'[c].side>> \in DOMAIN alerted'
AlertsSpaced == [][SpacedStep]_vars
=============================================================================
