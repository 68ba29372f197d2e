---------------------------- MODULE SafetyWatch ----------------------------
(***************************************************************************)
(* The health of Scanner V2.6 as it judges it itself (scanner.py           *)
(* system_safety, safety_watch_loop): every two seconds it looks at the    *)
(* age of its data, and announces a freeze of the active signals and the   *)
(* end of it.                                                              *)
(***************************************************************************)
EXTENDS Naturals

CONSTANT Grace   \* safety_alert_grace_sec, in rounds of the loop

Watched == {"price", "context"}                    \* stale: management is frozen
Vital == Watched \cup {"rest", "scan", "coverage", "notBlocked"}
Useful == {"ws", "monitor", "noRateLimit", "discord"}

VARIABLES
  anyActive,   \* self.active is not empty
  good,        \* the checks of system_safety that pass
  since,       \* data_stale_since: rounds since, 0 when not stale
  announced,   \* data_stale
  shown        \* last_safety_state

vars == <<anyActive, good, since, announced, shown>>

Init ==
  /\ anyActive \in BOOLEAN /\ good \in SUBSET (Vital \cup Useful)
  /\ (~anyActive => Watched \cup {"ws", "monitor"} \subseteq good)
  /\ since = 0 /\ announced = FALSE /\ shown = "STARTING"

\* Without an active signal the checks about active signals pass (system_safety).
Changes ==
  /\ anyActive' \in BOOLEAN
  /\ \E check \in Vital \cup Useful : good' \in {good \cup {check}, good \ {check}}
  /\ (~anyActive' => Watched \cup {"ws", "monitor"} \subseteq good')
  /\ UNCHANGED <<since, announced, shown>>

SystemSafety(checks) ==
  IF ~(Vital \subseteq checks) THEN "UNSAFE"
  ELSE IF ~(Useful \subseteq checks) THEN "DEGRADED" ELSE "HEALTHY"

Stale == anyActive /\ ~(Watched \subseteq good)
Restarted == IF Stale THEN 1 ELSE 0                      \* mutant
Rounds == IF ~Stale THEN 0 ELSE IF since > Grace THEN since ELSE since + 1

Round ==
  /\ since' = Rounds
  /\ announced' = (Stale /\ (announced \/ Rounds > Grace))
  /\ shown' = SystemSafety(good)
  /\ UNCHANGED <<anyActive, good>>

Next == Changes \/ Round
Spec == Init /\ [][Next]_vars
FairSpec == Spec /\ WF_vars(Round)

\* A freeze that lasts is announced and an end that lasts withdraws the announcement
\* (scanner.py:1072).
AnnouncementFollows ==
  /\ <>[]Stale => <>[]announced
  /\ <>[]~Stale => <>[]~announced
=============================================================================
