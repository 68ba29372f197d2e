----------------------------- MODULE RestClient -----------------------------
(***************************************************************************)
(* The public REST client of Scanner V2.6 (bybit.py get, _pace): requests  *)
(* of many tasks share one pacing lock and one cooldown after HTTP 403.    *)
(***************************************************************************)
EXTENDS Naturals, FiniteSets

CONSTANTS
  Requests,     \* calls of get, each made once
  Retries,      \* 3 in the code
  MaxBlocks     \* bound: responses with status 403

VARIABLES
  at,        \* per call: where it is
  attempt,   \* per call: n of its loop
  pacing,    \* holder of _pace_lock
  blocked,   \* ip_blocked_until lies in the future
  slipped,   \* history: calls sent during the present cooldown
  blocks

vars == <<at, attempt, pacing, blocked, slipped, blocks>>

Nobody == "nobody"
Done == {"ok", "failed"}

Init ==
  /\ at = [r \in Requests |-> "start"] /\ attempt = [r \in Requests |-> 0]
  /\ pacing = Nobody /\ blocked = FALSE
  /\ slipped = [r \in Requests |-> 0] /\ blocks = 0

Goes(r, label) == at' = [at EXCEPT ![r] = label]

\* The cooldown is looked at before the queue for the pacing lock, not after it.
QueueAnyway(r) == at[r] = "start"                        \* mutant
MayQueue(r) == at[r] = "start" /\ ~blocked

Queue(r) ==
  /\ MayQueue(r)
  /\ Goes(r, "queued")
  /\ UNCHANGED <<attempt, pacing, blocked, slipped, blocks>>

\* During a cooldown a failure ends the call; without one it sleeps and tries again.
Refuse(r) ==
  /\ at[r] = "start" /\ blocked
  /\ Goes(r, "failed")
  /\ UNCHANGED <<attempt, pacing, blocked, slipped, blocks>>

TakeTurn(r) ==
  /\ at[r] = "queued" /\ pacing = Nobody
  /\ pacing' = r
  /\ Goes(r, "pacing")
  /\ UNCHANGED <<attempt, blocked, slipped, blocks>>

\* The interval has passed: the lock is released and the request goes out.
Send(r) ==
  /\ at[r] = "pacing"
  /\ pacing' = Nobody
  /\ slipped' = [slipped EXCEPT ![r] = IF blocked THEN @ + 1 ELSE @]
  /\ Goes(r, "sent")
  /\ UNCHANGED <<attempt, blocked, blocks>>

Succeed(r) ==
  /\ at[r] = "sent"
  /\ Goes(r, "ok")
  /\ UNCHANGED <<attempt, pacing, blocked, slipped, blocks>>

\* HTTP 403: ten minutes of cooldown for every call, from now on.
Forbidden(r) ==
  /\ at[r] = "sent" /\ blocks < MaxBlocks
  /\ blocks' = blocks + 1 /\ blocked' = TRUE
  /\ Goes(r, "failed")
  /\ UNCHANGED <<attempt, pacing, slipped>>

\* HTTP 429 and retCode 10006 while retries are left, and any other failure.
MayRetry(r) == attempt[r] < Retries

Fail(r) ==
  /\ at[r] = "sent"
  /\ Goes(r, IF blocked THEN "failed" ELSE IF MayRetry(r) THEN "asleep" ELSE "failed")
  /\ UNCHANGED <<attempt, pacing, blocked, slipped, blocks>>

RateLimited(r) ==
  /\ at[r] = "sent" /\ MayRetry(r)
  /\ Goes(r, "asleep")
  /\ UNCHANGED <<attempt, pacing, blocked, slipped, blocks>>

WakeUp(r) ==
  /\ at[r] = "asleep"
  /\ attempt' = [attempt EXCEPT ![r] = @ + 1]
  /\ Goes(r, "start")
  /\ UNCHANGED <<pacing, blocked, slipped, blocks>>

\* 600 seconds are longer than a call lasts: what was sent in the cooldown is over.
CooldownEnds ==
  /\ blocked /\ \A r \in Requests : at[r] \in Done \cup {"start"}
  /\ blocked' = FALSE /\ slipped' = [r \in Requests |-> 0]
  /\ UNCHANGED <<at, attempt, pacing, blocks>>

Call(r) == Queue(r) \/ Refuse(r) \/ TakeTurn(r) \/ Send(r) \/ WakeUp(r)
Answer(r) == Succeed(r) \/ Forbidden(r) \/ Fail(r) \/ RateLimited(r)
Next == (\E r \in Requests : Call(r) \/ Answer(r)) \/ CooldownEnds

\* The lock is fair, sleeps end, and a request ends within 12 seconds.
Fairness == \A r \in Requests : WF_vars(Call(r)) /\ WF_vars(Answer(r))
Spec == Init /\ [][Next]_vars
FairSpec == Spec /\ Fairness

-----------------------------------------------------------------------------
(* Properties *)

\* RELEASE_NOTES.md:22 calls the cooldown fail-fast.  It is not immediate: a call that
\* had passed the check still goes out, but no call goes out twice in one cooldown.
SlipsOnce == \A r \in Requests : slipped[r] <= 1

=============================================================================
