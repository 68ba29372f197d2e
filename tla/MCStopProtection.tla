-------------------------- MODULE MCStopProtection --------------------------
(***************************************************************************)
(* TLC instances of StopProtection: a long and a short trade on five ticks,*)
(* and a long one whose entry was filled at its first target.              *)
(***************************************************************************)
EXTENDS StopProtection

CONSTANTS loop, sync

Ticks == 1..5
Long == [side |-> "LONG", stop |-> 1, entry |-> 2, tp1 |-> 3, tp2 |-> 4]
Short == [side |-> "SHORT", stop |-> 5, entry |-> 4, tp1 |-> 3, tp2 |-> 2]
Slipped == [Long EXCEPT !.entry = 3]
BothSides == {Long, Short}
WithSlipped == {Long, Short, Slipped}
=============================================================================
