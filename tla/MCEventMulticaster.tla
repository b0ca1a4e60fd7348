------------------------- MODULE MCEventMulticaster -------------------------
(***************************************************************************)
(* An instance of EventMulticaster for TLC: both listeners take event x,   *)
(* l2 takes y as well; l1 comes first.                                     *)
(***************************************************************************)
EXTENDS EventMulticaster

CONSTANTS l1, l2, x, y

TwoListeners == {l1, l2}
TwoEvents    == {x, y}
SupportsXY   == [l \in Listeners |-> IF l = l1 THEN {x} ELSE Events]
Orders       == [l \in Listeners |-> IF l = l1 THEN 1 ELSE 2]
=============================================================================
