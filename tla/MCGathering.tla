----------------------------- MODULE MCGathering -----------------------------
(* Instances of Gathering for TLC: one detector with more than two pages   *)
(* beside one with nothing, and two where the second page begins just at,  *)
(* or just behind, what there is.                                          *)
EXTENDS Gathering

CONSTANTS d1, d2

MCDetectors == {d1, d2}
MCTotals == {[d \in MCDetectors |-> IF d = d1 THEN 5 ELSE 0],
             [d \in MCDetectors |-> IF d = d1 THEN 3 ELSE 2]}
=============================================================================
