-------------------------- MODULE MCTwoLaneEngine --------------------------
(* The instances of TwoLaneEngine that TLC checks.                          *)
EXTENDS TwoLaneEngine

CONSTANTS l1, l2

(* Lines are only compared for equality. *)
LineSymmetry == Permutations(Line)

(* After a restart or a contract change a little less speech is enough.     *)
OneLongLifeOrShortOnes == generation = 1 \/ (spoken <= 2 /\ Len(turns) <= 3)

============================================================================
