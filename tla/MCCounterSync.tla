--------------------------- MODULE MCCounterSync ---------------------------
(* The instances of CounterSync that TLC checks.                            *)
EXTENDS CounterSync

(* At most one poll is under way.  For SendSpec only, which is not fair to   *)
(* polls: a behaviour that is cut off is one whose next poll is never made.  *)
FewPolls == Cardinality(polls) <= 1

============================================================================
