----------------------------- MODULE MCRewards -----------------------------
(* Constant values of the model-checked instance of Rewards. *)
EXTENDS Rewards, TLC

CONSTANTS u1, v1, v2, s1, s2

AllByFirst == [s \in Sessions |-> u1]

AllOfFirst == [s \in Sessions |-> v1]

(* Coins earn 2 each and 3 a day, so that the last award is cut. *)
SmallLimits == [s \in Sources |-> IF s = "coin" THEN 3 ELSE 1]

RequestSymmetry == Permutations(Requests) \cup Permutations(Sessions)
=============================================================================
