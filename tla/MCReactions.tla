---------------------------- MODULE MCReactions ----------------------------
(* Constant values of the model-checked instances of Reactions. *)
EXTENDS Reactions, TLC

CONSTANTS u1, u2

(* Comments 1 to 3, danmaku 11; u2 writes comment 2, u1 all others. *)
TwoAuthors == [x \in Comments \cup Danmakus |-> IF x = 2 THEN u2 ELSE u1]

LikesOfFirst == {u1, u2} \X {1}

RequestSymmetry == Permutations(Requests)
=============================================================================
