-------------------------- MODULE MCUploadPipeline --------------------------
(* Constant values for the model-checked instances of UploadPipeline.      *)
EXTENDS UploadPipeline, TLC

OneVideo == {1}
TwoVideos == {1, 2}

(* Two uploads of one ordinary user that fit the quota only one at a time. *)
SameOwner == [v \in Videos |-> "alice"]
UnitSize  == [v \in Videos |-> 1]

WorkerSymmetry == Permutations(Workers)
=============================================================================
