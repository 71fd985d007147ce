------------------------------ MODULE MCFeeds ------------------------------
(* Constant values of the model-checked instance of Feeds. *)
EXTENDS Feeds

(* All published, or all waiting for a review with one still in transcoding. *)
Starts == {[v \in Ids |-> "published"],
           [v \in Ids |-> IF v = Home THEN "processing" ELSE "pending_review"]}

(* The second comment replies to the first. *)
Replies == [c \in Ids |-> IF c = 1 THEN 0 ELSE IF c = 2 THEN 1 ELSE IF c = 3 THEN 1 ELSE 0]

(* Two orders of relevance or score: first to last, and the last before the others. *)
Scores == {[v \in Ids |-> 4 - v], [v \in Ids |-> IF v = 3 THEN 4 ELSE 3 - v]}
============================================================================
