--------------------------- MODULE MCSearchOutbox ---------------------------
(* Constant values of the model-checked instances of SearchOutbox. *)
EXTENDS SearchOutbox

OneVideo  == {1}
TwoVideos == {1, 2}
=============================================================================
