---------------------------- MODULE MCProcesses ----------------------------
(* Constant values of the model-checked instance of Processes. *)
EXTENDS Processes

CONSTANTS p1, p2

(* p1 runs an older binary than p2. *)
OldAndNew == [p \in Procs |-> IF p = p1 THEN 1 ELSE 2]

(* The transcoder: Start loops over stale claims, beside a pool of two. *)
Transcoders == [l \in Loops |-> "transcoder"]
============================================================================
