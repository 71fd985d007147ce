--------------------------- MODULE VideoLifecycle ---------------------------
(***************************************************************************)
(* What the service promises about one video, whatever the upload handler, *)
(* the transcoders, the janitor, the owner and the reviewers do at the     *)
(* same time: the status changes along the edges of the state diagram, a   *)
(* deleted video stays deleted, and information submitted by the owner     *)
(* decides where a finished transcode leads.                               *)
(*                                                                         *)
(* This is the abstract specification; UploadPipeline implements it.       *)
(***************************************************************************)
CONSTANT Videos        \* the rows the videos table may come to hold

VARIABLES
  status,              \* [Videos -> Status], "none" before the row exists
  submitted            \* [Videos -> BOOLEAN], submitted_at is not NULL

vars == <<status, submitted>>

Status == {"none", "processing", "ready", "pending_review", "published",
           "rejected", "failed", "deleted"}

TypeOK ==
  /\ status \in [Videos -> Status]
  /\ submitted \in [Videos -> BOOLEAN]

Init ==
  /\ status = [v \in Videos |-> "none"]
  /\ submitted = [v \in Videos |-> FALSE]

(* The row moves from one of the statuses in from to the status to. *)
Move(v, from, to) ==
  /\ status[v] \in from
  /\ status' = [status EXCEPT ![v] = to]

Upload(v) == Move(v, {"none"}, "processing") /\ UNCHANGED submitted

(* A finished transcode leads where the submission, if any, says. *)
Finish(v) ==
  /\ Move(v, {"processing"}, IF submitted[v] THEN "pending_review" ELSE "ready")
  /\ UNCHANGED submitted

Fail(v) == Move(v, {"processing"}, "failed") /\ UNCHANGED submitted

(* Submitting while the transcode runs leaves the status to Finish. *)
Submit(v) ==
  /\ \/ Move(v, {"ready", "rejected"}, "pending_review")
     \/ Move(v, {"processing"}, "processing")
  /\ submitted' = [submitted EXCEPT ![v] = TRUE]

Approve(v)  == Move(v, {"pending_review"}, "published") /\ UNCHANGED submitted
Reject(v)   == Move(v, {"pending_review"}, "rejected") /\ UNCHANGED submitted
TakeDown(v) == Move(v, {"published"}, "rejected") /\ UNCHANGED submitted
Delete(v)   == Move(v, Status \ {"none"}, "deleted") /\ UNCHANGED submitted

Next == \E v \in Videos :
  \/ Upload(v) \/ Finish(v) \/ Fail(v) \/ Submit(v)
  \/ Approve(v) \/ Reject(v) \/ TakeDown(v) \/ Delete(v)

Spec == Init /\ [][Next]_vars

-----------------------------------------------------------------------------
(* A video whose information was never submitted is never shown or queued  *)
(* for review, and one whose information was submitted never waits in      *)
(* "ready": the two orders of "submit" and "transcode finished" converge   *)
(* (videoStatusAfterTranscode, SubmitVideoForReview).                      *)
SubmissionDecides == \A v \in Videos :
  /\ status[v] = "ready" => ~submitted[v]
  /\ status[v] \in {"pending_review", "published", "rejected"} => submitted[v]
=============================================================================
