------------------------ MODULE UploadPipelineProofs ------------------------
(***************************************************************************)
(* Proofs about UploadPipeline for every number of videos, workers and     *)
(* users, and for every bound on crashes, shutdowns, faults and deletions. *)
(***************************************************************************)
EXTENDS UploadPipeline, FiniteSums

-----------------------------------------------------------------------------
(* Types.                                                                  *)

(* Every way in which a transaction rewrites a row yields a row. *)
LEMMA RowOperators ==
  ASSUME NEW r \in Row, NEW n \in Nat
  PROVE  /\ QueuedRow(r, n) \in Row
         /\ FailedRow(r) \in Row /\ ClaimedRow(r) \in Row
         /\ ReleasedRow(r) \in Row /\ ReadyRow(r) \in Row
         /\ SubmittedRow(r) \in Row
  BY DEF Row, Status, QueuedRow, FailedRow, ClaimedRow, ReleasedRow, ReadyRow,
         StatusAfterTranscode, SubmittedRow

(* Using up one unit of a bound keeps the counters natural numbers. *)
LEMMA SpendType ==
  ASSUME spent \in [Hindrances -> Nat], NEW k \in Hindrances, Spend(k)
  PROVE  spent' \in [Hindrances -> Nat]
  BY DEF Spend

(* A removal that fails, or a job that does not open, keeps the types. *)
LEMMA DirFaultType ==
  ASSUME TypeOK, NEW v \in Videos,
         OpenFails(v) \/ \E d \in DirState : RemovalFails(v, d)
  PROVE  /\ dir' \in [Videos -> DirState] /\ cold' \subseteq Videos
         /\ spent' \in [Hindrances -> Nat]
<1>1. spent' \in [Hindrances -> Nat]
  BY SpendType DEF OpenFails, RemovalFails, Hindrances, TypeOK
<1>2. dir' \in [Videos -> DirState] /\ cold' \subseteq Videos
  BY DEF OpenFails, RemovalFails, Reopened, Remains, HasSource, DirState, TypeOK
<1> QED
  BY <1>1, <1>2

(* The upload request keeps the types. *)
LEMMA UploadTypeOK ==
  ASSUME TypeOK, NEW v \in Videos, BeginUpload(v) \/ UploadStep(v)
  PROVE  TypeOK'
<1> USE DEF TypeOK, UploadAt, DirState, UploadGoto, SetDir
<1>1. CASE BeginUpload(v)
  BY <1>1 DEF BeginUpload, Row, Status
<1>2. CASE CreateUploadJob(v)
  BY <1>2, RowOperators, SpendType DEF CreateUploadJob, Hindrances
<1>3. CASE StoreUpload(v)
  BY <1>3 DEF StoreUpload
<1>4. CASE LockOwner(v)
  BY <1>4, ConstantsOK DEF LockOwner, ConstantsOK
<1>5. CASE CommitQueue(v)
  <2>1. Size[v] \in Nat
    BY ConstantsOK DEF ConstantsOK
  <2>2. QueuedRow(row[v], Size[v]) \in Row
    BY <2>1, RowOperators
  <2> QED
    BY <1>5, <2>2, SpendType DEF CommitQueue, Hindrances
<1>6. CASE FailUpload(v)
  BY <1>6, RowOperators, SpendType DEF FailUpload, MarkFailed, Hindrances
<1>7. CASE DiscardUpload(v)
  <2>1. dir[v] \in DirState
    OBVIOUS
  <2> QED
    BY <1>7, <2>1, DirFaultType DEF DiscardUpload, RemoveDir
<1> QED
  BY <1>1, <1>2, <1>3, <1>4, <1>5, <1>6, <1>7 DEF UploadStep

(* The transcoding workers keep the types. *)
LEMMA WorkerTypeOK ==
  ASSUME TypeOK, NEW w \in Workers,
         WorkerStep(w) \/ \E v \in Videos : ClaimVideo(w, v)
  PROVE  TypeOK'
<1> USE DEF TypeOK, WorkerAt, DirState, DashState, WorkerGoto, WorkerEnds,
            SetDir, RemoveDir
<1>1. ASSUME NEW v \in Videos, ClaimVideo(w, v) PROVE TypeOK'
  <2>1. v # NoVideo
    BY ConstantsOK DEF ConstantsOK, NoVideo
  <2> QED
    BY <1>1, <2>1, RowOperators DEF ClaimVideo
<1>2. CASE OpenUploadJob(w)
  BY <1>2, DirFaultType DEF OpenUploadJob
<1>3. CASE Encode(w)
  BY <1>3 DEF Encode
<1>4. CASE ReleaseClaim(w)
  BY <1>4, RowOperators, SpendType DEF ReleaseClaim, Hindrances
<1>5. CASE ClearPublished(w)
  BY <1>5, SpendType DEF ClearPublished, Withdraw, WithdrawalFails, Hindrances
<1>6. CASE RenameOutput(w)
  BY <1>6, SpendType DEF RenameOutput, Hindrances
<1>7. CASE MarkReady(w)
  BY <1>7, RowOperators, SpendType DEF MarkReady, Hindrances
<1>8. CASE Rollback(w)
  BY <1>8, SpendType DEF Rollback, Withdraw, WithdrawalFails, Hindrances
<1>9. CASE FailVideo(w)
  BY <1>9, RowOperators, SpendType DEF FailVideo, MarkFailed, Hindrances
<1>10. CASE DiscardJob(w)
  <2>1. job[w] \in Videos /\ dir[job[w]] \in DirState /\ Reopened(dir[job[w]]) \in DirState
    BY <1>10 DEF DiscardJob, Reopened
  <2> QED
    BY <1>10, <2>1, DirFaultType DEF DiscardJob
<1>11. CASE CleanJob(w)
  <2>1. job[w] \in Videos /\ dir[job[w]] \in DirState
    BY <1>11 DEF CleanJob
  <2> QED
    BY <1>11, <2>1, DirFaultType DEF CleanJob
<1> QED
  BY <1>1, <1>2, <1>3, <1>4, <1>5, <1>6, <1>7, <1>8, <1>9, <1>10, <1>11
     DEF WorkerStep

(* The steps of time, the recovery, the janitor, the owner and reviewers.  *)
Background(v) ==
  ClaimAges(v) \/ HeartbeatExpires(v) \/ SweepJob(v)

Tickers == RecoverClaims \/ ListActiveJobs \/ EndSweep

Transactions(v) ==
  \/ SubmitVideo(v) \/ ApproveVideo(v) \/ RejectVideo(v) \/ TakeDownVideo(v)
  \/ DeleteVideo(v) \/ DeleteAdminVideo(v) \/ CommitDelete(v) \/ AbortDelete(v)

(* Passing time and the sweep keep the types. *)
LEMMA BackgroundTypeOK ==
  ASSUME TypeOK, NEW v \in Videos, Background(v)
  PROVE  TypeOK'
<1> USE DEF TypeOK, DirState, SetDir, RemoveDir
<1>1. CASE ClaimAges(v)
  <2>1. ASSUME NEW r \in Row PROVE [r EXCEPT !.stale = TRUE] \in Row
    BY DEF Row
  <2> QED
    BY <1>1, <2>1 DEF ClaimAges
<1>2. CASE HeartbeatExpires(v)
  BY <1>2 DEF HeartbeatExpires
<1>3. CASE SweepJob(v)
  <2>1. dir[v] \in DirState
    OBVIOUS
  <2> QED
    BY <1>3, <2>1, DirFaultType DEF SweepJob
<1> QED
  BY <1>1, <1>2, <1>3 DEF Background

(* Recovery and the janitor keep the types. *)
LEMMA TickersTypeOK ==
  ASSUME TypeOK, Tickers
  PROVE  TypeOK'
<1> USE DEF TypeOK
<1>1. CASE RecoverClaims
  BY <1>1, RowOperators DEF RecoverClaims
<1>2. CASE ListActiveJobs
  BY <1>2 DEF ListActiveJobs, ActiveJobs
<1>3. CASE EndSweep
  BY <1>3 DEF EndSweep
<1> QED
  BY <1>1, <1>2, <1>3 DEF Tickers

(* The transactions of owners and reviewers keep the types. *)
LEMMA TransactionsTypeOK ==
  ASSUME TypeOK, NEW v \in Videos, Transactions(v)
  PROVE  TypeOK'
<1>t. row \in [Videos -> Row] /\ row[v] \in Row /\ spent \in [Hindrances -> Nat]
  BY DEF TypeOK
<1>1. CASE SubmitVideo(v)
  <2>1. row' = [row EXCEPT ![v] = SubmittedRow(row[v])]
    BY <1>1 DEF SubmitVideo
  <2>2. SubmittedRow(row[v]) \in Row
    BY <1>t, RowOperators
  <2>3. row' \in [Videos -> Row]
    BY <1>t, <2>1, <2>2
  <2> QED
    BY <1>1, <2>3 DEF SubmitVideo, RowOnly, TypeOK
<1>2. CASE ApproveVideo(v) \/ RejectVideo(v) \/ TakeDownVideo(v)
  <2>1. row' \in [Videos -> Row]
    BY <1>2, <1>t DEF ApproveVideo, RejectVideo, TakeDownVideo, Review, Row, Status
  <2> QED
    BY <1>2, <2>1 DEF ApproveVideo, RejectVideo, TakeDownVideo, Review, RowOnly, TypeOK
<1>3. CASE DeleteVideo(v) \/ DeleteAdminVideo(v)
  <2>1. spent' \in [Hindrances -> Nat]
    BY <1>3, <1>t, SpendType DEF DeleteVideo, DeleteAdminVideo, Hindrances
  <2> QED
    BY <1>3, <2>1 DEF DeleteVideo, DeleteAdminVideo, RemoveVideo, Withdraw, TypeOK, DashState
<1>4. CASE CommitDelete(v)
  <2>1. row' \in [Videos -> Row]
    BY <1>4, <1>t DEF CommitDelete, Row, Status
  <2> QED
    BY <1>4, <2>1 DEF CommitDelete, TypeOK
<1>5. CASE AbortDelete(v)
  <2>1. spent' \in [Hindrances -> Nat]
    BY <1>5, <1>t, SpendType DEF AbortDelete, Hindrances
  <2> QED
    BY <1>5, <2>1 DEF AbortDelete, TypeOK
<1> QED
  BY <1>1, <1>2, <1>3, <1>4, <1>5 DEF Transactions

(* Shutdown, crash and restart keep the types. *)
LEMMA RestartTypeOK ==
  ASSUME TypeOK, Shutdown \/ Crash \/ Exit
  PROVE  TypeOK'
<1> USE SpendType DEF TypeOK, Hindrances, UploadAt, WorkerAt
<1>1. CASE Shutdown
  BY <1>1 DEF Shutdown
<1>p. stranded \cup {job[w] : w \in Publishing} \subseteq Videos
  BY DEF Publishing
<1>2. CASE Crash
  BY <1>2, <1>p DEF Crash, Restart
<1>3. CASE Exit
  BY <1>3, <1>p DEF Exit, Restart
<1> QED
  BY <1>1, <1>2, <1>3

(* Every variable keeps its type, and a worker holds a video exactly while *)
(* it works (claimVideoUpload to the end of ProcessNextVideoUpload).       *)
THEOREM TypeCorrect == Spec => []TypeOK
<1>1. Init => TypeOK
  <2> SUFFICES ASSUME Init PROVE TypeOK
    OBVIOUS
  <2>1. row \in [Videos -> Row]
    BY DEF Init, NewRow, Row, Status
  <2>2. /\ dir \in [Videos -> DirState] /\ dash \in [Videos -> DashState]
        /\ up \in [Videos -> UploadAt] /\ at \in [Workers -> WorkerAt]
    BY DEF Init, DirState, DashState, UploadAt, WorkerAt
  <2>3. \A w \in Workers : at[w] = "idle" <=> job[w] = NoVideo
    BY DEF Init
  <2>4. spent \in [Hindrances -> Nat]
    BY DEF Init
  <2> QED
    BY <2>1, <2>2, <2>3, <2>4 DEF Init, TypeOK
<1>2. TypeOK /\ [Next]_vars => TypeOK'
  <2> SUFFICES ASSUME TypeOK, [Next]_vars PROVE TypeOK'
    OBVIOUS
  <2>1. CASE UNCHANGED vars
    BY <2>1 DEF vars, TypeOK
  <2>2. ASSUME NEW v \in Videos, BeginUpload(v) \/ UploadStep(v) PROVE TypeOK'
    BY <2>2, UploadTypeOK
  <2>3. ASSUME NEW v \in Videos, Background(v) PROVE TypeOK'
    BY <2>3, BackgroundTypeOK
  <2>4. ASSUME NEW v \in Videos, Transactions(v) PROVE TypeOK'
    BY <2>4, TransactionsTypeOK
  <2>5. ASSUME NEW w \in Workers,
               WorkerStep(w) \/ \E v \in Videos : ClaimVideo(w, v)
        PROVE  TypeOK'
    BY <2>5, WorkerTypeOK
  <2>6. CASE Shutdown \/ Crash \/ Exit
    BY <2>6, RestartTypeOK
  <2>7. CASE Tickers
    BY <2>7, TickersTypeOK
  <2> QED
    BY <2>1, <2>2, <2>3, <2>4, <2>5, <2>6, <2>7
       DEF Next, Background, Tickers, Transactions
<1> QED
  BY <1>1, <1>2, PTL DEF Spec

-----------------------------------------------------------------------------
(* A row exists once its upload request has begun.                         *)

(* No rewriting of a row creates it or makes it disappear. *)
LEMMA RowStatus ==
  ASSUME NEW r \in Row, NEW n \in Nat
  PROVE  /\ QueuedRow(r, n).status = r.status
         /\ ClaimedRow(r).status = r.status
         /\ ReleasedRow(r).status = r.status
         /\ FailedRow(r).status = IF r.status = "processing" THEN "failed" ELSE r.status
         /\ ReadyRow(r).status = IF r.submitted THEN "pending_review" ELSE "ready"
         /\ SubmittedRow(r).status =
              IF r.status = "processing" THEN "processing" ELSE "pending_review"
  BY DEF Row, QueuedRow, FailedRow, ClaimedRow, ReleasedRow, ReadyRow,
         StatusAfterTranscode, SubmittedRow

(* RowsInv survives a step that creates no row and starts no upload. *)
LEMMA RowsKept ==
  ASSUME RowsInv,
         \A v \in Videos : /\ row'[v].status = "none" <=> row[v].status = "none"
                           /\ up'[v] = "new" <=> up[v] = "new",
         deleting' \subseteq Videos,
         \A v \in deleting' \ deleting : row[v].status # "none"
  PROVE  RowsInv'
<1>1. ASSUME NEW v \in Videos PROVE up'[v] = "new" <=> row'[v].status = "none"
  <2>1. up[v] = "new" <=> row[v].status = "none"
    BY DEF RowsInv
  <2> QED
    BY <2>1
<1>2. ASSUME NEW v \in deleting' PROVE row'[v].status # "none"
  <2>1. row[v].status # "none"
    BY DEF RowsInv
  <2>2. v \in Videos
    OBVIOUS
  <2> QED
    BY <2>1, <2>2
<1> QED
  BY <1>1, <1>2 DEF RowsInv

(* The induction step of RowsInv. *)
LEMMA RowsStep ==
  ASSUME TypeOK, RowsInv, [Next]_vars
  PROVE  RowsInv'
<1>t. /\ row \in [Videos -> Row] /\ up \in [Videos -> UploadAt]
      /\ deleting \subseteq Videos
      /\ job \in [Workers -> Videos \cup {NoVideo}]
      /\ \A w \in Workers : at[w] = "idle" <=> job[w] = NoVideo
  BY DEF TypeOK
<1>s. \A v \in Videos : Size[v] \in Nat
  BY ConstantsOK DEF ConstantsOK
<1>1. ASSUME NEW v \in Videos, BeginUpload(v) PROVE RowsInv'
  <2>1. /\ up' = [up EXCEPT ![v] = "create"]
        /\ row' = [row EXCEPT ![v] = [row[v] EXCEPT !.status = "processing"]]
        /\ deleting' = deleting
    BY <1>1 DEF BeginUpload, UploadGoto
  <2>2. [row[v] EXCEPT !.status = "processing"].status = "processing"
    BY <1>t DEF Row
  <2> QED
    BY <2>1, <2>2, <1>t DEF RowsInv
<1>2. ASSUME NEW v \in Videos, UploadStep(v) PROVE RowsInv'
  <2>r. /\ row[v] \in Row
        /\ FailedRow(row[v]).status = "none" <=> row[v].status = "none"
        /\ QueuedRow(row[v], Size[v]).status = row[v].status
    BY <1>t, <1>s, RowStatus
  <2>1. CASE CreateUploadJob(v)
    BY <2>1, <2>r, <1>t, RowsKept DEF CreateUploadJob, UploadGoto
  <2>2. CASE StoreUpload(v) \/ LockOwner(v) \/ DiscardUpload(v)
    BY <2>2, <1>t, RowsKept DEF StoreUpload, LockOwner, DiscardUpload, UploadGoto
  <2>3. CASE CommitQueue(v)
    BY <2>3, <2>r, <1>t, RowsKept DEF CommitQueue, UploadGoto
  <2>4. CASE FailUpload(v)
    BY <2>4, <2>r, <1>t, RowsKept DEF FailUpload, MarkFailed, UploadGoto
  <2> QED
    BY <1>2, <2>1, <2>2, <2>3, <2>4 DEF UploadStep
<1>3. ASSUME NEW w \in Workers, WorkerStep(w) PROVE RowsInv'
  <2>h. at[w] # "idle"
    BY <1>3 DEF WorkerStep, OpenUploadJob, Encode, ReleaseClaim, ClearPublished,
       RenameOutput, MarkReady, Rollback, FailVideo, DiscardJob, CleanJob
  <2>r. /\ job[w] \in Videos
        /\ row[job[w]] \in Row
        /\ FailedRow(row[job[w]]).status = "none" <=> row[job[w]].status = "none"
        /\ ReleasedRow(row[job[w]]).status = row[job[w]].status
        /\ ReadyRow(row[job[w]]).status # "none"
    <3>1. job[w] \in Videos
      BY <2>h, <1>t
    <3>2. row[job[w]] \in Row
      BY <3>1, <1>t
    <3> QED
      BY <3>1, <3>2, RowStatus
  <2>1. CASE UNCHANGED row /\ UNCHANGED <<up, deleting>>
    BY <2>1, <1>t, RowsKept
  <2>3. CASE ReleaseClaim(w)
    BY <2>3, <2>r, <1>t, RowsKept DEF ReleaseClaim
  <2>4. CASE MarkReady(w)
    BY <2>4, <2>r, <1>t, RowsKept DEF MarkReady, Processing
  <2>5. CASE FailVideo(w)
    BY <2>5, <2>r, <1>t, RowsKept DEF FailVideo, MarkFailed
  <2> QED
    BY <1>3, <2>1, <2>3, <2>4, <2>5 DEF WorkerStep, OpenUploadJob, Encode,
       ClearPublished, RenameOutput, Rollback, DiscardJob, CleanJob
<1>4. ASSUME NEW w \in Workers, NEW v \in Videos, ClaimVideo(w, v) PROVE RowsInv'
  <2>1. row[v] \in Row /\ ClaimedRow(row[v]).status = row[v].status
    BY <1>t, RowStatus
  <2> QED
    BY <1>4, <2>1, <1>t, RowsKept DEF ClaimVideo
<1>5. ASSUME NEW v \in Videos, Background(v) PROVE RowsInv'
  <2>1. /\ row[v] \in Row
        /\ [row[v] EXCEPT !.stale = TRUE].status = row[v].status
    BY <1>t DEF Row
  <2> QED
    BY <1>5, <2>1, <1>t, RowsKept
       DEF Background, ClaimAges, HeartbeatExpires, SweepJob
<1>6. CASE Tickers
  <2>1. \A v \in Videos : ReleasedRow(row[v]).status = row[v].status
    BY <1>t, RowStatus
  <2> QED
    BY <1>6, <2>1, <1>t, RowsKept DEF Tickers, RecoverClaims, ListActiveJobs, EndSweep
<1>7. ASSUME NEW v \in Videos, Transactions(v) PROVE RowsInv'
  <2>r. row[v] \in Row /\ SubmittedRow(row[v]).status # "none"
    BY <1>t, RowStatus
  <2>q. \A s : [row[v] EXCEPT !.status = s].status = s
    BY <2>r DEF Row
  <2>1. CASE SubmitVideo(v)
    BY <2>1, <2>r, <1>t, RowsKept DEF SubmitVideo, RowOnly
  <2>2. CASE ApproveVideo(v) \/ RejectVideo(v) \/ TakeDownVideo(v)
    BY <2>2, <2>q, <1>t, RowsKept
       DEF ApproveVideo, RejectVideo, TakeDownVideo, Review, RowOnly
  <2>3. CASE DeleteVideo(v) \/ DeleteAdminVideo(v)
    BY <2>3, <1>t, RowsKept DEF DeleteVideo, DeleteAdminVideo, RemoveVideo
  <2>4. CASE CommitDelete(v)
    <3>1. row[v].status # "none"
      BY <2>4 DEF CommitDelete, RowsInv
    <3> QED
      BY <2>4, <3>1, <2>q, <1>t, RowsKept DEF CommitDelete
  <2>5. CASE AbortDelete(v)
    BY <2>5, <1>t, RowsKept DEF AbortDelete
  <2> QED
    BY <1>7, <2>1, <2>2, <2>3, <2>4, <2>5 DEF Transactions
<1>8. CASE Shutdown \/ Crash \/ Exit
  <2>1. \A v \in Videos : up'[v] = "new" <=> up[v] = "new"
    BY <1>8 DEF Shutdown, Crash, Exit, Restart
  <2>2. UNCHANGED row /\ deleting' \subseteq deleting
    BY <1>8 DEF Shutdown, Crash, Exit, Restart
  <2> QED
    BY <2>1, <2>2, <1>t, RowsKept
<1>9. CASE UNCHANGED vars
  BY <1>9 DEF vars, RowsInv
<1> QED
  BY <1>1, <1>2, <1>3, <1>4, <1>5, <1>6, <1>7, <1>8, <1>9
     DEF Next, Background, Tickers, Transactions

(* A row is in the table exactly when its upload request has begun, and    *)
(* deleteVideo works on existing rows only.                                *)
THEOREM RowsExist == Spec => []RowsInv
<1>1. Init => RowsInv
  BY DEF Init, RowsInv, NewRow
<1>2. TypeOK /\ RowsInv /\ [Next]_vars => RowsInv'
  BY RowsStep
<1> QED
  BY <1>1, <1>2, TypeCorrect, PTL DEF Spec

-----------------------------------------------------------------------------
(* The pipeline implements the life cycle of a video.                      *)

(* A step that rewrites the row of v alone is seen by the life cycle as a  *)
(* move of v, as a submission, or not at all.                              *)
LEMMA RowMove ==
  ASSUME NEW v \in Videos, NEW s, row' = [row EXCEPT ![v] = s],
         row \in [Videos -> Row], s.submitted = row[v].submitted
  PROVE  /\ [u \in Videos |-> row'[u].status] =
              [[u \in Videos |-> row[u].status] EXCEPT ![v] = s.status]
         /\ [u \in Videos |-> row'[u].submitted] = [u \in Videos |-> row[u].submitted]
  OBVIOUS

(* A step that keeps status and submission is not seen. *)
LEMMA RowKept ==
  ASSUME \A u \in Videos : /\ row'[u].status = row[u].status
                           /\ row'[u].submitted = row[u].submitted
  PROVE  UNCHANGED Lifecycle!vars
  BY DEF Lifecycle!vars

(* What the rewritings of a row do to the owner's submission. *)
LEMMA RowSubmitted ==
  ASSUME NEW r \in Row, NEW n \in Nat
  PROVE  /\ QueuedRow(r, n).submitted = r.submitted
         /\ ClaimedRow(r).submitted = r.submitted
         /\ ReleasedRow(r).submitted = r.submitted
         /\ FailedRow(r).submitted = r.submitted
         /\ ReadyRow(r).submitted = r.submitted
         /\ SubmittedRow(r).submitted = TRUE
  BY DEF Row, QueuedRow, ClaimedRow, ReleasedRow, FailedRow, ReadyRow,
         StatusAfterTranscode, SubmittedRow

SimulatedStep == [Lifecycle!Next]_(Lifecycle!vars)

(* The rows whose status and submission a step keeps are not seen to move. *)
LEMMA KeptRow ==
  ASSUME NEW v \in Videos, NEW r, row \in [Videos -> Row],
         row' = [row EXCEPT ![v] = r],
         r.status = row[v].status, r.submitted = row[v].submitted
  PROVE  SimulatedStep
  BY RowKept DEF SimulatedStep

(* markVideoUploadFailed is the life cycle's Fail, or nothing. *)
LEMMA FailSimulation ==
  ASSUME TypeOK, TypeOK', NEW v \in Videos,
         row' = [row EXCEPT ![v] = FailedRow(@)]
  PROVE  SimulatedStep
<1>1. row \in [Videos -> Row] /\ row[v] \in Row
  BY DEF TypeOK
<1>2. FailedRow(row[v]).submitted = row[v].submitted
  BY <1>1, RowSubmitted
<1>3. CASE Processing(v)
  <2>1. FailedRow(row[v]).status = "failed"
    BY <1>1, <1>3, RowStatus DEF Processing
  <2>3. Lifecycle!Fail(v)
    BY <1>1, <1>2, <1>3, <2>1, RowMove DEF Processing, Lifecycle!Fail, Lifecycle!Move
  <2> QED
    BY <2>3 DEF SimulatedStep, Lifecycle!Next
<1>4. CASE ~Processing(v)
  BY <1>1, <1>2, <1>4, RowStatus, KeptRow DEF Processing
<1> QED
  BY <1>3, <1>4

(* markVideoUploadReady is the life cycle's Finish. *)
LEMMA FinishSimulation ==
  ASSUME TypeOK, NEW v \in Videos, Processing(v),
         row' = [row EXCEPT ![v] = ReadyRow(@)]
  PROVE  SimulatedStep
<1>1. row \in [Videos -> Row] /\ row[v] \in Row
  BY DEF TypeOK
<1>2. ReadyRow(row[v]).status = IF row[v].submitted THEN "pending_review" ELSE "ready"
  BY <1>1, RowStatus
<1>3. ReadyRow(row[v]).submitted = row[v].submitted
  BY <1>1, RowSubmitted
<1>4. Lifecycle!Finish(v)
  BY <1>1, <1>2, <1>3, RowMove DEF Processing, Lifecycle!Finish, Lifecycle!Move
<1> QED
  BY <1>4 DEF SimulatedStep, Lifecycle!Next

(* Every step of the upload request is a life cycle step, or none. *)
LEMMA UploadSimulation ==
  ASSUME TypeOK, TypeOK', RowsInv, NEW v \in Videos, BeginUpload(v) \/ UploadStep(v)
  PROVE  SimulatedStep
<1>t. row \in [Videos -> Row] /\ row[v] \in Row /\ Size[v] \in Nat
  BY ConstantsOK DEF TypeOK, ConstantsOK
<1>0. CASE UNCHANGED row
  BY <1>0, RowKept DEF SimulatedStep
<1>1. CASE BeginUpload(v)
  <2>1. row[v].status = "none"
    BY <1>1 DEF BeginUpload, UploadGoto, RowsInv
  <2>2. row' = [row EXCEPT ![v] = [row[v] EXCEPT !.status = "processing"]]
    BY <1>1 DEF BeginUpload
  <2>3. /\ [row[v] EXCEPT !.status = "processing"].status = "processing"
        /\ [row[v] EXCEPT !.status = "processing"].submitted = row[v].submitted
    BY <1>t DEF Row
  <2>4. Lifecycle!Upload(v)
    BY <1>t, <2>1, <2>2, <2>3, RowMove DEF Lifecycle!Upload, Lifecycle!Move
  <2> QED
    BY <2>4 DEF SimulatedStep, Lifecycle!Next
<1>2. CASE CreateUploadJob(v) \/ FailUpload(v)
  BY <1>2, <1>0, FailSimulation DEF CreateUploadJob, FailUpload, MarkFailed
<1>3. CASE CommitQueue(v)
  <2>1. QueuedRow(row[v], Size[v]).status = row[v].status
    BY <1>t, RowStatus
  <2>3. QueuedRow(row[v], Size[v]).submitted = row[v].submitted
    BY <1>t, RowSubmitted
  <2>2. \/ UNCHANGED row
        \/ row' = [row EXCEPT ![v] = QueuedRow(row[v], Size[v])]
    BY <1>3 DEF CommitQueue
  <2> QED
    BY <1>0, <1>t, <2>1, <2>2, <2>3, KeptRow
<1>4. CASE StoreUpload(v) \/ LockOwner(v) \/ DiscardUpload(v)
  BY <1>4, <1>0 DEF StoreUpload, LockOwner, DiscardUpload
<1> QED
  BY <1>1, <1>2, <1>3, <1>4 DEF UploadStep

(* Every step of a worker is a life cycle step, or none. *)
LEMMA WorkerSimulation ==
  ASSUME TypeOK, TypeOK', NEW w \in Workers,
         WorkerStep(w) \/ \E v \in Videos : ClaimVideo(w, v)
  PROVE  SimulatedStep
<1>0. CASE UNCHANGED row
  BY <1>0, RowKept DEF SimulatedStep
<1>t. row \in [Videos -> Row]
  BY DEF TypeOK
<1>1. ASSUME NEW v \in Videos, ClaimVideo(w, v) PROVE SimulatedStep
  <2>1. /\ ClaimedRow(row[v]).status = row[v].status
        /\ ClaimedRow(row[v]).submitted = row[v].submitted
    BY <1>t, RowStatus, RowSubmitted
  <2> QED
    BY <1>1, <1>t, <2>1, KeptRow DEF ClaimVideo
<1>2. CASE WorkerStep(w)
  <2>h. at[w] # "idle"
    BY <1>2 DEF WorkerStep, OpenUploadJob, Encode, ReleaseClaim, ClearPublished,
       RenameOutput, MarkReady, Rollback, FailVideo, DiscardJob, CleanJob
  <2>v. job[w] \in Videos
    BY <2>h DEF TypeOK
  <2>r. row[job[w]] \in Row
    BY <2>v, <1>t
  <2>1. CASE ReleaseClaim(w)
    <3>1. /\ ReleasedRow(row[job[w]]).status = row[job[w]].status
          /\ ReleasedRow(row[job[w]]).submitted = row[job[w]].submitted
      BY <2>r, RowStatus, RowSubmitted
    <3> QED
      BY <2>1, <1>0, <1>t, <2>v, <3>1, KeptRow DEF ReleaseClaim
  <2>2. CASE MarkReady(w)
    <3>1. SUFFICES ASSUME Processing(job[w]),
                          row' = [row EXCEPT ![job[w]] = ReadyRow(@)]
                   PROVE  SimulatedStep
      BY <2>2, <1>0 DEF MarkReady
    <3> QED
      BY <3>1, <2>v, FinishSimulation
  <2>3. CASE FailVideo(w)
    BY <2>3, <1>0, <2>v, FailSimulation DEF FailVideo, MarkFailed
  <2> QED
    BY <1>2, <1>0, <2>1, <2>2, <2>3 DEF WorkerStep, OpenUploadJob, Encode,
       ClearPublished, RenameOutput, Rollback, DiscardJob, CleanJob
<1> QED
  BY <1>1, <1>2

(* Every transaction is a life cycle step, or none. *)
LEMMA TransactionSimulation ==
  ASSUME TypeOK, TypeOK', RowsInv, NEW v \in Videos, Transactions(v)
  PROVE  SimulatedStep
<1>t. row \in [Videos -> Row] /\ row[v] \in Row
  BY DEF TypeOK
<1>0. CASE UNCHANGED row
  BY <1>0, RowKept DEF SimulatedStep
<1>1. CASE SubmitVideo(v)
  <2>1. /\ row'[v].status =
              IF Processing(v) THEN "processing" ELSE "pending_review"
        /\ row'[v].submitted = TRUE
        /\ \A u \in Videos \ {v} : row'[u] = row[u]
    <3>1. row' = [row EXCEPT ![v] = SubmittedRow(row[v])]
      BY <1>1 DEF SubmitVideo
    <3>2. /\ SubmittedRow(row[v]).status =
                IF row[v].status = "processing" THEN "processing" ELSE "pending_review"
          /\ SubmittedRow(row[v]).submitted = TRUE
      BY <1>t, RowStatus, RowSubmitted
    <3> QED
      BY <1>t, <3>1, <3>2 DEF Processing
  <2>2. Lifecycle!Submit(v)
    BY <1>1, <1>t, <2>1 DEF SubmitVideo, Processing, Lifecycle!Submit, Lifecycle!Move
  <2> QED
    BY <2>2 DEF SimulatedStep, Lifecycle!Next
<1>2. \A s : /\ [row[v] EXCEPT !.status = s].status = s
             /\ [row[v] EXCEPT !.status = s].submitted = row[v].submitted
  BY <1>t DEF Row
<1>3. CASE ApproveVideo(v)
  <2>1. Lifecycle!Approve(v)
    BY <1>3, <1>2, <1>t, RowMove DEF ApproveVideo, Review, Lifecycle!Approve, Lifecycle!Move
  <2> QED
    BY <2>1 DEF SimulatedStep, Lifecycle!Next
<1>4. CASE RejectVideo(v)
  <2>1. Lifecycle!Reject(v)
    BY <1>4, <1>2, <1>t, RowMove DEF RejectVideo, Review, Lifecycle!Reject, Lifecycle!Move
  <2> QED
    BY <2>1 DEF SimulatedStep, Lifecycle!Next
<1>5. CASE TakeDownVideo(v)
  <2>1. Lifecycle!TakeDown(v)
    BY <1>5, <1>2, <1>t, RowMove DEF TakeDownVideo, Review, Lifecycle!TakeDown, Lifecycle!Move
  <2> QED
    BY <2>1 DEF SimulatedStep, Lifecycle!Next
<1>6. CASE CommitDelete(v)
  <2>1. row[v].status \in Lifecycle!Status \ {"none"}
    BY <1>6, <1>t DEF CommitDelete, RowsInv, Row, Status, Lifecycle!Status
  <2>2. Lifecycle!Delete(v)
    BY <1>6, <1>2, <1>t, <2>1, RowMove DEF CommitDelete, Lifecycle!Delete, Lifecycle!Move
  <2> QED
    BY <2>2 DEF SimulatedStep, Lifecycle!Next
<1>7. CASE DeleteVideo(v) \/ DeleteAdminVideo(v) \/ AbortDelete(v)
  BY <1>7, <1>0 DEF DeleteVideo, DeleteAdminVideo, RemoveVideo, AbortDelete
<1> QED
  BY <1>1, <1>3, <1>4, <1>5, <1>6, <1>7 DEF Transactions

(* Every step of the pipeline is a step of the life cycle, or stutters.    *)
LEMMA StepSimulation ==
  ASSUME TypeOK, TypeOK', RowsInv, [Next]_vars
  PROVE  SimulatedStep
<1>t. row \in [Videos -> Row]
  BY DEF TypeOK
<1>0. CASE UNCHANGED row
  BY <1>0, RowKept DEF SimulatedStep
<1>1. ASSUME NEW v \in Videos, BeginUpload(v) \/ UploadStep(v) PROVE SimulatedStep
  BY <1>1, UploadSimulation
<1>2. ASSUME NEW v \in Videos, Background(v) PROVE SimulatedStep
  <2>1. /\ [row[v] EXCEPT !.stale = TRUE].status = row[v].status
        /\ [row[v] EXCEPT !.stale = TRUE].submitted = row[v].submitted
    BY <1>t DEF Row
  <2> QED
    BY <1>2, <1>0, <1>t, <2>1, KeptRow DEF Background, ClaimAges, HeartbeatExpires, SweepJob
<1>3. CASE Tickers
  <2>1. \A v \in Videos : /\ ReleasedRow(row[v]).status = row[v].status
                          /\ ReleasedRow(row[v]).submitted = row[v].submitted
    BY <1>t, RowStatus, RowSubmitted
  <2>2. CASE RecoverClaims
    BY <2>1, <2>2, RowKept DEF RecoverClaims, SimulatedStep
  <2> QED
    BY <1>3, <1>0, <2>2 DEF Tickers, ListActiveJobs, EndSweep
<1>4. ASSUME NEW v \in Videos, Transactions(v) PROVE SimulatedStep
  BY <1>4, TransactionSimulation
<1>5. ASSUME NEW w \in Workers,
             WorkerStep(w) \/ \E v \in Videos : ClaimVideo(w, v)
      PROVE  SimulatedStep
  BY <1>5, WorkerSimulation
<1>6. CASE Shutdown \/ Crash \/ Exit
  BY <1>6, <1>0 DEF Shutdown, Crash, Exit, Restart
<1>7. CASE UNCHANGED vars
  BY <1>7, <1>0 DEF vars
<1> QED
  BY <1>1, <1>2, <1>3, <1>4, <1>5, <1>6, <1>7
     DEF Next, Background, Tickers, Transactions

(* The handlers, the workers and the transactions together move a video's  *)
(* status only along the edges of the life cycle.                          *)
THEOREM Implements == Spec => RefinesLifecycle
<1>1. Init => Lifecycle!Init
  BY DEF Init, NewRow, Lifecycle!Init
<1>2. TypeOK /\ TypeOK' /\ RowsInv /\ [Next]_vars => [Lifecycle!Next]_(Lifecycle!vars)
  BY StepSimulation DEF SimulatedStep
<1> QED
  BY <1>1, <1>2, TypeCorrect, RowsExist, PTL DEF Spec, RefinesLifecycle, Lifecycle!Spec

(* In the life cycle itself statuses and submissions keep their types. *)
LEMMA LifecycleTypes == Lifecycle!Spec => []Lifecycle!TypeOK
<1>1. Lifecycle!Init => Lifecycle!TypeOK
  BY DEF Lifecycle!Init, Lifecycle!TypeOK, Lifecycle!Status
<1>2. Lifecycle!TypeOK /\ [Lifecycle!Next]_(Lifecycle!vars) => Lifecycle!TypeOK'
  BY DEF Lifecycle!TypeOK, Lifecycle!Status, Lifecycle!Next, Lifecycle!vars,
         Lifecycle!Move, Lifecycle!Upload, Lifecycle!Finish, Lifecycle!Fail,
         Lifecycle!Submit, Lifecycle!Approve, Lifecycle!Reject,
         Lifecycle!TakeDown, Lifecycle!Delete
<1> QED
  BY <1>1, <1>2, PTL DEF Lifecycle!Spec

(* Whatever the order of submission and transcode, a video shown or queued *)
(* for review was submitted and one left in "ready" was not: the promise   *)
(* of SubmitVideoForReview and videoStatusAfterTranscode.  It follows from *)
(* the life cycle alone.                                                   *)
THEOREM SubmissionDecidesHolds == Lifecycle!Spec => []Lifecycle!SubmissionDecides
<1> USE DEF Lifecycle!SubmissionDecides
<1>1. Lifecycle!Init => Lifecycle!SubmissionDecides
  BY DEF Lifecycle!Init
<1>2. Lifecycle!TypeOK /\ Lifecycle!SubmissionDecides
        /\ [Lifecycle!Next]_(Lifecycle!vars) => Lifecycle!SubmissionDecides'
  <2> SUFFICES ASSUME Lifecycle!TypeOK, Lifecycle!SubmissionDecides,
                      [Lifecycle!Next]_(Lifecycle!vars)
               PROVE  Lifecycle!SubmissionDecides'
    OBVIOUS
  <2> USE DEF Lifecycle!TypeOK, Lifecycle!Move
  <2>1. ASSUME NEW v \in Videos,
               Lifecycle!Upload(v) \/ Lifecycle!Fail(v) \/ Lifecycle!Delete(v)
        PROVE  Lifecycle!SubmissionDecides'
    BY <2>1 DEF Lifecycle!Upload, Lifecycle!Fail, Lifecycle!Delete
  <2>2. ASSUME NEW v \in Videos, Lifecycle!Finish(v)
        PROVE  Lifecycle!SubmissionDecides'
    BY <2>2 DEF Lifecycle!Finish
  <2>3. ASSUME NEW v \in Videos, Lifecycle!Submit(v)
        PROVE  Lifecycle!SubmissionDecides'
    BY <2>3 DEF Lifecycle!Submit
  <2>4. ASSUME NEW v \in Videos,
               Lifecycle!Approve(v) \/ Lifecycle!Reject(v) \/ Lifecycle!TakeDown(v)
        PROVE  Lifecycle!SubmissionDecides'
    BY <2>4 DEF Lifecycle!Approve, Lifecycle!Reject, Lifecycle!TakeDown
  <2>5. CASE UNCHANGED Lifecycle!vars
    BY <2>5 DEF Lifecycle!vars
  <2> QED
    BY <2>1, <2>2, <2>3, <2>4, <2>5 DEF Lifecycle!Next
<1> QED
  BY <1>1, <1>2, LifecycleTypes, PTL DEF Lifecycle!Spec

(* Submission and transcode converge in the running system as well. *)
THEOREM SubmissionDecidesAlways == Spec => []SubmissionDecides
  BY Implements, SubmissionDecidesHolds, PTL DEF RefinesLifecycle, SubmissionDecides

-----------------------------------------------------------------------------
(* Exclusive claims, as long as no live worker outlasts staleAfter.        *)

(* The step leaves v to the worker that holds it. *)
KeepsClaim(v) ==
  /\ row[v].status # "none" => row'[v].status # "none"
  /\ row'[v].status = "processing" /\ row[v].status # "none" =>
       /\ row[v].status = "processing"
       /\ row'[v].claimed = row[v].claimed /\ row'[v].stale = row[v].stale

(* Claims survive when every video still held keeps its claim. *)
LEMMA ClaimKept ==
  ASSUME ClaimInv, RowsInv',
         \A w \in Workers : job'[w] = job[w] \/ job'[w] = NoVideo,
         \A w \in Workers : job'[w] # NoVideo => KeepsClaim(job[w])
  PROVE  ClaimInv'
<1>1. ASSUME NEW w \in Workers, job'[w] # NoVideo
      PROVE  /\ row'[job'[w]].status # "none"
             /\ row'[job'[w]].status = "processing" =>
                  row'[job'[w]].claimed /\ ~row'[job'[w]].stale
  <2>1. job'[w] = job[w] /\ KeepsClaim(job[w])
    BY <1>1
  <2>2. /\ row[job[w]].status # "none"
        /\ row[job[w]].status = "processing" =>
             row[job[w]].claimed /\ ~row[job[w]].stale
    BY <1>1, <2>1 DEF ClaimInv, Processing
  <2> QED
    BY <2>1, <2>2 DEF KeepsClaim
<1>2. OneWorkerPerVideo'
  BY DEF ClaimInv, OneWorkerPerVideo
<1> QED
  BY <1>1, <1>2 DEF ClaimInv, Processing

(* How the rewritings of a row treat the claim on it. *)
LEMMA RowClaim ==
  ASSUME NEW r \in Row, NEW n \in Nat
  PROVE  /\ QueuedRow(r, n).claimed = r.claimed /\ QueuedRow(r, n).stale = r.stale
         /\ SubmittedRow(r).claimed = r.claimed /\ SubmittedRow(r).stale = r.stale
         /\ ClaimedRow(r).claimed = TRUE /\ ClaimedRow(r).stale = FALSE
         /\ FailedRow(r).status # "processing" /\ ReadyRow(r).status # "processing"
  BY DEF Row, QueuedRow, SubmittedRow, ClaimedRow, FailedRow, ReadyRow,
         StatusAfterTranscode

(* Every worker's claim survives a step that rewrites one row and leaves   *)
(* the workers' videos alone, or takes one away.                           *)
LEMMA ClaimKeptRow ==
  ASSUME TypeOK, ClaimInv, RowsInv', NEW v \in Videos, NEW r,
         row' = [row EXCEPT ![v] = r],
         row[v].status # "none" => r.status # "none",
         r.status = "processing" /\ row[v].status # "none" =>
           /\ row[v].status = "processing"
           /\ r.claimed = row[v].claimed /\ r.stale = row[v].stale,
         \A w \in Workers : job'[w] = job[w] \/ job'[w] = NoVideo
  PROVE  ClaimInv'
<1>1. row \in [Videos -> Row] /\ job \in [Workers -> Videos \cup {NoVideo}]
  BY DEF TypeOK
<1>2. ASSUME NEW w \in Workers, job'[w] # NoVideo PROVE KeepsClaim(job[w])
  <2>1. job[w] \in Videos
    BY <1>1, <1>2
  <2>2. CASE job[w] = v
    BY <1>1, <2>2 DEF KeepsClaim
  <2>3. CASE job[w] # v
    BY <1>1, <2>1, <2>3 DEF KeepsClaim
  <2> QED
    BY <2>2, <2>3
<1> QED
  BY <1>2, ClaimKept

(* Claims survive when no row changes. *)
LEMMA ClaimKeptSame ==
  ASSUME TypeOK, ClaimInv, RowsInv', UNCHANGED row,
         \A w \in Workers : job'[w] = job[w] \/ job'[w] = NoVideo
  PROVE  ClaimInv'
  BY ClaimKept DEF KeepsClaim

(* The induction step behind exclusive claims. *)
LEMMA ClaimStep ==
  ASSUME TypeOK, ClaimInv, RowsInv', ~SlowTranscode, [Next]_vars
  PROVE  ClaimInv'
<1>t. /\ row \in [Videos -> Row]
      /\ job \in [Workers -> Videos \cup {NoVideo}]
      /\ \A w \in Workers : at[w] = "idle" <=> job[w] = NoVideo
  BY DEF TypeOK
<1>r. RowsInv
  BY DEF ClaimInv
<1>0. CASE UNCHANGED row /\ \A w \in Workers : job'[w] = job[w] \/ job'[w] = NoVideo
  BY <1>0, ClaimKeptSame
<1>f. ASSUME NEW v \in Videos, row' = [row EXCEPT ![v] = FailedRow(@)], UNCHANGED job
      PROVE  ClaimInv'
  <2>1. row[v] \in Row
    BY <1>t
  <2>2. FailedRow(row[v]).status # "processing"
    BY <2>1, RowClaim
  <2>3. FailedRow(row[v]).status = "none" => row[v].status = "none"
    BY <2>1, RowStatus
  <2> QED
    BY <1>f, <2>2, <2>3, ClaimKeptRow
<1>1. ASSUME NEW v \in Videos, BeginUpload(v) PROVE ClaimInv'
  <2>1. row[v].status = "none"
    BY <1>1, <1>r DEF BeginUpload, UploadGoto, RowsInv
  <2>2. row' = [row EXCEPT ![v] = [row[v] EXCEPT !.status = "processing"]]
    BY <1>1 DEF BeginUpload
  <2> QED
    BY <1>1, <2>1, <2>2, ClaimKeptRow DEF BeginUpload
<1>2. ASSUME NEW v \in Videos, UploadStep(v) PROVE ClaimInv'
  <2>1. CASE CreateUploadJob(v) \/ FailUpload(v)
    BY <2>1, <1>0, <1>f DEF CreateUploadJob, FailUpload, MarkFailed
  <2>2. CASE CommitQueue(v)
    <3>1. row[v] \in Row /\ Size[v] \in Nat
      BY <1>t, ConstantsOK DEF ConstantsOK
    <3>2. QueuedRow(row[v], Size[v]).status = row[v].status
      BY <3>1, RowStatus
    <3>3. /\ QueuedRow(row[v], Size[v]).claimed = row[v].claimed
          /\ QueuedRow(row[v], Size[v]).stale = row[v].stale
      BY <3>1, RowClaim
    <3>4. UNCHANGED job /\ (\/ UNCHANGED row
                            \/ row' = [row EXCEPT ![v] = QueuedRow(row[v], Size[v])])
      BY <2>2 DEF CommitQueue
    <3> QED
      BY <1>0, <3>2, <3>3, <3>4, ClaimKeptRow
  <2>3. CASE StoreUpload(v) \/ LockOwner(v) \/ DiscardUpload(v)
    BY <2>3, <1>0 DEF StoreUpload, LockOwner, DiscardUpload
  <2> QED
    BY <1>2, <2>1, <2>2, <2>3 DEF UploadStep
<1>3. ASSUME NEW w \in Workers, WorkerStep(w) PROVE ClaimInv'
  <2>h. at[w] # "idle"
    BY <1>3 DEF WorkerStep, OpenUploadJob, Encode, ReleaseClaim, ClearPublished,
       RenameOutput, MarkReady, Rollback, FailVideo, DiscardJob, CleanJob
  <2>v. job[w] \in Videos /\ row[job[w]] \in Row
    BY <2>h, <1>t
  <2>1. CASE ReleaseClaim(w)
    <3>1. UNCHANGED row \/ row' = [row EXCEPT ![job[w]] = ReleasedRow(@)]
      BY <2>1 DEF ReleaseClaim
    <3>2. job' = [job EXCEPT ![w] = NoVideo]
      BY <2>1 DEF ReleaseClaim, WorkerEnds
    <3>3. ASSUME NEW u \in Workers, job'[u] # NoVideo PROVE KeepsClaim(job[u])
      <4>1. u # w /\ job[u] # NoVideo
        BY <3>2, <3>3, <1>t
      <4>2. job[u] # job[w] /\ job[u] \in Videos
        BY <4>1, <1>t DEF ClaimInv, OneWorkerPerVideo
      <4> QED
        BY <3>1, <4>2, <1>t DEF KeepsClaim
    <3> QED
      BY <3>2, <3>3, <1>t, ClaimKept
  <2>2. CASE MarkReady(w)
    <3>1. UNCHANGED job /\ (UNCHANGED row \/ row' = [row EXCEPT ![job[w]] = ReadyRow(@)])
      BY <2>2 DEF MarkReady
    <3>2. ReadyRow(row[job[w]]).status \notin {"processing", "none"}
      BY <2>v, RowStatus
    <3> QED
      BY <1>0, <2>v, <3>1, <3>2, ClaimKeptRow
  <2>3. CASE FailVideo(w)
    BY <2>3, <1>0, <1>f, <2>v DEF FailVideo, MarkFailed
  <2>4. CASE OpenUploadJob(w) \/ Encode(w) \/ ClearPublished(w) \/ RenameOutput(w)
    BY <2>4, <1>0 DEF OpenUploadJob, Encode, ClearPublished, RenameOutput
  <2>5. CASE Rollback(w) \/ DiscardJob(w) \/ CleanJob(w)
    BY <2>5, <1>0, <1>t DEF Rollback, DiscardJob, CleanJob, WorkerEnds
  <2> QED
    BY <1>3, <2>1, <2>2, <2>3, <2>4, <2>5 DEF WorkerStep
<1>4. ASSUME NEW w \in Workers, NEW v \in Videos, ClaimVideo(w, v) PROVE ClaimInv'
  <2>1. /\ row[v] \in Row /\ row[v].status = "processing" /\ ~row[v].claimed
        /\ job' = [job EXCEPT ![w] = v]
        /\ row' = [row EXCEPT ![v] = ClaimedRow(row[v])]
    BY <1>4, <1>t DEF ClaimVideo, Claimable, Processing
  <2>2. ASSUME NEW u \in Workers PROVE job[u] # v
    <3>1. v # NoVideo
      BY ConstantsOK DEF ConstantsOK, NoVideo
    <3> QED
      BY <2>1, <3>1 DEF ClaimInv, Processing
  <2>3. /\ ClaimedRow(row[v]).status = "processing"
        /\ ClaimedRow(row[v]).claimed /\ ~ClaimedRow(row[v]).stale
    <3>1. ClaimedRow(row[v]).status = "processing"
      BY <2>1, RowStatus
    <3> QED
      BY <2>1, <3>1, RowClaim
  <2>4. ASSUME NEW u \in Workers, job'[u] # NoVideo
        PROVE  /\ row'[job'[u]].status # "none"
               /\ row'[job'[u]].status = "processing" =>
                    row'[job'[u]].claimed /\ ~row'[job'[u]].stale
    <3>1. CASE u = w
      BY <2>1, <2>3, <3>1, <1>t
    <3>2. CASE u # w
      <4>1. job'[u] = job[u] /\ job[u] \in Videos /\ job[u] # v
        BY <2>1, <2>2, <2>4, <3>2, <1>t
      <4>2. row'[job[u]] = row[job[u]]
        BY <2>1, <4>1, <1>t
      <4> QED
        BY <2>4, <4>1, <4>2 DEF ClaimInv, Processing
    <3> QED
      BY <3>1, <3>2
  <2>5. OneWorkerPerVideo'
    BY <2>1, <2>2, <1>t DEF ClaimInv, OneWorkerPerVideo
  <2> QED
    BY <2>4, <2>5 DEF ClaimInv, Processing
<1>5. ASSUME NEW v \in Videos, Background(v) PROVE ClaimInv'
  <2>1. CASE ClaimAges(v)
    <3>1. /\ UNCHANGED job /\ \A w \in Workers : job[w] # v
          /\ row' = [row EXCEPT ![v].stale = TRUE]
      BY <2>1 DEF ClaimAges, Held
    <3>2. \A w \in Workers : job[w] # NoVideo => KeepsClaim(job[w])
      BY <3>1, <1>t DEF KeepsClaim
    <3> QED
      BY <3>1, <3>2, ClaimKept
  <2>2. CASE HeartbeatExpires(v) \/ SweepJob(v)
    BY <2>2, <1>0 DEF HeartbeatExpires, SweepJob
  <2> QED
    BY <1>5, <2>1, <2>2 DEF Background
<1>6. CASE Tickers
  <2>1. CASE RecoverClaims
    <3>1. UNCHANGED job
      BY <2>1 DEF RecoverClaims
    <3>2. ASSUME NEW w \in Workers, job'[w] # NoVideo PROVE KeepsClaim(job[w])
      <4>1. job[w] \in Videos
        BY <3>1, <3>2, <1>t
      <4>2. job[w] \notin StaleClaims
        BY <3>1, <3>2 DEF StaleClaims, ClaimInv
      <4>3. row'[job[w]] = row[job[w]]
        BY <2>1, <4>1, <4>2 DEF RecoverClaims
      <4> QED
        BY <4>3 DEF KeepsClaim
    <3> QED
      BY <3>1, <3>2, ClaimKept
  <2> QED
    BY <1>6, <1>0, <2>1 DEF Tickers, ListActiveJobs, EndSweep
<1>7. ASSUME NEW v \in Videos, Transactions(v) PROVE ClaimInv'
  <2>r. row[v] \in Row
    BY <1>t
  <2>1. CASE SubmitVideo(v)
    <3>1. SubmittedRow(row[v]).status =
            IF row[v].status = "processing" THEN "processing" ELSE "pending_review"
      BY <2>r, RowStatus
    <3>2. /\ SubmittedRow(row[v]).claimed = row[v].claimed
          /\ SubmittedRow(row[v]).stale = row[v].stale
      BY <2>r, RowClaim
    <3> QED
      BY <2>1, <3>1, <3>2, ClaimKeptRow DEF SubmitVideo, RowOnly
  <2>2. ASSUME NEW s, s \notin {"processing", "none"}, UNCHANGED job,
               row' = [row EXCEPT ![v].status = s]
        PROVE  ClaimInv'
    <3>1. [row[v] EXCEPT !.status = s].status = s
      BY <2>r DEF Row
    <3> QED
      BY <2>2, <3>1, ClaimKeptRow
  <2>3. CASE ApproveVideo(v) \/ RejectVideo(v) \/ TakeDownVideo(v)
    BY <2>3, <2>2 DEF ApproveVideo, RejectVideo, TakeDownVideo, Review, RowOnly
  <2>4. CASE CommitDelete(v)
    <3>1. UNCHANGED job /\ row' = [row EXCEPT ![v].status = "deleted"]
      BY <2>4 DEF CommitDelete
    <3>2. [row[v] EXCEPT !.status = "deleted"].status = "deleted"
      BY <2>r DEF Row
    <3> QED
      BY <3>1, <3>2, ClaimKeptRow
  <2>5. CASE DeleteVideo(v) \/ DeleteAdminVideo(v) \/ AbortDelete(v)
    BY <2>5, <1>0 DEF DeleteVideo, DeleteAdminVideo, RemoveVideo, AbortDelete
  <2> QED
    BY <1>7, <2>1, <2>3, <2>4, <2>5 DEF Transactions
<1>8. CASE Shutdown \/ Crash \/ Exit
  BY <1>8, <1>0 DEF Shutdown, Crash, Exit, Restart
<1>9. CASE UNCHANGED vars
  BY <1>9, <1>0 DEF vars
<1> QED
  BY <1>1, <1>2, <1>3, <1>4, <1>5, <1>6, <1>7, <1>8, <1>9
     DEF Next, Background, Tickers, Transactions

(* The inductive invariant behind exclusive claims: a held row that is     *)
(* still processing is claimed, and too young for RecoverClaims.           *)
THEOREM ClaimsHeld ==
  ASSUME ~SlowTranscode
  PROVE  Spec => []ClaimInv
<1>1. Init => ClaimInv
  BY DEF Init, NewRow, ClaimInv, RowsInv, OneWorkerPerVideo
<1>2. TypeOK /\ ClaimInv /\ RowsInv' /\ [Next]_vars => ClaimInv'
  BY ClaimStep
<1> QED
  BY <1>1, <1>2, TypeCorrect, RowsExist, PTL DEF Spec

(* FOR UPDATE SKIP LOCKED, the claim mark and staleAfter together keep     *)
(* every video with one worker, through crashes, shutdowns and recoveries, *)
(* as long as no live worker outlasts staleAfter.                          *)
THEOREM ExclusiveClaims ==
  ASSUME ~SlowTranscode
  PROVE  Spec => []OneWorkerPerVideo
<1>1. ClaimInv => OneWorkerPerVideo
  BY DEF ClaimInv
<1> QED
  BY <1>1, ClaimsHeld, PTL

-----------------------------------------------------------------------------
(* Media of servable rows, when no commit's acknowledgement is lost.       *)

(* A step of the upload request for v: no worker holds v yet.              *)
LEMMA UploadMedia ==
  ASSUME TypeOK, MediaInv, NEW v \in Videos, up[v] # "done",
         UNCHANGED <<dash, at, job, deleting, robbed, janitor>>,
         \A u \in Videos \ {v} : row'[u] = row[u] /\ dir'[u] = dir[u] /\ up'[u] = up[u],
         cold' \subseteq cold,
         row'[v].status \in Servable => row'[v].status = row[v].status,
         row'[v].queued => up'[v] = "done"
  PROVE  MediaInv'
<1>1. MediaPresent'
  <2>1. ASSUME NEW u \in Videos, row'[u].status \in Servable
        PROVE  row[u].status \in Servable
    BY <2>1
  <2> QED
    BY <2>1 DEF MediaInv, MediaPresent
<1>2. ASSUME NEW u \in Videos, row'[u].queued PROVE up'[u] = "done"
  BY <1>2 DEF MediaInv
<1>3. ASSUME NEW w \in Workers, at'[w] # "idle" PROVE WorkerMedia(w)'
  <2>1. WorkerMedia(w) /\ job[w] \in Videos
    BY <1>3 DEF MediaInv, TypeOK
  <2>2. job[w] # v
    BY <2>1 DEF WorkerMedia
  <2>3. row'[job[w]] = row[job[w]] /\ dir'[job[w]] = dir[job[w]] /\ up'[job[w]] = up[job[w]]
    BY <2>1, <2>2
  <2> QED
    BY <2>1, <2>3 DEF WorkerMedia, Processing, SafeFromSweep
<1> QED
  BY <1>1, <1>2, <1>3 DEF MediaInv

(* A step of the only worker that holds v. *)
LEMMA HolderMedia ==
  ASSUME TypeOK, MediaInv, OneWorkerPerVideo,
         NEW w \in Workers, NEW v \in Videos, \A u \in Workers \ {w} : job[u] # v,
         UNCHANGED <<up, deleting, robbed, janitor>>, cold' \subseteq cold,
         \A u \in Videos \ {v} : row'[u] = row[u] /\ dir'[u] = dir[u] /\ dash'[u] = dash[u],
         \A u \in Workers \ {w} : at'[u] = at[u] /\ job'[u] = job[u],
         row'[v].queued => row[v].queued,
         row'[v].status \in Servable /\ v \notin deleting \cup robbed =>
           dash'[v] = "complete",
         at'[w] # "idle" => WorkerMedia(w)'
  PROVE  MediaInv'
<1>1. MediaPresent'
  <2>1. ASSUME NEW u \in Videos, u # v,
               row'[u].status \in Servable /\ u \notin deleting \cup robbed
        PROVE  dash'[u] = "complete"
    BY <2>1 DEF MediaInv, MediaPresent
  <2> QED
    BY <2>1 DEF MediaPresent
<1>2. ASSUME NEW u \in Videos, row'[u].queued PROVE up'[u] = "done"
  <2>1. row[u].queued
    BY <1>2
  <2> QED
    BY <2>1 DEF MediaInv
<1>3. ASSUME NEW u \in Workers, u # w, at'[u] # "idle" PROVE WorkerMedia(u)'
  <2>1. WorkerMedia(u) /\ job[u] \in Videos
    BY <1>3 DEF MediaInv, TypeOK
  <2>2. job[u] # v
    BY <1>3
  <2>3. row'[job[u]] = row[job[u]] /\ dir'[job[u]] = dir[job[u]] /\ dash'[job[u]] = dash[job[u]]
    BY <2>1, <2>2
  <2> QED
    BY <1>3, <2>1, <2>3 DEF WorkerMedia, Processing, SafeFromSweep
<1> QED
  BY <1>1, <1>2, <1>3 DEF MediaInv

(* A step that leaves uploads and workers alone, keeps the public files of *)
(* every servable row it does not withdraw, and the private output of      *)
(* every processing row a sweep leaves alone.                              *)
KeepsMedia(v) ==
  /\ row'[v].queued => row[v].queued
  /\ row'[v].status \in Servable => row[v].status \in Servable
  /\ row'[v].status = "processing" =>
       /\ row[v].status = "processing" /\ row'[v].queued = row[v].queued
       /\ SafeFromSweep(v) => SafeFromSweep(v)' /\ dir'[v] = dir[v]
  /\ row'[v].status \in Servable \cup {"processing"} /\ v \notin deleting' \cup robbed' =>
       v \notin deleting \cup robbed /\ dash'[v] = dash[v]

(* MediaInv survives when every video keeps its media. *)
LEMMA OtherMedia ==
  ASSUME TypeOK, MediaInv, UNCHANGED <<up, at, job>>,
         \A v \in Videos : KeepsMedia(v)
  PROVE  MediaInv'
<1>2. MediaPresent'
  <2>1. ASSUME NEW v \in Videos, row'[v].status \in Servable, v \notin deleting' \cup robbed'
        PROVE  dash'[v] = "complete"
    BY <2>1 DEF MediaInv, MediaPresent, KeepsMedia
  <2> QED
    BY <2>1 DEF MediaPresent
<1>3. ASSUME NEW w \in Workers, at'[w] # "idle" PROVE WorkerMedia(w)'
  <2>1. WorkerMedia(w) /\ job[w] \in Videos
    BY <1>3 DEF MediaInv, TypeOK
  <2> QED
    BY <2>1 DEF WorkerMedia, Processing, KeepsMedia
<1> QED
  BY <1>2, <1>3 DEF MediaInv, KeepsMedia

(* How the rewritings of a row treat its mark of being queued. *)
LEMMA RowQueued ==
  ASSUME NEW r \in Row, NEW n \in Nat
  PROVE  /\ FailedRow(r).queued => r.queued
         /\ ClaimedRow(r).queued = r.queued /\ ReleasedRow(r).queued = r.queued
         /\ SubmittedRow(r).queued = r.queued /\ ~ReadyRow(r).queued
  BY DEF Row, FailedRow, ClaimedRow, ReleasedRow, SubmittedRow, ReadyRow

(* The upload request keeps MediaInv. *)
LEMMA UploadMediaStep ==
  ASSUME TypeOK, MediaInv, RowsInv, MaxLostAcks = 0, NEW v \in Videos,
         BeginUpload(v) \/ UploadStep(v)
  PROVE  MediaInv'
<1>t. /\ row \in [Videos -> Row] /\ row[v] \in Row /\ up \in [Videos -> UploadAt]
      /\ dir \in [Videos -> DirState] /\ Size[v] \in Nat
  BY ConstantsOK DEF TypeOK, ConstantsOK
<1>u. up[v] # "done"
  BY DEF BeginUpload, UploadStep, CreateUploadJob, StoreUpload, LockOwner,
     CommitQueue, FailUpload, DiscardUpload, UploadGoto
<1>q. ~row[v].queued
  BY <1>u DEF MediaInv
<1>f. /\ FailedRow(row[v]).queued => row[v].queued
      /\ FailedRow(row[v]).status \in Servable => FailedRow(row[v]).status = row[v].status
  <2>1. FailedRow(row[v]).status = IF row[v].status = "processing" THEN "failed" ELSE row[v].status
    BY <1>t, RowStatus
  <2>2. FailedRow(row[v]).queued => row[v].queued
    BY <1>t, RowQueued
  <2> QED
    BY <2>1, <2>2 DEF Servable
<1>1. CASE BeginUpload(v)
  <2>1. row' = [row EXCEPT ![v] = [row[v] EXCEPT !.status = "processing"]]
    BY <1>1 DEF BeginUpload
  <2>2. /\ [row[v] EXCEPT !.status = "processing"].status = "processing"
        /\ [row[v] EXCEPT !.status = "processing"].queued = row[v].queued
    BY <1>t DEF Row
  <2> QED
    BY <1>1, <2>1, <2>2, <1>t, <1>u, <1>q, UploadMedia
       DEF BeginUpload, UploadGoto, Servable
<1>2. CASE CreateUploadJob(v)
  BY <1>2, <1>f, <1>q, <1>t, <1>u, UploadMedia DEF CreateUploadJob, UploadGoto, SetDir
<1>3. CASE FailUpload(v)
  BY <1>3, <1>f, <1>q, <1>t, <1>u, UploadMedia DEF FailUpload, MarkFailed, UploadGoto
<1>4. CASE StoreUpload(v) \/ LockOwner(v) \/ DiscardUpload(v)
  BY <1>4, <1>q, <1>t, <1>u, UploadMedia
     DEF StoreUpload, LockOwner, DiscardUpload, UploadGoto, SetDir, RemoveDir, RemovalFails
<1>5. CASE CommitQueue(v)
  <2>1. QueuedRow(row[v], Size[v]).status = row[v].status
    BY <1>t, RowStatus
  <2>2. ~Spend("lostAcks")
    BY DEF TypeOK, Spend, Bounds, Hindrances
  <2>3. \/ UNCHANGED row
        \/ row' = [row EXCEPT ![v] = QueuedRow(row[v], Size[v])] /\ UploadGoto(v, "commit", "done")
    BY <1>5, <2>2 DEF CommitQueue
  <2>4. /\ UNCHANGED <<dash, dir, cold, at, job, deleting, robbed, janitor>>
        /\ \A u \in Videos \ {v} : up'[u] = up[u]
    BY <1>5, <1>t DEF CommitQueue, UploadGoto
  <2> QED
    BY <2>1, <2>3, <2>4, <1>q, <1>t, <1>u, UploadMedia DEF UploadGoto
<1> QED
  BY <1>1, <1>2, <1>3, <1>4, <1>5 DEF UploadStep

(* The steps of a worker keep MediaInv. *)
LEMMA WorkerMediaStep ==
  ASSUME TypeOK, MediaInv, OneWorkerPerVideo, MaxLostAcks = 0,
         NEW w \in Workers, WorkerStep(w)
  PROVE  MediaInv'
<1> DEFINE v == job[w]
<1>h. at[w] # "idle"
  BY DEF WorkerStep, OpenUploadJob, Encode, ReleaseClaim, ClearPublished,
     RenameOutput, MarkReady, Rollback, FailVideo, DiscardJob, CleanJob
<1>t. /\ row \in [Videos -> Row] /\ dir \in [Videos -> DirState]
      /\ dash \in [Videos -> DashState] /\ at \in [Workers -> WorkerAt]
      /\ job \in [Workers -> Videos \cup {NoVideo}]
      /\ v \in Videos /\ v # NoVideo /\ row[v] \in Row
  <2>1. v \in Videos /\ v # NoVideo
    BY <1>h DEF TypeOK
  <2> QED
    BY <2>1 DEF TypeOK
<1>m. WorkerMedia(w)
  BY <1>h DEF MediaInv
<1>o. \A u \in Workers \ {w} : job[u] # v
  BY <1>t DEF OneWorkerPerVideo
<1>p. row[v].status \in Servable /\ v \notin deleting \cup robbed => dash[v] = "complete"
  BY <1>t DEF MediaInv, MediaPresent
<1>f. /\ FailedRow(row[v]).queued => row[v].queued
      /\ FailedRow(row[v]).status \in Servable => row[v].status \in Servable
      /\ FailedRow(row[v]).status # "processing"
  <2>1. FailedRow(row[v]).status = IF row[v].status = "processing" THEN "failed" ELSE row[v].status
    BY <1>t, RowStatus
  <2>2. FailedRow(row[v]).queued => row[v].queued
    BY <1>t, RowQueued
  <2> QED
    BY <2>1, <2>2 DEF Servable
<1>1. CASE OpenUploadJob(w)
  <2>1. WorkerMedia(w)'
    BY <1>1, <1>m, <1>t DEF OpenUploadJob, WorkerGoto, WorkerMedia, SafeFromSweep, SetDir,
       Processing
  <2> QED
    BY <1>1, <2>1, <1>t, <1>o, <1>p, HolderMedia DEF OpenUploadJob, WorkerGoto, SetDir, OpenFails
<1>2. CASE Encode(w)
  <2>1. WorkerMedia(w)'
    BY <1>2, <1>m, <1>t DEF Encode, WorkerGoto, WorkerMedia, SetDir, SafeFromSweep, Processing
  <2> QED
    BY <1>2, <2>1, <1>t, <1>o, <1>p, HolderMedia DEF Encode, WorkerGoto, SetDir
<1>3. CASE ReleaseClaim(w)
  <2>1. /\ ReleasedRow(row[v]).status = row[v].status
        /\ ReleasedRow(row[v]).queued = row[v].queued
    BY <1>t, RowStatus, RowQueued
  <2> QED
    BY <1>3, <2>1, <1>t, <1>o, <1>p, HolderMedia DEF ReleaseClaim, WorkerEnds, WorkerGoto
<1>4. CASE ClearPublished(w)
  <2>1. WorkerMedia(w)' /\ row[v].status \notin Servable
    BY <1>4, <1>m, <1>t DEF ClearPublished, WorkerGoto, WorkerMedia, SafeFromSweep, Processing
  <2> QED
    BY <1>4, <2>1, <1>t, <1>o, <1>p, HolderMedia
       DEF ClearPublished, WorkerGoto, Withdraw, WithdrawalFails
<1>5. CASE RenameOutput(w)
  <2>1. row[v].status \notin Servable /\ (Processing(v) => dir[v] = "encoded")
    BY <1>5, <1>m DEF RenameOutput, WorkerMedia
  <2>2. WorkerMedia(w)'
    BY <1>5, <2>1, <1>m, <1>t DEF RenameOutput, RenameWorks, WorkerGoto, WorkerMedia, Processing
  <2> QED
    BY <1>5, <2>1, <2>2, <1>t, <1>o, <1>p, HolderMedia DEF RenameOutput, WorkerGoto
<1>6. CASE MarkReady(w)
  <2>1. ~Spend("lostAcks")
    BY DEF TypeOK, Spend, Bounds, Hindrances
  <2>2. /\ at[w] = "mark" /\ UNCHANGED <<up, deleting, robbed, dir, dash, job, cold, janitor>>
        /\ \A u \in Workers \ {w} : at'[u] = at[u]
    BY <1>6, <1>t DEF MarkReady, WorkerGoto
  <2>3. CASE /\ Unlocked(v) /\ Processing(v)
             /\ row' = [row EXCEPT ![v] = ReadyRow(@)] /\ at' = [at EXCEPT ![w] = "clean"]
    <3>1. ~ReadyRow(row[v]).queued
      BY <1>t, RowQueued
    <3>2. v \notin deleting \cup robbed => dash[v] = "complete"
      BY <2>2, <2>3, <1>m DEF WorkerMedia
    <3>3. WorkerMedia(w)'
      BY <2>2, <2>3, <1>m, <1>t DEF WorkerMedia
    <3> QED
      BY <2>2, <2>3, <3>1, <3>2, <3>3, <1>t, <1>o, HolderMedia
  <2>4. CASE UNCHANGED row /\ at' = [at EXCEPT ![w] = "rollback"]
    <3>1. WorkerMedia(w)'
      BY <2>2, <2>4, <1>m, <1>t DEF WorkerMedia
    <3> QED
      BY <2>2, <2>4, <3>1, <1>t, <1>o, <1>p, HolderMedia
  <2> QED
    BY <1>6, <2>1, <2>3, <2>4 DEF MarkReady, WorkerGoto
<1>7. CASE Rollback(w)
  <2>1. WorkerMedia(w)' /\ row[v].status \notin Servable
    BY <1>7, <1>m, <1>t DEF Rollback, WorkerGoto, WorkerMedia
  <2> QED
    BY <1>7, <2>1, <1>t, <1>o, <1>p, HolderMedia
       DEF Rollback, WorkerGoto, Withdraw, WithdrawalFails
<1>8. CASE FailVideo(w)
  <2>1. row' = row \/ row' = [row EXCEPT ![v] = FailedRow(@)]
    BY <1>8 DEF FailVideo, MarkFailed
  <2>2. /\ UNCHANGED <<dir, dash, up, job, deleting, robbed, cold, janitor>>
        /\ at[w] = "fail" /\ at' = [at EXCEPT ![w] = "discard"]
    BY <1>8 DEF FailVideo, WorkerGoto
  <2>3. /\ row'[v].status \in Servable => row[v].status \in Servable
        /\ row'[v].queued => row[v].queued
        /\ \A u \in Videos \ {v} : row'[u] = row[u]
    BY <2>1, <1>f, <1>t
  <2>4. WorkerMedia(w)'
    BY <2>2, <2>3, <1>m, <1>t DEF WorkerMedia
  <2> QED
    BY <2>2, <2>3, <2>4, <1>t, <1>o, <1>p, HolderMedia
<1>9. CASE DiscardJob(w) \/ CleanJob(w)
  BY <1>9, <1>t, <1>o, <1>p, HolderMedia
     DEF DiscardJob, CleanJob, WorkerEnds, WorkerGoto, RemoveDir, SetDir, OpenFails, RemovalFails
<1> QED
  BY <1>1, <1>2, <1>3, <1>4, <1>5, <1>6, <1>7, <1>8, <1>9 DEF WorkerStep

(* Claiming a video keeps MediaInv. *)
LEMMA ClaimMediaStep ==
  ASSUME TypeOK, MediaInv, ClaimInv, NEW w \in Workers, NEW v \in Videos,
         ClaimVideo(w, v)
  PROVE  MediaInv'
<1>t. /\ row \in [Videos -> Row] /\ row[v] \in Row /\ at \in [Workers -> WorkerAt]
      /\ job \in [Workers -> Videos \cup {NoVideo}]
  BY DEF TypeOK
<1>1. /\ row[v].status = "processing" /\ row[v].queued /\ ~row[v].claimed
      /\ row' = [row EXCEPT ![v] = ClaimedRow(row[v])]
      /\ at' = [at EXCEPT ![w] = "open"] /\ job' = [job EXCEPT ![w] = v]
      /\ UNCHANGED <<dir, dash, up, deleting, robbed, cold, janitor>>
  BY DEF ClaimVideo, Claimable, Processing, WorkerGoto
<1>2. ASSUME NEW u \in Workers PROVE job[u] # v
  <2>1. v # NoVideo
    BY ConstantsOK DEF ConstantsOK, NoVideo
  <2> QED
    BY <1>1, <2>1 DEF ClaimInv, Processing
<1>3. /\ ClaimedRow(row[v]).status = row[v].status
      /\ ClaimedRow(row[v]).queued = row[v].queued
  BY <1>t, RowStatus, RowQueued
<1>4. up[v] = "done"
  BY <1>1 DEF MediaInv
<1>5. WorkerMedia(w)'
  BY <1>1, <1>3, <1>4, <1>t DEF WorkerMedia, Servable
<1> QED
  BY <1>1, <1>2, <1>3, <1>4, <1>5, <1>t, HolderMedia DEF ClaimInv, Servable

(* A transaction that rewrites the row of v and leaves all files alone. *)
LEMMA RowMedia ==
  ASSUME TypeOK, MediaInv, NEW v \in Videos, NEW r,
         row' = [row EXCEPT ![v] = r],
         UNCHANGED <<dir, dash, up, at, job, deleting, robbed, cold, janitor>>,
         r.queued = row[v].queued,
         r.status \in Servable => row[v].status \in Servable,
         r.status = "processing" => row[v].status = "processing"
  PROVE  MediaInv'
<1>1. row \in [Videos -> Row]
  BY DEF TypeOK
<1>2. \A u \in Videos : KeepsMedia(u)
  BY <1>1 DEF KeepsMedia, SafeFromSweep
<1> QED
  BY <1>2, OtherMedia

(* The transactions keep MediaInv. *)
LEMMA TransactionMediaStep ==
  ASSUME TypeOK, MediaInv, NEW v \in Videos, Transactions(v)
  PROVE  MediaInv'
<1>t. row \in [Videos -> Row] /\ row[v] \in Row /\ dash \in [Videos -> DashState]
  BY DEF TypeOK
<1>s. \A x : /\ [row[v] EXCEPT !.status = x].status = x
             /\ [row[v] EXCEPT !.status = x].queued = row[v].queued
  BY <1>t DEF Row
<1>1. CASE SubmitVideo(v)
  <2>1. /\ SubmittedRow(row[v]).status =
             IF row[v].status = "processing" THEN "processing" ELSE "pending_review"
        /\ SubmittedRow(row[v]).queued = row[v].queued
    BY <1>t, RowStatus, RowQueued
  <2>2. row[v].status \in Servable \cup {"processing"}
    BY <1>1 DEF SubmitVideo, Servable
  <2> QED
    BY <1>1, <2>1, <2>2, RowMedia DEF SubmitVideo, RowOnly
<1>2. CASE ApproveVideo(v) \/ RejectVideo(v) \/ TakeDownVideo(v)
  <2>1. row[v].status \in Servable
    BY <1>2 DEF ApproveVideo, RejectVideo, TakeDownVideo, Review, Servable
  <2> QED
    BY <1>2, <1>s, <2>1, RowMedia
       DEF ApproveVideo, RejectVideo, TakeDownVideo, Review, RowOnly, Servable
<1>3. CASE DeleteVideo(v) \/ DeleteAdminVideo(v)
  <2>1. \A u \in Videos : KeepsMedia(u)
    BY <1>3, <1>t DEF DeleteVideo, DeleteAdminVideo, RemoveVideo, Withdraw, KeepsMedia,
       SafeFromSweep
  <2> QED
    BY <1>3, <2>1, OtherMedia DEF DeleteVideo, DeleteAdminVideo, RemoveVideo
<1>4. CASE CommitDelete(v)
  <2>1. \A u \in Videos : KeepsMedia(u)
    BY <1>4, <1>t, <1>s DEF CommitDelete, KeepsMedia, SafeFromSweep, Servable
  <2> QED
    BY <1>4, <2>1, OtherMedia DEF CommitDelete
<1>5. CASE AbortDelete(v)
  <2>1. \A u \in Videos : KeepsMedia(u)
    BY <1>5 DEF AbortDelete, KeepsMedia, SafeFromSweep
  <2> QED
    BY <1>5, <2>1, OtherMedia DEF AbortDelete
<1> QED
  BY <1>1, <1>2, <1>3, <1>4, <1>5 DEF Transactions

(* The induction step behind the presence of the public files. *)
LEMMA MediaStep ==
  ASSUME TypeOK, MediaInv, ClaimInv, MaxLostAcks = 0, [Next]_vars
  PROVE  MediaInv'
<1>t. row \in [Videos -> Row] /\ dir \in [Videos -> DirState]
  BY DEF TypeOK
<1>1. ASSUME NEW v \in Videos, BeginUpload(v) \/ UploadStep(v) PROVE MediaInv'
  BY <1>1, UploadMediaStep DEF ClaimInv
<1>2. ASSUME NEW w \in Workers, WorkerStep(w) PROVE MediaInv'
  BY <1>2, WorkerMediaStep DEF ClaimInv
<1>3. ASSUME NEW w \in Workers, NEW v \in Videos, ClaimVideo(w, v) PROVE MediaInv'
  BY <1>3, ClaimMediaStep
<1>4. ASSUME NEW v \in Videos, Background(v) PROVE MediaInv'
  <2>1. CASE ClaimAges(v)
    <3>1. /\ [row[v] EXCEPT !.stale = TRUE].status = row[v].status
          /\ [row[v] EXCEPT !.stale = TRUE].queued = row[v].queued
      BY <1>t DEF Row
    <3> QED
      BY <2>1, <3>1, RowMedia DEF ClaimAges
  <2>2. CASE HeartbeatExpires(v)
    <3>1. \A u \in Videos : KeepsMedia(u)
      BY <2>2 DEF HeartbeatExpires, KeepsMedia, SafeFromSweep, ActiveJobs, Processing
    <3> QED
      BY <2>2, <3>1, OtherMedia DEF HeartbeatExpires
  <2>3. CASE SweepJob(v)
    <3>1. /\ UNCHANGED <<row, dash, up, at, job, janitor, deleting, robbed>>
          /\ cold' \subseteq cold /\ \A u \in Videos \ {v} : dir'[u] = dir[u]
          /\ v \in cold \ janitor.active /\ janitor.scanning
      BY <2>3, <1>t DEF SweepJob, Sweepable, RemoveDir, SetDir, RemovalFails
    <3>2. \A u \in Videos : KeepsMedia(u)
      BY <3>1 DEF KeepsMedia, SafeFromSweep
    <3> QED
      BY <3>1, <3>2, OtherMedia
  <2> QED
    BY <1>4, <2>1, <2>2, <2>3 DEF Background
<1>5. CASE Tickers
  <2>1. CASE RecoverClaims
    <3>1. \A v \in Videos : /\ ReleasedRow(row[v]).status = row[v].status
                            /\ ReleasedRow(row[v]).queued = row[v].queued
      BY <1>t, RowStatus, RowQueued
    <3>2. \A v \in Videos : KeepsMedia(v)
      BY <2>1, <3>1 DEF RecoverClaims, KeepsMedia, SafeFromSweep
    <3> QED
      BY <2>1, <3>2, OtherMedia DEF RecoverClaims
  <2>2. CASE ListActiveJobs \/ EndSweep
    BY <2>2, OtherMedia DEF ListActiveJobs, EndSweep, KeepsMedia, SafeFromSweep, ActiveJobs,
       Processing
  <2> QED
    BY <1>5, <2>1, <2>2 DEF Tickers
<1>6. ASSUME NEW v \in Videos, Transactions(v) PROVE MediaInv'
  BY <1>6, TransactionMediaStep
<1>7. CASE Shutdown
  BY <1>7, OtherMedia DEF Shutdown, KeepsMedia, SafeFromSweep
<1>8. CASE Crash \/ Exit
  <2>1. /\ UNCHANGED <<row, dash>>
        /\ up' = [v \in Videos |-> IF up[v] = "new" THEN "new" ELSE "done"]
        /\ \A w \in Workers : at'[w] = "idle"
        /\ deleting' \cup robbed' = deleting \cup robbed
    BY <1>8 DEF Crash, Exit, Restart
  <2>2. MediaPresent'
    BY <2>1 DEF MediaInv, MediaPresent
  <2>3. ASSUME NEW v \in Videos, row'[v].queued PROVE up'[v] = "done"
    BY <2>1, <2>3 DEF MediaInv
  <2> QED
    BY <2>1, <2>2, <2>3 DEF MediaInv
<1>9. CASE UNCHANGED vars
  BY <1>9, OtherMedia DEF vars, KeepsMedia, SafeFromSweep
<1> QED
  BY <1>1, <1>2, <1>3, <1>4, <1>5, <1>6, <1>7, <1>8, <1>9
     DEF Next, Background, Tickers, Transactions

(* A ready, pending, published or rejected video keeps its public files:   *)
(* whatever crashes, retries, recoveries and deletions happen meanwhile,   *)
(* as long as the staleAfter margin holds and no commit of                 *)
(* markVideoUploadReady or queueVideoUpload is applied but reported lost.  *)
THEOREM MediaAlwaysPresent ==
  ASSUME ~SlowTranscode, MaxLostAcks = 0
  PROVE  Spec => []MediaPresent
<1>1. Init => MediaInv
  BY DEF Init, NewRow, MediaInv, MediaPresent, Servable
<1>2. TypeOK /\ ClaimInv /\ MediaInv /\ [Next]_vars => MediaInv'
  BY MediaStep
<1>3. MediaInv => MediaPresent
  BY DEF MediaInv
<1> QED
  BY <1>1, <1>2, <1>3, TypeCorrect, ClaimsHeld, PTL DEF Spec

-----------------------------------------------------------------------------
(* Sources of queued rows, when no database call fails.                    *)

(* Which of its transactions may have rewritten a row. *)
Rewritten(v) ==
  \/ row'[v] = row[v]
  \/ up[v] = "new" /\ row'[v] = [row[v] EXCEPT !.status = "processing"]
  \/ /\ up[v] \in {"create", "fail"} \/ \E w \in Workers : at[w] = "fail" /\ job[w] = v
     /\ row'[v] = FailedRow(row[v])
  \/ CommitQueue(v) /\ row'[v] = QueuedRow(row[v], Size[v])
  \/ row'[v] \in {ClaimedRow(row[v]), ReleasedRow(row[v])}
  \/ Processing(v) /\ row'[v] = ReadyRow(row[v])
  \/ /\ row[v].status \in {"processing", "ready", "rejected"}
     /\ row'[v] = SubmittedRow(row[v])
  \/ /\ row[v].status \in {"pending_review", "published"}
     /\ \E s \in {"published", "rejected"} : row'[v] = [row[v] EXCEPT !.status = s]
  \/ CommitDelete(v) /\ row'[v] = [row[v] EXCEPT !.status = "deleted"]
  \/ row'[v] = [row[v] EXCEPT !.stale = TRUE]

LEMMA RowRewritten ==
  ASSUME TypeOK, [Next]_vars, NEW v \in Videos
  PROVE  Rewritten(v)
<1>t. row \in [Videos -> Row] /\ job \in [Workers -> Videos \cup {NoVideo}]
  BY DEF TypeOK
<1>0. CASE row' = row
  BY <1>0 DEF Rewritten
<1>1. ASSUME NEW u \in Videos, BeginUpload(u) PROVE Rewritten(v)
  BY <1>1, <1>t DEF BeginUpload, UploadGoto, Rewritten
<1>2. ASSUME NEW u \in Videos, UploadStep(u) PROVE Rewritten(v)
  <2>1. CASE CreateUploadJob(u)
    BY <2>1, <1>t DEF CreateUploadJob, UploadGoto, Rewritten
  <2>2. CASE CommitQueue(u)
    <3>1. CASE u = v
      BY <2>2, <3>1, <1>t DEF CommitQueue, Rewritten
    <3>2. CASE u # v
      BY <2>2, <3>2, <1>t DEF CommitQueue, Rewritten
    <3> QED
      BY <3>1, <3>2
  <2>3. CASE FailUpload(u)
    BY <2>3, <1>t DEF FailUpload, MarkFailed, UploadGoto, Rewritten
  <2> QED
    BY <1>0, <1>2, <2>1, <2>2, <2>3 DEF UploadStep, StoreUpload, LockOwner, DiscardUpload
<1>3. ASSUME NEW w \in Workers, WorkerStep(w) PROVE Rewritten(v)
  <2>1. CASE ReleaseClaim(w)
    BY <2>1, <1>t DEF ReleaseClaim, Rewritten
  <2>2. CASE MarkReady(w)
    BY <2>2, <1>t DEF MarkReady, Processing, Rewritten
  <2>3. CASE FailVideo(w)
    BY <2>3, <1>t DEF FailVideo, MarkFailed, Rewritten
  <2> QED
    BY <1>0, <1>3, <2>1, <2>2, <2>3 DEF WorkerStep, OpenUploadJob, Encode,
       ClearPublished, RenameOutput, Rollback, DiscardJob, CleanJob
<1>4. ASSUME NEW w \in Workers, NEW u \in Videos, ClaimVideo(w, u) PROVE Rewritten(v)
  BY <1>4, <1>t DEF ClaimVideo, Rewritten
<1>5. ASSUME NEW u \in Videos, Background(u) PROVE Rewritten(v)
  BY <1>0, <1>5, <1>t DEF Background, ClaimAges, HeartbeatExpires, SweepJob, Rewritten
<1>6. CASE Tickers
  BY <1>0, <1>6, <1>t DEF Tickers, RecoverClaims, ListActiveJobs, EndSweep, Rewritten
<1>7. ASSUME NEW u \in Videos, Transactions(u) PROVE Rewritten(v)
  <2>1. CASE CommitDelete(u)
    <3>1. CASE u = v
      BY <2>1, <3>1, <1>t DEF CommitDelete, Rewritten
    <3>2. CASE u # v
      BY <2>1, <3>2, <1>t DEF CommitDelete, Rewritten
    <3> QED
      BY <3>1, <3>2
  <2> QED
    BY <1>0, <1>7, <2>1, <1>t DEF Transactions, SubmitVideo, ApproveVideo, RejectVideo,
       TakeDownVideo, Review, DeleteVideo, DeleteAdminVideo, RemoveVideo, AbortDelete, Rewritten
<1>8. CASE Shutdown \/ Crash \/ Exit \/ UNCHANGED vars
  BY <1>0, <1>8 DEF Shutdown, Crash, Exit, Restart, vars
<1> QED
  BY <1>1, <1>2, <1>3, <1>4, <1>5, <1>6, <1>7, <1>8 DEF Next, Background, Tickers, Transactions

(* A row is in "processing" from its first transaction on, is queued by    *)
(* CommitQueue only, and fails by a failing upload or worker.              *)
LEMMA RowCause ==
  ASSUME TypeOK, [Next]_vars, NEW v \in Videos
  PROVE  /\ row'[v].status = "processing" => up[v] = "new" \/ row[v].status = "processing"
         /\ row'[v].queued => row[v].queued \/ CommitQueue(v)
         /\ row'[v].status = "processing" /\ row[v].status = "processing" /\ row[v].queued
              => row'[v].queued
         /\ row'[v].status = "failed" =>
              \/ row[v].status = "failed"
              \/ /\ row[v].status = "processing"
                 /\ up[v] \in {"create", "fail"} \/ \E w \in Workers : at[w] = "fail" /\ job[w] = v
<1>1. row[v] \in Row /\ Size[v] \in Nat
  BY ConstantsOK DEF TypeOK, ConstantsOK
<1>2. /\ QueuedRow(row[v], Size[v]).status = row[v].status
      /\ QueuedRow(row[v], Size[v]).queued = TRUE
  BY <1>1 DEF Row, QueuedRow
<1>3. \A s : /\ [row[v] EXCEPT !.status = s].status = s
             /\ [row[v] EXCEPT !.status = s].queued = row[v].queued
  BY <1>1 DEF Row
<1>4. /\ [row[v] EXCEPT !.stale = TRUE].status = row[v].status
      /\ [row[v] EXCEPT !.stale = TRUE].queued = row[v].queued
  BY <1>1 DEF Row
<1>5. Rewritten(v)
  BY RowRewritten
<1>6. /\ ClaimedRow(row[v]).status = row[v].status
      /\ ReleasedRow(row[v]).status = row[v].status
      /\ FailedRow(row[v]).status = IF row[v].status = "processing" THEN "failed" ELSE row[v].status
      /\ ReadyRow(row[v]).status \in {"pending_review", "ready"}
      /\ SubmittedRow(row[v]).status =
              IF row[v].status = "processing" THEN "processing" ELSE "pending_review"
  BY <1>1, RowStatus
<1>7. /\ FailedRow(row[v]).queued => row[v].queued
      /\ ClaimedRow(row[v]).queued = row[v].queued /\ ReleasedRow(row[v]).queued = row[v].queued
      /\ SubmittedRow(row[v]).queued = row[v].queued /\ ~ReadyRow(row[v]).queued
  BY <1>1, RowQueued
<1>8. CASE row'[v] = row[v]
  BY <1>8
<1>9. CASE up[v] = "new" /\ row'[v] = [row[v] EXCEPT !.status = "processing"]
  BY <1>3, <1>9
<1>10. CASE /\ up[v] \in {"create", "fail"} \/ \E w \in Workers : at[w] = "fail" /\ job[w] = v
            /\ row'[v] = FailedRow(row[v])
  BY <1>6, <1>7, <1>10
<1>11. CASE CommitQueue(v) /\ row'[v] = QueuedRow(row[v], Size[v])
  BY <1>2, <1>11
<1>12. CASE \/ row'[v] \in {ClaimedRow(row[v]), ReleasedRow(row[v])}
            \/ row'[v] = ReadyRow(row[v])
            \/ row'[v] = SubmittedRow(row[v])
  BY <1>6, <1>7, <1>12
<1>13. CASE \/ \E s \in {"published", "rejected"} : row'[v] = [row[v] EXCEPT !.status = s]
            \/ CommitDelete(v) /\ row'[v] = [row[v] EXCEPT !.status = "deleted"]
  BY <1>3, <1>13
<1>14. CASE row'[v] = [row[v] EXCEPT !.stale = TRUE]
  BY <1>4, <1>14
<1> QED
  BY <1>5, <1>8, <1>9, <1>10, <1>11, <1>12, <1>13, <1>14 DEF Rewritten

(* Which step may have touched the private directory of a video. *)
Touched(v) ==
  \/ dir'[v] = dir[v]
  \/ up[v] = "create" /\ up'[v] \in {"store", "done"}
  \/ up[v] = "store" /\ dir'[v] = "source"
  \/ up[v] = "discard" /\ up'[v] = "done"
  \/ janitor.scanning /\ v \in Sweepable /\ up'[v] = up[v]
  \/ \E w \in Workers : /\ job[w] = v
                        /\ \/ WorkerStep(w) /\ dir[v] \in HasSource /\ dir'[v] \in HasSource
                           \/ at[w] \in {"discard", "clean"}

LEMMA DirTouched ==
  ASSUME TypeOK, [Next]_vars, NEW v \in Videos
  PROVE  Touched(v)
<1>t. /\ dir \in [Videos -> DirState] /\ up \in [Videos -> UploadAt]
      /\ job \in [Workers -> Videos \cup {NoVideo}]
  BY DEF TypeOK
<1>0. CASE dir' = dir
  BY <1>0 DEF Touched
<1>1. ASSUME NEW u \in Videos, UploadStep(u) PROVE Touched(v)
  <2>1. CASE CreateUploadJob(u)
    BY <2>1, <1>t DEF CreateUploadJob, UploadGoto, SetDir, Touched
  <2>2. CASE StoreUpload(u)
    BY <2>2, <1>t DEF StoreUpload, UploadGoto, SetDir, Touched
  <2>3. CASE DiscardUpload(u)
    BY <2>3, <1>t DEF DiscardUpload, UploadGoto, RemoveDir, SetDir, RemovalFails, Touched
  <2> QED
    BY <1>0, <1>1, <2>1, <2>2, <2>3 DEF UploadStep, LockOwner, CommitQueue, FailUpload
<1>2. ASSUME NEW w \in Workers, WorkerStep(w) PROVE Touched(v)
  <2>1. CASE OpenUploadJob(w) \/ Encode(w) \/ RenameOutput(w)
    <3>1. dir' = dir \/ /\ dir[job[w]] \in HasSource
                        /\ \E d \in HasSource : dir' = [dir EXCEPT ![job[w]] = d]
      BY <2>1 DEF OpenUploadJob, OpenFails, Reopened, Encode, EncodeWorks, RenameOutput, RenameWorks,
         SetDir, HasSource
    <3> QED
      BY <1>2, <3>1, <1>t DEF Touched
  <2>2. CASE DiscardJob(w) \/ CleanJob(w)
    BY <2>2, <1>t DEF DiscardJob, CleanJob, RemoveDir, SetDir, OpenFails, RemovalFails, Touched
  <2> QED
    BY <1>0, <1>2, <2>1, <2>2 DEF WorkerStep, ReleaseClaim, ClearPublished, MarkReady,
       Rollback, FailVideo
<1>3. ASSUME NEW u \in Videos, SweepJob(u) PROVE Touched(v)
  BY <1>3, <1>t DEF SweepJob, RemoveDir, SetDir, RemovalFails, Touched
<1> QED
  BY <1>0, <1>1, <1>2, <1>3 DEF Next, BeginUpload, ClaimAges, HeartbeatExpires, SubmitVideo,
     ApproveVideo, RejectVideo, TakeDownVideo, Review, RowOnly, DeleteVideo, DeleteAdminVideo,
     RemoveVideo, CommitDelete, AbortDelete, ClaimVideo, RecoverClaims, ListActiveJobs,
     EndSweep, Shutdown, Crash, Exit, Restart, vars

(* A heartbeat goes cold by passing time only; a new sweep begins with the *)
(* jobs that are active.                                                   *)
LEMMA TimeCause ==
  ASSUME TypeOK, [Next]_vars, NEW v \in Videos
  PROVE  /\ v \in cold' => v \in cold \/ HeartbeatExpires(v)
         /\ janitor' = janitor \/ ~janitor'.scanning \/ (UNCHANGED row /\ janitor'.active = ActiveJobs)
<1>1. ASSUME NEW u \in Videos, UploadStep(u) PROVE cold' \subseteq cold /\ janitor' = janitor
  BY <1>1 DEF UploadStep, CreateUploadJob, StoreUpload, LockOwner, CommitQueue, FailUpload,
     DiscardUpload, SetDir, RemoveDir, RemovalFails
<1>2. ASSUME NEW w \in Workers, WorkerStep(w) PROVE cold' \subseteq cold /\ janitor' = janitor
  BY <1>2 DEF WorkerStep, OpenUploadJob, Encode, ReleaseClaim, ClearPublished, RenameOutput,
     MarkReady, Rollback, FailVideo, DiscardJob, CleanJob, SetDir, RemoveDir,
     OpenFails, RemovalFails
<1>3. ASSUME NEW u \in Videos, HeartbeatExpires(u)
      PROVE  (v \in cold' => v \in cold \/ HeartbeatExpires(v)) /\ janitor' = janitor
  BY <1>3 DEF HeartbeatExpires
<1>4. ASSUME NEW u \in Videos, SweepJob(u) PROVE cold' \subseteq cold /\ janitor' = janitor
  BY <1>4 DEF SweepJob, SetDir, RemoveDir, RemovalFails
<1>5. CASE ListActiveJobs
  BY <1>5 DEF ListActiveJobs
<1>6. CASE EndSweep \/ Crash \/ Exit
  BY <1>6 DEF EndSweep, Crash, Exit, Restart
<1> QED
  BY <1>1, <1>2, <1>3, <1>4, <1>5, <1>6 DEF Next, BeginUpload, ClaimAges, SubmitVideo,
     ApproveVideo, RejectVideo, TakeDownVideo, Review, RowOnly, DeleteVideo, DeleteAdminVideo,
     RemoveVideo, CommitDelete, AbortDelete, ClaimVideo, RecoverClaims, Shutdown, vars

(* An upload request goes from "new" to "done", and only StoreUpload lets  *)
(* it queue the row.                                                       *)
LEMMA UpCause ==
  ASSUME TypeOK, [Next]_vars, NEW v \in Videos
  PROVE  /\ up'[v] = "new" => up[v] = "new"
         /\ up[v] = "done" => up'[v] = "done"
         /\ up'[v] \in {"queue", "commit"} =>
              up[v] \in {"queue", "commit"} \/ (up[v] = "store" /\ dir'[v] = "source")
<1>t. up \in [Videos -> UploadAt] /\ dir \in [Videos -> DirState]
  BY DEF TypeOK
<1>1. ASSUME NEW u \in Videos, BeginUpload(u) \/ UploadStep(u)
      PROVE  \/ up'[v] = up[v]
             \/ /\ up[v] # "done" /\ up'[v] \notin {"new", "queue", "commit"}
             \/ /\ up[v] = "queue" /\ up'[v] = "commit"
             \/ /\ up[v] = "store" /\ up'[v] = "queue" /\ dir'[v] = "source"
  <2>1. CASE BeginUpload(u)
    BY <2>1, <1>t DEF BeginUpload, UploadGoto
  <2>2. CASE CreateUploadJob(u) \/ FailUpload(u) \/ DiscardUpload(u)
    BY <2>2, <1>t DEF CreateUploadJob, FailUpload, DiscardUpload, UploadGoto
  <2>3. CASE StoreUpload(u)
    BY <2>3, <1>t DEF StoreUpload, UploadGoto, SetDir
  <2>4. CASE LockOwner(u)
    BY <2>4, <1>t DEF LockOwner, UploadGoto
  <2>5. CASE CommitQueue(u)
    BY <2>5, <1>t DEF CommitQueue, UploadGoto
  <2> QED
    BY <1>1, <2>1, <2>2, <2>3, <2>4, <2>5 DEF UploadStep
<1>2. CASE UNCHANGED up
  BY <1>2
<1>3. CASE Crash \/ Exit
  BY <1>3 DEF Crash, Exit, Restart
<1>4. ASSUME NEW w \in Workers, WorkerStep(w) PROVE UNCHANGED up
  BY <1>4 DEF WorkerStep, OpenUploadJob, Encode, ReleaseClaim, ClearPublished, RenameOutput,
     MarkReady, Rollback, FailVideo, DiscardJob, CleanJob
<1> QED
  BY <1>1, <1>2, <1>3, <1>4 DEF Next, ClaimAges, HeartbeatExpires, SweepJob, SubmitVideo,
     ApproveVideo, RejectVideo, TakeDownVideo, Review, RowOnly, DeleteVideo, DeleteAdminVideo,
     RemoveVideo, CommitDelete, AbortDelete, ClaimVideo, RecoverClaims, ListActiveJobs,
     EndSweep, Shutdown, vars

(* Where the source of an upload is, step by step of its request; a row    *)
(* that is queued keeps it, and a sweep under way will not find it cold.   *)
SourceKept(v) ==
  /\ up[v] = "new" => dir[v] = "absent"
  /\ up[v] # "done" => v \notin cold
  /\ up[v] \in {"queue", "commit"} => dir[v] \in HasSource
  /\ v \in ActiveJobs => dir[v] \in HasSource
  /\ janitor.scanning /\ v \in ActiveJobs \ janitor.active => v \notin cold

SourceInv ==
  /\ \A v \in Videos : SourceKept(v)
  /\ \A w \in Workers : at[w] \in {"discard", "clean"} => ~Processing(job[w])

(* Which step ends a worker's attempt. *)
LEMMA AtCause ==
  ASSUME TypeOK, [Next]_vars, NEW w \in Workers, at'[w] \in {"discard", "clean"}
  PROVE  \/ at'[w] = at[w] /\ job'[w] = job[w]
         \/ FailVideo(w) \/ (MarkReady(w) /\ at'[w] = "clean")
<1>t. /\ at \in [Workers -> WorkerAt]
      /\ job \in [Workers -> Videos \cup {NoVideo}]
  BY DEF TypeOK
<1>0. CASE UNCHANGED <<at, job>>
  BY <1>0
<1>1. ASSUME NEW u \in Workers, WorkerStep(u), u # w
      PROVE  at'[w] = at[w] /\ job'[w] = job[w]
  BY <1>1, <1>t DEF WorkerStep, OpenUploadJob, Encode, ReleaseClaim, ClearPublished,
     RenameOutput, MarkReady, Rollback, FailVideo, DiscardJob, CleanJob, WorkerGoto, WorkerEnds
<1>2. CASE WorkerStep(w)
  <2>1. CASE OpenUploadJob(w) \/ Encode(w)
    BY <2>1, <1>t DEF OpenUploadJob, Encode, WorkerGoto
  <2>2. CASE ReleaseClaim(w) \/ ClearPublished(w) \/ RenameOutput(w) \/ Rollback(w)
    BY <2>2, <1>t DEF ReleaseClaim, ClearPublished, RenameOutput, Rollback, WorkerGoto, WorkerEnds
  <2>3. CASE MarkReady(w)
    BY <2>3, <1>t DEF MarkReady, WorkerGoto
  <2>4. CASE DiscardJob(w) \/ CleanJob(w)
    BY <2>4, <1>t DEF DiscardJob, CleanJob, WorkerGoto, WorkerEnds
  <2> QED
    BY <1>2, <2>1, <2>2, <2>3, <2>4 DEF WorkerStep
<1>3. ASSUME NEW u \in Workers, NEW v \in Videos, ClaimVideo(u, v)
      PROVE  at'[w] = at[w] /\ job'[w] = job[w]
  BY <1>3, <1>t DEF ClaimVideo, WorkerGoto
<1>4. ASSUME NEW v \in Videos, UploadStep(v) PROVE UNCHANGED <<at, job>>
  BY <1>4 DEF UploadStep, CreateUploadJob, StoreUpload, LockOwner, CommitQueue, FailUpload,
     DiscardUpload
<1>5. ~Crash /\ ~Exit
  BY DEF Crash, Exit, Restart
<1> QED
  BY <1>0, <1>1, <1>2, <1>3, <1>4, <1>5 DEF Next, BeginUpload, ClaimAges, HeartbeatExpires,
     SweepJob, SubmitVideo, ApproveVideo, RejectVideo, TakeDownVideo, Review, RowOnly,
     DeleteVideo, DeleteAdminVideo, RemoveVideo, CommitDelete, AbortDelete, RecoverClaims,
     ListActiveJobs, EndSweep, Shutdown, vars

(* A step keeps the source of one video.                                   *)
LEMMA SourceKeptStep ==
  ASSUME TypeOK, MediaInv, SourceInv, ~StalledUpload, [Next]_vars, NEW v \in Videos
  PROVE  SourceKept(v)'
<1>t. /\ NoVideo \notin Videos
      /\ \A w \in Workers : at[w] = "idle" <=> job[w] = NoVideo
  BY ConstantsOK DEF TypeOK, ConstantsOK, NoVideo
<1>s. SourceKept(v)
  BY DEF SourceInv
<1>w. \A w \in Workers : job[w] = v => up[v] = "done"
  BY <1>t DEF MediaInv, WorkerMedia
<1>d. \A w \in Workers : job[w] = v /\ at[w] \in {"discard", "clean"} => v \notin ActiveJobs
  BY DEF SourceInv, ActiveJobs, Processing
<1>T. Touched(v)
  BY DirTouched
<1>U. /\ up'[v] = "new" => up[v] = "new"
      /\ up[v] = "done" => up'[v] = "done"
      /\ up'[v] \in {"queue", "commit"} =>
           up[v] \in {"queue", "commit"} \/ (up[v] = "store" /\ dir'[v] = "source")
  BY UpCause
<1>C. /\ v \in cold' => v \in cold \/ HeartbeatExpires(v)
      /\ janitor' = janitor \/ ~janitor'.scanning \/ (UNCHANGED row /\ janitor'.active = ActiveJobs)
  BY TimeCause
<1>R. v \in ActiveJobs' =>
        v \in ActiveJobs \/ (CommitQueue(v) /\ up[v] = "commit" /\ dir' = dir)
  <2> SUFFICES ASSUME v \in ActiveJobs'
               PROVE  v \in ActiveJobs \/ (CommitQueue(v) /\ up[v] = "commit" /\ dir' = dir)
    OBVIOUS
  <2>1. row'[v].status = "processing" /\ row'[v].queued
    BY DEF ActiveJobs, Processing
  <2>2. /\ row'[v].status = "processing" => up[v] = "new" \/ row[v].status = "processing"
        /\ row'[v].queued => row[v].queued \/ CommitQueue(v)
    BY RowCause
  <2>3. CASE CommitQueue(v)
    BY <2>3 DEF CommitQueue, UploadGoto
  <2>4. CASE row[v].queued
    <3>1. up[v] = "done"
      BY <2>4 DEF MediaInv
    <3> QED
      BY <2>1, <2>2, <2>4, <3>1 DEF ActiveJobs, Processing
  <2> QED
    BY <2>1, <2>2, <2>3, <2>4
<1>H. HeartbeatExpires(v) =>
        /\ up[v] = "done"
        /\ ~(janitor.scanning /\ v \in ActiveJobs \ janitor.active)
  BY <1>s DEF HeartbeatExpires, UploadEnded, SourceKept
<1>a. v \in ActiveJobs => up[v] = "done"
  BY DEF MediaInv, ActiveJobs
<1>1. up'[v] = "new" => dir'[v] = "absent"
  BY <1>s, <1>w, <1>T, <1>U DEF SourceKept, Touched, Sweepable
<1>2. up'[v] # "done" => v \notin cold'
  BY <1>s, <1>U, <1>C, <1>H DEF SourceKept
<1>3. up'[v] \in {"queue", "commit"} => dir'[v] \in HasSource
  BY <1>s, <1>w, <1>T, <1>U DEF SourceKept, Touched, Sweepable, HasSource
<1>4. v \in ActiveJobs' => dir'[v] \in HasSource
  <2>1. CASE v \in ActiveJobs
    BY <2>1, <1>s, <1>d, <1>T, <1>a DEF SourceKept, Touched, Sweepable
  <2>2. CASE CommitQueue(v) /\ up[v] = "commit" /\ dir' = dir
    BY <2>2, <1>s DEF SourceKept
  <2> QED
    BY <2>1, <2>2, <1>R
<1>5. janitor'.scanning /\ v \in ActiveJobs' /\ v \notin janitor'.active => v \notin cold'
  <2>1. CASE UNCHANGED row /\ janitor'.active = ActiveJobs
    BY <2>1 DEF ActiveJobs, Processing
  <2>2. CASE janitor' = janitor
    BY <2>2, <1>s, <1>C, <1>H, <1>R, <1>a DEF SourceKept
  <2> QED
    BY <2>1, <2>2, <1>C
<1> QED
  BY <1>1, <1>2, <1>3, <1>4, <1>5 DEF SourceKept

(* The induction step behind the sources of queued rows. *)
LEMMA SourceStep ==
  ASSUME TypeOK, MediaInv, SourceInv, ~StalledUpload, MaxFaults = 0, [Next]_vars
  PROVE  SourceInv'
<1>1. ASSUME NEW v \in Videos PROVE SourceKept(v)'
  BY <1>1, SourceKeptStep
<1>2. ASSUME NEW w \in Workers, at'[w] \in {"discard", "clean"}
      PROVE  ~Processing(job[w])' 
  <2>t. /\ job \in [Workers -> Videos \cup {NoVideo}] /\ row \in [Videos -> Row]
        /\ at[w] = "idle" <=> job[w] = NoVideo
    BY DEF TypeOK
  <2>c. \/ at'[w] = at[w] /\ job'[w] = job[w]
        \/ FailVideo(w) \/ (MarkReady(w) /\ at'[w] = "clean")
    BY <1>2, AtCause
  <2>a. at[w] # "idle"
    BY <1>2, <2>c DEF FailVideo, MarkReady
  <2>v. job[w] \in Videos
    BY <2>a, <2>t
  <2>j. job'[w] = job[w]
    BY <2>c DEF FailVideo, MarkReady
  <2>u. up[job[w]] = "done"
    BY <2>a DEF MediaInv, WorkerMedia
  <2>r. /\ FailedRow(row[job[w]]).status # "processing"
        /\ ReadyRow(row[job[w]]).status # "processing"
    BY <2>v, <2>t, RowStatus
  <2>1. CASE at'[w] = at[w]
    <3>1. row'[job[w]].status = "processing" =>
            up[job[w]] = "new" \/ row[job[w]].status = "processing"
      BY <2>v, RowCause
    <3> QED
      BY <1>2, <2>1, <2>j, <2>u, <3>1 DEF SourceInv, Processing
  <2>2. CASE FailVideo(w)
    <3>1. ~Spend("faults")
      BY DEF TypeOK, Spend, Bounds, Hindrances
    <3>2. row' = [row EXCEPT ![job[w]] = FailedRow(row[job[w]])]
      BY <2>2, <3>1 DEF FailVideo, MarkFailed
    <3> QED
      BY <3>2, <2>j, <2>r, <2>v, <2>t DEF Processing
  <2>3. CASE MarkReady(w) /\ at'[w] = "clean"
    <3>1. row' = [row EXCEPT ![job[w]] = ReadyRow(row[job[w]])]
      BY <2>3 DEF MarkReady, WorkerGoto, TypeOK
    <3> QED
      BY <3>1, <2>j, <2>r, <2>v, <2>t DEF Processing
  <2> QED
    BY <2>1, <2>2, <2>3, <2>c
<1> QED
  BY <1>1, <1>2 DEF SourceInv

(* The source of a queued upload stays on disk until its worker gives the  *)
(* job up: neither the janitor's sweep (which lists the active jobs first  *)
(* and compares heartbeats afterwards), nor a failing attempt of another   *)
(* worker takes it away, provided no database call or file operation       *)
(* fails, uploads do not stall and the staleAfter margin holds.            *)
THEOREM SourcesKept ==
  ASSUME ~SlowTranscode, ~StalledUpload, MaxFaults = 0, MaxLostAcks = 0
  PROVE  Spec => []QueuedHasSource
<1>1. Init => MediaInv /\ SourceInv
  BY ConstantsOK DEF Init, NewRow, MediaInv, MediaPresent, Servable, SourceInv, SourceKept, ActiveJobs,
     Processing, ConstantsOK
<1>2. TypeOK /\ ClaimInv /\ (MediaInv /\ SourceInv) /\ [Next]_vars => (MediaInv /\ SourceInv)'
  BY MediaStep, SourceStep
<1>3. SourceInv => QueuedHasSource
  BY DEF SourceInv, SourceKept, QueuedHasSource, ActiveJobs
<1> QED
  BY <1>1, <1>2, <1>3, TypeCorrect, ClaimsHeld, PTL DEF Spec

-----------------------------------------------------------------------------
(* Accepted uploads do not fail, when in addition nobody shuts down.       *)

(* What a worker at a video that is still processing relies on. *)
WorkerWhole(w) ==
  LET v == job[w] IN
  at[w] # "idle" /\ Processing(v) =>
    /\ row[v].queued
    /\ at[w] = "encode" => dir[v] \in {"source", "encoded"}
    /\ at[w] = "rename" => dash[v] = "absent"
    /\ at[w] \in {"release", "rollback", "fail"} => v \in Broken

WholeInv ==
  /\ ~stopping
  /\ \A v \in accepted : up[v] = "done"
  /\ AcceptedNotFailed
  /\ \A w \in Workers : WorkerWhole(w)

(* An upload is accepted by the commit that queues its row. *)
LEMMA AcceptedCause ==
  ASSUME TypeOK, [Next]_vars, NEW v \in Videos, v \in accepted', v \notin accepted
  PROVE  up'[v] = "done" /\ row'[v].status = "processing"
<1>t. /\ row[v] \in Row /\ Size[v] \in Nat
      /\ row \in [Videos -> Row] /\ up \in [Videos -> UploadAt]
  BY ConstantsOK DEF TypeOK, ConstantsOK
<1>1. ASSUME NEW u \in Videos, CommitQueue(u)
      PROVE  up'[v] = "done" /\ row'[v].status = "processing"
  <2>1. /\ u = v /\ up' = [up EXCEPT ![v] = "done"]
        /\ row' = [row EXCEPT ![v] = QueuedRow(row[v], Size[v])]
        /\ row[v].status = "processing"
    BY <1>1 DEF CommitQueue, UploadGoto, Processing
  <2>2. QueuedRow(row[v], Size[v]).status = row[v].status
    BY <1>t, RowStatus
  <2> QED
    BY <2>1, <2>2, <1>t
<1>2. ASSUME NEW u \in Videos, UploadStep(u), ~CommitQueue(u) PROVE accepted' = accepted
  BY <1>2 DEF UploadStep, CreateUploadJob, StoreUpload, LockOwner, FailUpload, DiscardUpload
<1>3. ASSUME NEW w \in Workers, WorkerStep(w) PROVE accepted' = accepted
  BY <1>3 DEF WorkerStep, OpenUploadJob, Encode, ReleaseClaim, ClearPublished, RenameOutput,
     MarkReady, Rollback, FailVideo, DiscardJob, CleanJob
<1> QED
  BY <1>1, <1>2, <1>3 DEF Next, BeginUpload, ClaimAges, HeartbeatExpires, SweepJob, SubmitVideo,
     ApproveVideo, RejectVideo, TakeDownVideo, Review, RowOnly, DeleteVideo, DeleteAdminVideo,
     RemoveVideo, CommitDelete, AbortDelete, ClaimVideo, RecoverClaims, ListActiveJobs,
     EndSweep, Shutdown, Crash, Exit, Restart, vars

(* Public files appear by a worker's rename only. *)
LEMMA DashCause ==
  ASSUME TypeOK, [Next]_vars, NEW v \in Videos
  PROVE  \/ dash[v] = "absent" => dash'[v] = "absent"
         \/ \E w \in Workers : RenameOutput(w) /\ job[w] = v
<1>t. /\ dash \in [Videos -> DashState]
      /\ job \in [Workers -> Videos \cup {NoVideo}]
  BY DEF TypeOK
<1>1. ASSUME NEW u \in Videos, UploadStep(u) PROVE dash' = dash
  BY <1>1 DEF UploadStep, CreateUploadJob, StoreUpload, LockOwner, CommitQueue, FailUpload,
     DiscardUpload
<1>2. ASSUME NEW w \in Workers, WorkerStep(w)
      PROVE  (dash[v] = "absent" => dash'[v] = "absent") \/ (RenameOutput(w) /\ job[w] = v)
  <2>1. CASE RenameOutput(w)
    BY <2>1, <1>t DEF RenameOutput
  <2>2. CASE ClearPublished(w) \/ Rollback(w)
    BY <2>2, <1>t DEF ClearPublished, Rollback, Withdraw, WithdrawalFails
  <2> QED
    BY <1>2, <2>1, <2>2 DEF WorkerStep, OpenUploadJob, Encode, ReleaseClaim, MarkReady,
       FailVideo, DiscardJob, CleanJob
<1>3. ASSUME NEW u \in Videos, DeleteVideo(u) \/ DeleteAdminVideo(u)
      PROVE  dash[v] = "absent" => dash'[v] = "absent"
  BY <1>3, <1>t DEF DeleteVideo, DeleteAdminVideo, RemoveVideo, Withdraw
<1> QED
  BY <1>1, <1>2, <1>3 DEF Next, BeginUpload, ClaimAges, HeartbeatExpires, SweepJob, SubmitVideo,
     ApproveVideo, RejectVideo, TakeDownVideo, Review, RowOnly, CommitDelete, AbortDelete,
     ClaimVideo, RecoverClaims, ListActiveJobs, EndSweep, Shutdown, Crash, Exit, Restart, vars

(* A worker that does not step stays, is stopped, or claims a video. *)
LEMMA OtherStep ==
  ASSUME TypeOK, [Next]_vars, NEW w \in Workers, ~WorkerStep(w)
  PROVE  \/ at'[w] = at[w] /\ job'[w] = job[w]
         \/ (Crash \/ Exit) /\ at'[w] = "idle"
         \/ \E v \in Videos : ClaimVideo(w, v)
<1>t. /\ at \in [Workers -> WorkerAt]
      /\ job \in [Workers -> Videos \cup {NoVideo}]
  BY DEF TypeOK
<1>0. CASE UNCHANGED <<at, job>>
  BY <1>0
<1>1. ASSUME NEW u \in Workers, WorkerStep(u)
      PROVE  at'[w] = at[w] /\ job'[w] = job[w]
  BY <1>1, <1>t DEF WorkerStep, OpenUploadJob, Encode, ReleaseClaim, ClearPublished,
     RenameOutput, MarkReady, Rollback, FailVideo, DiscardJob, CleanJob, WorkerGoto, WorkerEnds
<1>2. ASSUME NEW u \in Workers, NEW v \in Videos, ClaimVideo(u, v), u # w
      PROVE  at'[w] = at[w] /\ job'[w] = job[w]
  BY <1>2, <1>t DEF ClaimVideo, WorkerGoto
<1>3. ASSUME NEW v \in Videos, UploadStep(v) PROVE UNCHANGED <<at, job>>
  BY <1>3 DEF UploadStep, CreateUploadJob, StoreUpload, LockOwner, CommitQueue, FailUpload,
     DiscardUpload
<1>4. CASE Crash \/ Exit
  BY <1>4 DEF Crash, Exit, Restart
<1> QED
  BY <1>0, <1>1, <1>2, <1>3, <1>4 DEF Next, BeginUpload, ClaimAges, HeartbeatExpires,
     SweepJob, SubmitVideo, ApproveVideo, RejectVideo, TakeDownVideo, Review, RowOnly,
     DeleteVideo, DeleteAdminVideo, RemoveVideo, CommitDelete, AbortDelete, RecoverClaims,
     ListActiveJobs, EndSweep, Shutdown, vars

(* The own steps of a worker keep what it relies on. *)
LEMMA WorkerWholeStep ==
  ASSUME TypeOK, ClaimInv, MediaInv, SourceInv, WholeInv, MaxFaults = 0, MaxLostAcks = 0,
         [Next]_vars, NEW w \in Workers, WorkerStep(w)
  PROVE  WorkerWhole(w)'
<1>t. /\ at \in [Workers -> WorkerAt] /\ job \in [Workers -> Videos \cup {NoVideo}]
      /\ row \in [Videos -> Row] /\ dir \in [Videos -> DirState]
      /\ dash \in [Videos -> DashState]
      /\ at[w] = "idle" <=> job[w] = NoVideo
  BY DEF TypeOK
<1>b. ~Spend("faults") /\ ~Spend("lostAcks") /\ ~stopping
  BY DEF TypeOK, Spend, Bounds, Hindrances, WholeInv
<1>a. at[w] # "idle"
  BY DEF WorkerStep, OpenUploadJob, Encode, ReleaseClaim, ClearPublished,
     RenameOutput, MarkReady, Rollback, FailVideo, DiscardJob, CleanJob
<1>v. PICK v \in Videos : job[w] = v
  BY <1>a, <1>t
<1> SUFFICES ASSUME at'[w] # "idle", row'[job'[w]].status = "processing"
             PROVE  /\ row'[job'[w]].queued
                    /\ at'[w] = "encode" => dir'[job'[w]] \in {"source", "encoded"}
                    /\ at'[w] = "rename" => dash'[job'[w]] = "absent"
                    /\ at'[w] \in {"release", "rollback", "fail"} => job'[w] \in Broken
  BY DEF WorkerWhole, Processing
<1>j. job'[w] = v
  BY <1>v, <1>t DEF WorkerStep, OpenUploadJob, Encode, ReleaseClaim, ClearPublished,
     RenameOutput, MarkReady, Rollback, FailVideo, DiscardJob, CleanJob, WorkerGoto, WorkerEnds
<1>m. /\ up[v] = "done"
      /\ at[w] \in {"publish", "rename"} /\ Processing(v) => dir[v] = "encoded"
  BY <1>a, <1>v DEF MediaInv, WorkerMedia
<1>p. row[v].status = "processing" /\ row[v].queued /\ row'[v].queued
  <2>1. row[v].status = "processing"
    BY <1>j, <1>m, RowCause
  <2>2. row[v].queued
    BY <2>1, <1>a, <1>v DEF WholeInv, WorkerWhole, Processing
  <2> QED
    BY <2>1, <2>2, <1>j, RowCause
<1>s. dir[v] \in HasSource
  BY <1>p DEF SourceInv, SourceKept, ActiveJobs, Processing
<1>e. /\ at[w] = "encode" => dir[v] \in {"source", "encoded"}
      /\ at[w] = "rename" => dash[v] = "absent"
      /\ at[w] \in {"release", "rollback", "fail"} => v \in Broken
  BY <1>a, <1>p, <1>v DEF WholeInv, WorkerWhole, Processing
<1> SUFFICES /\ at'[w] = "encode" => dir'[v] \in {"source", "encoded"}
             /\ at'[w] = "rename" => dash'[v] = "absent"
             /\ at'[w] \in {"release", "rollback", "fail"} => v \in Broken
  BY <1>j, <1>p
<1>1. CASE OpenUploadJob(w)
  BY <1>1, <1>b, <1>s, <1>t, <1>v DEF OpenUploadJob, OpenFails, WorkerGoto, SetDir
<1>2. CASE Encode(w)
  BY <1>2, <1>b, <1>e, <1>t, <1>v DEF Encode, EncodeWorks, WorkerGoto
<1>3. CASE ClearPublished(w)
  BY <1>3, <1>b, <1>t, <1>v DEF ClearPublished, Withdraw, WithdrawalFails, WorkerGoto
<1>4. CASE RenameOutput(w)
  <2>1. RenameWorks(v)
    BY <1>4, <1>e, <1>m, <1>p, <1>v DEF RenameOutput, RenameWorks, Processing
  <2> QED
    BY <1>4, <2>1, <1>b, <1>t, <1>v DEF RenameOutput, WorkerGoto
<1>5. CASE MarkReady(w)
  <2>1. \/ row' = [row EXCEPT ![v] = ReadyRow(row[v])] /\ at' = [at EXCEPT ![w] = "clean"]
        \/ ~Processing(v)
    BY <1>5, <1>b, <1>v DEF MarkReady, WorkerGoto
  <2> QED
    BY <2>1, <1>p, <1>t DEF Processing
<1>6. CASE Rollback(w)
  BY <1>6, <1>e, <1>t, <1>v DEF Rollback, WorkerGoto
<1>7. CASE ReleaseClaim(w) \/ FailVideo(w) \/ DiscardJob(w) \/ CleanJob(w)
  BY <1>7, <1>t DEF ReleaseClaim, FailVideo, DiscardJob, CleanJob, WorkerGoto, WorkerEnds
<1> QED
  BY <1>1, <1>2, <1>3, <1>4, <1>5, <1>6, <1>7 DEF WorkerStep

(* The steps of everybody else keep what a worker relies on. *)
LEMMA OthersWholeStep ==
  ASSUME TypeOK, ClaimInv, MediaInv, SourceInv, WholeInv,
         [Next]_vars, NEW w \in Workers, ~WorkerStep(w)
  PROVE  WorkerWhole(w)'
<1>t. /\ at \in [Workers -> WorkerAt] /\ job \in [Workers -> Videos \cup {NoVideo}]
      /\ row \in [Videos -> Row] /\ dir \in [Videos -> DirState]
      /\ at[w] = "idle" <=> job[w] = NoVideo
      /\ NoVideo \notin Videos
  BY ConstantsOK DEF TypeOK, ConstantsOK, NoVideo
<1>1. CASE at'[w] = "idle"
  BY <1>1 DEF WorkerWhole
<1>2. ASSUME NEW v \in Videos, ClaimVideo(w, v) PROVE WorkerWhole(w)'
  <2>1. /\ at'[w] = "open" /\ job'[w] = v /\ row[v].queued
        /\ row' = [row EXCEPT ![v] = ClaimedRow(row[v])]
    BY <1>2, <1>t DEF ClaimVideo, WorkerGoto, Claimable
  <2>2. ClaimedRow(row[v]).queued = row[v].queued
    BY <1>t, RowQueued
  <2>3. row'[v].queued
    BY <2>1, <2>2, <1>t
  <2> QED
    BY <2>1, <2>3 DEF WorkerWhole
<1>3. CASE at'[w] = at[w] /\ job'[w] = job[w] /\ at[w] # "idle"
  <2>v. PICK v \in Videos : job[w] = v
    BY <1>3, <1>t
  <2>j. job'[w] = v
    BY <1>3, <2>v
  <2> SUFFICES ASSUME row'[v].status = "processing"
               PROVE  /\ row'[v].queued
                      /\ at[w] = "encode" => dir'[v] \in {"source", "encoded"}
                      /\ at[w] = "rename" => dash'[v] = "absent"
                      /\ at[w] \in {"release", "rollback", "fail"} => v \in Broken
    BY <1>3, <2>j DEF WorkerWhole, Processing
  <2>u. up[v] = "done"
    BY <1>3, <2>v DEF MediaInv, WorkerMedia
  <2>p. row[v].status = "processing"
    BY <2>u, RowCause
  <2>e. /\ row[v].queued
        /\ at[w] = "encode" => dir[v] \in {"source", "encoded"}
        /\ at[w] = "rename" => dash[v] = "absent"
        /\ at[w] \in {"release", "rollback", "fail"} => v \in Broken
    BY <1>3, <2>p, <2>v DEF WholeInv, WorkerWhole, Processing
  <2>q. row'[v].queued
    BY <2>e, <2>p, RowCause
  <2>o. \A u \in Workers : job[u] = v => u = w
    BY <2>v, <1>t DEF ClaimInv, OneWorkerPerVideo
  <2>1. at[w] = "encode" => dir'[v] = dir[v]
    <3>1. Touched(v)
      BY DirTouched
    <3>2. ~(janitor.scanning /\ v \in Sweepable)
      BY <2>e, <2>p DEF SourceInv, SourceKept, ActiveJobs, Processing, Sweepable
    <3> QED
      BY <2>o, <2>u, <3>1, <3>2 DEF Touched
  <2>2. dash[v] = "absent" => dash'[v] = "absent"
    <3>1. ~RenameOutput(w)
      BY DEF WorkerStep
    <3>2. \/ dash[v] = "absent" => dash'[v] = "absent"
          \/ \E u \in Workers : RenameOutput(u) /\ job[u] = v
      BY DashCause
    <3>3. ASSUME NEW u \in Workers, RenameOutput(u), job[u] = v PROVE FALSE
      BY <2>o, <3>1, <3>3
    <3> QED
      BY <3>2, <3>3
  <2> QED
    BY <2>e, <2>q, <2>1, <2>2
<1>4. CASE at'[w] = at[w] /\ at[w] = "idle"
  BY <1>4 DEF WorkerWhole
<1> QED
  BY <1>1, <1>2, <1>3, <1>4, OtherStep

(* Without a shutdown the process never stops. *)
LEMMA RunsOn ==
  ASSUME TypeOK, ~stopping, MaxStops = 0, [Next]_vars
  PROVE  ~stopping'
<1>1. ~Shutdown
  BY DEF Shutdown, Spend, Bounds, Hindrances, TypeOK
<1>2. ASSUME NEW v \in Videos, UploadStep(v) PROVE stopping' = stopping
  BY <1>2 DEF UploadStep, CreateUploadJob, StoreUpload, LockOwner, CommitQueue, FailUpload,
     DiscardUpload
<1>3. ASSUME NEW w \in Workers, WorkerStep(w) PROVE stopping' = stopping
  BY <1>3 DEF WorkerStep, OpenUploadJob, Encode, ReleaseClaim, ClearPublished, RenameOutput,
     MarkReady, Rollback, FailVideo, DiscardJob, CleanJob
<1> QED
  BY <1>1, <1>2, <1>3 DEF Next, BeginUpload, ClaimAges, HeartbeatExpires, SweepJob,
     SubmitVideo, ApproveVideo, RejectVideo, TakeDownVideo, Review, RowOnly, DeleteVideo,
     DeleteAdminVideo, RemoveVideo, CommitDelete, AbortDelete, ClaimVideo, RecoverClaims,
     ListActiveJobs, EndSweep, Crash, Exit, Restart, vars

(* The induction step behind the accepted uploads. *)
LEMMA WholeStep ==
  ASSUME TypeOK, ClaimInv, MediaInv, SourceInv, WholeInv, MaxFaults = 0, MaxLostAcks = 0,
         MaxStops = 0, TypeOK', [Next]_vars
  PROVE  WholeInv'
<1>1. ~stopping'
  BY RunsOn DEF WholeInv
<1>2. ASSUME NEW v \in accepted' PROVE up'[v] = "done" /\ (v \notin Broken => row'[v].status # "failed")
  <2>v. v \in Videos
    BY <1>2 DEF TypeOK
  <2>1. CASE v \notin accepted
    BY <2>1, <2>v, AcceptedCause
  <2>2. CASE v \in accepted
    <3>1. up[v] = "done"
      BY <2>2 DEF WholeInv
    <3>2. up'[v] = "done"
      BY <2>v, <3>1, UpCause
    <3>3. ASSUME v \notin Broken, row'[v].status = "failed" PROVE FALSE
      <4>1. row[v].status # "failed"
        BY <2>2, <3>3 DEF WholeInv, AcceptedNotFailed
      <4>2. /\ row[v].status = "processing"
            /\ \E w \in Workers : at[w] = "fail" /\ job[w] = v
        BY <2>v, <3>1, <3>3, <4>1, RowCause
      <4> QED
        BY <3>3, <4>2 DEF WholeInv, WorkerWhole, Processing
    <3> QED
      BY <3>2, <3>3
  <2> QED
    BY <2>1, <2>2
<1>3. ASSUME NEW w \in Workers PROVE WorkerWhole(w)'
  BY WorkerWholeStep, OthersWholeStep
<1> QED
  BY <1>1, <1>2, <1>3 DEF WholeInv, AcceptedNotFailed

(* An upload answered with success is never marked failed unless ffmpeg    *)
(* cannot process it: crashes, restarts, recovered claims, deletions and   *)
(* sweeps all lead back to a finished transcode.  A graceful shutdown is   *)
(* excluded: finding_shutdown shows what it does.                          *)
THEOREM AcceptedNeverFails ==
  ASSUME ~SlowTranscode, ~StalledUpload, MaxFaults = 0, MaxLostAcks = 0, MaxStops = 0
  PROVE  Spec => []AcceptedNotFailed
<1> DEFINE IInv == MediaInv /\ SourceInv /\ WholeInv
<1>1. Init => IInv
  BY ConstantsOK DEF Init, NewRow, MediaInv, MediaPresent, Servable, SourceInv, SourceKept,
     ActiveJobs, Processing, ConstantsOK, WholeInv, AcceptedNotFailed, WorkerWhole
<1>2. TypeOK /\ TypeOK' /\ ClaimInv /\ IInv /\ [Next]_vars => IInv'
  BY MediaStep, SourceStep, WholeStep
<1>3. IInv => AcceptedNotFailed
  BY DEF WholeInv
<1> HIDE DEF IInv
<1> QED
  BY <1>1, <1>2, <1>3, TypeCorrect, ClaimsHeld, PTL DEF Spec

-----------------------------------------------------------------------------
(* Files of withdrawn videos.                                              *)

(* A video that is not to be seen, or about to be deleted, has public      *)
(* files only while a worker is about to find out, unless its worker left  *)
(* them behind.                                                            *)
GoneInv == \A v \in Videos \ stranded :
  (row[v].status \notin Servable \/ v \in deleting) /\ dash[v] # "absent" =>
    \E w \in Publishing : job[w] = v

(* A video stops being visible by its deletion only, and its deletion      *)
(* begins with the removal of its files.                                   *)
LEMMA WithdrawalCause ==
  ASSUME TypeOK, RowsInv, [Next]_vars, NEW v \in Videos
  PROVE  /\ row'[v].status \notin Servable => row[v].status \notin Servable \/ v \in deleting
         /\ v \in deleting' => v \in deleting \/ dash'[v] = "absent"
<1>t. row[v] \in Row /\ Size[v] \in Nat /\ dash \in [Videos -> DashState]
  BY ConstantsOK DEF TypeOK, ConstantsOK
<1>1. ASSUME row'[v].status \notin Servable, row[v].status \in Servable
      PROVE  v \in deleting
  <2>1. Rewritten(v) /\ up[v] # "new"
    BY <1>1, RowRewritten DEF RowsInv, Servable
  <2>2. /\ \A s : [row[v] EXCEPT !.status = s].status = s
        /\ [row[v] EXCEPT !.stale = TRUE].status = row[v].status
    BY <1>t DEF Row
  <2>3. /\ QueuedRow(row[v], Size[v]).status = row[v].status
        /\ ClaimedRow(row[v]).status = row[v].status
        /\ ReleasedRow(row[v]).status = row[v].status
        /\ FailedRow(row[v]).status =
             IF row[v].status = "processing" THEN "failed" ELSE row[v].status
        /\ ReadyRow(row[v]).status \in {"pending_review", "ready"}
        /\ SubmittedRow(row[v]).status =
             IF row[v].status = "processing" THEN "processing" ELSE "pending_review"
    BY <1>t, RowStatus
  <2>4. CASE \/ row'[v] \in {ClaimedRow(row[v]), ReleasedRow(row[v])}
             \/ row'[v] = ReadyRow(row[v])
             \/ row'[v] = SubmittedRow(row[v])
    BY <1>1, <2>3, <2>4 DEF Servable
  <2>5. CASE CommitDelete(v)
    BY <2>5 DEF CommitDelete
  <2> QED
    BY <1>1, <2>1, <2>2, <2>3, <2>4, <2>5 DEF Rewritten, Servable
<1>2. ASSUME NEW u \in Videos, UploadStep(u) PROVE deleting' = deleting
  BY <1>2 DEF UploadStep, CreateUploadJob, StoreUpload, LockOwner, CommitQueue, FailUpload,
     DiscardUpload
<1>3. ASSUME NEW w \in Workers, WorkerStep(w) PROVE deleting' = deleting
  BY <1>3 DEF WorkerStep, OpenUploadJob, Encode, ReleaseClaim, ClearPublished, RenameOutput,
     MarkReady, Rollback, FailVideo, DiscardJob, CleanJob
<1>4. ASSUME NEW u \in Videos, DeleteVideo(u) \/ DeleteAdminVideo(u)
      PROVE  v \in deleting' => v \in deleting \/ dash'[v] = "absent"
  BY <1>4, <1>t DEF DeleteVideo, DeleteAdminVideo, RemoveVideo, Withdraw
<1>5. v \in deleting' => v \in deleting \/ dash'[v] = "absent"
  BY <1>2, <1>3, <1>4 DEF Next, BeginUpload, ClaimAges, HeartbeatExpires, SweepJob,
     SubmitVideo, ApproveVideo, RejectVideo, TakeDownVideo, Review, RowOnly, CommitDelete,
     AbortDelete, ClaimVideo, RecoverClaims, ListActiveJobs, EndSweep, Shutdown, Crash, Exit,
     Restart, vars
<1> QED
  BY <1>1, <1>5

(* A worker leaves files behind by ending with the process or by a removal *)
(* that fails; they are no longer left behind once they are removed.       *)
LEMMA StrandedCause ==
  ASSUME TypeOK, [Next]_vars, NEW v \in Videos, v \notin stranded'
  PROVE  /\ v \notin stranded \/ dash'[v] = "absent"
         /\ Crash \/ Exit => \A w \in Publishing : job[w] # v
<1>t. dash \in [Videos -> DashState] /\ job \in [Workers -> Videos \cup {NoVideo}]
  BY DEF TypeOK
<1>1. ASSUME NEW u \in Videos, UploadStep(u) PROVE stranded' = stranded
  BY <1>1 DEF UploadStep, CreateUploadJob, StoreUpload, LockOwner, CommitQueue, FailUpload,
     DiscardUpload
<1>2. ASSUME NEW w \in Workers, WorkerStep(w)
      PROVE  v \notin stranded \/ dash'[v] = "absent"
  <2>1. CASE ClearPublished(w) \/ Rollback(w)
    BY <2>1, <1>t DEF ClearPublished, Rollback, Withdraw, WithdrawalFails
  <2> QED
    BY <1>2, <2>1 DEF WorkerStep, OpenUploadJob, Encode, ReleaseClaim, RenameOutput, MarkReady,
       FailVideo, DiscardJob, CleanJob
<1>3. ASSUME NEW u \in Videos, DeleteVideo(u) \/ DeleteAdminVideo(u)
      PROVE  v \notin stranded \/ dash'[v] = "absent"
  BY <1>3, <1>t DEF DeleteVideo, DeleteAdminVideo, RemoveVideo, Withdraw
<1>4. CASE Crash \/ Exit
  BY <1>4 DEF Crash, Exit, Restart
<1>5. v \notin stranded \/ dash'[v] = "absent"
  BY <1>1, <1>2, <1>3, <1>4 DEF Next, BeginUpload, ClaimAges, HeartbeatExpires, SweepJob,
     SubmitVideo, ApproveVideo, RejectVideo, TakeDownVideo, Review, RowOnly, CommitDelete,
     AbortDelete, ClaimVideo, RecoverClaims, ListActiveJobs, EndSweep, Shutdown, vars
<1> QED
  BY <1>4, <1>5

(* The induction step behind the files of withdrawn videos. *)
LEMMA GoneStep ==
  ASSUME TypeOK, RowsInv, GoneInv, [Next]_vars
  PROVE  GoneInv'
<1>t. /\ at \in [Workers -> WorkerAt] /\ job \in [Workers -> Videos \cup {NoVideo}]
      /\ row \in [Videos -> Row] /\ dash \in [Videos -> DashState]
  BY DEF TypeOK
<1>1. ASSUME NEW v \in Videos, v \notin stranded', dash'[v] # "absent",
             row'[v].status \notin Servable \/ v \in deleting'
      PROVE  \E w \in Workers : job'[w] = v /\ at'[w] \in {"mark", "rollback"}
  <2>1. ASSUME NEW w \in Workers, RenameOutput(w), job[w] = v, dash'[v] # dash[v]
        PROVE  job'[w] = v /\ at'[w] = "mark"
    BY <2>1, <1>t DEF RenameOutput, WorkerGoto
  <2>2. CASE dash[v] # "absent"
    <3>1. row[v].status \notin Servable \/ v \in deleting
      BY <1>1, WithdrawalCause
    <3>s. v \notin stranded /\ (Crash \/ Exit => \A w \in Publishing : job[w] # v)
      BY <1>1, StrandedCause
    <3>2. PICK w \in Workers : job[w] = v /\ at[w] \in {"mark", "rollback"}
      BY <1>1, <2>2, <3>1, <3>s DEF GoneInv, Publishing
    <3>b. ~Crash /\ ~Exit
      BY <3>s, <3>2 DEF Publishing
    <3>3. CASE ~WorkerStep(w)
      BY <3>b, <3>2, <3>3, OtherStep DEF ClaimVideo
    <3>4. CASE MarkReady(w) /\ at'[w] = "rollback"
      BY <3>2, <3>4 DEF MarkReady
    <3>5. CASE MarkReady(w) /\ at'[w] # "rollback"
      <4>1. /\ v \notin deleting /\ deleting' = deleting
            /\ row' = [row EXCEPT ![v] = ReadyRow(row[v])]
        BY <3>2, <3>5, <1>t DEF MarkReady, WorkerGoto, Unlocked
      <4>2. ReadyRow(row[v]).status \in Servable
        BY <1>t, RowStatus DEF Servable
      <4> QED
        BY <1>1, <4>1, <4>2, <1>t
    <3>6. CASE Rollback(w)
      BY <1>1, <3>2, <3>6, <1>t DEF Rollback, Withdraw
    <3> QED
      BY <3>2, <3>3, <3>4, <3>5, <3>6 DEF WorkerStep, OpenUploadJob, Encode, ReleaseClaim,
         ClearPublished, RenameOutput, FailVideo, DiscardJob, CleanJob
  <2>3. CASE dash[v] = "absent"
    BY <1>1, <2>1, <2>3, DashCause
  <2> QED
    BY <2>2, <2>3
<1> QED
  BY <1>1 DEF GoneInv, Publishing

(* The public files of a failed or deleted video are gone, except for the  *)
(* moment in which the worker that published them finds out: deleteVideo   *)
(* may come between any two steps of a transcode, also of one that has     *)
(* outlasted its claim.  Only a worker that ends with its process in that  *)
(* moment, or whose removal fails, leaves them: nothing in the program     *)
(* tries it again unless the video is transcoded or deleted once more.     *)
THEOREM WithdrawnAlwaysGone == Spec => []WithdrawnMediaGone
<1>1. Init => GoneInv
  BY DEF Init, GoneInv
<1>2. TypeOK /\ RowsInv /\ GoneInv /\ [Next]_vars => GoneInv'
  BY GoneStep
<1>3. GoneInv => WithdrawnMediaGone
  BY DEF GoneInv, WithdrawnMediaGone, Servable
<1> QED
  BY <1>1, <1>2, <1>3, TypeCorrect, RowsExist, PTL DEF Spec

-----------------------------------------------------------------------------
(* The quota, however many uploads are queued at the same time.            *)

(* What a row counts towards its owner's quota. *)
Weight(r) == IF r.status \in QuotaStatus THEN r.bytes ELSE 0

(* BytesUsed for any table t of rows. *)
Used(t, u, except) ==
  SumFunctionOnSet([v \in Videos |-> t[v].bytes],
    {v \in Videos \ {except} : Owner[v] = u /\ t[v].status \in QuotaStatus})

Counted(t, u, except) ==
  [v \in Videos |-> IF v # except /\ Owner[v] = u THEN Weight(t[v]) ELSE 0]

(* The bytes in use are the sum of what all rows count. *)
LEMMA UsedCounted ==
  ASSUME NEW t \in [Videos -> Row], NEW u, NEW except
  PROVE  /\ Used(t, u, except) = SumFunctionOnSet(Counted(t, u, except), Videos)
         /\ \A v \in Videos : Counted(t, u, except)[v] \in Nat
         /\ Used(t, u, except) \in Nat
<1> DEFINE T == {v \in Videos \ {except} : Owner[v] = u /\ t[v].status \in QuotaStatus}
<1> DEFINE f == [v \in Videos |-> t[v].bytes]
<1> DEFINE g == Counted(t, u, except)
<1>1. \A v \in Videos : f[v] \in Nat /\ g[v] \in Nat
  BY DEF Row, Counted, Weight
<1>2. \A v \in T : g[v] = f[v]
  BY DEF Counted, Weight
<1>3. \A v \in Videos \ T : g[v] = 0
  BY DEF Counted, Weight
<1>4. T \subseteq Videos /\ IsFiniteSet(Videos)
  BY ConstantsOK DEF ConstantsOK
<1> HIDE DEF T, f, g
<1>5. SumFunctionOnSet(f, T) = SumFunctionOnSet(g, Videos)
  BY <1>1, <1>2, <1>3, <1>4, SumPadded
<1>6. SumFunctionOnSet(g, Videos) \in Nat
  BY <1>1, <1>4, SumType
<1> QED
  BY <1>1, <1>5, <1>6 DEF T, f, g, Used

(* If no row of the owner counts more, no more bytes are in use. *)
LEMMA UsedShrinks ==
  ASSUME NEW s \in [Videos -> Row], NEW t \in [Videos -> Row], NEW u, NEW except,
         \A v \in Videos : v # except /\ Owner[v] = u => Weight(t[v]) <= Weight(s[v])
  PROVE  Used(t, u, except) <= Used(s, u, except)
<1>1. \A v \in Videos : Counted(t, u, except)[v] <= Counted(s, u, except)[v]
  BY DEF Counted
<1>2. /\ \A v \in Videos : Counted(t, u, except)[v] \in Int /\ Counted(s, u, except)[v] \in Int
      /\ IsFiniteSet(Videos)
  BY UsedCounted, ConstantsOK DEF ConstantsOK
<1>3. SumFunctionOnSet(Counted(t, u, except), Videos)
        <= SumFunctionOnSet(Counted(s, u, except), Videos)
  <2> DEFINE f == Counted(t, u, except)
  <2> DEFINE g == Counted(s, u, except)
  <2>1. IsFiniteSet(Videos) /\ \A v \in Videos : f[v] \in Int /\ g[v] \in Int /\ f[v] <= g[v]
    BY <1>1, <1>2
  <2> HIDE DEF f, g
  <2>2. SumFunctionOnSet(f, Videos) <= SumFunctionOnSet(g, Videos)
    BY <2>1, SumMonotonic
  <2> QED
    BY <2>2 DEF f, g
<1>4. /\ Used(t, u, except) = SumFunctionOnSet(Counted(t, u, except), Videos)
      /\ Used(s, u, except) = SumFunctionOnSet(Counted(s, u, except), Videos)
  BY UsedCounted
<1> QED
  BY <1>3, <1>4

(* The bytes in use are those of one video and those of all others. *)
LEMMA UsedSplit ==
  ASSUME NEW t \in [Videos -> Row], NEW v \in Videos
  PROVE  Used(t, Owner[v], NoVideo) = Weight(t[v]) + Used(t, Owner[v], v)
<1> DEFINE f == Counted(t, Owner[v], v)
<1> DEFINE g == Counted(t, Owner[v], NoVideo)
<1>1. /\ g[v] = Weight(t[v]) /\ f[v] = 0
      /\ \A x \in Videos \ {v} : g[x] = f[x]
  BY ConstantsOK DEF ConstantsOK, Counted, NoVideo
<1>2. /\ \A x \in Videos : f[x] \in Int /\ g[x] \in Int
      /\ SumFunctionOnSet(f, Videos) \in Int
      /\ IsFiniteSet(Videos)
  BY UsedCounted, ConstantsOK DEF ConstantsOK
<1> HIDE DEF f, g
<1>3. SumFunctionOnSet(g, Videos) = SumFunctionOnSet(f, Videos) - f[v] + g[v]
  BY <1>1, <1>2, SumChanged
<1>4. SumFunctionOnSet(g, Videos) = SumFunctionOnSet(f, Videos) + Weight(t[v])
  BY <1>1, <1>2, <1>3
<1>5. Used(t, Owner[v], NoVideo) = SumFunctionOnSet(g, Videos)
  BY UsedCounted DEF g
<1>6. Used(t, Owner[v], v) = SumFunctionOnSet(f, Videos)
  BY UsedCounted DEF f
<1>7. Weight(t[v]) \in Nat
  BY DEF Weight, Row
<1> QED
  BY <1>2, <1>4, <1>5, <1>6, <1>7

(* The row's owner is locked from the reading of the quota to the commit,  *)
(* so the commit still finds what was read, or less: every other step      *)
(* leaves a row counting at most what it counted.                          *)
QuotaInv ==
  /\ QuotaRespected
  /\ \A v \in Videos : up[v] = "new" => row[v].bytes = 0
  /\ \A v \in Videos : up[v] = "commit" => Owner[v] \in ownerLock /\ FitsQuota(v)
  /\ \A v, x \in Videos :
       up[v] = "commit" /\ up[x] = "commit" /\ Owner[v] = Owner[x] => v = x

(* Claims come and go without a change to the status or to the bytes. *)
LEMMA ClaimBytes ==
  ASSUME NEW r \in Row, NEW q \in {r, ClaimedRow(r), ReleasedRow(r), [r EXCEPT !.stale = TRUE]}
  PROVE  q.status = r.status /\ q.bytes = r.bytes
<1>1. /\ ClaimedRow(r).status = r.status /\ ClaimedRow(r).bytes = r.bytes
  BY DEF ClaimedRow, Row
<1>2. /\ ReleasedRow(r).status = r.status /\ ReleasedRow(r).bytes = r.bytes
  BY DEF ReleasedRow, Row
<1>3. /\ [r EXCEPT !.stale = TRUE].status = r.status
      /\ [r EXCEPT !.stale = TRUE].bytes = r.bytes
  BY DEF Row
<1> QED
  BY <1>1, <1>2, <1>3

(* Only the commit of a queued upload makes a row count more. *)
LEMMA WeightCause ==
  ASSUME TypeOK, QuotaInv, [Next]_vars, NEW v \in Videos
  PROVE  \/ CommitQueue(v) /\ row'[v] = QueuedRow(row[v], Size[v])
         \/ /\ Weight(row'[v]) <= Weight(row[v])
            /\ row'[v].bytes = row[v].bytes \/ row'[v].bytes = 0
<1>1. row[v] \in Row /\ Rewritten(v) /\ (up[v] = "new" => row[v].bytes = 0)
  BY RowRewritten DEF TypeOK, QuotaInv
<1>2. row[v].bytes \in Nat
  BY <1>1 DEF Row
<1>3. CASE \/ row'[v] = row[v]
           \/ row'[v] \in {ClaimedRow(row[v]), ReleasedRow(row[v])}
           \/ row'[v] = [row[v] EXCEPT !.stale = TRUE]
  <2>1. row'[v].status = row[v].status /\ row'[v].bytes = row[v].bytes
    BY <1>1, <1>3, ClaimBytes
  <2> QED
    BY <1>2, <2>1 DEF Weight
<1>4. CASE up[v] = "new" /\ row'[v] = [row[v] EXCEPT !.status = "processing"]
  BY <1>1, <1>2, <1>4 DEF Weight, QuotaStatus, Row
<1>5. CASE row'[v] = FailedRow(row[v])
  BY <1>1, <1>2, <1>5 DEF Weight, QuotaStatus, Row, FailedRow
<1>6. CASE Processing(v) /\ row'[v] = ReadyRow(row[v])
  BY <1>1, <1>2, <1>6 DEF Weight, QuotaStatus, Row, ReadyRow, StatusAfterTranscode, Processing
<1>7. CASE /\ row[v].status \in {"processing", "ready", "rejected"}
           /\ row'[v] = SubmittedRow(row[v])
  BY <1>1, <1>2, <1>7 DEF Weight, QuotaStatus, Row, SubmittedRow
<1>8. CASE /\ row[v].status \in {"pending_review", "published"}
           /\ \E s \in {"published", "rejected"} : row'[v] = [row[v] EXCEPT !.status = s]
  BY <1>1, <1>2, <1>8 DEF Weight, QuotaStatus, Row
<1>9. CASE row'[v] = [row[v] EXCEPT !.status = "deleted"]
  BY <1>1, <1>2, <1>9 DEF Weight, QuotaStatus, Row
<1>10. CASE CommitQueue(v) /\ row'[v] = QueuedRow(row[v], Size[v])
  BY <1>10
<1>11. Rewritten(v)
  BY <1>1
<1> QED
  BY <1>3, <1>4, <1>5, <1>6, <1>7, <1>8, <1>9, <1>10, <1>11 DEF Rewritten

(* An upload comes to its commit by locking its owner, and no owner is     *)
(* unlocked while an upload of theirs is about to commit.                  *)
LEMMA LockCause ==
  ASSUME TypeOK, QuotaInv, [Next]_vars, NEW v \in Videos, up'[v] = "commit"
  PROVE  /\ up[v] = "commit" \/ LockOwner(v)
         /\ Owner[v] \in ownerLock'
<1>t. up \in [Videos -> UploadAt]
  BY DEF TypeOK
<1>1. ASSUME NEW u \in Videos, LockOwner(u)
      PROVE  /\ up[v] = "commit" \/ LockOwner(v)
             /\ Owner[v] \in ownerLock'
  BY <1>1, <1>t DEF LockOwner, UploadGoto, QuotaInv
<1>2. ASSUME NEW u \in Videos, CommitQueue(u)
      PROVE  up[v] = "commit" /\ Owner[v] \in ownerLock'
  <2>1. u # v /\ up[v] = "commit" /\ up[u] = "commit" /\ ownerLock' = ownerLock \ {Owner[u]}
    BY <1>2, <1>t DEF CommitQueue, UploadGoto
  <2> QED
    BY <2>1 DEF QuotaInv
<1>3. ASSUME NEW u \in Videos,
             BeginUpload(u) \/ CreateUploadJob(u) \/ StoreUpload(u) \/ FailUpload(u) \/ DiscardUpload(u)
      PROVE  up[v] = "commit" /\ ownerLock' = ownerLock
  BY <1>3, <1>t DEF BeginUpload, CreateUploadJob, StoreUpload, FailUpload, DiscardUpload, UploadGoto
<1>4. ASSUME NEW w \in Workers, WorkerStep(w) PROVE UNCHANGED <<up, ownerLock>>
  BY <1>4 DEF WorkerStep, OpenUploadJob, Encode, ReleaseClaim, ClearPublished, RenameOutput,
     MarkReady, Rollback, FailVideo, DiscardJob, CleanJob
<1>5. ~Crash /\ ~Exit
  BY <1>t DEF Crash, Exit, Restart
<1>6. \/ (\E u \in Videos : LockOwner(u)) \/ (\E u \in Videos : CommitQueue(u))
      \/ up[v] = "commit" /\ ownerLock' = ownerLock
  BY <1>3, <1>4, <1>5 DEF Next, UploadStep, ClaimAges, HeartbeatExpires, SweepJob, SubmitVideo,
     ApproveVideo, RejectVideo, TakeDownVideo, Review, RowOnly, DeleteVideo, DeleteAdminVideo,
     RemoveVideo, CommitDelete, AbortDelete, ClaimVideo, RecoverClaims, ListActiveJobs,
     EndSweep, Shutdown, vars
<1> QED
  BY <1>1, <1>2, <1>6 DEF QuotaInv

(* What is in use does not grow but by a commit. *)
LEMMA UsedStep ==
  ASSUME TypeOK, TypeOK', QuotaInv, [Next]_vars, NEW u, NEW except,
         \A v \in Videos : v # except /\ Owner[v] = u => ~CommitQueue(v)
  PROVE  Used(row', u, except) <= Used(row, u, except)
<1>1. row \in [Videos -> Row] /\ row' \in [Videos -> Row]
  BY DEF TypeOK
<1>2. \A v \in Videos : v # except /\ Owner[v] = u => Weight(row'[v]) <= Weight(row[v])
  BY WeightCause
<1> QED
  BY <1>1, <1>2, UsedShrinks

(* The commit finds its owner's other rows as the quota was read. *)
LEMMA CommitFits ==
  ASSUME TypeOK, TypeOK', QuotaInv, [Next]_vars, NEW v \in Videos, CommitQueue(v)
  PROVE  Owner[v] \notin Admins => Used(row', Owner[v], NoVideo) <= MaxStorage
<1>1. /\ row \in [Videos -> Row] /\ row' \in [Videos -> Row] /\ row[v] \in Row
      /\ Size[v] \in Nat /\ MaxStorage \in Nat
  BY ConstantsOK DEF TypeOK, ConstantsOK
<1>2. up[v] = "commit"
  BY DEF CommitQueue, UploadGoto
<1>3. \A x \in Videos : x # v => ~CommitQueue(x)
  BY <1>2 DEF CommitQueue, UploadGoto, QuotaInv
<1>4. Used(row', Owner[v], v) <= Used(row, Owner[v], v)
  BY <1>3, UsedStep
<1>5. /\ Used(row', Owner[v], NoVideo) = Weight(row'[v]) + Used(row', Owner[v], v)
      /\ Used(row, Owner[v], NoVideo) = Weight(row[v]) + Used(row, Owner[v], v)
  BY <1>1, UsedSplit
<1>6. /\ Used(row', Owner[v], v) \in Nat
      /\ Used(row, Owner[v], v) \in Nat
  BY <1>1, UsedCounted
<1>7. Weight(row'[v]) <= Size[v] \/ Weight(row'[v]) <= Weight(row[v])
  <2>1. QueuedRow(row[v], Size[v]).bytes = Size[v]
    BY <1>1 DEF QueuedRow, Row
  <2>2. row'[v] = QueuedRow(row[v], Size[v]) => Weight(row'[v]) <= Size[v]
    BY <1>1, <2>1 DEF Weight
  <2> QED
    BY <2>2, WeightCause
<1>8. Weight(row'[v]) \in Nat /\ Weight(row[v]) \in Nat
  BY <1>1 DEF Weight, Row
<1> SUFFICES ASSUME Owner[v] \notin Admins
             PROVE  Used(row', Owner[v], NoVideo) <= MaxStorage
  OBVIOUS
<1>9. /\ Used(row, Owner[v], v) + Size[v] <= MaxStorage
      /\ Used(row, Owner[v], NoVideo) <= MaxStorage
  <2>1. Owner[v] \in Users \ Admins
    BY ConstantsOK DEF ConstantsOK
  <2> QED
    BY <1>2, <2>1 DEF QuotaInv, QuotaRespected, FitsQuota, BytesUsed, Used
<1> QED
  BY <1>1, <1>4, <1>5, <1>6, <1>7, <1>8, <1>9

(* The induction step behind the quota. *)
LEMMA QuotaStep ==
  ASSUME TypeOK, TypeOK', QuotaInv, [Next]_vars
  PROVE  QuotaInv'
<1>t. /\ row \in [Videos -> Row] /\ row' \in [Videos -> Row] /\ up \in [Videos -> UploadAt]
      /\ MaxStorage \in Nat /\ Size \in [Videos -> Nat]
  BY ConstantsOK DEF TypeOK, ConstantsOK
<1>1. QuotaRespected'
  <2>1. ASSUME NEW u \in Users \ Admins PROVE Used(row', u, NoVideo) <= MaxStorage
    <3>1. CASE \E v \in Videos : Owner[v] = u /\ CommitQueue(v)
      BY <2>1, <3>1, CommitFits
    <3>2. CASE ~\E v \in Videos : Owner[v] = u /\ CommitQueue(v)
      <4>1. Used(row', u, NoVideo) <= Used(row, u, NoVideo)
        BY <3>2, UsedStep
      <4>2. Used(row, u, NoVideo) <= MaxStorage
        BY <2>1 DEF QuotaInv, QuotaRespected, BytesUsed, Used
      <4>3. Used(row', u, NoVideo) \in Nat /\ Used(row, u, NoVideo) \in Nat
        BY <1>t, UsedCounted
      <4> QED
        BY <1>t, <4>1, <4>2, <4>3
    <3> QED
      BY <3>1, <3>2
  <2> QED
    BY <2>1 DEF QuotaRespected, BytesUsed, Used
<1>2. ASSUME NEW v \in Videos, up'[v] = "new" PROVE row'[v].bytes = 0
  <2>1. up[v] = "new" /\ row[v].bytes = 0
    BY <1>2, UpCause DEF QuotaInv
  <2>2. ~CommitQueue(v)
    BY <2>1 DEF CommitQueue, UploadGoto
  <2> QED
    BY <2>1, <2>2, WeightCause
<1>3. ASSUME NEW v \in Videos, up'[v] = "commit"
      PROVE  Owner[v] \in ownerLock' /\ FitsQuota(v)'
  <2>1. FitsQuota(v)
    <3>1. LockOwner(v) => FitsQuota(v)
      BY <1>t, <1>3 DEF LockOwner, UploadGoto
    <3> QED
      BY <1>3, <3>1, LockCause DEF QuotaInv
  <2>2. \A x \in Videos : x # v /\ Owner[x] = Owner[v] => ~CommitQueue(x)
    <3> SUFFICES ASSUME NEW x \in Videos, x # v, Owner[x] = Owner[v], CommitQueue(x)
                 PROVE  FALSE
      OBVIOUS
    <3>1. up[x] = "commit" /\ Owner[x] \notin ownerLock'
      BY DEF CommitQueue, UploadGoto
    <3> QED
      BY <1>3, <3>1, LockCause
  <2>3. Used(row', Owner[v], v) <= Used(row, Owner[v], v)
    BY <2>2, UsedStep
  <2>4. Used(row', Owner[v], v) \in Nat /\ Used(row, Owner[v], v) \in Nat
    BY <1>t, UsedCounted
  <2>5. Owner[v] \in Admins \/ Used(row', Owner[v], v) + Size[v] <= MaxStorage
    BY <1>t, <2>1, <2>3, <2>4 DEF FitsQuota, BytesUsed, Used
  <2> QED
    BY <1>3, <2>5, LockCause DEF FitsQuota, BytesUsed, Used
<1>4. ASSUME NEW v \in Videos, NEW x \in Videos, up'[v] = "commit", up'[x] = "commit",
             Owner[v] = Owner[x], v # x
      PROVE  FALSE
  <2>1. /\ up[v] = "commit" \/ LockOwner(v)
        /\ up[x] = "commit" \/ LockOwner(x)
    BY <1>4, LockCause
  <2>2. LockOwner(v) => up[x] = "commit"
    BY <1>t, <1>4 DEF LockOwner, UploadGoto
  <2>3. LockOwner(x) => up[v] = "commit"
    BY <1>t, <1>4 DEF LockOwner, UploadGoto
  <2>4. ~(LockOwner(v) /\ up[x] = "commit") /\ ~(LockOwner(x) /\ up[v] = "commit")
    BY <1>4 DEF LockOwner, OwnerFree, QuotaInv
  <2> QED
    BY <1>4, <2>1, <2>2, <2>3, <2>4 DEF QuotaInv
<1> QED
  BY <1>1, <1>2, <1>3, <1>4 DEF QuotaInv

(* The stored bytes of a user without the admin role never exceed the      *)
(* quota: queueVideoUpload holds the owner's row from its sum over the     *)
(* other videos to its commit, so no interleaving of uploads, and no       *)
(* transcode, review, deletion, crash or retry in between, makes the sum   *)
(* it compared too small.                                                  *)
THEOREM QuotaAlwaysRespected == Spec => []QuotaRespected
<1>1. Init => QuotaInv
  <2> SUFFICES ASSUME Init PROVE QuotaInv
    OBVIOUS
  <2>1. row \in [Videos -> Row] /\ \A v \in Videos : Weight(row[v]) = 0 /\ row[v].bytes = 0
    BY DEF Init, NewRow, Row, Status, Weight, QuotaStatus
  <2>2. ASSUME NEW u \in Users \ Admins PROVE BytesUsed(u, NoVideo) <= MaxStorage
    <3>1. \A v \in Videos : Counted(row, u, NoVideo)[v] = 0
      BY <2>1 DEF Counted
    <3>2. SumFunctionOnSet(Counted(row, u, NoVideo), Videos) = 0
      <4> DEFINE f == Counted(row, u, NoVideo)
      <4> HIDE DEF f
      <4>1. SumFunctionOnSet(f, Videos) = 0
        BY <3>1, SumZero, ConstantsOK DEF ConstantsOK, f
      <4> QED
        BY <4>1 DEF f
    <3>3. Used(row, u, NoVideo) = 0
      BY <2>1, <3>2, UsedCounted
    <3> QED
      BY <3>3, ConstantsOK DEF ConstantsOK, BytesUsed, Used
  <2> QED
    BY <2>1, <2>2 DEF Init, QuotaInv, QuotaRespected
<1>2. TypeOK /\ TypeOK' /\ QuotaInv /\ [Next]_vars => QuotaInv'
  BY QuotaStep
<1>3. QuotaInv => QuotaRespected
  BY DEF QuotaInv
<1> QED
  BY <1>1, <1>2, <1>3, TypeCorrect, PTL DEF Spec
=============================================================================
