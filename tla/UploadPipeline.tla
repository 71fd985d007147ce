--------------------------- MODULE UploadPipeline ---------------------------
(***************************************************************************)
(* One application process: the upload handlers, the transcoding workers,  *)
(* the stale-claim recovery, the upload janitor, and the transactions of   *)
(* the owner (submit, delete) and of the reviewers (approve, reject, take  *)
(* down, delete), over the videos table, the private upload directories    *)
(* and the public DASH directories.                                        *)
(*                                                                         *)
(* One action is one database transaction, one file-system operation, or   *)
(* one external program run; everything else may happen in between.  A     *)
(* transaction is one action because the row lock it holds keeps the other *)
(* writers of the row out, with two exceptions that do more than touch the *)
(* row while they hold a lock: deleteVideo (it removes files before it     *)
(* commits) and queueVideoUpload (it sums the owner's other rows first).   *)
(*                                                                         *)
(* An upload's random job id belongs to one video only, so the job of      *)
(* video v is named v.  The row's title, tags, cover and stream columns    *)
(* are written by the same transactions as its status and are left out.    *)
(***************************************************************************)
EXTENDS Integers, FiniteSets, Functions

CONSTANTS
  Videos,         \* ids of the rows that may be created, positive integers
  Workers,        \* goroutines of the VideoTranscoder
  Users,          \* account ids
  Admins,         \* accounts with role "admin": no quota
  Owner,          \* [Videos -> Users]
  Size,           \* [Videos -> Nat], length of the uploaded source
  MaxStorage,     \* maxUserStorageBytes
  Broken,         \* videos ffprobe or ffmpeg cannot process in time
  SlowTranscode,  \* a live worker may outlast staleAfter = 2 * transcodeTimeout
  StalledUpload,  \* a live upload may outlast uploadIdleTimeout between touches
  MaxCrashes,     \* bounds on how often the environment interferes:
  MaxStops,       \*   graceful shutdowns,
  MaxFaults,      \*   failed database calls, request cancellations, file errors,
  MaxLostAcks,    \*   commits applied whose acknowledgement is lost,
  MaxOwnerDeletes,
  MaxAdminDeletes

ASSUME ConstantsOK ==
  /\ Videos \subseteq Nat \ {0} /\ IsFiniteSet(Videos)
  /\ Admins \subseteq Users
  /\ Owner \in [Videos -> Users] /\ Size \in [Videos -> Nat]
  /\ MaxStorage \in Nat /\ Broken \subseteq Videos
  /\ SlowTranscode \in BOOLEAN /\ StalledUpload \in BOOLEAN
  /\ MaxCrashes \in Nat /\ MaxStops \in Nat /\ MaxFaults \in Nat
  /\ MaxLostAcks \in Nat /\ MaxOwnerDeletes \in Nat /\ MaxAdminDeletes \in Nat

VARIABLES
  row,        \* [Videos -> Row], the videos table
  dir,        \* [Videos -> DirState], the upload job's private directory
  dash,       \* [Videos -> DashState], the public directory of the BV id
  cold,       \* SUBSET Videos: heartbeat older than uploadIdleTimeout
  up,         \* [Videos -> UploadAt], the upload request creating the row
  ownerLock,  \* SUBSET Users: user rows locked by queueVideoUpload
  at,         \* [Workers -> WorkerAt]
  job,        \* [Workers -> Videos \cup {NoVideo}], the claimed video
  janitor,    \* [scanning : BOOLEAN, active : SUBSET Videos]
  deleting,   \* SUBSET Videos: deleteVideo removed the files, not committed
  stopping,   \* Stop was called: the workers' context is cancelled
  spent,      \* how much of each bound is used
  accepted,   \* history: videos whose upload was answered with success
  robbed,     \* history: videos whose deletion removed the files, then aborted
  stranded    \* history: videos whose published files their worker left behind

vars == <<row, dir, dash, cold, up, ownerLock, at, job, janitor, deleting,
          stopping, spent, accepted, robbed, stranded>>

NoVideo == 0

Status == {"none", "processing", "ready", "pending_review", "published",
           "rejected", "failed", "deleted"}

(* queued: upload_job_id is set; claimed: processing_started_at is set;    *)
(* stale: that time is before now - staleAfter.                            *)
Row == [status : Status, queued : BOOLEAN, bytes : Nat, claimed : BOOLEAN,
        stale : BOOLEAN, submitted : BOOLEAN]

(* "empty": no (whole) source; "source": a source and an output directory  *)
(* without a finished manifest; "encoded": a source and a finished output; *)
(* "moved": a source, the output directory renamed away.                   *)
DirState  == {"absent", "empty", "source", "encoded", "moved"}
HasSource == {"source", "encoded", "moved"}
DashState == {"absent", "partial", "complete"}

UploadAt == {"new", "create", "store", "queue", "commit", "fail", "discard", "done"}
UploadEnded == {"new", "done"}
WorkerAt == {"idle", "open", "encode", "release", "publish", "rename", "mark",
             "rollback", "fail", "discard", "clean"}

Hindrances == {"crashes", "stops", "faults", "lostAcks", "ownerDeletes",
               "adminDeletes"}
Bounds == [crashes |-> MaxCrashes, stops |-> MaxStops, faults |-> MaxFaults,
           lostAcks |-> MaxLostAcks, ownerDeletes |-> MaxOwnerDeletes,
           adminDeletes |-> MaxAdminDeletes]

(* The environment uses up one unit of the bound k, if one is left. *)
Spend(k) ==
  /\ spent[k] < Bounds[k]
  /\ spent' = [spent EXCEPT ![k] = @ + 1]

NewRow == [status |-> "none", queued |-> FALSE, bytes |-> 0, claimed |-> FALSE,
           stale |-> FALSE, submitted |-> FALSE]

Init ==
  /\ row = [v \in Videos |-> NewRow]
  /\ dir = [v \in Videos |-> "absent"]
  /\ dash = [v \in Videos |-> "absent"]
  /\ cold = {}
  /\ up = [v \in Videos |-> "new"]
  /\ ownerLock = {}
  /\ at = [w \in Workers |-> "idle"]
  /\ job = [w \in Workers |-> NoVideo]
  /\ janitor = [scanning |-> FALSE, active |-> {}]
  /\ deleting = {}
  /\ stopping = FALSE
  /\ spent = [k \in Hindrances |-> 0]
  /\ accepted = {}
  /\ robbed = {}
  /\ stranded = {}

-----------------------------------------------------------------------------
(* Shared pieces.                                                          *)

Processing(v) == row[v].status = "processing"

(* Seeded fault: deleteVideo removes the files without the row's lock. *)
UnlockedAlways(v) == TRUE

(* deleteVideo holds the row lock while it removes files. *)
Unlocked(v) == v \notin deleting

(* Seeded fault: the failure is written whatever the row's status is. *)
FailedRowAlways(r) == [r EXCEPT !.status = "failed", !.queued = FALSE]

(* markVideoUploadFailed: only a row still processing is touched. *)
FailedRow(r) ==
  IF r.status # "processing" THEN r
  ELSE [r EXCEPT !.status = "failed", !.queued = FALSE, !.bytes = 0,
                 !.claimed = FALSE, !.stale = FALSE]

MarkFailed(v) ==
  \/ /\ Unlocked(v)
     /\ row' = [row EXCEPT ![v] = FailedRow(@)]
     /\ UNCHANGED spent
  \/ Spend("faults") /\ UNCHANGED row

(* A touched heartbeat is fresh again. *)
SetDir(v, d) ==
  /\ dir' = [dir EXCEPT ![v] = d]
  /\ cold' = cold \ {v}

RemoveDir(v) == SetDir(v, "absent")

(* What os.RemoveAll may leave of a directory when it meets an error.      *)
Remains(d) == {d, "empty"} \cup (IF d \in HasSource THEN {"moved"} ELSE {})
                           \cup (IF d = "encoded" THEN {"source"} ELSE {})

(* The removal of directory d of v fails part-way, which is only logged.   *)
(* Without its heartbeat file the directory is as old as this last change. *)
RemovalFails(v, d) ==
  /\ d # "absent"
  /\ Spend("faults")
  /\ \E rest \in Remains(d) : dir' = [dir EXCEPT ![v] = rest]
  /\ cold' \in {cold, cold \ {v}}

(* OpenUploadJob makes a missing output directory anew.                    *)
Reopened(d) == IF d = "moved" THEN "source" ELSE d

(* It stops at an I/O error, before or after it did so.                    *)
OpenFails(v) ==
  /\ dir[v] \in HasSource
  /\ Spend("faults")
  /\ \E d \in {dir[v], Reopened(dir[v])} : dir' = [dir EXCEPT ![v] = d]
  /\ UNCHANGED cold

(* The public directory of v is removed. *)
Withdraw(v) ==
  /\ dash' = [dash EXCEPT ![v] = "absent"]
  /\ stranded' = stranded \ {v}

(* Its removal fails part-way. *)
WithdrawalFails(v) ==
  /\ Spend("faults")
  /\ \/ UNCHANGED dash
     \/ dash[v] # "absent" /\ dash' = [dash EXCEPT ![v] = "partial"]

-----------------------------------------------------------------------------
(* The upload request (ProcessVideoUpload).                                *)

UploadGoto(v, from, to) ==
  /\ up[v] = from
  /\ up' = [up EXCEPT ![v] = to]

(* The row is inserted before the first byte is stored. *)
BeginUpload(v) ==
  /\ UploadGoto(v, "new", "create")
  /\ row' = [row EXCEPT ![v].status = "processing"]
  /\ UNCHANGED <<dir, dash, cold, ownerLock, at, job, janitor, deleting,
                 stopping, spent, accepted, robbed, stranded>>

(* On an error the row is marked failed, and the directory that may exist  *)
(* already is left to the janitor.                                         *)
CreateUploadJob(v) ==
  /\ \/ /\ UploadGoto(v, "create", "store")
        /\ SetDir(v, "empty")
        /\ UNCHANGED <<row, spent>>
     \/ /\ UploadGoto(v, "create", "done")
        /\ Spend("faults")
        /\ \E d \in {"absent", "empty"} : SetDir(v, d)
        /\ \/ Unlocked(v) /\ row' = [row EXCEPT ![v] = FailedRow(@)]
           \/ UNCHANGED row
  /\ UNCHANGED <<dash, ownerLock, at, job, janitor, deleting, stopping,
                 accepted, robbed, stranded>>

(* StoreUpload and StoreCover.  Every chunk touches the heartbeat, which   *)
(* fails once the directory is gone; the client may also stop sending or   *)
(* send too much.                                                          *)
StoreUpload(v) ==
  /\ \/ /\ dir[v] = "empty"
        /\ UploadGoto(v, "store", "queue")
        /\ SetDir(v, "source")
     \/ /\ UploadGoto(v, "store", "fail")
        /\ UNCHANGED <<dir, cold>>
  /\ UNCHANGED <<row, dash, ownerLock, at, job, janitor, deleting, stopping,
                 spent, accepted, robbed, stranded>>

QuotaStatus == {"processing", "ready", "pending_review", "published", "rejected"}

BytesUsed(u, except) ==
  SumFunctionOnSet([v \in Videos |-> row[v].bytes],
    {v \in Videos \ {except} : Owner[v] = u /\ row[v].status \in QuotaStatus})

FitsQuota(v) ==
  \/ Owner[v] \in Admins
  \/ BytesUsed(Owner[v], v) + Size[v] <= MaxStorage

(* Seeded fault: the owner's row is read without FOR UPDATE. *)
OwnerFreeAlways(v) == TRUE

OwnerFree(v) == Owner[v] \notin ownerLock

(* First half of queueVideoUpload: lock the owner's row, then read the     *)
(* quota in use.                                                           *)
LockOwner(v) ==
  /\ OwnerFree(v)
  /\ \/ /\ FitsQuota(v)
        /\ UploadGoto(v, "queue", "commit")
        /\ ownerLock' = ownerLock \cup {Owner[v]}
     \/ /\ ~FitsQuota(v)
        /\ UploadGoto(v, "queue", "fail")
        /\ UNCHANGED ownerLock
  /\ UNCHANGED <<row, dir, dash, cold, at, job, janitor, deleting, stopping,
                 spent, accepted, robbed, stranded>>

(* Second half: the update, which finds no row once the owner deleted the  *)
(* video.  The request's context may be cancelled before it commits, and   *)
(* the acknowledgement of a commit may be lost.                            *)
QueuedRow(r, n) == [r EXCEPT !.queued = TRUE, !.bytes = n]

CommitQueue(v) ==
  /\ \/ /\ Unlocked(v) /\ Processing(v)
        /\ UploadGoto(v, "commit", "done")
        /\ row' = [row EXCEPT ![v] = QueuedRow(@, Size[v])]
        /\ accepted' = accepted \cup {v}
        /\ UNCHANGED spent
     \/ /\ Unlocked(v) /\ ~Processing(v)
        /\ UploadGoto(v, "commit", "fail")
        /\ UNCHANGED <<row, accepted, spent>>
     \/ /\ UploadGoto(v, "commit", "fail")
        /\ Spend("faults")
        /\ UNCHANGED <<row, accepted>>
     \/ /\ Unlocked(v) /\ Processing(v)
        /\ UploadGoto(v, "commit", "fail")
        /\ row' = [row EXCEPT ![v] = QueuedRow(@, Size[v])]
        /\ Spend("lostAcks")
        /\ UNCHANGED accepted
  /\ ownerLock' = ownerLock \ {Owner[v]}
  /\ UNCHANGED <<dir, dash, cold, at, job, janitor, deleting, stopping, robbed,
                 stranded>>

FailUpload(v) ==
  /\ UploadGoto(v, "fail", "discard")
  /\ MarkFailed(v)
  /\ UNCHANGED <<dir, dash, cold, ownerLock, at, job, janitor, deleting,
                 stopping, accepted, robbed, stranded>>

DiscardUpload(v) ==
  /\ UploadGoto(v, "discard", "done")
  /\ \/ RemoveDir(v) /\ UNCHANGED spent
     \/ RemovalFails(v, dir[v])
  /\ UNCHANGED <<row, dash, ownerLock, at, job, janitor, deleting, stopping,
                 accepted, robbed, stranded>>

UploadStep(v) ==
  \/ CreateUploadJob(v) \/ StoreUpload(v) \/ LockOwner(v) \/ CommitQueue(v)
  \/ FailUpload(v) \/ DiscardUpload(v)

-----------------------------------------------------------------------------
(* The transcoding worker (ProcessNextVideoUpload).                        *)

WorkerGoto(w, to) == at' = [at EXCEPT ![w] = to]

(* The worker drops its video and polls again. *)
WorkerEnds(w) ==
  /\ WorkerGoto(w, "idle")
  /\ job' = [job EXCEPT ![w] = NoVideo]

(* FOR UPDATE SKIP LOCKED over the queued rows nobody claimed.  The attempt *)
(* counter is never read and is left out.                                   *)
Claimable == {v \in Videos :
  Processing(v) /\ row[v].queued /\ ~row[v].claimed /\ Unlocked(v)}

(* Seeded fault: the claim does not set processing_started_at. *)
ClaimedRowUnmarked(r) == [r EXCEPT !.stale = FALSE]

ClaimedRow(r) == [r EXCEPT !.claimed = TRUE, !.stale = FALSE]

ClaimVideo(w, v) ==
  /\ ~stopping
  /\ v \in Claimable /\ \A u \in Claimable : v <= u
  /\ at[w] = "idle" /\ WorkerGoto(w, "open")
  /\ job' = [job EXCEPT ![w] = v]
  /\ row' = [row EXCEPT ![v] = ClaimedRow(@)]
  /\ UNCHANGED <<dir, dash, cold, up, ownerLock, janitor, deleting, stopping,
                 spent, accepted, robbed, stranded>>

(* OpenUploadJob recreates the output directory; from here on ffmpeg      *)
(* overwrites whatever an earlier attempt left in it.                     *)
OpenUploadJob(w) ==
  LET v == job[w] IN
  /\ at[w] = "open"
  /\ \/ /\ dir[v] \in HasSource
        /\ WorkerGoto(w, "encode")
        /\ SetDir(v, "source")
        /\ UNCHANGED spent
     \/ /\ dir[v] \notin HasSource
        /\ WorkerGoto(w, "fail")
        /\ UNCHANGED <<dir, cold, spent>>
     \/ WorkerGoto(w, "fail") /\ OpenFails(v)
  /\ UNCHANGED <<row, dash, up, ownerLock, job, janitor, deleting, stopping,
                 accepted, robbed, stranded>>

(* InspectMP4, GenerateCover and TranscodeDASH.  An error while the        *)
(* context is cancelled releases the claim, any other one fails the video. *)
(* The programs may still succeed when the shutdown comes too late.        *)
EncodeWorks(v) == v \notin Broken /\ dir[v] \in {"source", "encoded"}

Encode(w) ==
  LET v == job[w] IN
  /\ at[w] = "encode"
  /\ \/ /\ EncodeWorks(v)
        /\ WorkerGoto(w, "publish")
        /\ SetDir(v, "encoded")
     \/ /\ ~EncodeWorks(v) /\ ~stopping
        /\ WorkerGoto(w, "fail")
        /\ UNCHANGED <<dir, cold>>
     \/ /\ stopping
        /\ WorkerGoto(w, "release")
        /\ UNCHANGED <<dir, cold>>
  /\ UNCHANGED <<row, dash, up, ownerLock, job, janitor, deleting, stopping,
                 spent, accepted, robbed, stranded>>

(* Seeded fault: the claim is renewed instead of cleared. *)
ReleasedRowRenewed(r) == [r EXCEPT !.stale = FALSE]

(* releaseVideoUploadClaim, which has a context of its own. *)
ReleasedRow(r) ==
  IF r.status = "processing" THEN [r EXCEPT !.claimed = FALSE, !.stale = FALSE] ELSE r

ReleaseClaim(w) ==
  /\ at[w] = "release"
  /\ WorkerEnds(w)
  /\ \/ /\ Unlocked(job[w])
        /\ row' = [row EXCEPT ![job[w]] = ReleasedRow(@)]
        /\ UNCHANGED spent
     \/ Spend("faults") /\ UNCHANGED row
  /\ UNCHANGED <<dir, dash, cold, up, ownerLock, janitor, deleting, stopping,
                 accepted, robbed, stranded>>

(* PublishDASH, first half: remove what an earlier attempt published. *)
ClearPublished(w) ==
  /\ at[w] = "publish"
  /\ \/ /\ WorkerGoto(w, "rename")
        /\ Withdraw(job[w])
        /\ UNCHANGED spent
     \/ /\ WorkerGoto(w, "fail")
        /\ WithdrawalFails(job[w])
        /\ UNCHANGED stranded
  /\ UNCHANGED <<row, dir, cold, up, ownerLock, job, janitor, deleting, stopping,
                 accepted, robbed>>

(* PublishDASH, second half: rename the output into place.  os.Rename      *)
(* refuses to replace a directory that another worker has put there.       *)
RenameWorks(v) == dir[v] \in {"source", "encoded"} /\ dash[v] = "absent"

RenameOutput(w) ==
  LET v == job[w] IN
  /\ at[w] = "rename"
  /\ \/ /\ RenameWorks(v)
        /\ WorkerGoto(w, "mark")
        /\ dash' = [dash EXCEPT ![v] = IF dir[v] = "encoded" THEN "complete" ELSE "partial"]
        /\ dir' = [dir EXCEPT ![v] = "moved"]
        /\ UNCHANGED spent
     \/ /\ ~RenameWorks(v)
        /\ WorkerGoto(w, "fail")
        /\ UNCHANGED <<dash, dir, spent>>
     \/ /\ WorkerGoto(w, "fail")
        /\ Spend("faults")
        /\ UNCHANGED <<dash, dir>>
  /\ UNCHANGED <<row, cold, up, ownerLock, job, janitor, deleting, stopping,
                 accepted, robbed, stranded>>

(* Seeded fault: a submission made during the transcode is overlooked. *)
StatusAfterTranscodeReady(r) == "ready"

(* videoStatusAfterTranscode, read under the row lock. *)
StatusAfterTranscode(r) == IF r.submitted THEN "pending_review" ELSE "ready"

ReadyRow(r) == [r EXCEPT !.status = StatusAfterTranscode(r), !.queued = FALSE,
                         !.claimed = FALSE, !.stale = FALSE]

(* markVideoUploadReady runs on the worker's context: once that is         *)
(* cancelled the transaction never starts.                                 *)
MarkReady(w) ==
  LET v == job[w] IN
  /\ at[w] = "mark"
  /\ \/ /\ ~stopping /\ Unlocked(v) /\ Processing(v)
        /\ row' = [row EXCEPT ![v] = ReadyRow(@)]
        /\ \/ WorkerGoto(w, "clean") /\ UNCHANGED spent
           \/ WorkerGoto(w, "rollback") /\ Spend("lostAcks")
     \/ /\ stopping \/ (Unlocked(v) /\ ~Processing(v))
        /\ WorkerGoto(w, "rollback")
        /\ UNCHANGED <<row, spent>>
     \/ /\ WorkerGoto(w, "rollback")
        /\ Spend("faults")
        /\ UNCHANGED row
  /\ UNCHANGED <<dir, dash, cold, up, ownerLock, job, janitor, deleting,
                 stopping, accepted, robbed, stranded>>

(* RemovePublished; its error is only logged. *)
Rollback(w) ==
  /\ at[w] = "rollback"
  /\ WorkerGoto(w, "fail")
  /\ \/ Withdraw(job[w]) /\ UNCHANGED spent
     \/ /\ WithdrawalFails(job[w])
        /\ stranded' = stranded \cup {job[w]}
  /\ UNCHANGED <<row, dir, cold, up, ownerLock, job, janitor, deleting, stopping,
                 accepted, robbed>>

(* failQueuedVideoUpload: the status first, the job directory second, and  *)
(* the directory only if OpenUploadJob still finds a source in it.         *)
FailVideo(w) ==
  /\ at[w] = "fail"
  /\ WorkerGoto(w, "discard")
  /\ MarkFailed(job[w])
  /\ UNCHANGED <<dir, dash, cold, up, ownerLock, job, janitor, deleting,
                 stopping, accepted, robbed, stranded>>

DiscardJob(w) ==
  LET v == job[w] IN
  /\ at[w] = "discard"
  /\ WorkerEnds(w)
  /\ \/ dir[v] \in HasSource /\ RemoveDir(v) /\ UNCHANGED spent
     \/ dir[v] \notin HasSource /\ UNCHANGED <<dir, cold, spent>>
     \/ OpenFails(v)
     \/ dir[v] \in HasSource /\ RemovalFails(v, Reopened(dir[v]))
  /\ UNCHANGED <<row, dash, up, ownerLock, janitor, deleting, stopping, accepted,
                 robbed, stranded>>

CleanJob(w) ==
  /\ at[w] = "clean"
  /\ WorkerEnds(w)
  /\ \/ RemoveDir(job[w]) /\ UNCHANGED spent
     \/ RemovalFails(job[w], dir[job[w]])
  /\ UNCHANGED <<row, dash, up, ownerLock, janitor, deleting, stopping, accepted,
                 robbed, stranded>>

WorkerStep(w) ==
  \/ OpenUploadJob(w) \/ Encode(w) \/ ReleaseClaim(w) \/ ClearPublished(w)
  \/ RenameOutput(w) \/ MarkReady(w) \/ Rollback(w) \/ FailVideo(w)
  \/ DiscardJob(w) \/ CleanJob(w)

-----------------------------------------------------------------------------
(* Recovery of stale claims and the janitor.                               *)

Held(v) == \E w \in Workers : job[w] = v

(* Time passes staleAfter.  With the default timeouts (transcodeTimeout is *)
(* 1 h, the other stages take at most 1 min each) a live worker is done by *)
(* then; with transcodeTimeout under 2 min it need not be (SlowTranscode). *)
ClaimAges(v) ==
  /\ row[v].claimed /\ ~row[v].stale
  /\ Held(v) => SlowTranscode
  /\ row' = [row EXCEPT ![v].stale = TRUE]
  /\ UNCHANGED <<dir, dash, cold, up, ownerLock, at, job, janitor, deleting,
                 stopping, spent, accepted, robbed, stranded>>

(* Seeded fault: every claim is recovered, whatever its age. *)
AllClaims == {v \in Videos : Processing(v) /\ row[v].claimed}

StaleClaims == {v \in Videos : Processing(v) /\ row[v].claimed /\ row[v].stale}

(* One UPDATE over all stale rows; it waits for the locked ones. *)
RecoverClaims ==
  /\ ~stopping
  /\ StaleClaims # {} /\ \A v \in StaleClaims : Unlocked(v)
  /\ row' = [v \in Videos |-> IF v \in StaleClaims THEN ReleasedRow(row[v]) ELSE row[v]]
  /\ UNCHANGED <<dir, dash, cold, up, ownerLock, at, job, janitor, deleting,
                 stopping, spent, accepted, robbed, stranded>>

(* Seeded faults: only claimed jobs are listed; jobs of settled rows are. *)
ClaimedJobs == {v \in Videos : Processing(v) /\ row[v].claimed}
JobsOfAnyStatus == {v \in Videos : row[v].queued}

ActiveJobs == {v \in Videos : Processing(v) /\ row[v].queued}

(* Time passes uploadIdleTimeout without a touch.  A live upload touches   *)
(* the heartbeat with every chunk and then queues the row within that      *)
(* time unless it is stalled, and a sweep compares heartbeats with a       *)
(* cutoff taken right after it listed the active jobs, so a job queued     *)
(* since then is too fresh for it.                                         *)
HeartbeatExpires(v) ==
  /\ dir[v] # "absent" /\ v \notin cold
  /\ up[v] \in UploadEnded \/ StalledUpload
  /\ ~(janitor.scanning /\ v \in ActiveJobs \ janitor.active)
  /\ cold' = cold \cup {v}
  /\ UNCHANGED <<row, dir, dash, up, ownerLock, at, job, janitor, deleting,
                 stopping, spent, accepted, robbed, stranded>>

(* UploadJanitor.cleanup first lists the jobs the database knows ... *)
ListActiveJobs ==
  /\ ~janitor.scanning
  /\ janitor' = [scanning |-> TRUE, active |-> ActiveJobs]
  /\ UNCHANGED <<row, dir, dash, cold, up, ownerLock, at, job, deleting,
                 stopping, spent, accepted, robbed, stranded>>

Sweepable == {v \in cold \ janitor.active : dir[v] # "absent"}

(* ... and then removes, one by one, the others that have gone cold. *)
SweepJob(v) ==
  /\ janitor.scanning /\ v \in Sweepable
  /\ \/ RemoveDir(v) /\ UNCHANGED spent
     \/ RemovalFails(v, dir[v])
  /\ UNCHANGED <<row, dash, up, ownerLock, at, job, janitor, deleting, stopping,
                 accepted, robbed, stranded>>

EndSweep ==
  /\ janitor.scanning /\ Sweepable = {}
  /\ janitor' = [scanning |-> FALSE, active |-> {}]
  /\ UNCHANGED <<row, dir, dash, cold, up, ownerLock, at, job, deleting,
                 stopping, spent, accepted, robbed, stranded>>

-----------------------------------------------------------------------------
(* Transactions of the owner and of the reviewers.                         *)

RowOnly == UNCHANGED <<dir, dash, cold, up, ownerLock, at, job, janitor,
                       deleting, stopping, spent, accepted, robbed, stranded>>

(* SubmitVideoForReview; a pending video is left as it is. *)
SubmittedRow(r) ==
  [r EXCEPT !.submitted = TRUE,
            !.status = IF @ = "processing" THEN @ ELSE "pending_review"]

SubmitVideo(v) ==
  /\ Unlocked(v) /\ row[v].status \in {"processing", "ready", "rejected"}
  /\ row' = [row EXCEPT ![v] = SubmittedRow(@)]
  /\ RowOnly

(* reviewVideo: the row must still be in the status the decision is about. *)
Review(v, from, to) ==
  /\ Unlocked(v) /\ row[v].status = from
  /\ row' = [row EXCEPT ![v].status = to]
  /\ RowOnly

ApproveVideo(v)  == Review(v, "pending_review", "published")
RejectVideo(v)   == Review(v, "pending_review", "rejected")
TakeDownVideo(v) == Review(v, "published", "rejected")

(* deleteVideo, first half: lock, authorize, remove the public files. *)
RemoveVideo(v) ==
  /\ Unlocked(v) /\ row[v].status # "none"
  /\ deleting' = deleting \cup {v}
  /\ Withdraw(v)
  /\ UNCHANGED <<row, dir, cold, up, ownerLock, at, job, janitor, stopping,
                 accepted, robbed>>

(* The owner may delete in any status, also while the video is processed. *)
DeleteVideo(v) == Spend("ownerDeletes") /\ RemoveVideo(v)

AllowsAdminDeletion(s) ==
  s \in {"ready", "pending_review", "published", "rejected", "failed", "deleted"}

DeleteAdminVideo(v) ==
  AllowsAdminDeletion(row[v].status) /\ Spend("adminDeletes") /\ RemoveVideo(v)

CommitDelete(v) ==
  /\ v \in deleting
  /\ row' = [row EXCEPT ![v].status = "deleted"]
  /\ deleting' = deleting \ {v}
  /\ UNCHANGED <<dir, dash, cold, up, ownerLock, at, job, janitor, stopping,
                 spent, accepted, robbed, stranded>>

(* A database error or a cancelled request rolls back: the files are gone. *)
AbortDelete(v) ==
  /\ v \in deleting
  /\ Spend("faults")
  /\ deleting' = deleting \ {v}
  /\ robbed' = robbed \cup {v}
  /\ UNCHANGED <<row, dir, dash, cold, up, ownerLock, at, job, janitor,
                 stopping, accepted, stranded>>

-----------------------------------------------------------------------------
(* Shutdown, crash and restart.                                            *)

Shutdown ==
  /\ ~stopping
  /\ Spend("stops")
  /\ stopping' = TRUE
  /\ UNCHANGED <<row, dir, dash, cold, up, ownerLock, at, job, janitor,
                 deleting, accepted, robbed, stranded>>

(* The workers that have published files no row refers to yet. *)
Publishing == {w \in Workers : at[w] \in {"mark", "rollback"}}

(* The process ends and a new one starts: requests, workers and the sweep  *)
(* are gone, open transactions roll back.                                  *)
Restart ==
  /\ up' = [v \in Videos |-> IF up[v] = "new" THEN "new" ELSE "done"]
  /\ at' = [w \in Workers |-> "idle"]
  /\ job' = [w \in Workers |-> NoVideo]
  /\ janitor' = [scanning |-> FALSE, active |-> {}]
  /\ ownerLock' = {} /\ deleting' = {}
  /\ robbed' = robbed \cup deleting
  /\ stranded' = stranded \cup {job[w] : w \in Publishing}
  /\ stopping' = FALSE
  /\ UNCHANGED <<row, dir, dash, cold, accepted>>

Crash == Spend("crashes") /\ Restart

(* The end of a graceful shutdown, which does not outwait every worker. *)
Exit == stopping /\ Restart /\ UNCHANGED spent

Next ==
  \/ \E v \in Videos :
       \/ BeginUpload(v) \/ UploadStep(v)
       \/ ClaimAges(v) \/ HeartbeatExpires(v) \/ SweepJob(v)
       \/ SubmitVideo(v) \/ ApproveVideo(v) \/ RejectVideo(v) \/ TakeDownVideo(v)
       \/ DeleteVideo(v) \/ DeleteAdminVideo(v) \/ CommitDelete(v) \/ AbortDelete(v)
  \/ \E w \in Workers : WorkerStep(w) \/ \E v \in Videos : ClaimVideo(w, v)
  \/ RecoverClaims \/ ListActiveJobs \/ EndSweep
  \/ Shutdown \/ Crash \/ Exit

Spec == Init /\ [][Next]_vars

(* Requests and transactions run to their end (an idle client is cut off   *)
(* by the read deadline), every worker keeps polling, the tickers of the   *)
(* recovery and of the janitor keep firing, and time passes.               *)
Fairness ==
  /\ \A v \in Videos :
       /\ WF_vars(UploadStep(v))
       /\ WF_vars(ClaimAges(v))
       /\ WF_vars(HeartbeatExpires(v))
       /\ WF_vars(SweepJob(v))
       /\ WF_vars(CommitDelete(v) \/ AbortDelete(v))
  /\ \A w \in Workers :
       /\ WF_vars(WorkerStep(w))
       /\ WF_vars(\E v \in Videos : ClaimVideo(w, v))
  /\ WF_vars(RecoverClaims) /\ WF_vars(ListActiveJobs) /\ WF_vars(EndSweep)
  /\ WF_vars(Exit)

FairSpec == Spec /\ Fairness

-----------------------------------------------------------------------------
(* Properties.                                                             *)

TypeOK ==
  /\ row \in [Videos -> Row]
  /\ dir \in [Videos -> DirState]
  /\ dash \in [Videos -> DashState]
  /\ cold \subseteq Videos
  /\ up \in [Videos -> UploadAt]
  /\ ownerLock \subseteq Users
  /\ at \in [Workers -> WorkerAt]
  /\ job \in [Workers -> Videos \cup {NoVideo}]
  /\ \A w \in Workers : at[w] = "idle" <=> job[w] = NoVideo
  /\ janitor \in [scanning : BOOLEAN, active : SUBSET Videos]
  /\ deleting \subseteq Videos
  /\ stopping \in BOOLEAN
  /\ spent \in [Hindrances -> Nat]
  /\ accepted \subseteq Videos
  /\ robbed \subseteq Videos
  /\ stranded \subseteq Videos

Servable == {"ready", "pending_review", "published", "rejected"}

(* A row past its transcode has its finished files under the public root:  *)
(* no interleaving of workers, crashes, recoveries and deletions lets a    *)
(* ready or published video lose them, except a deletion that removed them *)
(* and then rolled back (deleteVideo keeps such a row visible).            *)
MediaPresent == \A v \in Videos :
  row[v].status \in Servable /\ v \notin deleting \cup robbed => dash[v] = "complete"

(* Files of a deleted or failed video stay public only while the worker    *)
(* that published them is about to find out and to remove them, also when  *)
(* the owner deletes during the transcode or the publication; only a       *)
(* worker that ended before it could remove them, or failed to, leaves     *)
(* them behind.                                                            *)
WithdrawnMediaGone == \A v \in Videos \ stranded :
  row[v].status \in {"failed", "deleted"} /\ dash[v] # "absent" =>
    \E w \in Publishing : job[w] = v

(* The stored bytes of a user without the admin role never exceed the      *)
(* quota, however many uploads are queued at the same time.                *)
QuotaRespected == \A u \in Users \ Admins : BytesUsed(u, NoVideo) <= MaxStorage

(* Two workers never process the same video: a claim ends before the row   *)
(* can be claimed again.                                                   *)
OneWorkerPerVideo == \A w1, w2 \in Workers :
  job[w1] = job[w2] /\ job[w1] # NoVideo => w1 = w2

(* An upload that was answered with success and that ffmpeg can process is *)
(* never marked failed: interrupted work is retried, and neither the       *)
(* janitor nor another worker takes its files away.                        *)
AcceptedNotFailed == \A v \in accepted \ Broken : row[v].status # "failed"

(* The source of a queued row is on disk until its worker gives it up.     *)
QueuedHasSource == \A v \in Videos :
  Processing(v) /\ row[v].queued => dir[v] \in HasSource

(* A row in "processing" is an upload under way or a queued transcode.     *)
ProcessingIsQueued == \A v \in Videos :
  Processing(v) /\ up[v] \in UploadEnded => row[v].queued

(* The rows behave as the abstract life cycle of a video.                  *)
Lifecycle == INSTANCE VideoLifecycle WITH
  status <- [v \in Videos |-> row[v].status],
  submitted <- [v \in Videos |-> row[v].submitted]

RefinesLifecycle == Lifecycle!Spec

(* Submission and transcode converge whatever their order.                 *)
SubmissionDecides == Lifecycle!SubmissionDecides

-----------------------------------------------------------------------------
(* Inductive strengthenings of the properties above.                       *)

(* A row exists once its upload request has begun. *)
RowsInv ==
  /\ \A v \in Videos : up[v] = "new" <=> row[v].status = "none"
  /\ \A v \in deleting : row[v].status # "none"

(* While a worker holds a video that is still processing, the row is       *)
(* claimed and the claim too young to be recovered.                        *)
ClaimInv ==
  /\ RowsInv
  /\ \A w \in Workers : job[w] # NoVideo =>
       /\ row[job[w]].status # "none"
       /\ Processing(job[w]) => row[job[w]].claimed /\ ~row[job[w]].stale
  /\ OneWorkerPerVideo

(* The janitor's sweep leaves the directory of v alone. *)
SafeFromSweep(v) ==
  row[v].queued /\ (janitor.scanning => v \in janitor.active \/ v \notin cold)

(* What a worker that is not idle relies on: the upload request is over,   *)
(* the row is not served before the worker marked it ready, what the       *)
(* worker publishes is a finished output, and it stays public until then.  *)
WorkerMedia(w) ==
  LET v == job[w] IN
  /\ up[v] = "done"
  /\ at[w] # "clean" => row[v].status \notin Servable
  /\ at[w] = "open" /\ Processing(v) => row[v].queued
  /\ at[w] \in {"encode", "publish", "rename"} /\ Processing(v) => SafeFromSweep(v)
  /\ at[w] \in {"publish", "rename"} /\ Processing(v) => dir[v] = "encoded"
  /\ at[w] = "mark" /\ Processing(v) /\ v \notin deleting \cup robbed =>
       dash[v] = "complete"

MediaInv ==
  /\ MediaPresent
  /\ \A v \in Videos : row[v].queued => up[v] = "done"
  /\ \A w \in Workers : at[w] # "idle" => WorkerMedia(w)

-----------------------------------------------------------------------------
(* Liveness, under FairSpec.                                               *)

(* Every accepted upload leaves "processing": a claim that a crash or a    *)
(* shutdown left behind is recovered and the work is retried.              *)
AcceptedSettles == \A v \in Videos : v \in accepted ~> ~Processing(v)

(* No private upload directory outlives its usefulness: the worker, the    *)
(* upload request or the janitor removes it in the end.                    *)
JobDirsReclaimed == \A v \in Videos : dir[v] # "absent" ~> dir[v] = "absent"
=============================================================================
