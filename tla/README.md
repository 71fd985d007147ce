# bilibili-lite in TLA+

A verification project kept beside `bilibili-lite`, a small video site in Go
(Kratos, PostgreSQL, Redis, Meilisearch, FFmpeg). Paths below are relative to
the repository; `internal/` is where the program's own logic lives.

## 1. The system

### Components, their state and their operations

| Component | State | Operations | Correct when |
|---|---|---|---|
| Upload request (`internal/data/video_upload.go`, `internal/media/upload.go`) | one `videos` row, one private directory `.uploads/<job>` with a heartbeat file | insert row, create directory, store body, check quota and queue, or fail and clean up | quota holds under concurrent uploads; a queued row has its source |
| Transcoding workers (`ProcessNextVideoUpload`, `internal/worker/video_transcoder.go`) | the claim `processing_started_at`, the directory's `output`, the public directory `dash/<BV>` | claim with `SKIP LOCKED`, inspect, transcode, rename into place, mark ready; release, fail, roll back | one worker per video; a served video has its files; interrupted work is retried |
| Claim recovery (`RecoverStaleVideoUploads`) | - | release claims older than twice the transcode timeout | never releases a live worker's claim; releases dead ones in the end |
| Upload janitor (`internal/worker/upload_janitor.go`) | - | list the active jobs, remove other directories whose heartbeat is old | removes what is abandoned, never what is needed |
| Submission, review, deletion (`internal/data/video.go`) | status, `submitted_at`, review columns | submit, approve, reject, take down, delete by owner or admin | the status diagram of the README; submission and transcode converge; deleted means gone |
| Search index (`video_search.go`, `search_indexer.go`, migration 7) | `video_search_outbox`, the Meilisearch index, a readiness flag | trigger enqueues; worker claims, upserts or deletes, retries with backoff | index converges to the published videos |
| Ranking (`video_recommendation.go`, `recommendation_refresher.go`) | a Redis sorted set | replace as a whole every 30 s; page by offset; fall back to SQL | every listed video is published; the ranking follows the published videos |
| Listings and playback queries (`video.go`, `video_history.go`, `video_comment.go`) | none; a page token is a key or an offset | select a page, load its videos, look up streams | nothing that stays is listed twice or never, while rows move between pages |
| Interactions (`video_interaction.go`, `user_experience.go`) | interaction rows, counters on the video, coin balance and experience of the user | like, favorite, give coins, share | counters equal the rows; coins are conserved; daily experience is capped |
| View sessions (`video_view.go`) | sessions, counters, history rows | create, complete | at most one counted view an hour and ten a day |
| Comments (`video_comment.go`), danmaku (`video_danmaku.go`) | comment rows, like rows, counters | create, delete, like | counters equal the rows |
| Accounts (`internal/data/user.go`, `internal/biz/user.go`, `internal/service/user.go`) | user rows, stateless tokens | register, log in, refresh, log out | a token names an account that exists |
| Avatars (`internal/media/avatar.go`) | files, `users.avatar_url` | store the file, update the row, remove the one replaced | the avatar a row names is stored |
| Rate limiter (`internal/middleware/user_rate_limit.go`) | a Redis counter with an expiry for each bucket and subject | count, refuse | the limit holds over any window; a refused client gets in again |
| Transports, service layer, use cases (`internal/server`, `internal/service`, `internal/biz`, `api/`) | none | route, authenticate, validate, check | HTTP and gRPC accept the same; what passes fits the tables |
| Processes (`cmd/bilibili-lite/main.go`, `internal/data/schema.go`, `internal/worker/*`) | `schema_migrations`, the administrator, each worker's `cancel` and `done` | migrate, seed, serve, stop, close | migrations once; nothing runs on when the database is closed |
| Web client (`web/`) | two tokens | rendering | - |

### How they interact

All processes share PostgreSQL rows and the media directory. There are no
messages between components: the upload request leaves work in the `videos`
table (`status = 'processing' AND upload_job_id <> ''`), workers poll it, the
janitor reads it, and a database trigger turns changes into rows of the search
outbox that another worker polls. Mutual exclusion is by row lock
(`FOR UPDATE`, `SKIP LOCKED`), by status guards in `WHERE`, and by time
(staleness of a claim, age of a heartbeat). Files are not transactional: every
place where a file operation and a transaction must agree is a place where a
crash, an error or another actor can come in between.

### What is hard to test here

`PROJECT.json` lists each hazard with its line. The groups:

* interleavings of two workers, recovery, janitor, owner and reviewers on one
  video, each with its own transaction or file operation;
* crash and graceful shutdown between the rename and the commit, or between
  the upload's row and its queueing;
* results that are stale when used: the janitor's list of jobs, the bytes in
  use, the row a worker claimed an hour ago;
* partial failure: files removed and commit failed, commit applied and
  acknowledgement lost;
* time: a worker that outlasts `staleAfter`, an upload that outlasts
  `uploadIdleTimeout`;
* pages of a listing whose rows move, vanish or are replaced as a whole
  between two requests, and between two statements of one;
* two binaries that start on one database, and a shutdown that overtakes the
  start;
* two requests of one user that change the same file and row;
* agreement of tables written apart: routes, required fields, use case limits
  and column widths.

## 2. Modules

| Module | Role |
|---|---|
| `VideoLifecycle` | abstract specification: the status diagram with the submission mark |
| `UploadPipeline` | the pipeline in detail: upload requests, workers, recovery, janitor, owner and reviewer transactions, shutdown and crash |
| `MCUploadPipeline` | constant values of the model-checked instances |
| `SearchOutbox` | the search projection: trigger, outbox, indexers, the engine's task queue |
| `MCSearchOutbox` | constant values of its model-checked instances |
| `FiniteSums` | lemmas on sums over finite sets, for the proofs about bytes, coins, experience and admitted requests |
| `UploadPipelineProofs` | proofs about the pipeline and the life cycle, among them that the one implements the other |
| `SearchOutboxProofs` | proofs about the search projection |
| `Reactions` | likes, favorites, comments, likes of comments and danmaku of one video, with its counters |
| `MCReactions`, `ReactionsProofs` | constant values; proofs |
| `RewardLedger` | abstract specification: the tables of coins, shares, views and experience, with every request a single step |
| `Rewards` | coins, shares, counted views and the experience they earn, with the row locks |
| `MCRewards`, `RewardsProofs` | constant values; proofs |
| `Processes` | server processes from migration to shutdown, with the loops of their workers |
| `MCProcesses`, `ProcessesProofs` | constant values; proofs |
| `Feeds` | paged listings, hot ranking, search pages and playback queries, while their rows change |
| `MCFeeds`, `FeedsProofs` | constant values; proofs |
| `Gateway` | the stateless path of a request: routes, methods, tokens, validator, handler and use case checks, column widths |
| `Accounts` | `Gateway` composed with the rate limiter, accounts, tokens of clients and avatars |
| `MCAccounts`, `AccountsProofs` | constant values; proofs |

### UploadPipeline and the code

One action is one database transaction, one file-system operation or one run
of an external program; between two of them anything may happen. Two
transactions are split in halves, because what happens inside them matters:
`deleteVideo` (`RemoveVideo`, then `CommitDelete` or `AbortDelete`) removes
files before it commits, and `queueVideoUpload` (`LockOwner`, then
`CommitQueue`) reads the owner's other rows before it updates its own. While
they are open, the row locks they hold (`deleting`, `ownerLock`) block the
actions that need them.

| State | Code |
|---|---|
| `row[v]` | the `videos` row: `status`; `queued` is `upload_job_id <> ''`; `bytes` is `upload_bytes`; `claimed` and `stale` are `processing_started_at` set, and before `now - staleAfter`; `submitted` is `submitted_at` |
| `dir[v]` | `.uploads/<job>`: absent, no source yet, a source, a source and a finished output, output renamed away |
| `dash[v]` | `dash/<BV>`: absent, without a finished manifest, complete |
| `cold` | directories whose heartbeat is older than `uploadIdleTimeout` |
| `up[v]` | where `ProcessVideoUpload` stands for this row |
| `at[w]`, `job[w]` | where `ProcessNextVideoUpload` stands in worker `w`, and its video |
| `janitor` | whether `cleanup` is between its query and its end, and the query's result |
| `stopping` | `VideoTranscoder.Stop` cancelled the workers' context |
| `spent` | how much of each bound on the environment is used |
| `accepted`, `robbed` | history: uploads answered with success; rows whose deletion removed the files and then rolled back |
| `stranded` | history: videos whose published files their worker left behind, because it ended with its process between the rename and the end of its work, or because its removal failed; a later `RemovePublished`, or the next publication, ends it |

Abstractions: a job id names its video; sizes are small numbers; `ffprobe` and
`ffmpeg` succeed or fail, and always fail on a video in `Broken`; time is the
two predicates `stale` and `cold`, and `ClaimAges` and `HeartbeatExpires` make
them true when the code's timeouts allow it (a live worker's claim does not
age past `staleAfter` unless `SlowTranscode`, a live upload's heartbeat does
not pass `uploadIdleTimeout` unless `StalledUpload`). The janitor takes its
cutoff right after it has listed the active jobs: a job that became active
since is too fresh for the sweep under way. `Crash` and `Exit` end the process
at any point: requests, workers and open transactions are gone, rows and files
stay.

A file operation that fails spends a fault. The code logs a failed removal and
goes on, so the directory, or what `os.RemoveAll` left of it, stays for the
janitor's next sweep (`RemovalFails` with `Remains`, in `CleanJob`,
`DiscardJob`, `DiscardUpload` and `SweepJob`) or in public (`WithdrawalFails`,
in `Rollback`, in `ClearPublished` and in the deletions); opening a job may
fail with the output directory recreated, half removed or untouched
(`OpenFails`). Left out is a sweep whose removal breaks off while the same
upload's body is still being stored.

### SearchOutbox and the code

One action is one transaction, one request to the engine, or one task of the
engine.

| State | Code |
|---|---|
| `row[v]` | the columns the trigger watches, as a version number, and whether the video may be found (`published`, not deleted) |
| `name` | `users.display_name`, which the document copies |
| `outbox`, `lock[v]`, `aged` | the rows of `video_search_outbox`, who set `locked_at`, and whether that is more than a minute ago |
| `due` | the outbox rows with `available_at <= now` in the order of the claim query: a row joins at the end when it becomes due, which is the order of `available_at` |
| `tasks`, `index` | the engine: its queue and the documents |
| `at[i]`, `claim[i]`, `doc[i]` | where `SearchIndexer.Start` and `ProcessNextVideoSearchUpdate` stand in process `i`, the claimed video, the document read |

`locked_at` is a timestamp and serves as the claim's identity; a claim is named
by its indexer here, which is the same as long as two claims never get the same
timestamp. A retry delay is over at any time (`BecomeDue`); its length, and the
`attempts` it is computed from, are left out. `Stop` is a fault of the step
under way (the context is cancelled) followed by `Halt`. The settings task of
`Ensure` is left out, so that preparing does not wait for the tasks before it.
A document version of a hidden video stands for "removed as of that version".

### Reactions and the code

A handler is one transaction and two actions: one up to its last read, one for
its writes and the commit. What it writes is seen by no one before that, and a
row it has written is locked until then. `FindPublished` is
`findPublishedVideoPO(..., true)`: it takes the video's row, which the
transaction keeps to its end. `SetVideoCommentLike` looks the video up without
a lock and reads comment and like without one.

| State | Code |
|---|---|
| `published`, `lock` | whether the video may be reacted to; the transaction that has its row `FOR UPDATE` |
| `row` | `user_video_likes`, `user_video_favorites`, `video_comments` and `danmakus`: no row, inactive or deleted, active |
| `count` | `like_count`, `favorite_count`, `comment_count` and `danmaku_count` of the `videos` row |
| `parent`, `root` | `parent_id` and `root_id` of a comment |
| `commentLike`, `likeCount` | `user_video_comment_likes`, `video_comments.like_count` |
| `tx` | what each open transaction has read |

One video is enough: no handler here touches two. `Author` fixes who writes a
comment or a danmaku, if it is written; ids are sequence values and not used
again; `Likes` bounds who likes which comment. With `Overlapping = FALSE` two
requests of one user for one comment do not overlap. The number a like of a
comment returns is read without a lock after the update and may be outdated,
although `internal/biz/video.go:276` calls it authoritative.

### Rewards and the code

Handlers that change a video's counters lock the video first and the user
later; a login locks the user only. Each wait for a lock is an action
(`LockUser`, `InsertShare`), so that every order in which the requests of one
user can get their locks is a behaviour.

| State | Code |
|---|---|
| `balance`, `experience`, `daily` | `users.coin_balance` and `experience`; `user_daily_experience.amount` by user, day and source |
| `coin`, `coinCount`, `share`, `shareCount` | `user_video_coins`, `user_video_shares` and the counters |
| `started`, `completed`, `counted`, `viewCount` | `video_view_sessions` and the counter |
| `videoLock`, `userLock`, `keyShare` | row locks: `FOR UPDATE`, and the `FOR KEY SHARE` that an inserted row takes on the user it references |
| `tx` | the step an open transaction is at and what it has read |
| `now` | the clock; `Day` is the Shanghai calendar day |

A share inserts its row, with the user `FOR KEY SHARE`, before it asks for the
user `FOR UPDATE`: two shares of one user for two videos can wait for one
another until PostgreSQL aborts one, whose client sees a storage error and may
retry. Rows inserted by the other handlers refer to rows they have locked
already, or are inserted by a transaction that keeps the lock for a moment
only (`InsertSession`). `Rollback` covers failures, cancellation and the
victim of a deadlock. A request refused before it has written anything leaves
no trace and is not an action; the watch history is in `Feeds`. A session that
is created although the video was just taken down is harmless: completing it
looks the video up again, under its lock.

`RewardLedger` has the same tables (`balance` to `viewCount`, `published` and
`now`) and nothing else: `Give`, `Share`, `Start`, `Complete` and `Login` are
the five handlers as a client would describe them. `ServedAtOnce` says that
`Rewards` implements it. A handler takes effect at its commit (`StoreCoins`,
`StoreShare`, `InsertSession`, `CountView` or `CloseView`, `StoreLogin`); all
its other steps, and a rollback, leave the tables alone. The time a request
works with may lie before its commit, which is why the ledger's actions choose
a time that has come (`Clock`) and not always the present one. The ledger has
no retries, refusals or rollbacks: they are steps that change none of its
tables.

### Processes and the code

Several processes, each with its own binary (`Last[p]` migrations are embedded
in it), start on one database.

| State | Code |
|---|---|
| `at[p]`, `step[p]` | where `main`, `NewData` and `migratePostgresSchema` stand, and the migration in hand |
| `tableExists`, `applied`, `lock` | `schema_migrations`, its rows, the advisory lock of `applyMigration` |
| `executed[v]` | history: committed runs of a migration's script |
| `role` | role of the account named like the configured administrator |
| `starts[p][w]`, `stops[p][w]` | progress of a worker's `Start` and `Stop` |
| `loops[p][l]` | a loop: between two rounds, in one, or ended |

`CREATE TABLE IF NOT EXISTS` runs before the lock is taken, so two starts may
both find no table, and PostgreSQL refuses one of them: that process ends with
an error and has to be started again (`CreateTable`). A process may also fail
at any other step, while it waits for the lock included (`FailStartUp`). A
worker is its `Start` and its loops: `Start` makes its context known and does
the first round itself (`"preparing"`: `recoverClaims` of the transcoder), with
the loops in `Main`, before it starts the others (`StartPool`); a `Stop` may
come in between. `Stop` cancels and waits, may be called before `Start` has made
its context known (`"missed"`), and may give up waiting (`"expired"`). The
database is closed by the cleanup that `main` defers, after `app.Run` has seen
every `Start` and `Stop` return.

### Feeds and the code

One action is one statement of a request, one answer of Redis or the search
engine, or one change of a row. `reader[r]` is a client that asks for page
after page of one listing, or for one playback.

| State | Code |
|---|---|
| `status`, `comment` | `videos.status` with `deleted_at`; rows of `video_comments` of one video |
| `mark`, `clock` | `updated_at` of the reader's like, favorite, coin or watch row |
| `list`, `up` | the Redis sorted set and the hits of a search, in order; whether their store answers |
| `refresher` | between the query and the pipeline of `RefreshVideoRanking`, what was read |
| `reader[r]` | the listing, its page token (a key or an offset), and between two statements the page in hand; `listed`, `twice`, `leaked` and `silent` record what was answered |
| `seen`, `throughout`, `steady` | history: what could be seen during the request; what could be seen ever since the first page, at the same place; whether the offset's list stayed the same |

The score of a video and the relevance of a hit are any numbers (`Scorings`).
`Key`, `After` and `FirstOf` are the `ORDER BY`, the cursor and the `LIMIT`;
`FindPublishedVideosInOrder` is the second statement, which leaves out what is
no longer published, so that a page may be shorter than its size, or empty
with a next token.

### Gateway, Accounts and the code

`Gateway` has no variables: `Answer(transport, bearer, op, m)` is what becomes
of one request, through the route or the method table, `Authenticate`, the
administrator selector (`AdminOperation`, `RequireAdmin`), the validator (HTTP
only, `internal/server/http.go:34`), and the checks of the handler and the use
case in their order (`Handled`, `FirstRefusal`). The value of a field is a
measure: whether the message carries it (`set`), its number, or its length in
characters after the trimming the code does (`n`), that length in bytes, and
whether it is `plain`, without a character PostgreSQL refuses. Of an
identifier only three cases differ: 0 is missing or malformed, 1 a number up
to 2^63 - 1, 2 one above. Each field is probed at its limits and one beyond
(`Probes`). The messages, and the checks of handlers and use cases, are
tables: sets of rows, each about some operations (`RowOf`).

`Fits` asks whether a value can be stored: its column's width, the checks of
the table, and `Representable`. Identifiers from 2^63 on (`ParseBVID`,
`internal/biz/video.go:73`, and any `uint64` field) and texts with NUL pass
every check of the code, and PostgreSQL refuses them; `CallsFitTables` says
that nothing else that passes is refused for its form.

`ServeUpload` reads a multipart body part by part: `ServePart` is one turn of
the handler's loop, `ServeParts` ties the turns together. A part (form `none`
when its header cannot be read: `NextPart`) ends whole, short (the body
just stops), cut (any other error) or at the limit on the whole body
(`internal/service/video_upload.go:67`); the size of a cover has a limit of
its own. What becomes of the file's own bytes, and of a body that breaks off
inside it, is `UploadPipeline`'s `StoreUpload`.

`Accounts` is the state behind it:

| State | Code |
|---|---|
| `account[u]` | the row of `users`: whether it exists, `avatar_url` |
| `stored` | the files of the avatar directory |
| `session[c]` | the tokens a client keeps, by the ticks they have left |
| `counter[k]` | the Redis counter of a bucket and a subject, with its expiry |
| `request[r]` | where the handler stands; for an avatar: file stored, row updated, file to be removed |
| `admitted`, `unknown` | history: requests let through, by age; users whose last avatar commit went without acknowledgement |

A request's token is refused before the limiter counts it, as the middlewares
are ordered. Tokens are stateless: a refresh leaves the old pair valid, a
logout ends nothing but the client's memory of it.

Operators described as a seeded fault or a mutant are not used by the specification: each
is a plausible mistake in one definition, and the run of the property beside
which it is listed in `PROJECT.json` finds a violation when it takes the
definition's place.

## 3. Model checking

| Run | Instance | Shows |
|---|---|---|
| `pipeline_media` | 1 video, 2 workers, 2 crashes, 1 shutdown, 2 faults, 1 deletion each by owner and reviewer, fairness | `MediaPresent`, `OneWorkerPerVideo`, `WithdrawnMediaGone`, `AcceptedSettles`, `JobDirsReclaimed` |
| `pipeline_quota` | 2 videos of one user, quota for one, one undecodable, 1 worker, 1 crash, 1 deletion by a reviewer | `QuotaRespected`, `AcceptedNotFailed`, `QueuedHasSource` |
| `pipeline_everything` | 1 video, 2 workers, each hindrance once, slow transcodes, stalled uploads, lost acknowledgements | `RefinesLifecycle`, `SubmissionDecides` |
| `search_one` | 2 videos, 1 indexer, 2 edits, 1 halt, 2 faults, fairness | `NothingForgotten`, `NoEventLost`, `Converges` |
| `search_two` | 1 video, 2 indexers, 1 edit, 1 rename, 1 halt, 1 fault, fairness | `NoEventLost`, `Drains` |
| `reactions` | 2 users, 2 overlapping requests, 3 comments, 1 danmaku, 1 kind of mark | `CountersMatch`, `CommentLikesCounted`, `EveryCommentReachable` |
| `rewards` | 1 user, 2 videos, 2 overlapping requests of 4 in all, 2 sessions, 1 share id, 5 clock values on 2 days | `CoinsConserved`, `DailyCapped`, `ExperienceAccounted`, `EventsCounted`, `ViewsSpaced`, `OnlySharesDeadlock`, `ServedAtOnce` |
| `processes` | an old binary with 1 migration and a new one with 2, which seeds; 1 worker of 3 loops each, 1 crash, fairness | `MigrationsOnce`, `ServesCurrentSchema`, `ClosedLast`, `StoppedEnds`, `StartUpEnds` |
| `feeds` | 3 ids, pages of 1, 1 reader of any listing, 2 changes, 2 orders of the scores, fairness | `ListedOnce`, `NothingSkipped`, `VisibleWhenListed`, `PlayHasStreams`, `RankingFollows` |
| `accounts` | 1 user, 1 client, 2 overlapping requests, 2 file names, limit 1 in a window of 2 ticks; every operation, field and token of `Gateway`, fairness | `TransportsAgree`, `CallsFitTables`, `AvatarServed`, `BudgetHolds`, `LockoutEnds` |

The bounds: videos meet only through the quota of a common owner, so one video
is enough for everything but the quota and two for that; a race for a video
needs two workers; two crashes allow a crash during the retry of what a crash
interrupted; the other hindrances are cheap to allow once, and twice where the
instance stays small. In the search runs two edits let an edit fall between
the read and the deletion of an event that was itself caused by an edit, and
two videos let the order of claims matter. The search runs do not check for
deadlock: with every bound used up and the outbox empty the indexer has
nothing left to do but poll.

In `reactions` three comments allow a reply to a reply, with a root that is
deleted before, between or after; likes and favorites have the same code and
are one kind; the video may be taken down and published at any time. In
`rewards` one user is enough, because the balance, the limits and the
sessions belong to a user, and two users meet at a video only, which the
handlers lock first; two videos because their locks do not keep two requests
of one user apart; four requests allow a retry of each of two overlapping
ones, every pair of overlapping requests after any two that prepared the
tables for them, and two sessions started and completed at once. The limits are small (coins earn 2 each and 3 a day, a view counts once
a day and an interval of 2), so that each is reached, and three coins do not
pay for two for each video.

In `processes` an old and a new binary are enough for every race for a
migration: one that is recorded by the other, one that only the other knows,
a kill with the lock held. The worker is the transcoder, the only one that has
more loops than its `Start`; the other three are the case of one loop. One
crash leaves the other process to show that nobody waits for the dead one. The
run does not check for deadlock: all processes may have ended.

In `feeds` three rows and pages of one give a listing with two boundaries
between pages; two changes move a row across a boundary and another one out,
or replace the ranking and remove a video of it. The videos begin published
or waiting for review, and two of the three comments exist. Requests end and
changes are bounded, so deadlock is not checked. Readers do not influence one
another, so one is enough.

In `accounts` one user with two requests gives every overlap of two avatar
changes and two logins; users share no file and no row. Two names are enough
because a name that is neither stored, nor named by the row, nor held by the
other request is free again. A window of 2 ticks lets two windows meet inside
any other, and a limit of 1 is exceeded by a second request.
`MaxCounters = 1` keeps one counter live at a time: they do not interact.

`pipeline_quota` has no shutdown, no fault and no stalled upload: with any of
them `AcceptedNotFailed` or `QueuedHasSource` does not hold, which is what the
findings below are about. Nor has it a slow transcode, which makes
`AcceptedNotFailed` fail when there is a second worker. `pipeline_media` has its faults
for `JobDirsReclaimed` and `WithdrawnMediaGone`: a removal fails, and the
directory is removed by a later sweep; the owner or a reviewer deletes a video
while a worker transcodes, publishes or is about to mark it, around two
crashes. `search_two` has no `SlowIndexer`: two
indexers that each take longer than a minute rob one another for ever.

### Where code and documentation disagree

| Run | Statement | What the run shows |
|---|---|---|
| `finding_shutdown` | README.md:52, interrupted work is retried | a shutdown after the transcode fails the upload for good |
| `finding_comment_likes` | video_comment.go:182, the desired state is applied atomically and idempotently | two overlapping likes of one user and comment are both counted |

Seven more need no run of their own. Setting a constant in the configuration
of a passing run shows each, where a property is named that the run does not
list, with that property added:

* `ProcessingIsQueued` in `pipeline_quota`: `README.md:39` lets processing
  begin when the upload is complete, but a crash during the upload leaves the
  row in processing for ever.
* `SettledIsCurrent` with `SlowIndexer = TRUE` and `MaxRenames = 0` in
  `search_two`: a claim is
  meant to be exclusive (`video_search.go:289`), but with two processes an
  older document can reach the engine after a newer one, and no outbox row is
  left.
* `OthersConverge` with `Rejected = {1}` in `search_one`: `search_indexer.go:36`
  drains durable updates, but a document the engine refuses is retried first
  for ever, and the others starve.
* `MaxLostAcks = 1` in `pipeline_media` violates `MediaPresent`:
  `RemovePublished` undoes a publication "after" a failed transaction
  (`internal/media/upload.go:184`), and a commit whose acknowledgement is lost
  counts as failed; the ready video is without files.
* `SlowTranscode = TRUE` in `pipeline_media` violates `MediaPresent`. The
  comment at `internal/media/upload.go:164` calls the directory the next claim
  replaces unpublished; but `staleAfter` is twice `transcodeTimeout`, while one
  claim covers two probes of a minute each, the transcode and database waits,
  so with a timeout below two minutes the overtaken worker's video may be
  served already. With the deployed 3600 s the margin is an hour.
* `StalledUpload = TRUE` in `pipeline_quota` violates `QueuedHasSource`:
  `ActiveUploadJobIDs` "protects queued and claimed jobs from orphan cleanup"
  (`video_upload.go:152`), but a job queued after the janitor's query, and idle
  for `uploadIdleTimeout` at the end of its body or while waiting for the
  owner's row, is removed.
* `MaxRenames = 1` in `search_one` violates `NothingForgotten`: the document
  copies the owner's display name, the trigger watches `videos` only.

Met while modelling, and part of the models as the code has it:

* `DeleteVideo` "removes any publicly served media" (`internal/data/video.go:309`)
  before a worker that is in the middle of the transcode publishes it. The
  worker then removes it again, unless it ends first or its removal fails, and
  nobody else does: `WithdrawnMediaGone` excepts these videos (`stranded`).
* `ParseBVID` (`internal/biz/video.go:73`) accepts identifiers up to 2^64 - 1,
  and texts may contain NUL: the reply is a storage error, not a refusal
  (`Representable`).
* `internal/biz/video.go:415` promises a "time-decayed hot ranking with stable
  pagination"; its pages are offsets into a list replaced every 30 s, so that
  `ListedOnce` and `NothingSkipped` hold of it only while `steady`.
* `internal/data/video.go:60` "returns the oldest submitted videos first" and
  orders by id, not by `submitted_at`.
* `video_comment.go:229` lists "non-deleted comments with their published
  videos", whose videos are loaded by a later statement that no longer asks
  whether they are published; `VisibleWhenListed` therefore asks for a moment
  during the request.
* `upload_janitor.go:60` and `video_transcoder.go:76`: `Stop` "waits for its
  Start method to return". A `Stop` that comes before `Start` has set `done`
  returns at once, and the loops run until the process is killed
  (`StoppedEnds` excepts it; `ClosedLast` holds all the same).
* An avatar update that is committed without an acknowledgement is answered
  with an error and loses the file in use; `AvatarServed` excepts it
  (`unknown`).
* `GET /api/v1/videos/upload` is served as `GetVideo` of a video named
  `upload`: the upload route is registered last, and for any verb.

### Fairness

`Fairness` is weak fairness of: the steps of an upload request (an idle client
is cut off by the read deadline), the end of a deletion, each worker's steps
and its polling loop (`runWorker`), the recovery ticker, the janitor's ticker
and its steps, the end of a shutdown, and of time passing. Nothing is assumed
of clients, owners, reviewers, crashes or faults. The tickers and loops run as
long as the process does, and every database call and program run has a
timeout.

In `SearchOutbox` it is weak fairness of each indexer's loop, which polls on a
timer and is started again with its process, of retry delays ending, and of
the engine working off its queue. That a claim grows old is not assumed: a
restarted indexer frees all claims.

In `Processes` it is weak fairness of start-up, of `Start` and `Stop` and
their returns, of the end of a round, and of closing: goroutines are scheduled
and every round is bounded. It is strong fairness of `LockMigrations`, since
PostgreSQL queues those that wait for an advisory lock, and of `Leave`: a
`select` over a timer and a cancelled context takes the latter in the end.
That anybody asks a process to stop is not assumed.

In `Feeds` it is weak fairness of the two halves of the refresher's round. A
client need not ask for the next page. In `Accounts` only time is fair.

## 4. Proofs

All proofs are for any finite set of videos, any workers and users, any bounds
on crashes, shutdowns, faults and deletions (`ConstantsOK`).

| Theorem | Statement |
|---|---|
| `TypeCorrect` | `Spec => []TypeOK` |
| `RowsExist` | `Spec => []RowsInv`: a row exists exactly when its upload has begun |
| `Implements` | `Spec => RefinesLifecycle` |
| `SubmissionDecidesHolds`, `SubmissionDecidesAlways` | in the life cycle, and therefore in the pipeline: `[]SubmissionDecides` |
| `ClaimsHeld`, `ExclusiveClaims` | with `~SlowTranscode`: `[]ClaimInv`, hence `[]OneWorkerPerVideo` |
| `MediaAlwaysPresent` | with `~SlowTranscode` and `MaxLostAcks = 0`: `[]MediaPresent` |
| `SourcesKept` | with these, `~StalledUpload` and `MaxFaults = 0`: `[]QueuedHasSource` |
| `AcceptedNeverFails` | with all of these and `MaxStops = 0`: `[]AcceptedNotFailed` |
| `QuotaAlwaysRespected` | `Spec => []QuotaRespected` |
| `WithdrawnAlwaysGone` | `Spec => []WithdrawnMediaGone` |

`OneWorkerPerVideo` is not inductive: a row whose claim has been recovered can
be claimed again, so one has to know that a held row that is still processing
is claimed and not stale (`ClaimInv`). `MediaPresent` needs to know what each
worker relies on at each step (`WorkerMedia`): that its video is not served
yet, that what it renames is a finished output, and that it stays in place
until the row is marked; `ClaimInv` supplies that no other worker interferes,
and `SafeFromSweep` that no janitor does: while a worker that has opened a job
still needs it, the job is active, and a sweep under way either has it on its
list or finds its heartbeat fresh.
Both hypotheses are necessary: `MaxLostAcks = 1` violates it without one, and
`SlowTranscode = TRUE` without the other.

`QueuedHasSource` is proved from where the source is during its upload and from
the one fact the janitor relies on (`SourceInv`): a job that became active
after the sweep listed the active ones is not cold, because its heartbeat was
touched since. `AcceptedNotFailed` adds what a worker relies on at each step
(`WorkerWhole`): an attempt that fails is one of a video FFmpeg cannot process.
`WithdrawnMediaGone` is a matter of the row lock and the worker's own order of
steps alone (`GoneInv`), so that it needs no assumption about claims, crashes
or faults: it holds even for two workers at the same video. What remains
outside is named by `stranded`: if the owner deleted the video before the
rename and its worker ends before it could find out, or fails to remove what
it published, nobody comes back for the files.

`QuotaRespected` is about a sum, and needs no hypothesis (`QuotaInv`): between
`LockOwner`, which adds up the owner's other rows, and `CommitQueue` nobody
else adds to them. The bytes a row counts for change in three ways only. They
appear when an upload is queued, which takes the owner's lock; they vanish
when the upload fails, is deleted or has been settled; a retry, a claim or a
review leaves them. So what was read under the lock is at most outdated by
rows that count for less (`UsedStep`), and the commit still fits
(`CommitFits`).

Sums over sets are what `FiniteSums` is for. The operator of the community
modules is defined by recursion over sets, and the library's induction rules
cannot be instantiated here; each lemma instead takes a smallest subset for
which it would fail (`SmallestSet`, from the well-foundedness of the subset
ordering) and one element out of it. The first lemmas show that the recursion
is a definition at all (`TableExists`, `TablesAgree`), the others how a sum
changes when one summand does, when summands are 0, renamed or split.

The refinement maps each row to
its status and submission mark; every action is the life cycle action of the
same transaction or stutters, and `RowsInv` is what makes `BeginUpload` start
from a row that does not exist and `CommitDelete` end one that does.

About the search projection, for any finite set of videos and any bounds:

| Theorem | Statement |
|---|---|
| `TypeCorrect`, `WaitingSound` | `Spec => []TypeOK`; a waiting indexer is told the result of its own task |
| `EventsKept` | with any number of indexers: `NoEventLost` |
| `IndexFollows` | with one indexer and `MaxRenames = 0`: `[]NothingForgotten` |

`NoEventLost` rests on `ReadInv`: as long as a claim stands, what was read for
it is the row as it is, because every event frees the claim. `NothingForgotten`
needs in addition that a single indexer's task is the last of the queue
(`SoleInv`): tasks left behind by crashes and cancelled requests come before
it, so that nothing is queued any more when it learns of its success. Both
hypotheses are necessary: a second indexer violates it, and so does a rename.

About reactions, for any users, comments, danmaku and overlapping requests:

| Theorem | Statement |
|---|---|
| `TypeCorrect` | the variables keep their types; no counter is negative |
| `ReadsAlwaysHold` | `Spec => []ReadsHold` |
| `CountersAlwaysMatch` | `Spec => []CountersMatch` |
| `CommentLikesAlwaysCounted` | with `~Overlapping`: `[]CommentLikesCounted` |
| `CommentsStayReachable` | `Spec => []EveryCommentReachable` |

`CountersMatch` needs that the transaction that has the video's row holds what
it has read (`CountInv`); `CommentLikesCounted` the same of a comment, where
only `~Overlapping` supplies it (`LikesHold`); reachability that a root is
never a reply and that a listed root keeps its replies (`Threads`).

About rewards, for any users, videos, sessions, limits and overlapping
requests:

| Theorem | Statement |
|---|---|
| `TypeCorrect` | `Spec => []TypeOK` |
| `CirclesAreShares` | `Spec => []OnlySharesDeadlock`, for circles of any length |
| `ReadsStayTrue` | `Spec => []ReadsHold`: what a transaction has read is as it was when it writes |
| `CoinsAlwaysConserved` | `Spec => []CoinsConserved` |
| `ExperienceAlwaysAccounted` | `Spec => []ExperienceAccounted` |
| `DailyAlwaysCapped` | `Spec => []DailyCapped` |
| `EventsAlwaysCounted` | `Spec => []EventsCounted` |
| `ViewsAlwaysSpaced` | `Spec => []ViewsSpaced` |
| `RequestsServedAtOnce` | `Spec => ServedAtOnce`, the refinement of `RewardLedger` |

The argument has three layers. `LocksHeld` says which locks a transaction has
at which step. `WritesAreLocked` says that each handler writes only what its
own locks cover; since nobody else can have them, whatever another transaction
has read stays true (`OthersRead`), which gives `ReadsHold`. The properties
follow from it step by step: the award is cut by what really is earned, a new
share really is new, a view that counts is still an interval and a place below
the limit. Coins and experience are sums: a grant changes one summand of each
side by the same amount, because the amount was computed from a row that has
not changed since. For circles `LocksHeld` suffices: who has the user `FOR UPDATE`
waits for nothing, so a circle runs through the keepers of `FOR KEY SHARE`,
and those are shares. The clock needs no assumption but that a day does not
depend on who asks: `at` may be older than `now`.

`RequestsServedAtOnce` needs to know why a request was let in, and that the
reason still holds at its commit (`KnownHold`): its video is published, because
moderation waits for the row lock; its session has run long enough and is not
completed, because whoever completes it has the video; no other request starts
the same session. With `ReadsHold` every guard of the ledger's action is then
true of the tables as they are, and with `DailyCapped` the award the code
computes is the one amount the ledger allows (`AwardExact`).

About processes, for any number of them, any binaries, workers and loops:

| Theorem | Statement |
|---|---|
| `TypeCorrect` | `Spec => []TypeOK` |
| `MigrationsAlwaysOnce` | `Spec => []MigrationsOnce` |
| `AlwaysServesCurrentSchema` | `Spec => []ServesCurrentSchema` |
| `AlwaysClosedLast` | `Spec => []ClosedLast` |

`MigrationsOnce` is inductive only together with what each place of a start-up
knows: the holder of the lock is the only process between `LockMigrations` and
the commit, the migration it is about to run is not recorded, and all those
before it are. That nothing is ever removed from `schema_migrations` carries
the rest over to the serving process. For `ClosedLast` it is that a returned
`Start` has no loop left, at any place of the process.

About accounts, for any users, clients, requests, limits and lifetimes:

| Theorem | Statement |
|---|---|
| `TypeCorrect` | `Spec => []TypeOK` |
| `AvatarAlwaysServed` | `Spec => []AvatarServed` |
| `BudgetAlwaysHolds` | `Spec => []BudgetHolds` |
| `TransportsAlwaysAgree` | `Spec => []TransportsAgree` |
| `CallsAlwaysFit` | `Spec => []CallsFitTables` |
| `TransportsAgreeOnEveryMessage` | for every message, not the probes alone, that is small enough for either transport: accepted over HTTP if and only if over gRPC |
| `EveryMessageFits` | for every such message that is accepted: each field fits its column and checks, but for exactly the identifiers and texts PostgreSQL does not have |
| `UploadBeginsExactly` | for bodies of any number of parts, however they end: an upload begins exactly with a known user's `POST` of a body that can be read up to its first file |

`AvatarServed` needs three facts besides (`AvatarInv`): different users' rows
name different files (`Distinct`); a file stored for an update that is to come
is there, and no row and no other request names it (`Unused`); a file to be
removed is named by no row unless its user is `unknown` (`Replaced`). A new
name being fresh supplies them, and the row lock of `UpdateUserAvatar` keeps
them.

`BudgetHolds` splits a window at the moment the present counter began
(`BudgetInv`): what has passed since is at most what the counter counts and at
most the limit; what passed before, within the window, came through the
counter before it, and is at most the limit too. A counter ends when its
window does, so that a third never meets the same window. A tick renames every
summand, from its age to the next.

The theorems about messages rest on one fact of the tables, `Covered`: whatever
field an operation requires, or a column limits, is checked by its handler or
its use case. A required field that is not set fails its check
(`UnsetRefused`), so that the validator, which only the HTTP server has,
refuses nothing more than they do; and each check implies its column's limit
(`FitsTables`), from the one assumption about encodings, that a character takes
one to four bytes (`Sendable`; columns count characters, several checks count
bytes). The probes of `Gateway` are such messages (`ProbesSendable`), and the
tokens of any session are among `Bearers` (`SentKnown`), which gives the
invariants.

That every route is reached is a matter of the order in which the 49 routes are
registered. Comparing all pairs at once is too much for the prover; the proof
goes through the nine groups of the tables. Within a group no route takes the
requests of a later one (`Orderly`), across groups none does (`GroupsApart`),
and both survive concatenation (`Joined`).

The upload handler's loop is a table of what becomes of the parts from each
one on; that there is such a table for a body of any length follows from the
last part downwards (`ServingExists`, `Downwards`), and that it begins an
upload exactly with a readable body likewise (`ServingReads`). Only the last
part of a body can break off, so that the limit on the body and an interruption
are outcomes of that part or of the `NextPart` after it.

About feeds, for any videos, comments, readers, page sizes, scores and numbers
of changes:

| Theorem | Statement |
|---|---|
| `TypeCorrect` | `Spec => []TypeOK` |
| `VisibleAlways` | `Spec => []VisibleWhenListed` |
| `PlaysAlways` | `Spec => []PlayHasStreams` |
| `ListedOnceAlways` | `Spec => []ListedOnce` |
| `NothingSkippedAlways` | `Spec => []NothingSkipped` |

For keyset listings the argument is one notion, `Behind`: a row that a listing
has returned never comes after its cursor again. It has to survive a mark that
is set again, which moves a row of a history to its top: the cursor's time is
not after now, and where it is now's time the row's id is not below the
cursor's. `Open` adds that a row that keeps its place is listed or still after
the cursor, and `PageRest` that whatever a page leaves out comes after its last
row; the two together are both theorems. For rankings the place of a member is
how many score higher (`Ranks`), and `Place` says the same of the offset as
`Open` of the cursor. `View` says what a request has seen between its
statements: comments may be listed after their video is taken down, because
without it they do not change.

Every safety invariant and every action property the runs check, and both
refinements, are thereby stated by a theorem. Only model-checked: the liveness
properties (temporal reasoning with fairness, and `ENABLED`, which the provers
do not handle).

## 5. Plan

Done, in the order of importance: the pipeline with its life cycle; the search
projection; reactions and rewards; processes; feeds; the gateway with
accounts. Left to do:

* Row locks across components: the handlers of `Rewards` together with the
  owner's lock of `queueVideoUpload`, deletion and moderation.

### Not modelled

* The web client: rendering, and two stored tokens nobody relies on. A refresh
  that ends after a logout stores its tokens again
  (`web/src/auth/AuthContext.tsx:29`).
* Reply messages and the conversion of results into them, the generated
  clients, encodings and descriptors, and the configuration (`internal/conf`):
  no state and no decision.
* The sizes of whole messages other than uploads: the limit of an avatar's
  body over HTTP (`internal/server/http.go:26`) and the 4 MB a gRPC server
  receives by default, less than the 10 MiB of `BILI_MEDIA_MAX_COVER_BYTES` in
  `.env.example`, which bounds avatars too.
  `TransportsAgree` is about messages below both.
* Passwords and their hashes, and the signature of tokens: taken as what they
  are for (a genuine token is one this server has signed).
* What FFmpeg, Meilisearch and Redis compute: the models contain what
  `internal/` relies on.
* The columns no property is about: texts, tags, positions, colors, review
  reasons, the level computed from the experience.
