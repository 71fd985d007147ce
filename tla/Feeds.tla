------------------------------- MODULE Feeds -------------------------------
(***************************************************************************)
(* Paged listings and playback queries over rows that change while a       *)
(* client goes from page to page: internal/data/video.go (ListVideos,      *)
(* ListPendingReviewVideos, ListAdminVideos and the playback queries),     *)
(* video_history.go, the listings of video_comment.go, the hot ranking of  *)
(* video_recommendation.go with its refresher, and SearchVideos.           *)
(*                                                                         *)
(* Keyset feeds continue after the key of the last row they returned;      *)
(* ranked feeds continue at an offset of a list kept outside PostgreSQL.   *)
(***************************************************************************)
EXTENDS Naturals, FiniteSets

CONSTANTS
    Ids,              \* ids of videos, and of the comments of one of them
    Home,             \* the video that has the comments
    Root,             \* Root[c]: the root comment c replies to, 0 for a root comment
    Thread,           \* the root comment whose replies are listed
    Readers,          \* clients, each with one listing or one playback query
    PageSize,
    InitialStatus,    \* statuses the videos begin with
    InitialComments,  \* comments there are at the beginning
    Scorings,         \* scores, or measures of relevance, that the videos may have
    MaxMoves          \* bound on changes of rows, of the search hits and of availability

Statuses == {"processing", "ready", "pending_review", "published", "rejected", "failed", "deleted"}

ASSUME FeedsAssumption ==
    /\ Ids \subseteq Nat \ {0}
    /\ IsFiniteSet(Ids)
    /\ Home \in Ids
    /\ Root \in [Ids -> Ids \union {0}]
    /\ PageSize \in Nat \ {0}
    /\ InitialStatus \subseteq [Ids -> Statuses]
    /\ Scorings \subseteq [Ids -> Nat]
    /\ MaxMoves \in Nat

VARIABLES
    status,       \* videos.status; the deleted ones have deleted_at as well
    mark,         \* updated_at of the reader's like, favorite, coin or watch row, 0 if none is active
    comment,      \* rows of video_comments
    clock,        \* the time
    list,         \* the Redis sorted set, and the hits of the search engine: score by member
    up,           \* whether Redis and the search engine answer
    refresher,    \* the set of videos the refresher has read and not stored yet, if any
    moves,        \* changes so far
    reader,       \* the requests
    seen,         \* history: what was visible at some instant of the request
    throughout,   \* history: what was visible since the first page, with the same key
    steady        \* history: list and availability have not changed since the first page

rows == <<status, mark, comment, clock>>
stores == <<list, up, refresher>>
ghosts == <<seen, throughout, steady>>
vars == <<rows, stores, moves, reader, ghosts>>

Keyset == {"latest", "pending", "audit", "history", "comments", "replies", "comment_history"}
Ranked == {"recommended", "search"}
Queries == {"play", "review_play", "upload_status"}
Kinds == Keyset \union Ranked \union Queries
OldestFirst == {"pending", "replies"}
NoKey == <<0, 0>>

----------------------------------------------------------------------------
\* What the listings select.

WithStatus(statuses) == {v \in Ids : status[v] \in statuses}
Published == WithStatus({"published"})
Live == {c \in Ids : comment[c] = "live"}

\* A deleted root stays as long as it has replies.
Roots == {c \in Ids : /\ Root[c] = 0
                      /\ comment[c] # "none"
                      /\ c \in Live \/ \E d \in Live : Root[d] = c}

\* The WHERE clause of each listing, its cursor apart.
Rows(feed) ==
    CASE feed = "pending" -> WithStatus({"pending_review"})
      [] feed = "audit" -> WithStatus({"deleted"})
      [] feed = "history" -> {v \in Published : mark[v] > 0}
      [] feed = "comments" -> Roots
      [] feed = "replies" -> {c \in Live : Root[c] = Thread}
      [] feed = "comment_history" -> {c \in Live : Home \in Published}
      [] feed = "review_play" -> WithStatus({"pending_review", "rejected"})
      [] feed = "upload_status" -> Ids
      [] OTHER -> Published

\* Comments may be seen while their video is published.
Visible(feed) == {i \in Rows(feed) : feed \in {"comments", "replies"} => Home \in Published}

\* ORDER BY: time and id where the listing is sorted by time, else the id.
Key(feed, i) == <<IF feed = "history" THEN mark[i] ELSE 0, i>>

Comes(feed, k, l) ==
    IF feed \in OldestFirst THEN k[2] < l[2] ELSE k[1] > l[1] \/ (k[1] = l[1] /\ k[2] > l[2])

\* A seeded fault: the cursor's own row is not left out.
AfterInclusive(feed, cursor) ==
    {i \in Rows(feed) : cursor = NoKey \/ ~Comes(feed, Key(feed, i), cursor)}

\* The rows after a cursor.
After(feed, cursor) == {i \in Rows(feed) : cursor = NoKey \/ Comes(feed, cursor, Key(feed, i))}

Ahead(feed, i, page) == {j \in page : Comes(feed, Key(feed, j), Key(feed, i))}

\* LIMIT, after ORDER BY.
FirstOf(feed, all) == {i \in all : Cardinality(Ahead(feed, i, all)) < PageSize}

\* A seeded fault: the token is the key of the row that did not fit any more.
NextRowKey(feed, all, page) ==
    CHOOSE k \in {Key(feed, i) : i \in all \ page} :
        \A j \in all \ page : Key(feed, j) = k \/ Comes(feed, k, Key(feed, j))

\* The token of the next page is the key of the last row of this one.
LastKey(feed, all, page) ==
    CHOOSE k \in {Key(feed, i) : i \in page} :
        \A j \in page : Key(feed, j) = k \/ Comes(feed, Key(feed, j), k)

Scored(scoring, members) == [v \in members |-> scoring[v]]

----------------------------------------------------------------------------
Init ==
    /\ status \in InitialStatus
    /\ mark = [v \in Ids |-> 1]
    /\ comment = [c \in Ids |-> IF c \in InitialComments THEN "live" ELSE "none"]
    /\ clock = 1
    /\ \E scoring \in Scorings : list = [f \in Ranked |-> Scored(scoring, Published)]
    /\ up = TRUE
    /\ refresher = {}
    /\ moves = 0
    /\ reader \in [Readers -> {[feed |-> f, at |-> "first", cursor |-> NoKey, offset |-> 0, page |-> {},
                                more |-> FALSE, listed |-> {}, twice |-> FALSE, leaked |-> FALSE, silent |-> FALSE] : f \in Kinds}]
    /\ seen = [r \in Readers |-> {}]
    /\ throughout = [r \in Readers |-> {}]
    /\ steady = [r \in Readers |-> TRUE]

----------------------------------------------------------------------------
\* Requests.

\* What a request sees from its beginning on.
Began(r) ==
    /\ reader[r].at \in {"first", "more"}
    /\ seen' = [seen EXCEPT ![r] = Visible(reader[r].feed)]
    /\ throughout' = IF reader[r].at = "first"
                     THEN [throughout EXCEPT ![r] = Visible(reader[r].feed)]
                     ELSE throughout

\* What the client knows of a request R after a page of which the given rows
\* could be seen.
Told(R, page, visible) ==
    [R EXCEPT !.listed = @ \union page,
              !.twice = @ \/ page \intersect R.listed # {},
              !.leaked = @ \/ ~(page \subseteq visible)]

\* The answer; cursor and offset are the next page's, if there are more.
Answer(r, page, more, cursor, offset) ==
    reader' = [reader EXCEPT ![r] =
        [Told(reader[r], page, seen'[r]) EXCEPT
            !.at = IF more THEN "more" ELSE "done",
            !.cursor = cursor,
            !.offset = offset,
            !.page = {},
            !.more = FALSE]]

\* A request between two statements.
Hold(r, page, more, cursor) ==
    reader' = [reader EXCEPT ![r] =
        [@ EXCEPT !.at = "between", !.page = page, !.more = more, !.cursor = cursor]]

Fail(r) == reader' = [reader EXCEPT ![r] = [@ EXCEPT !.at = "failed"]]

\* Selecting one row more than the page has tells whether there is a next one.
Page(r) == FirstOf(reader[r].feed, After(reader[r].feed, reader[r].cursor))
More(r) == Page(r) # After(reader[r].feed, reader[r].cursor)
NextKey(r) == IF More(r)
            THEN LastKey(reader[r].feed, After(reader[r].feed, reader[r].cursor), Page(r))
            ELSE reader[r].cursor

\* ListVideos, ListPendingReviewVideos, ListAdminVideos: one statement.
ListVideos(r) ==
    /\ reader[r].feed \in {"latest", "pending", "audit"}
    /\ Began(r)
    /\ Answer(r, Page(r), More(r), NextKey(r), 0)
    /\ UNCHANGED <<rows, stores, moves, steady>>

\* A history selects its rows, which decide page and token, and then loads their
\* videos by id.
ListHistory(r) ==
    /\ reader[r].feed \in {"history", "comment_history"}
    /\ Began(r)
    /\ Hold(r, Page(r), More(r), NextKey(r))
    /\ UNCHANGED <<rows, stores, moves, steady>>

LoadVideos(r) ==
    /\ reader[r].feed \in {"history", "comment_history"}
    /\ reader[r].at = "between"
    /\ UNCHANGED <<rows, stores, moves, ghosts>>
    /\ Answer(r, reader[r].page, reader[r].more, reader[r].cursor, 0)

\* The listings of comments look for the published video first.
FindVideo(r) ==
    /\ reader[r].feed \in {"comments", "replies"}
    /\ Began(r)
    /\ IF Home \in Published THEN Hold(r, {}, FALSE, reader[r].cursor) ELSE Fail(r)
    /\ UNCHANGED <<rows, stores, moves, steady>>

ListComments(r) ==
    /\ reader[r].feed \in {"comments", "replies"}
    /\ reader[r].at = "between"
    /\ UNCHANGED <<rows, stores, moves, ghosts>>
    /\ Answer(r, Page(r), More(r), NextKey(r), 0)

\* The place of a member: how many score higher.
Rank(known, v) == Cardinality({w \in DOMAIN known : known[w] > known[v]})

\* The members of a list on the page at an offset, and whether there are more.
HitsAt(known, offset) ==
    {v \in DOMAIN known : Rank(known, v) >= offset /\ Rank(known, v) < offset + PageSize}
MoreAt(known, offset) == Cardinality(DOMAIN known) > offset + PageSize

\* PostgreSQL answers when the list is not there: the published videos, by
\* their scores of now.
AnswerFromRows(r) ==
    \E scoring \in Scorings :
        LET scored == Scored(scoring, Published)
            offset == reader[r].offset
        IN  /\ Answer(r, HitsAt(scored, offset), MoreAt(scored, offset), NoKey, offset + PageSize)
            /\ steady' = [steady EXCEPT ![r] = FALSE]

\* ListRecommendedVideos and SearchVideos: ids from the list.  An empty answer of Redis
\* counts as none.
ListRanked(r) ==
    LET known == list[reader[r].feed]
        offset == reader[r].offset
    IN  /\ reader[r].feed \in Ranked
        /\ Began(r)
        /\ IF ~up \/ (reader[r].feed = "recommended" /\ HitsAt(known, offset) = {})
           THEN AnswerFromRows(r)
           ELSE Hold(r, HitsAt(known, offset), MoreAt(known, offset), NoKey) /\ UNCHANGED steady
        /\ UNCHANGED <<rows, stores, moves>>

\* A seeded fault: the list decides what is published.
TrustHits(hits) == hits

\* findPublishedVideosInOrder: what is no longer published is left out.
StillPublished(hits) == hits \intersect Published

FindPublishedVideosInOrder(r) ==
    /\ reader[r].feed \in Ranked
    /\ reader[r].at = "between"
    /\ UNCHANGED <<rows, stores, moves, ghosts>>
    /\ Answer(r, StillPublished(reader[r].page), reader[r].more, NoKey, reader[r].offset + PageSize)

\* Streams are stored with the ready row, and removed with its deletion.
HasStreams(v) == status[v] \in {"ready", "pending_review", "published", "rejected"}

\* A seeded fault: the streams of a video in transcoding are looked up too.
LookedUpAnyway(v) == status[v] # "deleted"

\* The upload status looks for streams in these statuses only.
LookedUp(v) == status[v] \in {"ready", "pending_review", "published", "rejected"}

\* FindVideoPlayByID, FindReviewVideoPlayByID, FindVideoUploadStatus: the row first ...
FindRow(r) ==
    /\ reader[r].feed \in Queries
    /\ Began(r)
    /\ \E v \in Ids :
          IF v \notin Rows(reader[r].feed) THEN Fail(r)
          ELSE IF reader[r].feed = "upload_status" /\ ~LookedUp(v) THEN Answer(r, {v}, FALSE, NoKey, 0)
          ELSE Hold(r, {v}, FALSE, NoKey)
    /\ UNCHANGED <<rows, stores, moves, steady>>

\* ... and then the streams, at another moment.
FindStreams(r) ==
    /\ reader[r].feed \in Queries
    /\ reader[r].at = "between"
    /\ reader' = [reader EXCEPT ![r] =
          [@ EXCEPT !.at = "done", !.page = {}, !.listed = reader[r].page,
                    !.silent = \A v \in reader[r].page : ~HasStreams(v)]]
    /\ UNCHANGED <<rows, stores, moves, ghosts>>

----------------------------------------------------------------------------
\* Changes.

\* What the requests under way have seen and keep seeing.
Observe ==
    /\ UNCHANGED reader
    /\ seen' = [r \in Readers |-> seen[r] \union Visible(reader[r].feed)']
    /\ throughout' = [r \in Readers |->
          {i \in throughout[r] \intersect Visible(reader[r].feed)' :
              Key(reader[r].feed, i)' = Key(reader[r].feed, i)}]

Move == moves < MaxMoves /\ moves' = moves + 1

StatusMoves == {<<"processing", "ready">>, <<"processing", "pending_review">>, <<"processing", "failed">>,
                <<"ready", "pending_review">>, <<"rejected", "pending_review">>, <<"pending_review", "published">>,
                <<"pending_review", "rejected">>, <<"published", "rejected">>}

\* A worker, the owner or an administrator.
ChangeStatus(v) ==
    /\ Move
    /\ \E to \in {m[2] : m \in {m \in StatusMoves : m[1] = status[v]}} \union {"deleted"} :
          status' = [status EXCEPT ![v] = to]
    /\ UNCHANGED <<mark, comment, clock, stores, steady>>
    /\ Observe

\* The reader likes, favors, gives a coin to or watches a video; two updates may have
\* the same time.
SetMark(v) ==
    /\ Move
    /\ v \in Published
    /\ clock' \in {clock, clock + 1}
    /\ mark' = [mark EXCEPT ![v] = clock']
    /\ UNCHANGED <<status, comment, stores, steady>>
    /\ Observe

ClearMark(v) ==
    /\ Move
    /\ v \in Published
    /\ mark' = [mark EXCEPT ![v] = 0]
    /\ UNCHANGED <<status, comment, clock, stores, steady>>
    /\ Observe

CreateVideoComment(c) ==
    /\ Move
    /\ Home \in Published
    /\ comment[c] = "none"
    /\ Root[c] = 0 \/ Root[c] \in Live
    /\ comment' = [comment EXCEPT ![c] = "live"]
    /\ UNCHANGED <<status, mark, clock, stores, steady>>
    /\ Observe

DeleteVideoComment(c) ==
    /\ Move
    /\ Home \in Published
    /\ comment[c] = "live"
    /\ comment' = [comment EXCEPT ![c] = "deleted"]
    /\ UNCHANGED <<status, mark, clock, stores, steady>>
    /\ Observe

Disturb(feeds) == steady' = [r \in Readers |-> steady[r] /\ reader[r].feed \notin feeds]

\* The index follows the rows in its own time (SearchOutbox).
Reindex ==
    /\ Move
    /\ \E scoring \in Scorings, known \in {Ids, Published} :
          list' = [list EXCEPT !["search"] = Scored(scoring, known)]
    /\ Disturb({"search"})
    /\ UNCHANGED <<rows, up, refresher, reader, seen, throughout>>

FailOrRecover ==
    /\ Move
    /\ up' = ~up
    /\ Disturb(Ranked)
    /\ UNCHANGED <<rows, list, refresher, reader, seen, throughout>>

\* RefreshVideoRanking: reads the published videos and their counters ...
RefreshReads ==
    /\ refresher = {}
    /\ refresher' = {Published}
    /\ UNCHANGED <<rows, list, up, moves, reader, ghosts>>

\* A seeded fault: nothing is replaced when nothing is published.
RefreshStoresMembers ==
    /\ \E scoring \in Scorings, members \in refresher :
          list' = IF up /\ members # {}
                  THEN [list EXCEPT !["recommended"] = Scored(scoring, members)]
                  ELSE list
    /\ refresher' = {}
    /\ IF list' = list THEN UNCHANGED steady ELSE Disturb({"recommended"})
    /\ UNCHANGED <<rows, up, moves, reader, seen, throughout>>

\* ... and replaces the sorted set, if Redis answers.
RefreshStores ==
    /\ \E scoring \in Scorings, members \in refresher :
          list' = IF up
                  THEN [list EXCEPT !["recommended"] = Scored(scoring, members)]
                  ELSE list
    /\ refresher' = {}
    /\ IF list' = list THEN UNCHANGED steady ELSE Disturb({"recommended"})
    /\ UNCHANGED <<rows, up, moves, reader, seen, throughout>>

----------------------------------------------------------------------------
Read(r) ==
    \/ ListVideos(r) \/ ListHistory(r) \/ LoadVideos(r) \/ FindVideo(r) \/ ListComments(r)
    \/ ListRanked(r) \/ FindPublishedVideosInOrder(r) \/ FindRow(r) \/ FindStreams(r)

Change ==
    \/ \E i \in Ids : \/ ChangeStatus(i) \/ SetMark(i) \/ ClearMark(i)
                      \/ CreateVideoComment(i) \/ DeleteVideoComment(i)
    \/ Reindex
    \/ FailOrRecover

Next == (\E r \in Readers : Read(r)) \/ Change \/ RefreshReads \/ RefreshStores

\* The refresher's ticker fires for as long as the process lives.
Fairness == WF_vars(RefreshReads) /\ WF_vars(RefreshStores)

Spec == Init /\ [][Next]_vars
FairSpec == Spec /\ Fairness

----------------------------------------------------------------------------
Request == [feed : Kinds, at : {"first", "more", "between", "done", "failed"}, cursor : Nat \X Nat,
            offset : Nat, page : SUBSET Ids, more : BOOLEAN, listed : SUBSET Ids,
            twice : BOOLEAN, leaked : BOOLEAN, silent : BOOLEAN]

TypeOK ==
    /\ status \in [Ids -> Statuses]
    /\ mark \in [Ids -> Nat]
    /\ clock \in Nat
    /\ comment \in [Ids -> {"none", "live", "deleted"}]
    /\ up \in BOOLEAN
    /\ DOMAIN list = Ranked
    /\ \A f \in Ranked : DOMAIN list[f] \subseteq Ids /\ list[f] \in [DOMAIN list[f] -> Nat]
    /\ refresher \subseteq SUBSET Ids
    /\ moves \in 0 .. MaxMoves
    /\ reader \in [Readers -> Request]
    /\ seen \in [Readers -> SUBSET Ids]
    /\ throughout \in [Readers -> SUBSET Ids]
    /\ steady \in [Readers -> BOOLEAN]

(* No listing that continues at a key returns a row twice, whatever is added,   *)
(* removed or touched between its pages, also if a history's row moves to its   *)
(* top (the cursors of ListVideos, video_history.go and video_comment.go).      *)
(* Listings that continue at an offset do not either while their list stays the *)
(* same and answers.                                                            *)
ListedOnce == \A r \in Readers : reader[r].feed \in Keyset \/ steady[r] => ~reader[r].twice

(* A listing that has come to its end has returned every row that could be seen *)
(* and kept its place all the time; with offsets, if the list stays the same,   *)
(* answers and has the row.                                                     *)
NothingSkipped ==
    \A r \in Readers :
        reader[r].at = "done" =>
            /\ reader[r].feed \in Keyset => throughout[r] \subseteq reader[r].listed
            /\ reader[r].feed \in Ranked /\ steady[r] =>
                  throughout[r] \intersect DOMAIN list[reader[r].feed] \subseteq reader[r].listed

(* What a request returns could be seen at some moment of the request: a        *)
(* ranking or an index that is behind never shows a video taken down before     *)
(* (findPublishedVideosInOrder and the conditions of the listings).             *)
VisibleWhenListed == \A r \in Readers : ~reader[r].leaked

(* A playback query or an upload status that found its row answers with its     *)
(* streams, unless the video was deleted meanwhile.                             *)
PlayHasStreams ==
    \A r \in Readers : reader[r].silent => \A v \in reader[r].listed : status[v] = "deleted"

(* Once Redis answers for good and nothing changes any more, the ranking is     *)
(* exactly the published videos, also when there are none.                      *)
RankingFollows == <>[](up) => <>[](DOMAIN list["recommended"] = Published)
============================================================================
