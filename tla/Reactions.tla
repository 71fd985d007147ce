----------------------------- MODULE Reactions -----------------------------
(***************************************************************************)
(* What viewers leave on one video: likes and favorites, comments with     *)
(* their replies and likes, danmaku, and the counters kept beside them.    *)
(* Every handler is one transaction; it locks the row of the video, reads  *)
(* what it is about and writes what follows, except SetVideoCommentLike,   *)
(* which locks nothing before it reads.                                    *)
(*                                                                         *)
(* A transaction is two actions: one up to its last read, one for its      *)
(* writes and the commit.  What it writes is seen by no one before that,   *)
(* and a row it writes is locked until then.                               *)
(***************************************************************************)
EXTENDS Integers, FiniteSets

CONSTANTS
  Users,      \* accounts
  Owner,      \* the account the video belongs to
  Marks,      \* kinds of reaction a user has at most one of: "like", "favorite"
  Comments,   \* ids of video_comments rows
  Danmakus,   \* ids of danmakus rows
  Author,     \* who writes the comment or danmaku of an id
  Likes,      \* bound: the pairs of a user and a comment that are ever liked
  Requests,   \* requests under way at the same time
  Nobody,     \* no request
  Overlapping \* a user may send a like of a comment before the last is answered

ASSUME ConstantsOK ==
  /\ IsFiniteSet(Users) /\ Owner \in Users
  /\ Marks \subseteq {"like", "favorite"}
  /\ Comments \subseteq Nat \ {0} /\ IsFiniteSet(Comments)
  /\ Danmakus \subseteq Nat \ {0} /\ IsFiniteSet(Danmakus)
  /\ Author \in [Comments \cup Danmakus -> Users]
  /\ Likes \subseteq Users \X Comments
  /\ Nobody \notin Requests
  /\ Overlapping \in BOOLEAN

VARIABLES
  published,   \* status = 'published' AND deleted_at IS NULL
  lock,        \* the request that holds the row lock of the video
  row,         \* [Rows -> RowState], the tables
  count,       \* [Kinds -> Nat], the counters of the videos row
  parent,      \* [Comments -> Comments \cup {NoComment}], parent_id
  root,        \* [Comments -> Comments \cup {NoComment}], root_id
  commentLike, \* [Likes -> RowState], user_video_comment_likes
  likeCount,   \* [Comments -> Nat], video_comments.like_count
  tx           \* [Requests -> Tx], what a request has read

vars == <<published, lock, row, count, parent, root, commentLike, likeCount, tx>>

NoComment == 0

(* "off" is an inactive mark, a comment with deleted_at, a deleted danmaku. *)
RowState == {"absent", "off", "on"}

Kinds == Marks \cup {"comment", "danmaku"}

Keys(k) == CASE k = "comment" -> Comments
             [] k = "danmaku" -> Danmakus
             [] OTHER -> Users

Rows == UNION {{k} \X Keys(k) : k \in Kinds}

Idle == [op |-> "idle"]

Tx == {Idle}
  \cup [op : {"mark"}, kind : Marks, key : Users, on : BOOLEAN, seen : RowState]
  \cup [op : {"write"}, kind : {"comment", "danmaku"}, user : Users,
        parent : Comments \cup {NoComment}]
  \cup [op : {"delete"}, kind : {"comment"}, user : Users, key : Comments, seen : RowState]
  \cup [op : {"delete"}, kind : {"danmaku"}, user : Users, key : Danmakus, seen : RowState]
  \cup [op : {"like"}, key : Likes, on : BOOLEAN, seen : RowState]

Init ==
  /\ published = TRUE
  /\ lock = Nobody
  /\ row = [x \in Rows |-> "absent"]
  /\ count = [k \in Kinds |-> 0]
  /\ parent = [c \in Comments |-> NoComment]
  /\ root = [c \in Comments |-> NoComment]
  /\ commentLike = [l \in Likes |-> "absent"]
  /\ likeCount = [c \in Comments |-> 0]
  /\ tx = [r \in Requests |-> Idle]

-----------------------------------------------------------------------------
(* Parts of the handlers.                                                  *)

(* GREATEST(column + delta, 0) *)
Bump(n, delta) == IF n + delta < 0 THEN 0 ELSE n + delta

Delta(on) == IF on THEN 1 ELSE -1

State(on) == IF on THEN "on" ELSE "off"

(* Seeded fault: the video is looked up without FOR UPDATE. *)
SeePublished(r) == published /\ UNCHANGED lock

(* The video, if it is published, with FOR UPDATE. *)
FindPublished(r) ==
  /\ published
  /\ lock = Nobody
  /\ lock' = r

Begin(r, t) ==
  /\ tx[r] = Idle
  /\ tx' = [tx EXCEPT ![r] = t]

(* Commit or roll back: the locks are released. *)
End(r) ==
  /\ tx' = [tx EXCEPT ![r] = Idle]
  /\ lock' = IF lock = r THEN Nobody ELSE lock

(* One row of a table and the counter beside it. *)
Store(k, x, on) ==
  /\ row' = [row EXCEPT ![<<k, x>>] = State(on)]
  /\ count' = [count EXCEPT ![k] = Bump(@, Delta(on))]

-----------------------------------------------------------------------------
(* Likes and favorites of the video.                                       *)

SetMark(r, k, u, on) ==
  /\ FindPublished(r)
  /\ Begin(r, [op |-> "mark", kind |-> k, key |-> u, on |-> on, seen |-> row[<<k, u>>]])
  /\ UNCHANGED <<published, row, count, parent, root, commentLike, likeCount>>

MarkChanges(t) == (t.seen = "on") # t.on

StoreMark(r) ==
  LET t == tx[r] IN
  /\ t.op = "mark"
  /\ \/ MarkChanges(t) /\ Store(t.kind, t.key, t.on)
     \/ ~MarkChanges(t) /\ UNCHANGED <<row, count>>
  /\ End(r)
  /\ UNCHANGED <<published, parent, root, commentLike, likeCount>>

-----------------------------------------------------------------------------
(* Comments and danmaku.                                                   *)

CreateComment(r, u, p) ==
  /\ FindPublished(r)
  /\ Begin(r, [op |-> "write", kind |-> "comment", user |-> u, parent |-> p])
  /\ UNCHANGED <<published, row, count, parent, root, commentLike, likeCount>>

CreateDanmaku(r, u) ==
  /\ FindPublished(r)
  /\ Begin(r, [op |-> "write", kind |-> "danmaku", user |-> u, parent |-> NoComment])
  /\ UNCHANGED <<published, row, count, parent, root, commentLike, likeCount>>

(* Seeded fault: the direct parent is taken for the root. *)
ParentAsRoot(p) == p

RootOf(p) == IF p = NoComment \/ parent[p] = NoComment THEN p ELSE root[p]

StoreComment(r) ==
  LET t == tx[r] IN
  /\ t.op = "write" /\ t.kind = "comment"
  /\ t.parent # NoComment => row[<<"comment", t.parent>>] = "on"
  /\ \E c \in Comments :
       /\ row[<<"comment", c>>] = "absent" /\ Author[c] = t.user
       /\ Store("comment", c, TRUE)
       /\ parent' = [parent EXCEPT ![c] = t.parent]
       /\ root' = [root EXCEPT ![c] = RootOf(t.parent)]
  /\ End(r)
  /\ UNCHANGED <<published, commentLike, likeCount>>

StoreDanmaku(r) ==
  LET t == tx[r] IN
  /\ t.op = "write" /\ t.kind = "danmaku"
  /\ \E d \in Danmakus :
       /\ row[<<"danmaku", d>>] = "absent" /\ Author[d] = t.user
       /\ Store("danmaku", d, TRUE)
  /\ End(r)
  /\ UNCHANGED <<published, parent, root, commentLike, likeCount>>

(* DeleteVideoComment and DeleteDanmaku. *)
Delete(r, k, u, x) ==
  /\ FindPublished(r)
  /\ Begin(r, [op |-> "delete", kind |-> k, user |-> u, key |-> x, seen |-> row[<<k, x>>]])
  /\ UNCHANGED <<published, row, count, parent, root, commentLike, likeCount>>

MayDelete(t) == t.seen = "on" /\ t.user \in {Author[t.key], Owner}

StoreDelete(r) ==
  LET t == tx[r] IN
  /\ t.op = "delete"
  /\ \/ MayDelete(t) /\ Store(t.kind, t.key, FALSE)
     \/ ~MayDelete(t) /\ UNCHANGED <<row, count>>
  /\ End(r)
  /\ UNCHANGED <<published, parent, root, commentLike, likeCount>>

-----------------------------------------------------------------------------
(* Likes of a comment.                                                     *)

(* Nothing is locked; the like and the comment are read as committed. *)
SetCommentLike(r, u, c, on) ==
  /\ published
  /\ row[<<"comment", c>>] = "on"
  /\ Overlapping \/ \A q \in Requests : tx[q].op = "like" => tx[q].key # <<u, c>>
  /\ Begin(r, [op |-> "like", key |-> <<u, c>>, on |-> on, seen |-> commentLike[<<u, c>>]])
  /\ UNCHANGED <<published, lock, row, count, parent, root, commentLike, likeCount>>

(* Seeded fault: the counter follows the request, not the change. *)
AlwaysChanges(t) == TRUE

LikeChanges(t) == (t.seen = "on") # t.on

(* Another request has inserted the like: the unique constraint. *)
LikeConflict(t) == t.seen = "absent" /\ commentLike[t.key] # "absent"

(* An update writes over whatever the row has become, and counts again. *)
StoreCommentLike(r) ==
  LET t == tx[r] IN
  /\ t.op = "like"
  /\ \/ /\ LikeChanges(t) /\ ~LikeConflict(t)
        /\ commentLike' = [commentLike EXCEPT ![t.key] = State(t.on)]
        /\ likeCount' = [likeCount EXCEPT ![t.key[2]] = Bump(@, Delta(t.on))]
     \/ /\ ~LikeChanges(t) \/ LikeConflict(t)
        /\ UNCHANGED <<commentLike, likeCount>>
  /\ End(r)
  /\ UNCHANGED <<published, row, count, parent, root>>

-----------------------------------------------------------------------------
(* A refused, failed or cancelled request rolls its transaction back. *)
Rollback(r) ==
  /\ tx[r] # Idle
  /\ End(r)
  /\ UNCHANGED <<published, row, count, parent, root, commentLike, likeCount>>

(* Review, takedown and deletion update the videos row, and wait for its lock. *)
Moderate ==
  /\ lock = Nobody
  /\ published' = ~published
  /\ UNCHANGED <<lock, row, count, parent, root, commentLike, likeCount, tx>>

Request(r) ==
  \/ \E k \in Marks, u \in Users, on \in BOOLEAN : SetMark(r, k, u, on)
  \/ \E u \in Users, p \in Comments \cup {NoComment} : CreateComment(r, u, p)
  \/ \E u \in Users : CreateDanmaku(r, u)
  \/ \E k \in {"comment", "danmaku"}, u \in Users :
       \E x \in Keys(k) : Delete(r, k, u, x)
  \/ \E l \in Likes, on \in BOOLEAN : SetCommentLike(r, l[1], l[2], on)

Next ==
  \/ \E r \in Requests :
       \/ Request(r) \/ StoreMark(r) \/ StoreComment(r) \/ StoreDanmaku(r)
       \/ StoreDelete(r) \/ StoreCommentLike(r) \/ Rollback(r)
  \/ Moderate

Spec == Init /\ [][Next]_vars

-----------------------------------------------------------------------------
(* Properties.                                                             *)

TypeOK ==
  /\ published \in BOOLEAN
  /\ lock \in Requests \cup {Nobody}
  /\ row \in [Rows -> RowState]
  /\ count \in [Kinds -> Nat]
  /\ parent \in [Comments -> Comments \cup {NoComment}]
  /\ root \in [Comments -> Comments \cup {NoComment}]
  /\ commentLike \in [Likes -> RowState]
  /\ likeCount \in [Comments -> Nat]
  /\ tx \in [Requests -> Tx]

On(k) == {x \in Keys(k) : row[<<k, x>>] = "on"}

(* The counters of the video equal the rows they stand for, whatever       *)
(* requests of whatever users overlap: SetVideoLike, SetVideoFavorite,     *)
(* CreateVideoComment, DeleteVideoComment, CreateDanmaku, DeleteDanmaku.   *)
CountersMatch == \A k \in Kinds : count[k] = Cardinality(On(k))

Locking == {"mark", "write", "delete"}

(* A transaction that writes beside a counter of the video holds the       *)
(* video's row, and what it read is as it was when it writes.              *)
ReadsHold ==
  \A r \in Requests :
    /\ lock = r <=> tx[r].op \in Locking
    /\ tx[r].op \in {"mark", "delete"} => tx[r].seen = row[<<tx[r].kind, tx[r].key>>]

(* The same for a like of a comment, which locks nothing, if no two        *)
(* requests are about the same like.                                       *)
LikesHold ==
  ~Overlapping =>
    \A r \in Requests : tx[r].op = "like" =>
      /\ tx[r].seen = commentLike[tx[r].key]
      /\ \A q \in Requests \ {r} : tx[q].op = "like" => tx[q].key # tx[r].key

LikesOf(c) == {l \in Likes : l[2] = c /\ commentLike[l] = "on"}

(* A comment's counter equals its active likes: SetVideoCommentLike        *)
(* "atomically applies an idempotent desired state and updates the         *)
(* denormalized count".                                                    *)
CommentLikesCounted == \A c \in Comments : likeCount[c] = Cardinality(LikesOf(c))

Exists(c) == row[<<"comment", c>>] # "absent"

(* A reply belongs to a comment that exists and is no reply itself.        *)
Threads ==
  \A c \in Comments :
    /\ ~Exists(c) => parent[c] = NoComment
    /\ parent[c] # NoComment =>
         root[c] \in Comments /\ Exists(root[c]) /\ parent[root[c]] = NoComment

(* ListVideoComments: roots that are not deleted, or have a reply that is not. *)
ListedRoots ==
  {c \in Comments :
     /\ Exists(c) /\ parent[c] = NoComment
     /\ \/ row[<<"comment", c>>] = "on"
        \/ \E x \in On("comment") : root[x] = c}

(* Every comment that is not deleted can be reached: it is a listed root   *)
(* or ListVideoCommentReplies shows it under one.  DeleteVideoComment      *)
(* works "without orphaning visible replies".                              *)
EveryCommentReachable ==
  \A c \in On("comment") :
    c \in ListedRoots \/ (parent[c] # NoComment /\ root[c] \in ListedRoots)
=============================================================================
