------------------------------- MODULE Gateway -------------------------------
(***************************************************************************)
(* What happens to one request between its arrival and the call into the   *)
(* repository: the HTTP route table and the gRPC method table, the token   *)
(* parser, the administrator selector, the validator of required fields    *)
(* (HTTP only), the checks of the service handlers and those of the use    *)
(* cases. None of it keeps state, so the module declares no variable:      *)
(* Accounts composes it with the parts that do (rate limiter, accounts,    *)
(* avatars). The operations' effects are the subject of the other modules. *)
(*                                                                         *)
(* The value of a field is its measure: whether the message carries it     *)
(* (proto3 drops zero values), its number or its length in characters      *)
(* after the trimming the code does (of every text but a password), that   *)
(* length in bytes, and whether it is plain, without a character that      *)
(* PostgreSQL refuses (NUL). An identifier measures 0 when it is missing,  *)
(* malformed or beyond 64 bits, 1 up to 2^63 - 1 and 2 above; statuses and *)
(* image bodies measure 0 when unknown or invalid. The digits of a color   *)
(* and the letters of a username are abstracted: well formed when they are *)
(* plain and have the right length. Page tokens are left to Feeds, the     *)
(* order of a search has no wrong value, and messages are small enough for *)
(* either transport: the limit of an avatar's body over HTTP and that of a *)
(* received gRPC message are left out.                                     *)
(***************************************************************************)
EXTENDS Integers, Sequences, FiniteSets, Functions

CONSTANT Users       \* accounts, by the username they register

-----------------------------------------------------------------------------
(* The methods of the two gRPC services, each of which hands its request   *)
(* with its full name to the interceptors and on to the service.           *)

ReadingMethods == {"ListVideos", "ListRecommendedVideos", "SearchVideos", "ListUserVideos",
                   "GetVideo", "GetVideoPlay"}
ReactionMethods == {"LikeVideo", "UnlikeVideo", "GetVideoEngagement", "FavoriteVideo",
                    "UnfavoriteVideo", "CoinVideo", "ShareVideo"}
HistoryMethods == {"ListMyLikedVideos", "ListMyFavoriteVideos", "ListMyCoinedVideos",
                   "ListMyWatchHistory"}
DanmakuMethods == {"CreateDanmaku", "DeleteDanmaku"}
CommentMethods == {"ListVideoComments", "ListVideoCommentReplies", "CreateVideoComment",
                   "DeleteVideoComment", "LikeVideoComment", "UnlikeVideoComment",
                   "ListMyVideoComments"}
OwnerMethods == {"GetVideoUploadStatus", "SubmitVideoForReview", "DeleteVideo",
                 "StartVideoView", "CompleteVideoView"}
AdminMethods == {"ListAdminVideos", "ListPendingReviewVideos", "GetAdminVideo",
                 "GetReviewVideoPlay", "ApproveVideo", "RejectVideo", "TakeDownVideo",
                 "DeleteAdminVideo"}
ProfileMethods == {"GetMe", "UpdateMe", "UpdateMyAvatar", "DeleteMyAvatar", "GetUser"}
SessionMethods == {"Login", "Register", "Logout", "Refresh"}

VideoOperations ==
    ReadingMethods \cup ReactionMethods \cup HistoryMethods \cup DanmakuMethods
        \cup CommentMethods \cup OwnerMethods \cup AdminMethods
UserOperations == ProfileMethods \cup SessionMethods
Operations == VideoOperations \cup UserOperations

\* The full name a method is served under: both transports hand it to the
\* middlewares, the HTTP handler by SetOperation, the gRPC one as FullMethod.
FullMethod(op) ==
    <<IF op \in VideoOperations THEN "video.v1.VideoService" ELSE "user.v1.UserService", op>>

-----------------------------------------------------------------------------
(* Request messages: the fields a client must and may fill.                *)

\* A row of a table is about some operations; the row of an operation.
RowOf(table, op) == CHOOSE row \in table : op \in row.ops

Fields(ops, required, optional) ==
    [ops |-> ops, required |-> required, optional |-> optional]

ListingMessages == {
    Fields({"ListVideos", "ListRecommendedVideos"}, {}, {"page_size"}),
    Fields({"ListUserVideos"}, {"user_id"}, {"page_size"}) }

SearchMessages == { Fields({"SearchVideos"}, {"query"}, {"owner_id", "page_size"}) }

PlaybackMessages == { Fields({"GetVideo", "GetVideoPlay"}, {"bvid"}, {}) }
LikeMessages == { Fields({"LikeVideo", "UnlikeVideo"}, {"bvid"}, {}) }

EngagementMessages == {
    Fields({"GetVideoEngagement", "FavoriteVideo", "UnfavoriteVideo"}, {"bvid"}, {}) }

SpendingMessages == {
    Fields({"CoinVideo"}, {"bvid", "target_amount"}, {}),
    Fields({"ShareVideo"}, {"bvid", "request_id"}, {}) }

HistoryMessages == { Fields(HistoryMethods \cup {"ListMyVideoComments"}, {}, {"page_size"}) }

\* Mutant: a danmaku's time is a required field, which 0 does not set.
DanmakuMessagesTimeRequired == {
    Fields({"CreateDanmaku"}, {"bvid", "text", "time_seconds"}, {"color"}),
    Fields({"DeleteDanmaku"}, {"bvid", "danmaku_id"}, {}) }

DanmakuMessages == {
    Fields({"CreateDanmaku"}, {"bvid", "text"}, {"time_seconds", "color"}),
    Fields({"DeleteDanmaku"}, {"bvid", "danmaku_id"}, {}) }

ThreadMessages == {
    Fields({"ListVideoCommentReplies"}, {"bvid", "root_comment_id"}, {"page_size"}),
    Fields({"CreateVideoComment"}, {"bvid", "content"}, {"parent_comment_id"}) }
RootMessages == { Fields({"ListVideoComments"}, {"bvid"}, {"page_size"}) }

CommentMessages == {
    Fields({"DeleteVideoComment", "LikeVideoComment", "UnlikeVideoComment"},
           {"bvid", "comment_id"}, {}) }

OwnerMessages == {
    Fields({"SubmitVideoForReview"}, {"bvid", "title"}, {"description", "tags"}),
    Fields({"DeleteVideo", "StartVideoView"}, {"bvid"}, {}) }
StatusMessages == { Fields({"GetVideoUploadStatus"}, {"bvid"}, {}) }

ViewMessages == { Fields({"CompleteVideoView"}, {"bvid", "session_id"}, {}) }

ReviewMessages == {
    Fields({"ListAdminVideos"}, {"status"}, {"page_size"}),
    Fields({"ListPendingReviewVideos"}, {}, {"page_size"}) }

DecisionMessages == {
    Fields({"GetAdminVideo", "GetReviewVideoPlay", "ApproveVideo"}, {"bvid"}, {}) }
ReasonedMessages == {
    Fields({"RejectVideo", "TakeDownVideo", "DeleteAdminVideo"}, {"bvid", "reason"}, {}) }

ProfileMessages == {
    Fields({"GetMe", "DeleteMyAvatar"}, {}, {}),
    Fields({"GetUser"}, {"user_id"}, {}),
    Fields({"UpdateMe"}, {"display_name"}, {"bio"}),
    Fields({"UpdateMyAvatar"}, {}, {"image"}) }

CredentialMessages == {
    Fields({"Login"}, {"username", "password"}, {}),
    Fields({"Register"}, {"username", "password", "display_name"}, {}) }

TokenMessages == {
    Fields({"Logout"}, {}, {"access_token"}),
    Fields({"Refresh"}, {"refresh_token"}, {}) }

VideoMessages ==
    ListingMessages \cup SearchMessages \cup PlaybackMessages \cup LikeMessages
        \cup EngagementMessages \cup SpendingMessages \cup HistoryMessages \cup DanmakuMessages
        \cup RootMessages \cup ThreadMessages \cup CommentMessages \cup StatusMessages
        \cup OwnerMessages \cup ViewMessages \cup ReviewMessages \cup DecisionMessages
        \cup ReasonedMessages
UserMessages == ProfileMessages \cup CredentialMessages \cup TokenMessages
Messages == [op \in Operations |-> RowOf(VideoMessages \cup UserMessages, op)]

FieldsOf(op) == Messages[op].required \cup Messages[op].optional

-----------------------------------------------------------------------------
(* Routes, in the order they are registered: the first that matches the    *)
(* path and the verb handles the request. "*" stands for a path variable.  *)

Route(verb, path, op) == [verb |-> verb, path |-> path, op |-> op]

ReadingRoutes == <<
    Route("GET", <<"videos">>, "ListVideos"),
    Route("GET", <<"videos", "recommended">>, "ListRecommendedVideos"),
    Route("GET", <<"search", "videos">>, "SearchVideos"),
    Route("GET", <<"users", "*", "videos">>, "ListUserVideos"),
    Route("GET", <<"videos", "*">>, "GetVideo"),
    Route("GET", <<"videos", "*", "play">>, "GetVideoPlay") >>

ReactionRoutes == <<
    Route("POST", <<"videos", "*", "like">>, "LikeVideo"),
    Route("DELETE", <<"videos", "*", "like">>, "UnlikeVideo"),
    Route("GET", <<"videos", "*", "engagement">>, "GetVideoEngagement"),
    Route("POST", <<"videos", "*", "favorite">>, "FavoriteVideo"),
    Route("DELETE", <<"videos", "*", "favorite">>, "UnfavoriteVideo"),
    Route("POST", <<"videos", "*", "coin">>, "CoinVideo"),
    Route("POST", <<"videos", "*", "shares">>, "ShareVideo") >>

HistoryRoutes == <<
    Route("GET", <<"users", "me", "video-likes">>, "ListMyLikedVideos"),
    Route("GET", <<"users", "me", "video-favorites">>, "ListMyFavoriteVideos"),
    Route("GET", <<"users", "me", "video-coins">>, "ListMyCoinedVideos"),
    Route("GET", <<"users", "me", "watch-history">>, "ListMyWatchHistory") >>

DanmakuRoutes == <<
    Route("POST", <<"videos", "*", "danmakus">>, "CreateDanmaku"),
    Route("DELETE", <<"videos", "*", "danmakus", "*">>, "DeleteDanmaku") >>

CommentRoutes == <<
    Route("GET", <<"videos", "*", "comments">>, "ListVideoComments"),
    Route("GET", <<"videos", "*", "comments", "*", "replies">>, "ListVideoCommentReplies"),
    Route("POST", <<"videos", "*", "comments">>, "CreateVideoComment"),
    Route("DELETE", <<"videos", "*", "comments", "*">>, "DeleteVideoComment"),
    Route("POST", <<"videos", "*", "comments", "*", "like">>, "LikeVideoComment"),
    Route("DELETE", <<"videos", "*", "comments", "*", "like">>, "UnlikeVideoComment"),
    Route("GET", <<"users", "me", "video-comments">>, "ListMyVideoComments") >>

OwnerRoutes == <<
    Route("GET", <<"videos", "*", "upload-status">>, "GetVideoUploadStatus"),
    Route("POST", <<"videos", "*", "submit-review">>, "SubmitVideoForReview"),
    Route("DELETE", <<"videos", "*">>, "DeleteVideo"),
    Route("POST", <<"videos", "*", "view-sessions">>, "StartVideoView"),
    Route("POST", <<"videos", "*", "view-sessions", "*:complete">>, "CompleteVideoView") >>

AdminRoutes == <<
    Route("GET", <<"admin", "videos">>, "ListAdminVideos"),
    Route("GET", <<"admin", "videos", "reviews">>, "ListPendingReviewVideos"),
    Route("GET", <<"admin", "videos", "*">>, "GetAdminVideo"),
    Route("GET", <<"admin", "videos", "*", "play">>, "GetReviewVideoPlay"),
    Route("POST", <<"admin", "videos", "*", "approve">>, "ApproveVideo"),
    Route("POST", <<"admin", "videos", "*", "reject">>, "RejectVideo"),
    Route("POST", <<"admin", "videos", "*", "take-down">>, "TakeDownVideo"),
    Route("DELETE", <<"admin", "videos", "*">>, "DeleteAdminVideo") >>

\* Mutant: the public profile registered first takes GET /users/me.
ProfileRoutesPublicFirst == <<
    Route("GET", <<"users", "*">>, "GetUser"),
    Route("GET", <<"users", "me">>, "GetMe"),
    Route("PATCH", <<"users", "me">>, "UpdateMe"),
    Route("PUT", <<"users", "me", "avatar">>, "UpdateMyAvatar"),
    Route("DELETE", <<"users", "me", "avatar">>, "DeleteMyAvatar") >>

ProfileRoutes == <<
    Route("GET", <<"users", "me">>, "GetMe"),
    Route("PATCH", <<"users", "me">>, "UpdateMe"),
    Route("PUT", <<"users", "me", "avatar">>, "UpdateMyAvatar"),
    Route("DELETE", <<"users", "me", "avatar">>, "DeleteMyAvatar"),
    Route("GET", <<"users", "*">>, "GetUser") >>

SessionRoutes == <<
    Route("POST", <<"auth", "login">>, "Login"),
    Route("POST", <<"auth", "register">>, "Register"),
    Route("POST", <<"auth", "logout">>, "Logout"),
    Route("POST", <<"auth", "refresh">>, "Refresh") >>

UserRoutes == ProfileRoutes \o SessionRoutes

VideoRoutes ==
    ReadingRoutes \o ReactionRoutes \o HistoryRoutes \o DanmakuRoutes \o CommentRoutes
        \o OwnerRoutes \o AdminRoutes

\* The streaming upload is the one handler outside the generated tables.
Routes == VideoRoutes \o UserRoutes \o <<Route("POST", <<"videos", "upload">>, "UploadVideo")>>

\* A path variable takes any segment.
Matches(pattern, path) ==
    /\ Len(pattern) = Len(path)
    /\ \A i \in DOMAIN path : pattern[i] \in {"*", path[i]}

\* The operation a request with this verb and path is handled by.
Routed(verb, path) ==
    LET matching == {i \in DOMAIN Routes :
                        Routes[i].verb = verb /\ Matches(Routes[i].path, path)}
    IN  IF matching = {} THEN "none"
        ELSE Routes[CHOOSE i \in matching : \A j \in matching : i <= j].op

-----------------------------------------------------------------------------
(* Authentication.                                                         *)

NoIdentity == [user |-> 0, admin |-> FALSE]

\* No identity at all: the request is refused.
Bad == [user |-> -1, admin |-> FALSE]

\* What a raw token is to the parser: signed with the server's secret and
\* method by this issuer, of a kind, not expired, for a user (0 is nobody).
Tokens == [genuine : BOOLEAN, kind : {"access", "refresh"}, live : BOOLEAN,
           user : Users \cup {0}, admin : BOOLEAN]

Parses(token, kind) == token.genuine /\ token.live /\ token.kind = kind /\ token.user # 0

\* Issue signs an access and a refresh token that carry the user's role.
Issued(user, admin, kind) ==
    [genuine |-> TRUE, kind |-> kind, live |-> TRUE, user |-> user, admin |-> admin]

\* Server lets a request without a token through as nobody, one with a token
\* that parses as its user, and refuses any other.
Authenticate(bearer) ==
    IF bearer = <<>> THEN NoIdentity
    ELSE IF Parses(bearer[1], "access")
         THEN [user |-> bearer[1].user, admin |-> bearer[1].admin]
         ELSE Bad

\* RequireHTTP, in front of the upload handler, refuses a missing token too.
RequireHTTP(bearer) == IF bearer = <<>> THEN Bad ELSE Authenticate(bearer)

RequireUserID(identity) == identity.user # 0
RequireAdmin(identity) == identity.user # 0 /\ identity.admin

AdminOperation(method) ==
    /\ method[1] = "video.v1.VideoService"
    /\ method[2] \in {"ListAdminVideos", "ListPendingReviewVideos", "GetAdminVideo",
                      "GetReviewVideoPlay", "ApproveVideo", "RejectVideo",
                      "TakeDownVideo", "DeleteAdminVideo"}

-----------------------------------------------------------------------------
(* Service handlers: the checks each one makes, in their order, before it  *)
(* calls its use case. A check is "member", "admin" or a field.            *)

Checked(ops, steps) == [ops |-> ops, steps |-> steps]

\* ParseBVID, then the identity that authentication established.
AuthenticatedVideoRequest == <<"bvid", "member">>
AdministratorVideoRequest == <<"bvid", "admin">>

ReadingServices == {
    Checked({"ListVideos", "ListRecommendedVideos", "SearchVideos"}, <<>>),
    Checked({"ListUserVideos"}, <<"user_id">>),
    Checked({"GetVideo", "GetVideoPlay"}, <<"bvid">>) }

ReactionServices == {
    Checked(ReactionMethods, AuthenticatedVideoRequest),
    Checked(HistoryMethods, <<"member">>) }

CommentServices == {
    Checked({"CreateDanmaku", "DeleteDanmaku", "CreateVideoComment", "DeleteVideoComment",
             "LikeVideoComment", "UnlikeVideoComment"}, AuthenticatedVideoRequest),
    Checked({"ListVideoComments", "ListVideoCommentReplies"}, <<"bvid">>),
    Checked({"ListMyVideoComments"}, <<"member">>) }

OwnerServices == { Checked(OwnerMethods, AuthenticatedVideoRequest) }

AdminServices == {
    Checked({"ListAdminVideos"}, <<"admin", "status">>),
    Checked({"ListPendingReviewVideos"}, <<"admin">>),
    Checked({"GetAdminVideo", "GetReviewVideoPlay"}, <<"admin", "bvid">>),
    Checked({"ApproveVideo", "RejectVideo", "TakeDownVideo", "DeleteAdminVideo"},
            AdministratorVideoRequest) }

UserServices == {
    Checked({"GetUser", "Login", "Register", "Refresh"}, <<>>),
    Checked({"GetMe", "UpdateMe", "DeleteMyAvatar"}, <<"member">>),
    Checked({"UpdateMyAvatar"}, <<"member", "image">>),
    Checked({"Logout"}, <<"access_token">>) }

Services ==
    LET rows == ReadingServices \cup ReactionServices \cup CommentServices
                    \cup OwnerServices \cup AdminServices \cup UserServices
    IN  [op \in Operations |-> RowOf(rows, op).steps]

-----------------------------------------------------------------------------
(* Use cases: the checks made on what the handler passes, all of which     *)
(* must hold before the repository is called.                              *)

ReadingUsecases == {
    Checked({"ListVideos", "ListRecommendedVideos", "ListUserVideos"}, <<"page_size">>),
    Checked({"GetVideo", "GetVideoPlay"}, <<"bvid">>),
    Checked({"SearchVideos"}, <<"query", "page_size">>) }

ReactionUsecases == {
    Checked({"LikeVideo", "UnlikeVideo", "GetVideoEngagement", "FavoriteVideo",
             "UnfavoriteVideo", "GetVideoUploadStatus"}, <<"member", "bvid">>),
    Checked({"CoinVideo"}, <<"member", "bvid", "target_amount">>),
    Checked({"ShareVideo"}, <<"member", "bvid", "request_id">>),
    Checked(HistoryMethods, <<"member", "page_size">>) }

CommentUsecases == {
    Checked({"CreateDanmaku"}, <<"member", "bvid", "time_seconds", "text", "color">>),
    Checked({"DeleteDanmaku"}, <<"member", "bvid", "danmaku_id">>),
    Checked({"ListVideoComments"}, <<"bvid", "page_size">>),
    Checked({"ListVideoCommentReplies"}, <<"bvid", "root_comment_id", "page_size">>),
    Checked({"CreateVideoComment"}, <<"member", "bvid", "content">>),
    Checked({"DeleteVideoComment", "LikeVideoComment", "UnlikeVideoComment"},
            <<"member", "bvid", "comment_id">>),
    Checked({"ListMyVideoComments"}, <<"member", "page_size">>) }

ReviewUsecases == {
    Checked({"ListPendingReviewVideos"}, <<"page_size">>),
    Checked({"ListAdminVideos"}, <<"status", "page_size">>),
    Checked({"GetAdminVideo", "GetReviewVideoPlay"}, <<"bvid">>),
    Checked({"SubmitVideoForReview"}, <<"member", "bvid", "title", "description", "tags">>),
    Checked({"ApproveVideo"}, <<"member", "bvid">>),
    Checked({"RejectVideo", "TakeDownVideo", "DeleteAdminVideo"}, <<"member", "bvid", "reason">>),
    Checked({"DeleteVideo", "StartVideoView"}, <<"member", "bvid">>),
    Checked({"CompleteVideoView"}, <<"member", "bvid", "session_id">>) }

UserUsecases == {
    Checked({"GetUser"}, <<"user_id">>),
    Checked({"GetMe", "UpdateMyAvatar", "DeleteMyAvatar"}, <<"member">>),
    Checked({"UpdateMe"}, <<"member", "display_name", "bio">>),
    Checked({"Login"}, <<"username", "password">>),
    Checked({"Register"}, <<"new_username", "new_password", "display_name">>),
    Checked({"Logout"}, <<>>),
    Checked({"Refresh"}, <<"refresh_token">>) }

Usecases ==
    LET rows == ReadingUsecases \cup ReactionUsecases \cup CommentUsecases
                    \cup ReviewUsecases \cup UserUsecases
    IN  [op \in Operations |-> RowOf(rows, op).steps]

MaxPageSize == 50
DefaultPageSize == 20

Known(value) == value.n # 0
Between(length, low, high) == low <= length /\ length <= high

NormalizedPageSize(value) == IF value.n = 0 THEN DefaultPageSize ELSE value.n

\* A danmaku without a color is white.
DanmakuColor(value) ==
    IF value.n = 0 THEN [value EXCEPT !.n = 7, !.bytes = 7, !.plain = TRUE] ELSE value

ValidPageSize(value) == Between(value.n, 0, MaxPageSize)
ValidAmount(value) == Between(value.n, 1, 2)
\* Mutant: twice as long as the column of the shares table.
ValidRequestIDTooLong(value) == Between(value.bytes, 1, 128)

ValidRequestID(value) == Between(value.bytes, 1, 64)
ValidDanmaku(value) == Between(value.n, 1, 100)
ValidColor(value) == DanmakuColor(value).bytes = 7 /\ DanmakuColor(value).plain
ValidComment(value) == Between(value.n, 1, 2000)
ValidQuery(value) == Between(value.n, 1, 200)
ValidTitle(value) == Between(value.bytes, 1, 200)
ValidDescription(value) == value.bytes <= 10000
ValidTags(value) == value.n <= 12
ValidReason(value) == Between(value.n, 1, 1000)
ValidSessionID(value) == Between(value.bytes, 1, 64)
ValidDisplayName(value) == Between(value.n, 1, 100)
ValidBio(value) == value.n <= 500
ValidUsername(value) == Between(value.n, 3, 32) /\ value.plain
ValidPassword(value) == Between(value.bytes, 8, 72)

Passes(check, identity, m) ==
    CASE check = "member" -> RequireUserID(identity)
      [] check = "admin" -> RequireAdmin(identity)
      [] check = "page_size" -> ValidPageSize(m["page_size"])
      [] check = "target_amount" -> ValidAmount(m["target_amount"])
      [] check = "request_id" -> ValidRequestID(m["request_id"])
      [] check = "time_seconds" -> m["time_seconds"].n >= 0
      [] check = "text" -> ValidDanmaku(m["text"])
      [] check = "color" -> ValidColor(m["color"])
      [] check = "content" -> ValidComment(m["content"])
      [] check = "query" -> ValidQuery(m["query"])
      [] check = "title" -> ValidTitle(m["title"])
      [] check = "description" -> ValidDescription(m["description"])
      [] check = "tags" -> ValidTags(m["tags"])
      [] check = "reason" -> ValidReason(m["reason"])
      [] check = "session_id" -> ValidSessionID(m["session_id"])
      [] check = "display_name" -> ValidDisplayName(m["display_name"])
      [] check = "bio" -> ValidBio(m["bio"])
      [] check = "new_username" -> ValidUsername(m["username"])
      [] check = "new_password" -> ValidPassword(m["password"])
      [] check = "access_token" -> RequireUserID(identity) \/ Known(m["access_token"])
      [] OTHER -> Known(m[check])

-----------------------------------------------------------------------------
(* A request on its way to the repository.                                 *)

RequiredFieldsSet(op, m) == \A f \in Messages[op].required : m[f].set

Refusal(check, identity) ==
    CASE check \in {"member", "access_token", "refresh_token"} -> "unauthenticated"
      [] check = "admin" -> IF RequireUserID(identity) THEN "forbidden" ELSE "unauthenticated"
      [] OTHER -> "invalid"

\* The first check that fails answers the request.
FirstRefusal(checks, identity, m) ==
    LET failing == {i \in DOMAIN checks : ~Passes(checks[i], identity, m)}
    IN  IF failing = {} THEN "called"
        ELSE Refusal(checks[CHOOSE i \in failing : \A j \in failing : i <= j], identity)

\* Administrator selector, validator, handler, use case, in this order. Only
\* the HTTP server has the validator.
Handled(transport, identity, op, m) ==
    IF AdminOperation(FullMethod(op)) /\ ~RequireAdmin(identity)
    THEN Refusal("admin", identity)
    ELSE IF transport = "http" /\ ~RequiredFieldsSet(op, m) THEN "invalid"
    ELSE FirstRefusal(Services[op] \o Usecases[op], identity, m)

Answer(transport, bearer, op, m) ==
    LET identity == Authenticate(bearer)
    IN  IF identity = Bad THEN "unauthenticated" ELSE Handled(transport, identity, op, m)

-----------------------------------------------------------------------------
(* The upload handler reads the parts of a multipart body in order, up to  *)
(* the file. A part: its form name, whether its extension is accepted for  *)
(* it, its bytes, and how they end: whole, with a boundary behind them, or *)
(* because the body does, which is over (short), breaks off for any other  *)
(* reason (cut) or exceeds the limit of all parts together (limit). Form   *)
(* "none" is a part whose header cannot be read.                           *)

Part(form, supported, size, ends) ==
    [form |-> form, supported |-> supported, size |-> size, ends |-> ends]

\* The parts there are, and what they make up: only the last is not whole.
Parts ==
    {part \in [form : {"cover", "file", "other", "none"}, supported : BOOLEAN, size : Nat,
               ends : {"whole", "short", "cut", "limit"}] :
        part.form = "none" => part.ends # "whole"}

Body(parts) ==
    /\ parts \in Seq(Parts)
    /\ \A i \in DOMAIN parts : i < Len(parts) => parts[i].ends = "whole"

MaxCoverBytes == 1

\* At most one byte more than the limit is read; any error is an interruption.
ReadCover(part) ==
    CASE part.size > MaxCoverBytes -> "too large"
      [] part.size <= MaxCoverBytes /\ part.ends # "whole" -> "interrupted"
      [] OTHER -> "read"

Refused(answer) == [answer |-> answer, cover |-> 0]

\* NextPart, which finds no further part: io.EOF, wrapped or not, the limit
\* on the body, or any other error.
NextPart(ends) ==
    Refused(CASE ends = "short" -> "invalid"
              [] ends = "limit" -> "too large"
              [] OTHER -> "interrupted")

\* What becomes of the parts from the i-th on, with this cover read so far
\* (0 bytes: none); serve tells it of the parts after it.
ServePart(parts, i, cover, serve) ==
    IF i > Len(parts) THEN Refused("invalid")
    ELSE LET part == parts[i] IN
         CASE part.form = "none" -> NextPart(part.ends)
           [] part.form = "cover" /\ ~part.supported -> Refused("invalid")
           [] part.form = "cover" /\ part.supported /\ ReadCover(part) # "read" ->
                Refused(ReadCover(part))
           [] part.form = "cover" /\ part.supported /\ ReadCover(part) = "read" ->
                serve[i + 1][part.size]
           [] part.form = "file" /\ ~part.supported -> Refused("invalid")
           [] part.form = "file" /\ part.supported -> [answer |-> "called", cover |-> cover]
           [] OTHER -> IF part.ends = "whole" THEN serve[i + 1][cover] ELSE NextPart(part.ends)

ServeParts(parts) ==
    LET serve[i \in 1 .. Len(parts) + 1] ==
            [cover \in 0 .. MaxCoverBytes |-> ServePart(parts, i, cover, serve)]
    IN  serve[1][0]

ServeUpload(verb, bearer, parts) ==
    LET identity == RequireHTTP(bearer)
    IN  CASE identity = Bad -> Refused("unauthenticated")
          [] identity # Bad /\ verb # "POST" -> Refused("method not allowed")
          [] OTHER -> ServeParts(parts)

-----------------------------------------------------------------------------
(* What the tables hold for the calls of the repository.                   *)

\* The columns that take request fields, with their size in characters.
ColumnSize ==
    [title |-> 200, text |-> 500, color |-> 16, content |-> 2000, request_id |-> 64,
     session_id |-> 64, display_name |-> 100, bio |-> 500]

NotNull == {"title", "text", "content", "request_id", "session_id", "display_name"}

\* Compared with BIGINT columns, and written to or compared with text columns.
Identifiers == {"bvid", "user_id", "owner_id", "danmaku_id", "root_comment_id",
                "parent_comment_id", "comment_id"}
StoredTexts == {"title", "description", "tags", "text", "color", "content", "request_id",
                "session_id", "reason", "display_name", "bio", "username", "query"}

Stored(f, value) == IF f = "color" THEN DanmakuColor(value) ELSE value

\* PostgreSQL has the value at all: a BIGINT, a text or jsonb without NUL.
Representable(f, value) ==
    /\ f \in Identifiers => value.n <= 1
    /\ f \in StoredTexts => Stored(f, value).plain

-----------------------------------------------------------------------------
(* The requests the properties below range over: a message that is fine in *)
(* every field but one, which takes the values around every limit.         *)

Value(set, n, bytes) == [set |-> set, n |-> n, bytes |-> bytes, plain |-> TRUE]

Numbers == {"page_size", "target_amount", "time_seconds"}
Lengths == {0, 1, 2, 3, 7, 8, 12, 13, 21, 22, 32, 33, 64, 65, 72, 73, 100, 101, 128, 200, 201,
            500, 501, 1000, 1001, 2000, 2001, 3333, 3334, 10000, 10001}

Probed(f) ==
    IF f \in Numbers
    THEN {Value(n # 0, n, 8) : n \in {-1, 0, 1, 2, 3, 20, 50, 51}}
    ELSE IF f \in Identifiers
    THEN {Value(n # 0, n, 8) : n \in 0 .. 2} \cup {Value(TRUE, 0, 8)}
    ELSE {Value(n # 0, n, n) : n \in Lengths} \cup {Value(n # 0, n, 3 * n) : n \in Lengths}
            \cup {Value(TRUE, 0, 0)}
            \cup {[Value(TRUE, n, n) EXCEPT !.plain = FALSE] : n \in {7, 8}}

Fine(f) == CASE f \in Numbers \cup Identifiers -> Value(TRUE, 1, 1)
             [] f = "color" -> Value(TRUE, 7, 7)
             [] OTHER -> Value(TRUE, 8, 8)

Probes(op) ==
    {[f \in FieldsOf(op) |-> Fine(f)]}
    \cup UNION {{[f \in FieldsOf(op) |-> IF f = g THEN v ELSE Fine(f)] : v \in Probed(g)} :
                    g \in FieldsOf(op)}

Bearers == {<<>>} \cup {<<t>> : t \in Tokens}

WholeParts == {
    Part("cover", TRUE, 0, "whole"), Part("cover", TRUE, 1, "whole"),
    Part("cover", TRUE, 2, "whole"), Part("cover", FALSE, 1, "whole"),
    Part("other", TRUE, 1, "whole"),
    Part("file", TRUE, 1, "whole"), Part("file", FALSE, 1, "whole") }
EndingParts ==
    {Part(form, TRUE, 1, ends) : form \in {"cover", "other", "file", "none"},
                                 ends \in {"short", "cut", "limit"}}
        \cup {Part("cover", TRUE, 2, "limit")}

Bodies == {parts \in UNION {[1 .. n -> WholeParts \cup EndingParts] : n \in 0 .. 3} : Body(parts)}

-----------------------------------------------------------------------------
(* What the properties in Accounts say of one request.                     *)

\* A path a client asks for, of which a route gives the pattern.
Sample(pattern) == [j \in DOMAIN pattern |-> IF pattern[j] = "*" THEN "x" ELSE pattern[j]]

\* Every operation is reached by its own verb and path: no route registered
\* before it takes its requests (the route tables of both services, one
\* router), and every method has one route and its message.
RoutesReach ==
    /\ \A i \in DOMAIN Routes : Routed(Routes[i].verb, Sample(Routes[i].path)) = Routes[i].op
    /\ {Routes[i].op : i \in DOMAIN Routes} = Operations \cup {"UploadVideo"}
    /\ IsInjective([i \in DOMAIN Routes |-> Routes[i].op])
    /\ \A op \in Operations :
            LET rows == {row \in VideoMessages \cup UserMessages : op \in row.ops}
            IN  \E row \in rows : rows = {row}

\* The bearers whose requests are accepted over HTTP exactly when they are
\* accepted over gRPC.
Agreeing ==
    {bearer \in Bearers : \A op \in Operations : \A m \in Probes(op) :
        Answer("http", bearer, op, m) = "called" <=> Answer("grpc", bearer, op, m) = "called"}

\* The value of a field fits what it is stored in, or asked for: its type, a
\* column's size, a NOT NULL text, the check of the coin amount, a page of at
\* most 50.
Fits(op, f, value) ==
    /\ Representable(f, value)
    /\ f \in DOMAIN ColumnSize => Stored(f, value).n <= ColumnSize[f]
    /\ f \in NotNull => value.n > 0
    /\ f = "username" /\ op = "Register" => Between(value.n, 1, 64)
    /\ f = "target_amount" => value.n \in 1 .. 2
    /\ f = "page_size" => NormalizedPageSize(value) \in 1 .. MaxPageSize

\* The bearers whose requests, if they pass every check, fit the tables in all
\* but the values no check of the code looks at.
Fitting ==
    {bearer \in Bearers :
        \A transport \in {"http", "grpc"}, op \in Operations : \A m \in Probes(op) :
            Answer(transport, bearer, op, m) = "called" =>
                \A f \in FieldsOf(op) : Fits(op, f, m[f]) <=> Representable(f, m[f])}

\* A body that can be read up to its file: the first file is supported, every
\* part before it is whole, and every cover before it is supported and no
\* larger than the limit.
Readable(parts) ==
    LET files == {i \in DOMAIN parts : parts[i].form = "file"}
        first == CHOOSE i \in files : \A j \in files : i <= j
        before == {i \in DOMAIN parts : i < first}
    IN  /\ files # {}
        /\ parts[first].supported
        /\ \A i \in before :
              /\ parts[i].ends = "whole"
              /\ parts[i].form = "cover" => parts[i].supported /\ parts[i].size <= MaxCoverBytes

\* An upload begins for a known user who posts such a body, and for no other.
UploadsFit ==
    \A verb \in {"POST", "PUT"}, bearer \in Bearers, parts \in Bodies :
        ServeUpload(verb, bearer, parts).answer = "called" <=>
            /\ verb = "POST" /\ bearer # <<>> /\ Authenticate(bearer) # Bad
            /\ Readable(parts)
=============================================================================
