------------------------------- MODULE Accounts -------------------------------
(***************************************************************************)
(* The user service behind the gateway: registration, login, refresh and   *)
(* logout with stateless tokens, the profile and the avatar, whose file    *)
(* and whose column are changed one after the other, and the rate limiter  *)
(* that counts user requests in Redis in fixed windows.                    *)
(*                                                                         *)
(* Time is a tick; counters and tokens carry the ticks they have left. The *)
(* password, the daily login experience (module Rewards) and the other     *)
(* columns of a profile than its avatar are abstracted.                    *)
(***************************************************************************)
EXTENDS Gateway

CONSTANTS
    Clients,         \* addresses requests come from
    Requests,        \* user requests served at the same time
    Images,          \* names a stored avatar can get
    Limit,           \* bucket -> requests in one window
    Window,          \* ticks of a window
    AccessTTL, RefreshTTL,
    MaxCounters      \* bound: counters live at the same time

Buckets == {"register", "login", "refresh", "profile"}

ASSUME AccountsAssumption ==
    /\ Users \cap Clients = {} /\ Users \cap {0} = {}
    /\ Limit \in [Buckets -> Nat \ {0}]
    /\ Window \in Nat \ {0}
    /\ AccessTTL \in Nat \ {0} /\ RefreshTTL \in Nat /\ AccessTTL < RefreshTTL
    /\ MaxCounters \in Nat
    /\ "" \notin Images

VARIABLES
    account,     \* account[u] = [exists, avatar]: row of users, "" is no avatar
    stored,      \* files in the avatar directory
    session,     \* session[c] = [user, access, refresh]: tokens a client keeps
    counter,     \* counter[k] = [count, left]: Redis key of a bucket and subject
    request,     \* request[r]: what a request being served does next
    admitted,    \* history: requests the limiter let through, by ticks ago
    unknown      \* history: users whose last avatar commit went unacknowledged

vars == <<account, stored, session, counter, request, admitted, unknown>>

Keys == Buckets \X (Users \cup Clients)
Ages == 0 .. Window - 1

NoSession == [user |-> 0, access |-> 0, refresh |-> 0]

\* Stages of a request: what it does next.
Stages == {"idle", "Register", "Login", "Refresh", "Logout", "store", "update", "remove"}
Idle == [stage |-> "idle", client |-> "", user |-> 0, image |-> ""]
NoCounter == [count |-> 0, left |-> 0]

TypeOK ==
    /\ account \in [Users -> [exists : BOOLEAN, avatar : Images \cup {""}]]
    /\ stored \subseteq Images
    /\ session \in [Clients -> [user : Users \cup {0}, access : 0 .. AccessTTL,
                                refresh : 0 .. RefreshTTL]]
    /\ counter \in [Keys -> [count : Nat, left : 0 .. Window]]
    /\ request \in [Requests -> [stage : Stages, client : Clients \cup {""},
                                 user : Users \cup {0}, image : Images \cup {""}]]
    /\ admitted \in [Keys -> [Ages -> Nat]]
    /\ unknown \subseteq Users

Init ==
    /\ account = [u \in Users |-> [exists |-> FALSE, avatar |-> ""]]
    /\ stored = {}
    /\ session = [c \in Clients |-> NoSession]
    /\ counter = [k \in Keys |-> NoCounter]
    /\ request = [r \in Requests |-> Idle]
    /\ admitted = [k \in Keys |-> [a \in Ages |-> 0]]
    /\ unknown = {}

-----------------------------------------------------------------------------
(* The rate limiter.                                                       *)

\* userRateRuleForOperation: every operation of the user service has a
\* bucket, no other operation does.
Bucket(op) ==
    CASE op = "Register" -> "register"
      [] op = "Login" -> "login"
      [] op = "Refresh" -> "refresh"
      [] OTHER -> "profile"

\* A profile request of a known user is counted for the user, every other
\* for the address it comes from.
Subject(op, c, identity) ==
    IF Bucket(op) = "profile" /\ RequireUserID(identity) THEN identity.user ELSE c

Key(op, c, identity) == <<Bucket(op), Subject(op, c, identity)>>

\* Mutant: every request sets the expiry.
IncrementRateLimitRenewing(k) ==
    [count |-> IF counter[k].count > Limit[k[1]] THEN counter[k].count ELSE counter[k].count + 1,
     left |-> Window]

\* INCR, with an expiry when it made the counter: one script, so one step.
\* Above the limit the count makes no difference and is kept there.
IncrementRateLimit(k) ==
    LET limit == Limit[k[1]] IN
    IF counter[k].count = 0 THEN [count |-> 1, left |-> Window]
    ELSE [counter[k] EXCEPT !.count = IF @ > limit THEN @ ELSE @ + 1]

Live(k) == counter[k].count > 0 \/ \E a \in Ages : admitted[k][a] > 0

\* Mutant: one request too many.
AllowOneMore(k, allowed) ==
    \/ allowed /\ UNCHANGED <<counter, admitted>>
    \/ /\ Cardinality({l \in Keys : Live(l)} \cup {k}) <= MaxCounters
       /\ counter' = [counter EXCEPT ![k] = IncrementRateLimit(k)]
       /\ allowed = (counter[k].count <= Limit[k[1]])
       /\ admitted' = IF allowed THEN [admitted EXCEPT ![k][0] = @ + 1] ELSE admitted

\* Allow: when Redis does not answer the call, the request passes uncounted.
Allow(k, allowed) ==
    \/ allowed /\ UNCHANGED <<counter, admitted>>
    \/ /\ Cardinality({l \in Keys : Live(l)} \cup {k}) <= MaxCounters
       /\ counter' = [counter EXCEPT ![k] = IncrementRateLimit(k)]
       /\ allowed = (counter'[k].count <= Limit[k[1]])
       /\ admitted' = IF allowed THEN [admitted EXCEPT ![k][0] = @ + 1] ELSE admitted

-----------------------------------------------------------------------------
(* A request arrives with a token its client may hold, or none.            *)

AccessToken(c) == [Issued(session[c].user, FALSE, "access") EXCEPT !.live = session[c].access > 0]
RefreshToken(c) ==
    [Issued(session[c].user, FALSE, "refresh") EXCEPT !.live = session[c].refresh > 0]

BearersOf(c) == {<<>>, <<AccessToken(c)>>, <<RefreshToken(c)>>}

\* What the handler does first, once authentication and the limiter let the
\* request through.
FirstStage(op) ==
    IF op = "UpdateMyAvatar" THEN "store"
    ELSE IF op = "DeleteMyAvatar" THEN "update" ELSE op

\* The user of a refresh is the one its token names, if it parses.
Refreshed(c) == IF Parses(RefreshToken(c), "refresh") THEN session[c].user ELSE 0

Begin(op, c, u) ==
    [stage |-> FirstStage(op), client |-> c,
     user |-> IF op = "Refresh" THEN Refreshed(c) ELSE u, image |-> ""]

\* Operations that change more here than a counter.
Acting == {"Register", "Login", "Refresh", "Logout", "UpdateMyAvatar", "DeleteMyAvatar"}

\* Who a request can come from, and what of these the administrator selector,
\* the validator, the handler and the use case let through.
Identities == {NoIdentity} \cup [user : Users, admin : {FALSE}]

Accepted ==
    {call \in UserOperations \X Identities :
        Handled("http", call[2], call[1], [f \in FieldsOf(call[1]) |-> Fine(f)]) = "called"}

\* The middlewares: authenticator, rate limiter, and what the handler checks
\* before it does anything. u is the account a credential or username names.
Receive(r, c, op, bearer, u) ==
    LET identity == Authenticate(bearer)
    IN  /\ request[r] = Idle
        /\ identity # Bad
        /\ Bucket(op) = "profile" /\ RequireUserID(identity) => u = identity.user
        /\ \E allowed \in BOOLEAN :
              /\ Allow(Key(op, c, identity), allowed)
              /\ request' = IF allowed /\ <<op, identity>> \in Accepted \cap (Acting \X Identities)
                            THEN [request EXCEPT ![r] = Begin(op, c, u)] ELSE request
        /\ UNCHANGED <<account, stored, session, unknown>>

-----------------------------------------------------------------------------
(* Sessions.                                                               *)

Finish(r) == request' = [request EXCEPT ![r] = Idle]

\* The reply with a new pair of tokens reaches its client or is lost.
IssueSession(c, u) ==
    \E delivered \in BOOLEAN :
        session' = IF delivered
                   THEN [session EXCEPT ![c] = [user |-> u, access |-> AccessTTL,
                                                refresh |-> RefreshTTL]]
                   ELSE session

\* INSERT ... ON CONFLICT DO NOTHING: the second of two registrations of a
\* name finds it taken. A commit without an acknowledgement makes the account
\* and answers with an error, which is a session that is not delivered.
Register(r) ==
    LET u == request[r].user IN
    /\ request[r].stage = "Register"
    /\ \/ /\ ~account[u].exists
          /\ account' = [account EXCEPT ![u].exists = TRUE]
          /\ IssueSession(request[r].client, u)
       \/ account[u].exists /\ UNCHANGED <<account, session>>
    /\ Finish(r)
    /\ UNCHANGED <<stored, counter, admitted, unknown>>

\* Login finds the credential and compares the password, right or wrong.
Login(r) ==
    LET u == request[r].user IN
    /\ request[r].stage = "Login"
    /\ \/ account[u].exists /\ IssueSession(request[r].client, u)
       \/ UNCHANGED session
    /\ Finish(r)
    /\ UNCHANGED <<account, stored, counter, admitted, unknown>>

\* Refresh loads the user the parsed token names and issues a new pair; the
\* old pair stays valid until it expires.
Refresh(r) ==
    LET u == request[r].user IN
    /\ request[r].stage = "Refresh"
    /\ IF u \in Users /\ account[u].exists
       THEN IssueSession(request[r].client, u) ELSE UNCHANGED session
    /\ Finish(r)
    /\ UNCHANGED <<account, stored, counter, admitted, unknown>>

\* Logout keeps no record; the client forgets its tokens, answered or not.
Logout(r) ==
    /\ request[r].stage = "Logout"
    /\ session' = [session EXCEPT ![request[r].client] = NoSession]
    /\ Finish(r)
    /\ UNCHANGED <<account, stored, counter, admitted, unknown>>

-----------------------------------------------------------------------------
(* Avatars.                                                                *)

\* Names no file has, no row names and no request holds: one of them is as
\* good as another for a new file.
FreshNames ==
    Images \ (stored \cup {account[u].avatar : u \in Users}
                  \cup {request[r].image : r \in Requests})

\* StoreAvatar publishes the image under a fresh name, or fails.
StoreAvatar(r) ==
    /\ request[r].stage = "store"
    /\ \/ /\ FreshNames # {}
          /\ LET image == CHOOSE i \in FreshNames : TRUE
             IN  /\ stored' = stored \cup {image}
                 /\ request' = [request EXCEPT ![r] =
                                   [@ EXCEPT !.stage = "update", !.image = image]]
       \/ Finish(r) /\ UNCHANGED stored
    /\ UNCHANGED <<account, session, counter, admitted, unknown>>

\* Next the request removes a file, of which "" is none.
RemoveNext(r, image) ==
    request' = [request EXCEPT ![r] = [@ EXCEPT !.stage = "remove", !.image = image]]

\* Mutant: an update that failed removes the avatar it did not replace.
UpdateUserAvatarRemovesPrevious(r) ==
    LET u == request[r].user IN
    /\ request[r].stage = "update"
    /\ \/ /\ account[u].exists
          /\ account' = [account EXCEPT ![u].avatar = request[r].image]
          /\ unknown' = unknown \ {u}
       \/ UNCHANGED <<account, unknown>>
    /\ RemoveNext(r, account[u].avatar)
    /\ UNCHANGED <<stored, session, counter, admitted>>

\* UpdateUserAvatar, under the row lock: writes the new URL and returns the
\* one it replaced. On an error the new file is removed instead, and so it
\* is when the commit went through without an acknowledgement.
UpdateUserAvatar(r) ==
    LET u == request[r].user
        image == request[r].image
        previous == account[u].avatar
    IN  /\ request[r].stage = "update"
        /\ \/ /\ account[u].exists
              /\ account' = [account EXCEPT ![u].avatar = image]
              /\ RemoveNext(r, previous)
              /\ unknown' = unknown \ {u}
           \/ /\ account[u].exists
              /\ account' = [account EXCEPT ![u].avatar = image]
              /\ RemoveNext(r, image)
              /\ unknown' = IF image = "" THEN unknown \ {u} ELSE unknown \cup {u}
           \/ /\ RemoveNext(r, image)
              /\ UNCHANGED <<account, unknown>>
        /\ UNCHANGED <<stored, session, counter, admitted>>

\* RemoveAvatar; its error is ignored.
RemoveAvatar(r) ==
    /\ request[r].stage = "remove"
    /\ stored' \in {stored \ {request[r].image}, stored}
    /\ Finish(r)
    /\ UNCHANGED <<account, session, counter, admitted, unknown>>

-----------------------------------------------------------------------------
(* The environment.                                                        *)

Less(n) == IF n = 0 THEN 0 ELSE n - 1

\* Tokens and counters run out.
Tick ==
    /\ session' = [c \in Clients |->
                      LET access == Less(session[c].access)
                          refresh == Less(session[c].refresh)
                      IN  IF refresh = 0 THEN NoSession
                          ELSE [session[c] EXCEPT !.access = access, !.refresh = refresh]]
    /\ counter' = [k \in Keys |-> IF counter[k].left <= 1 THEN NoCounter
                                  ELSE [counter[k] EXCEPT !.left = @ - 1]]
    /\ admitted' = [k \in Keys |-> [a \in Ages |-> IF a = 0 THEN 0 ELSE admitted[k][a - 1]]]
    /\ UNCHANGED <<account, stored, request, unknown>>

\* The process ends between two steps of its requests.
Crash ==
    /\ request' = [r \in Requests |-> Idle]
    /\ UNCHANGED <<account, stored, session, counter, admitted, unknown>>

Serve(r) ==
    \/ Register(r) \/ Login(r) \/ Refresh(r) \/ Logout(r)
    \/ StoreAvatar(r) \/ UpdateUserAvatar(r) \/ RemoveAvatar(r)

Arrive ==
    \E r \in Requests, c \in Clients, op \in UserOperations, u \in Users :
        \E bearer \in BearersOf(c) : Receive(r, c, op, bearer, u)

Next ==
    \/ Arrive
    \/ \E r \in Requests : Serve(r)
    \/ Tick
    \/ Crash

Spec == Init /\ [][Next]_vars

\* Time goes on, whatever the requests do.
FairSpec == Spec /\ WF_vars(Tick)

-----------------------------------------------------------------------------
(* Properties.                                                             *)

\* The bearers a request may have: those the clients keep, and any other.
Sent == Bearers \cup UNION {BearersOf(c) : c \in Clients}

\* A request that is small enough for either transport is accepted over HTTP
\* exactly when it is accepted over gRPC, whoever sends it: it reaches the
\* operation, and the validator that only the HTTP server has refuses nothing
\* the handlers and use cases would take, and they refuse all that it refuses
\* (http.go, grpc.go, the route tables). The size limits of the two servers
\* differ and are not compared.
TransportsAgree == RoutesReach /\ \A bearer \in Sent : bearer \in Agreeing

\* What reaches the repository fits it: in a call that passed every check, the
\* columns and their checks refuse no argument for its length, number or
\* absence. What they may refuse is exactly what no check looks at: an
\* identifier above 2^63 - 1, which ParseBVID and the uint64 fields let
\* through, and a text with NUL. And an upload begins exactly with a body the
\* handler can read up to its file.
CallsFitTables == UploadsFit /\ \A bearer \in Sent : bearer \in Fitting

\* The avatar a row names is in the directory: no request removes the file
\* that another one, or an update that failed, left in use. The exception is
\* a commit that was applied without an acknowledgement, after which the
\* handler removes the file in use.
AvatarServed ==
    \A u \in Users \ unknown : account[u].avatar \in stored \cup {""}

\* Requests of a subject that passed a bucket within a window up to now.
Passed(k) == SumFunctionOnSet(admitted[k], Ages)

\* As long as Redis answers, at most twice the limit of a bucket passes for
\* one subject in any window, wherever it begins: two counters can meet in it.
BudgetHolds == \A k \in Keys : Passed(k) <= 2 * Limit[k[1]]

\* A subject over its limit is let in again, however often it retries: what
\* a refused request adds to the counter does not lengthen its window.
LockoutEnds == \A k \in Keys : counter[k].count > Limit[k[1]] ~> counter[k].count = 0
=============================================================================
