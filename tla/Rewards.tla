------------------------------ MODULE Rewards ------------------------------
(***************************************************************************)
(* What users give and earn: coins for videos, shares, counted views, and  *)
(* the experience that a login, a view, a share or a coin earns, with its  *)
(* limit for each source and day.                                          *)
(*                                                                         *)
(* The handlers lock the row of the video first and that of the user       *)
(* later.  An action is the part of a transaction up to the next lock it   *)
(* waits for, or to its commit; what was read in one action is used in the *)
(* next.  An inserted row locks the user it refers to FOR KEY SHARE, which *)
(* others may share, but not with a FOR UPDATE.                            *)
(*                                                                         *)
(* Requests that are refused before they have written anything change      *)
(* nothing and are left out, like the watch history.                       *)
(*                                                                         *)
(* RewardLedger says what all this amounts to.                             *)
(***************************************************************************)
EXTENDS Integers, FiniteSets, Functions

CONSTANTS
  Users, Videos,
  ShareIds,    \* request ids that clients generate
  Sessions,    \* ids of video_view_sessions, random and never used twice
  Viewer,      \* [Sessions -> Users], whose session an id becomes
  Watched,     \* [Sessions -> Videos], and of which video
  Requests,    \* requests under way at the same time
  None,        \* no request, no video
  MaxRequests, \* bound: requests in all
  Moderated,   \* bound: the videos that are taken down and published again
  CoinStart,   \* coin_balance of a new account
  PerCoin,     \* CoinExperience
  DailyLimit,  \* [Sources -> Nat], DailyLoginExperience and so on
  MinWatch,    \* minimumQualifiedWatch
  Interval,    \* viewCountInterval
  DailyViews,  \* maxDailyVideoViews
  DayLength,   \* length of a Shanghai calendar day
  MaxTime      \* bound on the clock

Sources == {"login", "watch", "share", "coin"}

ASSUME ConstantsOK ==
  /\ IsFiniteSet(Users) /\ IsFiniteSet(Videos)
  /\ IsFiniteSet(ShareIds) /\ IsFiniteSet(Sessions)
  /\ Viewer \in [Sessions -> Users] /\ Watched \in [Sessions -> Videos]
  /\ None \notin Requests \cup Videos
  /\ MaxRequests \in Nat /\ Moderated \subseteq Videos
  /\ CoinStart \in Nat /\ PerCoin \in Nat
  /\ DailyLimit \in [Sources -> Nat]
  /\ MinWatch \in Nat /\ Interval \in Nat \ {0} /\ DailyViews \in Nat \ {0}
  /\ DayLength \in Nat \ {0} /\ MaxTime \in Nat

VARIABLES
  now,        \* the clock
  published,  \* SUBSET Videos: status = 'published' AND deleted_at IS NULL
  balance,    \* [Users -> Int], users.coin_balance
  experience, \* [Users -> Nat], users.experience
  daily,      \* [Users \X Days \X Sources -> Nat], user_daily_experience
  coin,       \* [Users \X Videos -> 0..2], user_video_coins
  coinCount,  \* [Videos -> Nat]
  share,      \* SUBSET (Users \X Videos \X ShareIds), user_video_shares
  shareCount, \* [Videos -> Nat]
  started,    \* [Sessions -> Times \cup {Never}], started_at
  completed,  \* [Sessions -> Times \cup {Never}], completed_at
  counted,    \* SUBSET Sessions
  viewCount,  \* [Videos -> Nat]
  videoLock,  \* [Videos -> Requests \cup {None}], FOR UPDATE
  userLock,   \* [Users -> Requests \cup {None}], FOR UPDATE
  keyShare,   \* [Users -> SUBSET Requests], FOR KEY SHARE
  tx,         \* [Requests -> Tx], what a request has read
  sent        \* requests so far

earned == <<experience, daily>>
coins  == <<balance, coin, coinCount>>
shares == <<share, shareCount>>
views  == <<started, completed, counted, viewCount>>
vars   == <<now, published, earned, coins, shares, views, videoLock, userLock, keyShare, tx, sent>>

Never  == -1
Times  == 0..MaxTime
Day(t) == t \div DayLength
Days   == {Day(t) : t \in Times}

Idle == [op |-> "idle"]

(* What an open transaction knows.  step: what it does next, as soon as it *)
(* has the lock for it; arg: coins in all, request id or session; at: the  *)
(* time.Now() it works with; given, earnedToday, funds: what it has read.  *)
Open(op, steps, videos, args) ==
  [op : {op}, step : steps, user : Users, video : videos, arg : args,
   at : Times, given : 0..2, earnedToday : Nat, funds : Int]

Tx ==
  {Idle}
  \cup Open("coin", {"lockUser", "grant"}, Videos, 1..2)
  \cup Open("share", {"insert", "lockUser", "grant"}, Videos, ShareIds)
  \cup Open("start", {"insert"}, Videos, Sessions)
  \cup Open("watch", {"lockUser", "grant", "close"}, Videos, Sessions)
  \cup Open("login", {"lockUser", "grant"}, {None}, {None})

Init ==
  /\ now = 0
  /\ published = Videos
  /\ balance = [u \in Users |-> CoinStart]
  /\ experience = [u \in Users |-> 0]
  /\ daily = [k \in Users \X Days \X Sources |-> 0]
  /\ coin = [k \in Users \X Videos |-> 0]
  /\ coinCount = [v \in Videos |-> 0]
  /\ share = {}
  /\ shareCount = [v \in Videos |-> 0]
  /\ started = [s \in Sessions |-> Never]
  /\ completed = [s \in Sessions |-> Never]
  /\ counted = {}
  /\ viewCount = [v \in Videos |-> 0]
  /\ videoLock = [v \in Videos |-> None]
  /\ userLock = [u \in Users |-> None]
  /\ keyShare = [u \in Users |-> {}]
  /\ tx = [r \in Requests |-> Idle]
  /\ sent = 0

-----------------------------------------------------------------------------
(* Transactions and locks.                                                 *)

Begin(r, op, step, u, v, arg) ==
  /\ tx[r] = Idle
  /\ sent < MaxRequests /\ sent' = sent + 1
  /\ tx' = [tx EXCEPT ![r] =
       [op |-> op, step |-> step, user |-> u, video |-> v, arg |-> arg, at |-> now,
        given |-> IF op = "coin" THEN coin[<<u, v>>] ELSE 0,
        earnedToday |-> 0, funds |-> 0]]

At(r, op, step) == tx[r].op = op /\ tx[r].step = step

(* Commit or roll back. *)
End(r) ==
  /\ tx' = [tx EXCEPT ![r] = Idle]
  /\ videoLock' = [v \in Videos |-> IF videoLock[v] = r THEN None ELSE videoLock[v]]
  /\ userLock' = [u \in Users |-> IF userLock[u] = r THEN None ELSE userLock[u]]
  /\ keyShare' = [u \in Users |-> keyShare[u] \ {r}]

(* Seeded fault: the video is looked up without FOR UPDATE. *)
SeePublished(r, v) == v \in published /\ UNCHANGED videoLock

(* The video, if it is published, with FOR UPDATE. *)
FindPublished(r, v) ==
  /\ v \in published
  /\ videoLock[v] = None
  /\ videoLock' = [videoLock EXCEPT ![v] = r]

(* Seeded fault: the user is read without FOR UPDATE. *)
SeeUser(r) ==
  LET t  == tx[r]
      at == IF t.op = "coin" THEN now ELSE t.at IN
  /\ t.op # "idle" /\ t.step = "lockUser"
  /\ tx' = [tx EXCEPT ![r] = [t EXCEPT !.step = "grant", !.at = at,
                                       !.earnedToday = daily[<<t.user, Day(at), t.op>>],
                                       !.funds = balance[t.user]]]
  /\ UNCHANGED <<now, published, earned, coins, shares, views, videoLock, userLock, keyShare, sent>>

(* The user with FOR UPDATE, and what the transaction needs to know of it. *)
(* The handler for coins looks at the clock afterwards.                    *)
LockUser(r) ==
  LET t  == tx[r]
      at == IF t.op = "coin" THEN now ELSE t.at IN
  /\ t.op # "idle" /\ t.step = "lockUser"
  /\ userLock[t.user] = None
  /\ keyShare[t.user] \subseteq {r}
  /\ userLock' = [userLock EXCEPT ![t.user] = r]
  /\ tx' = [tx EXCEPT ![r] = [t EXCEPT !.step = "grant", !.at = at,
                                       !.earnedToday = daily[<<t.user, Day(at), t.op>>],
                                       !.funds = balance[t.user]]]
  /\ UNCHANGED <<now, published, earned, coins, shares, views, videoLock, keyShare, sent>>

(* Seeded fault: the last award of the day is not cut to what is left. *)
WholeAward(current, requested, limit) == IF limit <= current THEN 0 ELSE requested

Award(current, requested, limit) ==
  IF requested <= 0 \/ limit <= current THEN 0
  ELSE IF requested < limit - current THEN requested ELSE limit - current

(* Seeded fault: the user earns what the limit has cut off. *)
GrantRequested(t, requested) ==
  LET award == Award(t.earnedToday, requested, DailyLimit[t.op]) IN
  /\ daily' = [daily EXCEPT ![<<t.user, Day(t.at), t.op>>] = @ + award]
  /\ experience' = [experience EXCEPT ![t.user] = @ + requested]

(* grantDailyExperience, with the user's row locked. *)
Grant(t, requested) ==
  LET award == Award(t.earnedToday, requested, DailyLimit[t.op]) IN
  /\ daily' = [daily EXCEPT ![<<t.user, Day(t.at), t.op>>] = @ + award]
  /\ experience' = [experience EXCEPT ![t.user] = @ + award]

-----------------------------------------------------------------------------
(* Coins.                                                                  *)

(* Seeded fault: the row of coins is inserted before the user is locked. *)
SetCoinAmountEarly(r, u, v, amount) ==
  /\ FindPublished(r, v)
  /\ amount >= coin[<<u, v>>]
  /\ userLock[u] = None
  /\ keyShare' = [keyShare EXCEPT ![u] = @ \cup {r}]
  /\ Begin(r, "coin", "lockUser", u, v, amount)
  /\ UNCHANGED <<now, published, earned, coins, shares, views, userLock>>

SetCoinAmount(r, u, v, amount) ==
  /\ FindPublished(r, v)
  /\ amount >= coin[<<u, v>>]
  /\ Begin(r, "coin", "lockUser", u, v, amount)
  /\ UNCHANGED <<now, published, earned, coins, shares, views, userLock, keyShare>>

(* Seeded fault: the user pays the cumulative amount again. *)
WholePrice(t) == t.arg

Price(t) == t.arg - t.given

StoreCoins(r) ==
  LET t == tx[r] IN
  /\ At(r, "coin", "grant")
  /\ \/ /\ Price(t) > 0 /\ t.funds >= Price(t)
        /\ balance' = [balance EXCEPT ![t.user] = @ - Price(t)]
        /\ coin' = [coin EXCEPT ![<<t.user, t.video>>] = t.arg]
        /\ coinCount' = [coinCount EXCEPT ![t.video] = @ + Price(t)]
        /\ Grant(t, Price(t) * PerCoin)
     \/ /\ Price(t) <= 0 \/ t.funds < Price(t)
        /\ UNCHANGED <<coins, earned>>
  /\ End(r)
  /\ UNCHANGED <<now, published, shares, views, sent>>

-----------------------------------------------------------------------------
(* Shares.                                                                 *)

CreateShare(r, u, v, id) ==
  /\ FindPublished(r, v)
  /\ Begin(r, "share", "insert", u, v, id)
  /\ UNCHANGED <<now, published, earned, coins, shares, views, userLock, keyShare>>

(* Seeded fault: whether the row was created is not looked at. *)
NeverRepeats(t) == t.arg = None

(* ON CONFLICT DO NOTHING, with RowsAffected = 0. *)
Repeats(t) == <<t.user, t.video, t.arg>> \in share

InsertShare(r) ==
  LET t == tx[r] IN
  /\ At(r, "share", "insert")
  /\ \/ /\ Repeats(t)
        /\ End(r)
     \/ /\ ~Repeats(t)
        /\ userLock[t.user] = None
        /\ keyShare' = [keyShare EXCEPT ![t.user] = @ \cup {r}]
        /\ tx' = [tx EXCEPT ![r] = [t EXCEPT !.step = "lockUser", !.at = now]]
        /\ UNCHANGED <<videoLock, userLock>>
  /\ UNCHANGED <<now, published, earned, coins, shares, views, sent>>

StoreShare(r) ==
  LET t == tx[r] IN
  /\ At(r, "share", "grant")
  /\ share' = share \cup {<<t.user, t.video, t.arg>>}
  /\ shareCount' = [shareCount EXCEPT ![t.video] = @ + 1]
  /\ Grant(t, DailyLimit["share"])
  /\ End(r)
  /\ UNCHANGED <<now, published, coins, views, sent>>

-----------------------------------------------------------------------------
(* Views.                                                                  *)

(* The video is looked up outside the transaction that inserts the row. *)
StartView(r, s) ==
  /\ Watched[s] \in published
  /\ started[s] = Never
  /\ \A q \in Requests : ~(At(q, "start", "insert") /\ tx[q].arg = s)
  /\ Begin(r, "start", "insert", Viewer[s], Watched[s], s)
  /\ UNCHANGED <<now, published, earned, coins, shares, views, videoLock, userLock, keyShare>>

(* The inserted row refers to the video and the user: neither may be locked. *)
InsertSession(r) ==
  LET t == tx[r] IN
  /\ At(r, "start", "insert")
  /\ videoLock[t.video] = None /\ userLock[t.user] = None
  /\ started' = [started EXCEPT ![t.arg] = t.at]
  /\ End(r)
  /\ UNCHANGED <<now, published, earned, coins, shares, completed, counted, viewCount, sent>>

(* The counted views of the viewer and the video of a session. *)
CountedLike(s) == {x \in counted : Viewer[x] = Viewer[s] /\ Watched[x] = Watched[s]}

CountedOn(s, day) == {x \in CountedLike(s) : Day(completed[x]) = day}

(* A view at that time counts. *)
Counts(s, at) ==
  /\ Cardinality(CountedOn(s, Day(at))) < DailyViews
  /\ \A x \in CountedLike(s) : at - completed[x] >= Interval

MayComplete(s) ==
  /\ started[s] # Never /\ completed[s] = Never
  /\ now - started[s] >= MinWatch

CompleteView(r, s) ==
  /\ FindPublished(r, Watched[s])
  /\ MayComplete(s)
  /\ Begin(r, "watch", IF Counts(s, now) THEN "lockUser" ELSE "close", Viewer[s], Watched[s], s)
  /\ UNCHANGED <<now, published, earned, coins, shares, views, userLock, keyShare>>

CountView(r) ==
  LET t == tx[r] IN
  /\ At(r, "watch", "grant")
  /\ completed' = [completed EXCEPT ![t.arg] = t.at]
  /\ counted' = counted \cup {t.arg}
  /\ viewCount' = [viewCount EXCEPT ![t.video] = @ + 1]
  /\ Grant(t, DailyLimit["watch"])
  /\ End(r)
  /\ UNCHANGED <<now, published, coins, shares, started, sent>>

CloseView(r) ==
  LET t == tx[r] IN
  /\ At(r, "watch", "close")
  /\ completed' = [completed EXCEPT ![t.arg] = t.at]
  /\ End(r)
  /\ UNCHANGED <<now, published, earned, coins, shares, started, counted, viewCount, sent>>

-----------------------------------------------------------------------------
(* Logins, faults, moderation and time.                                    *)

Login(r, u) ==
  /\ Begin(r, "login", "lockUser", u, None, None)
  /\ UNCHANGED <<now, published, earned, coins, shares, views, videoLock, userLock, keyShare>>

StoreLogin(r) ==
  /\ At(r, "login", "grant")
  /\ Grant(tx[r], DailyLimit["login"])
  /\ End(r)
  /\ UNCHANGED <<now, published, coins, shares, views, sent>>

(* A failed or cancelled request, or the one PostgreSQL chooses when two   *)
(* shares of one user, each with the user's row FOR KEY SHARE, wait for    *)
(* one another to have it FOR UPDATE.                                      *)
Rollback(r) ==
  /\ tx[r] # Idle
  /\ End(r)
  /\ UNCHANGED <<now, published, earned, coins, shares, views, sent>>

Moderate(v) ==
  /\ videoLock[v] = None
  /\ published' = IF v \in published THEN published \ {v} ELSE published \cup {v}
  /\ UNCHANGED <<now, earned, coins, shares, views, videoLock, userLock, keyShare, tx, sent>>

Tick ==
  /\ now < MaxTime
  /\ now' = now + 1
  /\ UNCHANGED <<published, earned, coins, shares, views, videoLock, userLock, keyShare, tx, sent>>

Request(r) ==
  \/ \E u \in Users, v \in Videos, n \in 1..2 : SetCoinAmount(r, u, v, n)
  \/ \E u \in Users, v \in Videos, id \in ShareIds : CreateShare(r, u, v, id)
  \/ \E s \in Sessions : StartView(r, s) \/ CompleteView(r, s)
  \/ \E u \in Users : Login(r, u)

Next ==
  \/ \E r \in Requests :
       \/ Request(r) \/ LockUser(r) \/ StoreCoins(r) \/ InsertShare(r) \/ StoreShare(r)
       \/ InsertSession(r) \/ CountView(r) \/ CloseView(r) \/ StoreLogin(r) \/ Rollback(r)
  \/ \E v \in Moderated : Moderate(v)
  \/ Tick

Spec == Init /\ [][Next]_vars

-----------------------------------------------------------------------------
(* Properties.                                                             *)

TypeOK ==
  /\ now \in Times
  /\ published \subseteq Videos
  /\ balance \in [Users -> Int]
  /\ experience \in [Users -> Nat]
  /\ daily \in [Users \X Days \X Sources -> Nat]
  /\ coin \in [Users \X Videos -> 0..2]
  /\ coinCount \in [Videos -> Nat]
  /\ share \subseteq Users \X Videos \X ShareIds
  /\ shareCount \in [Videos -> Nat]
  /\ started \in [Sessions -> Times \cup {Never}]
  /\ completed \in [Sessions -> Times \cup {Never}]
  /\ counted \subseteq Sessions
  /\ viewCount \in [Videos -> Nat]
  /\ videoLock \in [Videos -> Requests \cup {None}]
  /\ userLock \in [Users -> Requests \cup {None}]
  /\ keyShare \in [Users -> SUBSET Requests]
  /\ tx \in [Requests -> Tx]
  /\ sent \in Nat

(* What a user gave and earned in all, and what a video was given. *)
GivenBy(u) == SumFunctionOnSet([v \in Videos |-> coin[<<u, v>>]], Videos)
GivenTo(v) == SumFunctionOnSet([u \in Users |-> coin[<<u, v>>]], Users)
EarnedBy(u) ==
  SumFunctionOnSet([k \in Days \X Sources |-> daily[<<u, k[1], k[2]>>]], Days \X Sources)

(* SetVideoCoinAmount: whatever a user gives to several videos at the same *)
(* time leaves the balance, no more than the balance is given, and a       *)
(* video's coin_count is what its viewers gave.                            *)
CoinsConserved ==
  /\ \A u \in Users : balance[u] >= 0 /\ balance[u] + GivenBy(u) = CoinStart
  /\ \A v \in Videos : coinCount[v] = GivenTo(v)

(* grantDailyExperience: no source earns more than its limit on a day,     *)
(* across overlapping requests and midnight.                               *)
DailyCapped ==
  \A u \in Users, d \in Days, s \in Sources : daily[<<u, d, s>>] <= DailyLimit[s]

(* users.experience is the sum of user_daily_experience. *)
ExperienceAccounted == \A u \in Users : experience[u] = EarnedBy(u)

(* CompleteVideoViewSession: two counted views of a video by one user are  *)
(* an interval apart, and there are at most so many on a day, even if the  *)
(* sessions are completed at the same time.                                *)
ViewsSpaced ==
  \A s \in counted :
    /\ \A x \in CountedLike(s) \ {s} :
         completed[s] - completed[x] >= Interval \/ completed[x] - completed[s] >= Interval
    /\ Cardinality(CountedOn(s, Day(completed[s]))) <= DailyViews

(* A share counts once however often its request id is sent, and a view    *)
(* session however often it is completed: share_count and view_count are   *)
(* the rows of CreateVideoShare and CompleteVideoViewSession.              *)
EventsCounted ==
  \A v \in Videos :
    /\ shareCount[v] = Cardinality({x \in share : x[2] = v})
    /\ viewCount[v] = Cardinality({s \in counted : Watched[s] = v})

(* Who has the user FOR UPDATE has nothing more to wait for; shares have   *)
(* it FOR KEY SHARE before that, and all but starting and logging in have  *)
(* the video.                                                              *)
LocksHeld ==
  \A r \in Requests :
    /\ \A u \in Users :
         /\ userLock[u] = r <=> tx[r].op # "idle" /\ tx[r].step = "grant" /\ tx[r].user = u
         /\ r \in keyShare[u] <=> tx[r].op = "share" /\ tx[r].step # "insert" /\ tx[r].user = u
    /\ \A v \in Videos :
         videoLock[v] = r <=> tx[r].op \in {"coin", "share", "watch"} /\ tx[r].video = v

(* What a transaction has read is as it was when it writes. *)
ReadsHold ==
  \A r \in Requests : LET t == tx[r] IN
    /\ t.op = "coin" => t.given = coin[<<t.user, t.video>>]
    /\ t.op # "idle" /\ t.step = "grant" =>
         t.earnedToday = daily[<<t.user, Day(t.at), t.op>>] /\ t.funds = balance[t.user]
    /\ t.op = "share" /\ t.step # "insert" => ~Repeats(t)
    /\ t.op = "watch" =>
         /\ t.user = Viewer[t.arg] /\ t.video = Watched[t.arg] /\ t.arg \notin counted
         /\ t.step # "close" => Counts(t.arg, t.at)

(* Request r waits for a lock of request q. *)
Blocks(q, r) ==
  LET t == tx[r] IN
  /\ q # r /\ t # Idle
  /\ \/ t.step \in {"insert", "lockUser"} /\ userLock[t.user] = q
     \/ t.step = "lockUser" /\ q \in keyShare[t.user]
     \/ t.op = "start" /\ videoLock[t.video] = q

(* Requests of which each waits for another include two shares by one      *)
(* user: a share locks the user for the inserted row first and for the     *)
(* experience afterwards.  No other order of locks can close a circle.     *)
OnlySharesDeadlock ==
  \A waiting \in (SUBSET Requests) \ {{}} :
    (\A r \in waiting : \E q \in waiting : Blocks(q, r)) =>
      \E r, q \in waiting : r # q /\ At(r, "share", "lockUser") /\ At(q, "share", "lockUser")
                              /\ tx[r].user = tx[q].user

(* RewardLedger: each handler takes effect as a whole at its commit, as if *)
(* no other request had run between its reads and its writes.              *)
Ledger == INSTANCE RewardLedger

ServedAtOnce == Ledger!Spec
=============================================================================
