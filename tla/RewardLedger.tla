---------------------------- MODULE RewardLedger ----------------------------
(***************************************************************************)
(* What the handlers for coins, shares, views and logins promise their     *)
(* users: every request happens as a whole at one moment, or not at all.   *)
(* There are no transactions and no locks here, only the tables.           *)
(*                                                                         *)
(* This is the abstract specification; Rewards implements it.              *)
(***************************************************************************)
EXTENDS Integers, FiniteSets

CONSTANTS
  Users, Videos, ShareIds, Sessions, Viewer, Watched, Moderated, CoinStart, PerCoin,
  DailyLimit, MinWatch, Interval, DailyViews, DayLength, MaxTime  \* as in Rewards

VARIABLES
  now, published,         \* the clock, and the videos that can be watched
  balance, experience,    \* users.coin_balance, users.experience
  daily,                  \* user_daily_experience
  coin, coinCount,        \* user_video_coins, and each video's sum
  share, shareCount,      \* user_video_shares, and each video's number
  started, completed,     \* video_view_sessions, Never while NULL
  counted, viewCount      \* the sessions that count, and each video's number

vars == <<now, published, balance, experience, daily, coin, coinCount, share, shareCount,
          started, completed, counted, viewCount>>

earned == <<experience, daily>>
coins  == <<balance, coin, coinCount>>
shares == <<share, shareCount>>
views  == <<started, completed, counted, viewCount>>

Never   == -1
Times   == 0..MaxTime
Day(t)  == t \div DayLength
Sources == {"login", "watch", "share", "coin"}

Init ==
  /\ now = 0 /\ published = Videos
  /\ balance = [u \in Users |-> CoinStart] /\ experience = [u \in Users |-> 0]
  /\ daily = [k \in Users \X {Day(t) : t \in Times} \X Sources |-> 0]
  /\ coin = [k \in Users \X Videos |-> 0] /\ coinCount = [v \in Videos |-> 0]
  /\ share = {} /\ shareCount = [v \in Videos |-> 0]
  /\ started = [s \in Sessions |-> Never] /\ completed = [s \in Sessions |-> Never]
  /\ counted = {} /\ viewCount = [v \in Videos |-> 0]

(* A request works with a time of its own, which has come. *)
Clock == 0..now

(* The user earns what is requested, or what the day's limit leaves of it. *)
EarnAt(u, source, at, requested) ==
  LET k == <<u, Day(at), source>> IN
  \E award \in 0..requested :
    /\ daily[k] + award <= DailyLimit[source]
    /\ award = requested \/ daily[k] + award = DailyLimit[source]
    /\ daily' = [daily EXCEPT ![k] = @ + award]
    /\ experience' = [experience EXCEPT ![u] = @ + award]

Earn(u, source, requested) == \E at \in Clock : EarnAt(u, source, at, requested)

(* The user gives a published video the coins that make it n in all. *)
Give(u, v, n) ==
  LET price == n - coin[<<u, v>>] IN
  /\ v \in published /\ price > 0 /\ price <= balance[u]
  /\ balance' = [balance EXCEPT ![u] = @ - price]
  /\ coin' = [coin EXCEPT ![<<u, v>>] = n]
  /\ coinCount' = [coinCount EXCEPT ![v] = @ + price]
  /\ UNCHANGED <<now, published, shares, views>>
  /\ Earn(u, "coin", price * PerCoin)

(* A request id shares a video once. *)
Share(u, v, id) ==
  /\ v \in published /\ <<u, v, id>> \notin share
  /\ share' = share \cup {<<u, v, id>>}
  /\ shareCount' = [shareCount EXCEPT ![v] = @ + 1]
  /\ UNCHANGED <<now, published, coins, views>>
  /\ Earn(u, "share", DailyLimit["share"])

(* The video may have been taken down since it was looked up. *)
Start(s) ==
  /\ started[s] = Never
  /\ \E at \in Clock : started' = [started EXCEPT ![s] = at]
  /\ UNCHANGED <<now, published, earned, coins, shares, completed, counted, viewCount>>

(* A view counts if the ones that count already leave room for it. *)
Counts(s, at) ==
  LET like == {x \in counted : Viewer[x] = Viewer[s] /\ Watched[x] = Watched[s]} IN
  /\ \A x \in like : at - completed[x] >= Interval
  /\ Cardinality({x \in like : Day(completed[x]) = Day(at)}) < DailyViews

(* A session is completed once, and counts or does not. *)
CompleteAt(s, at) ==
  /\ at - started[s] >= MinWatch
  /\ completed' = [completed EXCEPT ![s] = at]
  /\ \/ /\ Counts(s, at)
        /\ counted' = counted \cup {s}
        /\ viewCount' = [viewCount EXCEPT ![Watched[s]] = @ + 1]
        /\ EarnAt(Viewer[s], "watch", at, DailyLimit["watch"])
     \/ ~Counts(s, at) /\ UNCHANGED <<counted, viewCount, earned>>

Complete(s) ==
  /\ Watched[s] \in published
  /\ started[s] # Never /\ completed[s] = Never
  /\ UNCHANGED <<now, published, coins, shares, started>>
  /\ \E at \in Clock : CompleteAt(s, at)

Login(u) ==
  /\ UNCHANGED <<now, published, coins, shares, views>>
  /\ Earn(u, "login", DailyLimit["login"])

Moderate(v) ==
  /\ published' = (published \ {v}) \cup ({v} \ published)
  /\ UNCHANGED <<now, earned, coins, shares, views>>

Tick ==
  /\ now < MaxTime /\ now' = now + 1
  /\ UNCHANGED <<published, earned, coins, shares, views>>

Next ==
  \/ \E u \in Users, v \in Videos :
       (\E n \in 1..2 : Give(u, v, n)) \/ (\E id \in ShareIds : Share(u, v, id))
  \/ \E s \in Sessions : Start(s) \/ Complete(s)
  \/ \E u \in Users : Login(u)
  \/ \E v \in Moderated : Moderate(v)
  \/ Tick

Spec == Init /\ [][Next]_vars
=============================================================================
