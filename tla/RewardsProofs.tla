--------------------------- MODULE RewardsProofs ---------------------------
(***************************************************************************)
(* Proofs about Rewards: daily limits, counters, the spacing of views,     *)
(* which requests can wait for one another in a circle, and that it        *)
(* implements RewardLedger.                                                *)
(***************************************************************************)
EXTENDS Rewards, FiniteSums

-----------------------------------------------------------------------------
(* What a transaction knows, by the handler it belongs to.                 *)

CoinTx  == Open("coin", {"lockUser", "grant"}, Videos, 1..2)
ShareTx == Open("share", {"insert", "lockUser", "grant"}, Videos, ShareIds)
StartTx == Open("start", {"insert"}, Videos, Sessions)
WatchTx == Open("watch", {"lockUser", "grant", "close"}, Videos, Sessions)
LoginTx == Open("login", {"lockUser", "grant"}, {None}, {None})

LEMMA TxCases ==
  \A t \in Tx :
    /\ t.op \in {"idle", "coin", "share", "start", "watch", "login"}
    /\ t.op = "idle" => t = Idle
    /\ t.op = "coin" => t \in CoinTx
    /\ t.op = "share" => t \in ShareTx
    /\ t.op = "start" => t \in StartTx
    /\ t.op = "watch" => t \in WatchTx
    /\ t.op = "login" => t \in LoginTx
  BY DEF Tx, Open, Idle, CoinTx, ShareTx, StartTx, WatchTx, LoginTx

LEMMA TxUnion ==
  Tx = {Idle} \cup CoinTx \cup ShareTx \cup StartTx \cup WatchTx \cup LoginTx
  BY DEF Tx, CoinTx, ShareTx, StartTx, WatchTx, LoginTx

LEMMA AwardType ==
  ASSUME NEW c \in Nat, NEW q \in Int, NEW l \in Nat
  PROVE  Award(c, q, l) \in Nat /\ (c <= l => c + Award(c, q, l) <= l)
  BY DEF Award

-----------------------------------------------------------------------------
(* Types.                                                                  *)

LEMMA TypeCorrectInit == Init => TypeOK
<1> SUFFICES ASSUME Init PROVE TypeOK
  OBVIOUS
<1>1. now \in Times
  BY ConstantsOK DEF Init, Times
<1>2. tx \in [Requests -> Tx]
  BY DEF Init, Tx
<1>3. /\ videoLock \in [Videos -> Requests \cup {None}]
      /\ userLock \in [Users -> Requests \cup {None}]
      /\ keyShare \in [Users -> SUBSET Requests]
  BY DEF Init
<1>4. /\ started \in [Sessions -> Times \cup {Never}]
      /\ completed \in [Sessions -> Times \cup {Never}]
  BY DEF Init
<1>5. /\ balance \in [Users -> Int] /\ experience \in [Users -> Nat]
      /\ daily \in [Users \X Days \X Sources -> Nat]
      /\ coin \in [Users \X Videos -> 0..2]
  BY ConstantsOK DEF Init
<1>6. /\ coinCount \in [Videos -> Nat] /\ shareCount \in [Videos -> Nat]
      /\ viewCount \in [Videos -> Nat]
  BY DEF Init
<1> QED
  BY <1>1, <1>2, <1>3, <1>4, <1>5, <1>6 DEF Init, TypeOK

LEMMA EndType ==
  ASSUME TypeOK, NEW r \in Requests, End(r)
  PROVE  /\ tx' \in [Requests -> Tx]
         /\ videoLock' \in [Videos -> Requests \cup {None}]
         /\ userLock' \in [Users -> Requests \cup {None}]
         /\ keyShare' \in [Users -> SUBSET Requests]
<1>1. Idle \in Tx
  BY DEF Tx
<1> QED
  BY <1>1 DEF End, TypeOK

LEMMA GrantType ==
  ASSUME TypeOK, NEW t \in Tx, t.op \in Sources, NEW q \in Int, Grant(t, q)
  PROVE  /\ experience' \in [Users -> Nat]
         /\ daily' \in [Users \X Days \X Sources -> Nat]
<1>1. t.user \in Users /\ t.at \in Times /\ t.earnedToday \in Nat
  BY TxCases DEF Sources, CoinTx, ShareTx, WatchTx, LoginTx, Open
<1>2. DailyLimit[t.op] \in Nat
  BY ConstantsOK
<1>3. Award(t.earnedToday, q, DailyLimit[t.op]) \in Nat
  BY <1>1, <1>2, AwardType
<1>4. <<t.user, Day(t.at), t.op>> \in Users \X Days \X Sources
  BY <1>1 DEF Days
<1>5. daily' \in [Users \X Days \X Sources -> Nat]
  BY <1>3, <1>4 DEF Grant, TypeOK
<1>6. experience' \in [Users -> Nat]
  BY <1>1, <1>3 DEF Grant, TypeOK
<1> QED
  BY <1>5, <1>6

LEMMA TypeCorrectStep == TypeOK /\ [Next]_vars => TypeOK'
<1> SUFFICES ASSUME TypeOK, [Next]_vars PROVE TypeOK'
  OBVIOUS
<1>n. now \in Times
  BY DEF TypeOK
<1>1. ASSUME NEW r \in Requests, NEW u \in Users, NEW v \in Videos, NEW n \in 1..2,
             SetCoinAmount(r, u, v, n)
      PROVE  TypeOK'
  <2>1. coin[<<u, v>>] \in 0..2
    BY DEF TypeOK
  <2>2. [op |-> "coin", step |-> "lockUser", user |-> u, video |-> v, arg |-> n, at |-> now,
         given |-> coin[<<u, v>>], earnedToday |-> 0, funds |-> 0] \in CoinTx
    BY <1>n, <2>1 DEF CoinTx, Open
  <2>3. tx' \in [Requests -> Tx] /\ sent' \in Nat
    BY <1>1, <2>2, TxUnion DEF SetCoinAmount, Begin, TypeOK
  <2> QED
    BY <1>1, <2>3 DEF SetCoinAmount, FindPublished, TypeOK, earned, coins, shares, views
<1>2. ASSUME NEW r \in Requests, NEW u \in Users, NEW v \in Videos, NEW id \in ShareIds,
             CreateShare(r, u, v, id)
      PROVE  TypeOK'
  <2>1. [op |-> "share", step |-> "insert", user |-> u, video |-> v, arg |-> id, at |-> now,
         given |-> 0, earnedToday |-> 0, funds |-> 0] \in ShareTx
    BY <1>n DEF ShareTx, Open
  <2>2. tx' \in [Requests -> Tx] /\ sent' \in Nat
    BY <1>2, <2>1, TxUnion DEF CreateShare, Begin, TypeOK
  <2> QED
    BY <1>2, <2>2 DEF CreateShare, FindPublished, TypeOK, earned, coins, shares, views
<1>3. ASSUME NEW r \in Requests, NEW s \in Sessions, StartView(r, s)
      PROVE  TypeOK'
  <2>1. [op |-> "start", step |-> "insert", user |-> Viewer[s], video |-> Watched[s], arg |-> s,
         at |-> now, given |-> 0, earnedToday |-> 0, funds |-> 0] \in StartTx
    BY <1>n, ConstantsOK DEF StartTx, Open
  <2>2. tx' \in [Requests -> Tx] /\ sent' \in Nat
    BY <1>3, <2>1, TxUnion DEF StartView, Begin, TypeOK
  <2> QED
    BY <1>3, <2>2 DEF StartView, TypeOK, earned, coins, shares, views
<1>4. ASSUME NEW r \in Requests, NEW s \in Sessions, CompleteView(r, s)
      PROVE  TypeOK'
  <2>1. \A step \in {"lockUser", "close"} :
          [op |-> "watch", step |-> step, user |-> Viewer[s], video |-> Watched[s], arg |-> s,
           at |-> now, given |-> 0, earnedToday |-> 0, funds |-> 0] \in WatchTx
    BY <1>n, ConstantsOK DEF WatchTx, Open
  <2>2. tx' \in [Requests -> Tx] /\ sent' \in Nat
    BY <1>4, <2>1, TxUnion DEF CompleteView, Begin, TypeOK
  <2>3. Watched[s] \in Videos
    BY ConstantsOK
  <2> QED
    BY <1>4, <2>2, <2>3 DEF CompleteView, FindPublished, TypeOK, earned, coins, shares, views
<1>5. ASSUME NEW r \in Requests, NEW u \in Users, Login(r, u)
      PROVE  TypeOK'
  <2>1. [op |-> "login", step |-> "lockUser", user |-> u, video |-> None, arg |-> None,
         at |-> now, given |-> 0, earnedToday |-> 0, funds |-> 0] \in LoginTx
    BY <1>n DEF LoginTx, Open
  <2>2. tx' \in [Requests -> Tx] /\ sent' \in Nat
    BY <1>5, <2>1, TxUnion DEF Login, Begin, TypeOK
  <2> QED
    BY <1>5, <2>2 DEF Login, TypeOK, earned, coins, shares, views
<1>6. ASSUME NEW r \in Requests, LockUser(r) PROVE TypeOK'
  <2> DEFINE t == tx[r]
             at == IF t.op = "coin" THEN now ELSE t.at
             e == daily[<<t.user, Day(at), t.op>>]
             f == balance[t.user]
  <2>1. t \in Tx /\ t.op # "idle" /\ t.step = "lockUser"
    BY <1>6 DEF LockUser, TypeOK
  <2>2. t.op \in Sources /\ t.user \in Users /\ t.at \in Times
    BY <2>1, TxCases DEF Sources, CoinTx, ShareTx, StartTx, WatchTx, LoginTx, Open
  <2>3. at \in Times
    BY <1>n, <2>2
  <2>4. e \in Nat /\ f \in Int
    BY <2>2, <2>3 DEF TypeOK, Days
  <2>5. tx' = [tx EXCEPT ![r] = [t EXCEPT !.step = "grant", !.at = at, !.earnedToday = e, !.funds = f]]
    BY <1>6 DEF LockUser
  <2> HIDE DEF t, at, e, f
  <2>6. [t EXCEPT !.step = "grant", !.at = at, !.earnedToday = e, !.funds = f] \in Tx
    <3>1. CASE t.op = "coin"
      BY <2>1, <2>3, <2>4, <3>1, TxCases, TxUnion DEF CoinTx, Open
    <3>2. CASE t.op = "share"
      BY <2>1, <2>3, <2>4, <3>2, TxCases, TxUnion DEF ShareTx, Open
    <3>3. CASE t.op = "watch"
      BY <2>1, <2>3, <2>4, <3>3, TxCases, TxUnion DEF WatchTx, Open
    <3>4. CASE t.op = "login"
      BY <2>1, <2>3, <2>4, <3>4, TxCases, TxUnion DEF LoginTx, Open
    <3> QED
      BY <2>2, <3>1, <3>2, <3>3, <3>4 DEF Sources
  <2>7. tx' \in [Requests -> Tx]
    BY <2>5, <2>6 DEF TypeOK
  <2>8. userLock' \in [Users -> Requests \cup {None}]
    BY <1>6 DEF LockUser, TypeOK
  <2> QED
    BY <1>6, <2>7, <2>8 DEF LockUser, TypeOK, earned, coins, shares, views
<1>7. ASSUME NEW r \in Requests, StoreCoins(r) PROVE TypeOK'
  <2> DEFINE t == tx[r]
  <2>1. t \in CoinTx /\ t \in Tx /\ t.op \in Sources
    BY <1>7, TxCases DEF StoreCoins, At, TypeOK, Sources
  <2>2. /\ t.user \in Users /\ t.video \in Videos /\ t.arg \in 1..2 /\ t.funds \in Int
        /\ Price(t) \in Int
    BY <2>1 DEF CoinTx, Open, Price
  <2>5. Price(t) * PerCoin \in Int
    BY <2>2, ConstantsOK
  <2>3. CASE Price(t) > 0 /\ t.funds >= Price(t)
    <3>0. ~(Price(t) <= 0 \/ t.funds < Price(t))
      BY <2>2, <2>3
    <3>1. Grant(t, Price(t) * PerCoin)
      BY <1>7, <3>0 DEF StoreCoins
    <3>2. experience' \in [Users -> Nat] /\ daily' \in [Users \X Days \X Sources -> Nat]
      BY <2>1, <2>5, <3>1, GrantType
    <3>3. /\ balance' = [balance EXCEPT ![t.user] = @ - Price(t)]
          /\ coin' = [coin EXCEPT ![<<t.user, t.video>>] = t.arg]
          /\ coinCount' = [coinCount EXCEPT ![t.video] = @ + Price(t)]
      BY <1>7, <3>0 DEF StoreCoins
    <3> HIDE DEF t
    <3>4. balance' \in [Users -> Int] /\ coin' \in [Users \X Videos -> 0..2]
      BY <2>2, <3>3 DEF TypeOK
    <3>5. coinCount' \in [Videos -> Nat]
      BY <2>2, <2>3, <3>3 DEF TypeOK
    <3> QED
      BY <1>7, <3>2, <3>4, <3>5, EndType DEF StoreCoins, TypeOK, shares, views
  <2>4. CASE ~(Price(t) > 0 /\ t.funds >= Price(t))
    <3>1. UNCHANGED <<coins, earned>>
      BY <1>7, <2>4 DEF StoreCoins
    <3> QED
      BY <1>7, <3>1, EndType DEF StoreCoins, TypeOK, coins, earned, shares, views
  <2> QED
    BY <2>3, <2>4
<1>8. ASSUME NEW r \in Requests, InsertShare(r) PROVE TypeOK'
  <2> DEFINE t == tx[r]
  <2>1. t \in ShareTx
    BY <1>8, TxCases DEF InsertShare, At, TypeOK
  <2>2. CASE Repeats(t)
    BY <1>8, <2>2, EndType DEF InsertShare, TypeOK, earned, coins, shares, views
  <2>3. CASE ~Repeats(t)
    <3>1. [t EXCEPT !.step = "lockUser", !.at = now] \in ShareTx
      BY <1>n, <2>1 DEF ShareTx, Open
    <3>2. /\ tx' = [tx EXCEPT ![r] = [t EXCEPT !.step = "lockUser", !.at = now]]
          /\ keyShare' = [keyShare EXCEPT ![t.user] = @ \cup {r}]
          /\ UNCHANGED <<videoLock, userLock>>
      BY <1>8, <2>3 DEF InsertShare
    <3> HIDE DEF t
    <3>3. tx' \in [Requests -> Tx]
      BY <3>1, <3>2, TxUnion DEF TypeOK
    <3>4. keyShare' \in [Users -> SUBSET Requests]
      BY <3>2 DEF TypeOK
    <3> QED
      BY <1>8, <3>2, <3>3, <3>4 DEF InsertShare, TypeOK, earned, coins, shares, views
  <2> QED
    BY <2>2, <2>3
<1>9. ASSUME NEW r \in Requests, StoreShare(r) PROVE TypeOK'
  <2> DEFINE t == tx[r]
  <2>1. t \in ShareTx /\ t \in Tx /\ t.op \in Sources
    BY <1>9, TxCases DEF StoreShare, At, TypeOK, Sources
  <2>2. t.user \in Users /\ t.video \in Videos /\ t.arg \in ShareIds
    BY <2>1 DEF ShareTx, Open
  <2>3. Grant(t, DailyLimit["share"]) /\ DailyLimit["share"] \in Int
    BY <1>9, ConstantsOK DEF StoreShare, Sources
  <2>4. experience' \in [Users -> Nat] /\ daily' \in [Users \X Days \X Sources -> Nat]
    BY <2>1, <2>3, GrantType
  <2>5. share' = share \cup {<<t.user, t.video, t.arg>>}
        /\ shareCount' = [shareCount EXCEPT ![t.video] = @ + 1]
    BY <1>9 DEF StoreShare
  <2> HIDE DEF t
  <2>6. share' \subseteq Users \X Videos \X ShareIds /\ shareCount' \in [Videos -> Nat]
    BY <2>2, <2>5 DEF TypeOK
  <2> QED
    BY <1>9, <2>4, <2>6, EndType DEF StoreShare, TypeOK, coins, views
<1>10. ASSUME NEW r \in Requests, InsertSession(r) PROVE TypeOK'
  <2>1. tx[r] \in StartTx
    BY <1>10, TxCases DEF InsertSession, At, TypeOK
  <2>2. tx[r].at \in Times /\ tx[r].arg \in Sessions
    BY <2>1 DEF StartTx, Open
  <2>3. started' \in [Sessions -> Times \cup {Never}]
    BY <1>10, <2>2 DEF InsertSession, TypeOK
  <2> QED
    BY <1>10, <2>3, EndType DEF InsertSession, TypeOK, earned, coins, shares
<1>11. ASSUME NEW r \in Requests, CountView(r) PROVE TypeOK'
  <2> DEFINE t == tx[r]
  <2>1. t \in WatchTx /\ t \in Tx /\ t.op \in Sources
    BY <1>11, TxCases DEF CountView, At, TypeOK, Sources
  <2>2. t.video \in Videos /\ t.arg \in Sessions /\ t.at \in Times
    BY <2>1 DEF WatchTx, Open
  <2>3. Grant(t, DailyLimit["watch"]) /\ DailyLimit["watch"] \in Int
    BY <1>11, ConstantsOK DEF CountView, Sources
  <2>4. experience' \in [Users -> Nat] /\ daily' \in [Users \X Days \X Sources -> Nat]
    BY <2>1, <2>3, GrantType
  <2>5. /\ completed' = [completed EXCEPT ![t.arg] = t.at]
        /\ counted' = counted \cup {t.arg}
        /\ viewCount' = [viewCount EXCEPT ![t.video] = @ + 1]
    BY <1>11 DEF CountView
  <2> HIDE DEF t
  <2>6. /\ completed' \in [Sessions -> Times \cup {Never}] /\ counted' \subseteq Sessions
        /\ viewCount' \in [Videos -> Nat]
    BY <2>2, <2>5 DEF TypeOK
  <2> QED
    BY <1>11, <2>4, <2>6, EndType DEF CountView, TypeOK, coins, shares
<1>12. ASSUME NEW r \in Requests, CloseView(r) PROVE TypeOK'
  <2>1. tx[r] \in WatchTx
    BY <1>12, TxCases DEF CloseView, At, TypeOK
  <2>2. tx[r].at \in Times
    BY <2>1 DEF WatchTx, Open
  <2>3. completed' \in [Sessions -> Times \cup {Never}]
    BY <1>12, <2>2 DEF CloseView, TypeOK
  <2> QED
    BY <1>12, <2>3, EndType DEF CloseView, TypeOK, earned, coins, shares
<1>13. ASSUME NEW r \in Requests, StoreLogin(r) PROVE TypeOK'
  <2>1. tx[r] \in Tx /\ tx[r].op \in Sources
    BY <1>13 DEF StoreLogin, At, TypeOK, Sources
  <2>2. Grant(tx[r], DailyLimit["login"]) /\ DailyLimit["login"] \in Int
    BY <1>13, ConstantsOK DEF StoreLogin, Sources
  <2>3. experience' \in [Users -> Nat] /\ daily' \in [Users \X Days \X Sources -> Nat]
    BY <2>1, <2>2, GrantType
  <2> QED
    BY <1>13, <2>3, EndType DEF StoreLogin, TypeOK, coins, shares, views
<1>14. ASSUME NEW r \in Requests, Rollback(r) PROVE TypeOK'
  BY <1>14, EndType DEF Rollback, TypeOK, earned, coins, shares, views
<1>15. ASSUME NEW v \in Moderated, Moderate(v) PROVE TypeOK'
  BY <1>15, ConstantsOK DEF Moderate, TypeOK, earned, coins, shares, views
<1>16. ASSUME Tick PROVE TypeOK'
  BY <1>16, ConstantsOK DEF Tick, TypeOK, Times, earned, coins, shares, views
<1>17. ASSUME UNCHANGED vars PROVE TypeOK'
  BY <1>17 DEF vars, TypeOK, earned, coins, shares, views
<1> QED
  BY <1>1, <1>2, <1>3, <1>4, <1>5, <1>6, <1>7, <1>8, <1>9, <1>10, <1>11, <1>12,
     <1>13, <1>14, <1>15, <1>16, <1>17 DEF Next, Request

(* The tables, the locks and what the transactions know keep their types. *)
THEOREM TypeCorrect == Spec => []TypeOK
  BY TypeCorrectInit, TypeCorrectStep, PTL DEF Spec

-----------------------------------------------------------------------------
(* Locks.                                                                  *)

LEMMA LocksInit == Init => LocksHeld
  BY ConstantsOK DEF Init, LocksHeld, Idle

LEMMA LocksEnded ==
  ASSUME TypeOK, LocksHeld, NEW r \in Requests, End(r)
  PROVE  LocksHeld'
<1> SUFFICES ASSUME NEW q \in Requests
             PROVE  /\ \A u \in Users :
                         /\ userLock'[u] = q <=> tx'[q].op # "idle" /\ tx'[q].step = "grant" /\ tx'[q].user = u
                         /\ q \in keyShare'[u] <=> tx'[q].op = "share" /\ tx'[q].step # "insert" /\ tx'[q].user = u
                    /\ \A v \in Videos :
                         videoLock'[v] = q <=> tx'[q].op \in {"coin", "share", "watch"} /\ tx'[q].video = v
  BY DEF LocksHeld
<1>1. CASE q = r
  BY <1>1, ConstantsOK DEF End, TypeOK, Idle
<1>2. CASE q # r
  <2>1. tx'[q] = tx[q]
    BY <1>2 DEF End, TypeOK
  <2>2. \A u \in Users : (userLock'[u] = q <=> userLock[u] = q) /\ (q \in keyShare'[u] <=> q \in keyShare[u])
    BY <1>2, ConstantsOK DEF End, TypeOK
  <2>3. \A v \in Videos : videoLock'[v] = q <=> videoLock[v] = q
    BY <1>2, ConstantsOK DEF End, TypeOK
  <2> QED
    BY <2>1, <2>2, <2>3 DEF LocksHeld
<1> QED
  BY <1>1, <1>2

(* A new request, with the lock of the video or without. *)
LEMMA LocksBegun ==
  ASSUME TypeOK, LocksHeld, NEW r \in Requests, NEW op, NEW step, NEW u, NEW v, NEW arg,
         Begin(r, op, step, u, v, arg), step # "grant", op # "idle",
         op = "share" => step = "insert",
         UNCHANGED <<userLock, keyShare>>,
         \/ op \in {"coin", "share", "watch"} /\ v \in Videos /\ FindPublished(r, v)
         \/ op \notin {"coin", "share", "watch"} /\ UNCHANGED videoLock
  PROVE  LocksHeld'
<1> SUFFICES ASSUME NEW q \in Requests
             PROVE  /\ \A w \in Users :
                         /\ userLock[w] = q <=> tx'[q].op # "idle" /\ tx'[q].step = "grant" /\ tx'[q].user = w
                         /\ q \in keyShare[w] <=> tx'[q].op = "share" /\ tx'[q].step # "insert" /\ tx'[q].user = w
                    /\ \A w \in Videos :
                         videoLock'[w] = q <=> tx'[q].op \in {"coin", "share", "watch"} /\ tx'[q].video = w
  BY DEF LocksHeld
<1>1. CASE q = r
  <2>1. tx[r].op = "idle"
    BY DEF Begin, Idle
  <2>2. /\ tx'[r].op = op /\ tx'[r].step = step /\ tx'[r].video = v
    BY DEF Begin, TypeOK
  <2>3. \A w \in Users : userLock[w] # r /\ r \notin keyShare[w]
    BY <2>1 DEF LocksHeld
  <2>4. \A w \in Videos : videoLock[w] # r
    BY <2>1 DEF LocksHeld
  <2>5. \A w \in Videos : videoLock'[w] = r <=> op \in {"coin", "share", "watch"} /\ v = w
    BY <2>4 DEF FindPublished, TypeOK
  <2> QED
    BY <1>1, <2>2, <2>3, <2>5
<1>2. CASE q # r
  <2>1. tx'[q] = tx[q]
    BY <1>2 DEF Begin, TypeOK
  <2>2. \A w \in Videos : videoLock'[w] = q <=> videoLock[w] = q
    BY <1>2, ConstantsOK DEF FindPublished, TypeOK
  <2> QED
    BY <2>1, <2>2 DEF LocksHeld
<1> QED
  BY <1>1, <1>2

LEMMA LocksStep == TypeOK /\ LocksHeld /\ [Next]_vars => LocksHeld'
<1> SUFFICES ASSUME TypeOK, LocksHeld, [Next]_vars PROVE LocksHeld'
  OBVIOUS
<1>1. ASSUME NEW r \in Requests, NEW u \in Users, NEW v \in Videos, NEW n \in 1..2,
             SetCoinAmount(r, u, v, n)
      PROVE  LocksHeld'
  BY <1>1, LocksBegun DEF SetCoinAmount
<1>2. ASSUME NEW r \in Requests, NEW u \in Users, NEW v \in Videos, NEW id \in ShareIds,
             CreateShare(r, u, v, id)
      PROVE  LocksHeld'
  BY <1>2, LocksBegun DEF CreateShare
<1>3. ASSUME NEW r \in Requests, NEW s \in Sessions, StartView(r, s)
      PROVE  LocksHeld'
  BY <1>3, LocksBegun DEF StartView
<1>4. ASSUME NEW r \in Requests, NEW s \in Sessions, CompleteView(r, s)
      PROVE  LocksHeld'
  <2>1. Watched[s] \in Videos
    BY ConstantsOK
  <2>2. CASE Counts(s, now)
    <3>1. Begin(r, "watch", "lockUser", Viewer[s], Watched[s], s)
      BY <1>4, <2>2 DEF CompleteView
    <3> QED
      BY <1>4, <2>1, <3>1, LocksBegun DEF CompleteView
  <2>3. CASE ~Counts(s, now)
    <3>1. Begin(r, "watch", "close", Viewer[s], Watched[s], s)
      BY <1>4, <2>3 DEF CompleteView
    <3> QED
      BY <1>4, <2>1, <3>1, LocksBegun DEF CompleteView
  <2> QED
    BY <2>2, <2>3
<1>5. ASSUME NEW r \in Requests, NEW u \in Users, Login(r, u)
      PROVE  LocksHeld'
  BY <1>5, LocksBegun DEF Login
<1>6. ASSUME NEW r \in Requests, LockUser(r) PROVE LocksHeld'
  <2>1. /\ tx[r].op \in Sources /\ tx[r].step = "lockUser" /\ tx[r].user \in Users
    BY <1>6, TxCases DEF LockUser, TypeOK, Sources, CoinTx, ShareTx, StartTx, WatchTx, LoginTx, Open
  <2>2. /\ tx'[r].op = tx[r].op /\ tx'[r].step = "grant"
        /\ tx'[r].user = tx[r].user /\ tx'[r].video = tx[r].video
    <3>1. tx[r] \in CoinTx \cup ShareTx \cup WatchTx \cup LoginTx
      BY <2>1, TxCases DEF TypeOK, Sources
    <3> QED
      BY <1>6, <3>1 DEF LockUser, TypeOK, CoinTx, ShareTx, WatchTx, LoginTx, Open
  <2>3. \A q \in Requests \ {r} : tx'[q] = tx[q]
    BY <1>6 DEF LockUser, TypeOK
  <2>4. /\ userLock[tx[r].user] = None
        /\ userLock' = [userLock EXCEPT ![tx[r].user] = r]
        /\ UNCHANGED <<videoLock, keyShare>>
    BY <1>6 DEF LockUser
  <2>5. \A u \in Users : userLock[u] # r
    BY <2>1 DEF LocksHeld
  <2>6. ASSUME NEW q \in Requests, NEW u \in Users
        PROVE  userLock'[u] = q <=> tx'[q].op # "idle" /\ tx'[q].step = "grant" /\ tx'[q].user = u
    <3>1. CASE q = r
      BY <2>1, <2>2, <2>4, <2>5, <3>1 DEF TypeOK, Sources
    <3>2. CASE q # r
      BY <2>1, <2>3, <2>4, <3>2, ConstantsOK DEF TypeOK, LocksHeld
    <3> QED
      BY <3>1, <3>2
  <2>7. ASSUME NEW q \in Requests
        PROVE  /\ \A u \in Users : q \in keyShare'[u] <=> tx'[q].op = "share" /\ tx'[q].step # "insert" /\ tx'[q].user = u
               /\ \A v \in Videos : videoLock'[v] = q <=> tx'[q].op \in {"coin", "share", "watch"} /\ tx'[q].video = v
    BY <2>1, <2>2, <2>3, <2>4 DEF LocksHeld
  <2> QED
    BY <2>6, <2>7 DEF LocksHeld
<1>7. ASSUME NEW r \in Requests, InsertShare(r) PROVE LocksHeld'
  <2>1. CASE Repeats(tx[r])
    BY <1>7, <2>1, LocksEnded DEF InsertShare
  <2>2. CASE ~Repeats(tx[r])
    <3>1. tx[r] \in ShareTx /\ tx[r].op = "share" /\ tx[r].step = "insert"
      BY <1>7, TxCases DEF InsertShare, At, TypeOK
    <3>2. /\ tx' = [tx EXCEPT ![r] = [tx[r] EXCEPT !.step = "lockUser", !.at = now]]
          /\ keyShare' = [keyShare EXCEPT ![tx[r].user] = @ \cup {r}]
          /\ UNCHANGED <<videoLock, userLock>>
      BY <1>7, <2>2 DEF InsertShare
    <3>3. /\ tx'[r].op = "share" /\ tx'[r].step = "lockUser"
          /\ tx'[r].user = tx[r].user /\ tx'[r].video = tx[r].video /\ tx[r].user \in Users
      BY <3>1, <3>2 DEF TypeOK, ShareTx, Open
    <3>4. \A q \in Requests \ {r} : tx'[q] = tx[q]
      BY <3>2 DEF TypeOK
    <3>5. ASSUME NEW q \in Requests, NEW u \in Users
          PROVE  q \in keyShare'[u] <=> tx'[q].op = "share" /\ tx'[q].step # "insert" /\ tx'[q].user = u
      <4>1. CASE q = r
        BY <3>1, <3>2, <3>3, <4>1 DEF TypeOK, LocksHeld
      <4>2. CASE q # r
        BY <3>2, <3>4, <4>2 DEF TypeOK, LocksHeld
      <4> QED
        BY <4>1, <4>2
    <3>6. ASSUME NEW q \in Requests
          PROVE  /\ \A u \in Users : userLock'[u] = q <=> tx'[q].op # "idle" /\ tx'[q].step = "grant" /\ tx'[q].user = u
                 /\ \A v \in Videos : videoLock'[v] = q <=> tx'[q].op \in {"coin", "share", "watch"} /\ tx'[q].video = v
      BY <3>1, <3>2, <3>3, <3>4 DEF LocksHeld
    <3> QED
      BY <3>5, <3>6 DEF LocksHeld
  <2> QED
    BY <2>1, <2>2
<1>8. ASSUME NEW r \in Requests,
             \/ StoreCoins(r) \/ StoreShare(r) \/ InsertSession(r) \/ CountView(r)
             \/ CloseView(r) \/ StoreLogin(r) \/ Rollback(r)
      PROVE  LocksHeld'
  BY <1>8, LocksEnded
     DEF StoreCoins, StoreShare, InsertSession, CountView, CloseView, StoreLogin, Rollback
<1>9. ASSUME UNCHANGED <<videoLock, userLock, keyShare, tx>> PROVE LocksHeld'
  BY <1>9 DEF LocksHeld
<1> QED
  BY <1>1, <1>2, <1>3, <1>4, <1>5, <1>6, <1>7, <1>8, <1>9 DEF Next, Request, Moderate, Tick, vars

(* Requests that wait for one another in a circle include two shares by one *)
(* user, each with the user's row FOR KEY SHARE.                            *)
LEMMA NoOtherCircle == TypeOK /\ LocksHeld => OnlySharesDeadlock
<1> SUFFICES ASSUME TypeOK, LocksHeld, NEW waiting \in (SUBSET Requests) \ {{}},
                    \A r \in waiting : \E q \in waiting : Blocks(q, r)
             PROVE  \E r, q \in waiting : r # q /\ At(r, "share", "lockUser") /\ At(q, "share", "lockUser")
                                          /\ tx[r].user = tx[q].user
  BY DEF OnlySharesDeadlock
<1> DEFINE Keeper(r) == At(r, "share", "lockUser")
<1>1. ASSUME NEW r \in waiting
      PROVE  /\ tx[r].op # "idle" /\ tx[r].user \in Users /\ tx[r].step # "grant"
             /\ tx[r].op = "start" => tx[r].step = "insert" /\ tx[r].video \in Videos
             /\ tx[r].op \in {"coin", "share", "watch", "start", "login"}
             /\ tx[r].step = "insert" => tx[r].op \in {"share", "start"}
  <2>1. PICK q \in waiting : Blocks(q, r)
    OBVIOUS
  <2>2. tx[r] \in Tx
    BY DEF TypeOK
  <2> QED
    BY <2>1, <2>2, TxCases DEF Blocks, CoinTx, ShareTx, StartTx, WatchTx, LoginTx, Open, Idle
<1>2. ASSUME NEW r \in waiting, NEW q \in waiting, Blocks(q, r)
      PROVE  \/ tx[r].step = "lockUser" /\ Keeper(q) /\ tx[q].user = tx[r].user
             \/ tx[r].op = "start" /\ tx[q].op \in {"coin", "share", "watch"}
  <2>1. userLock[tx[r].user] # q
    BY <1>1 DEF LocksHeld
  <2>2. CASE tx[r].step = "lockUser" /\ q \in keyShare[tx[r].user]
    BY <1>1, <2>2, TxCases DEF LocksHeld, At, TypeOK, ShareTx, Open
  <2>3. CASE tx[r].op = "start" /\ videoLock[tx[r].video] = q
    BY <1>1, <2>3 DEF LocksHeld
  <2> QED
    BY <1>2, <2>1, <2>2, <2>3 DEF Blocks
(* Somebody in the circle waits for the user's row of a share ... *)
<1>3. \E r, q \in waiting : tx[r].step = "lockUser" /\ Keeper(q)
  <2>1. PICK r \in waiting, q \in waiting : Blocks(q, r)
    OBVIOUS
  <2>2. CASE tx[r].step = "lockUser" /\ Keeper(q)
    BY <2>2
  <2>3. CASE tx[r].op = "start" /\ tx[q].op \in {"coin", "share", "watch"}
    <3>1. PICK p \in waiting : Blocks(p, q)
      OBVIOUS
    <3>2. tx[q].op # "start"
      BY <2>3
    <3> QED
      BY <1>2, <3>1, <3>2
  <2> QED
    BY <1>2, <2>1, <2>2, <2>3
<1>4. PICK q \in waiting : Keeper(q)
  BY <1>3
(* ... and that share waits for another one by the same user. *)
<1>5. PICK p \in waiting : Blocks(p, q)
  OBVIOUS
<1>6. Keeper(p) /\ tx[p].user = tx[q].user /\ p # q
  <2>1. p # q
    BY <1>5 DEF Blocks
  <2>2. tx[q].op # "start"
    BY <1>4 DEF At
  <2> QED
    BY <1>2, <1>5, <2>1, <2>2
<1> QED
  BY <1>4, <1>6

(* Whatever requests overlap, only shares by one user can wait for one     *)
(* another in a circle.                                                    *)
THEOREM CirclesAreShares == Spec => []OnlySharesDeadlock
<1>1. Init => TypeOK /\ LocksHeld
  BY TypeCorrectInit, LocksInit
<1>2. TypeOK /\ LocksHeld /\ [Next]_vars => (TypeOK /\ LocksHeld)'
  BY TypeCorrectStep, LocksStep
<1> QED
  BY <1>1, <1>2, NoOtherCircle, PTL DEF Spec

-----------------------------------------------------------------------------
(* What a transaction has read.  Its locks keep the others away from what  *)
(* it has read until it writes: they write under locks of their own.       *)

ReadsOf(t) ==
  /\ t.op = "coin" => t.given = coin[<<t.user, t.video>>]
  /\ t.op # "idle" /\ t.step = "grant" =>
       t.earnedToday = daily[<<t.user, Day(t.at), t.op>>] /\ t.funds = balance[t.user]
  /\ t.op = "share" /\ t.step # "insert" => ~Repeats(t)
  /\ t.op = "watch" =>
       /\ t.user = Viewer[t.arg] /\ t.video = Watched[t.arg] /\ t.arg \notin counted
       /\ t.step # "close" => Counts(t.arg, t.at)

(* A counted view is completed; what is counted is finite. *)
CountedDone ==
  /\ \A s \in counted : completed[s] # Never
  /\ IsFiniteSet(share) /\ IsFiniteSet(counted)

WritesLocked(r) ==
  /\ \A u \in Users, v \in Videos : coin'[<<u, v>>] = coin[<<u, v>>] \/ videoLock[v] = r
  /\ \A u \in Users, d \in Days, s \in Sources :
       daily'[<<u, d, s>>] = daily[<<u, d, s>>] \/ userLock[u] = r
  /\ \A u \in Users : balance'[u] = balance[u] \/ userLock[u] = r
  /\ \A u \in Users, v \in Videos, id \in ShareIds :
       <<u, v, id>> \in share' => <<u, v, id>> \in share \/ videoLock[v] = r
  /\ \A s \in counted' : s \in Sessions /\ (s \in counted \/ videoLock[Watched[s]] = r)
  /\ \A s \in counted : s \in counted' /\ completed'[s] = completed[s]

LEMMA CountsKept ==
  ASSUME TypeOK, NEW s \in Sessions, NEW at,
         \A x \in counted' : Watched[x] = Watched[s] => x \in counted,
         \A x \in counted : x \in counted' /\ completed'[x] = completed[x]
  PROVE  Counts(s, at)' <=> Counts(s, at)
<1>1. CountedLike(s)' = CountedLike(s)
  BY DEF CountedLike
<1>2. CountedOn(s, Day(at))' = CountedOn(s, Day(at))
  BY <1>1 DEF CountedOn, CountedLike
<1>3. \A x \in CountedLike(s) : completed'[x] = completed[x]
  BY DEF CountedLike
<1> QED
  BY <1>1, <1>2, <1>3 DEF Counts

LEMMA OthersRead ==
  ASSUME TypeOK, LocksHeld, ReadsHold, NEW r \in Requests, WritesLocked(r),
         NEW q \in Requests, q # r, tx'[q] = tx[q]
  PROVE  ReadsOf(tx[q])'
<1>0. tx[q] \in Tx
  BY DEF TypeOK
<1>1. ReadsOf(tx[q])
  BY DEF ReadsHold, ReadsOf
<1>2. ASSUME tx[q].op = "coin"
      PROVE  tx[q].given = coin'[<<tx[q].user, tx[q].video>>]
  <2>1. tx[q].user \in Users /\ tx[q].video \in Videos
    BY <1>0, <1>2, TxCases DEF CoinTx, Open
  <2>2. videoLock[tx[q].video] # r
    BY <1>2, <2>1 DEF LocksHeld
  <2> QED
    BY <1>1, <1>2, <2>1, <2>2 DEF WritesLocked, ReadsOf
<1>3. ASSUME tx[q].op # "idle", tx[q].step = "grant"
      PROVE  /\ tx[q].earnedToday = daily'[<<tx[q].user, Day(tx[q].at), tx[q].op>>]
             /\ tx[q].funds = balance'[tx[q].user]
  <2>1. /\ tx[q].user \in Users /\ tx[q].at \in Times /\ tx[q].op \in Sources
    BY <1>0, <1>3, TxCases DEF CoinTx, ShareTx, WatchTx, LoginTx, StartTx, Open, Sources
  <2>2. Day(tx[q].at) \in Days
    BY <2>1 DEF Days
  <2>3. userLock[tx[q].user] # r
    BY <1>3, <2>1 DEF LocksHeld
  <2> QED
    BY <1>1, <1>3, <2>1, <2>2, <2>3 DEF WritesLocked, ReadsOf
<1>4. ASSUME tx[q].op = "share", tx[q].step # "insert"
      PROVE  <<tx[q].user, tx[q].video, tx[q].arg>> \notin share'
  <2>1. tx[q].user \in Users /\ tx[q].video \in Videos /\ tx[q].arg \in ShareIds
    BY <1>0, <1>4, TxCases DEF ShareTx, Open
  <2>2. videoLock[tx[q].video] # r
    BY <1>4, <2>1 DEF LocksHeld
  <2> QED
    BY <1>1, <1>4, <2>1, <2>2 DEF WritesLocked, ReadsOf, Repeats
<1>5. ASSUME tx[q].op = "watch"
      PROVE  /\ tx[q].user = Viewer[tx[q].arg] /\ tx[q].video = Watched[tx[q].arg]
             /\ tx[q].arg \notin counted'
             /\ tx[q].step # "close" => Counts(tx[q].arg, tx[q].at)'
  <2>1. tx[q].video \in Videos /\ tx[q].arg \in Sessions
    BY <1>0, <1>5, TxCases DEF WatchTx, Open
  <2>2. videoLock[tx[q].video] # r
    BY <1>5, <2>1 DEF LocksHeld
  <2>3. tx[q].user = Viewer[tx[q].arg] /\ tx[q].video = Watched[tx[q].arg] /\ tx[q].arg \notin counted
    BY <1>1, <1>5 DEF ReadsOf
  <2>4. tx[q].arg \notin counted'
    BY <2>1, <2>2, <2>3 DEF WritesLocked
  <2>5. ASSUME tx[q].step # "close"
        PROVE  Counts(tx[q].arg, tx[q].at)'
    <3>1. Counts(tx[q].arg, tx[q].at)
      BY <1>1, <1>5, <2>5 DEF ReadsOf
    <3>2. \A s, a : s = tx[q].arg /\ a = tx[q].at => Counts(s, a)'
      <4> SUFFICES ASSUME NEW s, NEW a, s = tx[q].arg, a = tx[q].at PROVE Counts(s, a)'
        OBVIOUS
      <4>1. s \in Sessions /\ Counts(s, a) /\ Watched[s] = tx[q].video
        BY <2>1, <2>3, <3>1
      <4>2. \A x \in counted : x \in counted' /\ completed'[x] = completed[x]
        BY DEF WritesLocked
      <4>3. \A x \in counted' : Watched[x] = Watched[s] => x \in counted
        <5>1. counted' \subseteq Sessions
          BY DEF WritesLocked
        <5> QED
          BY <2>2, <4>1, <5>1 DEF WritesLocked
      <4> QED
        BY <4>1, <4>2, <4>3, CountsKept
    <3> QED
      BY <3>2
  <2> QED
    BY <2>3, <2>4, <2>5
<1> QED
  BY <1>2, <1>3, <1>4, <1>5 DEF ReadsOf, Repeats

LEMMA ReadsFrom ==
  ASSUME TypeOK, LocksHeld, ReadsHold, NEW r \in Requests, WritesLocked(r),
         \A q \in Requests \ {r} : tx'[q] = tx[q], ReadsOf(tx[r])'
  PROVE  ReadsHold'
<1>1. ASSUME NEW q \in Requests PROVE ReadsOf(tx[q])'
  BY <1>1, OthersRead
<1> QED
  BY <1>1 DEF ReadsHold, ReadsOf

LEMMA NoWrite ==
  ASSUME TypeOK, NEW r, UNCHANGED <<earned, coins, shares, counted, completed>>
  PROVE  WritesLocked(r)
  BY DEF TypeOK, WritesLocked, earned, coins, shares

LEMMA ReadsEnded ==
  ASSUME TypeOK, LocksHeld, ReadsHold, NEW r \in Requests, End(r), WritesLocked(r)
  PROVE  ReadsHold'
<1>1. \A q \in Requests \ {r} : tx'[q] = tx[q]
  BY DEF End, TypeOK
<1>2. tx'[r].op = "idle"
  BY DEF End, TypeOK, Idle
<1>3. ReadsOf(tx[r])'
  BY <1>2 DEF ReadsOf
<1> QED
  BY <1>1, <1>3, ReadsFrom

LEMMA GrantLocked ==
  ASSUME TypeOK, LocksHeld, NEW r \in Requests, tx[r].op \in Sources, tx[r].step = "grant",
         NEW q \in Int, Grant(tx[r], q)
  PROVE  /\ \A u \in Users, d \in Days, s \in Sources :
              daily'[<<u, d, s>>] = daily[<<u, d, s>>] \/ userLock[u] = r
         /\ userLock[tx[r].user] = r
<1>1. tx[r] \in Tx
  BY DEF TypeOK
<1>2. tx[r].user \in Users /\ tx[r].op # "idle"
  BY <1>1, TxCases DEF CoinTx, ShareTx, WatchTx, LoginTx, Open, Sources
<1>3. userLock[tx[r].user] = r
  BY <1>2 DEF LocksHeld
<1>4. daily' = [daily EXCEPT ![<<tx[r].user, Day(tx[r].at), tx[r].op>>] =
                  @ + Award(tx[r].earnedToday, q, DailyLimit[tx[r].op])]
  BY DEF Grant
<1>5. ASSUME NEW u \in Users, NEW d \in Days, NEW s \in Sources,
             daily'[<<u, d, s>>] # daily[<<u, d, s>>]
      PROVE  userLock[u] = r
  <2>1. <<u, d, s>> = <<tx[r].user, Day(tx[r].at), tx[r].op>>
    BY <1>4, <1>5 DEF TypeOK
  <2> QED
    BY <1>3, <2>1
<1> QED
  BY <1>3, <1>5

(* Each handler writes under its own locks. *)
LEMMA WritesAreLocked ==
  ASSUME TypeOK, LocksHeld, ReadsHold, CountedDone, NEW r \in Requests,
         \/ StoreCoins(r) \/ StoreShare(r) \/ InsertSession(r) \/ CountView(r)
         \/ CloseView(r) \/ StoreLogin(r) \/ Rollback(r)
  PROVE  WritesLocked(r) /\ End(r)
<1>1. ASSUME StoreCoins(r) PROVE WritesLocked(r) /\ End(r)
  <2> DEFINE t == tx[r]
  <2>1. t \in CoinTx /\ t.op \in Sources /\ t.step = "grant" /\ t.op = "coin"
    BY <1>1, TxCases DEF StoreCoins, At, TypeOK, Sources
  <2>2. t.user \in Users /\ t.video \in Videos /\ t.arg \in 1..2 /\ t.given \in 0..2
    BY <2>1 DEF CoinTx, Open
  <2>3. videoLock[t.video] = r
    BY <2>1, <2>2 DEF LocksHeld
  <2>4. CASE UNCHANGED <<coins, earned>>
    BY <1>1, <2>4, NoWrite DEF StoreCoins, views
  <2>5. CASE /\ balance' = [balance EXCEPT ![t.user] = @ - Price(t)]
             /\ coin' = [coin EXCEPT ![<<t.user, t.video>>] = t.arg]
             /\ Grant(t, Price(t) * PerCoin)
    <3>1. Price(t) \in Int
      BY <2>2 DEF Price
    <3>2. Price(t) * PerCoin \in Int
      BY <3>1, ConstantsOK
    <3>3. /\ \A u \in Users, d \in Days, s \in Sources :
               daily'[<<u, d, s>>] = daily[<<u, d, s>>] \/ userLock[u] = r
          /\ userLock[t.user] = r
      BY <2>1, <2>5, <3>2, GrantLocked
    <3>4. \A u \in Users, v \in Videos : coin'[<<u, v>>] = coin[<<u, v>>] \/ videoLock[v] = r
      <4> SUFFICES ASSUME NEW u \in Users, NEW v \in Videos, coin'[<<u, v>>] # coin[<<u, v>>]
                   PROVE  videoLock[v] = r
        OBVIOUS
      <4>1. <<u, v>> = <<t.user, t.video>>
        BY <2>5 DEF TypeOK
      <4> QED
        BY <2>3, <4>1
    <3>5. \A u \in Users : balance'[u] = balance[u] \/ userLock[u] = r
      BY <2>5, <3>3 DEF TypeOK
    <3>6. UNCHANGED <<shares, views>> /\ End(r)
      BY <1>1 DEF StoreCoins
    <3> QED
      BY <3>3, <3>4, <3>5, <3>6 DEF WritesLocked, shares, views, TypeOK
  <2> QED
    BY <1>1, <2>4, <2>5 DEF StoreCoins
<1>2. ASSUME StoreShare(r) PROVE WritesLocked(r) /\ End(r)
  <2> DEFINE t == tx[r]
  <2>1. t \in ShareTx /\ t.op \in Sources /\ t.step = "grant" /\ t.op = "share"
    BY <1>2, TxCases DEF StoreShare, At, TypeOK, Sources
  <2>2. t.user \in Users /\ t.video \in Videos /\ t.arg \in ShareIds
    BY <2>1 DEF ShareTx, Open
  <2>3. videoLock[t.video] = r
    BY <2>1, <2>2 DEF LocksHeld
  <2>4. Grant(t, DailyLimit["share"]) /\ DailyLimit["share"] \in Int
    BY <1>2, ConstantsOK DEF StoreShare, Sources
  <2>5. \A u \in Users, d \in Days, s \in Sources :
          daily'[<<u, d, s>>] = daily[<<u, d, s>>] \/ userLock[u] = r
    BY <2>1, <2>4, GrantLocked
  <2>6. share' = share \cup {<<t.user, t.video, t.arg>>} /\ UNCHANGED <<coins, views>> /\ End(r)
    BY <1>2 DEF StoreShare
  <2> HIDE DEF t
  <2>7. \A u \in Users, v \in Videos, id \in ShareIds :
          <<u, v, id>> \in share' => <<u, v, id>> \in share \/ videoLock[v] = r
    BY <2>3, <2>6
  <2> QED
    BY <2>5, <2>6, <2>7 DEF WritesLocked, coins, views, TypeOK
<1>3. ASSUME CountView(r) PROVE WritesLocked(r) /\ End(r)
  <2> DEFINE t == tx[r]
  <2>1. t \in WatchTx /\ t.op \in Sources /\ t.step = "grant" /\ t.op = "watch"
    BY <1>3, TxCases DEF CountView, At, TypeOK, Sources
  <2>2. t.video \in Videos /\ t.arg \in Sessions
    BY <2>1 DEF WatchTx, Open
  <2>3. videoLock[t.video] = r /\ t.video = Watched[t.arg] /\ t.arg \notin counted
    BY <2>1, <2>2 DEF LocksHeld, ReadsHold
  <2>4. Grant(t, DailyLimit["watch"]) /\ DailyLimit["watch"] \in Int
    BY <1>3, ConstantsOK DEF CountView, Sources
  <2>5. \A u \in Users, d \in Days, s \in Sources :
          daily'[<<u, d, s>>] = daily[<<u, d, s>>] \/ userLock[u] = r
    BY <2>1, <2>4, GrantLocked
  <2>6. /\ completed' = [completed EXCEPT ![t.arg] = t.at]
        /\ counted' = counted \cup {t.arg} /\ UNCHANGED <<coins, shares>> /\ End(r)
    BY <1>3 DEF CountView
  <2> HIDE DEF t
  <2>7. \A s \in counted' : s \in Sessions /\ (s \in counted \/ videoLock[Watched[s]] = r)
    BY <2>2, <2>3, <2>6 DEF TypeOK
  <2>8. \A s \in counted : s \in counted' /\ completed'[s] = completed[s]
    BY <2>3, <2>6 DEF TypeOK
  <2> QED
    BY <2>5, <2>6, <2>7, <2>8 DEF WritesLocked, coins, shares, TypeOK
<1>4. ASSUME CloseView(r) PROVE WritesLocked(r) /\ End(r)
  <2>1. tx[r].op = "watch"
    BY <1>4 DEF CloseView, At
  <2>2. tx[r].arg \notin counted
    BY <2>1 DEF ReadsHold
  <2>3. /\ completed' = [completed EXCEPT ![tx[r].arg] = tx[r].at]
        /\ UNCHANGED <<earned, coins, shares, counted>> /\ End(r)
    BY <1>4 DEF CloseView
  <2>4. \A s \in counted : s \in counted' /\ completed'[s] = completed[s]
    BY <2>2, <2>3 DEF TypeOK
  <2> QED
    BY <2>3, <2>4 DEF WritesLocked, earned, coins, shares, TypeOK
<1>5. ASSUME StoreLogin(r) PROVE WritesLocked(r) /\ End(r)
  <2>1. tx[r].op \in Sources /\ tx[r].step = "grant"
    BY <1>5 DEF StoreLogin, At, Sources
  <2>2. Grant(tx[r], DailyLimit["login"]) /\ DailyLimit["login"] \in Int
    BY <1>5, ConstantsOK DEF StoreLogin, Sources
  <2>3. \A u \in Users, d \in Days, s \in Sources :
          daily'[<<u, d, s>>] = daily[<<u, d, s>>] \/ userLock[u] = r
    BY <2>1, <2>2, GrantLocked
  <2> QED
    BY <1>5, <2>3 DEF StoreLogin, WritesLocked, coins, shares, views, TypeOK
<1>6. ASSUME InsertSession(r) \/ Rollback(r) PROVE WritesLocked(r) /\ End(r)
  BY <1>6, NoWrite DEF InsertSession, Rollback, views
<1> QED
  BY <1>1, <1>2, <1>3, <1>4, <1>5, <1>6

LEMMA ReadsStep ==
  TypeOK /\ LocksHeld /\ ReadsHold /\ CountedDone /\ [Next]_vars => ReadsHold'
<1> SUFFICES ASSUME TypeOK, LocksHeld, ReadsHold, CountedDone, [Next]_vars PROVE ReadsHold'
  OBVIOUS
<1>1. ASSUME NEW r \in Requests, NEW u \in Users, NEW v \in Videos, NEW n \in 1..2,
             SetCoinAmount(r, u, v, n)
      PROVE  ReadsHold'
  <2>1. Begin(r, "coin", "lockUser", u, v, n) /\ UNCHANGED <<earned, coins, shares, views>>
    BY <1>1 DEF SetCoinAmount
  <2>2. WritesLocked(r)
    BY <2>1, NoWrite DEF views
  <2>3. /\ tx'[r].op = "coin" /\ tx'[r].step = "lockUser" /\ tx'[r].user = u /\ tx'[r].video = v
        /\ tx'[r].given = coin[<<u, v>>]
    BY <2>1 DEF Begin, TypeOK
  <2>4. ReadsOf(tx[r])'
    BY <2>1, <2>3 DEF ReadsOf, coins
  <2>5. \A q \in Requests \ {r} : tx'[q] = tx[q]
    BY <2>1 DEF Begin, TypeOK
  <2> QED
    BY <2>2, <2>4, <2>5, ReadsFrom
<1>2. ASSUME NEW r \in Requests, NEW u \in Users, NEW v \in Videos, NEW id \in ShareIds,
             CreateShare(r, u, v, id)
      PROVE  ReadsHold'
  <2>1. Begin(r, "share", "insert", u, v, id) /\ UNCHANGED <<earned, coins, shares, views>>
    BY <1>2 DEF CreateShare
  <2>2. WritesLocked(r)
    BY <2>1, NoWrite DEF views
  <2>3. tx'[r].op = "share" /\ tx'[r].step = "insert"
    BY <2>1 DEF Begin, TypeOK
  <2>4. ReadsOf(tx[r])'
    BY <2>3 DEF ReadsOf
  <2>5. \A q \in Requests \ {r} : tx'[q] = tx[q]
    BY <2>1 DEF Begin, TypeOK
  <2> QED
    BY <2>2, <2>4, <2>5, ReadsFrom
<1>3. ASSUME NEW r \in Requests, NEW s \in Sessions, StartView(r, s)
      PROVE  ReadsHold'
  <2>1. Begin(r, "start", "insert", Viewer[s], Watched[s], s) /\ UNCHANGED <<earned, coins, shares, views>>
    BY <1>3 DEF StartView
  <2>2. WritesLocked(r)
    BY <2>1, NoWrite DEF views
  <2>3. tx'[r].op = "start" /\ tx'[r].step = "insert"
    BY <2>1 DEF Begin, TypeOK
  <2>4. ReadsOf(tx[r])'
    BY <2>3 DEF ReadsOf
  <2>5. \A q \in Requests \ {r} : tx'[q] = tx[q]
    BY <2>1 DEF Begin, TypeOK
  <2> QED
    BY <2>2, <2>4, <2>5, ReadsFrom
<1>4. ASSUME NEW r \in Requests, NEW s \in Sessions, CompleteView(r, s)
      PROVE  ReadsHold'
  <2> DEFINE step == IF Counts(s, now) THEN "lockUser" ELSE "close"
  <2>1. Begin(r, "watch", step, Viewer[s], Watched[s], s) /\ UNCHANGED <<earned, coins, shares, views>>
    BY <1>4 DEF CompleteView
  <2>2. WritesLocked(r)
    BY <2>1, NoWrite DEF views
  <2>3. s \notin counted
    BY <1>4 DEF CompleteView, MayComplete, CountedDone
  <2>4. /\ tx'[r].op = "watch" /\ tx'[r].step = step /\ tx'[r].user = Viewer[s]
        /\ tx'[r].video = Watched[s] /\ tx'[r].arg = s /\ tx'[r].at = now
    BY <2>1 DEF Begin, TypeOK
  <2>5. counted' = counted /\ completed' = completed
    BY <2>1 DEF views
  <2>6. ASSUME step # "close" PROVE Counts(tx[r].arg, tx[r].at)'
    <3>1. Counts(s, now)
      BY <2>6
    <3> QED
      BY <2>4, <2>5, <3>1 DEF Counts, CountedOn, CountedLike
  <2>7. ReadsOf(tx[r])'
    BY <2>3, <2>4, <2>5, <2>6 DEF ReadsOf
  <2>8. \A q \in Requests \ {r} : tx'[q] = tx[q]
    BY <2>1 DEF Begin, TypeOK
  <2> QED
    BY <2>2, <2>7, <2>8, ReadsFrom
<1>5. ASSUME NEW r \in Requests, NEW u \in Users, Login(r, u)
      PROVE  ReadsHold'
  <2>1. Begin(r, "login", "lockUser", u, None, None) /\ UNCHANGED <<earned, coins, shares, views>>
    BY <1>5 DEF Login
  <2>2. WritesLocked(r)
    BY <2>1, NoWrite DEF views
  <2>3. tx'[r].op = "login" /\ tx'[r].step = "lockUser"
    BY <2>1 DEF Begin, TypeOK
  <2>4. ReadsOf(tx[r])'
    BY <2>3 DEF ReadsOf
  <2>5. \A q \in Requests \ {r} : tx'[q] = tx[q]
    BY <2>1 DEF Begin, TypeOK
  <2> QED
    BY <2>2, <2>4, <2>5, ReadsFrom
<1>6. ASSUME NEW r \in Requests, LockUser(r) PROVE ReadsHold'
  <2> DEFINE t == tx[r]
             at == IF t.op = "coin" THEN now ELSE t.at
  <2>1. t \in CoinTx \cup ShareTx \cup WatchTx \cup LoginTx /\ t.step = "lockUser"
    BY <1>6, TxCases DEF LockUser, TypeOK, StartTx, Open
  <2>2. /\ tx' = [tx EXCEPT ![r] = [t EXCEPT !.step = "grant", !.at = at,
                                             !.earnedToday = daily[<<t.user, Day(at), t.op>>],
                                             !.funds = balance[t.user]]]
        /\ UNCHANGED <<earned, coins, shares, views>>
    BY <1>6 DEF LockUser
  <2>3. WritesLocked(r)
    BY <2>2, NoWrite DEF views
  <2>4. \A q \in Requests \ {r} : tx'[q] = tx[q]
    BY <2>2 DEF TypeOK
  <2>5. ReadsOf(t)
    BY DEF ReadsHold, ReadsOf
  <2>6. /\ tx'[r].op = t.op /\ tx'[r].step = "grant" /\ tx'[r].user = t.user
        /\ tx'[r].video = t.video /\ tx'[r].arg = t.arg /\ tx'[r].at = at /\ tx'[r].given = t.given
        /\ tx'[r].earnedToday = daily[<<t.user, Day(at), t.op>>] /\ tx'[r].funds = balance[t.user]
    BY <2>1, <2>2 DEF TypeOK, CoinTx, ShareTx, WatchTx, LoginTx, Open
  <2>7. /\ daily' = daily /\ coin' = coin /\ balance' = balance /\ share' = share
        /\ counted' = counted /\ completed' = completed
    BY <2>2 DEF earned, coins, shares, views
  <2>8. tx'[r].op = "watch" => Counts(tx[r].arg, tx[r].at)'
    <3> SUFFICES ASSUME t.op = "watch" PROVE Counts(tx[r].arg, tx[r].at)'
      BY <2>6
    <3>1. Counts(t.arg, t.at) /\ at = t.at
      BY <2>1, <2>5 DEF ReadsOf
    <3> QED
      BY <2>6, <2>7, <3>1 DEF Counts, CountedOn, CountedLike
  <2>9. ReadsOf(tx[r])'
    <3>1. t.op = "coin" => t.given = coin[<<t.user, t.video>>]
      BY <2>5 DEF ReadsOf
    <3>2. t.op = "share" => <<t.user, t.video, t.arg>> \notin share
      BY <2>1, <2>5 DEF ReadsOf, Repeats
    <3>3. t.op = "watch" => t.user = Viewer[t.arg] /\ t.video = Watched[t.arg] /\ t.arg \notin counted
      BY <2>5 DEF ReadsOf
    <3> HIDE DEF t, at
    <3> QED
      BY <2>6, <2>7, <2>8, <3>1, <3>2, <3>3 DEF ReadsOf, Repeats
  <2> QED
    BY <2>3, <2>4, <2>9, ReadsFrom
<1>7. ASSUME NEW r \in Requests, InsertShare(r) PROVE ReadsHold'
  <2> DEFINE t == tx[r]
  <2>1. UNCHANGED <<earned, coins, shares, views>>
    BY <1>7 DEF InsertShare
  <2>2. WritesLocked(r)
    BY <2>1, NoWrite DEF views
  <2>3. CASE Repeats(t)
    BY <1>7, <2>2, <2>3, ReadsEnded DEF InsertShare
  <2>4. CASE ~Repeats(t)
    <3>1. t \in ShareTx /\ t.op = "share"
      BY <1>7, TxCases DEF InsertShare, At, TypeOK
    <3>2. tx' = [tx EXCEPT ![r] = [t EXCEPT !.step = "lockUser", !.at = now]]
      BY <1>7, <2>4 DEF InsertShare
    <3>3. /\ tx'[r].op = "share" /\ tx'[r].step = "lockUser" /\ tx'[r].user = t.user
          /\ tx'[r].video = t.video /\ tx'[r].arg = t.arg
      BY <3>1, <3>2 DEF TypeOK, ShareTx, Open
    <3>4. \A q \in Requests \ {r} : tx'[q] = tx[q]
      BY <3>2 DEF TypeOK
    <3>5. <<t.user, t.video, t.arg>> \notin share'
      BY <2>1, <2>4 DEF Repeats, shares
    <3>6. ReadsOf(tx[r])'
      BY <3>3, <3>5 DEF ReadsOf, Repeats
    <3> QED
      BY <2>2, <3>4, <3>6, ReadsFrom
  <2> QED
    BY <2>3, <2>4
<1>8. ASSUME NEW r \in Requests,
             \/ StoreCoins(r) \/ StoreShare(r) \/ InsertSession(r) \/ CountView(r)
             \/ CloseView(r) \/ StoreLogin(r) \/ Rollback(r)
      PROVE  ReadsHold'
  BY <1>8, WritesAreLocked, ReadsEnded
<1>9. ASSUME UNCHANGED <<earned, coins, shares, views, tx>> PROVE ReadsHold'
  BY <1>9 DEF ReadsHold, Repeats, Counts, CountedOn, CountedLike, earned, coins, shares, views
<1> QED
  BY <1>1, <1>2, <1>3, <1>4, <1>5, <1>6, <1>7, <1>8, <1>9 DEF Next, Request, Moderate, Tick, vars

LEMMA CountedDoneStep ==
  TypeOK /\ ReadsHold /\ CountedDone /\ [Next]_vars => CountedDone'
<1> SUFFICES ASSUME TypeOK, ReadsHold, CountedDone, [Next]_vars PROVE CountedDone'
  OBVIOUS
<1>1. ASSUME NEW r \in Requests, CountView(r) PROVE CountedDone'
  <2>1. tx[r] \in WatchTx
    BY <1>1, TxCases DEF CountView, At, TypeOK
  <2>2. tx[r].at \in Times /\ tx[r].arg \in Sessions
    BY <2>1 DEF WatchTx, Open
  <2>3. tx[r].at # Never
    BY <2>2, ConstantsOK DEF Times, Never
  <2>4. IsFiniteSet(counted')
    BY <1>1, FS_AddElement DEF CountView, CountedDone
  <2> QED
    BY <1>1, <2>2, <2>3, <2>4 DEF CountView, CountedDone, TypeOK, shares
<1>2. ASSUME NEW r \in Requests, CloseView(r) PROVE CountedDone'
  <2>1. tx[r].arg \notin counted
    BY <1>2 DEF CloseView, At, ReadsHold
  <2> QED
    BY <1>2, <2>1 DEF CloseView, CountedDone, TypeOK, shares
<1>3. ASSUME NEW r \in Requests, StoreShare(r) PROVE CountedDone'
  <2>1. IsFiniteSet(share')
    BY <1>3, FS_AddElement DEF StoreShare, CountedDone
  <2> QED
    BY <1>3, <2>1 DEF StoreShare, CountedDone, views
<1>4. ASSUME UNCHANGED <<share, counted, completed>> PROVE CountedDone'
  BY <1>4 DEF CountedDone
<1> QED
  BY <1>1, <1>2, <1>3, <1>4
     DEF Next, Request, SetCoinAmount, CreateShare, StartView, CompleteView, Login, LockUser,
         StoreCoins, InsertShare, InsertSession, StoreLogin, Rollback, Moderate, Tick, vars,
         shares, views

-----------------------------------------------------------------------------
(* The properties.                                                         *)

Inv == TypeOK /\ LocksHeld /\ ReadsHold /\ CountedDone

LEMMA InvInit == Init => Inv
<1>1. Init => ReadsHold
  BY DEF Init, ReadsHold, Idle
<1>2. Init => CountedDone
  BY FS_EmptySet DEF Init, CountedDone
<1> QED
  BY <1>1, <1>2, TypeCorrectInit, LocksInit DEF Inv

LEMMA InvStep == Inv /\ [Next]_vars => Inv'
  BY TypeCorrectStep, LocksStep, ReadsStep, CountedDoneStep DEF Inv

(* What a transaction has read is as it was until it ends: coins given,    *)
(* experience earned today, the balance, that a request id is new, that a  *)
(* view counts.                                                            *)
THEOREM ReadsStayTrue == Spec => []ReadsHold
<1>1. Inv => ReadsHold
  BY DEF Inv
<1> QED
  BY <1>1, InvInit, InvStep, PTL DEF Spec

LEMMA GrantCapped ==
  ASSUME Inv, DailyCapped, NEW r \in Requests, tx[r].op \in Sources, tx[r].step = "grant",
         NEW q \in Int, Grant(tx[r], q)
  PROVE  DailyCapped'
<1> DEFINE t == tx[r]
           award == Award(t.earnedToday, q, DailyLimit[t.op])
<1>1. t \in Tx
  BY DEF Inv, TypeOK
<1>2. t.user \in Users /\ t.at \in Times /\ t.op # "idle"
  BY <1>1, TxCases DEF CoinTx, ShareTx, WatchTx, LoginTx, Open, Sources
<1>3. Day(t.at) \in Days
  BY <1>2 DEF Days
<1>4. t.earnedToday = daily[<<t.user, Day(t.at), t.op>>]
  BY <1>2 DEF Inv, ReadsHold
<1>5. t.earnedToday \in Nat /\ t.earnedToday <= DailyLimit[t.op]
  BY <1>2, <1>3, <1>4 DEF DailyCapped, Inv, TypeOK
<1>6. DailyLimit[t.op] \in Nat
  BY ConstantsOK
<1>7. t.earnedToday + award <= DailyLimit[t.op]
  BY <1>5, <1>6, AwardType
<1>8. daily' = [daily EXCEPT ![<<t.user, Day(t.at), t.op>>] = t.earnedToday + award]
  BY <1>2, <1>3, <1>4 DEF Grant, Inv, TypeOK
<1> HIDE DEF t, award
<1>9. ASSUME NEW u \in Users, NEW d \in Days, NEW s \in Sources
      PROVE  daily'[<<u, d, s>>] <= DailyLimit[s]
  <2>1. CASE <<u, d, s>> = <<t.user, Day(t.at), t.op>>
    BY <1>2, <1>3, <1>7, <1>8, <2>1 DEF Inv, TypeOK
  <2>2. CASE <<u, d, s>> # <<t.user, Day(t.at), t.op>>
    BY <1>8, <2>2 DEF Inv, TypeOK, DailyCapped
  <2> QED
    BY <2>1, <2>2
<1> QED
  BY <1>9 DEF DailyCapped

LEMMA DailyCappedStep == Inv /\ DailyCapped /\ [Next]_vars => DailyCapped'
<1> SUFFICES ASSUME Inv, DailyCapped, [Next]_vars PROVE DailyCapped'
  OBVIOUS
<1>1. ASSUME NEW r \in Requests, StoreCoins(r) PROVE DailyCapped'
  <2>1. /\ tx[r].op \in Sources /\ tx[r].step = "grant"
        /\ Grant(tx[r], Price(tx[r]) * PerCoin) \/ daily' = daily
    BY <1>1 DEF StoreCoins, At, Sources, earned
  <2>2. tx[r] \in CoinTx
    BY <1>1, TxCases DEF StoreCoins, At, Inv, TypeOK
  <2>3. Price(tx[r]) \in Int
    BY <2>2 DEF CoinTx, Open, Price
  <2>4. Price(tx[r]) * PerCoin \in Int
    BY <2>3, ConstantsOK
  <2>5. CASE daily' = daily
    BY <2>5 DEF DailyCapped
  <2> QED
    BY <2>1, <2>4, <2>5, GrantCapped
<1>2. ASSUME NEW r \in Requests, StoreShare(r) PROVE DailyCapped'
  <2>1. DailyLimit["share"] \in Int
    BY ConstantsOK DEF Sources
  <2> QED
    BY <1>2, <2>1, GrantCapped DEF StoreShare, At, Sources
<1>3. ASSUME NEW r \in Requests, CountView(r) PROVE DailyCapped'
  <2>1. DailyLimit["watch"] \in Int
    BY ConstantsOK DEF Sources
  <2> QED
    BY <1>3, <2>1, GrantCapped DEF CountView, At, Sources
<1>4. ASSUME NEW r \in Requests, StoreLogin(r) PROVE DailyCapped'
  <2>1. DailyLimit["login"] \in Int
    BY ConstantsOK DEF Sources
  <2> QED
    BY <1>4, <2>1, GrantCapped DEF StoreLogin, At, Sources
<1>5. ASSUME UNCHANGED daily PROVE DailyCapped'
  BY <1>5 DEF DailyCapped
<1> QED
  BY <1>1, <1>2, <1>3, <1>4, <1>5
     DEF Next, Request, SetCoinAmount, CreateShare, StartView, CompleteView, Login, LockUser,
         InsertShare, InsertSession, CloseView, Rollback, Moderate, Tick, vars, earned

(* No source earns a user more than its limit on a day, however requests   *)
(* overlap, with each other and with midnight.                             *)
THEOREM DailyAlwaysCapped == Spec => []DailyCapped
<1>1. Init => DailyCapped
  BY ConstantsOK DEF Init, DailyCapped
<1> QED
  BY <1>1, InvInit, InvStep, DailyCappedStep, PTL DEF Spec

LEMMA OneMore ==
  ASSUME NEW S, IsFiniteSet(S), NEW x, x \notin S
  PROVE  Cardinality(S \cup {x}) = Cardinality(S) + 1 /\ Cardinality(S) \in Nat
  BY FS_AddElement, FS_CardinalityType

LEMMA EventsCountedStep == Inv /\ EventsCounted /\ [Next]_vars => EventsCounted'
<1> SUFFICES ASSUME Inv, EventsCounted, [Next]_vars PROVE EventsCounted'
  OBVIOUS
<1> DEFINE Shared(v) == {x \in share : x[2] = v}
           Seen(v) == {s \in counted : Watched[s] = v}
<1>1. ASSUME NEW r \in Requests, StoreShare(r) PROVE EventsCounted'
  <2> DEFINE t == tx[r]
             row == <<t.user, t.video, t.arg>>
  <2>1. t \in ShareTx /\ t.op = "share" /\ t.step = "grant"
    BY <1>1, TxCases DEF StoreShare, At, Inv, TypeOK
  <2>2. t.video \in Videos /\ row[2] = t.video
    BY <2>1 DEF ShareTx, Open
  <2>3. row \notin share
    BY <2>1 DEF Inv, ReadsHold, Repeats
  <2>4. /\ share' = share \cup {row} /\ counted' = counted /\ viewCount' = viewCount
        /\ shareCount' = [shareCount EXCEPT ![t.video] = @ + 1]
    BY <1>1 DEF StoreShare, views
  <2> HIDE DEF t, row
  <2>5. ASSUME NEW v \in Videos PROVE shareCount'[v] = Cardinality(Shared(v)')
    <3>1. shareCount[v] = Cardinality(Shared(v))
      BY DEF EventsCounted
    <3>2. CASE v = t.video
      <4>1. Shared(v)' = Shared(v) \cup {row} /\ row \notin Shared(v)
        BY <2>2, <2>3, <2>4, <3>2
      <4>2. IsFiniteSet(Shared(v))
        BY FS_Subset DEF Inv, CountedDone
      <4>3. shareCount'[v] = shareCount[v] + 1
        BY <2>2, <2>4, <3>2 DEF Inv, TypeOK
      <4>4. Cardinality(Shared(v) \cup {row}) = Cardinality(Shared(v)) + 1
        BY <4>1, <4>2, OneMore
      <4> QED
        BY <3>1, <4>1, <4>3, <4>4
    <3>3. CASE v # t.video
      <4>1. Shared(v)' = Shared(v)
        BY <2>2, <2>4, <3>3
      <4> QED
        BY <2>4, <3>1, <3>3, <4>1 DEF Inv, TypeOK
    <3> QED
      BY <3>2, <3>3
  <2> QED
    BY <2>4, <2>5 DEF EventsCounted
<1>2. ASSUME NEW r \in Requests, CountView(r) PROVE EventsCounted'
  <2> DEFINE t == tx[r]
  <2>1. t \in WatchTx /\ t.op = "watch"
    BY <1>2, TxCases DEF CountView, At, Inv, TypeOK
  <2>2. t.video \in Videos /\ t.video = Watched[t.arg] /\ t.arg \notin counted
    BY <2>1 DEF WatchTx, Open, Inv, ReadsHold
  <2>3. /\ counted' = counted \cup {t.arg} /\ share' = share /\ shareCount' = shareCount
        /\ viewCount' = [viewCount EXCEPT ![t.video] = @ + 1]
    BY <1>2 DEF CountView, shares
  <2> HIDE DEF t
  <2>4. ASSUME NEW v \in Videos PROVE viewCount'[v] = Cardinality(Seen(v)')
    <3>1. viewCount[v] = Cardinality(Seen(v))
      BY DEF EventsCounted
    <3>2. CASE v = t.video
      <4>1. Seen(v)' = Seen(v) \cup {t.arg} /\ t.arg \notin Seen(v)
        BY <2>2, <2>3, <3>2
      <4>2. IsFiniteSet(Seen(v))
        BY FS_Subset DEF Inv, CountedDone
      <4>3. viewCount'[v] = viewCount[v] + 1
        BY <2>2, <2>3, <3>2 DEF Inv, TypeOK
      <4>4. Cardinality(Seen(v) \cup {t.arg}) = Cardinality(Seen(v)) + 1
        BY <4>1, <4>2, OneMore
      <4> QED
        BY <3>1, <4>1, <4>3, <4>4
    <3>3. CASE v # t.video
      <4>1. Seen(v)' = Seen(v)
        BY <2>2, <2>3, <3>3
      <4> QED
        BY <2>3, <3>1, <3>3, <4>1 DEF Inv, TypeOK
    <3> QED
      BY <3>2, <3>3
  <2> QED
    BY <2>3, <2>4 DEF EventsCounted
<1>3. ASSUME UNCHANGED <<share, shareCount, counted, viewCount>> PROVE EventsCounted'
  BY <1>3 DEF EventsCounted
<1> QED
  BY <1>1, <1>2, <1>3
     DEF Next, Request, SetCoinAmount, CreateShare, StartView, CompleteView, Login, LockUser,
         StoreCoins, InsertShare, InsertSession, CloseView, StoreLogin, Rollback, Moderate, Tick,
         vars, shares, views

(* share_count and view_count are the rows they count, whatever is retried *)
(* or completed twice.                                                     *)
THEOREM EventsAlwaysCounted == Spec => []EventsCounted
<1>1. Init => EventsCounted
  <2> SUFFICES ASSUME Init, NEW v \in Videos
               PROVE  /\ shareCount[v] = Cardinality({x \in share : x[2] = v})
                      /\ viewCount[v] = Cardinality({s \in counted : Watched[s] = v})
    BY DEF EventsCounted
  <2>1. {x \in share : x[2] = v} = {} /\ {s \in counted : Watched[s] = v} = {}
    BY DEF Init
  <2> QED
    BY <2>1, FS_EmptySet DEF Init
<1> QED
  BY <1>1, InvInit, InvStep, EventsCountedStep, PTL DEF Spec

LEMMA ViewsSpacedStep == Inv /\ ViewsSpaced /\ [Next]_vars => ViewsSpaced'
<1> SUFFICES ASSUME Inv, ViewsSpaced, [Next]_vars PROVE ViewsSpaced'
  OBVIOUS
<1>1. ASSUME NEW r \in Requests, CountView(r) PROVE ViewsSpaced'
  <2>0. PICK new, at : new = tx[r].arg /\ at = tx[r].at
    OBVIOUS
  <2>1. tx[r] \in WatchTx /\ tx[r].op = "watch" /\ tx[r].step = "grant"
    BY <1>1, TxCases DEF CountView, At, Inv, TypeOK
  <2>2. new \in Sessions /\ at \in Times /\ at \in Int
    BY <2>0, <2>1, ConstantsOK DEF WatchTx, Open, Times
  <2>3. new \notin counted /\ Counts(new, at)
    BY <2>0, <2>1 DEF Inv, ReadsHold
  <2>4. counted' = counted \cup {new} /\ completed' = [completed EXCEPT ![new] = at]
    BY <1>1, <2>0 DEF CountView
  <2>5. completed'[new] = at /\ \A x \in counted : completed'[x] = completed[x]
    BY <2>2, <2>3, <2>4 DEF Inv, TypeOK
  <2>6. \A x \in CountedLike(new) : x \in counted /\ at - completed[x] >= Interval
    BY <2>3 DEF Counts, CountedLike
  <2>7. CountedLike(new)' = CountedLike(new) \cup {new}
    BY <2>4 DEF CountedLike
  <2>8. CountedOn(new, Day(at))' = CountedOn(new, Day(at)) \cup {new}
    BY <2>5, <2>6, <2>7 DEF CountedOn
  <2>9. Cardinality(CountedOn(new, Day(at))') <= DailyViews
    <3>1. CountedOn(new, Day(at)) \subseteq counted
      BY DEF CountedOn, CountedLike
    <3>2. IsFiniteSet(CountedOn(new, Day(at)))
      BY <3>1, FS_Subset DEF Inv, CountedDone
    <3>3. /\ Cardinality(CountedOn(new, Day(at)) \cup {new}) = Cardinality(CountedOn(new, Day(at))) + 1
          /\ Cardinality(CountedOn(new, Day(at))) \in Nat
      BY <2>3, <3>1, <3>2, OneMore
    <3>4. Cardinality(CountedOn(new, Day(at))) < DailyViews
      BY <2>3 DEF Counts
    <3> QED
      BY <2>8, <3>3, <3>4, ConstantsOK
  <2>10. ASSUME NEW s \in counted'
         PROVE  /\ \A x \in CountedLike(s)' \ {s} :
                     \/ completed'[s] - completed'[x] >= Interval
                     \/ completed'[x] - completed'[s] >= Interval
                /\ Cardinality(CountedOn(s, Day(completed[s]))') <= DailyViews
    <3>1. CASE s = new
      BY <2>5, <2>6, <2>7, <2>9, <3>1
    <3>2. CASE s # new /\ new \in CountedLike(s)'
      <4>1. s \in counted /\ s \in CountedLike(new)
        BY <2>4, <3>2 DEF CountedLike
      <4>2. CountedLike(s)' = CountedLike(s) \cup {new}
        BY <2>4, <3>2 DEF CountedLike
      <4>3. completed'[new] - completed'[s] >= Interval
        BY <2>5, <2>6, <4>1
      <4>4. ASSUME NEW x \in CountedLike(s)' \ {s}
            PROVE  \/ completed'[s] - completed'[x] >= Interval
                   \/ completed'[x] - completed'[s] >= Interval
        <5>1. CASE x = new
          BY <4>3, <5>1
        <5>2. CASE x # new
          BY <2>5, <4>1, <4>2, <5>2 DEF ViewsSpaced, CountedLike
        <5> QED
          BY <5>1, <5>2
      <4>5. CASE Day(completed'[s]) = Day(at)
        <5>1. CountedOn(s, Day(completed[s]))' = CountedOn(new, Day(at))'
          BY <3>2, <4>5 DEF CountedOn, CountedLike
        <5> QED
          BY <2>9, <4>4, <5>1
      <4>6. CASE Day(completed'[s]) # Day(at)
        <5>1. CountedOn(s, Day(completed[s]))' = CountedOn(s, Day(completed[s]))
          BY <2>5, <4>1, <4>2, <4>6 DEF CountedOn, CountedLike
        <5> QED
          BY <4>1, <4>4, <5>1 DEF ViewsSpaced
      <4> QED
        BY <4>5, <4>6
    <3>3. CASE s # new /\ new \notin CountedLike(s)'
      <4>1. s \in counted
        BY <2>4, <3>3
      <4>2. CountedLike(s)' = CountedLike(s)
        BY <2>4, <3>3 DEF CountedLike
      <4>3. CountedOn(s, Day(completed[s]))' = CountedOn(s, Day(completed[s]))
        BY <2>5, <4>1, <4>2 DEF CountedOn, CountedLike
      <4> QED
        BY <2>5, <4>1, <4>2, <4>3 DEF ViewsSpaced, CountedLike
    <3> QED
      BY <3>1, <3>2, <3>3
  <2> QED
    BY <2>10 DEF ViewsSpaced
<1>2. ASSUME NEW r \in Requests, CloseView(r) PROVE ViewsSpaced'
  <2>1. tx[r].arg \notin counted
    BY <1>2 DEF CloseView, At, Inv, ReadsHold
  <2>2. counted' = counted /\ \A x \in counted : completed'[x] = completed[x]
    BY <1>2, <2>1 DEF CloseView, Inv, TypeOK
  <2>3. ASSUME NEW s \in counted
        PROVE  CountedLike(s)' = CountedLike(s) /\ \A d : CountedOn(s, d)' = CountedOn(s, d)
    BY <2>2 DEF CountedOn, CountedLike
  <2> QED
    BY <2>2, <2>3 DEF ViewsSpaced, CountedLike
<1>3. ASSUME UNCHANGED <<counted, completed>> PROVE ViewsSpaced'
  BY <1>3 DEF ViewsSpaced, CountedOn, CountedLike
<1> QED
  BY <1>1, <1>2, <1>3
     DEF Next, Request, SetCoinAmount, CreateShare, StartView, CompleteView, Login, LockUser,
         StoreCoins, InsertShare, StoreShare, InsertSession, StoreLogin, Rollback, Moderate, Tick,
         vars, views

(* Counted views of one viewer and video are an interval apart and few a   *)
(* day, even if the sessions are completed at the same time.               *)
THEOREM ViewsAlwaysSpaced == Spec => []ViewsSpaced
<1>1. Init => ViewsSpaced
  BY DEF Init, ViewsSpaced
<1> QED
  BY <1>1, InvInit, InvStep, ViewsSpacedStep, PTL DEF Spec

-----------------------------------------------------------------------------
(* Where coins and experience go.                                          *)

LEMMA CoinsConservedInit == Init => CoinsConserved
<1> SUFFICES ASSUME Init PROVE CoinsConserved
  OBVIOUS
<1>1. ASSUME NEW u \in Users PROVE GivenBy(u) = 0
  <2> DEFINE f == [v \in Videos |-> coin[<<u, v>>]]
  <2>1. \A v \in Videos : f[v] = 0
    BY DEF Init
  <2> HIDE DEF f
  <2>2. SumFunctionOnSet(f, Videos) = 0
    BY <2>1, SumZero, ConstantsOK
  <2> QED
    BY <2>2 DEF f, GivenBy
<1>2. ASSUME NEW v \in Videos PROVE GivenTo(v) = 0
  <2> DEFINE f == [u \in Users |-> coin[<<u, v>>]]
  <2>1. \A u \in Users : f[u] = 0
    BY DEF Init
  <2> HIDE DEF f
  <2>2. SumFunctionOnSet(f, Users) = 0
    BY <2>1, SumZero, ConstantsOK
  <2> QED
    BY <2>2 DEF f, GivenTo
<1> QED
  BY <1>1, <1>2, ConstantsOK DEF Init, CoinsConserved

(* A transfer takes from the balance what it adds to the coins given: it   *)
(* still finds the coins and the balance it has read.                      *)
LEMMA CoinsMoved ==
  ASSUME Inv, CoinsConserved, NEW r \in Requests, StoreCoins(r), coin' # coin
  PROVE  CoinsConserved'
<1>0. PICK giver, receiver, amount, price :
        /\ giver = tx[r].user /\ receiver = tx[r].video /\ amount = tx[r].arg
        /\ price = Price(tx[r])
  OBVIOUS
<1>1. tx[r] \in CoinTx /\ tx[r].op = "coin" /\ tx[r].step = "grant"
  BY TxCases DEF StoreCoins, At, Inv, TypeOK
<1>2. giver \in Users /\ receiver \in Videos /\ amount \in 1..2
  BY <1>0, <1>1 DEF CoinTx, Open
<1>3. /\ price > 0 /\ balance[giver] >= price
      /\ balance' = [balance EXCEPT ![giver] = @ - price]
      /\ coin' = [coin EXCEPT ![<<giver, receiver>>] = amount]
      /\ coinCount' = [coinCount EXCEPT ![receiver] = @ + price]
  BY <1>0, <1>1 DEF StoreCoins, coins, Inv, ReadsHold
<1>4. price = amount - coin[<<giver, receiver>>]
  BY <1>0, <1>1 DEF Price, Inv, ReadsHold
<1>t. /\ coin \in [Users \X Videos -> 0..2] /\ balance \in [Users -> Int]
      /\ coinCount \in [Videos -> Nat] /\ IsFiniteSet(Users) /\ IsFiniteSet(Videos)
  BY ConstantsOK DEF Inv, TypeOK
<1>5. price \in Int
  BY <1>2, <1>4, <1>t
<1>6. ASSUME NEW u \in Users, NEW v \in Videos
      PROVE  coin'[<<u, v>>] = coin[<<u, v>>] + (IF u = giver /\ v = receiver THEN price ELSE 0)
  <2>1. CASE u = giver /\ v = receiver
    BY <1>2, <1>3, <1>4, <1>t, <2>1
  <2>2. CASE ~(u = giver /\ v = receiver)
    <3>1. <<u, v>> # <<giver, receiver>>
      BY <2>2
    <3> QED
      BY <1>3, <1>t, <2>2, <3>1
  <2> QED
    BY <2>1, <2>2
<1>7. ASSUME NEW u \in Users
      PROVE  balance'[u] >= 0 /\ balance'[u] + GivenBy(u)' = CoinStart
  <2> DEFINE f == [v \in Videos |-> coin[<<u, v>>]]
  <2> DEFINE g == [v \in Videos |-> coin'[<<u, v>>]]
  <2>1. \A v \in Videos : f[v] \in Int
    BY <1>t
  <2>2. \A v \in Videos : g[v] = f[v] + (IF v = receiver THEN IF u = giver THEN price ELSE 0 ELSE 0)
    BY <1>6
  <2>3. GivenBy(u) = SumFunctionOnSet(f, Videos) /\ GivenBy(u)' = SumFunctionOnSet(g, Videos)
    BY DEF GivenBy
  <2> HIDE DEF f, g
  <2>4. SumFunctionOnSet(f, Videos) \in Int
    BY <1>t, <2>1, SumType
  <2>5. balance[u] >= 0 /\ balance[u] + SumFunctionOnSet(f, Videos) = CoinStart
    BY <2>3 DEF CoinsConserved
  <2>6. CASE u = giver
    <3>1. SumFunctionOnSet(g, Videos) = SumFunctionOnSet(f, Videos) + price
      <4>1. g[receiver] = f[receiver] + price /\ \A v \in Videos \ {receiver} : g[v] = f[v]
        BY <1>2, <2>1, <2>2, <2>6
      <4>2. receiver \in Videos /\ price \in Int /\ IsFiniteSet(Videos)
        BY <1>2, <1>5, <1>t
      <4> QED
        BY <2>1, <4>1, <4>2, SumMoved
    <3>2. balance'[u] = balance[u] - price /\ balance[u] \in Int
      BY <1>3, <1>t, <2>6
    <3> QED
      BY <1>3, <1>5, <2>3, <2>4, <2>5, <2>6, <3>1, <3>2, ConstantsOK
  <2>7. CASE u # giver
    <3>1. SumFunctionOnSet(g, Videos) = SumFunctionOnSet(f, Videos)
      <4>1. \A v \in Videos : f[v] = g[v]
        BY <2>1, <2>2, <2>7
      <4> QED
        BY <1>t, <4>1, SumSame
    <3> QED
      BY <1>3, <1>t, <2>3, <2>5, <2>7, <3>1
  <2> QED
    BY <2>6, <2>7
<1>8. ASSUME NEW v \in Videos PROVE coinCount'[v] = GivenTo(v)'
  <2> DEFINE f == [u \in Users |-> coin[<<u, v>>]]
  <2> DEFINE g == [u \in Users |-> coin'[<<u, v>>]]
  <2>1. \A u \in Users : f[u] \in Int
    BY <1>t
  <2>2. \A u \in Users : g[u] = f[u] + (IF u = giver THEN IF v = receiver THEN price ELSE 0 ELSE 0)
    BY <1>6
  <2>3. GivenTo(v) = SumFunctionOnSet(f, Users) /\ GivenTo(v)' = SumFunctionOnSet(g, Users)
    BY DEF GivenTo
  <2> HIDE DEF f, g
  <2>4. coinCount[v] = SumFunctionOnSet(f, Users)
    BY <2>3 DEF CoinsConserved
  <2>5. CASE v = receiver
    <3>1. SumFunctionOnSet(g, Users) = SumFunctionOnSet(f, Users) + price
      <4>1. g[giver] = f[giver] + price /\ \A u \in Users \ {giver} : g[u] = f[u]
        BY <1>2, <2>1, <2>2, <2>5
      <4>2. giver \in Users /\ price \in Int /\ IsFiniteSet(Users)
        BY <1>2, <1>5, <1>t
      <4> QED
        BY <2>1, <4>1, <4>2, SumMoved
    <3> QED
      BY <1>3, <1>t, <2>3, <2>4, <2>5, <3>1
  <2>6. CASE v # receiver
    <3>1. SumFunctionOnSet(g, Users) = SumFunctionOnSet(f, Users)
      <4>1. \A u \in Users : f[u] = g[u]
        BY <2>1, <2>2, <2>6
      <4> QED
        BY <1>t, <4>1, SumSame
    <3> QED
      BY <1>3, <1>t, <2>3, <2>4, <2>6, <3>1
  <2> QED
    BY <2>5, <2>6
<1> QED
  BY <1>7, <1>8 DEF CoinsConserved

LEMMA CoinsConservedStep == Inv /\ CoinsConserved /\ [Next]_vars => CoinsConserved'
<1> SUFFICES ASSUME Inv, CoinsConserved, [Next]_vars PROVE CoinsConserved'
  OBVIOUS
<1>1. ASSUME UNCHANGED <<balance, coin, coinCount>> PROVE CoinsConserved'
  BY <1>1 DEF CoinsConserved, GivenBy, GivenTo
<1>2. ASSUME NEW r \in Requests, StoreCoins(r) PROVE CoinsConserved'
  <2>1. CASE UNCHANGED coins
    BY <1>1, <2>1 DEF coins
  <2>2. CASE coin' # coin
    BY <1>2, <2>2, CoinsMoved
  <2>3. ASSUME ~UNCHANGED coins PROVE coin' # coin
    <3>1. tx[r] \in CoinTx /\ tx[r].op = "coin"
      BY <1>2, TxCases DEF StoreCoins, At, Inv, TypeOK
    <3>2. /\ Price(tx[r]) > 0 /\ tx[r].user \in Users /\ tx[r].video \in Videos
          /\ tx[r].arg \in 1..2 /\ tx[r].given \in 0..2
          /\ coin' = [coin EXCEPT ![<<tx[r].user, tx[r].video>>] = tx[r].arg]
      BY <1>2, <2>3, <3>1 DEF StoreCoins, CoinTx, Open
    <3>3. tx[r].given = coin[<<tx[r].user, tx[r].video>>]
      BY <3>1 DEF Inv, ReadsHold
    <3>4. coin'[<<tx[r].user, tx[r].video>>] # coin[<<tx[r].user, tx[r].video>>]
      BY <3>2, <3>3 DEF Price, Inv, TypeOK
    <3> QED
      BY <3>4
  <2> QED
    BY <2>1, <2>2, <2>3
<1> QED
  BY <1>1, <1>2
     DEF Next, Request, SetCoinAmount, CreateShare, StartView, CompleteView, Login, LockUser,
         InsertShare, StoreShare, InsertSession, CountView, CloseView, StoreLogin, Rollback,
         Moderate, Tick, vars, coins

(* Coins are neither made nor lost: what a user has and has given is what  *)
(* the account began with, no balance is overdrawn, and coin_count is what *)
(* the video's viewers gave, whatever requests overlap.                    *)
THEOREM CoinsAlwaysConserved == Spec => []CoinsConserved
  BY CoinsConservedInit, CoinsConservedStep, InvInit, InvStep, PTL DEF Spec

-----------------------------------------------------------------------------

(* The days the clock can reach are finitely many. *)
LEMMA EntriesFinite == IsFiniteSet(Days \X Sources)
<1>1. Days \subseteq 0..MaxTime
  <2> SUFFICES ASSUME NEW t \in 0..MaxTime PROVE t \div DayLength \in 0..MaxTime
    BY DEF Days, Day, Times
  <2>1. t \in Nat /\ DayLength \in Nat \ {0} /\ t <= MaxTime /\ MaxTime \in Nat
    BY ConstantsOK
  <2> QED
    BY <2>1
<1>2. IsFiniteSet(Days)
  <2>1. IsFiniteSet(0..MaxTime)
    BY FS_Interval, ConstantsOK
  <2> QED
    BY <1>1, <2>1, FS_Subset
<1>3. IsFiniteSet(Sources)
  <2>1. /\ Sources = {"login", "watch"} \cup {"share", "coin"}
        /\ {"login", "watch"} = {"login"} \cup {"watch"}
        /\ {"share", "coin"} = {"share"} \cup {"coin"}
    BY DEF Sources
  <2>2. \A x : IsFiniteSet({x})
    BY FS_Singleton
  <2>3. IsFiniteSet({"login"} \cup {"watch"}) /\ IsFiniteSet({"share"} \cup {"coin"})
    BY <2>2, FS_Union
  <2>4. IsFiniteSet({"login", "watch"}) /\ IsFiniteSet({"share", "coin"})
    BY <2>1, <2>3
  <2>5. IsFiniteSet({"login", "watch"} \cup {"share", "coin"})
    BY <2>4, FS_Union
  <2> QED
    BY <2>1, <2>5
<1> QED
  BY <1>2, <1>3, FS_Product

(* Experience and its daily entry grow by the same award. *)
LEMMA GrantAccounted ==
  ASSUME Inv, ExperienceAccounted, NEW r \in Requests, tx[r].op \in Sources, tx[r].step = "grant",
         NEW q \in Int, Grant(tx[r], q)
  PROVE  ExperienceAccounted'
<1>0. PICK earner, entry, award :
        /\ earner = tx[r].user /\ entry = <<Day(tx[r].at), tx[r].op>>
        /\ award = Award(tx[r].earnedToday, q, DailyLimit[tx[r].op])
  OBVIOUS
<1>1. /\ tx[r].user \in Users /\ tx[r].at \in Times /\ tx[r].earnedToday \in Nat
  BY TxCases DEF Inv, TypeOK, CoinTx, ShareTx, WatchTx, LoginTx, Open, Sources
<1>2. earner \in Users /\ entry \in Days \X Sources
  BY <1>0, <1>1 DEF Days
<1>3. award \in Nat
  <2>1. DailyLimit[tx[r].op] \in Nat
    BY ConstantsOK
  <2> QED
    BY <1>0, <1>1, <2>1, AwardType
<1>t. /\ experience \in [Users -> Nat]
      /\ daily \in [Users \X Days \X Sources -> Nat]
  BY DEF Inv, TypeOK
<1>4. experience' = [experience EXCEPT ![earner] = @ + award]
  BY <1>0 DEF Grant
<1>5. daily' = [daily EXCEPT ![<<earner, entry[1], entry[2]>>] = @ + award]
  BY <1>0 DEF Grant
<1>6. ASSUME NEW u \in Users PROVE experience'[u] = EarnedBy(u)'
  <2> DEFINE f == [k \in Days \X Sources |-> daily[<<u, k[1], k[2]>>]]
  <2> DEFINE g == [k \in Days \X Sources |-> daily'[<<u, k[1], k[2]>>]]
  <2>1. \A k \in Days \X Sources : f[k] \in Int
    BY <1>t
  <2>2. u # earner => \A k \in Days \X Sources : g[k] = f[k]
    BY <1>5, <1>t
  <2>3. u = earner => \A k \in (Days \X Sources) \ {entry} : g[k] = f[k]
    BY <1>2, <1>5, <1>t
  <2>4. u = earner => g[entry] = f[entry] + award
    BY <1>2, <1>5, <1>t
  <2>5. /\ EarnedBy(u) = SumFunctionOnSet(f, Days \X Sources)
        /\ EarnedBy(u)' = SumFunctionOnSet(g, Days \X Sources)
    BY DEF EarnedBy
  <2> HIDE DEF f, g
  <2>6. experience[u] = SumFunctionOnSet(f, Days \X Sources)
    BY <2>5 DEF ExperienceAccounted
  <2>7. CASE u = earner
    <3>1. SumFunctionOnSet(g, Days \X Sources) = SumFunctionOnSet(f, Days \X Sources) + award
      BY <1>2, <1>3, <2>1, <2>3, <2>4, <2>7, EntriesFinite, SumMoved
    <3> QED
      BY <1>4, <1>t, <2>5, <2>6, <2>7, <3>1
  <2>8. CASE u # earner
    <3>1. SumFunctionOnSet(g, Days \X Sources) = SumFunctionOnSet(f, Days \X Sources)
      BY <2>2, <2>8, EntriesFinite, SumSame
    <3> QED
      BY <1>4, <1>t, <2>5, <2>6, <2>8, <3>1
  <2> QED
    BY <2>7, <2>8
<1> QED
  BY <1>6 DEF ExperienceAccounted

LEMMA ExperienceAccountedStep == Inv /\ ExperienceAccounted /\ [Next]_vars => ExperienceAccounted'
<1> SUFFICES ASSUME Inv, ExperienceAccounted, [Next]_vars PROVE ExperienceAccounted'
  OBVIOUS
<1>1. ASSUME UNCHANGED <<experience, daily>> PROVE ExperienceAccounted'
  BY <1>1 DEF ExperienceAccounted, EarnedBy
<1>2. ASSUME NEW r \in Requests, StoreCoins(r) PROVE ExperienceAccounted'
  <2>1. /\ tx[r].op \in Sources /\ tx[r].step = "grant"
        /\ Grant(tx[r], Price(tx[r]) * PerCoin) \/ UNCHANGED earned
    BY <1>2 DEF StoreCoins, At, Sources
  <2>2. tx[r] \in CoinTx
    BY <1>2, TxCases DEF StoreCoins, At, Inv, TypeOK
  <2>3. Price(tx[r]) \in Int
    BY <2>2 DEF CoinTx, Open, Price
  <2>4. Price(tx[r]) * PerCoin \in Int
    BY <2>3, ConstantsOK
  <2>5. CASE UNCHANGED earned
    BY <1>1, <2>5 DEF earned
  <2> QED
    BY <2>1, <2>4, <2>5, GrantAccounted
<1>3. ASSUME NEW r \in Requests, StoreShare(r) PROVE ExperienceAccounted'
  <2>1. DailyLimit["share"] \in Int
    BY ConstantsOK DEF Sources
  <2> QED
    BY <1>3, <2>1, GrantAccounted DEF StoreShare, At, Sources
<1>4. ASSUME NEW r \in Requests, CountView(r) PROVE ExperienceAccounted'
  <2>1. DailyLimit["watch"] \in Int
    BY ConstantsOK DEF Sources
  <2> QED
    BY <1>4, <2>1, GrantAccounted DEF CountView, At, Sources
<1>5. ASSUME NEW r \in Requests, StoreLogin(r) PROVE ExperienceAccounted'
  <2>1. DailyLimit["login"] \in Int
    BY ConstantsOK DEF Sources
  <2> QED
    BY <1>5, <2>1, GrantAccounted DEF StoreLogin, At, Sources
<1> QED
  BY <1>1, <1>2, <1>3, <1>4, <1>5
     DEF Next, Request, SetCoinAmount, CreateShare, StartView, CompleteView, Login, LockUser,
         InsertShare, InsertSession, CloseView, Rollback, Moderate, Tick, vars, earned

(* users.experience is the sum of user_daily_experience for every user,    *)
(* however requests overlap and whichever of them fail.                    *)
THEOREM ExperienceAlwaysAccounted == Spec => []ExperienceAccounted
<1>1. Init => ExperienceAccounted
  <2> SUFFICES ASSUME Init, NEW u \in Users PROVE experience[u] = EarnedBy(u)
    BY DEF ExperienceAccounted
  <2> DEFINE f == [k \in Days \X Sources |-> daily[<<u, k[1], k[2]>>]]
  <2>1. \A k \in Days \X Sources : f[k] = 0
    BY DEF Init
  <2> HIDE DEF f
  <2>2. SumFunctionOnSet(f, Days \X Sources) = 0
    BY <2>1, EntriesFinite, SumZero
  <2> QED
    BY <2>2 DEF f, EarnedBy, Init
<1> QED
  BY <1>1, ExperienceAccountedStep, InvInit, InvStep, PTL DEF Spec

-----------------------------------------------------------------------------
(* Each request takes effect at once, at its commit.  Besides what it has  *)
(* read, a request then still relies on what it was let in for: the video  *)
(* is published, the session runs.                                         *)

KnownOf(t) ==
  /\ t.op # "idle" => t.at <= now
  /\ t.op \in {"coin", "share", "watch"} => t.video \in published
  /\ t.op = "watch" =>
       /\ started[t.arg] # Never /\ completed[t.arg] = Never /\ t.at - started[t.arg] >= MinWatch
       /\ t.step = "close" => ~Counts(t.arg, t.at)
  /\ t.op = "start" => started[t.arg] = Never

(* No two requests start the same session. *)
StartsAlone(r) ==
  tx[r].op = "start" =>
    \A q \in Requests \ {r} : tx[q].op = "start" => tx[q].arg # tx[r].arg

KnownHold == \A r \in Requests : KnownOf(tx[r]) /\ StartsAlone(r)

(* A step of a request changes the sessions of the video it has locked, or *)
(* starts its own.                                                         *)
SessionsLocked(r) ==
  /\ UNCHANGED <<now, published>>
  /\ \A s \in Sessions : completed'[s] = completed[s] \/ videoLock[Watched[s]] = r
  /\ \A s \in Sessions : started'[s] = started[s] \/ (tx[r].op = "start" /\ tx[r].arg = s)

LEMMA OthersKnown ==
  ASSUME TypeOK, LocksHeld, ReadsHold, KnownHold, NEW r \in Requests,
         WritesLocked(r), SessionsLocked(r),
         NEW q \in Requests, q # r, tx'[q] = tx[q]
  PROVE  KnownOf(tx[q])'
<1> PICK t : t = tx[q]
  OBVIOUS
<1>1. t \in Tx /\ tx'[q] = t
  BY DEF TypeOK
<1>2. KnownOf(t)
  BY DEF KnownHold
<1>3. now' = now /\ published' = published
  BY DEF SessionsLocked
<1>4. ASSUME t.op = "start" PROVE started'[t.arg] = Never
  <2>1. t.arg \in Sessions
    BY <1>1, <1>4, TxCases DEF StartTx, Open
  <2>2. ~(tx[r].op = "start" /\ tx[r].arg = t.arg)
    BY <1>4 DEF KnownHold, StartsAlone
  <2> QED
    BY <1>2, <1>4, <2>1, <2>2 DEF SessionsLocked, KnownOf
<1>5. ASSUME t.op = "watch"
      PROVE  /\ started'[t.arg] # Never /\ completed'[t.arg] = Never
             /\ t.at - started'[t.arg] >= MinWatch
             /\ t.step = "close" => ~Counts(t.arg, t.at)'
  <2>1. t.arg \in Sessions /\ t.video \in Videos
    BY <1>1, <1>5, TxCases DEF WatchTx, Open
  <2>2. t.video = Watched[t.arg]
    BY <1>5 DEF ReadsHold
  <2>3. videoLock[Watched[t.arg]] # r
    BY <1>5, <2>1, <2>2 DEF LocksHeld
  <2>4. completed'[t.arg] = completed[t.arg]
    BY <2>1, <2>3 DEF SessionsLocked
  <2>5. ~(tx[r].op = "start" /\ tx[r].arg = t.arg)
    BY <1>2, <1>5 DEF KnownHold, KnownOf
  <2>6. started'[t.arg] = started[t.arg]
    BY <2>1, <2>5 DEF SessionsLocked
  <2>7. \A s \in Sessions : \A a : s = t.arg /\ a = t.at => (Counts(s, a)' <=> Counts(s, a))
    <3> SUFFICES ASSUME NEW s \in Sessions, NEW a, s = t.arg, a = t.at
                 PROVE  Counts(s, a)' <=> Counts(s, a)
      OBVIOUS
    <3>1. \A x \in counted : x \in counted' /\ completed'[x] = completed[x]
      BY DEF WritesLocked
    <3>2. \A x \in counted' : Watched[x] = Watched[s] => x \in counted
      BY <2>3 DEF WritesLocked
    <3> QED
      BY <3>1, <3>2, CountsKept
  <2>8. Counts(t.arg, t.at)' <=> Counts(t.arg, t.at)
    BY <1>1, <2>1, <2>7
  <2> QED
    BY <1>2, <1>5, <2>4, <2>6, <2>8 DEF KnownOf
<1> QED
  BY <1>1, <1>2, <1>3, <1>4, <1>5 DEF KnownOf

LEMMA KnownFrom ==
  ASSUME TypeOK, LocksHeld, ReadsHold, KnownHold, NEW r \in Requests,
         WritesLocked(r), SessionsLocked(r),
         \A q \in Requests \ {r} : tx'[q] = tx[q],
         KnownOf(tx[r])', StartsAlone(r)'
  PROVE  KnownHold'
<1>1. ASSUME NEW q \in Requests PROVE KnownOf(tx[q])'
  BY <1>1, OthersKnown
<1>2. ASSUME NEW q \in Requests PROVE StartsAlone(q)'
  BY <1>2 DEF KnownHold, StartsAlone
<1> QED
  BY <1>1, <1>2 DEF KnownHold

LEMMA NoSession ==
  ASSUME NEW r, UNCHANGED <<now, published, views>>
  PROVE  SessionsLocked(r)
  BY DEF SessionsLocked, views

(* A request that has been let in. *)
LEMMA KnownBegun ==
  ASSUME TypeOK, LocksHeld, ReadsHold, KnownHold, NEW r \in Requests,
         NEW op, NEW step, NEW u, NEW v, NEW arg, Begin(r, op, step, u, v, arg),
         UNCHANGED <<now, published, earned, coins, shares, views>>,
         op \in {"coin", "share", "watch"} => v \in published,
         op = "watch" => MayComplete(arg) /\ (step = "close" => ~Counts(arg, now)),
         op = "start" => /\ started[arg] = Never
                         /\ \A q \in Requests : tx[q].op = "start" => tx[q].arg # arg
  PROVE  KnownHold'
<1>1. /\ tx'[r].op = op /\ tx'[r].step = step /\ tx'[r].video = v /\ tx'[r].arg = arg
      /\ tx'[r].at = now
  BY DEF Begin, TypeOK
<1>2. \A q \in Requests \ {r} : tx'[q] = tx[q]
  BY DEF Begin, TypeOK
<1>3. WritesLocked(r) /\ SessionsLocked(r)
  BY NoWrite, NoSession DEF views
<1>4. /\ now' = now /\ published' = published /\ started' = started /\ completed' = completed
      /\ counted' = counted
  BY DEF views
<1>5. now <= now
  BY DEF TypeOK, Times
<1>6. Counts(tx[r].arg, tx[r].at)' <=> Counts(arg, now)
  BY <1>1, <1>4 DEF Counts, CountedOn, CountedLike
<1>7. KnownOf(tx[r])'
  BY <1>1, <1>4, <1>5, <1>6 DEF KnownOf, MayComplete
<1>8. StartsAlone(r)'
  BY <1>1, <1>2 DEF StartsAlone
<1> QED
  BY <1>2, <1>3, <1>7, <1>8, KnownFrom

LEMMA KnownEnded ==
  ASSUME TypeOK, LocksHeld, ReadsHold, KnownHold, NEW r \in Requests, End(r),
         WritesLocked(r), SessionsLocked(r)
  PROVE  KnownHold'
<1>1. \A q \in Requests \ {r} : tx'[q] = tx[q]
  BY DEF End, TypeOK
<1>2. tx'[r].op = "idle"
  BY DEF End, TypeOK, Idle
<1>3. KnownOf(tx[r])' /\ StartsAlone(r)'
  BY <1>2 DEF KnownOf, StartsAlone
<1> QED
  BY <1>1, <1>3, KnownFrom

LEMMA KnownStep ==
  TypeOK /\ LocksHeld /\ ReadsHold /\ CountedDone /\ KnownHold /\ [Next]_vars => KnownHold'
<1> SUFFICES ASSUME TypeOK, LocksHeld, ReadsHold, CountedDone, KnownHold, [Next]_vars
             PROVE  KnownHold'
  OBVIOUS
<1>1. ASSUME NEW r \in Requests, NEW u \in Users, NEW v \in Videos, NEW n \in 1..2,
             SetCoinAmount(r, u, v, n)
      PROVE  KnownHold'
  BY <1>1, KnownBegun DEF SetCoinAmount, FindPublished
<1>2. ASSUME NEW r \in Requests, NEW u \in Users, NEW v \in Videos, NEW id \in ShareIds,
             CreateShare(r, u, v, id)
      PROVE  KnownHold'
  BY <1>2, KnownBegun DEF CreateShare, FindPublished
<1>3. ASSUME NEW r \in Requests, NEW s \in Sessions, StartView(r, s)
      PROVE  KnownHold'
  <2>1. ASSUME NEW q \in Requests, tx[q].op = "start" PROVE tx[q].arg # s
    <3>1. tx[q].step = "insert"
      BY <2>1, TxCases DEF TypeOK, StartTx, Open
    <3> QED
      BY <1>3, <2>1, <3>1 DEF StartView, At
  <2>2. /\ Begin(r, "start", "insert", Viewer[s], Watched[s], s) /\ started[s] = Never
        /\ UNCHANGED <<now, published, earned, coins, shares, views>>
    BY <1>3 DEF StartView
  <2> QED
    BY <2>1, <2>2, KnownBegun
<1>4. ASSUME NEW r \in Requests, NEW s \in Sessions, CompleteView(r, s)
      PROVE  KnownHold'
  <2> DEFINE step == IF Counts(s, now) THEN "lockUser" ELSE "close"
  <2>1. /\ Begin(r, "watch", step, Viewer[s], Watched[s], s)
        /\ Watched[s] \in published /\ MayComplete(s)
        /\ UNCHANGED <<now, published, earned, coins, shares, views>>
    BY <1>4 DEF CompleteView, FindPublished
  <2>2. step = "close" => ~Counts(s, now)
    OBVIOUS
  <2> HIDE DEF step
  <2> QED
    BY <2>1, <2>2, KnownBegun
<1>5. ASSUME NEW r \in Requests, NEW u \in Users, Login(r, u)
      PROVE  KnownHold'
  BY <1>5, KnownBegun DEF Login
<1>6. ASSUME NEW r \in Requests, LockUser(r) PROVE KnownHold'
  <2> DEFINE t == tx[r]
             at == IF t.op = "coin" THEN now ELSE t.at
  <2>1. t \in CoinTx \cup ShareTx \cup WatchTx \cup LoginTx /\ t.step = "lockUser"
    BY <1>6, TxCases DEF LockUser, TypeOK, StartTx, Open
  <2>2. /\ tx' = [tx EXCEPT ![r] = [t EXCEPT !.step = "grant", !.at = at,
                                             !.earnedToday = daily[<<t.user, Day(at), t.op>>],
                                             !.funds = balance[t.user]]]
        /\ UNCHANGED <<now, published, earned, coins, shares, views>>
    BY <1>6 DEF LockUser
  <2>3. WritesLocked(r) /\ SessionsLocked(r)
    BY <2>2, NoWrite, NoSession DEF views
  <2>4. \A q \in Requests \ {r} : tx'[q] = tx[q]
    BY <2>2 DEF TypeOK
  <2>5. KnownOf(t)
    BY DEF KnownHold
  <2>6. /\ tx'[r].op = t.op /\ tx'[r].step = "grant" /\ tx'[r].video = t.video
        /\ tx'[r].arg = t.arg /\ tx'[r].at = at
    BY <2>1, <2>2 DEF TypeOK, CoinTx, ShareTx, WatchTx, LoginTx, Open
  <2>7. t.op \in {"coin", "share", "watch", "login"}
    BY <2>1 DEF CoinTx, ShareTx, WatchTx, LoginTx, Open
  <2>8. /\ now' = now /\ published' = published /\ started' = started /\ completed' = completed
    BY <2>2 DEF views
  <2>9. at <= now /\ (t.op = "watch" => at = t.at)
    BY <2>5, <2>7 DEF KnownOf, TypeOK, Times
  <2>10. KnownOf(tx[r])'
    <3> HIDE DEF t, at
    <3> QED
      BY <2>5, <2>6, <2>7, <2>8, <2>9 DEF KnownOf
  <2>11. StartsAlone(r)'
    BY <2>6, <2>7 DEF StartsAlone
  <2> QED
    BY <2>3, <2>4, <2>10, <2>11, KnownFrom
<1>7. ASSUME NEW r \in Requests, InsertShare(r) PROVE KnownHold'
  <2> DEFINE t == tx[r]
  <2>1. UNCHANGED <<now, published, earned, coins, shares, views>>
    BY <1>7 DEF InsertShare
  <2>2. WritesLocked(r) /\ SessionsLocked(r)
    BY <2>1, NoWrite, NoSession DEF views
  <2>3. CASE Repeats(t)
    BY <1>7, <2>2, <2>3, KnownEnded DEF InsertShare
  <2>4. CASE ~Repeats(t)
    <3>1. t \in ShareTx /\ t.op = "share"
      BY <1>7, TxCases DEF InsertShare, At, TypeOK
    <3>2. tx' = [tx EXCEPT ![r] = [t EXCEPT !.step = "lockUser", !.at = now]]
      BY <1>7, <2>4 DEF InsertShare
    <3>3. tx'[r].op = "share" /\ tx'[r].video = t.video /\ tx'[r].at = now
      BY <3>1, <3>2 DEF TypeOK, ShareTx, Open
    <3>4. \A q \in Requests \ {r} : tx'[q] = tx[q]
      BY <3>2 DEF TypeOK
    <3>5. t.video \in published /\ now <= now
      BY <3>1 DEF KnownHold, KnownOf, TypeOK, Times
    <3>6. KnownOf(tx[r])' /\ StartsAlone(r)'
      BY <2>1, <3>3, <3>5 DEF KnownOf, StartsAlone
    <3> QED
      BY <2>2, <3>4, <3>6, KnownFrom
  <2> QED
    BY <2>3, <2>4
<1>8. ASSUME NEW r \in Requests,
             \/ StoreCoins(r) \/ StoreShare(r) \/ InsertSession(r) \/ CountView(r)
             \/ CloseView(r) \/ StoreLogin(r) \/ Rollback(r)
      PROVE  KnownHold'
  <2>1. WritesLocked(r) /\ End(r)
    BY <1>8, WritesAreLocked
  <2>2. ASSUME CountView(r) \/ CloseView(r) PROVE SessionsLocked(r)
    <3>1. tx[r] \in WatchTx /\ tx[r].op = "watch"
      BY <2>2, TxCases DEF CountView, CloseView, At, TypeOK
    <3>2. tx[r].arg \in Sessions /\ tx[r].video \in Videos
      BY <3>1 DEF WatchTx, Open
    <3>3. videoLock[Watched[tx[r].arg]] = r
      <4>1. videoLock[tx[r].video] = r
        BY <3>1, <3>2 DEF LocksHeld
      <4>2. tx[r].video = Watched[tx[r].arg]
        BY <3>1 DEF ReadsHold
      <4> QED
        BY <4>1, <4>2
    <3>4. /\ completed' = [completed EXCEPT ![tx[r].arg] = tx[r].at]
          /\ UNCHANGED <<now, published, started>>
      BY <2>2 DEF CountView, CloseView
    <3> QED
      BY <3>3, <3>4 DEF SessionsLocked, TypeOK
  <2>3. ASSUME InsertSession(r) PROVE SessionsLocked(r)
    <3>1. /\ started' = [started EXCEPT ![tx[r].arg] = tx[r].at] /\ tx[r].op = "start"
          /\ UNCHANGED <<now, published, completed>>
      BY <2>3 DEF InsertSession, At
    <3> QED
      BY <3>1 DEF SessionsLocked, TypeOK
  <2>4. ASSUME StoreCoins(r) \/ StoreShare(r) \/ StoreLogin(r) \/ Rollback(r)
        PROVE  SessionsLocked(r)
    BY <2>4, NoSession DEF StoreCoins, StoreShare, StoreLogin, Rollback
  <2> QED
    BY <1>8, <2>1, <2>2, <2>3, <2>4, KnownEnded
<1>9. ASSUME NEW v \in Moderated, Moderate(v) PROVE KnownHold'
  <2>1. UNCHANGED <<now, views, tx>> /\ videoLock[v] = None
    BY <1>9 DEF Moderate
  <2>2. \A w \in published : w # v => w \in published'
    BY <1>9 DEF Moderate
  <2>3. ASSUME NEW r \in Requests, tx[r].op \in {"coin", "share", "watch"}
        PROVE  tx[r].video \in published'
    <3>1. tx[r].video \in Videos
      BY <2>3, TxCases DEF TypeOK, CoinTx, ShareTx, WatchTx, Open
    <3>2. videoLock[tx[r].video] = r
      BY <2>3, <3>1 DEF LocksHeld
    <3>3. tx[r].video # v
      BY <2>1, <3>2, ConstantsOK
    <3> QED
      BY <2>2, <2>3, <3>3 DEF KnownHold, KnownOf
  <2>4. ASSUME NEW r \in Requests PROVE KnownOf(tx[r])' /\ StartsAlone(r)'
    <3>1. KnownOf(tx[r]) /\ StartsAlone(r)
      BY DEF KnownHold
    <3> QED
      BY <2>1, <2>3, <3>1 DEF KnownOf, StartsAlone, Counts, CountedOn, CountedLike, views
  <2> QED
    BY <2>4 DEF KnownHold
<1>10. ASSUME Tick PROVE KnownHold'
  <2>1. UNCHANGED <<published, views, tx>> /\ now' = now + 1 /\ now \in Int
    BY <1>10 DEF Tick, TypeOK, Times
  <2>2. ASSUME NEW r \in Requests PROVE KnownOf(tx[r])' /\ StartsAlone(r)'
    <3>1. KnownOf(tx[r]) /\ StartsAlone(r)
      BY DEF KnownHold
    <3>2. tx[r].op # "idle" => tx[r].at \in Int
      BY TxCases DEF TypeOK, CoinTx, ShareTx, StartTx, WatchTx, LoginTx, Open, Times
    <3>3. tx[r].op # "idle" => tx[r].at <= now'
      BY <2>1, <3>1, <3>2 DEF KnownOf
    <3> QED
      BY <2>1, <3>1, <3>3 DEF KnownOf, StartsAlone, Counts, CountedOn, CountedLike, views
  <2> QED
    BY <2>2 DEF KnownHold
<1>11. ASSUME UNCHANGED vars PROVE KnownHold'
  BY <1>11 DEF vars, KnownHold, KnownOf, StartsAlone, Counts, CountedOn, CountedLike, views
<1> QED
  BY <1>1, <1>2, <1>3, <1>4, <1>5, <1>6, <1>7, <1>8, <1>9, <1>10, <1>11 DEF Next, Request

LEMMA KnownInit == Init => KnownHold
  BY DEF Init, KnownHold, KnownOf, StartsAlone, Idle

(* What the limit leaves is one award.                                     *)
LEMMA AwardExact ==
  ASSUME NEW c \in Nat, NEW q \in Nat, NEW l \in Nat, c <= l
  PROVE  /\ Award(c, q, l) \in 0..q
         /\ c + Award(c, q, l) <= l
         /\ Award(c, q, l) = q \/ c + Award(c, q, l) = l
  BY DEF Award

LEMMA GrantEarns ==
  ASSUME Inv, DailyCapped, NEW r \in Requests, tx[r].op \in Sources, tx[r].step = "grant",
         NEW q \in Nat, Grant(tx[r], q)
  PROVE  Ledger!EarnAt(tx[r].user, tx[r].op, tx[r].at, q)
<1> PICK u, at, op : u = tx[r].user /\ at = tx[r].at /\ op = tx[r].op
  OBVIOUS
<1>1. u \in Users /\ at \in Times /\ op \in Sources /\ op # "idle"
  BY TxCases DEF Inv, TypeOK, CoinTx, ShareTx, WatchTx, LoginTx, Open, Sources
<1>2. Day(at) \in Days
  BY <1>1 DEF Days
<1> PICK k : k = <<u, Day(at), op>>
  OBVIOUS
<1>3. tx[r].earnedToday = daily[k]
  BY <1>1 DEF Inv, ReadsHold
<1>4. daily[k] \in Nat /\ daily[k] <= DailyLimit[op] /\ DailyLimit[op] \in Nat
  BY <1>1, <1>2, ConstantsOK DEF Inv, TypeOK, DailyCapped
<1> PICK award : award = Award(daily[k], q, DailyLimit[op])
  OBVIOUS
<1>5. /\ award \in 0..q
      /\ daily[k] + award <= DailyLimit[op]
      /\ award = q \/ daily[k] + award = DailyLimit[op]
  BY <1>4, AwardExact
<1>6. /\ daily' = [daily EXCEPT ![k] = @ + award]
      /\ experience' = [experience EXCEPT ![u] = @ + award]
  BY <1>3 DEF Grant
<1>7. <<u, Ledger!Day(at), op>> = k
  BY DEF Ledger!Day, Day
<1>8. Ledger!EarnAt(u, op, at, q)
  <2>1. SUFFICES \E a \in 0..q :
          /\ daily[k] + a <= DailyLimit[op]
          /\ a = q \/ daily[k] + a = DailyLimit[op]
          /\ daily' = [daily EXCEPT ![k] = @ + a]
          /\ experience' = [experience EXCEPT ![u] = @ + a]
    BY <1>7 DEF Ledger!EarnAt
  <2> QED
    BY <1>5, <1>6
<1> QED
  BY <1>8

LEMMA EarnsByNow ==
  ASSUME NEW u, NEW source, NEW q, NEW at \in 0..now, Ledger!EarnAt(u, source, at, q)
  PROVE  Ledger!Earn(u, source, q)
  BY DEF Ledger!Earn, Ledger!Clock

(* The instance of RewardLedger has a Cardinality of its own.              *)
LEMMA CountsAgree ==
  ASSUME NEW s, NEW at
  PROVE  Ledger!Counts(s, at) <=> Counts(s, at)
<1>1. \A x : Ledger!Day(x) = Day(x)
  BY DEF Day, Ledger!Day
<1>2. CountedOn(s, Day(at)) = {x \in CountedLike(s) : Ledger!Day(completed[x]) = Ledger!Day(at)}
  BY <1>1 DEF CountedOn
<1>3. Ledger!Counts(s, at) <=>
        /\ \A x \in CountedLike(s) : at - completed[x] >= Interval
        /\ Cardinality({x \in CountedLike(s) : Ledger!Day(completed[x]) = Ledger!Day(at)}) < DailyViews
  BY DEF CountedLike, Ledger!Counts, Cardinality, Ledger!Cardinality
<1> QED
  BY <1>2, <1>3 DEF Counts

-----------------------------------------------------------------------------
(* The steps that write are the ledger's; the others leave the tables.     *)

Promise == Inv /\ KnownHold /\ DailyCapped

Tables == <<now, published, earned, coins, shares, views>>

LEMMA Hidden ==
  ASSUME UNCHANGED Tables PROVE UNCHANGED Ledger!vars
  BY DEF Tables, Ledger!vars, earned, coins, shares, views

LEMMA Served ==
  ASSUME Promise, NEW r \in Requests, tx[r].op # "idle"
  PROVE  tx[r].at \in 0..now
<1>1. tx[r].at \in 0..MaxTime /\ now \in 0..MaxTime /\ MaxTime \in Nat
  BY TxCases, ConstantsOK
     DEF Promise, Inv, TypeOK, Times, CoinTx, ShareTx, StartTx, WatchTx, LoginTx, Open
<1>2. tx[r].at <= now
  BY DEF Promise, KnownHold, KnownOf
<1> QED
  BY <1>1, <1>2

LEMMA GivesAtOnce ==
  ASSUME Promise, NEW r \in Requests, StoreCoins(r)
  PROVE  [Ledger!Next]_(Ledger!vars)
<1> PICK t : t = tx[r]
  OBVIOUS
<1>1. t \in CoinTx /\ t.op = "coin" /\ t.step = "grant"
  BY TxCases DEF StoreCoins, At, Promise, Inv, TypeOK
<1>2. t.user \in Users /\ t.video \in Videos /\ t.arg \in 1..2 /\ t.given \in 0..2 /\ t.at \in 0..now
  BY <1>1, Served DEF CoinTx, Open
<1>3. CASE UNCHANGED <<coins, earned>>
  BY <1>3, Hidden DEF StoreCoins, Tables
<1>4. CASE ~UNCHANGED <<coins, earned>>
  <2>1. /\ Price(t) > 0 /\ t.funds >= Price(t)
        /\ balance' = [balance EXCEPT ![t.user] = @ - Price(t)]
        /\ coin' = [coin EXCEPT ![<<t.user, t.video>>] = t.arg]
        /\ coinCount' = [coinCount EXCEPT ![t.video] = @ + Price(t)]
        /\ Grant(t, Price(t) * PerCoin)
        /\ UNCHANGED <<now, published, shares, views>>
    BY <1>4 DEF StoreCoins
  <2>2. Price(t) = t.arg - coin[<<t.user, t.video>>] /\ t.funds = balance[t.user]
    BY <1>1 DEF Promise, Inv, ReadsHold, Price
  <2>3. t.video \in published
    BY <1>1 DEF Promise, KnownHold, KnownOf
  <2>4. Price(t) \in Nat
    BY <1>2, <2>1 DEF Price
  <2>5. Price(t) * PerCoin \in Nat
    BY <2>4, ConstantsOK
  <2>6. Ledger!Earn(t.user, "coin", Price(t) * PerCoin)
    BY <1>1, <1>2, <2>1, <2>5, GrantEarns, EarnsByNow DEF Promise, Sources
  <2>7. Price(t) <= balance[t.user]
    BY <1>2, <2>1, <2>2, <2>4 DEF Promise, Inv, TypeOK
  <2>8. Ledger!Give(t.user, t.video, t.arg)
    BY <2>1, <2>2, <2>3, <2>6, <2>7 DEF Ledger!Give, Ledger!shares, Ledger!views, shares, views
  <2> QED
    BY <1>2, <2>8 DEF Ledger!Next
<1> QED
  BY <1>3, <1>4

LEMMA SharesAtOnce ==
  ASSUME Promise, NEW r \in Requests, StoreShare(r)
  PROVE  [Ledger!Next]_(Ledger!vars)
<1> PICK t : t = tx[r]
  OBVIOUS
<1>1. t \in ShareTx /\ t.op = "share" /\ t.step = "grant"
  BY TxCases DEF StoreShare, At, Promise, Inv, TypeOK
<1>2. t.user \in Users /\ t.video \in Videos /\ t.arg \in ShareIds /\ t.at \in 0..now
  BY <1>1, Served DEF ShareTx, Open
<1>3. <<t.user, t.video, t.arg>> \notin share
  BY <1>1 DEF Promise, Inv, ReadsHold, Repeats
<1>4. t.video \in published
  BY <1>1 DEF Promise, KnownHold, KnownOf
<1>5. DailyLimit["share"] \in Nat
  BY ConstantsOK DEF Sources
<1>6. Ledger!Earn(t.user, "share", DailyLimit["share"])
  BY <1>1, <1>2, <1>5, GrantEarns, EarnsByNow DEF StoreShare, Promise, Sources
<1>7. Ledger!Share(t.user, t.video, t.arg)
  BY <1>3, <1>4, <1>6 DEF StoreShare, Ledger!Share, Ledger!coins, Ledger!views, coins, views
<1> QED
  BY <1>2, <1>7 DEF Ledger!Next

LEMMA StartsAtOnce ==
  ASSUME Promise, NEW r \in Requests, InsertSession(r)
  PROVE  [Ledger!Next]_(Ledger!vars)
<1> PICK t : t = tx[r]
  OBVIOUS
<1>1. t \in StartTx /\ t.op = "start"
  BY TxCases DEF InsertSession, At, Promise, Inv, TypeOK
<1>2. t.arg \in Sessions /\ t.at \in 0..now
  BY <1>1, Served DEF StartTx, Open
<1>3. started[t.arg] = Ledger!Never
  BY <1>1 DEF Promise, KnownHold, KnownOf, Never, Ledger!Never
<1>4. Ledger!Start(t.arg)
  BY <1>2, <1>3 DEF InsertSession, Ledger!Start, Ledger!Clock, Ledger!earned, Ledger!coins, Ledger!shares,
              earned, coins, shares
<1> QED
  BY <1>2, <1>4 DEF Ledger!Next

LEMMA CompletesAtOnce ==
  ASSUME Promise, NEW r \in Requests, CountView(r) \/ CloseView(r)
  PROVE  [Ledger!Next]_(Ledger!vars)
<1> PICK t : t = tx[r]
  OBVIOUS
<1>1. t \in WatchTx /\ t.op = "watch"
  BY TxCases DEF CountView, CloseView, At, Promise, Inv, TypeOK
<1>2. t.arg \in Sessions /\ t.at \in 0..now
  BY <1>1, Served DEF WatchTx, Open
<1>3. t.user = Viewer[t.arg] /\ t.video = Watched[t.arg] /\ (t.step # "close" => Counts(t.arg, t.at))
  BY <1>1 DEF Promise, Inv, ReadsHold
<1>4. /\ t.video \in published
      /\ started[t.arg] # Ledger!Never /\ completed[t.arg] = Ledger!Never
      /\ t.at - started[t.arg] >= MinWatch
      /\ t.step = "close" => ~Counts(t.arg, t.at)
  BY <1>1 DEF Promise, KnownHold, KnownOf, Never, Ledger!Never
<1>5. ASSUME CountView(r) PROVE Ledger!Complete(t.arg)
  <2>1. t.step = "grant"
    BY <1>5 DEF CountView, At
  <2>2. Ledger!Counts(t.arg, t.at)
    BY <1>3, <2>1, CountsAgree
  <2>3. DailyLimit["watch"] \in Nat
    BY ConstantsOK DEF Sources
  <2>4. Ledger!EarnAt(Viewer[t.arg], "watch", t.at, DailyLimit["watch"])
    BY <1>1, <1>3, <1>5, <2>1, <2>3, GrantEarns DEF CountView, Promise, Sources
  <2> QED
    BY <1>2, <1>3, <1>4, <1>5, <2>2, <2>4
       DEF CountView, Ledger!Complete, Ledger!CompleteAt, Ledger!Clock, Ledger!coins,
           Ledger!shares, coins, shares
<1>6. ASSUME CloseView(r) PROVE Ledger!Complete(t.arg)
  <2>1. ~Ledger!Counts(t.arg, t.at)
    BY <1>4, <1>6, CountsAgree DEF CloseView, At
  <2> QED
    BY <1>2, <1>3, <1>4, <1>6, <2>1
       DEF CloseView, Ledger!Complete, Ledger!CompleteAt, Ledger!Clock, Ledger!earned, Ledger!coins, Ledger!shares,
           earned, coins, shares
<1> QED
  BY <1>2, <1>5, <1>6 DEF Ledger!Next

LEMMA LogsInAtOnce ==
  ASSUME Promise, NEW r \in Requests, StoreLogin(r)
  PROVE  [Ledger!Next]_(Ledger!vars)
<1> PICK t : t = tx[r]
  OBVIOUS
<1>1. t \in LoginTx /\ t.op = "login" /\ t.step = "grant"
  BY TxCases DEF StoreLogin, At, Promise, Inv, TypeOK
<1>2. t.user \in Users /\ t.at \in 0..now
  BY <1>1, Served DEF LoginTx, Open
<1>3. DailyLimit["login"] \in Nat
  BY ConstantsOK DEF Sources
<1>4. Ledger!Earn(t.user, "login", DailyLimit["login"])
  BY <1>1, <1>2, <1>3, GrantEarns, EarnsByNow DEF StoreLogin, Promise, Sources
<1>5. Ledger!Login(t.user)
  BY <1>4 DEF StoreLogin, Ledger!Login, Ledger!coins, Ledger!shares, Ledger!views,
              coins, shares, views
<1> QED
  BY <1>2, <1>5 DEF Ledger!Next

LEMMA LedgerStep == Promise /\ [Next]_vars => [Ledger!Next]_(Ledger!vars)
<1> SUFFICES ASSUME Promise, [Next]_vars PROVE [Ledger!Next]_(Ledger!vars)
  OBVIOUS
<1>1. ASSUME NEW r \in Requests, Request(r) \/ LockUser(r) \/ InsertShare(r) \/ Rollback(r)
      PROVE  UNCHANGED Tables
  BY <1>1 DEF Request, SetCoinAmount, CreateShare, StartView, CompleteView, Login, LockUser,
              InsertShare, Rollback, Tables
<1>2. ASSUME NEW v \in Moderated, Moderate(v) PROVE Ledger!Next
  <2>1. published' = (published \ {v}) \cup ({v} \ published)
    <3>1. CASE v \in published
      BY <1>2, <3>1 DEF Moderate
    <3>2. CASE v \notin published
      BY <1>2, <3>2 DEF Moderate
    <3> QED
      BY <3>1, <3>2
  <2>2. Ledger!Moderate(v)
    BY <1>2, <2>1 DEF Moderate, Ledger!Moderate, Ledger!earned, Ledger!coins, Ledger!shares,
                      Ledger!views, earned, coins, shares, views
  <2> QED
    BY <2>2 DEF Ledger!Next
<1>3. ASSUME Tick PROVE Ledger!Next
  BY <1>3 DEF Tick, Ledger!Tick, Ledger!earned, Ledger!coins, Ledger!shares, Ledger!views,
              earned, coins, shares, views, Ledger!Next
<1>4. ASSUME UNCHANGED vars PROVE UNCHANGED Tables
  BY <1>4 DEF vars, Tables
<1> QED
  BY <1>1, <1>2, <1>3, <1>4, Hidden, GivesAtOnce, SharesAtOnce, StartsAtOnce, CompletesAtOnce,
     LogsInAtOnce DEF Next

LEMMA LedgerInit == Init => Ledger!Init
  BY DEF Init, Ledger!Init, Days, Day, Times, Sources, Never, Ledger!Day, Ledger!Times,
         Ledger!Sources, Ledger!Never

(* However requests overlap, wait and fail, the tables change as if each   *)
(* had been served as a whole at its commit: coins, shares, views, logins  *)
(* and the experience they earn are serializable.                          *)
THEOREM RequestsServedAtOnce == Spec => ServedAtOnce
<1>1. Init => Promise
  <2>1. Init => DailyCapped
    BY ConstantsOK DEF Init, DailyCapped
  <2> QED
    BY <2>1, InvInit, KnownInit DEF Promise
<1>2. Promise /\ [Next]_vars => Promise'
  BY InvStep, KnownStep, DailyCappedStep DEF Promise, Inv
<1> QED
  BY <1>1, <1>2, LedgerInit, LedgerStep, PTL DEF Spec, ServedAtOnce, Ledger!Spec
=============================================================================
