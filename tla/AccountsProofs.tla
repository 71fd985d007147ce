---------------------------- MODULE AccountsProofs ----------------------------
(***************************************************************************)
(* Proofs about Accounts: types; that the avatar a row names is kept,      *)
(* whatever requests replace, delete and fail side by side and wherever    *)
(* the process ends between two of their steps; what the rate limiter lets *)
(* through in a window, for every limit and every length of a window; and  *)
(* what Gateway says of requests: which messages both transports accept,   *)
(* for messages of any lengths, that every route is reached, and which     *)
(* bodies, of any number of parts, begin an upload.                        *)
(***************************************************************************)
EXTENDS Accounts, FiniteSums

-----------------------------------------------------------------------------
(* Types.                                                                  *)

Rows == [exists : BOOLEAN, avatar : Images \cup {""}]
Sessions == [user : Users \cup {0}, access : 0 .. AccessTTL, refresh : 0 .. RefreshTTL]
Counters == [count : Nat, left : 0 .. Window]
Served == [stage : Stages, client : Clients \cup {""}, user : Users \cup {0},
           image : Images \cup {""}]

\* Stages that act on the account their request names.
OnAccount == {"Register", "Login", "store", "update", "remove"}

\* Which account a request in such a stage names.
Named == \A r \in Requests : request[r].stage \in OnAccount => request[r].user \in Users

TypeInv ==
    /\ account \in [Users -> Rows]
    /\ stored \subseteq Images
    /\ session \in [Clients -> Sessions]
    /\ counter \in [Keys -> Counters]
    /\ request \in [Requests -> Served]
    /\ admitted \in [Keys -> [Ages -> Nat]]
    /\ unknown \subseteq Users

IInv == TypeInv /\ Named

LEMMA TypeInvCorrect == TypeInv => TypeOK
BY DEF TypeInv, TypeOK, Rows, Sessions, Counters, Served

\* What the constants are.
LEMMA Bounds ==
    /\ Window \in Nat /\ Window > 0
    /\ AccessTTL \in Nat /\ RefreshTTL \in Nat
<1>1. Window \in Nat \ {0} /\ AccessTTL \in Nat \ {0} /\ RefreshTTL \in Nat
  BY AccountsAssumption, Zenon DEF AccountsAssumption
<1> QED BY <1>1

LEMMA IdleServed == Idle \in Served /\ Idle.stage = "idle" /\ Idle.image = ""
BY DEF Idle, Served, Stages

LEMMA SessionsMade ==
    /\ NoSession \in Sessions
    /\ \A u \in Users : [user |-> u, access |-> AccessTTL, refresh |-> RefreshTTL] \in Sessions
BY Bounds DEF NoSession, Sessions

LEMMA Issuing ==
    ASSUME session \in [Clients -> Sessions], NEW c, NEW u \in Users, IssueSession(c, u)
    PROVE  session' \in [Clients -> Sessions]
BY SessionsMade DEF IssueSession

LEMMA Incremented ==
    ASSUME counter \in [Keys -> Counters], NEW k \in Keys
    PROVE  IncrementRateLimit(k) \in Counters
<1>1. PICK n \in Nat, l \in 0 .. Window : counter[k] = [count |-> n, left |-> l]
  BY DEF Counters
<1>2. CASE n = 0
  BY <1>1, <1>2, Bounds DEF IncrementRateLimit, Counters
<1>3. CASE n # 0
  <2>1. IncrementRateLimit(k) =
            [count |-> IF n > Limit[k[1]] THEN n ELSE n + 1, left |-> l]
    BY <1>1, <1>3 DEF IncrementRateLimit
  <2> QED BY <2>1 DEF Counters
<1> QED BY <1>2, <1>3

LEMMA Allowing ==
    ASSUME counter \in [Keys -> Counters], admitted \in [Keys -> [Ages -> Nat]],
           NEW k, NEW allowed \in BOOLEAN, Allow(k, allowed)
    PROVE  counter' \in [Keys -> Counters] /\ admitted' \in [Keys -> [Ages -> Nat]]
<1>1. CASE UNCHANGED <<counter, admitted>>
  BY <1>1
<1>2. CASE /\ counter' = [counter EXCEPT ![k] = IncrementRateLimit(k)]
           /\ admitted' = IF allowed THEN [admitted EXCEPT ![k][0] = @ + 1] ELSE admitted
  <2>1. counter' \in [Keys -> Counters]
    BY <1>2, Incremented
  <2>2. 0 \in Ages
    BY Bounds DEF Ages
  <2>3. admitted' \in [Keys -> [Ages -> Nat]]
    <3>1. CASE k \notin Keys
      BY <1>2, <3>1
    <3>2. CASE k \in Keys
      <4>1. admitted[k] \in [Ages -> Nat]
        BY <3>2
      <4>2. [admitted[k] EXCEPT ![0] = admitted[k][0] + 1] \in [Ages -> Nat]
        BY <2>2, <4>1
      <4> QED BY <1>2, <3>2, <4>2
    <3> QED BY <3>1, <3>2
  <2> QED BY <2>1, <2>3
<1> QED BY <1>1, <1>2 DEF Allow

\* What a request is when its handler begins.
LEMMA Beginning ==
    ASSUME session \in [Clients -> Sessions], NEW c \in Clients, NEW u \in Users,
           NEW op \in Acting
    PROVE  /\ Begin(op, c, u) \in Served
           /\ Begin(op, c, u).stage \in OnAccount => Begin(op, c, u).user \in Users
           /\ Begin(op, c, u).image = ""
<1>1. Refreshed(c) \in Users \cup {0}
  BY DEF Refreshed, Sessions
<1>2. FirstStage(op) \in Stages /\ (op = "Refresh" => FirstStage(op) \notin OnAccount)
  BY DEF FirstStage, Stages, OnAccount, Acting
<1> QED BY <1>1, <1>2 DEF Begin, Served

\* How an arriving request changes the state.
LEMMA Receiving ==
    ASSUME IInv, NEW r \in Requests, NEW c \in Clients, NEW op \in UserOperations,
           NEW u \in Users, NEW bearer, Receive(r, c, op, bearer, u)
    PROVE  /\ UNCHANGED <<account, stored, session, unknown>>
           /\ counter' \in [Keys -> Counters] /\ admitted' \in [Keys -> [Ages -> Nat]]
           /\ \E v \in Served :
                 /\ request' = [request EXCEPT ![r] = v]
                 /\ v.stage \in OnAccount => v.user \in Users
                 /\ v.image = ""
<1> USE DEF IInv
<1>1. PICK allowed \in BOOLEAN :
        /\ Allow(Key(op, c, Authenticate(bearer)), allowed)
        /\ request' = IF allowed /\ <<op, Authenticate(bearer)>> \in
                                        Accepted \cap (Acting \X Identities)
                      THEN [request EXCEPT ![r] = Begin(op, c, u)] ELSE request
        /\ request[r] = Idle
        /\ UNCHANGED <<account, stored, session, unknown>>
  BY DEF Receive
<1>2. counter' \in [Keys -> Counters] /\ admitted' \in [Keys -> [Ages -> Nat]]
  BY <1>1, Allowing DEF TypeInv, IInv
<1>3. CASE request' = request
  BY <1>1, <1>2, <1>3, IdleServed DEF TypeInv, OnAccount
<1>4. CASE /\ request' = [request EXCEPT ![r] = Begin(op, c, u)]
           /\ <<op, Authenticate(bearer)>> \in Accepted \cap (Acting \X Identities)
  <2>1. op \in Acting
    BY <1>4
  <2> DEFINE v == Begin(op, c, u)
  <2>2. v \in Served /\ (v.stage \in OnAccount => v.user \in Users) /\ v.image = ""
    BY <2>1, Beginning DEF TypeInv, IInv
  <2>3. request' = [request EXCEPT ![r] = v]
    BY <1>4
  <2> HIDE DEF v
  <2> QED BY <1>1, <1>2, <2>2, <2>3
<1> QED BY <1>1, <1>3, <1>4

-----------------------------------------------------------------------------
(* Avatars. The invariant follows every file: the one a row names is not   *)
(* named by another row; the one a request has stored and not yet put into *)
(* a row is its own; the one a request removes is no longer in a row,      *)
(* unless a commit of that row went unacknowledged.                        *)

Distinct ==
    \A u, v \in Users :
        account[u].avatar = account[v].avatar /\ account[u].avatar # "" => u = v

Unused ==
    \A r \in Requests : request[r].stage = "update" /\ request[r].image # "" =>
        /\ request[r].image \in stored
        /\ \A u \in Users : account[u].avatar # request[r].image
        /\ \A q \in Requests \ {r} : request[q].image # request[r].image

Replaced ==
    \A r \in Requests : request[r].stage = "remove" /\ request[r].image # "" =>
        \A u \in Users \ unknown : account[u].avatar # request[r].image

AvatarInv == AvatarServed /\ Distinct /\ Unused /\ Replaced

\* A request that holds no image disturbs no other, and rows keep theirs.
LEMMA Holdless ==
    ASSUME AvatarInv, request \in [Requests -> Served],
           NEW r \in Requests, NEW v \in Served, v.image = "",
           request' = [request EXCEPT ![r] = v],
           \A u \in Users : account'[u].avatar = account[u].avatar,
           stored' = stored, unknown' = unknown
    PROVE  AvatarInv'
<1>1. request'[r] = v /\ \A q \in Requests \ {r} : request'[q] = request[q]
  OBVIOUS
<1>2. AvatarServed' /\ Distinct'
  BY DEF AvatarInv, AvatarServed, Distinct
<1>3. Unused'
  <2> SUFFICES ASSUME NEW q \in Requests, request'[q].stage = "update", request'[q].image # ""
               PROVE  /\ request'[q].image \in stored
                      /\ \A u \in Users : account'[u].avatar # request'[q].image
                      /\ \A p \in Requests \ {q} : request'[p].image # request'[q].image
    BY DEF Unused
  <2>1. q # r /\ request'[q] = request[q]
    BY <1>1
  <2>2. /\ request[q].image \in stored
        /\ \A u \in Users : account[u].avatar # request[q].image
        /\ \A p \in Requests \ {q} : request[p].image # request[q].image
    BY <2>1 DEF AvatarInv, Unused
  <2>3. \A p \in Requests \ {q} : request'[p].image # request[q].image
    BY <1>1, <2>1, <2>2
  <2> QED BY <2>1, <2>2, <2>3
<1>4. Replaced'
  BY <1>1 DEF AvatarInv, Replaced
<1> QED BY <1>2, <1>3, <1>4 DEF AvatarInv

\* A user's row keeps its avatar when the account is made.
LEMMA RegisterStep ==
    ASSUME IInv, AvatarInv, NEW r \in Requests, Register(r)
    PROVE  (IInv /\ AvatarInv)'
<1> DEFINE u == request[r].user
<1>1. u \in Users
  BY DEF Register, IInv, Named, OnAccount
<1>2. account' \in [Users -> Rows] /\ \A w \in Users : account'[w].avatar = account[w].avatar
  <2>1. CASE UNCHANGED account
    BY <2>1 DEF TypeInv, IInv
  <2>2. CASE account' = [account EXCEPT ![u].exists = TRUE]
    <3> DEFINE row == [account[u] EXCEPT !.exists = TRUE]
    <3>1. account' = [account EXCEPT ![u] = row]
      BY <2>2
    <3>2. account \in [Users -> Rows]
      BY DEF IInv, TypeInv
    <3>3. row \in Rows /\ row.avatar = account[u].avatar
      BY <1>1, <3>2 DEF Rows
    <3> HIDE DEF row
    <3> QED BY <1>1, <3>1, <3>2, <3>3
  <2> QED BY <2>1, <2>2 DEF Register
<1>3. session' \in [Clients -> Sessions]
  BY <1>1, Issuing DEF Register, TypeInv, IInv
<1>4. request' = [request EXCEPT ![r] = Idle] /\ UNCHANGED <<stored, counter, admitted, unknown>>
  BY DEF Register, Finish
<1>5. IInv'
  BY <1>2, <1>3, <1>4, IdleServed DEF IInv, TypeInv, Named, OnAccount
<1> QED BY <1>2, <1>4, <1>5, IdleServed, Holdless DEF TypeInv, IInv

\* Requests about sessions leave rows and files as they are.
LEMMA SessionStep ==
    ASSUME IInv, AvatarInv, NEW r \in Requests, Login(r) \/ Refresh(r) \/ Logout(r)
    PROVE  (IInv /\ AvatarInv)'
<1>1. session' \in [Clients -> Sessions]
  <2>1. CASE Login(r)
    <3>1. request[r].user \in Users
      BY <2>1 DEF Login, IInv, Named, OnAccount
    <3> QED BY <2>1, <3>1, Issuing DEF Login, IInv, TypeInv
  <2>2. CASE Refresh(r)
    BY <2>2, Issuing DEF Refresh, IInv, TypeInv
  <2>3. CASE Logout(r)
    BY <2>3, SessionsMade DEF Logout, IInv, TypeInv
  <2> QED BY <2>1, <2>2, <2>3
<1>2. /\ request' = [request EXCEPT ![r] = Idle]
      /\ UNCHANGED <<account, stored, counter, admitted, unknown>>
  BY DEF Login, Refresh, Logout, Finish
<1>3. IInv'
  BY <1>1, <1>2, IdleServed DEF IInv, TypeInv, Named, OnAccount
<1> QED BY <1>2, <1>3, IdleServed, Holdless DEF IInv, TypeInv

\* A file is stored under a name nothing refers to.
LEMMA StoreStep ==
    ASSUME IInv, AvatarInv, NEW r \in Requests, StoreAvatar(r)
    PROVE  (IInv /\ AvatarInv)'
<1> USE DEF IInv, TypeInv
<1>1. UNCHANGED <<account, session, counter, admitted, unknown>>
  BY DEF StoreAvatar
<1>2. CASE Finish(r) /\ UNCHANGED stored
  <2>1. request' = [request EXCEPT ![r] = Idle]
    BY <1>2 DEF Finish
  <2>2. IInv'
    BY <1>1, <1>2, <2>1, IdleServed DEF Named, OnAccount
  <2> QED BY <1>1, <1>2, <2>1, <2>2, IdleServed, Holdless
<1>3. CASE \E i \in FreshNames :
              /\ stored' = stored \cup {i}
              /\ request' = [request EXCEPT ![r] = [@ EXCEPT !.stage = "update", !.image = i]]
  <2>1. PICK i \in FreshNames :
            /\ stored' = stored \cup {i}
            /\ request' = [request EXCEPT ![r] = [@ EXCEPT !.stage = "update", !.image = i]]
    BY <1>3
  <2>2. /\ i \in Images /\ i \notin stored
        /\ \A u \in Users : account[u].avatar # i
        /\ \A q \in Requests : request[q].image # i
    BY <2>1 DEF FreshNames
  <2>3. PICK v \in Served : /\ request' = [request EXCEPT ![r] = v]
                            /\ v.stage = "update" /\ v.image = i /\ v.user = request[r].user
    <3> DEFINE v == [request[r] EXCEPT !.stage = "update", !.image = i]
    <3>1. "update" \in Stages /\ request[r] \in Served
      BY DEF Stages
    <3>2. v \in Served /\ v.stage = "update" /\ v.image = i /\ v.user = request[r].user
      BY <2>2, <3>1 DEF Served
    <3>3. request' = [request EXCEPT ![r] = v]
      BY <2>1
    <3> HIDE DEF v
    <3> QED BY <3>2, <3>3
  <2>4. request'[r] = v /\ \A q \in Requests \ {r} : request'[q] = request[q]
    BY <2>3
  <2>5. request[r].user \in Users
    BY DEF StoreAvatar, Named, OnAccount
  <2>6. IInv'
    <3>1. Named'
      BY <2>3, <2>4, <2>5 DEF Named
    <3>2. TypeInv'
      BY <1>1, <2>1, <2>2, <2>3
    <3> QED BY <3>1, <3>2
  <2>7. AvatarServed' /\ Distinct'
    BY <1>1, <2>1 DEF AvatarInv, AvatarServed, Distinct
  <2>8. Unused'
    <3> SUFFICES ASSUME NEW q \in Requests, request'[q].stage = "update",
                        request'[q].image # ""
                 PROVE  /\ request'[q].image \in stored'
                        /\ \A u \in Users : account[u].avatar # request'[q].image
                        /\ \A p \in Requests \ {q} : request'[p].image # request'[q].image
      BY <1>1 DEF Unused
    <3>1. CASE q = r
      BY <2>1, <2>2, <2>3, <2>4, <3>1
    <3>2. CASE q # r
      <4>1. /\ request[q].image \in stored
            /\ \A u \in Users : account[u].avatar # request[q].image
            /\ \A p \in Requests \ {q} : request[p].image # request[q].image
        BY <2>4, <3>2 DEF AvatarInv, Unused
      <4>2. request'[q] = request[q] /\ request'[r].image = i /\ request[q].image # i
        BY <2>2, <2>3, <2>4, <3>2
      <4> QED BY <2>1, <2>4, <4>1, <4>2
    <3> QED BY <3>1, <3>2
  <2>9. Replaced'
    <3> SUFFICES ASSUME NEW q \in Requests, request'[q].stage = "remove",
                        request'[q].image # "", NEW u \in Users \ unknown
                 PROVE  account[u].avatar # request'[q].image
      BY <1>1 DEF Replaced
    <3>1. q # r /\ request'[q] = request[q]
      BY <2>3, <2>4
    <3> QED BY <3>1 DEF AvatarInv, Replaced
  <2> QED BY <2>6, <2>7, <2>8, <2>9 DEF AvatarInv
<1>4. FreshNames # {} => (CHOOSE i \in FreshNames : TRUE) \in FreshNames
  OBVIOUS
<1> QED BY <1>2, <1>3, <1>4 DEF StoreAvatar

\* A request that turns to removing takes no new file from another.
LEMMA OthersUnused ==
    ASSUME AvatarInv, NEW r \in Requests, NEW j,
           request'[r].stage = "remove", request'[r].image = j,
           \A q \in Requests \ {r} : request'[q] = request[q],
           \A q \in Requests \ {r} :
               request[q].stage = "update" /\ request[q].image # "" => request[q].image # j,
           \A w \in Users : account'[w].avatar \in {account[w].avatar, request[r].image},
           stored' = stored
    PROVE  Unused'
<1> SUFFICES ASSUME NEW q \in Requests, request'[q].stage = "update", request'[q].image # ""
             PROVE  /\ request'[q].image \in stored
                    /\ \A w \in Users : account'[w].avatar # request'[q].image
                    /\ \A p \in Requests \ {q} : request'[p].image # request'[q].image
  BY DEF Unused
<1>1. q # r /\ request'[q] = request[q]
  OBVIOUS
<1>2. /\ request[q].image \in stored
      /\ \A w \in Users : account[w].avatar # request[q].image
      /\ \A p \in Requests \ {q} : request[p].image # request[q].image
  BY <1>1 DEF AvatarInv, Unused
<1>3. \A w \in Users : account'[w].avatar # request[q].image
  BY <1>1, <1>2
<1>4. \A p \in Requests \ {q} : request'[p].image # request[q].image
  <2> TAKE p \in Requests \ {q}
  <2>1. CASE p = r
    BY <1>1, <2>1
  <2>2. CASE p # r
    BY <1>2, <2>2
  <2> QED BY <2>1, <2>2
<1> QED BY <1>1, <1>2, <1>3, <1>4

\* The row lock orders the updates: each replaces what the one before wrote.
LEMMA UpdateStep ==
    ASSUME IInv, AvatarInv, NEW r \in Requests, UpdateUserAvatar(r)
    PROVE  (IInv /\ AvatarInv)'
<1> DEFINE u == request[r].user
           image == request[r].image
           previous == account[u].avatar
<1>1. /\ u \in Users /\ image \in Images \cup {""} /\ previous \in Images \cup {""}
      /\ request[r].stage = "update"
  BY DEF UpdateUserAvatar, Named, OnAccount, Served, Rows, IInv, TypeInv
<1>2. UNCHANGED <<stored, session, counter, admitted>>
  BY DEF UpdateUserAvatar
<1>3. ASSUME NEW i \in Images \cup {""}, RemoveNext(r, i)
      PROVE  \E v \in Served :
                /\ request' = [request EXCEPT ![r] = v]
                /\ v.stage = "remove" /\ v.image = i /\ v.user = u
                /\ request'[r] = v /\ \A q \in Requests \ {r} : request'[q] = request[q]
  <2>1. \E v \in Served : /\ request' = [request EXCEPT ![r] = v]
                          /\ v.stage = "remove" /\ v.image = i /\ v.user = u
    <3> DEFINE v == [request[r] EXCEPT !.stage = "remove", !.image = i]
    <3>1. "remove" \in Stages /\ request[r] \in Served
      BY DEF Stages, IInv, TypeInv
    <3>2. v \in Served /\ v.stage = "remove" /\ v.image = i /\ v.user = u
      BY <1>3, <3>1 DEF Served
    <3>3. request' = [request EXCEPT ![r] = v]
      BY <1>3 DEF RemoveNext
    <3> HIDE DEF v, u
    <3> QED BY <3>2, <3>3
  <2> QED BY <2>1 DEF IInv, TypeInv
<1>4. ASSUME account' = [account EXCEPT ![u].avatar = image]
      PROVE  /\ account' \in [Users -> Rows]
             /\ account'[u].avatar = image
             /\ \A w \in Users \ {u} : account'[w] = account[w]
  <2> DEFINE row == [account[u] EXCEPT !.avatar = image]
  <2>1. account' = [account EXCEPT ![u] = row]
    BY <1>4
  <2>2. row \in Rows /\ row.avatar = image
    BY <1>1 DEF Rows, IInv, TypeInv
  <2> HIDE DEF row
  <2> QED BY <1>1, <2>1, <2>2 DEF IInv, TypeInv
\* The file of this request, and the one of the row, are nobody else's.
<1>5. image # "" => /\ image \in stored
                    /\ \A w \in Users : account[w].avatar # image
                    /\ \A q \in Requests \ {r} : request[q].image # image
  BY <1>1 DEF AvatarInv, Unused
<1>6. \A w \in Users \ {u} : account[w].avatar = previous => previous = ""
  BY <1>1 DEF AvatarInv, Distinct
<1>7. \A q \in Requests \ {r} : request[q].stage = "update" /\ request[q].image # "" =>
          request[q].image # image /\ request[q].image # previous
  BY <1>1 DEF AvatarInv, Unused
<1>8. \A q \in Requests \ {r} : request[q].stage = "remove" /\ request[q].image # "" =>
          \A w \in Users \ unknown : account[w].avatar # request[q].image
  BY DEF AvatarInv, Replaced
<1> HIDE DEF u, image, previous
<1>9. CASE /\ account' = [account EXCEPT ![u].avatar = image]
           /\ \/ RemoveNext(r, previous) /\ unknown' = unknown \ {u}
              \/ /\ RemoveNext(r, image)
                 /\ unknown' = IF image = "" THEN unknown \ {u} ELSE unknown \cup {u}
  <2>1. /\ account' \in [Users -> Rows] /\ account'[u].avatar = image
        /\ \A w \in Users \ {u} : account'[w] = account[w]
    BY <1>4, <1>9
  <2>2. Distinct'
    <3> SUFFICES ASSUME NEW v \in Users, NEW w \in Users, v # w,
                        account'[v].avatar = account'[w].avatar
                 PROVE  account'[v].avatar = ""
      BY DEF Distinct
    <3>1. CASE v # u /\ w # u
      BY <2>1, <3>1 DEF AvatarInv, Distinct
    <3>2. CASE v = u \/ w = u
      BY <1>5, <2>1, <3>2
    <3> QED BY <3>1, <3>2
  <2>3. \A w \in Users : account'[w].avatar \in {account[w].avatar, request[r].image}
    BY <2>1 DEF image
  <2>4. ASSUME NEW i \in {image, previous}, RemoveNext(r, i),
               unknown' = unknown \ {u} \/ unknown' = unknown \cup {u},
               u \notin unknown' /\ i = image => image = ""
        PROVE  (IInv /\ AvatarInv)'
    <3>1. PICK v \in Served :
              /\ request' = [request EXCEPT ![r] = v]
              /\ v.stage = "remove" /\ v.image = i /\ v.user = u
              /\ request'[r] = v /\ \A q \in Requests \ {r} : request'[q] = request[q]
      BY <1>1, <1>3, <2>4
    <3>2. TypeInv'
      BY <1>1, <1>2, <2>1, <2>4, <3>1 DEF IInv, TypeInv
    <3>3. Named'
      BY <1>1, <3>1 DEF IInv, Named
    <3>4. AvatarServed'
      <4> SUFFICES ASSUME NEW w \in Users \ unknown'
                   PROVE  account'[w].avatar \in stored \cup {""}
        BY <1>2 DEF AvatarServed
      <4>1. CASE w = u
        BY <1>5, <2>1, <4>1
      <4>2. CASE w # u
        BY <2>1, <2>4, <4>2 DEF AvatarInv, AvatarServed
      <4> QED BY <4>1, <4>2
    <3>5. Unused'
      <4>1. \A q \in Requests \ {r} :
                request[q].stage = "update" /\ request[q].image # "" => request[q].image # i
        BY <1>7, <2>4
      <4>2. /\ request'[r].stage = "remove" /\ request'[r].image = i
            /\ \A q \in Requests \ {r} : request'[q] = request[q]
            /\ stored' = stored
        BY <1>2, <3>1
      <4> QED BY <2>3, <4>1, <4>2, OthersUnused
    <3>6. Replaced'
      <4> SUFFICES ASSUME NEW q \in Requests, request'[q].stage = "remove",
                          request'[q].image # "", NEW w \in Users \ unknown'
                   PROVE  account'[w].avatar # request'[q].image
        BY DEF Replaced
      <4>1. CASE q = r /\ w # u
        <5>1. request'[q].image = i /\ account'[w].avatar = account[w].avatar
          BY <1>1, <2>1, <3>1, <4>1, Zenon
        <5>2. account[w].avatar # i
          BY <1>5, <1>6, <4>1, <5>1
        <5> QED BY <5>1, <5>2
      <4>2. CASE q = r /\ w = u /\ i = image
        BY <2>4, <3>1, <4>2
      <4>3. CASE q = r /\ w = u /\ i = previous
        <5>1. request'[q].image = previous /\ account'[w].avatar = image
          BY <2>1, <3>1, <4>3
        <5>2. image # previous
          BY <1>1, <1>5, <5>1 DEF previous
        <5> QED BY <5>1, <5>2
      <4>4. CASE q # r /\ w # u
        <5>1. request'[q] = request[q] /\ account'[w].avatar = account[w].avatar
          BY <2>1, <3>1, <4>4
        <5>2. w \in Users \ unknown
          BY <2>4, <4>4
        <5>3. q \in Requests \ {r} /\ request[q].stage = "remove" /\ request[q].image # ""
          BY <4>4, <5>1
        <5> QED BY <1>8, <5>1, <5>2, <5>3
      <4>5. CASE q # r /\ w = u
        BY <1>5, <2>1, <3>1, <4>5
      <4> QED BY <2>4, <4>1, <4>2, <4>3, <4>4, <4>5
    <3> QED BY <2>2, <3>2, <3>3, <3>4, <3>5, <3>6 DEF IInv, AvatarInv
  <2>5. CASE RemoveNext(r, previous) /\ unknown' = unknown \ {u}
    <3>1. CASE previous = image
      BY <1>1, <1>5, <2>4, <2>5, <3>1 DEF previous
    <3>2. CASE previous # image
      BY <2>4, <2>5, <3>2
    <3> QED BY <3>1, <3>2
  <2>6. CASE /\ RemoveNext(r, image)
             /\ unknown' = IF image = "" THEN unknown \ {u} ELSE unknown \cup {u}
    BY <2>4, <2>6
  <2> QED BY <1>9, <2>5, <2>6
<1>10. CASE RemoveNext(r, image) /\ UNCHANGED <<account, unknown>>
  <2>1. PICK v \in Served :
            /\ request' = [request EXCEPT ![r] = v]
            /\ v.stage = "remove" /\ v.image = image /\ v.user = u
            /\ request'[r] = v /\ \A q \in Requests \ {r} : request'[q] = request[q]
    BY <1>1, <1>3, <1>10
  <2>2. TypeInv'
    BY <1>2, <1>10, <2>1 DEF IInv, TypeInv
  <2>3. Named'
    BY <1>1, <2>1 DEF IInv, Named
  <2>4. AvatarServed' /\ Distinct'
    BY <1>2, <1>10 DEF AvatarInv, AvatarServed, Distinct
  <2>5. Unused'
    <3>1. \A w \in Users : account'[w].avatar \in {account[w].avatar, request[r].image}
      BY <1>10
    <3>2. request'[r].stage = "remove" /\ request'[r].image = image
      BY <2>1
    <3>3. \A q \in Requests \ {r} :
              request[q].stage = "update" /\ request[q].image # "" => request[q].image # image
      BY <1>7
    <3> QED BY <1>2, <2>1, <3>1, <3>2, <3>3, OthersUnused
  <2>6. Replaced'
    BY <1>5, <1>8, <1>10, <2>1 DEF Replaced
  <2> QED BY <2>2, <2>3, <2>4, <2>5, <2>6 DEF IInv, AvatarInv
<1> QED BY <1>9, <1>10 DEF UpdateUserAvatar, u, image, previous

\* The file that goes is in no row whose commits are all known.
LEMMA RemoveStep ==
    ASSUME IInv, AvatarInv, NEW r \in Requests, RemoveAvatar(r)
    PROVE  (IInv /\ AvatarInv)'
<1> USE DEF IInv, TypeInv
<1>1. /\ request' = [request EXCEPT ![r] = Idle]
      /\ UNCHANGED <<account, session, counter, admitted, unknown>>
      /\ request[r].stage = "remove"
      /\ stored' \in {stored \ {request[r].image}, stored}
  BY DEF RemoveAvatar, Finish
<1>2. request'[r] = Idle /\ \A q \in Requests \ {r} : request'[q] = request[q]
  BY <1>1
<1>3. IInv'
  BY <1>1, IdleServed DEF Named, OnAccount
<1>4. AvatarServed'
  <2> SUFFICES ASSUME NEW u \in Users \ unknown, account[u].avatar # ""
               PROVE  account[u].avatar \in stored'
    BY <1>1 DEF AvatarServed
  <2>1. account[u].avatar \in stored
    BY DEF AvatarInv, AvatarServed
  <2>2. account[u].avatar # request[r].image
    BY <1>1 DEF AvatarInv, Replaced
  <2> QED BY <1>1, <2>1, <2>2
<1>5. Distinct'
  BY <1>1 DEF AvatarInv, Distinct
<1>6. Unused'
  <2> SUFFICES ASSUME NEW q \in Requests, request'[q].stage = "update", request'[q].image # ""
               PROVE  /\ request'[q].image \in stored'
                      /\ \A u \in Users : account'[u].avatar # request'[q].image
                      /\ \A p \in Requests \ {q} : request'[p].image # request'[q].image
    BY DEF Unused
  <2>1. q # r /\ request'[q] = request[q]
    BY <1>2, IdleServed
  <2>2. /\ request[q].image \in stored
        /\ \A u \in Users : account[u].avatar # request[q].image
        /\ \A p \in Requests \ {q} : request[p].image # request[q].image
    BY <2>1 DEF AvatarInv, Unused
  <2>3. request'[q].image \in stored'
    BY <1>1, <2>1, <2>2
  <2> QED BY <1>1, <1>2, <2>1, <2>2, <2>3, IdleServed
<1>7. Replaced'
  BY <1>1, <1>2, IdleServed DEF AvatarInv, Replaced
<1> QED BY <1>3, <1>4, <1>5, <1>6, <1>7 DEF AvatarInv

LEMMA ReceiveStep ==
    ASSUME IInv, AvatarInv, Arrive
    PROVE  (IInv /\ AvatarInv)'
<1>1. PICK r \in Requests, v \in Served :
        /\ UNCHANGED <<account, stored, session, unknown>>
        /\ counter' \in [Keys -> Counters] /\ admitted' \in [Keys -> [Ages -> Nat]]
        /\ request' = [request EXCEPT ![r] = v]
        /\ v.stage \in OnAccount => v.user \in Users
        /\ v.image = ""
  <2>1. PICK r \in Requests, c \in Clients, op \in UserOperations, u \in Users :
            \E bearer \in BearersOf(c) : Receive(r, c, op, bearer, u)
    BY DEF Arrive
  <2>2. PICK bearer \in BearersOf(c) : Receive(r, c, op, bearer, u)
    BY <2>1
  <2> QED BY <2>2, Receiving
<1>2. TypeInv'
  BY <1>1 DEF IInv, TypeInv
<1>3. Named'
  BY <1>1 DEF IInv, TypeInv, Named
<1>4. AvatarInv'
  BY <1>1, Holdless DEF IInv, TypeInv
<1> QED BY <1>2, <1>3, <1>4 DEF IInv

LEMMA TickStep ==
    ASSUME IInv, AvatarInv, Tick
    PROVE  (IInv /\ AvatarInv)'
<1>1. UNCHANGED <<account, stored, request, unknown>>
  BY DEF Tick
<1>2. \A n \in Nat : Less(n) \in 0 .. n
  BY DEF Less
<1>3. session' \in [Clients -> Sessions]
  <2>1. ASSUME NEW c \in Clients
        PROVE  session'[c] \in Sessions
    <3> DEFINE next == [session[c] EXCEPT !.access = Less(session[c].access),
                                          !.refresh = Less(session[c].refresh)]
    <3>1. session'[c] = next \/ session'[c] = NoSession
      BY DEF Tick
    <3>2. session[c] \in Sessions
      BY DEF IInv, TypeInv
    <3>3. /\ Less(session[c].access) \in 0 .. AccessTTL
          /\ Less(session[c].refresh) \in 0 .. RefreshTTL
      BY <1>2, <3>2, Bounds DEF Sessions
    <3>4. next \in Sessions
      BY <3>2, <3>3 DEF Sessions
    <3> HIDE DEF next
    <3> QED BY <3>1, <3>4, SessionsMade
  <2>2. session' = [c \in Clients |-> session'[c]]
    BY DEF Tick
  <2> QED BY <2>1, <2>2
<1>4. counter' \in [Keys -> Counters]
  <2>1. ASSUME NEW k \in Keys
        PROVE  (IF counter[k].left <= 1 THEN NoCounter
                ELSE [counter[k] EXCEPT !.left = @ - 1]) \in Counters
    <3>1. counter[k] \in Counters
      BY DEF IInv, TypeInv
    <3>2. PICK n \in Nat, l \in 0 .. Window : counter[k] = [count |-> n, left |-> l]
      BY <3>1 DEF Counters
    <3> QED BY <3>2, Bounds DEF Counters, NoCounter
  <2> QED BY <2>1 DEF Tick
<1>5. admitted' \in [Keys -> [Ages -> Nat]]
  <2>1. ASSUME NEW k \in Keys, NEW a \in Ages
        PROVE  (IF a = 0 THEN 0 ELSE admitted[k][a - 1]) \in Nat
    <3>1. a # 0 => a - 1 \in Ages
      BY Bounds DEF Ages
    <3>2. admitted[k] \in [Ages -> Nat]
      BY DEF IInv, TypeInv
    <3> QED BY <3>1, <3>2
  <2> QED BY <2>1 DEF Tick
<1>6. TypeInv' /\ Named'
  BY <1>1, <1>3, <1>4, <1>5 DEF IInv, TypeInv, Named
<1>7. AvatarInv'
  BY <1>1 DEF AvatarInv, AvatarServed, Distinct, Unused, Replaced
<1> QED BY <1>6, <1>7 DEF IInv

LEMMA CrashStep ==
    ASSUME IInv, AvatarInv, Crash
    PROVE  (IInv /\ AvatarInv)'
<1>1. /\ request' = [r \in Requests |-> Idle]
      /\ UNCHANGED <<account, stored, session, counter, admitted, unknown>>
  BY DEF Crash
<1>2. TypeInv' /\ Named'
  BY <1>1, IdleServed DEF IInv, TypeInv, Named, OnAccount
<1>3. AvatarInv'
  BY <1>1, IdleServed DEF AvatarInv, AvatarServed, Distinct, Unused, Replaced
<1> QED BY <1>2, <1>3 DEF IInv

-----------------------------------------------------------------------------
(* The rate limiter. What passed for a subject in the last window falls    *)
(* into two parts, each within the limit: what the counter it has now let  *)
(* through, and what the one before it did.                                *)

\* The ticks since the counter of k began; all of a window, if it has none.
Recent(k) == {a \in Ages : a <= Window - counter[k].left}

Budgeted(k) ==
    /\ SumFunctionOnSet(admitted[k], Recent(k)) <= Limit[k[1]]
    /\ SumFunctionOnSet(admitted[k], Ages \ Recent(k)) <= Limit[k[1]]
    /\ counter[k].left = 0 <=> counter[k].count = 0
    /\ counter[k].left > 0 => SumFunctionOnSet(admitted[k], Recent(k)) <= counter[k].count
    /\ counter[k].left = 0 => admitted[k][0] = 0

BudgetInv == \A k \in Keys : Budgeted(k)

LEMMA AgesFinite == IsFiniteSet(Ages) /\ Ages \subseteq Nat /\ 0 \in Ages
<1>1. IsFiniteSet(0 .. Window - 1)
  BY Bounds, FS_Interval
<1> QED BY <1>1, Bounds DEF Ages

LEMMA Limits == ASSUME NEW k \in Keys PROVE Limit[k[1]] \in Nat /\ Limit[k[1]] > 0
<1>1. Limit \in [Buckets -> Nat \ {0}]
  BY AccountsAssumption, Zenon DEF AccountsAssumption
<1>2. k[1] \in Buckets
  BY DEF Keys
<1> QED BY <1>1, <1>2

\* What the state holds of one subject.
LEMMA OneSubject ==
    ASSUME TypeInv, NEW k \in Keys
    PROVE  /\ counter[k].count \in Nat /\ counter[k].left \in 0 .. Window
           /\ \A a \in Ages : admitted[k][a] \in Nat
           /\ Recent(k) \subseteq Ages /\ 0 \in Recent(k)
           /\ IsFiniteSet(Recent(k)) /\ IsFiniteSet(Ages \ Recent(k))
<1>1. counter[k].count \in Nat /\ counter[k].left \in 0 .. Window
  BY DEF TypeInv, Counters
<1>2. \A a \in Ages : admitted[k][a] \in Nat
  BY DEF TypeInv
<1>3. Recent(k) \subseteq Ages /\ 0 \in Recent(k)
  BY <1>1, AgesFinite, Bounds DEF Recent
<1>4. IsFiniteSet(Recent(k)) /\ IsFiniteSet(Ages \ Recent(k))
  BY <1>3, AgesFinite, FS_Subset
<1> QED BY <1>1, <1>2, <1>3, <1>4

LEMMA SubjectSums ==
    ASSUME TypeInv, NEW k \in Keys
    PROVE  /\ SumFunctionOnSet(admitted[k], Recent(k)) \in Nat
           /\ SumFunctionOnSet(admitted[k], Ages \ Recent(k)) \in Nat
<1>1. SumFunctionOnSet(admitted[k], Recent(k)) \in Nat
  BY OneSubject, SumType
<1>2. SumFunctionOnSet(admitted[k], Ages \ Recent(k)) \in Nat
  BY OneSubject, SumType
<1> QED BY <1>1, <1>2

LEMMA BudgetInvCorrect == TypeInv /\ BudgetInv => BudgetHolds
<1> SUFFICES ASSUME TypeInv, BudgetInv, NEW k \in Keys
             PROVE  Passed(k) <= 2 * Limit[k[1]]
  BY DEF BudgetHolds
<1> DEFINE f == admitted[k]
<1> DEFINE R == Recent(k)
<1>1. IsFiniteSet(Ages) /\ R \subseteq Ages /\ \A a \in Ages : f[a] \in Nat
  BY OneSubject, AgesFinite
<1>2. SumFunctionOnSet(f, R) \in Nat /\ SumFunctionOnSet(f, Ages \ R) \in Nat
  BY SubjectSums
<1>3. SumFunctionOnSet(f, R) <= Limit[k[1]] /\ SumFunctionOnSet(f, Ages \ R) <= Limit[k[1]]
  BY DEF BudgetInv, Budgeted
<1>4. Passed(k) = SumFunctionOnSet(f, Ages)
  BY DEF Passed
<1> HIDE DEF f, R
<1>5. \A a \in Ages : f[a] \in Int
  BY <1>1
<1>6. SumFunctionOnSet(f, Ages) = SumFunctionOnSet(f, R) + SumFunctionOnSet(f, Ages \ R)
  BY <1>1, <1>5, SumParts
<1>7. PICK limit \in Nat : limit = Limit[k[1]]
  BY Limits
<1> QED BY <1>2, <1>3, <1>4, <1>6, <1>7

\* The first request a new counter counts, and the ones after it.
LEMMA CountedFirst ==
    ASSUME TypeInv, NEW k \in Keys, Budgeted(k), counter[k].count = 0,
           counter'[k] = IncrementRateLimit(k),
           admitted'[k] = [admitted[k] EXCEPT ![0] = @ + 1]
    PROVE  Budgeted(k)'
<1>1. counter'[k] = [count |-> 1, left |-> Window]
  BY DEF IncrementRateLimit
<1>2. counter[k].left = 0 /\ admitted[k][0] = 0
  BY OneSubject DEF Budgeted
<1>3. Recent(k) = Ages
  BY <1>2, Bounds DEF Recent, Ages
<1>4. Recent(k)' = {0}
  BY <1>1, Bounds DEF Recent, Ages
<1>5. admitted'[k][0] = 1 /\ \A a \in Ages \ {0} : admitted'[k][a] = admitted[k][a]
  BY <1>2, AgesFinite DEF TypeInv
<1> DEFINE f == admitted[k]
<1> DEFINE g == admitted'[k]
<1>6. /\ \A a \in Ages : f[a] \in Nat
      /\ g[0] = 1 /\ \A a \in Ages \ {0} : g[a] = f[a]
      /\ IsFiniteSet({0}) /\ IsFiniteSet(Ages \ {0})
  <2>1. IsFiniteSet({0}) /\ IsFiniteSet(Ages \ {0})
    BY AgesFinite, FS_Singleton, FS_Subset
  <2> QED BY <1>5, <2>1, OneSubject
<1>7. SumFunctionOnSet(f, Ages) <= Limit[k[1]]
  BY <1>3 DEF Budgeted
<1>8. Budgeted(k)' <=> /\ SumFunctionOnSet(g, {0}) <= Limit[k[1]]
                       /\ SumFunctionOnSet(g, Ages \ {0}) <= Limit[k[1]]
                       /\ SumFunctionOnSet(g, {0}) <= 1
  BY <1>1, <1>4, Bounds DEF Budgeted
<1> HIDE DEF f, g
<1>9. SumFunctionOnSet(g, {0}) = 1
  <2>1. \A a \in {0} : g[a] \in Int
    BY <1>6
  <2>2. SumFunctionOnSet(g, {0}) = g[0] + SumFunctionOnSet(g, {0} \ {0})
    BY <1>6, <2>1, SumRemove
  <2>3. SumFunctionOnSet(g, {0} \ {0}) = 0
    <3>1. {0} \ {0} = {}
      OBVIOUS
    <3> QED BY <3>1, SumEmpty
  <2> QED BY <1>6, <2>2, <2>3
<1>10. SumFunctionOnSet(f, Ages) \in Nat /\ SumFunctionOnSet(f, Ages \ {0}) \in Nat
  <2>1. SumFunctionOnSet(f, Ages) \in Nat
    BY <1>6, AgesFinite, SumType
  <2>2. SumFunctionOnSet(f, Ages \ {0}) \in Nat
    BY <1>6, SumType
  <2> QED BY <2>1, <2>2
<1>11. SumFunctionOnSet(g, Ages \ {0}) = SumFunctionOnSet(f, Ages \ {0})
  BY <1>6, SumSame
<1>12. SumFunctionOnSet(f, Ages \ {0}) <= SumFunctionOnSet(f, Ages)
  BY <1>6, AgesFinite, SumOfPart
<1>13. PICK limit \in Nat : limit = Limit[k[1]] /\ limit > 0
  BY Limits
<1> QED BY <1>7, <1>8, <1>9, <1>10, <1>11, <1>12, <1>13

LEMMA CountedNext ==
    ASSUME TypeInv, NEW k \in Keys, Budgeted(k), counter[k].count # 0,
           NEW allowed \in BOOLEAN,
           counter'[k] = IncrementRateLimit(k),
           allowed = (counter'[k].count <= Limit[k[1]]),
           admitted'[k] = IF allowed THEN [admitted[k] EXCEPT ![0] = @ + 1] ELSE admitted[k]
    PROVE  Budgeted(k)'
<1>1. PICK n \in Nat, l \in 0 .. Window : counter[k] = [count |-> n, left |-> l]
  BY DEF TypeInv, Counters
<1>2. n # 0 /\ l # 0
  BY <1>1 DEF Budgeted
<1>l. PICK limit \in Nat : limit = Limit[k[1]]
  BY Limits
<1>3. counter'[k] = [count |-> IF n > limit THEN n ELSE n + 1, left |-> l]
  BY <1>1, <1>2, <1>l DEF IncrementRateLimit
<1>4. Recent(k)' = Recent(k)
  BY <1>1, <1>3 DEF Recent, Ages
<1> DEFINE R == Recent(k)
<1> DEFINE f == admitted[k]
<1> DEFINE g == admitted'[k]
<1>5. /\ SumFunctionOnSet(f, R) <= limit /\ SumFunctionOnSet(f, Ages \ R) <= limit
      /\ SumFunctionOnSet(f, R) <= n
  BY <1>1, <1>2, <1>l DEF Budgeted
<1>6. SumFunctionOnSet(f, R) \in Nat
  BY SubjectSums
<1>b. Budgeted(k)' <=> /\ SumFunctionOnSet(g, R) <= limit
                       /\ SumFunctionOnSet(g, Ages \ R) <= limit
                       /\ counter'[k].count # 0
                       /\ SumFunctionOnSet(g, R) <= counter'[k].count
  BY <1>2, <1>3, <1>4, <1>l DEF Budgeted
<1>f. /\ IsFiniteSet(R) /\ 0 \in R /\ R \subseteq Ages /\ IsFiniteSet(Ages \ R)
      /\ \A a \in Ages : f[a] \in Nat
  BY OneSubject
<1>7. CASE allowed
  <2>1. counter'[k].count = n + 1 /\ n + 1 <= limit
    <3>1. counter'[k].count <= limit
      BY <1>7, <1>l
    <3> QED BY <1>3, <3>1
  <2>2. \A a \in Ages : g[a] = IF a = 0 THEN f[a] + 1 ELSE f[a]
    BY <1>7 DEF TypeInv
  <2> HIDE DEF R, f, g
  <2>3. SumFunctionOnSet(g, R) = SumFunctionOnSet(f, R) + 1
    <3>1. \A a \in R : f[a] \in Int
      BY <1>f
    <3>2. g[0] = f[0] + 1 /\ \A a \in R \ {0} : g[a] = f[a]
      BY <2>2, <1>f
    <3> QED BY <1>f, <3>1, <3>2, SumMoved
  <2>4. SumFunctionOnSet(g, Ages \ R) = SumFunctionOnSet(f, Ages \ R)
    <3>1. \A a \in Ages \ R : g[a] = f[a]
      BY <2>2, <1>f
    <3> QED BY <1>f, <3>1, SumSame
  <2> QED BY <1>5, <1>6, <1>b, <2>1, <2>3, <2>4
<1>8. CASE ~allowed
  <2>1. counter'[k].count \in Nat /\ counter'[k].count >= n /\ counter'[k].count # 0
    BY <1>2, <1>3
  <2>2. g = f
    BY <1>8
  <2> HIDE DEF R, f, g
  <2> QED BY <1>5, <1>6, <1>b, <2>1, <2>2
<1> QED BY <1>7, <1>8

LEMMA AllowBudget ==
    ASSUME TypeInv, BudgetInv, NEW j, NEW allowed \in BOOLEAN, Allow(j, allowed)
    PROVE  BudgetInv'
<1> SUFFICES ASSUME NEW k \in Keys PROVE Budgeted(k)'
  BY DEF BudgetInv
<1>0. Budgeted(k)
  BY DEF BudgetInv
<1>1. CASE counter'[k] = counter[k] /\ admitted'[k] = admitted[k]
  BY <1>0, <1>1 DEF Budgeted, Recent
<1>2. CASE /\ k = j
           /\ counter' = [counter EXCEPT ![j] = IncrementRateLimit(j)]
           /\ allowed = (counter'[j].count <= Limit[j[1]])
           /\ admitted' = IF allowed THEN [admitted EXCEPT ![j][0] = @ + 1] ELSE admitted
  <2>1. counter'[k] = IncrementRateLimit(k)
    BY <1>2 DEF TypeInv
  <2>2. admitted'[k] = IF allowed THEN [admitted[k] EXCEPT ![0] = @ + 1] ELSE admitted[k]
    BY <1>2 DEF TypeInv
  <2>3. CASE counter[k].count = 0
    <3>1. counter'[k].count = 1
      BY <2>1, <2>3 DEF IncrementRateLimit
    <3>2. allowed
      <4>1. counter'[k].count <= Limit[k[1]]
        <5>1. PICK limit \in Nat : limit = Limit[k[1]] /\ limit > 0
          BY Limits
        <5> QED BY <3>1, <5>1
      <4> QED BY <1>2, <4>1
    <3> QED BY <1>0, <2>1, <2>2, <2>3, <3>2, CountedFirst
  <2>4. CASE counter[k].count # 0
    BY <1>0, <1>2, <2>1, <2>2, <2>4, CountedNext
  <2> QED BY <2>3, <2>4
<1>3. CASE UNCHANGED <<counter, admitted>>
  BY <1>1, <1>3
<1>4. CASE /\ k # j
           /\ counter' = [counter EXCEPT ![j] = IncrementRateLimit(j)]
           /\ admitted' = IF allowed THEN [admitted EXCEPT ![j][0] = @ + 1] ELSE admitted
  BY <1>1, <1>4 DEF TypeInv
<1> QED BY <1>2, <1>3, <1>4 DEF Allow

\* After a tick every request is one tick older: what passed in the ticks S
\* had passed in the ticks T before.
LEMMA Aged ==
    ASSUME NEW f, \A a \in Ages : f[a] \in Nat,
           NEW g, \A a \in Ages : g[a] = IF a = 0 THEN 0 ELSE f[a - 1],
           NEW S, S \subseteq Ages, NEW T, T \subseteq Ages,
           \A a \in S : a = 0 \/ a - 1 \in T
    PROVE  SumFunctionOnSet(g, S) <= SumFunctionOnSet(f, T)
<1> DEFINE P == {a \in T : a + 1 \in S}
<1> DEFINE h == [a \in Ages |-> a + 1]
<1>1. \A a \in Ages : a \in Nat
  BY AgesFinite
<1>2. IsFiniteSet(S) /\ IsFiniteSet(T) /\ IsFiniteSet(P)
  BY AgesFinite, FS_Subset
<1>3. {h[a] : a \in P} = S \ {0}
  <2>1. ASSUME NEW a \in P PROVE h[a] \in S \ {0}
    BY <1>1
  <2>2. ASSUME NEW b \in S \ {0} PROVE b - 1 \in P /\ h[b - 1] = b
    BY <1>1
  <2> HIDE DEF P, h
  <2> QED BY <2>1, <2>2
<1>4. SumFunctionOnSet(g, {h[a] : a \in P}) = SumFunctionOnSet(f, P)
  <2>1. \A a \in P : f[a] \in Int
    OBVIOUS
  <2>2. \A a, b \in P : h[a] = h[b] => a = b
    BY <1>1
  <2>3. \A a \in P : g[h[a]] = f[a]
    <3> TAKE a \in P
    <3>1. h[a] = a + 1 /\ a + 1 \in Ages /\ a + 1 # 0 /\ (a + 1) - 1 = a
      BY <1>1
    <3> QED BY <3>1
  <2> HIDE DEF P, h
  <2> QED BY <1>2, <2>1, <2>2, <2>3, SumRenamed
<1>5. SumFunctionOnSet(g, S \ {0}) = SumFunctionOnSet(g, S)
  <2>1. \A a \in S : g[a] \in Int /\ (a \notin S \ {0} => g[a] = 0)
    <3> TAKE a \in S
    <3>1. CASE a = 0
      BY <3>1
    <3>2. CASE a # 0
      BY <3>2
    <3> QED BY <3>1, <3>2
  <2>2. /\ S \ {0} \subseteq S /\ \A a \in S \ {0} : g[a] \in Int /\ g[a] = g[a]
        /\ \A a \in S \ (S \ {0}) : g[a] = 0
    BY <2>1
  <2> QED BY <1>2, <2>2, SumPadded
<1>6. SumFunctionOnSet(f, P) <= SumFunctionOnSet(f, T)
  <2>1. P \subseteq T /\ \A a \in T : f[a] \in Nat
    OBVIOUS
  <2> HIDE DEF P
  <2> QED BY <1>2, <2>1, SumOfPart
<1> HIDE DEF P, h
<1>7. SumFunctionOnSet(g, S) = SumFunctionOnSet(f, P)
  BY <1>3, <1>4, <1>5
<1> QED BY <1>6, <1>7

LEMMA TickBudget ==
    ASSUME TypeInv, BudgetInv, Tick
    PROVE  BudgetInv'
<1> SUFFICES ASSUME NEW k \in Keys PROVE Budgeted(k)'
  BY DEF BudgetInv
<1>0. Budgeted(k)
  BY DEF BudgetInv
<1>1. PICK n \in Nat, l \in 0 .. Window : counter[k] = [count |-> n, left |-> l]
  BY DEF TypeInv, Counters
<1> DEFINE R == Recent(k)
<1> DEFINE Q == Recent(k)'
<1> DEFINE f == admitted[k]
<1> DEFINE g == admitted'[k]
<1>2. \A a \in Ages : f[a] \in Nat
  BY OneSubject
<1>3. \A a \in Ages : g[a] = IF a = 0 THEN 0 ELSE f[a - 1]
  BY DEF Tick
<1>4. g[0] = 0
  BY <1>3, AgesFinite
<1>5. R \subseteq Ages /\ Q \subseteq Ages
  BY DEF Recent
<1>6. SumFunctionOnSet(f, R) \in Nat /\ SumFunctionOnSet(f, Ages \ R) \in Nat
  BY SubjectSums
<1>7. SumFunctionOnSet(f, R) <= Limit[k[1]] /\ SumFunctionOnSet(f, Ages \ R) <= Limit[k[1]]
  BY <1>0 DEF Budgeted
<1>8. Limit[k[1]] \in Nat
  BY Limits
<1>9. \A a \in Ages : a \in Nat /\ a < Window /\ (a # 0 => a - 1 \in Ages)
  BY Bounds DEF Ages
<1>10. SumFunctionOnSet(g, Q) \in Int /\ SumFunctionOnSet(g, Ages \ Q) \in Int
  <2>1. \A a \in Ages : g[a] \in Int
    BY <1>2, <1>3, <1>9
  <2>2. IsFiniteSet(Q) /\ IsFiniteSet(Ages \ Q)
    BY <1>5, AgesFinite, FS_Subset
  <2> HIDE DEF Q, g
  <2> QED BY <1>5, <2>1, <2>2, SumType
<1>11. \A a \in Ages : a \in R <=> a <= Window - l
  BY <1>1 DEF Recent
<1>12. CASE l <= 1
  <2>1. counter'[k] = [count |-> 0, left |-> 0]
    <3>1. counter'[k] = IF counter[k].left <= 1 THEN NoCounter
                        ELSE [counter[k] EXCEPT !.left = @ - 1]
      BY DEF Tick
    <3>2. counter[k].left <= 1
      BY <1>1, <1>12
    <3> QED BY <3>1, <3>2 DEF NoCounter
  <2>2. Q = Ages
    BY <2>1, <1>9, Bounds DEF Recent
  <2>3. SumFunctionOnSet(g, Ages) <= SumFunctionOnSet(f, R)
    <3>1. \A a \in Ages : a = 0 \/ a - 1 \in R
      BY <1>9, <1>11, <1>12, Bounds
    <3> HIDE DEF f, g, R, Q
    <3> QED BY <1>2, <1>3, <1>5, <3>1, Aged
  <2>4. SumFunctionOnSet(g, Ages \ Ages) = 0
    <3>1. Ages \ Ages = {}
      OBVIOUS
    <3> QED BY <3>1, SumEmpty
  <2> HIDE DEF f, g, R, Q
  <2>5. SumFunctionOnSet(g, Q) <= SumFunctionOnSet(f, R) /\ SumFunctionOnSet(g, Ages \ Q) = 0
    BY <2>2, <2>3, <2>4
  <2>6. SumFunctionOnSet(g, Q) <= Limit[k[1]] /\ SumFunctionOnSet(g, Ages \ Q) <= Limit[k[1]]
    BY <2>5, <1>6, <1>7, <1>8, <1>10
  <2> QED BY <1>4, <2>1, <2>6 DEF Budgeted, Q, g
<1>13. CASE l > 1
  <2>1. counter'[k] = [count |-> n, left |-> l - 1]
    <3>1. counter'[k] = IF counter[k].left <= 1 THEN NoCounter
                        ELSE [counter[k] EXCEPT !.left = counter[k].left - 1]
      BY DEF Tick
    <3>2. ~(counter[k].left <= 1)
      BY <1>1, <1>13
    <3>3. counter'[k] = [counter[k] EXCEPT !.left = counter[k].left - 1]
      BY <3>1, <3>2
    <3> QED BY <1>1, <3>3
  <2>2. \A a \in Ages : a \in Q <=> a <= Window - (l - 1)
    BY <2>1 DEF Recent
  <2>3. SumFunctionOnSet(g, Q) <= SumFunctionOnSet(f, R)
    <3>1. \A a \in Q : a = 0 \/ a - 1 \in R
      BY <1>5, <1>9, <1>11, <2>2, Bounds
    <3> HIDE DEF f, g, R, Q
    <3> QED BY <1>2, <1>3, <1>5, <3>1, Aged
  <2>4. SumFunctionOnSet(g, Ages \ Q) <= SumFunctionOnSet(f, Ages \ R)
    <3>1. \A a \in Ages \ Q : a = 0 \/ a - 1 \in Ages \ R
      BY <1>9, <1>11, <2>2, Bounds
    <3> HIDE DEF f, g, R, Q
    <3>2. Ages \ Q \subseteq Ages /\ Ages \ R \subseteq Ages
      OBVIOUS
    <3> QED BY <1>2, <1>3, <3>1, <3>2, Aged
  <2>5. n # 0 /\ SumFunctionOnSet(f, R) <= n
    BY <1>0, <1>1, <1>13 DEF Budgeted
  <2> HIDE DEF f, g, R, Q
  <2>6. /\ SumFunctionOnSet(g, Q) <= Limit[k[1]] /\ SumFunctionOnSet(g, Ages \ Q) <= Limit[k[1]]
        /\ SumFunctionOnSet(g, Q) <= n
    BY <1>6, <1>7, <1>8, <1>10, <2>3, <2>4, <2>5
  <2>7. counter'[k].count = n /\ counter'[k].left = l - 1 /\ l - 1 # 0
    BY <2>1, <1>13
  <2> QED BY <2>5, <2>6, <2>7 DEF Budgeted, Q, g
<1> QED BY <1>12, <1>13

LEMMA BudgetInit == Init => BudgetInv
<1> SUFFICES ASSUME Init, NEW k \in Keys PROVE Budgeted(k)
  BY DEF BudgetInv
<1>1. counter[k] = [count |-> 0, left |-> 0] /\ admitted[k] = [a \in Ages |-> 0]
  BY DEF Init, NoCounter
<1>2. IsFiniteSet(Recent(k)) /\ IsFiniteSet(Ages \ Recent(k)) /\ Recent(k) \subseteq Ages
  BY AgesFinite, FS_Subset DEF Recent
<1>3. \A a \in Ages : admitted[k][a] = 0
  BY <1>1
<1>4. SumFunctionOnSet(admitted[k], Recent(k)) = 0
  BY <1>2, <1>3, SumZero
<1>5. SumFunctionOnSet(admitted[k], Ages \ Recent(k)) = 0
  BY <1>2, <1>3, SumZero
<1> QED BY <1>1, <1>3, <1>4, <1>5, AgesFinite, Limits DEF Budgeted

-----------------------------------------------------------------------------
(* Requests: what the tables say of every operation.                       *)

MessageRows == VideoMessages \cup UserMessages
ServiceRows ==
    ReadingServices \cup ReactionServices \cup CommentServices \cup OwnerServices
        \cup AdminServices \cup UserServices
UsecaseRows ==
    ReadingUsecases \cup ReactionUsecases \cup CommentUsecases \cup ReviewUsecases
        \cup UserUsecases

\* The fields a column or a check of the repository limits, and the check that
\* the use cases make of a field.
Limited == DOMAIN ColumnSize \cup {"target_amount", "page_size"}
CheckOf(op, f) ==
    CASE op = "Register" /\ f = "username" -> "new_username"
      [] op = "Register" /\ f = "password" -> "new_password"
      [] OTHER -> f

Occurs(check, checks) == \E i \in DOMAIN checks : checks[i] = check
Made(check, op) == Occurs(check, Services[op]) \/ Occurs(check, Usecases[op])

LEMMA RowTaken ==
    ASSUME NEW table, NEW op \in UNION {row.ops : row \in table}
    PROVE  RowOf(table, op) \in table /\ op \in RowOf(table, op).ops
BY DEF RowOf

LEMMA MessageRow ==
    ASSUME NEW op \in Operations
    PROVE  Messages[op] \in MessageRows /\ op \in Messages[op].ops
<1>1. op \in UNION {row.ops : row \in MessageRows}
  BY SMT DEF Operations, VideoOperations, UserOperations, ReadingMethods,
             ReactionMethods, HistoryMethods, DanmakuMethods, CommentMethods,
             OwnerMethods, AdminMethods, ProfileMethods, SessionMethods,
             MessageRows, VideoMessages, UserMessages, ListingMessages,
             SearchMessages, PlaybackMessages, LikeMessages, EngagementMessages,
             SpendingMessages, HistoryMessages, DanmakuMessages, RootMessages,
             ThreadMessages, CommentMessages, StatusMessages, OwnerMessages,
             ViewMessages, ReviewMessages, DecisionMessages, ReasonedMessages,
             ProfileMessages, CredentialMessages, TokenMessages, Fields
<1>2. Messages[op] = RowOf(MessageRows, op)
  BY DEF Messages, MessageRows
<1> QED BY <1>1, <1>2, RowTaken, Zenon

LEMMA ServiceRow ==
    ASSUME NEW op \in Operations
    PROVE  \E row \in ServiceRows : op \in row.ops /\ Services[op] = row.steps
<1>1. op \in UNION {row.ops : row \in ServiceRows}
  BY SMT DEF Operations, VideoOperations, UserOperations, ReadingMethods,
             ReactionMethods, HistoryMethods, DanmakuMethods, CommentMethods,
             OwnerMethods, AdminMethods, ProfileMethods, SessionMethods,
             ServiceRows, ReadingServices, ReactionServices, CommentServices,
             OwnerServices, AdminServices, UserServices, Checked,
             AuthenticatedVideoRequest, AdministratorVideoRequest
<1>2. Services[op] = RowOf(ServiceRows, op).steps
  BY DEF Services, ServiceRows
<1> QED BY <1>1, <1>2, RowTaken, Zenon

LEMMA UsecaseRow ==
    ASSUME NEW op \in Operations
    PROVE  \E row \in UsecaseRows : op \in row.ops /\ Usecases[op] = row.steps
<1>1. op \in UNION {row.ops : row \in UsecaseRows}
  BY SMT DEF Operations, VideoOperations, UserOperations, ReadingMethods,
             ReactionMethods, HistoryMethods, DanmakuMethods, CommentMethods,
             OwnerMethods, AdminMethods, ProfileMethods, SessionMethods,
             UsecaseRows, ReadingUsecases, ReactionUsecases, CommentUsecases,
             ReviewUsecases, UserUsecases, Checked
<1>2. Usecases[op] = RowOf(UsecaseRows, op).steps
  BY DEF Usecases, UsecaseRows
<1> QED BY <1>1, <1>2, RowTaken, Zenon

\* The checks of a handler and of a use case, one after the other.
LEMMA OccursJoined ==
    ASSUME NEW s, NEW t, NEW check,
           \E n \in Nat : DOMAIN s = 1 .. n, \E n \in Nat : DOMAIN t = 1 .. n
    PROVE  /\ \E n \in Nat : DOMAIN (s \o t) = 1 .. n
           /\ Occurs(check, s \o t) <=> Occurs(check, s) \/ Occurs(check, t)
<1>1. PICK n \in Nat : DOMAIN s = 1 .. n
  OBVIOUS
<1>2. PICK k \in Nat : DOMAIN t = 1 .. k
  OBVIOUS
<1>3. Len(s) = n /\ Len(t) = k
  BY <1>1, <1>2
<1>4. DOMAIN (s \o t) = 1 .. n + k
  BY <1>3
<1>5. \A i \in 1 .. n : (s \o t)[i] = s[i] /\ i \in 1 .. n + k
  BY <1>3
<1>6. \A i \in 1 .. k : (s \o t)[n + i] = t[i] /\ n + i \in 1 .. n + k
  BY <1>3
<1>7. \A i \in 1 .. n + k : i \in 1 .. n \/ (i - n \in 1 .. k /\ (s \o t)[i] = t[i - n])
  BY <1>3
<1>8. Occurs(check, s \o t) <=> Occurs(check, s) \/ Occurs(check, t)
  BY <1>1, <1>2, <1>4, <1>5, <1>6, <1>7 DEF Occurs
<1> QED BY <1>4, <1>8, n + k \in Nat

LEMMA ChecksMade ==
    ASSUME NEW op \in Operations
    PROVE  /\ \E n \in Nat : DOMAIN (Services[op] \o Usecases[op]) = 1 .. n
           /\ \A check : Occurs(check, Services[op] \o Usecases[op]) <=> Made(check, op)
<1>1. \A row \in ServiceRows : DOMAIN row.steps \in {1 .. n : n \in 0 .. 5}
  BY SMT DEF ServiceRows, ReadingServices, ReactionServices, CommentServices,
             OwnerServices, AdminServices, UserServices, Checked,
             AuthenticatedVideoRequest, AdministratorVideoRequest,
             ReactionMethods, HistoryMethods, OwnerMethods
<1>2. \A row \in UsecaseRows : DOMAIN row.steps \in {1 .. n : n \in 0 .. 5}
  BY SMT DEF UsecaseRows, ReadingUsecases, ReactionUsecases, CommentUsecases,
             ReviewUsecases, UserUsecases, Checked, HistoryMethods
<1>3. PICK row \in ServiceRows : op \in row.ops /\ Services[op] = row.steps
  BY ServiceRow
<1>4. PICK other \in UsecaseRows : op \in other.ops /\ Usecases[op] = other.steps
  BY UsecaseRow
<1>5. PICK n \in 0 .. 5 : DOMAIN Services[op] = 1 .. n
  BY <1>1, <1>3
<1>6. PICK k \in 0 .. 5 : DOMAIN Usecases[op] = 1 .. k
  BY <1>2, <1>4
<1> QED BY <1>5, <1>6, OccursJoined, n \in Nat, k \in Nat, Zenon DEF Made

\* What a handler passes on, it or its use case has checked: every required
\* field, and every field that a column or a check of the repository limits.
LEMMA Covered ==
    ASSUME NEW op \in Operations,
           NEW f \in Messages[op].required \cup (Messages[op].optional \cap Limited)
    PROVE  Made(CheckOf(op, f), op)
<1>1. \A m \in MessageRows, s \in ServiceRows, u \in UsecaseRows :
          op \in m.ops /\ op \in s.ops /\ op \in u.ops
            /\ f \in m.required \cup (m.optional \cap Limited)
          => Occurs(CheckOf(op, f), s.steps) \/ Occurs(CheckOf(op, f), u.steps)
  BY SMT DEF MessageRows, VideoMessages, UserMessages, ListingMessages,
             SearchMessages, PlaybackMessages, LikeMessages, EngagementMessages,
             SpendingMessages, HistoryMessages, DanmakuMessages, RootMessages,
             ThreadMessages, CommentMessages, StatusMessages, OwnerMessages,
             ViewMessages, ReviewMessages, DecisionMessages, ReasonedMessages,
             ProfileMessages, CredentialMessages, TokenMessages, HistoryMethods,
             Fields, ServiceRows, ReadingServices, ReactionServices,
             CommentServices, OwnerServices, AdminServices, UserServices, Checked,
             AuthenticatedVideoRequest, AdministratorVideoRequest,
             ReactionMethods, OwnerMethods, UsecaseRows, ReadingUsecases,
             ReactionUsecases, CommentUsecases, ReviewUsecases, UserUsecases,
             CheckOf, Occurs, Limited, ColumnSize
<1> QED BY <1>1, MessageRow, ServiceRow, UsecaseRow, Zenon DEF Made
-----------------------------------------------------------------------------
(* The requests in general: any identity, any message.                     *)

\* Fields that are text, measured in characters and in bytes.
Texts == {"request_id", "text", "color", "content", "query", "title", "description", "reason",
          "session_id", "display_name", "bio", "username", "password"}

Measures == [set : BOOLEAN, n : Int, bytes : Int, plain : BOOLEAN]

\* The messages a client can send. A field that is not set measures 0, a
\* character takes one to four bytes (UTF-8), and an identifier is unknown,
\* within the range of a BIGINT or beyond it.
Sendable(op) ==
    {m \in [FieldsOf(op) -> Measures] :
        \A f \in FieldsOf(op) :
            /\ ~m[f].set => m[f].n = 0
            /\ f \in Texts => m[f].n <= m[f].bytes /\ m[f].bytes <= 4 * m[f].n
            /\ f \in Identifiers => m[f].n \in 0 .. 2}

\* An operation is called exactly if no check refuses the request.
LEMMA CalledIfPassed ==
    ASSUME NEW checks, NEW identity, NEW m,
           \E n \in Nat : DOMAIN checks = 1 .. n
    PROVE  FirstRefusal(checks, identity, m) = "called"
             <=> \A check : Occurs(check, checks) => Passes(check, identity, m)
<1> DEFINE failing == {i \in DOMAIN checks : ~Passes(checks[i], identity, m)}
<1>1. \A check : Refusal(check, identity) # "called"
  BY SMT DEF Refusal
<1>2. FirstRefusal(checks, identity, m) = "called" <=> failing = {}
  BY <1>1, Zenon DEF FirstRefusal
<1>3. failing = {} <=> \A check : Occurs(check, checks) => Passes(check, identity, m)
  BY Zenon DEF Occurs
<1> QED BY <1>2, <1>3, Zenon

\* What is asked of a request behind the administrator selector and the
\* validator of the HTTP server.
LEMMA CalledIf ==
    ASSUME NEW transport, NEW identity, NEW op \in Operations, NEW m
    PROVE  Handled(transport, identity, op, m) = "called" <=>
               /\ AdminOperation(FullMethod(op)) => RequireAdmin(identity)
               /\ transport = "http" => RequiredFieldsSet(op, m)
               /\ \A check : Made(check, op) => Passes(check, identity, m)
<1>1. Refusal("admin", identity) # "called"
  BY SMT DEF Refusal
<1>2. Handled(transport, identity, op, m) = "called" <=>
          /\ AdminOperation(FullMethod(op)) => RequireAdmin(identity)
          /\ transport = "http" => RequiredFieldsSet(op, m)
          /\ FirstRefusal(Services[op] \o Usecases[op], identity, m) = "called"
  BY <1>1, SMT DEF Handled
<1> QED BY <1>2, CalledIfPassed, ChecksMade, Zenon

\* A required field that is not set fails its check.
LEMMA UnsetRefused ==
    ASSUME NEW op \in Operations, NEW identity, NEW m \in Sendable(op),
           NEW f \in Messages[op].required, ~m[f].set
    PROVE  ~Passes(CheckOf(op, f), identity, m)
<1>1. f \in FieldsOf(op)
  BY DEF FieldsOf
<1>2. m[f].n = 0 /\ m[f] \in Measures /\ (f \in Texts => m[f].bytes <= 0)
  BY <1>1 DEF Sendable
<1>3. \A row \in MessageRows : f \in row.required =>
          f \in {"user_id", "query", "bvid", "target_amount", "request_id", "text",
                 "danmaku_id", "root_comment_id", "content", "comment_id", "title",
                 "session_id", "status", "reason", "display_name", "username", "password",
                 "refresh_token"}
  BY SMT DEF MessageRows, VideoMessages, UserMessages, ListingMessages,
             SearchMessages, PlaybackMessages, LikeMessages, EngagementMessages,
             SpendingMessages, HistoryMessages, DanmakuMessages, RootMessages,
             ThreadMessages, CommentMessages, StatusMessages, OwnerMessages,
             ViewMessages, ReviewMessages, DecisionMessages, ReasonedMessages,
             ProfileMessages, CredentialMessages, TokenMessages, HistoryMethods,
             Fields
<1>4. f \in {"user_id", "query", "bvid", "target_amount", "request_id", "text",
                 "danmaku_id", "root_comment_id", "content", "comment_id", "title",
                 "session_id", "status", "reason", "display_name", "username", "password",
                 "refresh_token"}
  BY <1>3, MessageRow
<1> QED
  BY <1>2, <1>4, SMT DEF Passes, CheckOf, Measures, Texts, Known, Between,
                         ValidAmount, ValidRequestID, ValidDanmaku, ValidComment,
                         ValidQuery, ValidTitle, ValidReason, ValidSessionID,
                         ValidDisplayName, ValidUsername, ValidPassword

LEMMA TransportsAgreeOn ==
    ASSUME NEW op \in Operations, NEW identity, NEW m \in Sendable(op)
    PROVE  Handled("http", identity, op, m) = "called"
             <=> Handled("grpc", identity, op, m) = "called"
<1>1. SUFFICES ASSUME \A check : Made(check, op) => Passes(check, identity, m)
               PROVE  RequiredFieldsSet(op, m)
  BY CalledIf, "http" # "grpc", Zenon
<1>2. ASSUME NEW f \in Messages[op].required PROVE m[f].set
  BY <1>1, UnsetRefused, Covered
<1> QED BY <1>2 DEF RequiredFieldsSet

\* A call the use cases make fits the tables, in every field of its message
\* whose value PostgreSQL has at all.
LEMMA FitsTables ==
    ASSUME NEW transport, NEW identity, NEW op \in Operations, NEW m \in Sendable(op),
           Handled(transport, identity, op, m) = "called",
           NEW f \in FieldsOf(op), Representable(f, m[f])
    PROVE  Fits(op, f, m[f])
<1>1. m[f] \in Measures /\ (f \in Texts => m[f].n <= m[f].bytes /\ m[f].bytes <= 4 * m[f].n)
  BY DEF Sendable
<1>2. CASE f \in Messages[op].required \cup (Messages[op].optional \cap Limited)
  <2>1. Passes(CheckOf(op, f), identity, m)
    BY <1>2, CalledIf, Covered
  <2>2. CASE f \in Limited
    BY <1>1, <2>1, <2>2, SMT
    DEF Passes, CheckOf, Measures, Texts, Limited, Fits, ColumnSize, NotNull, Stored, Between,
        DanmakuColor, NormalizedPageSize, DefaultPageSize, MaxPageSize, ValidPageSize,
        ValidAmount, ValidRequestID, ValidDanmaku, ValidColor, ValidComment, ValidTitle,
        ValidSessionID, ValidDisplayName, ValidBio
  <2>3. CASE f \notin Limited
    BY <1>1, <2>1, <2>3, SMT
    DEF Passes, CheckOf, Measures, Limited, Fits, ColumnSize, NotNull, Between, ValidUsername
  <2> QED BY <2>2, <2>3
<1>3. CASE f \notin Messages[op].required \cup (Messages[op].optional \cap Limited)
  <2>1. f \notin Limited
    BY <1>3 DEF FieldsOf
  <2>2. \A row \in MessageRows : op \in row.ops => op # "Register" \/ row.optional = {}
    BY SMT DEF MessageRows, VideoMessages, UserMessages, ListingMessages,
               SearchMessages, PlaybackMessages, LikeMessages, EngagementMessages,
               SpendingMessages, HistoryMessages, DanmakuMessages, RootMessages,
               ThreadMessages, CommentMessages, StatusMessages, OwnerMessages,
               ViewMessages, ReviewMessages, DecisionMessages, ReasonedMessages,
               ProfileMessages, CredentialMessages, TokenMessages, HistoryMethods,
               Fields
  <2>3. f # "username" \/ op # "Register"
    BY <1>3, <2>2, MessageRow DEF FieldsOf
  <2> QED BY <2>1, <2>3 DEF Fits, Limited, ColumnSize, NotNull
<1> QED BY <1>2, <1>3

\* The requests of the runs are such messages.
LEMMA ProbesSendable ==
    ASSUME NEW op \in Operations
    PROVE  Probes(op) \subseteq Sendable(op)
<1> DEFINE Good(f, v) ==
        /\ v \in Measures
        /\ ~v.set => v.n = 0
        /\ f \in Texts => v.n <= v.bytes /\ v.bytes <= 4 * v.n
        /\ f \in Identifiers => v.n \in 0 .. 2
<1>1. /\ \A f \in Texts : f \notin Numbers /\ f \notin Identifiers
      /\ \A f \in Identifiers : f \notin Numbers
  BY DEF Texts, Numbers, Identifiers
<1>2. ASSUME NEW f PROVE Good(f, Fine(f))
  <2>1. Good(f, Value(TRUE, 1, 1)) /\ (f \notin Identifiers => Good(f, Value(TRUE, 8, 8)))
    BY SMT DEF Value, Measures
  <2>2. f = "color" => Good(f, Value(TRUE, 7, 7)) /\ f \notin Identifiers /\ f \notin Numbers
    BY SMT DEF Value, Measures, Identifiers, Numbers
  <2>3. Fine(f) = IF f \in Numbers \cup Identifiers THEN Value(TRUE, 1, 1)
                  ELSE IF f = "color" THEN Value(TRUE, 7, 7) ELSE Value(TRUE, 8, 8)
    BY <2>2, Zenon DEF Fine
  <2> HIDE DEF Good
  <2> QED BY <2>1, <2>2, <2>3, Zenon
<1>3. ASSUME NEW f, NEW v \in Probed(f) PROVE Good(f, v)
  <2>1. ASSUME NEW b \in BOOLEAN, NEW n \in Int, NEW bytes \in Int, ~b => n = 0
        PROVE  /\ Value(b, n, bytes) \in Measures
               /\ ~Value(b, n, bytes).set => Value(b, n, bytes).n = 0
               /\ Value(b, n, bytes).n = n /\ Value(b, n, bytes).bytes = bytes
    BY <2>1, SMT DEF Value, Measures
  <2>2. CASE f \in Numbers
    <3>1. PICK n \in {-1, 0, 1, 2, 3, 20, 50, 51} : v = Value(n # 0, n, 8)
      BY <2>2 DEF Probed
    <3>2. n \in Int
      OBVIOUS
    <3>3. v \in Measures /\ (~v.set => v.n = 0)
      <4>1. PICK b \in BOOLEAN : b <=> n # 0
        OBVIOUS
      <4>2. v = Value(b, n, 8)
        BY <3>1, <4>1, Zenon
      <4> QED BY <2>1, <3>2, <4>1, <4>2
    <3> QED BY <2>2, <3>3, <1>1
  <2>3. CASE f \notin Numbers /\ f \in Identifiers
    <3>1. PICK n \in 0 .. 2 : v = Value(n # 0, n, 8) \/ v = Value(TRUE, 0, 8)
      <4>1. Probed(f) = {Value(n # 0, n, 8) : n \in 0 .. 2} \cup {Value(TRUE, 0, 8)}
        BY <2>3, Zenon DEF Probed
      <4>2. 0 \in 0 .. 2
        OBVIOUS
      <4> QED BY <4>1, <4>2, Zenon
    <3>2. PICK b \in BOOLEAN : b <=> n # 0
      OBVIOUS
    <3>3. v = Value(b, n, 8) \/ v = Value(TRUE, 0, 8)
      BY <3>1, <3>2, Zenon
    <3>4. v \in Measures /\ (~v.set => v.n = 0) /\ v.n \in 0 .. 2
      <4>1. CASE v = Value(b, n, 8)
        BY <2>1, <3>2, <4>1, 8 \in Int, n \in Int
      <4>2. CASE v = Value(TRUE, 0, 8)
        BY <4>2, SMT DEF Value, Measures
      <4> QED BY <3>3, <4>1, <4>2
    <3> QED BY <1>1, <2>3, <3>4
  <2>4. CASE f \notin Numbers /\ f \notin Identifiers
    <3>1. PICK n \in Lengths : \/ v = Value(n # 0, n, n) \/ v = Value(n # 0, n, 3 * n)
                              \/ v = Value(TRUE, 0, 0)
                              \/ \E k \in {7, 8} : v = [Value(TRUE, k, k) EXCEPT !.plain = FALSE]
      <4>1. Probed(f) = {Value(n # 0, n, n) : n \in Lengths}
                          \cup {Value(n # 0, n, 3 * n) : n \in Lengths}
                          \cup {Value(TRUE, 0, 0)}
                          \cup {[Value(TRUE, n, n) EXCEPT !.plain = FALSE] : n \in {7, 8}}
        BY <2>4, Zenon DEF Probed
      <4>2. 0 \in Lengths
        BY DEF Lengths
      <4> QED BY <4>1, <4>2, Zenon
    <3>2. n \in Nat
      BY DEF Lengths
    <3>3. PICK b \in BOOLEAN : b <=> n # 0
      OBVIOUS
    <3>4. \/ v = Value(b, n, n) \/ v = Value(b, n, 3 * n) \/ v = Value(TRUE, 0, 0)
          \/ \E k \in {7, 8} : v = [Value(TRUE, k, k) EXCEPT !.plain = FALSE]
      BY <3>1, <3>3, Zenon
    <3>5. CASE \E k \in {7, 8} : v = [Value(TRUE, k, k) EXCEPT !.plain = FALSE]
      <4>1. PICK k \in {7, 8} : v = [Value(TRUE, k, k) EXCEPT !.plain = FALSE]
        BY <3>5
      <4>2. v = [set |-> TRUE, n |-> k, bytes |-> k, plain |-> FALSE]
        BY <4>1 DEF Value
      <4> QED BY <2>4, <4>2, SMT DEF Measures
    <3>6. CASE v = Value(b, n, n) \/ v = Value(b, n, 3 * n) \/ v = Value(TRUE, 0, 0)
      <4>1. CASE v = Value(TRUE, 0, 0)
        BY <2>4, <4>1, SMT DEF Value, Measures
      <4>2. CASE v = Value(b, n, n) \/ v = Value(b, n, 3 * n)
        BY <2>1, <2>4, <3>2, <3>3, <4>2
      <4> QED BY <3>6, <4>1, <4>2
    <3> QED BY <3>4, <3>5, <3>6
  <2> QED BY <2>2, <2>3, <2>4
<1>4. ASSUME NEW m \in Probes(op) PROVE m \in Sendable(op)
  <2>1. /\ m \in [FieldsOf(op) -> {m[f] : f \in FieldsOf(op)}]
        /\ \A f \in FieldsOf(op) : m[f] = Fine(f) \/ m[f] \in Probed(f)
    BY DEF Probes
  <2>2. \A f \in FieldsOf(op) : Good(f, m[f])
    BY <2>1, <1>2, <1>3
  <2> QED BY <2>1, <2>2 DEF Sendable
<1> QED BY <1>4

LEMMA AllAgree == Bearers \subseteq Agreeing
<1>1. SUFFICES ASSUME NEW bearer \in Bearers, NEW op \in Operations, NEW m \in Probes(op)
               PROVE  Answer("http", bearer, op, m) = "called"
                        <=> Answer("grpc", bearer, op, m) = "called"
  BY DEF Agreeing
<1>2. m \in Sendable(op)
  BY ProbesSendable
<1> QED BY <1>2, TransportsAgreeOn DEF Answer

LEMMA AllFit == Bearers \subseteq Fitting
<1>1. SUFFICES ASSUME NEW bearer \in Bearers, NEW transport \in {"http", "grpc"},
                      NEW op \in Operations, NEW m \in Probes(op),
                      Answer(transport, bearer, op, m) = "called",
                      NEW f \in FieldsOf(op), Representable(f, m[f])
               PROVE  Fits(op, f, m[f])
  BY DEF Fitting, Fits
<1>2. m \in Sendable(op)
  BY ProbesSendable
<1>3. Handled(transport, Authenticate(bearer), op, m) = "called"
  BY <1>1, "unauthenticated" # "called", Zenon DEF Answer
<1> QED BY <1>1, <1>2, <1>3, FitsTables
-----------------------------------------------------------------------------
(* Routes.                                                                 *)

Members(s) == {s[i] : i \in DOMAIN s}
OpsOf(s) == {s[i].op : i \in DOMAIN s}

\* Route r takes the requests meant for route q, if it is registered first.
Takes(r, q) == r.verb = q.verb /\ Matches(r.path, Sample(q.path))

\* What that comes to segment by segment, for the lengths that occur.
Meets(r, q, k) ==
    r.path[k] \in {"*", q.path[k]} \/ (q.path[k] = "*" /\ r.path[k] = "x")

Alike(r, q) ==
    /\ r.verb = q.verb
    /\ \/ Len(r.path) = 1 /\ Len(q.path) = 1 /\ Meets(r, q, 1)
       \/ Len(r.path) = 2 /\ Len(q.path) = 2 /\ Meets(r, q, 1) /\ Meets(r, q, 2)
       \/ /\ Len(r.path) = 3 /\ Len(q.path) = 3
          /\ Meets(r, q, 1) /\ Meets(r, q, 2) /\ Meets(r, q, 3)
       \/ /\ Len(r.path) = 4 /\ Len(q.path) = 4
          /\ Meets(r, q, 1) /\ Meets(r, q, 2) /\ Meets(r, q, 3) /\ Meets(r, q, 4)
       \/ /\ Len(r.path) = 5 /\ Len(q.path) = 5
          /\ Meets(r, q, 1) /\ Meets(r, q, 2) /\ Meets(r, q, 3) /\ Meets(r, q, 4)
          /\ Meets(r, q, 5)

Short(r) == DOMAIN r.path \in {1 .. n : n \in 1 .. 5}

LEMMA TakesAlike ==
    ASSUME NEW r, NEW q, Short(r), Short(q), Takes(r, q)
    PROVE  Alike(r, q)
<1>1. PICK n \in 1 .. 5 : DOMAIN r.path = 1 .. n
  BY DEF Short
<1>2. PICK k \in 1 .. 5 : DOMAIN q.path = 1 .. k
  BY DEF Short
<1>3. DOMAIN Sample(q.path) = 1 .. k
  BY <1>2 DEF Sample
<1>4. Len(r.path) = n /\ Len(q.path) = k /\ Len(Sample(q.path)) = k
  BY <1>1, <1>2, <1>3
<1>5. r.verb = q.verb /\ n = k
  BY <1>4 DEF Takes, Matches
<1>6. \A j \in 1 .. k : Meets(r, q, j)
  BY <1>2, <1>3 DEF Takes, Matches, Sample, Meets
<1> QED BY <1>4, <1>5, <1>6 DEF Alike

LEMMA TakesItself ==
    ASSUME NEW r, Short(r)
    PROVE  Takes(r, r)
<1>1. PICK n \in 1 .. 5 : DOMAIN r.path = 1 .. n
  BY DEF Short
<1>2. DOMAIN Sample(r.path) = 1 .. n
  BY <1>1 DEF Sample
<1>3. Len(r.path) = n /\ Len(Sample(r.path)) = n
  BY <1>1, <1>2
<1> QED BY <1>1, <1>2, <1>3 DEF Takes, Matches, Sample

\* A table in which no route takes the requests of a later one, and no
\* operation has two routes.
Orderly(s) ==
    /\ \E n \in Nat : DOMAIN s = 1 .. n
    /\ \A i \in DOMAIN s : Short(s[i])
    /\ \A i, j \in DOMAIN s : j < i => ~Alike(s[j], s[i])
    /\ \A i, j \in DOMAIN s : s[i].op = s[j].op => i = j

Apart(s, t) == \A r \in Members(s), q \in Members(t) : ~Alike(r, q)

LEMMA Joined ==
    ASSUME NEW s, NEW t, Orderly(s), Orderly(t), Apart(s, t), OpsOf(s) \cap OpsOf(t) = {}
    PROVE  /\ Orderly(s \o t)
           /\ OpsOf(s \o t) = OpsOf(s) \cup OpsOf(t)
           /\ Members(s \o t) = Members(s) \cup Members(t)
<1>1. PICK n \in Nat : DOMAIN s = 1 .. n
  BY DEF Orderly
<1>2. PICK k \in Nat : DOMAIN t = 1 .. k
  BY DEF Orderly
<1>3. Len(s) = n /\ Len(t) = k
  BY <1>1, <1>2
<1>4. DOMAIN (s \o t) = 1 .. n + k
  BY <1>3
<1> DEFINE st == s \o t
<1>5. \A i \in 1 .. n : st[i] = s[i] /\ i \in 1 .. n + k
  BY <1>3
<1>6. \A i \in 1 .. k : st[n + i] = t[i] /\ n + i \in 1 .. n + k
  BY <1>3
<1>7. \A i \in 1 .. n + k :
          i \in 1 .. n \/ (i > n /\ i - n \in 1 .. k /\ st[i] = t[i - n])
  BY <1>3
<1> HIDE DEF st
<1>8. DOMAIN st = 1 .. n + k
  BY <1>4 DEF st
<1>9. Members(st) = Members(s) \cup Members(t) /\ OpsOf(st) = OpsOf(s) \cup OpsOf(t)
  <2>1. ASSUME NEW i \in DOMAIN st
        PROVE  (\E j \in DOMAIN s : st[i] = s[j]) \/ (\E j \in DOMAIN t : st[i] = t[j])
    <3>1. CASE i \in 1 .. n
      BY <1>1, <1>5, <3>1
    <3>2. CASE i \notin 1 .. n
      BY <1>2, <1>7, <1>8, <3>2
    <3> QED BY <3>1, <3>2
  <2>2. \A j \in DOMAIN s : \E i \in DOMAIN st : st[i] = s[j]
    BY <1>1, <1>5, <1>8
  <2>3. \A j \in DOMAIN t : \E i \in DOMAIN st : st[i] = t[j]
    BY <1>2, <1>6, <1>8
  <2>4. ASSUME NEW r
        PROVE  r \in Members(st) <=> r \in Members(s) \/ r \in Members(t)
    BY <2>1, <2>2, <2>3 DEF Members
  <2>5. ASSUME NEW op
        PROVE  op \in OpsOf(st) <=> op \in OpsOf(s) \/ op \in OpsOf(t)
    BY <2>1, <2>2, <2>3 DEF OpsOf
  <2> QED BY <2>4, <2>5
<1>10. \A i \in DOMAIN st : Short(st[i])
  BY <1>1, <1>2, <1>5, <1>7, <1>8 DEF Orderly
<1>11. ASSUME NEW i \in DOMAIN st, NEW j \in DOMAIN st, j < i
       PROVE  ~Alike(st[j], st[i])
  <2>1. CASE i \in 1 .. n
    BY <1>1, <1>5, <1>8, <1>11, <2>1 DEF Orderly
  <2>2. CASE i \notin 1 .. n /\ j \in 1 .. n
    <3>1. st[j] \in Members(s) /\ st[i] \in Members(t)
      BY <1>1, <1>2, <1>5, <1>7, <1>8, <2>2 DEF Members
    <3> QED BY <3>1 DEF Apart
  <2>3. CASE i \notin 1 .. n /\ j \notin 1 .. n
    <3>1. i - n \in 1 .. k /\ j - n \in 1 .. k /\ j - n < i - n
      BY <1>7, <1>8, <1>11, <2>3
    <3>2. st[i] = t[i - n] /\ st[j] = t[j - n]
      BY <1>7, <1>8, <2>3
    <3> QED BY <1>2, <3>1, <3>2 DEF Orderly
  <2> QED BY <2>1, <2>2, <2>3
<1>12. ASSUME NEW i \in DOMAIN st, NEW j \in DOMAIN st, st[i].op = st[j].op
       PROVE  i = j
  <2>1. ASSUME NEW a \in DOMAIN st, NEW b \in DOMAIN st, a \in 1 .. n, b \notin 1 .. n
        PROVE  st[a].op # st[b].op
    <3>1. st[a].op \in OpsOf(s) /\ st[b].op \in OpsOf(t)
      BY <1>1, <1>2, <1>5, <1>7, <1>8, <2>1 DEF OpsOf
    <3> QED BY <3>1
  <2>2. CASE i \in 1 .. n /\ j \in 1 .. n
    BY <1>1, <1>5, <1>12, <2>2 DEF Orderly
  <2>3. CASE i \notin 1 .. n /\ j \notin 1 .. n
    <3>1. i - n \in 1 .. k /\ j - n \in 1 .. k /\ st[i] = t[i - n] /\ st[j] = t[j - n]
      BY <1>7, <1>8, <2>3
    <3>2. t[i - n].op = t[j - n].op
      BY <1>12, <3>1
    <3>3. i - n = j - n
      BY <1>2, <3>1, <3>2 DEF Orderly
    <3> QED BY <1>8, <3>3
  <2> QED BY <1>12, <2>1, <2>2, <2>3
<1>13. \E l \in Nat : DOMAIN st = 1 .. l
  BY <1>8, n + k \in Nat, Zenon
<1>14. Orderly(st)
  BY <1>10, <1>11, <1>12, <1>13 DEF Orderly
<1> QED BY <1>9, <1>14 DEF st

Last == <<Route("POST", <<"videos", "upload">>, "UploadVideo")>>

LEMMA ReadingOrderly == Orderly(ReadingRoutes) /\ OpsOf(ReadingRoutes) = ReadingMethods
<1>1. \E n \in Nat : DOMAIN ReadingRoutes = 1 .. n
  BY SMT DEF ReadingRoutes
<1>2. \A i \in DOMAIN ReadingRoutes : Short(ReadingRoutes[i])
  BY SMT DEF ReadingRoutes, Route, Short
<1>3. ASSUME NEW i \in DOMAIN ReadingRoutes, NEW j \in DOMAIN ReadingRoutes, j < i,
             NEW r, NEW q, r = ReadingRoutes[j], q = ReadingRoutes[i]
      PROVE  ~Alike(r, q)
  BY <1>3, SMT DEF ReadingRoutes, Route, Alike, Meets
<1>4. \A i, j \in DOMAIN ReadingRoutes : ReadingRoutes[i].op = ReadingRoutes[j].op => i = j
  BY SMT DEF ReadingRoutes, Route
<1>5. OpsOf(ReadingRoutes) = ReadingMethods
  BY SMT DEF ReadingRoutes, Route, OpsOf, ReadingMethods
<1> QED BY <1>1, <1>2, <1>3, <1>4, <1>5 DEF Orderly

LEMMA ReactionOrderly == Orderly(ReactionRoutes) /\ OpsOf(ReactionRoutes) = ReactionMethods
<1>1. \E n \in Nat : DOMAIN ReactionRoutes = 1 .. n
  BY SMT DEF ReactionRoutes
<1>2. \A i \in DOMAIN ReactionRoutes : Short(ReactionRoutes[i])
  BY SMT DEF ReactionRoutes, Route, Short
<1>3. ASSUME NEW i \in DOMAIN ReactionRoutes, NEW j \in DOMAIN ReactionRoutes, j < i,
             NEW r, NEW q, r = ReactionRoutes[j], q = ReactionRoutes[i]
      PROVE  ~Alike(r, q)
  BY <1>3, SMT DEF ReactionRoutes, Route, Alike, Meets
<1>4. \A i, j \in DOMAIN ReactionRoutes : ReactionRoutes[i].op = ReactionRoutes[j].op => i = j
  BY SMT DEF ReactionRoutes, Route
<1>5. OpsOf(ReactionRoutes) = ReactionMethods
  BY SMT DEF ReactionRoutes, Route, OpsOf, ReactionMethods
<1> QED BY <1>1, <1>2, <1>3, <1>4, <1>5 DEF Orderly

LEMMA HistoryOrderly == Orderly(HistoryRoutes) /\ OpsOf(HistoryRoutes) = HistoryMethods
<1>1. \E n \in Nat : DOMAIN HistoryRoutes = 1 .. n
  BY SMT DEF HistoryRoutes
<1>2. \A i \in DOMAIN HistoryRoutes : Short(HistoryRoutes[i])
  BY SMT DEF HistoryRoutes, Route, Short
<1>3. ASSUME NEW i \in DOMAIN HistoryRoutes, NEW j \in DOMAIN HistoryRoutes, j < i,
             NEW r, NEW q, r = HistoryRoutes[j], q = HistoryRoutes[i]
      PROVE  ~Alike(r, q)
  BY <1>3, SMT DEF HistoryRoutes, Route, Alike, Meets
<1>4. \A i, j \in DOMAIN HistoryRoutes : HistoryRoutes[i].op = HistoryRoutes[j].op => i = j
  BY SMT DEF HistoryRoutes, Route
<1>5. OpsOf(HistoryRoutes) = HistoryMethods
  BY SMT DEF HistoryRoutes, Route, OpsOf, HistoryMethods
<1> QED BY <1>1, <1>2, <1>3, <1>4, <1>5 DEF Orderly

LEMMA DanmakuOrderly == Orderly(DanmakuRoutes) /\ OpsOf(DanmakuRoutes) = DanmakuMethods
<1>1. \E n \in Nat : DOMAIN DanmakuRoutes = 1 .. n
  BY SMT DEF DanmakuRoutes
<1>2. \A i \in DOMAIN DanmakuRoutes : Short(DanmakuRoutes[i])
  BY SMT DEF DanmakuRoutes, Route, Short
<1>3. ASSUME NEW i \in DOMAIN DanmakuRoutes, NEW j \in DOMAIN DanmakuRoutes, j < i,
             NEW r, NEW q, r = DanmakuRoutes[j], q = DanmakuRoutes[i]
      PROVE  ~Alike(r, q)
  BY <1>3, SMT DEF DanmakuRoutes, Route, Alike, Meets
<1>4. \A i, j \in DOMAIN DanmakuRoutes : DanmakuRoutes[i].op = DanmakuRoutes[j].op => i = j
  BY SMT DEF DanmakuRoutes, Route
<1>5. OpsOf(DanmakuRoutes) = DanmakuMethods
  BY SMT DEF DanmakuRoutes, Route, OpsOf, DanmakuMethods
<1> QED BY <1>1, <1>2, <1>3, <1>4, <1>5 DEF Orderly

LEMMA CommentOrderly == Orderly(CommentRoutes) /\ OpsOf(CommentRoutes) = CommentMethods
<1>1. \E n \in Nat : DOMAIN CommentRoutes = 1 .. n
  BY SMT DEF CommentRoutes
<1>2. \A i \in DOMAIN CommentRoutes : Short(CommentRoutes[i])
  BY SMT DEF CommentRoutes, Route, Short
<1>3. ASSUME NEW i \in DOMAIN CommentRoutes, NEW j \in DOMAIN CommentRoutes, j < i,
             NEW r, NEW q, r = CommentRoutes[j], q = CommentRoutes[i]
      PROVE  ~Alike(r, q)
  BY <1>3, SMT DEF CommentRoutes, Route, Alike, Meets
<1>4. \A i, j \in DOMAIN CommentRoutes : CommentRoutes[i].op = CommentRoutes[j].op => i = j
  BY SMT DEF CommentRoutes, Route
<1>5. OpsOf(CommentRoutes) = CommentMethods
  BY SMT DEF CommentRoutes, Route, OpsOf, CommentMethods
<1> QED BY <1>1, <1>2, <1>3, <1>4, <1>5 DEF Orderly

LEMMA OwnerOrderly == Orderly(OwnerRoutes) /\ OpsOf(OwnerRoutes) = OwnerMethods
<1>1. \E n \in Nat : DOMAIN OwnerRoutes = 1 .. n
  BY SMT DEF OwnerRoutes
<1>2. \A i \in DOMAIN OwnerRoutes : Short(OwnerRoutes[i])
  BY SMT DEF OwnerRoutes, Route, Short
<1>3. ASSUME NEW i \in DOMAIN OwnerRoutes, NEW j \in DOMAIN OwnerRoutes, j < i,
             NEW r, NEW q, r = OwnerRoutes[j], q = OwnerRoutes[i]
      PROVE  ~Alike(r, q)
  BY <1>3, SMT DEF OwnerRoutes, Route, Alike, Meets
<1>4. \A i, j \in DOMAIN OwnerRoutes : OwnerRoutes[i].op = OwnerRoutes[j].op => i = j
  BY SMT DEF OwnerRoutes, Route
<1>5. OpsOf(OwnerRoutes) = OwnerMethods
  BY SMT DEF OwnerRoutes, Route, OpsOf, OwnerMethods
<1> QED BY <1>1, <1>2, <1>3, <1>4, <1>5 DEF Orderly

LEMMA AdminOrderly == Orderly(AdminRoutes) /\ OpsOf(AdminRoutes) = AdminMethods
<1>1. \E n \in Nat : DOMAIN AdminRoutes = 1 .. n
  BY SMT DEF AdminRoutes
<1>2. \A i \in DOMAIN AdminRoutes : Short(AdminRoutes[i])
  BY SMT DEF AdminRoutes, Route, Short
<1>3. ASSUME NEW i \in DOMAIN AdminRoutes, NEW j \in DOMAIN AdminRoutes, j < i,
             NEW r, NEW q, r = AdminRoutes[j], q = AdminRoutes[i]
      PROVE  ~Alike(r, q)
  BY <1>3, SMT DEF AdminRoutes, Route, Alike, Meets
<1>4. \A i, j \in DOMAIN AdminRoutes : AdminRoutes[i].op = AdminRoutes[j].op => i = j
  BY SMT DEF AdminRoutes, Route
<1>5. OpsOf(AdminRoutes) = AdminMethods
  BY SMT DEF AdminRoutes, Route, OpsOf, AdminMethods
<1> QED BY <1>1, <1>2, <1>3, <1>4, <1>5 DEF Orderly

LEMMA ProfileOrderly == Orderly(ProfileRoutes) /\ OpsOf(ProfileRoutes) = ProfileMethods
<1>1. \E n \in Nat : DOMAIN ProfileRoutes = 1 .. n
  BY SMT DEF ProfileRoutes
<1>2. \A i \in DOMAIN ProfileRoutes : Short(ProfileRoutes[i])
  BY SMT DEF ProfileRoutes, Route, Short
<1>3. ASSUME NEW i \in DOMAIN ProfileRoutes, NEW j \in DOMAIN ProfileRoutes, j < i,
             NEW r, NEW q, r = ProfileRoutes[j], q = ProfileRoutes[i]
      PROVE  ~Alike(r, q)
  BY <1>3, SMT DEF ProfileRoutes, Route, Alike, Meets
<1>4. \A i, j \in DOMAIN ProfileRoutes : ProfileRoutes[i].op = ProfileRoutes[j].op => i = j
  BY SMT DEF ProfileRoutes, Route
<1>5. OpsOf(ProfileRoutes) = ProfileMethods
  BY SMT DEF ProfileRoutes, Route, OpsOf, ProfileMethods
<1> QED BY <1>1, <1>2, <1>3, <1>4, <1>5 DEF Orderly

LEMMA SessionOrderly == Orderly(SessionRoutes) /\ OpsOf(SessionRoutes) = SessionMethods
<1>1. \E n \in Nat : DOMAIN SessionRoutes = 1 .. n
  BY SMT DEF SessionRoutes
<1>2. \A i \in DOMAIN SessionRoutes : Short(SessionRoutes[i])
  BY SMT DEF SessionRoutes, Route, Short
<1>3. ASSUME NEW i \in DOMAIN SessionRoutes, NEW j \in DOMAIN SessionRoutes, j < i,
             NEW r, NEW q, r = SessionRoutes[j], q = SessionRoutes[i]
      PROVE  ~Alike(r, q)
  BY <1>3, SMT DEF SessionRoutes, Route, Alike, Meets
<1>4. \A i, j \in DOMAIN SessionRoutes : SessionRoutes[i].op = SessionRoutes[j].op => i = j
  BY SMT DEF SessionRoutes, Route
<1>5. OpsOf(SessionRoutes) = SessionMethods
  BY SMT DEF SessionRoutes, Route, OpsOf, SessionMethods
<1> QED BY <1>1, <1>2, <1>3, <1>4, <1>5 DEF Orderly

LEMMA LastOrderly == Orderly(Last) /\ OpsOf(Last) = {"UploadVideo"}
BY SMT DEF Last, Route, Orderly, OpsOf, Short

\* No route takes the requests of one in a later group.
LEMMA GroupsApart ==
    /\ \A r \in Members(ReadingRoutes),
          q \in Members(ReactionRoutes) : ~Alike(r, q)
    /\ \A r \in Members(ReadingRoutes) \cup Members(ReactionRoutes),
          q \in Members(HistoryRoutes) : ~Alike(r, q)
    /\ \A r \in Members(ReadingRoutes) \cup Members(ReactionRoutes)
                \cup Members(HistoryRoutes),
          q \in Members(DanmakuRoutes) : ~Alike(r, q)
    /\ \A r \in Members(ReadingRoutes) \cup Members(ReactionRoutes)
                \cup Members(HistoryRoutes) \cup Members(DanmakuRoutes),
          q \in Members(CommentRoutes) : ~Alike(r, q)
    /\ \A r \in Members(ReadingRoutes) \cup Members(ReactionRoutes)
                \cup Members(HistoryRoutes) \cup Members(DanmakuRoutes)
                \cup Members(CommentRoutes),
          q \in Members(OwnerRoutes) : ~Alike(r, q)
    /\ \A r \in Members(ReadingRoutes) \cup Members(ReactionRoutes)
                \cup Members(HistoryRoutes) \cup Members(DanmakuRoutes)
                \cup Members(CommentRoutes) \cup Members(OwnerRoutes),
          q \in Members(AdminRoutes) : ~Alike(r, q)
    /\ \A r \in Members(ReadingRoutes) \cup Members(ReactionRoutes)
                \cup Members(HistoryRoutes) \cup Members(DanmakuRoutes),
          q \in Members(ProfileRoutes) \cup Members(SessionRoutes) : ~Alike(r, q)
    /\ \A r \in Members(CommentRoutes) \cup Members(OwnerRoutes)
                \cup Members(AdminRoutes),
          q \in Members(ProfileRoutes) \cup Members(SessionRoutes) : ~Alike(r, q)
    /\ \A r \in Members(ProfileRoutes),
          q \in Members(SessionRoutes) : ~Alike(r, q)
    /\ \A r \in Members(ReadingRoutes) \cup Members(ReactionRoutes)
                \cup Members(HistoryRoutes) \cup Members(DanmakuRoutes),
          q \in Members(Last) : ~Alike(r, q)
    /\ \A r \in Members(CommentRoutes) \cup Members(OwnerRoutes)
                \cup Members(AdminRoutes),
          q \in Members(Last) : ~Alike(r, q)
    /\ \A r \in Members(ProfileRoutes) \cup Members(SessionRoutes),
          q \in Members(Last) : ~Alike(r, q)
<1>1. ASSUME NEW r \in Members(ReadingRoutes),
             NEW q \in Members(ReactionRoutes)
      PROVE  ~Alike(r, q)
  BY SMTT(60) DEF Members, Alike, Meets, Route, ReadingRoutes, ReactionRoutes
<1>2. ASSUME NEW r \in Members(ReadingRoutes) \cup Members(ReactionRoutes),
             NEW q \in Members(HistoryRoutes)
      PROVE  ~Alike(r, q)
  BY SMTT(60) DEF Members, Alike, Meets, Route, ReadingRoutes, ReactionRoutes,
                  HistoryRoutes
<1>3. ASSUME NEW r \in Members(ReadingRoutes) \cup Members(ReactionRoutes)
                      \cup Members(HistoryRoutes),
             NEW q \in Members(DanmakuRoutes)
      PROVE  ~Alike(r, q)
  BY SMTT(60) DEF Members, Alike, Meets, Route, ReadingRoutes, ReactionRoutes,
                  HistoryRoutes, DanmakuRoutes
<1>4. ASSUME NEW r \in Members(ReadingRoutes) \cup Members(ReactionRoutes)
                      \cup Members(HistoryRoutes) \cup Members(DanmakuRoutes),
             NEW q \in Members(CommentRoutes)
      PROVE  ~Alike(r, q)
  BY SMTT(60) DEF Members, Alike, Meets, Route, ReadingRoutes, ReactionRoutes,
                  HistoryRoutes, DanmakuRoutes, CommentRoutes
<1>5. ASSUME NEW r \in Members(ReadingRoutes) \cup Members(ReactionRoutes)
                      \cup Members(HistoryRoutes) \cup Members(DanmakuRoutes)
                      \cup Members(CommentRoutes),
             NEW q \in Members(OwnerRoutes)
      PROVE  ~Alike(r, q)
  BY SMTT(60) DEF Members, Alike, Meets, Route, ReadingRoutes, ReactionRoutes,
                  HistoryRoutes, DanmakuRoutes, CommentRoutes, OwnerRoutes
<1>6. ASSUME NEW r \in Members(ReadingRoutes) \cup Members(ReactionRoutes)
                      \cup Members(HistoryRoutes) \cup Members(DanmakuRoutes)
                      \cup Members(CommentRoutes) \cup Members(OwnerRoutes),
             NEW q \in Members(AdminRoutes)
      PROVE  ~Alike(r, q)
  BY SMTT(60) DEF Members, Alike, Meets, Route, ReadingRoutes, ReactionRoutes,
                  HistoryRoutes, DanmakuRoutes, CommentRoutes, OwnerRoutes,
                  AdminRoutes
<1>7. ASSUME NEW r \in Members(ReadingRoutes) \cup Members(ReactionRoutes)
                      \cup Members(HistoryRoutes) \cup Members(DanmakuRoutes),
             NEW q \in Members(ProfileRoutes) \cup Members(SessionRoutes)
      PROVE  ~Alike(r, q)
  BY SMTT(60) DEF Members, Alike, Meets, Route, ReadingRoutes, ReactionRoutes,
                  HistoryRoutes, DanmakuRoutes, ProfileRoutes, SessionRoutes
<1>8. ASSUME NEW r \in Members(CommentRoutes) \cup Members(OwnerRoutes)
            \cup Members(AdminRoutes),
             NEW q \in Members(ProfileRoutes) \cup Members(SessionRoutes)
      PROVE  ~Alike(r, q)
  BY SMTT(60) DEF Members, Alike, Meets, Route, CommentRoutes, OwnerRoutes,
                  AdminRoutes, ProfileRoutes, SessionRoutes
<1>9. ASSUME NEW r \in Members(ProfileRoutes),
             NEW q \in Members(SessionRoutes)
      PROVE  ~Alike(r, q)
  BY SMTT(60) DEF Members, Alike, Meets, Route, ProfileRoutes, SessionRoutes
<1>10. ASSUME NEW r \in Members(ReadingRoutes) \cup Members(ReactionRoutes)
                      \cup Members(HistoryRoutes) \cup Members(DanmakuRoutes),
             NEW q \in Members(Last)
      PROVE  ~Alike(r, q)
  BY SMTT(60) DEF Members, Alike, Meets, Route, ReadingRoutes, ReactionRoutes,
                  HistoryRoutes, DanmakuRoutes, Last
<1>11. ASSUME NEW r \in Members(CommentRoutes) \cup Members(OwnerRoutes)
            \cup Members(AdminRoutes),
             NEW q \in Members(Last)
      PROVE  ~Alike(r, q)
  BY SMTT(60) DEF Members, Alike, Meets, Route, CommentRoutes, OwnerRoutes,
                  AdminRoutes, Last
<1>12. ASSUME NEW r \in Members(ProfileRoutes) \cup Members(SessionRoutes),
             NEW q \in Members(Last)
      PROVE  ~Alike(r, q)
  BY SMTT(60) DEF Members, Alike, Meets, Route, ProfileRoutes, SessionRoutes, Last
<1> QED
  BY <1>1, <1>2, <1>3, <1>4, <1>5, <1>6, <1>7, <1>8, <1>9, <1>10, <1>11, <1>12, Zenon

LEMMA VideoOrderly ==
    /\ Orderly(VideoRoutes) /\ OpsOf(VideoRoutes) = VideoOperations
    /\ Members(VideoRoutes) =
          Members(ReadingRoutes) \cup Members(ReactionRoutes)
            \cup Members(HistoryRoutes) \cup Members(DanmakuRoutes)
            \cup Members(CommentRoutes) \cup Members(OwnerRoutes) \cup Members(AdminRoutes)
<1> DEFINE s2 == ReadingRoutes \o ReactionRoutes
<1> DEFINE s3 == s2 \o HistoryRoutes
<1> DEFINE s4 == s3 \o DanmakuRoutes
<1> DEFINE s5 == s4 \o CommentRoutes
<1> DEFINE s6 == s5 \o OwnerRoutes
<1> DEFINE s7 == s6 \o AdminRoutes
<1>2. /\ Orderly(s2) /\ OpsOf(s2) = ReadingMethods \cup ReactionMethods
      /\ Members(s2) = Members(ReadingRoutes) \cup Members(ReactionRoutes)
  <2>1. (ReadingMethods) \cap ReactionMethods = {}
    BY SMT DEF ReadingMethods, ReactionMethods
  <2>2. Apart(ReadingRoutes, ReactionRoutes)
    BY GroupsApart, Zenon DEF Apart
  <2>3. OpsOf(ReadingRoutes) \cap OpsOf(ReactionRoutes) = {}
    BY ReadingOrderly, ReactionOrderly, <2>1
  <2>4. /\ Orderly(ReadingRoutes \o ReactionRoutes)
        /\ OpsOf(ReadingRoutes \o ReactionRoutes) = OpsOf(ReadingRoutes)
                    \cup OpsOf(ReactionRoutes)
        /\ Members(ReadingRoutes \o ReactionRoutes) = Members(ReadingRoutes)
                    \cup Members(ReactionRoutes)
    BY ReadingOrderly, ReactionOrderly, <2>2, <2>3, Joined, Zenon
  <2> QED BY ReadingOrderly, ReactionOrderly, <2>4
<1>3. /\ Orderly(s3) /\ OpsOf(s3) = ReadingMethods \cup ReactionMethods \cup HistoryMethods
      /\ Members(s3) = Members(ReadingRoutes) \cup Members(ReactionRoutes)
            \cup Members(HistoryRoutes)
  <2>1. (ReadingMethods \cup ReactionMethods) \cap HistoryMethods = {}
    BY SMT DEF ReadingMethods, ReactionMethods, HistoryMethods
  <2>2. Apart(s2, HistoryRoutes)
    BY <1>2, GroupsApart, Zenon DEF Apart
  <2>3. OpsOf(s2) \cap OpsOf(HistoryRoutes) = {}
    BY <1>2, HistoryOrderly, <2>1
  <2>4. /\ Orderly(s2 \o HistoryRoutes)
        /\ OpsOf(s2 \o HistoryRoutes) = OpsOf(s2) \cup OpsOf(HistoryRoutes)
        /\ Members(s2 \o HistoryRoutes) = Members(s2) \cup Members(HistoryRoutes)
    BY <1>2, HistoryOrderly, <2>2, <2>3, Joined, Zenon
  <2> QED BY <1>2, HistoryOrderly, <2>4
<1>4. /\ Orderly(s4) /\ OpsOf(s4) = ReadingMethods \cup ReactionMethods
            \cup HistoryMethods \cup DanmakuMethods
      /\ Members(s4) = Members(ReadingRoutes) \cup Members(ReactionRoutes)
            \cup Members(HistoryRoutes) \cup Members(DanmakuRoutes)
  <2>1. (ReadingMethods \cup ReactionMethods \cup HistoryMethods) \cap DanmakuMethods = {}
    BY SMT DEF ReadingMethods, ReactionMethods, HistoryMethods, DanmakuMethods
  <2>2. Apart(s3, DanmakuRoutes)
    BY <1>3, GroupsApart, Zenon DEF Apart
  <2>3. OpsOf(s3) \cap OpsOf(DanmakuRoutes) = {}
    BY <1>3, DanmakuOrderly, <2>1
  <2>4. /\ Orderly(s3 \o DanmakuRoutes)
        /\ OpsOf(s3 \o DanmakuRoutes) = OpsOf(s3) \cup OpsOf(DanmakuRoutes)
        /\ Members(s3 \o DanmakuRoutes) = Members(s3) \cup Members(DanmakuRoutes)
    BY <1>3, DanmakuOrderly, <2>2, <2>3, Joined, Zenon
  <2> QED BY <1>3, DanmakuOrderly, <2>4
<1>5. /\ Orderly(s5) /\ OpsOf(s5) = ReadingMethods \cup ReactionMethods
            \cup HistoryMethods \cup DanmakuMethods \cup CommentMethods
      /\ Members(s5) = Members(ReadingRoutes) \cup Members(ReactionRoutes)
            \cup Members(HistoryRoutes) \cup Members(DanmakuRoutes)
            \cup Members(CommentRoutes)
  <2>1. (ReadingMethods \cup ReactionMethods \cup HistoryMethods
              \cup DanmakuMethods) \cap CommentMethods = {}
    BY SMT DEF ReadingMethods, ReactionMethods, HistoryMethods, DanmakuMethods,
               CommentMethods
  <2>2. Apart(s4, CommentRoutes)
    BY <1>4, GroupsApart, Zenon DEF Apart
  <2>3. OpsOf(s4) \cap OpsOf(CommentRoutes) = {}
    BY <1>4, CommentOrderly, <2>1
  <2>4. /\ Orderly(s4 \o CommentRoutes)
        /\ OpsOf(s4 \o CommentRoutes) = OpsOf(s4) \cup OpsOf(CommentRoutes)
        /\ Members(s4 \o CommentRoutes) = Members(s4) \cup Members(CommentRoutes)
    BY <1>4, CommentOrderly, <2>2, <2>3, Joined, Zenon
  <2> QED BY <1>4, CommentOrderly, <2>4
<1>6. /\ Orderly(s6) /\ OpsOf(s6) = ReadingMethods \cup ReactionMethods
            \cup HistoryMethods \cup DanmakuMethods \cup CommentMethods \cup OwnerMethods
      /\ Members(s6) = Members(ReadingRoutes) \cup Members(ReactionRoutes)
            \cup Members(HistoryRoutes) \cup Members(DanmakuRoutes)
            \cup Members(CommentRoutes) \cup Members(OwnerRoutes)
  <2>1. (ReadingMethods \cup ReactionMethods \cup HistoryMethods \cup DanmakuMethods
              \cup CommentMethods) \cap OwnerMethods = {}
    BY SMT DEF ReadingMethods, ReactionMethods, HistoryMethods, DanmakuMethods,
               CommentMethods, OwnerMethods
  <2>2. Apart(s5, OwnerRoutes)
    BY <1>5, GroupsApart, Zenon DEF Apart
  <2>3. OpsOf(s5) \cap OpsOf(OwnerRoutes) = {}
    BY <1>5, OwnerOrderly, <2>1
  <2>4. /\ Orderly(s5 \o OwnerRoutes)
        /\ OpsOf(s5 \o OwnerRoutes) = OpsOf(s5) \cup OpsOf(OwnerRoutes)
        /\ Members(s5 \o OwnerRoutes) = Members(s5) \cup Members(OwnerRoutes)
    BY <1>5, OwnerOrderly, <2>2, <2>3, Joined, Zenon
  <2> QED BY <1>5, OwnerOrderly, <2>4
<1>7. /\ Orderly(s7) /\ OpsOf(s7) = ReadingMethods \cup ReactionMethods
            \cup HistoryMethods \cup DanmakuMethods \cup CommentMethods
            \cup OwnerMethods \cup AdminMethods
      /\ Members(s7) = Members(ReadingRoutes) \cup Members(ReactionRoutes)
            \cup Members(HistoryRoutes) \cup Members(DanmakuRoutes)
            \cup Members(CommentRoutes) \cup Members(OwnerRoutes)
            \cup Members(AdminRoutes)
  <2>1. (ReadingMethods \cup ReactionMethods \cup HistoryMethods \cup DanmakuMethods
              \cup CommentMethods \cup OwnerMethods) \cap AdminMethods = {}
    BY SMT DEF ReadingMethods, ReactionMethods, HistoryMethods, DanmakuMethods,
               CommentMethods, OwnerMethods, AdminMethods
  <2>2. Apart(s6, AdminRoutes)
    BY <1>6, GroupsApart, Zenon DEF Apart
  <2>3. OpsOf(s6) \cap OpsOf(AdminRoutes) = {}
    BY <1>6, AdminOrderly, <2>1
  <2>4. /\ Orderly(s6 \o AdminRoutes)
        /\ OpsOf(s6 \o AdminRoutes) = OpsOf(s6) \cup OpsOf(AdminRoutes)
        /\ Members(s6 \o AdminRoutes) = Members(s6) \cup Members(AdminRoutes)
    BY <1>6, AdminOrderly, <2>2, <2>3, Joined, Zenon
  <2> QED BY <1>6, AdminOrderly, <2>4
<1>8. VideoRoutes = s7
  BY DEF VideoRoutes
<1> QED BY <1>7, <1>8, Zenon DEF VideoOperations

LEMMA UserOrderly ==
    /\ Orderly(UserRoutes) /\ OpsOf(UserRoutes) = UserOperations
    /\ Members(UserRoutes) = Members(ProfileRoutes) \cup Members(SessionRoutes)
<1>1. ProfileMethods \cap SessionMethods = {}
  BY SMT DEF ProfileMethods, SessionMethods
<1>2. Apart(ProfileRoutes, SessionRoutes)
  BY GroupsApart, Zenon DEF Apart
<1> QED BY <1>1, <1>2, ProfileOrderly, SessionOrderly, Joined, Zenon DEF
                                                                         UserRoutes,
                                                                         UserOperations

LEMMA RoutesOrderly ==
    Orderly(Routes) /\ OpsOf(Routes) = Operations \cup {"UploadVideo"}
<1>1. VideoOperations \cap UserOperations = {} /\ "UploadVideo" \notin Operations
  BY SMT DEF Operations, VideoOperations, UserOperations, ReadingMethods,
             ReactionMethods, HistoryMethods, DanmakuMethods, CommentMethods,
             OwnerMethods, AdminMethods, ProfileMethods, SessionMethods
<1>2. Apart(VideoRoutes, UserRoutes)
  BY VideoOrderly, UserOrderly, GroupsApart, Zenon DEF Apart
<1>3. /\ Orderly(VideoRoutes \o UserRoutes) /\ OpsOf(VideoRoutes \o UserRoutes) = Operations
      /\ Members(VideoRoutes \o UserRoutes) = Members(VideoRoutes) \cup Members(UserRoutes)
  <2>1. OpsOf(VideoRoutes) \cap OpsOf(UserRoutes) = {}
    BY <1>1, VideoOrderly, UserOrderly
  <2> QED BY <2>1, <1>2, VideoOrderly, UserOrderly, Joined DEF Operations
<1>4. Apart(VideoRoutes \o UserRoutes, Last)
  BY <1>3, VideoOrderly, UserOrderly, GroupsApart, Zenon DEF Apart
<1>5. OpsOf(VideoRoutes \o UserRoutes) \cap OpsOf(Last) = {}
  BY <1>1, <1>3, LastOrderly
<1>6. /\ Orderly((VideoRoutes \o UserRoutes) \o Last)
      /\ OpsOf((VideoRoutes \o UserRoutes) \o Last)
           = OpsOf(VideoRoutes \o UserRoutes) \cup OpsOf(Last)
  BY <1>3, <1>4, <1>5, LastOrderly, Joined, Zenon
<1>7. Routes = (VideoRoutes \o UserRoutes) \o Last
  BY DEF Routes, Last
<1> QED BY <1>3, <1>6, <1>7, LastOrderly

LEMMA EveryRouteReached ==
    ASSUME NEW i \in DOMAIN Routes
    PROVE  Routed(Routes[i].verb, Sample(Routes[i].path)) = Routes[i].op
<1> DEFINE matching == {j \in DOMAIN Routes : Takes(Routes[j], Routes[i])}
<1>1. i \in matching
  BY RoutesOrderly, TakesItself DEF Orderly
<1>2. \A j \in matching : i <= j
  <2>1. SUFFICES ASSUME NEW j \in matching, ~(i <= j) PROVE FALSE
    OBVIOUS
  <2>2. i \in Int /\ j \in Int
    BY RoutesOrderly DEF Orderly
  <2>3. j < i
    BY <2>1, <2>2
  <2> QED BY <2>3, RoutesOrderly, TakesAlike DEF Orderly
<1>3. \A k \in matching : (\A j \in matching : k <= j) => k = i
  <2>1. SUFFICES ASSUME NEW k \in matching, k <= i, i <= k PROVE k = i
    BY <1>1, <1>2
  <2>2. i \in Int /\ k \in Int
    BY RoutesOrderly DEF Orderly
  <2> QED BY <2>1, <2>2
<1>4. (CHOOSE k \in matching : \A j \in matching : k <= j) = i
  BY <1>1, <1>2, <1>3, Zenon
<1>5. matching = {j \in DOMAIN Routes : /\ Routes[j].verb = Routes[i].verb
                                        /\ Matches(Routes[j].path, Sample(Routes[i].path))}
  BY Zenon DEF Takes
<1> QED BY <1>1, <1>4, <1>5, Zenon DEF Routed

LEMMA OneRow ==
    ASSUME NEW op \in Operations
    PROVE  LET rows == {row \in VideoMessages \cup UserMessages : op \in row.ops}
           IN  \E row \in rows : rows = {row}
<1>1. \A row, other \in MessageRows : op \in row.ops /\ op \in other.ops => row = other
  BY SMTT(60) DEF MessageRows, VideoMessages, UserMessages, ListingMessages,
                  SearchMessages, PlaybackMessages, LikeMessages,
                  EngagementMessages, SpendingMessages, HistoryMessages,
                  DanmakuMessages, RootMessages, ThreadMessages, CommentMessages,
                  StatusMessages, OwnerMessages, ViewMessages, ReviewMessages,
                  DecisionMessages, ReasonedMessages, ProfileMessages,
                  CredentialMessages, TokenMessages, HistoryMethods, Fields
<1> DEFINE rows == {row \in MessageRows : op \in row.ops}
<1>2. Messages[op] \in rows
  BY MessageRow
<1>3. rows = {Messages[op]}
  BY <1>1, <1>2
<1> QED BY <1>2, <1>3, Zenon DEF MessageRows

\* Every operation has its route, which no earlier one hides, and its message.
LEMMA AllReached == RoutesReach
<1>1. IsInjective([i \in DOMAIN Routes |-> Routes[i].op])
  BY RoutesOrderly DEF Orderly, IsInjective
<1> QED BY <1>1, EveryRouteReached, RoutesOrderly, OneRow, Zenon DEF RoutesReach,
                                                                     OpsOf
-----------------------------------------------------------------------------
(* Upload bodies of any length.                                            *)

\* Every set of natural numbers that is not empty has a least member.
LEMMA LeastNumber ==
    ASSUME NEW U \in SUBSET Nat, U # {}
    PROVE  \E k \in U : \A l \in U : k <= l
<1>1. PICK k \in U : \A l \in U : <<l, k>> \notin OpToRel(<, Nat)
  BY NatLessThanWellFounded, WFMin
<1>2. \A l \in U : ~(l < k)
  BY <1>1 DEF OpToRel
<1> QED BY <1>2

\* Downwards to 1: what holds of n + 1, and of i if of i + 1, holds of all.
LEMMA Downwards ==
    ASSUME NEW n \in Nat, NEW S, n + 1 \in S, \A i \in 1 .. n : i + 1 \in S => i \in S
    PROVE  1 .. n + 1 \subseteq S
<1> DEFINE U == {k \in Nat : \E i \in 1 .. n + 1 : i \notin S /\ k = n + 1 - i}
<1>1. SUFFICES ASSUME NEW i \in 1 .. n + 1, i \notin S PROVE FALSE
  OBVIOUS
<1>2. n + 1 - i \in U
  BY <1>1
<1>3. PICK k \in U : \A l \in U : k <= l
  BY <1>2, U \in SUBSET Nat, LeastNumber
<1>4. PICK j \in 1 .. n + 1 : j \notin S /\ k = n + 1 - j
  OBVIOUS
<1>5. j # n + 1 /\ j + 1 \notin S
  BY <1>4
<1>6. n + 1 - (j + 1) \in U
  BY <1>4, <1>5
<1> QED BY <1>3, <1>4, <1>6

Turns(parts) == 1 .. Len(parts) + 1
Sizes == 0 .. MaxCoverBytes

\* A table of what becomes of the parts from each one on, and in general one
\* that is right from the k-th part on.
IsServing(g, parts) ==
    g = [i \in 1 .. Len(parts) + 1 |->
            [cover \in 0 .. MaxCoverBytes |-> ServePart(parts, i, cover, g)]]
ServesFrom(g, parts, k) ==
    \A i \in Turns(parts), c \in Sizes : i >= k => g[i][c] = ServePart(parts, i, c, g)

LEMMA ServedByTable ==
    ASSUME NEW parts
    PROVE  ServeParts(parts) = (CHOOSE g : IsServing(g, parts))[1][0]
BY DEF ServeParts, IsServing

LEMMA BodyLength ==
    ASSUME NEW parts, Body(parts)
    PROVE  /\ Len(parts) \in Nat /\ DOMAIN parts = 1 .. Len(parts)
           /\ \A i \in DOMAIN parts : parts[i] \in Parts /\ parts[i].size \in Nat
BY DEF Body, Parts

\* A cover is read if it is whole and no larger than the limit.
LEMMA CoverRead ==
    ASSUME NEW parts, Body(parts), NEW i \in DOMAIN parts
    PROVE  /\ ReadCover(parts[i]) = "read"
                <=> parts[i].ends = "whole" /\ parts[i].size <= MaxCoverBytes
           /\ ReadCover(parts[i]) = "read" => parts[i].size \in Sizes
           /\ ReadCover(parts[i]) # "called"
BY BodyLength DEF ReadCover, Sizes, MaxCoverBytes

\* Only the entries for the part that follows count for a part.
LEMMA ServedAlike ==
    ASSUME NEW parts, Body(parts), NEW i \in Turns(parts), NEW c \in Sizes, NEW g, NEW h,
           i <= Len(parts) => \A d \in Sizes : g[i + 1][d] = h[i + 1][d]
    PROVE  ServePart(parts, i, c, g) = ServePart(parts, i, c, h)
<1>1. CASE i > Len(parts)
  BY <1>1 DEF ServePart
<1>2. CASE ~(i > Len(parts))
  <2>1. i \in DOMAIN parts /\ i <= Len(parts)
    BY <1>2, BodyLength DEF Turns
  <2>2. g[i + 1][c] = h[i + 1][c]
    BY <2>1
  <2>3. ReadCover(parts[i]) = "read" => g[i + 1][parts[i].size] = h[i + 1][parts[i].size]
    BY <2>1, CoverRead
  <2> QED BY <2>2, <2>3, Zenon DEF ServePart
<1> QED BY <1>1, <1>2

LEMMA ServingExists ==
    ASSUME NEW parts, Body(parts)
    PROVE  \E g : IsServing(g, parts)
<1> DEFINE n == Len(parts)
           S == {k \in Turns(parts) : \E g : ServesFrom(g, parts, k)}
<1>1. n \in Nat
  BY BodyLength
<1>2. n + 1 \in S
  <2> DEFINE g == [i \in Turns(parts) |-> [c \in Sizes |-> Refused("invalid")]]
  <2>1. \A i \in Turns(parts), c \in Sizes : g[i][c] = Refused("invalid")
    OBVIOUS
  <2> HIDE DEF g
  <2>2. ServesFrom(g, parts, n + 1)
    BY <1>1, <2>1 DEF ServesFrom, ServePart, Turns
  <2> QED BY <1>1, <2>2 DEF Turns
<1>3. ASSUME NEW k \in 1 .. n, k + 1 \in S PROVE k \in S
  <2>1. PICK g : ServesFrom(g, parts, k + 1)
    BY <1>3
  <2> DEFINE h == [i \in Turns(parts) |-> [c \in Sizes |->
                      IF i = k THEN ServePart(parts, k, c, g) ELSE g[i][c]]]
  <2>2. \A i \in Turns(parts), c \in Sizes :
            h[i][c] = IF i = k THEN ServePart(parts, k, c, g) ELSE g[i][c]
    OBVIOUS
  <2> HIDE DEF h
  <2>3. ASSUME NEW i \in Turns(parts), NEW c \in Sizes, i >= k
        PROVE  h[i][c] = ServePart(parts, i, c, h)
    <3>1. i <= Len(parts) => \A d \in Sizes : g[i + 1][d] = h[i + 1][d]
      BY <1>1, <2>2, <2>3 DEF Turns
    <3>2. ServePart(parts, i, c, g) = ServePart(parts, i, c, h)
      BY <3>1, ServedAlike
    <3>3. CASE i = k
      BY <2>2, <3>2, <3>3
    <3>4. CASE i # k
      <4>1. i >= k + 1
        BY <1>1, <2>3, <3>4 DEF Turns
      <4>2. h[i][c] = g[i][c]
        BY <2>2, <3>4
      <4> QED BY <2>1, <3>2, <4>1, <4>2 DEF ServesFrom
    <3> QED BY <3>3, <3>4
  <2>4. ServesFrom(h, parts, k)
    BY <2>3 DEF ServesFrom
  <2> QED BY <1>1, <2>4 DEF Turns
<1>4. 1 \in S
  <2> HIDE DEF S
  <2>1. 1 .. n + 1 \subseteq S
    BY <1>1, <1>2, <1>3, Downwards
  <2> QED BY <1>1, <2>1
<1>5. PICK g : ServesFrom(g, parts, 1)
  BY <1>4
<1> DEFINE h == [i \in Turns(parts) |-> [c \in Sizes |-> g[i][c]]]
<1>6. \A i \in Turns(parts), c \in Sizes : h[i][c] = g[i][c]
  OBVIOUS
<1>7. \A i \in Turns(parts), c \in Sizes : g[i][c] = ServePart(parts, i, c, h)
  <2> SUFFICES ASSUME NEW i \in Turns(parts), NEW c \in Sizes
               PROVE  g[i][c] = ServePart(parts, i, c, h)
    OBVIOUS
  <2>1. g[i][c] = ServePart(parts, i, c, g)
    BY <1>1, <1>5 DEF ServesFrom, Turns
  <2>2. i <= Len(parts) => \A d \in Sizes : g[i + 1][d] = h[i + 1][d]
    BY <1>1, <1>6 DEF Turns
  <2> QED BY <2>1, <2>2, ServedAlike
<1>8. h = [i \in Turns(parts) |-> [c \in Sizes |-> ServePart(parts, i, c, h)]]
  BY <1>7
<1> QED BY <1>8 DEF IsServing, Turns, Sizes

\* A part the handler leaves behind and goes on to the next.
Passable(part) ==
    /\ part.form # "file" /\ part.ends = "whole"
    /\ part.form = "cover" => part.supported /\ part.size <= MaxCoverBytes

\* From the i-th part on a body is read up to its file.
ReadableFrom(parts, i) ==
    \E f \in DOMAIN parts :
        /\ f >= i /\ parts[f].form = "file" /\ parts[f].supported
        /\ \A j \in DOMAIN parts : j >= i /\ j < f => Passable(parts[j])

\* Which part it is told by: a file, a cover, or the parts after it.
LEMMA ReadableStep ==
    ASSUME NEW parts, Body(parts), NEW i \in DOMAIN parts
    PROVE  ReadableFrom(parts, i) <=>
             \/ parts[i].form = "file" /\ parts[i].supported
             \/ Passable(parts[i]) /\ ReadableFrom(parts, i + 1)
<1> DEFINE Clean(j) == Passable(parts[j])
           File(f) == parts[f].form = "file" /\ parts[f].supported
<1>1. DOMAIN parts \subseteq Nat
  BY BodyLength
<1>2. \A k : ReadableFrom(parts, k) <=>
          \E f \in DOMAIN parts : /\ f >= k /\ File(f)
                                 /\ \A j \in DOMAIN parts : j >= k /\ j < f => Clean(j)
  BY Zenon DEF ReadableFrom
<1>3. \A f : File(f) => ~Clean(f)
  BY DEF Passable
<1> HIDE DEF Clean, File
<1>4. ASSUME ReadableFrom(parts, i) PROVE File(i) \/ (Clean(i) /\ ReadableFrom(parts, i + 1))
  <2>1. PICK f \in DOMAIN parts : f >= i /\ File(f)
                                    /\ \A j \in DOMAIN parts : j >= i /\ j < f => Clean(j)
    BY <1>2, <1>4
  <2>2. CASE f = i
    BY <2>1, <2>2
  <2>3. CASE f # i
    <3>1. f >= i + 1 /\ Clean(i)
      BY <1>1, <2>1, <2>3
    <3>2. \A j \in DOMAIN parts : j >= i + 1 /\ j < f => Clean(j)
      BY <1>1, <2>1
    <3> QED BY <1>2, <2>1, <3>1, <3>2
  <2> QED BY <2>2, <2>3
<1>5. ASSUME File(i) PROVE ReadableFrom(parts, i)
  <2>1. i >= i /\ \A j \in DOMAIN parts : ~(j >= i /\ j < i)
    BY <1>1
  <2> QED BY <1>2, <1>5, <2>1
<1>6. ASSUME Clean(i), ReadableFrom(parts, i + 1) PROVE ReadableFrom(parts, i)
  <2>1. PICK f \in DOMAIN parts : f >= i + 1 /\ File(f)
                                    /\ \A j \in DOMAIN parts : j >= i + 1 /\ j < f => Clean(j)
    BY <1>2, <1>6
  <2>2. f >= i /\ \A j \in DOMAIN parts : j >= i /\ j < f => Clean(j)
    <3>1. \A j \in DOMAIN parts : j >= i => j = i \/ j >= i + 1
      BY <1>1
    <3> QED BY <1>1, <1>6, <2>1, <3>1
  <2> QED BY <1>2, <2>1, <2>2
<1> QED BY <1>4, <1>5, <1>6 DEF Clean, File

LEMMA ServingReads ==
    ASSUME NEW parts, Body(parts), NEW g, IsServing(g, parts)
    PROVE  g[1][0].answer = "called" <=> ReadableFrom(parts, 1)
<1> DEFINE n == Len(parts)
           S == {i \in Turns(parts) :
                    \A c \in Sizes : g[i][c].answer = "called" <=> ReadableFrom(parts, i)}
<1>1. n \in Nat /\ DOMAIN parts = 1 .. n
  BY BodyLength
<1>2. \A i \in Turns(parts), c \in Sizes : g[i][c] = ServePart(parts, i, c, g)
  <2>1. g = [i \in Turns(parts) |-> [c \in Sizes |-> ServePart(parts, i, c, g)]]
    BY DEF IsServing, Turns, Sizes
  <2> QED BY <2>1
<1>3. n + 1 \in S
  <2>1. ~ReadableFrom(parts, n + 1)
    BY <1>1 DEF ReadableFrom
  <2>2. \A c \in Sizes : g[n + 1][c].answer = "invalid"
    <3> SUFFICES ASSUME NEW c \in Sizes PROVE g[n + 1][c].answer = "invalid"
      OBVIOUS
    <3>1. n + 1 \in Turns(parts) /\ n + 1 > Len(parts)
      BY <1>1 DEF Turns
    <3>2. g[n + 1][c] = ServePart(parts, n + 1, c, g)
      BY <1>2, <3>1
    <3>3. ServePart(parts, n + 1, c, g) = Refused("invalid")
      BY <3>1, Zenon DEF ServePart
    <3> QED BY <3>2, <3>3 DEF Refused
  <2> QED BY <1>1, <2>1, <2>2 DEF Turns
<1>4. ASSUME NEW i \in 1 .. n, i + 1 \in S PROVE i \in S
  <2> SUFFICES ASSUME NEW c \in Sizes
               PROVE  g[i][c].answer = "called" <=> ReadableFrom(parts, i)
    BY <1>1 DEF Turns
  <2>1. g[i][c] = ServePart(parts, i, c, g) /\ i \in DOMAIN parts /\ ~(i > Len(parts))
    BY <1>1, <1>2 DEF Turns
  <2>2. \A d \in Sizes : g[i + 1][d].answer = "called" <=> ReadableFrom(parts, i + 1)
    BY <1>4
  <2>3. /\ \A ends : NextPart(ends).answer # "called"
        /\ \A answer : Refused(answer).answer = answer
    BY DEF NextPart, Refused
  <2>4. CASE parts[i].form = "file"
    <3>1. g[i][c].answer = "called" <=> parts[i].supported
      BY <2>1, <2>3, <2>4 DEF ServePart
    <3> QED BY <2>1, <2>4, <3>1, ReadableStep DEF Passable
  <2>5. CASE parts[i].form = "cover" /\ parts[i].supported /\ ReadCover(parts[i]) = "read"
    <3>1. g[i][c] = g[i + 1][parts[i].size]
      BY <2>1, <2>5 DEF ServePart
    <3>2. parts[i].size \in Sizes /\ Passable(parts[i])
      BY <2>1, <2>5, CoverRead DEF Passable
    <3> QED BY <2>1, <2>2, <2>5, <3>1, <3>2, ReadableStep
  <2>6. CASE parts[i].form = "cover" /\ ~(parts[i].supported /\ ReadCover(parts[i]) = "read")
    <3>1. g[i][c].answer # "called"
      <4>1. CASE ~parts[i].supported
        <5>1. g[i][c] = Refused("invalid")
          BY <2>1, <2>6, <4>1, Zenon DEF ServePart
        <5> QED BY <2>3, <5>1
      <4>2. CASE parts[i].supported
        <5>1. g[i][c] = Refused(ReadCover(parts[i]))
          BY <2>1, <2>6, <4>2, Zenon DEF ServePart
        <5> QED BY <2>1, <2>3, <5>1, CoverRead
      <4> QED BY <4>1, <4>2
    <3>2. ~Passable(parts[i])
      BY <2>1, <2>6, CoverRead DEF Passable
    <3> QED BY <2>1, <2>6, <3>1, <3>2, ReadableStep
  <2>7. CASE parts[i].form \notin {"cover", "file"} /\ parts[i].ends = "whole"
    <3>1. parts[i].form # "none"
      BY <2>1, <2>7, BodyLength DEF Parts
    <3>2. g[i][c] = g[i + 1][c] /\ Passable(parts[i])
      BY <2>1, <2>7, <3>1 DEF ServePart, Passable
    <3> QED BY <2>1, <2>2, <2>7, <3>2, ReadableStep
  <2>8. CASE parts[i].form \notin {"cover", "file"} /\ parts[i].ends # "whole"
    <3>1. g[i][c] = NextPart(parts[i].ends)
      BY <2>1, <2>8 DEF ServePart
    <3>2. ~Passable(parts[i])
      BY <2>8 DEF Passable
    <3> QED BY <2>1, <2>3, <2>8, <3>1, <3>2, ReadableStep
  <2> QED BY <2>4, <2>5, <2>6, <2>7, <2>8
<1>5. 1 \in S
  <2> HIDE DEF S
  <2>1. 1 .. n + 1 \subseteq S
    BY <1>1, <1>3, <1>4, Downwards
  <2> QED BY <1>1, <2>1
<1>6. 0 \in Sizes
  BY DEF Sizes, MaxCoverBytes
<1> QED BY <1>5, <1>6

\* The first file is where a body is told by.
LEMMA ReadableBody ==
    ASSUME NEW parts, Body(parts)
    PROVE  Readable(parts) <=> ReadableFrom(parts, 1)
<1> DEFINE files == {i \in DOMAIN parts : parts[i].form = "file"}
           first == CHOOSE i \in files : \A j \in files : i <= j
           before == {i \in DOMAIN parts : i < first}
<1>1. DOMAIN parts \subseteq Nat /\ \A i \in DOMAIN parts : i >= 1
  BY BodyLength
<1>2. Readable(parts) <=>
          /\ files # {} /\ parts[first].supported
          /\ \A i \in before :
                /\ parts[i].ends = "whole"
                /\ parts[i].form = "cover" => parts[i].supported /\ parts[i].size <= MaxCoverBytes
  BY DEF Readable
<1>3. ASSUME files = {} PROVE ~ReadableFrom(parts, 1)
  BY <1>3 DEF ReadableFrom
<1>4. ASSUME files # {} PROVE first \in files /\ \A j \in files : first <= j
  <2>1. \E i \in files : \A j \in files : i <= j
    <3>1. files \in SUBSET Nat
      BY <1>1
    <3> HIDE DEF files
    <3> QED BY <1>4, <3>1, LeastNumber
  <2> HIDE DEF files
  <2> QED BY <2>1
<1> HIDE DEF first
<1>5. ASSUME files # {}, Readable(parts) PROVE ReadableFrom(parts, 1)
  <2>1. first \in DOMAIN parts /\ parts[first].form = "file" /\ parts[first].supported
    BY <1>2, <1>4, <1>5
  <2>2. \A j \in DOMAIN parts : j < first => parts[j].form # "file"
    BY <1>1, <1>4, <1>5
  <2>3. \A j \in DOMAIN parts : j < first => Passable(parts[j])
    BY <1>2, <1>5, <2>2 DEF Passable
  <2> QED BY <1>1, <2>1, <2>3 DEF ReadableFrom
<1>6. ASSUME files # {}, ReadableFrom(parts, 1) PROVE Readable(parts)
  <2>1. PICK f \in DOMAIN parts :
            /\ f >= 1 /\ parts[f].form = "file" /\ parts[f].supported
            /\ \A j \in DOMAIN parts : j >= 1 /\ j < f => Passable(parts[j])
    BY <1>6, Zenon DEF ReadableFrom
  <2>2. first = f
    BY <1>1, <1>4, <1>6, <2>1 DEF Passable
  <2> QED BY <1>1, <1>2, <1>6, <2>1, <2>2 DEF Passable
<1> QED BY <1>2, <1>3, <1>5, <1>6

\* An upload begins exactly with a body, of any length, that can be read up to
\* its file, posted by a known user.
LEMMA UploadBegins ==
    ASSUME NEW verb, NEW bearer, NEW parts, Body(parts)
    PROVE  ServeUpload(verb, bearer, parts).answer = "called" <=>
               /\ verb = "POST" /\ bearer # <<>> /\ Authenticate(bearer) # Bad
               /\ Readable(parts)
<1>1. PICK g : IsServing(g, parts) /\ ServeParts(parts) = g[1][0]
  <2>1. \E g : IsServing(g, parts)
    BY ServingExists
  <2> QED BY <2>1, ServedByTable, Zenon
<1>2. ServeParts(parts).answer = "called" <=> Readable(parts)
  BY <1>1, ServingReads, ReadableBody
<1>3. RequireHTTP(bearer) # Bad <=> bearer # <<>> /\ Authenticate(bearer) # Bad
  BY Zenon DEF RequireHTTP
<1>4. ServeUpload(verb, bearer, parts).answer = "called" <=>
          RequireHTTP(bearer) # Bad /\ verb = "POST" /\ ServeParts(parts).answer = "called"
  <2>1. CASE RequireHTTP(bearer) = Bad
    BY <2>1 DEF ServeUpload, Refused
  <2>2. CASE RequireHTTP(bearer) # Bad /\ verb # "POST"
    BY <2>2 DEF ServeUpload, Refused
  <2>3. CASE RequireHTTP(bearer) # Bad /\ verb = "POST"
    <3>1. ServeUpload(verb, bearer, parts) = ServeParts(parts)
      BY <2>3, Zenon DEF ServeUpload
    <3> QED BY <2>3, <3>1
  <2> QED BY <2>1, <2>2, <2>3
<1> QED BY <1>2, <1>3, <1>4

LEMMA AllUploadsFit == UploadsFit
<1>1. \A parts \in Bodies : Body(parts)
  BY DEF Bodies
<1> QED BY <1>1, UploadBegins, Zenon DEF UploadsFit

-----------------------------------------------------------------------------
(* Theorems.                                                               *)

LEMMA AvatarInvCorrect == Spec => [](IInv /\ AvatarInv)
<1>1. Init => IInv /\ AvatarInv
  <2> SUFFICES ASSUME Init PROVE IInv /\ AvatarInv
    OBVIOUS
  <2>1. session \in [Clients -> Sessions]
    BY SessionsMade DEF Init
  <2>2. counter \in [Keys -> Counters] /\ admitted \in [Keys -> [Ages -> Nat]]
    <3>1. NoCounter \in Counters
      BY Bounds DEF Counters, NoCounter
    <3> QED BY <3>1 DEF Init
  <2>3. account \in [Users -> Rows] /\ \A u \in Users : account[u].avatar = ""
    BY DEF Init, Rows
  <2>4. request = [r \in Requests |-> Idle]
    BY DEF Init
  <2>5. IInv
    BY <2>1, <2>2, <2>3, <2>4, IdleServed DEF Init, IInv, TypeInv, Named, OnAccount
  <2>6. AvatarInv
    BY <2>3, <2>4, IdleServed
       DEF Init, AvatarInv, AvatarServed, Distinct, Unused, Replaced
  <2> QED BY <2>5, <2>6
<1>2. IInv /\ AvatarInv /\ [Next]_vars => (IInv /\ AvatarInv)'
  <2> SUFFICES ASSUME IInv, AvatarInv, [Next]_vars PROVE (IInv /\ AvatarInv)'
    OBVIOUS
  <2>1. CASE Arrive
    BY <2>1, ReceiveStep
  <2>2. ASSUME NEW r \in Requests, Serve(r) PROVE (IInv /\ AvatarInv)'
    BY <2>2, RegisterStep, SessionStep, StoreStep, UpdateStep, RemoveStep DEF Serve
  <2>3. CASE Tick
    BY <2>3, TickStep
  <2>4. CASE Crash
    BY <2>4, CrashStep
  <2>5. CASE UNCHANGED vars
    BY <2>5 DEF vars, IInv, TypeInv, Named, AvatarInv, AvatarServed, Distinct, Unused, Replaced
  <2> QED BY <2>1, <2>2, <2>3, <2>4, <2>5 DEF Next
<1> QED BY <1>1, <1>2, PTL DEF Spec

\* Every variable keeps its type.
THEOREM TypeCorrect == Spec => []TypeOK
BY AvatarInvCorrect, TypeInvCorrect, PTL DEF IInv

\* The avatar of every row is in the directory, in every state of every run,
\* unless a commit of that row went unacknowledged (the handlers of
\* service/user.go, the row lock of data/user.go).
THEOREM AvatarAlwaysServed == Spec => []AvatarServed
BY AvatarInvCorrect, PTL DEF AvatarInv

\* The limiter lets at most twice the limit of a bucket through for a subject
\* in any window, for every limit, every length of a window and every number
\* of requests, as long as Redis answers (middleware/user_rate_limit.go and the script of
\* data/user_rate_limit.go): a window can meet two counters, each of them spent.
THEOREM BudgetAlwaysHolds == Spec => []BudgetHolds
<1>1. IInv /\ BudgetInv /\ [Next]_vars => BudgetInv'
  <2> SUFFICES ASSUME TypeInv, BudgetInv, [Next]_vars PROVE BudgetInv'
    BY DEF IInv
  <2>1. CASE Arrive
    <3>1. PICK r, c, op, u, bearer : Receive(r, c, op, bearer, u)
      BY <2>1 DEF Arrive
    <3>2. PICK j : \E allowed \in BOOLEAN : Allow(j, allowed)
      BY <3>1 DEF Receive
    <3>3. PICK allowed \in BOOLEAN : Allow(j, allowed)
      BY <3>2
    <3> QED BY <3>3, AllowBudget
  <2>2. CASE Tick
    BY <2>2, TickBudget
  <2>3. CASE UNCHANGED <<counter, admitted>>
    BY <2>3 DEF BudgetInv, Budgeted, Recent
  <2>4. ASSUME NEW r \in Requests, Serve(r) PROVE UNCHANGED <<counter, admitted>>
    BY <2>4 DEF Serve, Register, Login, Refresh, Logout, StoreAvatar, UpdateUserAvatar,
                RemoveAvatar
  <2>5. Crash \/ UNCHANGED vars => UNCHANGED <<counter, admitted>>
    BY DEF Crash, vars
  <2> QED BY <2>1, <2>2, <2>3, <2>4, <2>5 DEF Next
<1>2. IInv /\ BudgetInv => BudgetHolds
  BY BudgetInvCorrect DEF IInv
<1> QED BY <1>1, <1>2, BudgetInit, AvatarInvCorrect, PTL DEF Spec

\* A request is accepted over HTTP exactly when it is accepted over gRPC, for
\* every operation, identity and message that is small enough for either
\* transport: the handlers and use cases refuse whatever the validator of the
\* HTTP server refuses (server/http.go, server/grpc.go, service and biz of
\* both services).
THEOREM TransportsAgreeOnEveryMessage ==
    ASSUME NEW op \in Operations, NEW identity, NEW m \in Sendable(op)
    PROVE  Handled("http", identity, op, m) = "called"
             <=> Handled("grpc", identity, op, m) = "called"
BY TransportsAgreeOn

\* What the use cases pass on fits the columns and checks of the tables, in
\* every field of every message a client can send, over either transport, but
\* for exactly the identifiers beyond a BIGINT and the texts with NUL, which no
\* check looks at (the limits of biz/video.go and biz/user.go against
\* data/models.go).
THEOREM EveryMessageFits ==
    ASSUME NEW transport, NEW identity, NEW op \in Operations, NEW m \in Sendable(op),
           Handled(transport, identity, op, m) = "called"
    PROVE  \A f \in FieldsOf(op) : Fits(op, f, m[f]) <=> Representable(f, m[f])
BY FitsTables DEF Fits

\* The upload handler begins an upload exactly for a known user who posts a
\* body, of any number of parts, whose first file is supported, behind parts
\* that are all whole and covers that are supported and not too large; whatever
\* ends the body, and the limit on all of it, before that file refuses the
\* request (service/video_upload.go).
THEOREM UploadBeginsExactly ==
    ASSUME NEW verb, NEW bearer, NEW parts, Body(parts)
    PROVE  ServeUpload(verb, bearer, parts).answer = "called" <=>
               /\ verb = "POST" /\ bearer # <<>> /\ Authenticate(bearer) # Bad
               /\ Readable(parts)
BY UploadBegins

\* The tokens the clients keep are among those of all users.
LEMMA SentKnown == TypeInv => Sent \subseteq Bearers
<1> SUFFICES ASSUME TypeInv, NEW c \in Clients PROVE BearersOf(c) \subseteq Bearers
  BY DEF Sent
<1>1. session[c] \in Sessions
  BY DEF TypeInv
<1>2. \A u \in Users \cup {0}, kind \in {"access", "refresh"}, live \in BOOLEAN :
          [Issued(u, FALSE, kind) EXCEPT !.live = live] \in Tokens
  BY DEF Issued, Tokens
<1>3. session[c].user \in Users \cup {0}
  BY <1>1 DEF Sessions
<1>4. AccessToken(c) \in Tokens
  <2>1. session[c].access \in Nat
    BY <1>1, Bounds DEF Sessions
  <2>2. (session[c].access > 0) \in BOOLEAN
    BY <2>1, SMT
  <2> QED BY <1>2, <1>3, <2>2, Zenon DEF AccessToken
<1>5. RefreshToken(c) \in Tokens
  <2>1. session[c].refresh \in Nat
    BY <1>1, Bounds DEF Sessions
  <2>2. (session[c].refresh > 0) \in BOOLEAN
    BY <2>1, SMT
  <2> QED BY <1>2, <1>3, <2>2, Zenon DEF RefreshToken
<1> QED BY <1>4, <1>5 DEF BearersOf, Bearers

\* In every state, whatever tokens the clients hold: each operation is reached
\* by its own route and its requests are accepted over HTTP exactly when they
\* are over gRPC.
THEOREM TransportsAlwaysAgree == Spec => []TransportsAgree
<1>1. TypeInv => TransportsAgree
  BY SentKnown, AllReached, AllAgree DEF TransportsAgree
<1> QED BY <1>1, AvatarInvCorrect, PTL DEF IInv

\* In every state, whatever tokens the clients hold: the calls that pass every
\* check fit the tables, but for exactly the values PostgreSQL does not have,
\* and an upload begins exactly with a readable body.
THEOREM CallsAlwaysFit == Spec => []CallsFitTables
<1>1. TypeInv => CallsFitTables
  BY SentKnown, AllFit, AllUploadsFit DEF CallsFitTables
<1> QED BY <1>1, AvatarInvCorrect, PTL DEF IInv
=============================================================================
