-------------------------- MODULE ReactionsProofs --------------------------
(***************************************************************************)
(* Proofs about Reactions: the counters of a video equal its rows, and,    *)
(* when a user waits for the answer to a like before sending the next,     *)
(* those of a comment do too.                                              *)
(***************************************************************************)
EXTENDS Reactions, FiniteSetTheorems, TLAPS

-----------------------------------------------------------------------------
(* Facts about the operators of the handlers.                              *)

LEMMA StateType == \A on \in BOOLEAN : State(on) \in RowState
  BY DEF State, RowState

LEMMA BumpUp == \A n \in Nat : Bump(n, Delta(TRUE)) = n + 1
  BY DEF Bump, Delta

LEMMA BumpDown == \A n \in Nat : n > 0 => Bump(n, Delta(FALSE)) = n - 1
  BY DEF Bump, Delta

LEMMA BumpType == \A n \in Nat, on \in BOOLEAN : Bump(n, Delta(on)) \in Nat
  BY DEF Bump, Delta

(* The keys of every table are finitely many. *)
LEMMA KeysFinite ==
  ASSUME NEW k PROVE IsFiniteSet(Keys(k))
  BY ConstantsOK DEF Keys

LEMMA RowsOf ==
  ASSUME NEW k \in Kinds, NEW x \in Keys(k) PROVE <<k, x>> \in Rows
  BY DEF Rows

(* On counts one more, or one less, when one row of its table changes. *)
LEMMA OnInserted ==
  ASSUME row \in [Rows -> RowState], NEW k \in Kinds, NEW x \in Keys(k),
         row[<<k, x>>] # "on", row' = [row EXCEPT ![<<k, x>>] = "on"]
  PROVE  Cardinality(On(k)') = Cardinality(On(k)) + 1
<1>1. <<k, x>> \in Rows
  BY RowsOf
<1>2. On(k)' = On(k) \cup {x}
  BY <1>1 DEF On
<1>3. IsFiniteSet(On(k)) /\ x \notin On(k)
  BY KeysFinite, FS_Subset DEF On
<1> QED
  BY <1>2, <1>3, FS_AddElement

LEMMA OnRemoved ==
  ASSUME row \in [Rows -> RowState], NEW k \in Kinds, NEW x \in Keys(k),
         row[<<k, x>>] = "on", row' = [row EXCEPT ![<<k, x>>] = "off"]
  PROVE  /\ Cardinality(On(k)') = Cardinality(On(k)) - 1
         /\ Cardinality(On(k)) > 0
<1>1. <<k, x>> \in Rows
  BY RowsOf
<1>2. On(k)' = On(k) \ {x}
  BY <1>1 DEF On
<1>3. IsFiniteSet(On(k)) /\ x \in On(k)
  BY KeysFinite, FS_Subset DEF On
<1>4. Cardinality(On(k) \ {x}) = Cardinality(On(k)) - 1
  BY <1>3, FS_RemoveElement
<1>5. Cardinality(On(k)) \in Nat /\ Cardinality(On(k)) # 0
  BY <1>3, FS_CardinalityType, FS_EmptySet
<1> QED
  BY <1>2, <1>4, <1>5

-----------------------------------------------------------------------------
(* Types.                                                                  *)

LEMMA StoreType ==
  ASSUME TypeOK, NEW k \in Kinds, NEW x, NEW on \in BOOLEAN, Store(k, x, on)
  PROVE  row' \in [Rows -> RowState] /\ count' \in [Kinds -> Nat]
<1>1. State(on) \in RowState
  BY StateType
<1>2. Bump(count[k], Delta(on)) \in Nat
  BY BumpType DEF TypeOK
<1> QED
  BY <1>1, <1>2 DEF Store, TypeOK

LEMMA DeleteType ==
  ASSUME NEW k \in {"comment", "danmaku"}, NEW u \in Users, NEW x \in Keys(k), NEW s \in RowState
  PROVE  [op |-> "delete", kind |-> k, user |-> u, key |-> x, seen |-> s] \in Tx
<1>1. CASE k = "comment"
  BY <1>1 DEF Keys, Tx
<1>2. CASE k = "danmaku"
  BY <1>2 DEF Keys, Tx
<1> QED
  BY <1>1, <1>2

LEMMA TypeCorrectInit == Init => TypeOK
  BY ConstantsOK DEF Init, TypeOK, RowState, Tx

LEMMA TypeCorrectStep == TypeOK /\ [Next]_vars => TypeOK'
<1> SUFFICES ASSUME TypeOK, [Next]_vars PROVE TypeOK'
  OBVIOUS
<1>1. ASSUME NEW r \in Requests, NEW k \in Marks, NEW u \in Users, NEW on \in BOOLEAN,
             SetMark(r, k, u, on)
      PROVE  TypeOK'
  <2>1. k \in Kinds /\ u \in Keys(k)
    BY ConstantsOK DEF Kinds, Keys
  <2>2. row[<<k, u>>] \in RowState
    BY <2>1, RowsOf DEF TypeOK
  <2> QED
    BY <1>1, <2>2 DEF SetMark, FindPublished, Begin, TypeOK, Tx
<1>2. ASSUME NEW r \in Requests, NEW u \in Users, NEW p \in Comments \cup {NoComment},
             CreateComment(r, u, p)
      PROVE  TypeOK'
  BY <1>2 DEF CreateComment, FindPublished, Begin, TypeOK, Tx
<1>3. ASSUME NEW r \in Requests, NEW u \in Users, CreateDanmaku(r, u)
      PROVE  TypeOK'
  BY <1>3 DEF CreateDanmaku, FindPublished, Begin, TypeOK, Tx
<1>4. ASSUME NEW r \in Requests, NEW k \in {"comment", "danmaku"}, NEW u \in Users,
             NEW x \in Keys(k), Delete(r, k, u, x)
      PROVE  TypeOK'
  <2>1. row[<<k, x>>] \in RowState
    BY RowsOf DEF TypeOK, Kinds
  <2>2. [op |-> "delete", kind |-> k, user |-> u, key |-> x, seen |-> row[<<k, x>>]] \in Tx
    BY <2>1, DeleteType
  <2> QED
    BY <1>4, <2>2 DEF Delete, FindPublished, Begin, TypeOK
<1>5. ASSUME NEW r \in Requests, NEW l \in Likes, NEW on \in BOOLEAN,
             SetCommentLike(r, l[1], l[2], on)
      PROVE  TypeOK'
  <2>1. l = <<l[1], l[2]>> /\ commentLike[l] \in RowState
    BY ConstantsOK DEF TypeOK
  <2> QED
    BY <1>5, <2>1 DEF SetCommentLike, Begin, TypeOK, Tx
<1>6. ASSUME NEW r \in Requests, StoreMark(r)
      PROVE  TypeOK'
  <2>1. PICK t \in Tx : t = tx[r]
    BY DEF TypeOK
  <2>2. t.kind \in Kinds /\ t.on \in BOOLEAN
    BY <1>6, <2>1 DEF StoreMark, Tx, Idle, Kinds
  <2> QED
    BY <1>6, <2>1, <2>2, StoreType DEF StoreMark, End, TypeOK, Tx
<1>7. ASSUME NEW r \in Requests, StoreComment(r)
      PROVE  TypeOK'
  <2>1. tx[r].parent \in Comments \cup {NoComment}
    BY <1>7 DEF StoreComment, TypeOK, Tx, Idle
  <2>2. RootOf(tx[r].parent) \in Comments \cup {NoComment}
    BY <2>1 DEF RootOf, TypeOK
  <2>3. PICK c \in Comments : /\ Store("comment", c, TRUE)
                              /\ parent' = [parent EXCEPT ![c] = tx[r].parent]
                              /\ root' = [root EXCEPT ![c] = RootOf(tx[r].parent)]
    BY <1>7 DEF StoreComment
  <2> QED
    BY <1>7, <2>1, <2>2, <2>3, StoreType DEF StoreComment, End, TypeOK, Tx, Kinds
<1>8. ASSUME NEW r \in Requests, StoreDanmaku(r)
      PROVE  TypeOK'
  <2>1. PICK d \in Danmakus : Store("danmaku", d, TRUE)
    BY <1>8 DEF StoreDanmaku
  <2> QED
    BY <1>8, <2>1, StoreType DEF StoreDanmaku, End, TypeOK, Tx, Kinds
<1>9. ASSUME NEW r \in Requests, StoreDelete(r)
      PROVE  TypeOK'
  <2>1. PICK t \in Tx : t = tx[r]
    BY DEF TypeOK
  <2>2. t.kind \in Kinds
    BY <1>9, <2>1 DEF StoreDelete, Tx, Idle, Kinds
  <2> QED
    BY <1>9, <2>1, <2>2, StoreType DEF StoreDelete, End, TypeOK, Tx
<1>10. ASSUME NEW r \in Requests, StoreCommentLike(r)
       PROVE  TypeOK'
  <2>1. PICK t \in Tx : t = tx[r]
    BY DEF TypeOK
  <2>2. t.key \in Likes /\ t.on \in BOOLEAN
    BY <1>10, <2>1 DEF StoreCommentLike, Tx, Idle
  <2>3. t.key[2] \in Comments
    BY <2>2, ConstantsOK
  <2> QED
    BY <1>10, <2>1, <2>2, <2>3, StateType, BumpType DEF StoreCommentLike, End, TypeOK, Tx
<1>11. ASSUME NEW r \in Requests, Rollback(r)
       PROVE  TypeOK'
  BY <1>11 DEF Rollback, End, TypeOK, Tx
<1>12. CASE Moderate
  BY <1>12 DEF Moderate, TypeOK
<1>13. CASE UNCHANGED vars
  BY <1>13 DEF vars, TypeOK
<1> QED
  BY <1>1, <1>2, <1>3, <1>4, <1>5, <1>6, <1>7, <1>8, <1>9, <1>10, <1>11, <1>12, <1>13
  DEF Next, Request

(* The requests hold what their handlers read, the tables hold rows.       *)
THEOREM TypeCorrect == Spec => []TypeOK
  BY TypeCorrectInit, TypeCorrectStep, PTL DEF Spec

-----------------------------------------------------------------------------
(* The counters of the video.                                              *)

LEMMA StoreCounts ==
  ASSUME TypeOK, CountersMatch, NEW k \in Kinds, NEW x \in Keys(k), NEW on \in BOOLEAN,
         (row[<<k, x>>] = "on") # on, Store(k, x, on)
  PROVE  CountersMatch'
<1>1. \A j \in Kinds \ {k} : count'[j] = count[j] /\ On(j)' = On(j)
  <2> TAKE j \in Kinds \ {k}
  <2>1. count'[j] = count[j]
    BY DEF Store, TypeOK
  <2>2. \A y \in Keys(j) : row'[<<j, y>>] = row[<<j, y>>]
    <3> TAKE y \in Keys(j)
    <3>1. <<j, y>> \in Rows
      BY RowsOf
    <3> QED
      BY <3>1 DEF Store, TypeOK
  <2> QED
    BY <2>1, <2>2 DEF On
<1>2. count'[k] = Cardinality(On(k)')
  <2>1. count[k] \in Nat /\ count[k] = Cardinality(On(k))
    BY DEF TypeOK, CountersMatch
  <2>2. CASE on = TRUE
    <3>1. row \in [Rows -> RowState] /\ row[<<k, x>>] # "on"
          /\ row' = [row EXCEPT ![<<k, x>>] = "on"]
      BY <2>2 DEF Store, State, TypeOK
    <3>2. count'[k] = count[k] + 1
      BY <2>1, <2>2, BumpUp DEF Store, TypeOK
    <3> QED
      BY <2>1, <3>1, <3>2, OnInserted
  <2>3. CASE on = FALSE
    <3>1. row \in [Rows -> RowState] /\ row[<<k, x>>] = "on"
          /\ row' = [row EXCEPT ![<<k, x>>] = "off"]
      BY <2>3 DEF Store, State, TypeOK
    <3>2. Cardinality(On(k)') = Cardinality(On(k)) - 1 /\ Cardinality(On(k)) > 0
      BY <3>1, OnRemoved
    <3>3. count'[k] = count[k] - 1
      BY <2>1, <2>3, <3>2, BumpDown DEF Store, TypeOK
    <3> QED
      BY <2>1, <3>2, <3>3
  <2> QED
    BY <2>2, <2>3
<1> QED
  BY <1>1, <1>2 DEF CountersMatch

(* A request that locks the video is the only one that writes beside it.   *)
LEMMA LockTaken ==
  ASSUME TypeOK, ReadsHold, NEW r \in Requests, NEW t \in Tx, t.op \in Locking,
         t.op \in {"mark", "delete"} => t.seen = row[<<t.kind, t.key>>],
         FindPublished(r), Begin(r, t), UNCHANGED row
  PROVE  ReadsHold'
<1> SUFFICES ASSUME NEW q \in Requests
             PROVE  /\ lock' = q <=> tx'[q].op \in Locking
                    /\ tx'[q].op \in {"mark", "delete"} => tx'[q].seen = row[<<tx'[q].kind, tx'[q].key>>]
  BY DEF ReadsHold
<1>1. lock' = r /\ tx'[r] = t
  BY DEF FindPublished, Begin, TypeOK
<1>2. CASE q = r
  BY <1>1, <1>2
<1>3. CASE q # r
  <2>1. tx'[q] = tx[q] /\ lock # q
    BY <1>3, ConstantsOK DEF Begin, FindPublished, TypeOK
  <2>2. tx[q].op \notin Locking
    BY <2>1 DEF ReadsHold
  <2> QED
    BY <1>1, <1>3, <2>1, <2>2 DEF Locking
<1> QED
  BY <1>2, <1>3

LEMMA LockReleased ==
  ASSUME TypeOK, ReadsHold, NEW r \in Requests, End(r),
         lock = r \/ UNCHANGED row
  PROVE  ReadsHold'
<1> SUFFICES ASSUME NEW q \in Requests
             PROVE  /\ lock' = q <=> tx'[q].op \in Locking
                    /\ tx'[q].op \in {"mark", "delete"} => tx'[q].seen = row'[<<tx'[q].kind, tx'[q].key>>]
  BY DEF ReadsHold
<1>1. CASE q = r
  BY <1>1, ConstantsOK DEF End, TypeOK, Idle, Locking
<1>2. CASE q # r
  <2>1. tx'[q] = tx[q] /\ (lock' = q <=> lock = q)
    BY <1>2, ConstantsOK DEF End, TypeOK
  <2>2. lock = q <=> tx[q].op \in Locking
    BY DEF ReadsHold
  <2>3. CASE lock = r
    BY <1>2, <2>1, <2>2, <2>3 DEF Locking
  <2>4. CASE UNCHANGED row
    BY <2>1, <2>4 DEF ReadsHold
  <2> QED
    BY <2>3, <2>4
<1> QED
  BY <1>1, <1>2

CountInv == TypeOK /\ ReadsHold /\ CountersMatch

LEMMA CountInit == Init => CountInv
<1> SUFFICES ASSUME Init PROVE ReadsHold /\ CountersMatch
  BY TypeCorrectInit DEF CountInv
<1>1. ReadsHold
  BY ConstantsOK DEF Init, ReadsHold, Locking, Idle
<1>2. ASSUME NEW k \in Kinds PROVE On(k) = {}
  <2>1. \A x \in Keys(k) : row[<<k, x>>] = "absent"
    BY RowsOf DEF Init
  <2> QED
    BY <2>1 DEF On
<1>3. CountersMatch
  BY <1>2, FS_EmptySet DEF Init, CountersMatch
<1> QED
  BY <1>1, <1>3

LEMMA CountStep == CountInv /\ [Next]_vars => CountInv'
<1> SUFFICES ASSUME CountInv, [Next]_vars PROVE ReadsHold' /\ CountersMatch'
  BY TypeCorrectStep DEF CountInv
<1>a. TypeOK /\ ReadsHold /\ CountersMatch
  BY DEF CountInv
<1>b. ASSUME UNCHANGED <<row, count>> PROVE CountersMatch'
  BY <1>a, <1>b DEF CountersMatch, On
<1>1. ASSUME NEW r \in Requests, NEW k \in Marks, NEW u \in Users, NEW on \in BOOLEAN,
             SetMark(r, k, u, on)
      PROVE  ReadsHold' /\ CountersMatch'
  <2> DEFINE t == [op |-> "mark", kind |-> k, key |-> u, on |-> on, seen |-> row[<<k, u>>]]
  <2>1. row[<<k, u>>] \in RowState
    <3>1. k \in Kinds /\ u \in Keys(k)
      BY ConstantsOK DEF Kinds, Keys
    <3> QED
      BY <1>a, <3>1, RowsOf DEF TypeOK
  <2>2. t \in Tx
    BY <2>1 DEF Tx
  <2>3. t.op \in Locking /\ t.seen = row[<<t.kind, t.key>>]
    BY DEF Locking
  <2>4. FindPublished(r) /\ Begin(r, t) /\ UNCHANGED <<row, count>>
    BY <1>1 DEF SetMark
  <2> HIDE DEF t
  <2> QED
    BY <1>a, <1>b, <2>2, <2>3, <2>4, LockTaken
<1>2. ASSUME NEW r \in Requests, NEW u \in Users, NEW p \in Comments \cup {NoComment},
             CreateComment(r, u, p)
      PROVE  ReadsHold' /\ CountersMatch'
  <2> DEFINE t == [op |-> "write", kind |-> "comment", user |-> u, parent |-> p]
  <2>1. t \in Tx /\ t.op \in Locking /\ t.op \notin {"mark", "delete"}
    BY DEF Tx, Locking
  <2>2. FindPublished(r) /\ Begin(r, t) /\ UNCHANGED <<row, count>>
    BY <1>2 DEF CreateComment
  <2> HIDE DEF t
  <2> QED
    BY <1>a, <1>b, <2>1, <2>2, LockTaken
<1>3. ASSUME NEW r \in Requests, NEW u \in Users, CreateDanmaku(r, u)
      PROVE  ReadsHold' /\ CountersMatch'
  <2> DEFINE t == [op |-> "write", kind |-> "danmaku", user |-> u, parent |-> NoComment]
  <2>1. t \in Tx /\ t.op \in Locking /\ t.op \notin {"mark", "delete"}
    BY DEF Tx, Locking
  <2>2. FindPublished(r) /\ Begin(r, t) /\ UNCHANGED <<row, count>>
    BY <1>3 DEF CreateDanmaku
  <2> HIDE DEF t
  <2> QED
    BY <1>a, <1>b, <2>1, <2>2, LockTaken
<1>4. ASSUME NEW r \in Requests, NEW k \in {"comment", "danmaku"}, NEW u \in Users,
             NEW x \in Keys(k), Delete(r, k, u, x)
      PROVE  ReadsHold' /\ CountersMatch'
  <2> DEFINE t == [op |-> "delete", kind |-> k, user |-> u, key |-> x, seen |-> row[<<k, x>>]]
  <2>1. row[<<k, x>>] \in RowState
    BY <1>a, RowsOf DEF TypeOK, Kinds
  <2>2. t \in Tx
    BY <2>1, DeleteType
  <2>3. t.op \in Locking /\ t.seen = row[<<t.kind, t.key>>]
    BY DEF Locking
  <2>4. FindPublished(r) /\ Begin(r, t) /\ UNCHANGED <<row, count>>
    BY <1>4 DEF Delete
  <2> HIDE DEF t
  <2> QED
    BY <1>a, <1>b, <2>2, <2>3, <2>4, LockTaken
<1>5. ASSUME NEW r \in Requests, NEW l \in Likes, NEW on \in BOOLEAN,
             SetCommentLike(r, l[1], l[2], on)
      PROVE  ReadsHold' /\ CountersMatch'
  <2>1. tx[r] = Idle /\ tx'[r].op = "like" /\ UNCHANGED <<lock, row, count>>
        /\ \A q \in Requests \ {r} : tx'[q] = tx[q]
    BY <1>a, <1>5 DEF SetCommentLike, Begin, TypeOK
  <2>2. lock # r
    <3>1. tx[r].op = "idle"
      BY <2>1 DEF Idle
    <3> QED
      BY <1>a, <3>1 DEF ReadsHold, Locking
  <2>3. ASSUME NEW q \in Requests
        PROVE  /\ lock' = q <=> tx'[q].op \in Locking
               /\ tx'[q].op \in {"mark", "delete"} => tx'[q].seen = row'[<<tx'[q].kind, tx'[q].key>>]
    <3>1. CASE q = r
      <4>1. tx'[q].op = "like" /\ lock' # q
        BY <2>1, <2>2, <3>1
      <4> QED
        BY <4>1 DEF Locking
    <3>2. CASE q # r
      BY <1>a, <2>1, <3>2 DEF ReadsHold
    <3> QED
      BY <3>1, <3>2
  <2> QED
    BY <1>b, <2>1, <2>3 DEF ReadsHold
<1>6. ASSUME NEW r \in Requests, StoreMark(r)
      PROVE  ReadsHold' /\ CountersMatch'
  <2>1. PICK t \in Tx : t = tx[r]
    BY <1>a DEF TypeOK
  <2>2. t.op = "mark" /\ t.kind \in Marks /\ t.key \in Users /\ t.on \in BOOLEAN
    BY <1>6, <2>1 DEF StoreMark, Tx, Idle
  <2>3. t.kind \in Kinds /\ t.key \in Keys(t.kind)
    BY <2>2, ConstantsOK DEF Kinds, Keys
  <2>4. lock = r /\ t.seen = row[<<t.kind, t.key>>]
    BY <1>a, <2>1, <2>2 DEF ReadsHold, Locking
  <2>5. ReadsHold'
    BY <1>a, <1>6, <2>4, LockReleased DEF StoreMark
  <2>6. CASE MarkChanges(t)
    <3>1. Store(t.kind, t.key, t.on) /\ (row[<<t.kind, t.key>>] = "on") # t.on
      BY <1>6, <2>1, <2>4, <2>6 DEF StoreMark, MarkChanges
    <3> QED
      BY <1>a, <2>2, <2>3, <2>5, <3>1, StoreCounts
  <2>7. CASE ~MarkChanges(t)
    BY <1>6, <1>b, <2>1, <2>5, <2>7 DEF StoreMark
  <2> QED
    BY <2>6, <2>7
<1>7. ASSUME NEW r \in Requests, StoreComment(r)
      PROVE  ReadsHold' /\ CountersMatch'
  <2>1. lock = r
    BY <1>a, <1>7 DEF StoreComment, ReadsHold, Locking
  <2>2. ReadsHold'
    BY <1>a, <1>7, <2>1, LockReleased DEF StoreComment
  <2>3. PICK c \in Comments : row[<<"comment", c>>] = "absent" /\ Store("comment", c, TRUE)
    BY <1>7 DEF StoreComment
  <2>4. "comment" \in Kinds /\ c \in Keys("comment")
    BY DEF Kinds, Keys
  <2>5. (row[<<"comment", c>>] = "on") # TRUE
    BY <2>3
  <2> QED
    BY <1>a, <2>2, <2>3, <2>4, <2>5, StoreCounts
<1>8. ASSUME NEW r \in Requests, StoreDanmaku(r)
      PROVE  ReadsHold' /\ CountersMatch'
  <2>1. lock = r
    BY <1>a, <1>8 DEF StoreDanmaku, ReadsHold, Locking
  <2>2. ReadsHold'
    BY <1>a, <1>8, <2>1, LockReleased DEF StoreDanmaku
  <2>3. PICK d \in Danmakus : row[<<"danmaku", d>>] = "absent" /\ Store("danmaku", d, TRUE)
    BY <1>8 DEF StoreDanmaku
  <2>4. "danmaku" \in Kinds /\ d \in Keys("danmaku")
    BY DEF Kinds, Keys
  <2>5. (row[<<"danmaku", d>>] = "on") # TRUE
    BY <2>3
  <2> QED
    BY <1>a, <2>2, <2>3, <2>4, <2>5, StoreCounts
<1>9. ASSUME NEW r \in Requests, StoreDelete(r)
      PROVE  ReadsHold' /\ CountersMatch'
  <2>1. PICK t \in Tx : t = tx[r]
    BY <1>a DEF TypeOK
  <2>2. /\ t.op = "delete" /\ t.kind \in Kinds
        /\ \/ t.kind = "comment" /\ t.key \in Comments
           \/ t.kind = "danmaku" /\ t.key \in Danmakus
    BY <1>9, <2>1 DEF StoreDelete, Tx, Idle, Kinds
  <2>3. lock = r /\ t.seen = row[<<t.kind, t.key>>]
    BY <1>a, <2>1, <2>2 DEF ReadsHold, Locking
  <2>4. ReadsHold'
    BY <1>a, <1>9, <2>3, LockReleased DEF StoreDelete
  <2>5. CASE MayDelete(t)
    <3>1. Store(t.kind, t.key, FALSE) /\ row[<<t.kind, t.key>>] = "on"
      BY <1>9, <2>1, <2>3, <2>5 DEF StoreDelete, MayDelete
    <3>2. t.kind \in Kinds /\ t.key \in Keys(t.kind)
      BY <2>2 DEF Keys
    <3>3. (row[<<t.kind, t.key>>] = "on") # FALSE
      BY <3>1
    <3> QED
      BY <1>a, <2>4, <3>1, <3>2, <3>3, StoreCounts
  <2>6. CASE ~MayDelete(t)
    BY <1>9, <1>b, <2>1, <2>4, <2>6 DEF StoreDelete
  <2> QED
    BY <2>5, <2>6
<1>10. ASSUME NEW r \in Requests, StoreCommentLike(r)
       PROVE  ReadsHold' /\ CountersMatch'
  BY <1>a, <1>b, <1>10, LockReleased DEF StoreCommentLike
<1>11. ASSUME NEW r \in Requests, Rollback(r)
       PROVE  ReadsHold' /\ CountersMatch'
  BY <1>a, <1>b, <1>11, LockReleased DEF Rollback
<1>12. CASE Moderate
  BY <1>a, <1>b, <1>12 DEF Moderate, ReadsHold
<1>13. CASE UNCHANGED vars
  BY <1>a, <1>b, <1>13 DEF vars, ReadsHold
<1> QED
  BY <1>1, <1>2, <1>3, <1>4, <1>5, <1>6, <1>7, <1>8, <1>9, <1>10, <1>11, <1>12, <1>13
  DEF Next, Request

LEMMA CountInvHolds == Spec => []CountInv
BY CountInit, CountStep, PTL DEF Spec

(* What a transaction read under the row lock of its video still holds     *)
(* when it writes, whoever else likes, comments, moderates or gives up.    *)
THEOREM ReadsAlwaysHold == Spec => []ReadsHold
BY CountInvHolds, PTL DEF CountInv

(* The counters of a video equal its rows, for any number of users and     *)
(* requests and whatever overlaps.                                         *)
THEOREM CountersAlwaysMatch == Spec => []CountersMatch
BY CountInvHolds, PTL DEF CountInv

-----------------------------------------------------------------------------
(* The counters of comments.                                               *)

LEMMA LikesFinite == ASSUME NEW c PROVE IsFiniteSet(LikesOf(c))
<1>1. IsFiniteSet(Users \X Comments)
  BY ConstantsOK, FS_Product
<1> QED
  BY <1>1, ConstantsOK, FS_Subset DEF LikesOf

LEMMA LikeCounts ==
  ASSUME TypeOK, CommentLikesCounted, NEW l \in Likes, NEW on \in BOOLEAN,
         (commentLike[l] = "on") # on,
         commentLike' = [commentLike EXCEPT ![l] = State(on)],
         likeCount' = [likeCount EXCEPT ![l[2]] = Bump(@, Delta(on))]
  PROVE  CommentLikesCounted'
<1> DEFINE c == l[2]
<1>1. c \in Comments
  BY ConstantsOK
<1>2. likeCount[c] \in Nat /\ likeCount[c] = Cardinality(LikesOf(c))
  BY <1>1 DEF TypeOK, CommentLikesCounted
<1>3. \A d \in Comments \ {c} : likeCount'[d] = likeCount[d] /\ LikesOf(d)' = LikesOf(d)
  BY DEF LikesOf, TypeOK
<1>4. likeCount'[c] = Cardinality(LikesOf(c)')
  <2>1. CASE on = TRUE
    <3>1. LikesOf(c)' = LikesOf(c) \cup {l} /\ l \notin LikesOf(c)
      BY <2>1 DEF LikesOf, State, TypeOK
    <3>2. Cardinality(LikesOf(c) \cup {l}) = Cardinality(LikesOf(c)) + 1
      BY <3>1, LikesFinite, FS_AddElement
    <3>3. likeCount'[c] = likeCount[c] + 1
      BY <1>1, <1>2, <2>1, BumpUp DEF TypeOK
    <3> QED
      BY <1>2, <3>1, <3>2, <3>3
  <2>2. CASE on = FALSE
    <3>1. LikesOf(c)' = LikesOf(c) \ {l} /\ l \in LikesOf(c)
      BY <2>2 DEF LikesOf, State, TypeOK
    <3>2. Cardinality(LikesOf(c) \ {l}) = Cardinality(LikesOf(c)) - 1
      BY <3>1, LikesFinite, FS_RemoveElement
    <3>3. likeCount[c] > 0
      BY <1>2, <3>1, LikesFinite, FS_EmptySet
    <3>4. likeCount'[c] = likeCount[c] - 1
      BY <1>1, <1>2, <2>2, <3>3, BumpDown DEF TypeOK
    <3> QED
      BY <1>2, <3>1, <3>2, <3>4
  <2> QED
    BY <2>1, <2>2
<1> QED
  BY <1>3, <1>4 DEF CommentLikesCounted

LikeInv == TypeOK /\ LikesHold /\ CommentLikesCounted

LEMMA LikeInit == Init => LikeInv
<1> SUFFICES ASSUME Init PROVE LikesHold /\ CommentLikesCounted
  BY TypeCorrectInit DEF LikeInv
<1>1. LikesHold
  BY DEF Init, LikesHold, Idle
<1>2. \A c \in Comments : LikesOf(c) = {} /\ likeCount[c] = 0
  BY DEF Init, LikesOf
<1> QED
  BY <1>1, <1>2, FS_EmptySet DEF CommentLikesCounted

(* A step of a request that is not about a like, before and after. *)
LEMMA LikesUntouched ==
  ASSUME TypeOK, LikesHold, NEW r \in Requests, NEW t, t.op # "like",
         tx' = [tx EXCEPT ![r] = t], UNCHANGED commentLike
  PROVE  LikesHold'
<1>1. tx'[r].op # "like" /\ \A q \in Requests \ {r} : tx'[q] = tx[q]
  BY DEF TypeOK
<1> QED
  BY <1>1 DEF LikesHold

LEMMA LikeStep ==
  ASSUME ~Overlapping PROVE LikeInv /\ [Next]_vars => LikeInv'
<1> SUFFICES ASSUME LikeInv, [Next]_vars PROVE LikesHold' /\ CommentLikesCounted'
  BY TypeCorrectStep DEF LikeInv
<1>a. TypeOK /\ LikesHold /\ CommentLikesCounted
  BY DEF LikeInv
<1>b. ASSUME UNCHANGED <<commentLike, likeCount>> PROVE CommentLikesCounted'
  BY <1>a, <1>b DEF CommentLikesCounted, LikesOf
<1>c. ASSUME NEW r \in Requests, End(r), UNCHANGED commentLike PROVE LikesHold'
  BY <1>a, <1>c, LikesUntouched DEF End, Idle
<1>1. ASSUME NEW r \in Requests, NEW k \in Marks, NEW u \in Users, NEW on \in BOOLEAN,
             SetMark(r, k, u, on)
      PROVE  LikesHold' /\ CommentLikesCounted'
  <2> DEFINE t == [op |-> "mark", kind |-> k, key |-> u, on |-> on, seen |-> row[<<k, u>>]]
  <2>1. t.op # "like"
    OBVIOUS
  <2>2. tx' = [tx EXCEPT ![r] = t] /\ UNCHANGED <<commentLike, likeCount>>
    BY <1>1 DEF SetMark, Begin
  <2> HIDE DEF t
  <2> QED
    BY <1>a, <1>b, <2>1, <2>2, LikesUntouched
<1>2. ASSUME NEW r \in Requests, NEW u \in Users, NEW p \in Comments \cup {NoComment},
             CreateComment(r, u, p)
      PROVE  LikesHold' /\ CommentLikesCounted'
  <2> DEFINE t == [op |-> "write", kind |-> "comment", user |-> u, parent |-> p]
  <2>1. t.op # "like"
    OBVIOUS
  <2>2. tx' = [tx EXCEPT ![r] = t] /\ UNCHANGED <<commentLike, likeCount>>
    BY <1>2 DEF CreateComment, Begin
  <2> HIDE DEF t
  <2> QED
    BY <1>a, <1>b, <2>1, <2>2, LikesUntouched
<1>3. ASSUME NEW r \in Requests, NEW u \in Users, CreateDanmaku(r, u)
      PROVE  LikesHold' /\ CommentLikesCounted'
  <2> DEFINE t == [op |-> "write", kind |-> "danmaku", user |-> u, parent |-> NoComment]
  <2>1. t.op # "like"
    OBVIOUS
  <2>2. tx' = [tx EXCEPT ![r] = t] /\ UNCHANGED <<commentLike, likeCount>>
    BY <1>3 DEF CreateDanmaku, Begin
  <2> HIDE DEF t
  <2> QED
    BY <1>a, <1>b, <2>1, <2>2, LikesUntouched
<1>4. ASSUME NEW r \in Requests, NEW k \in {"comment", "danmaku"}, NEW u \in Users,
             NEW x \in Keys(k), Delete(r, k, u, x)
      PROVE  LikesHold' /\ CommentLikesCounted'
  <2> DEFINE t == [op |-> "delete", kind |-> k, user |-> u, key |-> x, seen |-> row[<<k, x>>]]
  <2>1. t.op # "like"
    OBVIOUS
  <2>2. tx' = [tx EXCEPT ![r] = t] /\ UNCHANGED <<commentLike, likeCount>>
    BY <1>4 DEF Delete, Begin
  <2> HIDE DEF t
  <2> QED
    BY <1>a, <1>b, <2>1, <2>2, LikesUntouched
<1>5. ASSUME NEW r \in Requests, NEW l \in Likes, NEW on \in BOOLEAN,
             SetCommentLike(r, l[1], l[2], on)
      PROVE  LikesHold' /\ CommentLikesCounted'
  <2>1. l = <<l[1], l[2]>>
    BY ConstantsOK
  <2>2. /\ tx'[r].op = "like" /\ tx'[r].key = l /\ tx'[r].seen = commentLike[l]
        /\ \A q \in Requests \ {r} : tx'[q] = tx[q]
        /\ UNCHANGED <<commentLike, likeCount>>
    BY <1>a, <1>5, <2>1 DEF SetCommentLike, Begin, TypeOK
  <2>3. \A q \in Requests : tx[q].op = "like" => tx[q].key # l
    BY <1>5, <2>1 DEF SetCommentLike
  <2> QED
    BY <1>a, <1>b, <2>2, <2>3 DEF LikesHold
<1>6. ASSUME NEW r \in Requests, StoreMark(r)
      PROVE  LikesHold' /\ CommentLikesCounted'
  BY <1>6, <1>b, <1>c DEF StoreMark
<1>7. ASSUME NEW r \in Requests, StoreComment(r)
      PROVE  LikesHold' /\ CommentLikesCounted'
  <2>1. UNCHANGED likeCount /\ UNCHANGED commentLike /\ End(r)
    BY <1>7 DEF StoreComment
  <2> QED
    BY <2>1, <1>b, <1>c
<1>8. ASSUME NEW r \in Requests, StoreDanmaku(r)
      PROVE  LikesHold' /\ CommentLikesCounted'
  BY <1>8, <1>b, <1>c DEF StoreDanmaku
<1>9. ASSUME NEW r \in Requests, StoreDelete(r)
      PROVE  LikesHold' /\ CommentLikesCounted'
  BY <1>9, <1>b, <1>c DEF StoreDelete
<1>10. ASSUME NEW r \in Requests, StoreCommentLike(r)
       PROVE  LikesHold' /\ CommentLikesCounted'
  <2>1. PICK t \in Tx : t = tx[r]
    BY <1>a DEF TypeOK
  <2>2. t.op = "like" /\ t.key \in Likes /\ t.on \in BOOLEAN /\ End(r)
    BY <1>10, <2>1 DEF StoreCommentLike, Tx, Idle
  <2>3. t.seen = commentLike[t.key] /\ ~LikeConflict(t)
    BY <1>a, <2>1, <2>2 DEF LikesHold, LikeConflict
  <2>4. CASE LikeChanges(t)
    <3>1. /\ commentLike' = [commentLike EXCEPT ![t.key] = State(t.on)]
          /\ likeCount' = [likeCount EXCEPT ![t.key[2]] = Bump(@, Delta(t.on))]
          /\ (commentLike[t.key] = "on") # t.on
      BY <1>10, <2>1, <2>3, <2>4 DEF StoreCommentLike, LikeChanges
    <3>2. CommentLikesCounted'
      BY <1>a, <2>2, <3>1, LikeCounts
    <3>3. \A q \in Requests \ {r} : tx'[q] = tx[q]
      BY <1>a, <2>2 DEF End, TypeOK
    <3>4. tx'[r].op # "like"
      BY <1>a, <2>2 DEF End, TypeOK, Idle
    <3>5. \A q \in Requests \ {r} : tx[q].op = "like" =>
             tx[q].key # t.key /\ commentLike'[tx[q].key] = tx[q].seen
      <4> TAKE q \in Requests \ {r}
      <4> HAVE tx[q].op = "like"
      <4>1. tx[q].key # t.key /\ tx[q].seen = commentLike[tx[q].key]
        BY <1>a, <2>1, <2>2 DEF LikesHold
      <4>2. tx[q].key \in Likes
        BY <1>a DEF TypeOK, Tx, Idle
      <4> QED
        BY <1>a, <3>1, <4>1, <4>2 DEF TypeOK
    <3>6. LikesHold'
      BY <1>a, <3>3, <3>4, <3>5 DEF LikesHold
    <3> QED
      BY <3>2, <3>6
  <2>5. CASE ~LikeChanges(t)
    BY <1>10, <1>b, <1>c, <2>1, <2>2, <2>5 DEF StoreCommentLike
  <2> QED
    BY <2>4, <2>5
<1>11. ASSUME NEW r \in Requests, Rollback(r)
       PROVE  LikesHold' /\ CommentLikesCounted'
  BY <1>11, <1>b, <1>c DEF Rollback
<1>12. CASE Moderate
  BY <1>a, <1>b, <1>12 DEF Moderate, LikesHold
<1>13. CASE UNCHANGED vars
  BY <1>a, <1>b, <1>13 DEF vars, LikesHold
<1> QED
  BY <1>1, <1>2, <1>3, <1>4, <1>5, <1>6, <1>7, <1>8, <1>9, <1>10, <1>11, <1>12, <1>13
  DEF Next, Request

(* A comment's counter equals its active likes if every user waits for the *)
(* answer to a like of a comment before sending the next one.  It does not *)
(* without that: SetVideoCommentLike takes no lock before it reads.        *)
THEOREM CommentLikesAlwaysCounted ==
  ASSUME ~Overlapping PROVE Spec => []CommentLikesCounted
<1>1. LikeInv => CommentLikesCounted
  BY DEF LikeInv
<1>2. LikeInv /\ [Next]_vars => LikeInv'
  BY LikeStep
<1> QED
  BY <1>1, <1>2, LikeInit, PTL DEF Spec

-----------------------------------------------------------------------------
(* Threads.                                                                *)

ThreadInv == TypeOK /\ Threads

LEMMA ThreadInit == Init => ThreadInv
<1> SUFFICES ASSUME Init PROVE Threads
  BY TypeCorrectInit DEF ThreadInv
<1> QED
  BY DEF Init, Threads

(* A comment never ceases to exist; its place in the thread is final.      *)
LEMMA ThreadsKept ==
  ASSUME Threads, \A c \in Comments : Exists(c) => Exists(c)', UNCHANGED <<parent, root>>
  PROVE  Threads'
  BY DEF Threads

LEMMA StoreKeepsRows ==
  ASSUME TypeOK, NEW k, NEW x, NEW on \in BOOLEAN, Store(k, x, on), NEW c \in Comments, Exists(c)
  PROVE  Exists(c)'
<1>1. <<"comment", c>> \in Rows
  BY RowsOf DEF Kinds, Keys
<1> QED
  BY <1>1 DEF Store, State, Exists, TypeOK

LEMMA ThreadStep == ThreadInv /\ [Next]_vars => ThreadInv'
<1> SUFFICES ASSUME ThreadInv, [Next]_vars PROVE Threads'
  BY TypeCorrectStep DEF ThreadInv
<1>a. TypeOK /\ Threads
  BY DEF ThreadInv
<1>b. ASSUME UNCHANGED <<row, parent, root>> PROVE Threads'
  BY <1>a, <1>b, ThreadsKept DEF Exists
<1>c. ASSUME NEW k, NEW x, NEW on \in BOOLEAN, Store(k, x, on), UNCHANGED <<parent, root>>
      PROVE  Threads'
  BY <1>a, <1>c, ThreadsKept, StoreKeepsRows
<1>1. ASSUME NEW r \in Requests, Request(r)
      PROVE  Threads'
  BY <1>1, <1>b DEF Request, SetMark, CreateComment, CreateDanmaku, Delete, SetCommentLike
<1>2. ASSUME NEW r \in Requests, StoreMark(r)
      PROVE  Threads'
  <2>1. PICK t \in Tx : t = tx[r]
    BY <1>a DEF TypeOK
  <2>2. t.on \in BOOLEAN
    BY <1>2, <2>1 DEF StoreMark, Tx, Idle
  <2> QED
    BY <1>2, <1>b, <1>c, <2>1, <2>2 DEF StoreMark
<1>3. ASSUME NEW r \in Requests, StoreComment(r)
      PROVE  Threads'
  <2> DEFINE p == tx[r].parent
  <2>1. p \in Comments \cup {NoComment} /\ (p # NoComment => Exists(p))
    BY <1>a, <1>3 DEF StoreComment, TypeOK, Tx, Idle, Exists
  <2>2. PICK c \in Comments :
          /\ ~Exists(c) /\ Store("comment", c, TRUE)
          /\ parent' = [parent EXCEPT ![c] = p]
          /\ root' = [root EXCEPT ![c] = RootOf(p)]
    BY <1>3 DEF StoreComment, Exists
  <2>3. p # NoComment =>
          RootOf(p) \in Comments /\ Exists(RootOf(p)) /\ parent[RootOf(p)] = NoComment
    BY <1>a, <2>1 DEF RootOf, Threads
  <2> DEFINE Stays(d) == row'[<<"comment", d>>] # "absent"
  <2>4. \A d \in Comments : Exists(d) => Stays(d)
    BY <1>a, <2>2, StoreKeepsRows DEF Exists
  <2>5. Stays(c)
    <3>1. <<"comment", c>> \in Rows
      BY RowsOf DEF Kinds, Keys
    <3> QED
      BY <1>a, <2>2, <3>1 DEF Store, State, TypeOK
  <2> HIDE DEF p, Stays
  <2>6. ASSUME NEW d \in Comments
        PROVE  /\ ~Stays(d) => parent'[d] = NoComment
               /\ parent'[d] # NoComment =>
                    root'[d] \in Comments /\ Stays(root'[d]) /\ parent'[root'[d]] = NoComment
    <3>1. CASE d = c
      <4>1. parent'[d] = p /\ root'[d] = RootOf(p)
        BY <1>a, <2>2, <3>1 DEF TypeOK
      <4>2. p # NoComment => RootOf(p) # c
        BY <2>2, <2>3
      <4>3. p # NoComment => parent'[RootOf(p)] = NoComment
        BY <1>a, <2>2, <2>3, <4>2 DEF TypeOK
      <4> QED
        BY <2>3, <2>4, <2>5, <3>1, <4>1, <4>3
    <3>2. CASE d # c
      <4>1. parent'[d] = parent[d] /\ root'[d] = root[d]
        BY <1>a, <2>2, <3>2 DEF TypeOK
      <4>2. ~Stays(d) => parent[d] = NoComment
        BY <1>a, <2>4 DEF Threads
      <4>3. ASSUME parent[d] # NoComment
            PROVE  root[d] \in Comments /\ Exists(root[d]) /\ parent[root[d]] = NoComment
        BY <1>a, <4>3 DEF Threads
      <4>4. ASSUME parent[d] # NoComment
            PROVE  Stays(root[d]) /\ parent'[root[d]] = NoComment
        BY <1>a, <2>2, <2>4, <4>3, <4>4 DEF TypeOK
      <4> QED
        BY <4>1, <4>2, <4>3, <4>4
    <3> QED
      BY <3>1, <3>2
  <2> QED
    BY <2>6 DEF Threads, Exists, Stays
<1>4. ASSUME NEW r \in Requests, StoreDanmaku(r)
      PROVE  Threads'
  <2>1. PICK d \in Danmakus : Store("danmaku", d, TRUE)
    BY <1>4 DEF StoreDanmaku
  <2> QED
    BY <1>4, <1>c, <2>1 DEF StoreDanmaku
<1>5. ASSUME NEW r \in Requests, StoreDelete(r)
      PROVE  Threads'
  BY <1>5, <1>b, <1>c DEF StoreDelete
<1>6. ASSUME NEW r \in Requests, StoreCommentLike(r)
      PROVE  Threads'
  BY <1>6, <1>b DEF StoreCommentLike
<1>7. ASSUME NEW r \in Requests, Rollback(r)
      PROVE  Threads'
  BY <1>7, <1>b DEF Rollback
<1>8. CASE Moderate
  BY <1>8, <1>b DEF Moderate
<1>9. CASE UNCHANGED vars
  BY <1>9, <1>b DEF vars
<1> QED
  BY <1>1, <1>2, <1>3, <1>4, <1>5, <1>6, <1>7, <1>8, <1>9 DEF Next

(* No comment that is not deleted is ever out of reach of the lists.       *)
THEOREM CommentsStayReachable == Spec => []EveryCommentReachable
<1>1. ThreadInv => EveryCommentReachable
  <2> SUFFICES ASSUME ThreadInv, NEW c \in Comments, row[<<"comment", c>>] = "on"
               PROVE  c \in ListedRoots \/ (parent[c] # NoComment /\ root[c] \in ListedRoots)
    BY DEF EveryCommentReachable, On, Keys
  <2>1. c \in On("comment") /\ Exists(c)
    BY DEF On, Keys, Exists
  <2>2. CASE parent[c] = NoComment
    BY <2>1, <2>2 DEF ListedRoots
  <2>3. CASE parent[c] # NoComment
    BY <2>1, <2>3 DEF ListedRoots, ThreadInv, Threads
  <2> QED
    BY <2>2, <2>3
<1> QED
  BY <1>1, ThreadInit, ThreadStep, PTL DEF Spec
=============================================================================
