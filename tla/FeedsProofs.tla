---------------------------- MODULE FeedsProofs ----------------------------
(***************************************************************************)
(* Proofs about Feeds: types, and that what a client is told while rows    *)
(* move, for any rows, readers, page sizes and scores, is visible, has its *)
(* streams, and is listed once and not left out.                           *)
(***************************************************************************)
EXTENDS Feeds, FiniteSetTheorems, WellFoundedInduction, TLAPS

----------------------------------------------------------------------------
(* Orders and pages.                                                       *)

Keys == Nat \X Nat

(* Every listing has a strict order of its keys.                               *)
LEMMA ComesStrict ==
    ASSUME NEW f, NEW k \in Keys, NEW l \in Keys, NEW m \in Keys
    PROVE  /\ ~Comes(f, k, k)
           /\ Comes(f, k, l) /\ Comes(f, l, m) => Comes(f, k, m)
           /\ Comes(f, k, l) => ~Comes(f, l, k)
BY DEF Comes, Keys

LEMMA KeysOfRows ==
    ASSUME mark \in [Ids -> Nat], NEW f, NEW i \in Ids
    PROVE  Key(f, i) \in Keys /\ Key(f, i)[2] = i /\ Key(f, i) # NoKey
                /\ (f # "history" => Key(f, i)[1] = 0)
                /\ (f = "history" => Key(f, i)[1] = mark[i])
BY FeedsAssumption DEF FeedsAssumption, Key, Keys, NoKey

(* It is total on the rows of a listing.                                       *)
LEMMA ComesTotal ==
    ASSUME mark \in [Ids -> Nat], NEW f, NEW i \in Ids, NEW j \in Ids, i # j
    PROVE  Comes(f, Key(f, i), Key(f, j)) \/ Comes(f, Key(f, j), Key(f, i))
<1>1. i \in Nat /\ j \in Nat
  BY FeedsAssumption DEF FeedsAssumption
<1>2. "history" \notin OldestFirst
  BY DEF OldestFirst
<1> QED BY <1>1, <1>2, KeysOfRows DEF Comes, Keys, Key

(* A finite set that is not empty has a member with the fewest others before   *)
(* it, where "before" is given by a set for each member.                       *)
LEMMA Fewest ==
    ASSUME NEW S, IsFiniteSet(S), S # {}, NEW B, B \in [S -> SUBSET S]
    PROVE  \E i \in S : \A j \in S : ~(B[j] \subseteq B[i] /\ B[j] # B[i])
<1> DEFINE T == {B[i] : i \in S}
<1>1. IsWellFoundedOn(StrictSubsetOrdering(S), FiniteSubsetsOf(S))
  BY FS_StrictSubsetOrderingWellFounded
<1>2. T \subseteq FiniteSubsetsOf(S) /\ T # {}
  <2>1. ASSUME NEW i \in S PROVE B[i] \in SUBSET S /\ IsFiniteSet(B[i])
    BY FS_Subset
  <2> QED BY <2>1 DEF FiniteSubsetsOf
<1> HIDE DEF T
<1>3. PICK t \in T : \A u \in T : ~(<<u, t>> \in StrictSubsetOrdering(S))
  BY <1>1, <1>2, WFMin
<1>4. PICK i \in S : t = B[i]
  BY <1>3 DEF T
<1>5. ASSUME NEW j \in S PROVE ~(B[j] \subseteq B[i] /\ B[j] # B[i])
  <2>1. B[j] \in T
    BY DEF T
  <2> QED BY <1>3, <1>4, <2>1 DEF StrictSubsetOrdering
<1> QED BY <1>5

(* A page that is not empty has a last row, whose key LastKey is.              *)
LEMMA LastOfPage ==
    ASSUME mark \in [Ids -> Nat], NEW f, NEW all, NEW page \in SUBSET Ids, page # {}
    PROVE  \E i \in page :
              /\ LastKey(f, all, page) = Key(f, i)
              /\ \A j \in page : j = i \/ Comes(f, Key(f, j), Key(f, i))
<1> DEFINE B == [i \in page |-> {j \in page : Comes(f, Key(f, i), Key(f, j))}]
<1>1. IsFiniteSet(page)
  BY FeedsAssumption, FS_Subset DEF FeedsAssumption
<1>2. PICK i \in page : \A j \in page : ~(B[j] \subseteq B[i] /\ B[j] # B[i])
  <2>1. B \in [page -> SUBSET page]
    OBVIOUS
  <2> HIDE DEF B
  <2> QED BY <1>1, <2>1, Fewest
<1>3. ASSUME NEW j \in page PROVE ~Comes(f, Key(f, i), Key(f, j))
  <2> SUFFICES ASSUME Comes(f, Key(f, i), Key(f, j)) PROVE FALSE
    OBVIOUS
  <2>1. Key(f, i) \in Keys /\ \A l \in page : Key(f, l) \in Keys
    BY KeysOfRows
  <2>2. \A l \in B[j] : l \in B[i]
    BY <2>1, ComesStrict
  <2>3. j \in B[i] /\ j \notin B[j]
    BY <2>1, ComesStrict
  <2>4. B[j] \subseteq B[i] /\ B[j] # B[i]
    BY <2>2, <2>3
  <2> QED BY <1>2, <2>4
<1>4. \A j \in page : j = i \/ Comes(f, Key(f, j), Key(f, i))
  BY <1>3, ComesTotal
<1> DEFINE keys == {Key(f, l) : l \in page}
           isLast(k) == \A j \in page : Key(f, j) = k \/ Comes(f, Key(f, j), k)
<1>5. Key(f, i) \in keys /\ isLast(Key(f, i))
  BY <1>4
<1>6. LastKey(f, all, page) \in keys /\ isLast(LastKey(f, all, page))
  BY <1>5, Zenon DEF LastKey
<1>7. PICK l \in page : LastKey(f, all, page) = Key(f, l)
  BY <1>6
<1>8. \A j \in page : j = l \/ Comes(f, Key(f, j), Key(f, l))
  <2> TAKE j \in page
  <2>1. Key(f, j) = Key(f, l) \/ Comes(f, Key(f, j), Key(f, l))
    BY <1>6, <1>7
  <2> QED BY <2>1, KeysOfRows
<1> QED BY <1>7, <1>8

LEMMA FirstOfSome ==
    ASSUME mark \in [Ids -> Nat], NEW f, NEW S \in SUBSET Ids, S # {}
    PROVE  FirstOf(f, S) # {}
<1> DEFINE B == [i \in S |-> Ahead(f, i, S)]
<1>1. IsFiniteSet(S)
  BY FeedsAssumption, FS_Subset DEF FeedsAssumption
<1>2. PICK i \in S : \A j \in S : ~(B[j] \subseteq B[i] /\ B[j] # B[i])
  <2>1. B \in [S -> SUBSET S]
    BY DEF Ahead
  <2> HIDE DEF B
  <2> QED BY <1>1, <2>1, Fewest
<1>3. ASSUME NEW j \in S PROVE ~Comes(f, Key(f, j), Key(f, i))
  <2> SUFFICES ASSUME Comes(f, Key(f, j), Key(f, i)) PROVE FALSE
    OBVIOUS
  <2>1. Key(f, i) \in Keys /\ \A l \in S : Key(f, l) \in Keys
    BY KeysOfRows
  <2>2. \A l \in B[j] : l \in B[i]
    BY <2>1, ComesStrict DEF Ahead
  <2>3. j \in B[i] /\ j \notin B[j]
    BY <2>1, ComesStrict DEF Ahead
  <2> QED BY <1>2, <2>2, <2>3
<1>4. Ahead(f, i, S) = {}
  BY <1>3 DEF Ahead
<1>5. Cardinality(Ahead(f, i, S)) < PageSize
  BY <1>4, FS_EmptySet, FeedsAssumption DEF FeedsAssumption
<1> QED BY <1>5 DEF FirstOf

(* What a page leaves out comes after its last row.                            *)
LEMMA PageRest ==
    ASSUME mark \in [Ids -> Nat], NEW f, NEW S \in SUBSET Ids, FirstOf(f, S) # S
    PROVE  /\ FirstOf(f, S) # {}
           /\ \A i \in S \ FirstOf(f, S) : Comes(f, LastKey(f, S, FirstOf(f, S)), Key(f, i))
<1> DEFINE P == FirstOf(f, S)
<1>1. P \subseteq S /\ S # {}
  BY DEF FirstOf
<1>2. P # {}
  BY <1>1, FirstOfSome
<1>3. P \in SUBSET Ids
  BY <1>1
<1>4. PICK j \in P : /\ LastKey(f, S, P) = Key(f, j)
  BY <1>2, <1>3, LastOfPage
<1>5. ASSUME NEW i \in S \ P PROVE Comes(f, Key(f, j), Key(f, i))
  <2>1. i \in Ids /\ j \in Ids /\ i # j /\ j \in S
    BY <1>1
  <2> SUFFICES ASSUME Comes(f, Key(f, i), Key(f, j)) PROVE FALSE
    BY <2>1, ComesTotal
  <2>2. Key(f, i) \in Keys /\ Key(f, j) \in Keys /\ \A l \in S : Key(f, l) \in Keys
    BY <2>1, KeysOfRows
  <2>3. Ahead(f, i, S) \subseteq Ahead(f, j, S)
    BY <2>2, ComesStrict DEF Ahead
  <2>4. IsFiniteSet(Ahead(f, j, S))
    BY FeedsAssumption, FS_Subset DEF FeedsAssumption, Ahead
  <2>5. /\ Cardinality(Ahead(f, i, S)) \in Nat
        /\ Cardinality(Ahead(f, j, S)) \in Nat
        /\ Cardinality(Ahead(f, i, S)) <= Cardinality(Ahead(f, j, S))
    BY <2>3, <2>4, FS_Subset, FS_CardinalityType
  <2>6. Cardinality(Ahead(f, j, S)) < PageSize
    BY <2>1, <1>4 DEF FirstOf
  <2>7. ~(Cardinality(Ahead(f, i, S)) < PageSize)
    BY DEF FirstOf
  <2> QED BY <2>5, <2>6, <2>7, FeedsAssumption DEF FeedsAssumption
<1> QED BY <1>2, <1>4, <1>5

(* Places in a list are numbers below its length.                              *)
LEMMA Ranks ==
    ASSUME NEW known, DOMAIN known \subseteq Ids, NEW v \in DOMAIN known,
           known \in [DOMAIN known -> Nat]
    PROVE  /\ Rank(known, v) \in Nat
           /\ Cardinality(DOMAIN known) \in Nat
           /\ Rank(known, v) < Cardinality(DOMAIN known)
<1> DEFINE better == {w \in DOMAIN known : known[w] > known[v]}
           others == DOMAIN known \ {v}
<1>1. IsFiniteSet(DOMAIN known)
  BY FeedsAssumption, FS_Subset DEF FeedsAssumption
<1>2. IsFiniteSet(others) /\ Cardinality(others) = Cardinality(DOMAIN known) - 1
  BY <1>1, FS_RemoveElement
<1>3. better \subseteq others
  OBVIOUS
<1>4. Cardinality(better) \in Nat /\ Cardinality(better) <= Cardinality(others)
  BY <1>2, <1>3, FS_Subset, FS_CardinalityType
<1>5. Cardinality(DOMAIN known) \in Nat /\ Cardinality(others) \in Nat
  BY <1>1, <1>2, FS_CardinalityType
<1> QED BY <1>2, <1>4, <1>5 DEF Rank

----------------------------------------------------------------------------
(* Requests change one at a time.                                              *)

Others(r) == \A q \in Readers \ {r} : reader'[q] = reader[q]

LEMMA Answered ==
    ASSUME reader \in [Readers -> Request], NEW r \in Readers, NEW page \in SUBSET Ids,
           NEW more \in BOOLEAN, NEW cursor \in Keys, NEW offset \in Nat,
           Answer(r, page, more, cursor, offset)
    PROVE  /\ reader' \in [Readers -> Request]
           /\ Others(r)
           /\ reader'[r].feed = reader[r].feed
           /\ reader'[r].at = IF more THEN "more" ELSE "done"
           /\ reader'[r].cursor = cursor
           /\ reader'[r].offset = offset
           /\ reader'[r].listed = reader[r].listed \union page
           /\ reader'[r].twice = (reader[r].twice \/ page \intersect reader[r].listed # {})
           /\ reader'[r].leaked = (reader[r].leaked \/ ~(page \subseteq seen'[r]))
           /\ reader'[r].silent = reader[r].silent
<1> DEFINE place == IF more THEN "more" ELSE "done"
           told == Told(reader[r], page, seen'[r])
           v(R, p) == [R EXCEPT !.at = p, !.cursor = cursor, !.offset = offset,
                                !.page = {}, !.more = FALSE]
<1>1. reader' = [reader EXCEPT ![r] = v(told, place)]
  BY Zenon DEF Answer
<1>2. /\ told \in Request
      /\ told.feed = reader[r].feed
      /\ told.listed = reader[r].listed \union page
      /\ told.twice = (reader[r].twice \/ page \intersect reader[r].listed # {})
      /\ told.leaked = (reader[r].leaked \/ ~(page \subseteq seen'[r]))
      /\ told.silent = reader[r].silent
  <2> DEFINE again == reader[r].twice \/ page \intersect reader[r].listed # {}
             early == reader[r].leaked \/ ~(page \subseteq seen'[r])
  <2>1. told = [reader[r] EXCEPT !.listed = reader[r].listed \union page,
                                 !.twice = again, !.leaked = early]
    BY Zenon DEF Told
  <2>2. again \in BOOLEAN /\ early \in BOOLEAN
    BY DEF Request
  <2>3. reader[r] \in Request
    OBVIOUS
  <2> HIDE DEF again, early, told
  <2>4. /\ told \in Request
        /\ told.feed = reader[r].feed
        /\ told.listed = reader[r].listed \union page
        /\ told.twice = again
        /\ told.leaked = early
        /\ told.silent = reader[r].silent
    BY <2>1, <2>2, <2>3 DEF Request
  <2> QED BY <2>4 DEF again, early
<1>3. ASSUME NEW p \in {"more", "done"}, NEW R \in Request
      PROVE  /\ v(R, p) \in Request
             /\ v(R, p).feed = R.feed /\ v(R, p).at = p
             /\ v(R, p).cursor = cursor /\ v(R, p).offset = offset
             /\ v(R, p).listed = R.listed /\ v(R, p).twice = R.twice
             /\ v(R, p).leaked = R.leaked /\ v(R, p).silent = R.silent
  BY DEF Request, Keys
<1>4. place \in {"more", "done"}
  OBVIOUS
<1> HIDE DEF v, told, place
<1>5. /\ reader'[r] = v(told, place)
      /\ Others(r) /\ reader' \in [Readers -> Request]
  BY <1>1, <1>2, <1>3, <1>4 DEF Others
<1> QED BY <1>2, <1>3, <1>4, <1>5 DEF place

LEMMA Held ==
    ASSUME reader \in [Readers -> Request], NEW r \in Readers, NEW page \in SUBSET Ids,
           NEW more \in BOOLEAN, NEW cursor \in Keys,
           Hold(r, page, more, cursor)
    PROVE  /\ reader' \in [Readers -> Request]
           /\ Others(r)
           /\ reader'[r].feed = reader[r].feed
           /\ reader'[r].at = "between"
           /\ reader'[r].page = page
           /\ reader'[r].more = more
           /\ reader'[r].cursor = cursor
           /\ reader'[r].offset = reader[r].offset
           /\ reader'[r].listed = reader[r].listed
           /\ reader'[r].twice = reader[r].twice
           /\ reader'[r].leaked = reader[r].leaked
           /\ reader'[r].silent = reader[r].silent
<1> DEFINE v == [reader[r] EXCEPT !.at = "between", !.page = page, !.more = more, !.cursor = cursor]
<1>1. reader' = [reader EXCEPT ![r] = v]
  BY DEF Hold
<1>2. /\ v \in Request
      /\ v.feed = reader[r].feed /\ v.at = "between" /\ v.page = page /\ v.more = more
      /\ v.cursor = cursor /\ v.offset = reader[r].offset /\ v.listed = reader[r].listed
      /\ v.twice = reader[r].twice /\ v.leaked = reader[r].leaked /\ v.silent = reader[r].silent
  <2>1. reader[r] \in Request /\ cursor \in Nat \X Nat
    BY DEF Keys
  <2>2. v \in Request
    BY <2>1 DEF Request
  <2>3. /\ v.feed = reader[r].feed /\ v.at = "between" /\ v.page = page /\ v.more = more
        /\ v.cursor = cursor /\ v.offset = reader[r].offset /\ v.listed = reader[r].listed
    BY <2>1 DEF Request
  <2>4. v.twice = reader[r].twice /\ v.leaked = reader[r].leaked /\ v.silent = reader[r].silent
    BY <2>1 DEF Request
  <2> QED BY <2>2, <2>3, <2>4
<1> HIDE DEF v
<1>3. reader'[r] = v /\ Others(r) /\ reader' \in [Readers -> Request]
  BY <1>1, <1>2 DEF Others
<1> QED BY <1>2, <1>3

LEMMA Failed ==
    ASSUME reader \in [Readers -> Request], NEW r \in Readers, Fail(r)
    PROVE  /\ reader' \in [Readers -> Request]
           /\ Others(r)
           /\ reader'[r].feed = reader[r].feed
           /\ reader'[r].at = "failed"
           /\ reader'[r].listed = reader[r].listed
           /\ reader'[r].twice = reader[r].twice
           /\ reader'[r].leaked = reader[r].leaked
           /\ reader'[r].silent = reader[r].silent
<1> DEFINE v == [reader[r] EXCEPT !.at = "failed"]
<1>1. reader' = [reader EXCEPT ![r] = v]
  BY DEF Fail
<1>2. /\ v \in Request /\ v.feed = reader[r].feed /\ v.at = "failed"
      /\ v.listed = reader[r].listed /\ v.twice = reader[r].twice
      /\ v.leaked = reader[r].leaked /\ v.silent = reader[r].silent
  BY DEF Request
<1> HIDE DEF v
<1>3. reader'[r] = v /\ Others(r) /\ reader' \in [Readers -> Request]
  BY <1>1, <1>2 DEF Others
<1> QED BY <1>2, <1>3

----------------------------------------------------------------------------
(* Types.                                                                      *)

(* No mark is younger than now.                                                *)
Marks == clock > 0 /\ \A v \in Ids : mark[v] <= clock

TypeInv == TypeOK /\ Marks

LEMMA RowsTyped ==
    ASSUME NEW f
    PROVE  /\ Rows(f) \subseteq Ids
           /\ Visible(f) \subseteq Rows(f)
           /\ \A cursor : After(f, cursor) \subseteq Rows(f)
           /\ \A S : FirstOf(f, S) \subseteq S
BY DEF Rows, Visible, After, FirstOf, Published, Roots, Live, WithStatus

LEMMA PageTyped ==
    ASSUME TypeOK, NEW r \in Readers
    PROVE  /\ Page(r) \subseteq After(reader[r].feed, reader[r].cursor)
           /\ Page(r) \in SUBSET Ids
           /\ More(r) \in BOOLEAN
           /\ NextKey(r) \in Keys
<1> DEFINE f == reader[r].feed
           all == After(f, reader[r].cursor)
<1>1. all \in SUBSET Ids /\ FirstOf(f, all) \subseteq all
  BY RowsTyped
<1>2. reader[r].cursor \in Keys /\ mark \in [Ids -> Nat]
  BY DEF TypeOK, Request, Keys
<1>3. ASSUME More(r) PROVE LastKey(f, all, FirstOf(f, all)) \in Keys
  <2>1. FirstOf(f, all) # {}
    BY <1>1, <1>2, <1>3, PageRest DEF More, Page
  <2>2. FirstOf(f, all) \in SUBSET Ids
    BY <1>1
  <2>3. PICK i \in FirstOf(f, all) : LastKey(f, all, FirstOf(f, all)) = Key(f, i)
    BY <1>2, <2>1, <2>2, LastOfPage
  <2>4. i \in Ids
    BY <2>2
  <2> QED BY <1>2, <2>3, <2>4, KeysOfRows
<1> QED BY <1>1, <1>2, <1>3 DEF Page, More, NextKey

LEMMA BeganTyped ==
    ASSUME TypeOK, NEW r \in Readers, Began(r)
    PROVE  /\ seen' \in [Readers -> SUBSET Ids]
           /\ throughout' \in [Readers -> SUBSET Ids]
           /\ \A q \in Readers \ {r} : seen'[q] = seen[q] /\ throughout'[q] = throughout[q]
           /\ seen'[r] = Visible(reader[r].feed)
           /\ throughout'[r] = IF reader[r].at = "first" THEN Visible(reader[r].feed) ELSE throughout[r]
           /\ reader[r].at \in {"first", "more"}
<1>1. Visible(reader[r].feed) \in SUBSET Ids
  BY RowsTyped
<1> HIDE DEF Visible
<1> QED BY <1>1 DEF Began, TypeOK

LEMMA HitsTyped ==
    ASSUME NEW known, DOMAIN known \subseteq Ids, NEW offset
    PROVE  HitsAt(known, offset) \in SUBSET Ids /\ MoreAt(known, offset) \in BOOLEAN
BY DEF HitsAt, MoreAt

LEMMA ScoredTyped ==
    ASSUME NEW scoring \in Scorings, NEW members \in SUBSET Ids
    PROVE  /\ DOMAIN Scored(scoring, members) = members
           /\ Scored(scoring, members) \in [members -> Nat]
BY FeedsAssumption DEF FeedsAssumption, Scored

(* What a request leaves alone.                                                *)
LEMMA ReadFrame ==
    ASSUME TypeOK, NEW r \in Readers, Read(r)
    PROVE  /\ UNCHANGED <<rows, stores, moves>>
           /\ reader' \in [Readers -> Request] /\ Others(r)
           /\ reader'[r].feed = reader[r].feed
           /\ seen' \in [Readers -> SUBSET Ids] /\ throughout' \in [Readers -> SUBSET Ids]
           /\ steady' \in [Readers -> BOOLEAN]
           /\ \A q \in Readers \ {r} : /\ seen'[q] = seen[q]
                                       /\ throughout'[q] = throughout[q]
                                       /\ steady'[q] = steady[q]
<1>0. /\ reader \in [Readers -> Request] /\ steady \in [Readers -> BOOLEAN]
      /\ seen \in [Readers -> SUBSET Ids] /\ throughout \in [Readers -> SUBSET Ids]
      /\ reader[r].cursor \in Keys /\ reader[r].page \in SUBSET Ids
      /\ reader[r].more \in BOOLEAN /\ reader[r].offset \in Nat
      /\ NoKey \in Keys /\ reader[r].feed \in Kinds /\ 0 \in Nat
      /\ reader[r].offset + PageSize \in Nat
      /\ {} \in SUBSET Ids
  BY FeedsAssumption DEF FeedsAssumption, TypeOK, Request, NoKey, Keys
<1>1. CASE ListVideos(r)
  BY <1>0, <1>1, PageTyped, BeganTyped, Answered DEF ListVideos, ghosts
<1>2. CASE ListHistory(r)
  BY <1>0, <1>2, PageTyped, BeganTyped, Held DEF ListHistory, ghosts
<1>3. CASE LoadVideos(r)
  BY <1>0, <1>3, Answered DEF LoadVideos, ghosts
<1>4. CASE FindVideo(r)
  <2>1. CASE Hold(r, {}, FALSE, reader[r].cursor)
    <3>1. /\ reader' \in [Readers -> Request] /\ Others(r)
          /\ reader'[r].feed = reader[r].feed
      BY <1>0, <2>1, Held, Zenon
    <3> QED BY <1>0, <1>4, <3>1, BeganTyped DEF FindVideo
  <2>2. CASE Fail(r)
    <3>1. /\ reader' \in [Readers -> Request] /\ Others(r)
          /\ reader'[r].feed = reader[r].feed
      BY <1>0, <2>2, Failed, Zenon
    <3> QED BY <1>0, <1>4, <3>1, BeganTyped DEF FindVideo
  <2> QED BY <1>4, <2>1, <2>2 DEF FindVideo
<1>5. CASE ListComments(r)
  BY <1>0, <1>5, PageTyped, Answered DEF ListComments, ghosts
<1>6. CASE ListRanked(r)
  <2> DEFINE known == list[reader[r].feed]
             offset == reader[r].offset
  <2>1. reader[r].feed \in Ranked /\ Began(r) /\ UNCHANGED <<rows, stores, moves>>
    BY <1>6 DEF ListRanked
  <2>2. DOMAIN known \subseteq Ids
    BY <2>1 DEF TypeOK
  <2>3. CASE AnswerFromRows(r)
    <3>1. PICK scoring \in Scorings :
              LET scored == Scored(scoring, Published)
              IN  /\ Answer(r, HitsAt(scored, offset), MoreAt(scored, offset), NoKey, offset + PageSize)
                  /\ steady' = [steady EXCEPT ![r] = FALSE]
      BY <2>3 DEF AnswerFromRows
    <3> DEFINE scored == Scored(scoring, Published)
    <3>2. Published \in SUBSET Ids
      BY DEF Published, WithStatus
    <3>3. HitsAt(scored, offset) \in SUBSET Ids /\ MoreAt(scored, offset) \in BOOLEAN
      BY <3>2, ScoredTyped, HitsTyped
    <3>4. Answer(r, HitsAt(scored, offset), MoreAt(scored, offset), NoKey, offset + PageSize)
      BY <3>1
    <3> HIDE DEF scored, offset
    <3>5. /\ reader' \in [Readers -> Request] /\ Others(r)
          /\ reader'[r].feed = reader[r].feed
      BY <1>0, <3>3, <3>4, Answered DEF offset
    <3>6. steady' \in [Readers -> BOOLEAN] /\ \A q \in Readers \ {r} : steady'[q] = steady[q]
      BY <1>0, <3>1
    <3> QED BY <2>1, <3>5, <3>6, BeganTyped
  <2>4. CASE Hold(r, HitsAt(known, offset), MoreAt(known, offset), NoKey) /\ UNCHANGED steady
    <3>1. HitsAt(known, offset) \in SUBSET Ids /\ MoreAt(known, offset) \in BOOLEAN
      BY <2>2, HitsTyped
    <3>2. Hold(r, HitsAt(known, offset), MoreAt(known, offset), NoKey)
      BY <2>4
    <3> HIDE DEF known, offset
    <3>a. PICK hits \in SUBSET Ids, more \in BOOLEAN : Hold(r, hits, more, NoKey)
      BY <3>1, <3>2
    <3>3. /\ reader' \in [Readers -> Request] /\ Others(r)
          /\ reader'[r].feed = reader[r].feed
      BY <1>0, <3>a, Held
    <3> QED BY <1>0, <2>1, <2>4, <3>3, BeganTyped
  <2> QED BY <1>6, <2>3, <2>4 DEF ListRanked
<1>7. CASE FindPublishedVideosInOrder(r)
  <2>1. StillPublished(reader[r].page) \in SUBSET Ids
    BY <1>0 DEF StillPublished
  <2>2. /\ Answer(r, StillPublished(reader[r].page), reader[r].more, NoKey,
                  reader[r].offset + PageSize)
        /\ UNCHANGED <<rows, stores, moves, ghosts>>
    BY <1>7 DEF FindPublishedVideosInOrder
  <2>3. /\ reader' \in [Readers -> Request] /\ Others(r)
        /\ reader'[r].feed = reader[r].feed
    <3> DEFINE page == StillPublished(reader[r].page)
               more == reader[r].more
               next == reader[r].offset + PageSize
    <3>1. /\ page \in SUBSET Ids /\ more \in BOOLEAN /\ next \in Nat
          /\ Answer(r, page, more, NoKey, next)
      BY <1>0, <2>1, <2>2
    <3> HIDE DEF page, more, next
    <3> QED BY <1>0, <3>1, Answered
  <2> QED BY <1>0, <2>2, <2>3 DEF ghosts
<1>8. CASE FindRow(r)
  <2>1. PICK v \in Ids :
            IF v \notin Rows(reader[r].feed) THEN Fail(r)
            ELSE IF reader[r].feed = "upload_status" /\ ~LookedUp(v)
                 THEN Answer(r, {v}, FALSE, NoKey, 0)
            ELSE Hold(r, {v}, FALSE, NoKey)
    BY <1>8 DEF FindRow
  <2>2. /\ Began(r) /\ UNCHANGED <<rows, stores, moves, steady>>
    BY <1>8 DEF FindRow
  <2>3. {v} \in SUBSET Ids
    OBVIOUS
  <2>4. Fail(r) \/ Answer(r, {v}, FALSE, NoKey, 0) \/ Hold(r, {v}, FALSE, NoKey)
    BY <2>1
  <2>5. /\ reader' \in [Readers -> Request] /\ Others(r)
        /\ reader'[r].feed = reader[r].feed
    <3>1. CASE Fail(r)
      BY <1>0, <3>1, Failed, Zenon
    <3>2. CASE Answer(r, {v}, FALSE, NoKey, 0)
      BY <1>0, <2>3, <3>2, Answered, Zenon
    <3>3. CASE Hold(r, {v}, FALSE, NoKey)
      BY <1>0, <2>3, <3>3, Held, Zenon
    <3> QED BY <2>4, <3>1, <3>2, <3>3
  <2> QED BY <1>0, <2>2, <2>5, BeganTyped
<1>9. CASE FindStreams(r)
  <2> DEFINE none == \A v \in reader[r].page : ~HasStreams(v)
             done(b) == [reader[r] EXCEPT !.at = "done", !.page = {}, !.listed = reader[r].page,
                                          !.silent = b]
  <2>1. reader' = [reader EXCEPT ![r] = done(none)]
    BY <1>9, Zenon DEF FindStreams
  <2>2. ASSUME NEW b \in BOOLEAN PROVE done(b) \in Request /\ done(b).feed = reader[r].feed
    <3>1. reader[r] \in Request
      BY <1>0
    <3> QED BY <3>1 DEF Request
  <2>3. none \in BOOLEAN /\ UNCHANGED <<rows, stores, moves, ghosts>>
    BY <1>9 DEF FindStreams
  <2> HIDE DEF none, done
  <2>4. /\ reader'[r] = done(none) /\ Others(r) /\ reader' \in [Readers -> Request]
    BY <1>0, <2>1, <2>2, <2>3 DEF Others
  <2> QED BY <1>0, <2>2, <2>3, <2>4 DEF ghosts
<1> QED BY <1>1, <1>2, <1>3, <1>4, <1>5, <1>6, <1>7, <1>8, <1>9 DEF Read

LEMMA RowsTypedNext ==
    ASSUME NEW f
    PROVE  Rows(f)' \subseteq Ids /\ Visible(f)' \subseteq Rows(f)'
BY DEF Rows, Visible, Published, Roots, Live, WithStatus

LEMMA Observed ==
    ASSUME TypeOK, Observe
    PROVE  /\ reader' = reader
           /\ seen' \in [Readers -> SUBSET Ids]
           /\ throughout' \in [Readers -> SUBSET Ids]
           /\ \A r \in Readers :
                 /\ seen'[r] = seen[r] \union Visible(reader[r].feed)'
                 /\ throughout'[r] \subseteq throughout[r] \intersect Visible(reader[r].feed)'
                 /\ \A i \in throughout'[r] : Key(reader[r].feed, i)' = Key(reader[r].feed, i)
<1>1. \A r \in Readers : Visible(reader[r].feed)' \subseteq Ids
  BY RowsTypedNext DEF Observe
<1>2. reader' = reader
  BY DEF Observe
<1> HIDE DEF Visible, Key
<1>3. seen' \in [Readers -> SUBSET Ids]
  BY <1>1, <1>2 DEF Observe, TypeOK
<1>4. throughout' \in [Readers -> SUBSET Ids]
  BY <1>1, <1>2 DEF Observe, TypeOK
<1> QED BY <1>2, <1>3, <1>4 DEF Observe

(* What the rows do, from the point of view of the requests: they change, or   *)
(* only the lists do.                                                          *)
LEMMA ChangeStep ==
    ASSUME TypeInv, Change
    PROVE  TypeInv' /\ reader' = reader
<1> USE FeedsAssumption DEF FeedsAssumption
<1>0. moves' \in 0 .. MaxMoves \/ ~Move
  BY DEF TypeInv, TypeOK, Move
<1>1. ASSUME NEW v \in Ids, ChangeStatus(v) PROVE TypeInv' /\ reader' = reader
  <2>1. PICK to \in Statuses : status' = [status EXCEPT ![v] = to]
    <3>1. PICK to \in {m[2] : m \in {n \in StatusMoves : n[1] = status[v]}} \union {"deleted"} :
              status' = [status EXCEPT ![v] = to]
      BY <1>1, Zenon DEF ChangeStatus
    <3>2. \A m \in StatusMoves : m[2] \in Statuses
      BY DEF StatusMoves, Statuses
    <3>3. to \in Statuses
      BY <3>2 DEF Statuses
    <3> QED BY <3>1, <3>3
  <2>2. status' \in [Ids -> Statuses]
    BY <2>1 DEF TypeInv, TypeOK
  <2> QED BY <1>0, <1>1, <2>2, Observed DEF ChangeStatus, TypeInv, TypeOK, Marks, stores
<1>2. ASSUME NEW v \in Ids, SetMark(v) PROVE TypeInv' /\ reader' = reader
  <2>1. clock' \in Nat /\ clock' >= clock
    BY <1>2 DEF SetMark, TypeInv, TypeOK
  <2>2. mark' \in [Ids -> Nat] /\ \A w \in Ids : mark'[w] <= clock'
    BY <1>2, <2>1 DEF SetMark, TypeInv, TypeOK, Marks
  <2> QED BY <1>0, <1>2, <2>1, <2>2, Observed DEF SetMark, TypeInv, TypeOK, Marks, stores
<1>3. ASSUME NEW v \in Ids, ClearMark(v) PROVE TypeInv' /\ reader' = reader
  <2>1. mark' \in [Ids -> Nat] /\ \A w \in Ids : mark'[w] <= clock
    BY <1>3 DEF ClearMark, TypeInv, TypeOK, Marks
  <2> QED BY <1>0, <1>3, <2>1, Observed DEF ClearMark, TypeInv, TypeOK, Marks, stores
<1>4. ASSUME NEW c \in Ids, CreateVideoComment(c) PROVE TypeInv' /\ reader' = reader
  BY <1>0, <1>4, Observed DEF CreateVideoComment, TypeInv, TypeOK, Marks, stores
<1>5. ASSUME NEW c \in Ids, DeleteVideoComment(c) PROVE TypeInv' /\ reader' = reader
  BY <1>0, <1>5, Observed DEF DeleteVideoComment, TypeInv, TypeOK, Marks, stores
<1>6. ASSUME Reindex PROVE TypeInv' /\ reader' = reader
  <2>1. PICK scoring \in Scorings, known \in {Ids, Published} :
            list' = [list EXCEPT !["search"] = Scored(scoring, known)]
    BY <1>6 DEF Reindex
  <2>2. known \in SUBSET Ids
    BY DEF Published, WithStatus
  <2>3. DOMAIN list' = Ranked
    BY <2>1 DEF TypeInv, TypeOK
  <2>4. ASSUME NEW f \in Ranked
        PROVE  DOMAIN list'[f] \subseteq Ids /\ list'[f] \in [DOMAIN list'[f] -> Nat]
    <3>1. CASE f = "search"
      <4>1. list'[f] = Scored(scoring, known)
        BY <2>1, <3>1 DEF TypeInv, TypeOK, Ranked
      <4>2. DOMAIN Scored(scoring, known) = known /\ Scored(scoring, known) \in [known -> Nat]
        BY <2>2, ScoredTyped
      <4> QED BY <2>2, <4>1, <4>2
    <3>2. CASE f # "search"
      BY <2>1, <3>2 DEF TypeInv, TypeOK
    <3> QED BY <3>1, <3>2
  <2>5. steady' \in [Readers -> BOOLEAN]
    BY <1>6 DEF Reindex, Disturb, TypeInv, TypeOK
  <2> QED BY <1>0, <1>6, <2>3, <2>4, <2>5 DEF Reindex, TypeInv, TypeOK, Marks, rows
<1>7. ASSUME FailOrRecover PROVE TypeInv' /\ reader' = reader
  <2>1. steady' \in [Readers -> BOOLEAN]
    BY <1>7 DEF FailOrRecover, Disturb, TypeInv, TypeOK
  <2> QED BY <1>0, <1>7, <2>1 DEF FailOrRecover, TypeInv, TypeOK, Marks, rows
<1> QED BY <1>1, <1>2, <1>3, <1>4, <1>5, <1>6, <1>7 DEF Change

LEMMA RefreshStep ==
    ASSUME TypeInv, RefreshReads \/ RefreshStores
    PROVE  TypeInv' /\ UNCHANGED <<rows, moves, reader, seen, throughout>>
<1>1. CASE RefreshReads
  <2>1. refresher' \subseteq SUBSET Ids
    BY <1>1 DEF RefreshReads, Published, WithStatus
  <2> QED BY <1>1, <2>1 DEF RefreshReads, TypeInv, TypeOK, Marks, rows, ghosts
<1>2. CASE RefreshStores
  <2>1. PICK scoring \in Scorings, members \in refresher :
            list' = IF up THEN [list EXCEPT !["recommended"] = Scored(scoring, members)] ELSE list
    BY <1>2 DEF RefreshStores
  <2>2. members \in SUBSET Ids
    BY <2>1 DEF TypeInv, TypeOK
  <2>3. DOMAIN list' = Ranked
    BY <2>1 DEF TypeInv, TypeOK
  <2>4. ASSUME NEW f \in Ranked
        PROVE  DOMAIN list'[f] \subseteq Ids /\ list'[f] \in [DOMAIN list'[f] -> Nat]
    <3>1. CASE f = "recommended" /\ up
      <4>1. list'[f] = Scored(scoring, members)
        BY <2>1, <3>1 DEF TypeInv, TypeOK, Ranked
      <4>2. DOMAIN Scored(scoring, members) = members /\ Scored(scoring, members) \in [members -> Nat]
        BY <2>2, ScoredTyped
      <4> QED BY <2>2, <4>1, <4>2
    <3>2. CASE f # "recommended" \/ ~up
      BY <2>1, <3>2 DEF TypeInv, TypeOK
    <3> QED BY <3>1, <3>2
  <2>5. steady' \in [Readers -> BOOLEAN]
    BY <1>2 DEF RefreshStores, Disturb, TypeInv, TypeOK
  <2> QED BY <1>2, <2>3, <2>4, <2>5 DEF RefreshStores, TypeInv, TypeOK, Marks, rows
<1> QED BY <1>1, <1>2

LEMMA TypeStep == TypeInv /\ [Next]_vars => TypeInv'
<1> SUFFICES ASSUME TypeInv, [Next]_vars PROVE TypeInv'
  OBVIOUS
<1>1. ASSUME NEW r \in Readers, Read(r) PROVE TypeInv'
  BY <1>1, ReadFrame DEF TypeInv, TypeOK, Marks, rows, stores
<1>2. CASE UNCHANGED vars
  BY <1>2 DEF vars, rows, stores, ghosts, TypeInv, TypeOK, Marks
<1> QED BY <1>1, <1>2, ChangeStep, RefreshStep DEF Next

LEMMA TypeInit == Init => TypeInv
<1> SUFFICES ASSUME Init PROVE TypeInv
  OBVIOUS
<1>1. status \in [Ids -> Statuses] /\ MaxMoves \in Nat
  BY FeedsAssumption DEF FeedsAssumption, Init
<1>2. reader \in [Readers -> Request]
  <2>1. NoKey \in Nat \X Nat
    BY DEF NoKey
  <2>2. \A f \in Kinds :
            [feed |-> f, at |-> "first", cursor |-> NoKey, offset |-> 0, page |-> {},
             more |-> FALSE, listed |-> {}, twice |-> FALSE, leaked |-> FALSE, silent |-> FALSE]
                \in Request
    BY <2>1 DEF Request
  <2> QED BY <2>2 DEF Init
<1>3. PICK scoring \in Scorings : list = [f \in Ranked |-> Scored(scoring, Published)]
  BY DEF Init
<1>4. \A f \in Ranked : DOMAIN list[f] \subseteq Ids /\ list[f] \in [DOMAIN list[f] -> Nat]
  <2>1. Published \in SUBSET Ids
    BY DEF Published, WithStatus
  <2> QED BY <1>3, <2>1, ScoredTyped
<1>5. DOMAIN list = Ranked
  BY <1>3
<1> QED BY <1>1, <1>2, <1>4, <1>5 DEF Init, TypeInv, TypeOK, Marks

LEMMA TypeInvHolds == Spec => []TypeInv
BY TypeInit, TypeStep, PTL DEF Spec

(* The variables keep their types.                                             *)
THEOREM TypeCorrect == Spec => []TypeOK
BY TypeInvHolds, PTL DEF TypeInv

----------------------------------------------------------------------------
(* What is returned could be seen.                                             *)

Histories == {"history", "comment_history"}
Threads == {"comments", "replies"}

(* Between its statements a request has seen whatever can be seen; the page of *)
(* a history was seen, and a thread has seen its rows even if their video is   *)
(* gone: without the video they do not change.                                 *)
View(r) ==
    LET R == reader[r] IN
    /\ ~R.leaked
    /\ R.at = "between" =>
          /\ Visible(R.feed) \subseteq seen[r]
          /\ R.feed \in Histories \union Queries => R.page \subseteq seen[r]
          /\ R.feed \in Threads => Rows(R.feed) \subseteq seen[r]

ViewInv == \A r \in Readers : View(r)

LEMMA RowsSame ==
    ASSUME UNCHANGED rows
    PROVE  /\ Published' = Published
           /\ \A f : /\ Rows(f)' = Rows(f)
                     /\ Visible(f)' = Visible(f)
                     /\ \A cursor : After(f, cursor)' = After(f, cursor)
                     /\ \A i : Key(f, i)' = Key(f, i)
BY DEF rows, Rows, Visible, After, Key, Published, Roots, Live, WithStatus

LEMMA ViewOthers ==
    ASSUME TypeInv, ViewInv, NEW r \in Readers, Read(r), NEW q \in Readers \ {r}
    PROVE  View(q)'
<1>1. reader'[q] = reader[q] /\ seen'[q] = seen[q] /\ UNCHANGED rows
  BY ReadFrame DEF TypeInv, Others
<1>2. View(q)
  BY DEF ViewInv
<1> HIDE DEF Rows, Visible
<1> QED BY <1>1, <1>2, RowsSame DEF View

LEMMA Commented ==
    ASSUME Home \in Published
    PROVE  \A f : Visible(f) = Rows(f)
BY DEF Visible

LEMMA PlainVisible ==
    ASSUME NEW f, f \notin Threads
    PROVE  Visible(f) = Rows(f)
BY DEF Visible, Threads

(* An answer or a failure of a request whose rows were seen.                   *)
LEMMA AnsweredView ==
    ASSUME TypeInv, ViewInv, NEW r \in Readers, NEW page \in SUBSET Ids, NEW more \in BOOLEAN,
           NEW cursor \in Keys, NEW offset \in Nat,
           Answer(r, page, more, cursor, offset), page \subseteq seen'[r]
    PROVE  View(r)'
<1>1. reader'[r].at # "between" /\ (reader'[r].leaked = (reader[r].leaked \/ ~(page \subseteq seen'[r])))
  BY Answered DEF TypeInv, TypeOK
<1>2. ~reader[r].leaked
  BY DEF ViewInv, View
<1> QED BY <1>1, <1>2 DEF View

(* A request between two statements whose rows were seen.                      *)
LEMMA HeldView ==
    ASSUME ViewInv, NEW r \in Readers, NEW f, f = reader[r].feed, UNCHANGED rows,
           reader'[r].feed = f, reader'[r].leaked = reader[r].leaked,
           Visible(f) \subseteq seen'[r],
           f \in Histories \union Queries => reader'[r].page \subseteq seen'[r],
           f \in Threads => Rows(f) \subseteq seen'[r]
    PROVE  View(r)'
<1>1. Visible(reader[r].feed)' = Visible(f) /\ Rows(reader[r].feed)' = Rows(f)
  BY RowsSame
<1>2. ~reader[r].leaked
  BY DEF ViewInv, View
<1> HIDE DEF Rows, Visible
<1> QED BY <1>1, <1>2 DEF View

LEMMA ViewOwn ==
    ASSUME TypeInv, ViewInv, NEW r \in Readers, Read(r)
    PROVE  View(r)'
<1>a. PICK f : f = reader[r].feed
  OBVIOUS
<1>0. /\ reader \in [Readers -> Request] /\ View(r)
      /\ reader[r].cursor \in Keys /\ reader[r].page \in SUBSET Ids
      /\ reader[r].more \in BOOLEAN /\ reader[r].offset \in Nat
      /\ NoKey \in Keys /\ 0 \in Nat /\ reader[r].offset + PageSize \in Nat
      /\ {} \in SUBSET Ids
      /\ TypeOK
  BY FeedsAssumption DEF FeedsAssumption, TypeInv, TypeOK, Request, NoKey, Keys, ViewInv
<1>1. UNCHANGED rows /\ reader'[r].feed = f
  BY <1>0, <1>a, ReadFrame
<1>2. /\ Page(r) \in SUBSET Ids /\ Page(r) \subseteq Rows(f)
      /\ More(r) \in BOOLEAN /\ NextKey(r) \in Keys
  BY <1>0, <1>a, PageTyped, RowsTyped
<1>4. CASE ListVideos(r)
  <2>1. seen'[r] = Visible(f) /\ f \notin Threads
    BY <1>a, <1>0, <1>4, BeganTyped DEF ListVideos, Threads
  <2>2. Page(r) \subseteq seen'[r]
    BY <1>2, <2>1, PlainVisible
  <2>3. Answer(r, Page(r), More(r), NextKey(r), 0)
    BY <1>4 DEF ListVideos
  <2> QED BY <1>0, <1>2, <2>2, <2>3, AnsweredView, Zenon
<1>5. CASE ListHistory(r)
  <2>1. seen'[r] = Visible(f) /\ f \in Histories
    BY <1>a, <1>0, <1>5, BeganTyped DEF ListHistory, Histories
  <2>2. Page(r) \subseteq seen'[r]
    BY <1>2, <2>1, PlainVisible DEF Histories, Threads
  <2>3. Hold(r, Page(r), More(r), NextKey(r))
    BY <1>5 DEF ListHistory
  <2>4. reader'[r].page = Page(r) /\ reader'[r].leaked = reader[r].leaked
    BY <1>0, <1>2, <2>3, Held
  <2> QED BY <1>1, <1>a, <2>1, <2>2, <2>4, HeldView DEF Histories, Threads
<1>6. CASE LoadVideos(r)
  <2>1. /\ f \in Histories /\ reader[r].at = "between" /\ seen' = seen
        /\ Answer(r, reader[r].page, reader[r].more, reader[r].cursor, 0)
    BY <1>a, <1>6 DEF LoadVideos, Histories, ghosts
  <2>2. reader[r].page \subseteq seen'[r]
    BY <1>a, <1>0, <2>1 DEF View
  <2> QED BY <1>0, <2>1, <2>2, AnsweredView
<1>7. CASE FindVideo(r)
  <2>1. seen'[r] = Visible(f) /\ f \in Threads
    BY <1>a, <1>0, <1>7, BeganTyped DEF FindVideo, Threads
  <2>2. CASE Home \in Published
    <3>1. Hold(r, {}, FALSE, reader[r].cursor)
      BY <1>7, <2>2 DEF FindVideo
    <3>2. reader'[r].page = {} /\ reader'[r].leaked = reader[r].leaked
      BY <1>0, <3>1, Held, Zenon
    <3>3. Rows(f) = seen'[r]
      BY <2>1, <2>2, Commented
    <3> QED BY <1>1, <1>a, <2>1, <3>2, <3>3, HeldView
  <2>3. CASE Home \notin Published
    <3>1. Fail(r)
      BY <1>7, <2>3 DEF FindVideo
    <3>2. reader'[r].at = "failed" /\ reader'[r].leaked = reader[r].leaked
      BY <1>0, <3>1, Failed, Zenon
    <3> QED BY <1>0, <3>2 DEF View
  <2> QED BY <2>2, <2>3
<1>8. CASE ListComments(r)
  <2>1. /\ f \in Threads /\ reader[r].at = "between" /\ seen' = seen
        /\ Answer(r, Page(r), More(r), NextKey(r), 0)
    BY <1>a, <1>8 DEF ListComments, Threads, ghosts
  <2>2. Page(r) \subseteq seen'[r]
    BY <1>a, <1>0, <1>2, <2>1 DEF View
  <2> QED BY <1>0, <1>2, <2>1, <2>2, AnsweredView, Zenon
<1>9. CASE ListRanked(r)
  <2> DEFINE known == list[reader[r].feed]
             offset == reader[r].offset
  <2>1. seen'[r] = Visible(f) /\ f \in Ranked
    BY <1>a, <1>0, <1>9, BeganTyped DEF ListRanked
  <2>2. Visible(f) = Published /\ f \notin Histories \union Queries \union Threads
    BY <2>1, PlainVisible DEF Threads, Ranked, Histories, Queries, Rows
  <2>3. CASE AnswerFromRows(r)
    <3>1. PICK scoring \in Scorings :
              LET scored == Scored(scoring, Published)
              IN  Answer(r, HitsAt(scored, offset), MoreAt(scored, offset), NoKey, offset + PageSize)
      BY <2>3 DEF AnswerFromRows
    <3> DEFINE scored == Scored(scoring, Published)
    <3>2. Published \in SUBSET Ids
      BY DEF Published, WithStatus
    <3>3. DOMAIN scored = Published
      BY <3>2, ScoredTyped
    <3>4. /\ HitsAt(scored, offset) \in SUBSET Ids /\ MoreAt(scored, offset) \in BOOLEAN
          /\ HitsAt(scored, offset) \subseteq seen'[r]
      BY <2>1, <2>2, <3>2, <3>3 DEF HitsAt, MoreAt
    <3>5. Answer(r, HitsAt(scored, offset), MoreAt(scored, offset), NoKey, offset + PageSize)
      BY <3>1
    <3> HIDE DEF scored, offset
    <3> QED BY <1>0, <3>4, <3>5, AnsweredView DEF offset
  <2>4. CASE Hold(r, HitsAt(known, offset), MoreAt(known, offset), NoKey)
    <3>1. HitsAt(known, offset) \in SUBSET Ids /\ MoreAt(known, offset) \in BOOLEAN
      BY <1>a, <1>0, <2>1, HitsTyped DEF TypeOK
    <3> HIDE DEF known, offset
    <3>a. PICK hits \in SUBSET Ids, more \in BOOLEAN : Hold(r, hits, more, NoKey)
      BY <2>4, <3>1
    <3>2. reader'[r].leaked = reader[r].leaked
      BY <1>0, <3>a, Held
    <3> QED BY <1>1, <1>a, <2>1, <2>2, <3>2, HeldView
  <2> QED BY <1>9, <2>3, <2>4 DEF ListRanked
<1>10. CASE FindPublishedVideosInOrder(r)
  <2> DEFINE page == StillPublished(reader[r].page)
             next == reader[r].offset + PageSize
  <2>1. /\ f \in Ranked /\ reader[r].at = "between" /\ seen' = seen
        /\ Answer(r, page, reader[r].more, NoKey, next)
    BY <1>a, <1>10 DEF FindPublishedVideosInOrder, ghosts
  <2>2. Visible(f) = Published
    BY <2>1, PlainVisible DEF Threads, Ranked, Rows
  <2>3. page \in SUBSET Ids /\ page \subseteq seen'[r]
    BY <1>a, <1>0, <2>1, <2>2 DEF View, StillPublished
  <2> HIDE DEF page, next
  <2> QED BY <1>0, <2>1, <2>3, AnsweredView DEF next
<1>11. CASE FindRow(r)
  <2>1. PICK v \in Ids :
            IF v \notin Rows(reader[r].feed) THEN Fail(r)
            ELSE IF reader[r].feed = "upload_status" /\ ~LookedUp(v)
                 THEN Answer(r, {v}, FALSE, NoKey, 0)
            ELSE Hold(r, {v}, FALSE, NoKey)
    BY <1>11 DEF FindRow
  <2>2. seen'[r] = Visible(f) /\ f \in Queries
    BY <1>a, <1>0, <1>11, BeganTyped DEF FindRow
  <2>3. {v} \in SUBSET Ids /\ Visible(f) = Rows(f)
    BY <2>2, PlainVisible DEF Queries, Threads
  <2>4. CASE Fail(r)
    <3>1. reader'[r].at = "failed" /\ reader'[r].leaked = reader[r].leaked
      BY <1>0, <2>4, Failed, Zenon
    <3> QED BY <1>0, <3>1 DEF View
  <2>5. CASE v \in Rows(f) /\ Answer(r, {v}, FALSE, NoKey, 0)
    <3>1. {v} \subseteq seen'[r]
      BY <2>2, <2>3, <2>5
    <3> QED BY <1>0, <2>3, <2>5, <3>1, AnsweredView, Zenon
  <2>6. CASE v \in Rows(f) /\ Hold(r, {v}, FALSE, NoKey)
    <3>1. reader'[r].page = {v} /\ reader'[r].leaked = reader[r].leaked
      BY <1>0, <2>3, <2>6, Held, Zenon
    <3> QED BY <1>1, <1>a, <2>2, <2>3, <2>6, <3>1, HeldView DEF Queries, Threads
  <2> QED BY <1>a, <2>1, <2>4, <2>5, <2>6
<1>12. CASE FindStreams(r)
  <2>1. reader'[r].at = "done" /\ reader'[r].leaked = reader[r].leaked
    BY <1>0, <1>12 DEF FindStreams, Request
  <2> QED BY <1>0, <2>1 DEF View
<1> QED BY <1>4, <1>5, <1>6, <1>7, <1>8, <1>9, <1>10, <1>11, <1>12 DEF Read

(* A change is one of rows, which every request observes, or one of the lists, *)
(* of which no request learns.  The comments change only while their video can *)
(* be seen.                                                                    *)
LEMMA RowsMove ==
    ASSUME Change \/ RefreshReads \/ RefreshStores
    PROVE  \/ UNCHANGED <<rows, reader, seen, throughout>>
           \/ /\ Observe /\ UNCHANGED <<list, steady>>
              /\ UNCHANGED comment \/ (UNCHANGED Published /\ Home \in Published)
<1>1. ASSUME NEW v \in Ids, ChangeStatus(v) \/ SetMark(v) \/ ClearMark(v)
      PROVE  Observe /\ UNCHANGED <<list, steady>> /\ UNCHANGED comment
  BY <1>1 DEF ChangeStatus, SetMark, ClearMark, stores
<1>2. ASSUME NEW c \in Ids, CreateVideoComment(c) \/ DeleteVideoComment(c)
      PROVE  Observe /\ UNCHANGED <<list, steady>> /\ UNCHANGED Published /\ Home \in Published
  BY <1>2 DEF CreateVideoComment, DeleteVideoComment, stores, Published, WithStatus
<1>3. CASE Reindex \/ FailOrRecover \/ RefreshReads \/ RefreshStores
  BY <1>3 DEF Reindex, FailOrRecover, RefreshReads, RefreshStores, rows, ghosts
<1> QED BY <1>1, <1>2, <1>3 DEF Change

LEMMA ViewStaysPut ==
    ASSUME ViewInv, UNCHANGED <<rows, reader, seen>>
    PROVE  ViewInv'
<1> SUFFICES ASSUME NEW r \in Readers PROVE View(r)'
  BY DEF ViewInv
<1>1. View(r)
  BY DEF ViewInv
<1> HIDE DEF Rows, Visible
<1> QED BY <1>1, RowsSame DEF View

LEMMA ViewObserved ==
    ASSUME TypeInv, ViewInv, Observe,
           UNCHANGED comment \/ (UNCHANGED Published /\ Home \in Published)
    PROVE  ViewInv'
<1> SUFFICES ASSUME NEW r \in Readers PROVE View(r)'
  BY DEF ViewInv
<1>1. View(r) /\ reader' = reader /\ seen'[r] = seen[r] \union Visible(reader[r].feed)'
  BY Observed DEF ViewInv, TypeInv
<1>2. ASSUME reader[r].at = "between", reader[r].feed \in Threads
      PROVE  Rows(reader[r].feed)' \subseteq seen'[r]
  <2>1. CASE UNCHANGED comment
    <3>1. Rows(reader[r].feed)' = Rows(reader[r].feed)
      BY <1>1, <1>2, <2>1 DEF Rows, Threads, Roots, Live
    <3> QED BY <1>1, <1>2, <3>1 DEF View
  <2>2. CASE UNCHANGED Published /\ Home \in Published
    <3>1. Visible(reader[r].feed)' = Rows(reader[r].feed)'
      BY <2>2 DEF Visible
    <3> QED BY <1>1, <3>1
  <2> QED BY <2>1, <2>2
<1> HIDE DEF Rows, Visible
<1> QED BY <1>1, <1>2 DEF View

LEMMA ViewStep == TypeInv /\ ViewInv /\ [Next]_vars => ViewInv'
<1> SUFFICES ASSUME TypeInv, ViewInv, [Next]_vars PROVE ViewInv'
  OBVIOUS
<1>1. ASSUME NEW r \in Readers, Read(r) PROVE ViewInv'
  BY <1>1, ViewOwn, ViewOthers DEF ViewInv
<1>2. CASE Change \/ RefreshReads \/ RefreshStores
  BY <1>2, RowsMove, ViewStaysPut, ViewObserved
<1>3. CASE UNCHANGED vars
  BY <1>3, ViewStaysPut DEF vars, ghosts
<1> QED BY <1>1, <1>2, <1>3 DEF Next

LEMMA ViewInit == Init => ViewInv
BY DEF Init, ViewInv, View

LEMMA ViewHolds == Spec => []ViewInv
BY TypeInvHolds, ViewInit, ViewStep, PTL DEF Spec

(* No answer has a row that could not be seen at any moment of its request,    *)
(* however far the ranking and the index are behind (the conditions of the     *)
(* listings, findPublishedVideosInOrder).                                      *)
THEOREM VisibleAlways == Spec => []VisibleWhenListed
<1>1. ViewInv => VisibleWhenListed
  BY DEF ViewInv, View, VisibleWhenListed
<1> QED BY <1>1, ViewHolds, PTL

----------------------------------------------------------------------------
(* Playback has its streams.                                                   *)

(* A row that was found has streams until it is deleted; an answer without any *)
(* is the last of its query, which has one page.                               *)
Served(v) == HasStreams(v) \/ status[v] = "deleted"

Stream(r) ==
    LET R == reader[r] IN
    /\ R.at = "between" /\ R.feed \in Queries => \A v \in R.page : Served(v)
    /\ R.silent => R.at = "done" /\ \A v \in R.listed : status[v] = "deleted"
    /\ R.feed \in Queries => /\ ~R.twice /\ R.at # "more"
                             /\ R.at = "first" => R.listed = {}

StreamInv == \A r \in Readers : Stream(r)

(* A status with streams is left for another one or for deletion, which is     *)
(* final.                                                                      *)
LEMMA ServedStays ==
    ASSUME TypeOK, Change \/ UNCHANGED status, NEW v \in Ids
    PROVE  /\ Served(v) => Served(v)'
           /\ status[v] = "deleted" => status'[v] = "deleted"
<1>1. CASE UNCHANGED status
  BY <1>1 DEF Served, HasStreams
<1>2. ASSUME NEW w \in Ids, ChangeStatus(w)
      PROVE  /\ Served(v) => Served(v)'
             /\ status[v] = "deleted" => status'[v] = "deleted"
  <2>1. PICK to \in {m[2] : m \in {n \in StatusMoves : n[1] = status[w]}} \union {"deleted"} :
            status' = [status EXCEPT ![w] = to]
    BY <1>2, Zenon DEF ChangeStatus
  <2>2. \A m \in StatusMoves : /\ m[1] # "deleted"
                               /\ m[1] \in {"ready", "pending_review", "published", "rejected"}
                                    => m[2] \in {"ready", "pending_review", "published", "rejected"}
    BY DEF StatusMoves
  <2>3. /\ status[w] = "deleted" => to = "deleted"
        /\ HasStreams(w) => to \in {"ready", "pending_review", "published", "rejected", "deleted"}
    BY <2>1, <2>2 DEF HasStreams
  <2>4. status \in [Ids -> Statuses]
    BY DEF TypeOK
  <2> QED BY <2>1, <2>3, <2>4 DEF Served, HasStreams
<1>3. Change => UNCHANGED status \/ \E w \in Ids : ChangeStatus(w)
  BY DEF Change, SetMark, ClearMark, CreateVideoComment, DeleteVideoComment, Reindex,
         FailOrRecover, rows
<1> QED BY <1>1, <1>2, <1>3

(* An answer or a failure, or a request that is not a query.                   *)
LEMMA StreamNone ==
    ASSUME NEW r \in Readers, ~reader'[r].silent,
           reader'[r].feed \notin Queries \/ (~reader'[r].twice /\ reader'[r].at \in {"done", "failed"})
    PROVE  Stream(r)'
BY DEF Stream

(* Every statement but the last of a query leaves it open whether there are    *)
(* streams.                                                                    *)
LEMMA NotSilent ==
    ASSUME TypeInv, NEW r \in Readers, Read(r)
    PROVE  FindStreams(r) \/ reader'[r].silent = reader[r].silent
<1>0. /\ reader \in [Readers -> Request]
      /\ reader[r].cursor \in Keys /\ reader[r].page \in SUBSET Ids
      /\ reader[r].more \in BOOLEAN /\ reader[r].offset \in Nat
      /\ NoKey \in Keys /\ 0 \in Nat /\ reader[r].offset + PageSize \in Nat
      /\ {} \in SUBSET Ids
      /\ TypeOK
  BY FeedsAssumption DEF FeedsAssumption, TypeInv, TypeOK, Request, NoKey, Keys
<1>1. ASSUME NEW page \in SUBSET Ids, NEW more \in BOOLEAN, NEW cursor \in Keys,
             Hold(r, page, more, cursor)
      PROVE  reader'[r].silent = reader[r].silent
  BY <1>0, <1>1, Held
<1>2. ASSUME NEW page \in SUBSET Ids, NEW more \in BOOLEAN, NEW cursor \in Keys,
             NEW offset \in Nat, Answer(r, page, more, cursor, offset)
      PROVE  reader'[r].silent = reader[r].silent
  BY <1>0, <1>2, Answered
<1>3. Page(r) \in SUBSET Ids /\ More(r) \in BOOLEAN /\ NextKey(r) \in Keys
  BY <1>0, PageTyped
<1>4. Fail(r) => reader'[r].silent = reader[r].silent
  BY <1>0, Failed
<1>5. CASE ListVideos(r) \/ ListHistory(r) \/ LoadVideos(r) \/ ListComments(r)
  BY <1>0, <1>1, <1>2, <1>3, <1>5 DEF ListVideos, ListHistory, LoadVideos, ListComments
<1>6. CASE FindVideo(r)
  <2>1. CASE Home \in Published
    <3>1. Hold(r, {}, FALSE, reader[r].cursor)
      BY <1>6, <2>1 DEF FindVideo
    <3> QED BY <1>0, <1>1, <3>1, Zenon
  <2>2. CASE Home \notin Published
    BY <1>4, <1>6, <2>2 DEF FindVideo
  <2> QED BY <2>1, <2>2
<1>7. CASE ListRanked(r)
  <2> DEFINE known == list[reader[r].feed]
             offset == reader[r].offset
  <2>1. CASE AnswerFromRows(r)
    <3>1. PICK scoring \in Scorings :
              LET scored == Scored(scoring, Published)
              IN  Answer(r, HitsAt(scored, offset), MoreAt(scored, offset), NoKey, offset + PageSize)
      BY <2>1 DEF AnswerFromRows
    <3>2. Published \in SUBSET Ids
      BY DEF Published, WithStatus
    <3>3. DOMAIN Scored(scoring, Published) \subseteq Ids
      BY <3>2, ScoredTyped
    <3>4. /\ HitsAt(Scored(scoring, Published), offset) \in SUBSET Ids
          /\ MoreAt(Scored(scoring, Published), offset) \in BOOLEAN
      BY <3>3, HitsTyped
    <3> QED BY <1>0, <1>2, <3>1, <3>4
  <2>2. CASE Hold(r, HitsAt(known, offset), MoreAt(known, offset), NoKey)
    <3>1. DOMAIN known \subseteq Ids
      BY <1>0, <1>7 DEF ListRanked, TypeOK
    <3>2. HitsAt(known, offset) \in SUBSET Ids /\ MoreAt(known, offset) \in BOOLEAN
      BY <3>1, HitsTyped
    <3> QED BY <1>0, <1>1, <2>2, <3>2
  <2> QED BY <1>7, <2>1, <2>2 DEF ListRanked
<1>8. CASE FindPublishedVideosInOrder(r)
  <2>1. StillPublished(reader[r].page) \in SUBSET Ids
    BY <1>0 DEF StillPublished
  <2> QED BY <1>0, <1>2, <1>8, <2>1 DEF FindPublishedVideosInOrder
<1>9. CASE FindRow(r)
  <2>1. PICK v \in Ids : \/ Fail(r)
                         \/ Answer(r, {v}, FALSE, NoKey, 0)
                         \/ Hold(r, {v}, FALSE, NoKey)
    BY <1>9 DEF FindRow
  <2>2. {v} \in SUBSET Ids
    OBVIOUS
  <2>3. CASE Answer(r, {v}, FALSE, NoKey, 0)
    BY <1>0, <1>2, <2>2, <2>3, Zenon
  <2>4. CASE Hold(r, {v}, FALSE, NoKey)
    BY <1>0, <1>1, <2>2, <2>4, Zenon
  <2> QED BY <1>4, <2>1, <2>3, <2>4
<1> QED BY <1>5, <1>6, <1>7, <1>8, <1>9 DEF Read

LEMMA StreamOwn ==
    ASSUME TypeInv, StreamInv, NEW r \in Readers, Read(r)
    PROVE  Stream(r)'
<1>0. /\ reader \in [Readers -> Request] /\ Stream(r) /\ NoKey \in Keys /\ 0 \in Nat
      /\ TypeOK
  BY DEF TypeInv, TypeOK, NoKey, Keys, StreamInv
<1>1. UNCHANGED rows /\ reader'[r].feed = reader[r].feed
  BY <1>0, ReadFrame
<1>2. reader[r].at # "done"
  BY DEF Read, ListVideos, ListHistory, LoadVideos, FindVideo, ListComments, ListRanked,
         FindPublishedVideosInOrder, FindRow, FindStreams, Began
<1>3. ~reader[r].silent
  BY <1>0, <1>2 DEF Stream
<1>4. CASE reader[r].feed \notin Queries
  <2>1. ~FindStreams(r)
    BY <1>4 DEF FindStreams
  <2> QED BY <1>1, <1>3, <1>4, <2>1, NotSilent, StreamNone
<1>5. ASSUME FindRow(r) PROVE ~reader[r].twice /\ reader[r].listed = {}
  BY <1>0, <1>5 DEF FindRow, Began, Stream
<1>6. CASE FindRow(r)
  <2>1. PICK v \in Ids :
            IF v \notin Rows(reader[r].feed) THEN Fail(r)
            ELSE IF reader[r].feed = "upload_status" /\ ~LookedUp(v)
                 THEN Answer(r, {v}, FALSE, NoKey, 0)
            ELSE Hold(r, {v}, FALSE, NoKey)
    BY <1>6 DEF FindRow
  <2>2. {v} \in SUBSET Ids /\ reader[r].feed \in Queries
    BY <1>6 DEF FindRow
  <2>3. ~reader'[r].silent
    <3>1. ~FindStreams(r)
      BY <1>6 DEF FindRow, FindStreams, Began
    <3> QED BY <1>3, <3>1, NotSilent
  <2>4. CASE Fail(r)
    <3>1. reader'[r].at = "failed" /\ reader'[r].twice = reader[r].twice
      BY <1>0, <2>4, Failed
    <3> QED BY <1>6, <1>5, <2>3, <3>1, StreamNone
  <2>5. CASE Answer(r, {v}, FALSE, NoKey, 0)
    <3>a. PICK page \in SUBSET Ids, more \in BOOLEAN :
              page = {v} /\ more = FALSE /\ Answer(r, page, more, NoKey, 0)
      BY <2>2, <2>5, Zenon
    <3>1. /\ reader'[r].at = IF more THEN "more" ELSE "done"
          /\ reader'[r].twice = (reader[r].twice \/ page \intersect reader[r].listed # {})
      BY <1>0, <3>a, Answered
    <3> QED BY <1>6, <1>5, <2>3, <3>a, <3>1, StreamNone
  <2>6. CASE /\ v \in Rows(reader[r].feed) /\ ~(reader[r].feed = "upload_status" /\ ~LookedUp(v))
             /\ Hold(r, {v}, FALSE, NoKey)
    <3>1. /\ reader'[r].page = {v} /\ reader'[r].at = "between"
          /\ reader'[r].twice = reader[r].twice
      BY <1>0, <2>2, <2>6, Held, Zenon
    <3>2. HasStreams(v)
      BY <2>2, <2>6 DEF Queries, Rows, LookedUp, HasStreams, WithStatus, Published
    <3>3. Served(v)'
      BY <1>1, <3>2 DEF Served, HasStreams, rows
    <3> QED BY <1>6, <1>5, <2>3, <3>1, <3>3 DEF Stream
  <2> QED BY <2>1, <2>4, <2>5, <2>6
<1>7. CASE FindStreams(r)
  <2> DEFINE none == \A v \in reader[r].page : ~HasStreams(v)
             done(b) == [reader[r] EXCEPT !.at = "done", !.page = {},
                                          !.listed = reader[r].page, !.silent = b]
  <2>1. reader' = [reader EXCEPT ![r] = done(none)]
    BY <1>7, Zenon DEF FindStreams
  <2>2. ASSUME NEW b \in BOOLEAN
        PROVE  /\ done(b).at = "done" /\ done(b).listed = reader[r].page /\ done(b).silent = b
               /\ done(b).twice = reader[r].twice
    BY <1>0 DEF Request
  <2>3. none \in BOOLEAN
    OBVIOUS
  <2>4. none => \A v \in reader[r].page : status'[v] = "deleted"
    BY <1>0, <1>1, <1>7 DEF FindStreams, Stream, Served, rows
  <2> HIDE DEF none, done
  <2>5. reader'[r] = done(none)
    BY <1>0, <2>1
  <2>6. /\ reader'[r].at = "done" /\ reader'[r].listed = reader[r].page
        /\ reader'[r].silent = none /\ reader'[r].twice = reader[r].twice
    BY <2>2, <2>3, <2>5
  <2>7. ~reader[r].twice
    BY <1>0, <1>7 DEF FindStreams, Stream
  <2> QED BY <2>4, <2>6, <2>7 DEF Stream
<1> QED BY <1>4, <1>6, <1>7 DEF Read, ListVideos, ListHistory, LoadVideos, FindVideo,
        ListComments, ListRanked, FindPublishedVideosInOrder, Queries, Ranked

LEMMA StreamStep == TypeInv /\ StreamInv /\ [Next]_vars => StreamInv'
<1> SUFFICES ASSUME TypeInv, StreamInv, [Next]_vars PROVE StreamInv'
  OBVIOUS
<1>0. TypeOK /\ \A r \in Readers : reader[r].page \subseteq Ids /\ reader[r].listed \subseteq Ids
  BY DEF TypeInv, TypeOK, Request
<1>1. ASSUME NEW r \in Readers, Read(r) PROVE StreamInv'
  <2> SUFFICES ASSUME NEW q \in Readers \ {r} PROVE Stream(q)'
    BY <1>1, StreamOwn DEF StreamInv
  <2>1. reader'[q] = reader[q] /\ UNCHANGED status /\ Stream(q)
    BY <1>0, <1>1, ReadFrame DEF Others, rows, StreamInv
  <2> QED BY <2>1 DEF Stream, Served, HasStreams
<1>2. ASSUME Change \/ UNCHANGED status, UNCHANGED reader PROVE StreamInv'
  <2> SUFFICES ASSUME NEW r \in Readers PROVE Stream(r)'
    BY DEF StreamInv
  <2>1. \A v \in Ids : /\ Served(v) => Served(v)'
                       /\ status[v] = "deleted" => status'[v] = "deleted"
    BY <1>0, <1>2, ServedStays
  <2>2. Stream(r)
    BY DEF StreamInv
  <2> HIDE DEF Served
  <2> QED BY <1>0, <1>2, <2>1, <2>2 DEF Stream
<1>3. Change => UNCHANGED reader
  BY ChangeStep
<1>4. RefreshReads \/ RefreshStores \/ UNCHANGED vars => UNCHANGED <<status, reader>>
  BY DEF RefreshReads, RefreshStores, vars, rows
<1> QED BY <1>1, <1>2, <1>3, <1>4 DEF Next

LEMMA StreamInit == Init => StreamInv
BY DEF Init, StreamInv, Stream

LEMMA StreamHolds == Spec => []StreamInv
BY TypeInvHolds, StreamInit, StreamStep, PTL DEF Spec

(* Whoever found a video to play, or the status of one that is ready, gets its *)
(* streams, or the video was deleted between the two statements (the playback  *)
(* queries of video.go).                                                       *)
THEOREM PlaysAlways == Spec => []PlayHasStreams
<1>1. StreamInv => PlayHasStreams
  BY DEF StreamInv, Stream, PlayHasStreams
<1> QED BY <1>1, StreamHolds, PTL

----------------------------------------------------------------------------
(* Listings that continue at a key.                                            *)

(* A row that is behind a cursor stays there: a mark that is set again is of   *)
(* now, and now is not before the cursor, nor at its time with a smaller id.   *)
Behind(f, c, i) ==
    /\ c # NoKey
    /\ c[1] <= clock
    /\ (f = "history" /\ mark[i] = 0) \/ ~Comes(f, c, Key(f, i))
    /\ c[1] < clock \/ i >= c[2]

(* The rows listed are behind the cursor; the rows to be kept in sight are     *)
(* among them or after it.                                                     *)
Open(f, c, listed, kept) ==
    /\ \A i \in listed : Behind(f, c, i)
    /\ kept \subseteq listed \union After(f, c)

Walk(r) ==
    LET R == reader[r] IN
    /\ ~R.twice
    /\ R.at = "first" => R.listed = {} /\ R.cursor = NoKey
    /\ R.at = "more" \/ (R.at = "between" /\ R.feed \in Threads)
         => Open(R.feed, R.cursor, R.listed, throughout[r])
    /\ R.at = "between" /\ R.feed \in Histories
         => /\ R.page \intersect R.listed = {}
            /\ IF R.more
               THEN Open(R.feed, R.cursor, R.listed \union R.page, throughout[r])
               ELSE throughout[r] \subseteq R.listed \union R.page
    /\ R.at = "done" => throughout[r] \subseteq R.listed

WalkInv == \A r \in Readers : reader[r].feed \in Keyset => Walk(r)

(* A page begins after the rows listed, and the next one after the page.       *)
LEMMA BehindNext ==
    ASSUME TypeInv, NEW f, NEW c \in Keys, NEW i \in Ids, NEW l \in Ids,
           Comes(f, c, Key(f, l)), Behind(f, c, i), mark[l] <= clock
    PROVE  Behind(f, Key(f, l), i)
<1>1. /\ Key(f, l) \in Keys /\ Key(f, i) \in Keys /\ Key(f, l) # NoKey
      /\ f # "history" => Key(f, l)[1] = 0
      /\ f = "history" => Key(f, l)[1] = mark[l]
  BY KeysOfRows DEF TypeInv, TypeOK
<1>2. clock \in Nat /\ clock > 0 /\ i \in Nat
  BY FeedsAssumption DEF FeedsAssumption, TypeInv, TypeOK, Marks
<1>3. ~Comes(f, c, Key(f, i)) => ~Comes(f, Key(f, l), Key(f, i))
  BY <1>1, ComesStrict
<1>4. mark[l] \in Nat
  BY DEF TypeInv, TypeOK
<1>5. Key(f, l)[1] <= clock
  BY <1>1, <1>2, <1>4
<1>6. Key(f, l)[1] < clock \/ i >= Key(f, l)[2]
  <2>1. CASE f # "history"
    BY <1>1, <1>2, <2>1
  <2>2. CASE f = "history"
    <3>1. c[1] > Key(f, l)[1] \/ (c[1] = Key(f, l)[1] /\ c[2] > Key(f, l)[2])
      BY <2>2 DEF Comes, OldestFirst
    <3>2. c[1] <= clock /\ (c[1] < clock \/ i >= c[2])
      BY DEF Behind
    <3> QED BY <1>1, <1>2, <3>1, <3>2 DEF Keys
  <2> QED BY <2>1, <2>2
<1> HIDE DEF Key, Comes
<1> QED BY <1>1, <1>3, <1>5, <1>6 DEF Behind

LEMMA BehindOwn ==
    ASSUME TypeInv, NEW f, NEW i \in Ids, NEW l \in Ids,
           i = l \/ Comes(f, Key(f, i), Key(f, l))
    PROVE  Behind(f, Key(f, l), i)
<1>1. /\ Key(f, l) \in Keys /\ Key(f, i) \in Keys /\ Key(f, l) # NoKey
      /\ Key(f, l)[2] = l /\ Key(f, i)[2] = i
      /\ f # "history" => Key(f, l)[1] = 0
      /\ f = "history" => Key(f, l)[1] = mark[l] /\ Key(f, i)[1] = mark[i]
  BY KeysOfRows DEF TypeInv, TypeOK
<1>2. /\ clock \in Nat /\ clock > 0 /\ i \in Nat /\ l \in Nat
      /\ mark[l] \in Nat /\ mark[i] \in Nat /\ mark[l] <= clock /\ mark[i] <= clock
  BY FeedsAssumption DEF FeedsAssumption, TypeInv, TypeOK, Marks
<1>3. ~Comes(f, Key(f, l), Key(f, i))
  BY <1>1, ComesStrict
<1>4. Key(f, l)[1] <= clock
  BY <1>1, <1>2
<1>5. Key(f, l)[1] < clock \/ i >= Key(f, l)[2]
  <2>1. CASE f # "history"
    BY <1>1, <1>2, <2>1
  <2>2. CASE f = "history"
    <3>1. i = l \/ mark[i] > mark[l] \/ (mark[i] = mark[l] /\ i > l)
      BY <1>1, <2>2 DEF Comes, OldestFirst
    <3> QED BY <1>1, <1>2, <2>2, <3>1
  <2> QED BY <2>1, <2>2
<1> HIDE DEF Key, Comes
<1> QED BY <1>1, <1>3, <1>4, <1>5 DEF Behind

LEMMA OpenNext ==
    ASSUME TypeInv, NEW r \in Readers, NEW kept,
           Open(reader[r].feed, reader[r].cursor, reader[r].listed, kept)
    PROVE  /\ Page(r) \intersect reader[r].listed = {}
           /\ IF More(r)
              THEN Open(reader[r].feed, NextKey(r), reader[r].listed \union Page(r), kept)
              ELSE kept \subseteq reader[r].listed \union Page(r)
<1>a. PICK f, c, listed : f = reader[r].feed /\ c = reader[r].cursor /\ listed = reader[r].listed
  OBVIOUS
<1> DEFINE all == After(f, c)
           page == FirstOf(f, all)
<1>1. Page(r) = page /\ (More(r) <=> page # all) /\ page \subseteq all
  BY <1>a, RowsTyped DEF Page, More
<1>2. all \in SUBSET Ids /\ page \in SUBSET Ids /\ listed \in SUBSET Ids /\ c \in Keys
  <2>1. reader[r] \in Request
    BY DEF TypeInv, TypeOK
  <2>2. listed \in SUBSET Ids /\ c \in Keys
    BY <1>a, <2>1 DEF Request, Keys
  <2>3. all \in SUBSET Ids
    BY RowsTyped
  <2> QED BY <1>1, <2>2, <2>3
<1>3. mark \in [Ids -> Nat] /\ (\A v \in Ids : mark[v] <= clock) /\ TypeOK
  BY DEF TypeInv, TypeOK, Marks
<1>4. page \intersect listed = {}
  <2> SUFFICES ASSUME NEW i \in listed, i \in all PROVE FALSE
    BY <1>1
  <2>1. Behind(f, c, i)
    BY <1>a DEF Open
  <2>2. i \in Rows(f) /\ (c = NoKey \/ Comes(f, c, Key(f, i)))
    BY DEF After
  <2>3. f = "history" => mark[i] > 0
    BY <2>2 DEF Rows
  <2>4. mark[i] \in Nat
    BY <1>2, <1>3
  <2> HIDE DEF Key, Comes, all, page
  <2> QED BY <2>1, <2>2, <2>3, <2>4 DEF Behind
<1>5. CASE ~More(r)
  BY <1>a, <1>1, <1>4, <1>5 DEF Open
<1>6. CASE More(r)
  <2>1. /\ page # {}
        /\ \A i \in all \ page : Comes(f, LastKey(f, all, page), Key(f, i))
    BY <1>1, <1>2, <1>3, <1>6, PageRest
  <2>2. PICK l \in page : /\ LastKey(f, all, page) = Key(f, l)
                          /\ \A j \in page : j = l \/ Comes(f, Key(f, j), Key(f, l))
    BY <1>2, <1>3, <2>1, LastOfPage
  <2>3. NextKey(r) = Key(f, l)
    BY <1>a, <1>6, <2>2 DEF NextKey, Page
  <2>4. l \in Ids /\ l \in all
    BY <1>1, <1>2
  <2>5. ASSUME NEW i \in page PROVE Behind(f, Key(f, l), i)
    <3>1. i \in Ids
      BY <1>2
    <3> QED BY <2>2, <2>4, <3>1, BehindOwn
  <2>6. ASSUME NEW i \in listed PROVE Behind(f, Key(f, l), i)
    <3>1. i \in Ids /\ Behind(f, c, i)
      BY <1>a, <1>2 DEF Open
    <3>2. Comes(f, c, Key(f, l))
      BY <2>4, <3>1 DEF After, Behind
    <3> QED BY <1>2, <1>3, <2>4, <3>1, <3>2, BehindNext
  <2>7. all \subseteq page \union After(f, Key(f, l))
    <3>1. ASSUME NEW i \in all, i \notin page PROVE i \in After(f, Key(f, l))
      BY <2>1, <2>2, <3>1 DEF After
    <3> QED BY <3>1
  <2>8. kept \subseteq listed \union all
    BY <1>a DEF Open
  <2> HIDE DEF all, page, Behind
  <2>9. Open(f, Key(f, l), listed \union page, kept)
    BY <2>5, <2>6, <2>7, <2>8 DEF Open
  <2> QED BY <1>a, <1>1, <1>4, <1>6, <2>3, <2>9
<1> QED BY <1>a, <1>1, <1>4, <1>5, <1>6

LEMMA BeganOpen ==
    ASSUME TypeInv, NEW r \in Readers, Walk(r), Began(r)
    PROVE  Open(reader[r].feed, reader[r].cursor, reader[r].listed, throughout'[r])
<1>1. reader[r].at \in {"first", "more"}
  BY BeganTyped DEF TypeInv
<1>2. CASE reader[r].at = "more"
  <2>1. throughout'[r] = throughout[r]
    BY <1>2, BeganTyped DEF TypeInv
  <2> QED BY <1>2, <2>1 DEF Walk
<1>3. CASE reader[r].at = "first"
  <2>1. /\ throughout'[r] = Visible(reader[r].feed)
        /\ reader[r].listed = {} /\ reader[r].cursor = NoKey
    BY <1>3, BeganTyped DEF TypeInv, Walk
  <2>2. After(reader[r].feed, NoKey) = Rows(reader[r].feed)
    BY DEF After
  <2>3. Visible(reader[r].feed) \subseteq Rows(reader[r].feed)
    BY RowsTyped
  <2> HIDE DEF Rows, Visible, After, Behind
  <2> QED BY <2>1, <2>2, <2>3 DEF Open
<1> QED BY <1>1, <1>2, <1>3

(* Without a change of the rows a cursor stays open.                           *)
LEMMA OpenSame ==
    ASSUME UNCHANGED rows
    PROVE  \A f, c, listed, kept : Open(f, c, listed, kept)' <=> Open(f, c, listed, kept)
<1> SUFFICES ASSUME NEW f, NEW c, NEW listed, NEW kept
             PROVE  Open(f, c, listed, kept)' <=> Open(f, c, listed, kept)
  OBVIOUS
<1>1. After(f, c)' = After(f, c) /\ \A i : Key(f, i)' = Key(f, i)
  BY RowsSame
<1>2. mark' = mark /\ clock' = clock
  BY DEF rows
<1>3. \A i : Behind(f, c, i)' <=> Behind(f, c, i)
  <2> HIDE DEF Key
  <2> QED BY <1>1, <1>2 DEF Behind, Comes
<1> HIDE DEF After, Behind
<1> QED BY <1>1, <1>3 DEF Open

(* The page of a keyset listing, taken and answered by one statement.          *)
LEMMA WalkAnswered ==
    ASSUME TypeInv, NEW r \in Readers, Walk(r), UNCHANGED rows,
           Answer(r, Page(r), More(r), NextKey(r), 0),
           Open(reader[r].feed, reader[r].cursor, reader[r].listed, throughout'[r])
    PROVE  Walk(r)'
<1>a. PICK f, listed, kept : f = reader[r].feed /\ listed = reader[r].listed /\ kept = throughout'[r]
  OBVIOUS
<1>1. reader \in [Readers -> Request] /\ TypeOK /\ 0 \in Nat
  BY DEF TypeInv, TypeOK
<1>2. Page(r) \in SUBSET Ids /\ More(r) \in BOOLEAN /\ NextKey(r) \in Keys
  BY <1>1, PageTyped
<1>3. /\ reader'[r].feed = f
      /\ reader'[r].at = IF More(r) THEN "more" ELSE "done"
      /\ reader'[r].cursor = NextKey(r)
      /\ reader'[r].listed = listed \union Page(r)
      /\ reader'[r].twice = (reader[r].twice \/ Page(r) \intersect listed # {})
  BY <1>a, <1>1, <1>2, Answered
<1>4. /\ Page(r) \intersect listed = {}
      /\ IF More(r) THEN Open(f, NextKey(r), listed \union Page(r), kept)
                    ELSE kept \subseteq listed \union Page(r)
  BY <1>a, OpenNext
<1>b. PICK page, next, more : page = Page(r) /\ next = NextKey(r) /\ more = More(r)
  OBVIOUS
<1>5. ~reader'[r].twice
  BY <1>3, <1>4 DEF Walk
<1>6. CASE More(r)
  <2>1. Open(f, next, listed \union page, kept)'
    BY <1>4, <1>6, <1>b, OpenSame
  <2> HIDE DEF Open, Behind
  <2> QED BY <1>a, <1>b, <1>3, <1>5, <1>6, <2>1 DEF Walk
<1>7. CASE ~More(r)
  BY <1>a, <1>3, <1>4, <1>5, <1>7 DEF Walk
<1> QED BY <1>6, <1>7

(* The page of a history, taken and not yet answered.                          *)
LEMMA WalkHeld ==
    ASSUME TypeInv, NEW r \in Readers, Walk(r), UNCHANGED rows,
           reader[r].feed \in Histories,
           Hold(r, Page(r), More(r), NextKey(r)),
           Open(reader[r].feed, reader[r].cursor, reader[r].listed, throughout'[r])
    PROVE  Walk(r)'
<1>a. PICK f, listed, kept : f = reader[r].feed /\ listed = reader[r].listed /\ kept = throughout'[r]
  OBVIOUS
<1>b. PICK page, next, more : page = Page(r) /\ next = NextKey(r) /\ more = More(r)
  OBVIOUS
<1>1. reader \in [Readers -> Request] /\ TypeOK
  BY DEF TypeInv, TypeOK
<1>2. Page(r) \in SUBSET Ids /\ More(r) \in BOOLEAN /\ NextKey(r) \in Keys
  BY <1>1, PageTyped
<1>3. /\ reader'[r].feed = f /\ reader'[r].at = "between"
      /\ reader'[r].page = page /\ reader'[r].more = more
      /\ reader'[r].cursor = next
      /\ reader'[r].listed = listed
      /\ reader'[r].twice = reader[r].twice
  BY <1>a, <1>b, <1>1, <1>2, Held
<1>4. /\ page \intersect listed = {}
      /\ IF more THEN Open(f, next, listed \union page, kept)
                 ELSE kept \subseteq listed \union page
  BY <1>a, <1>b, OpenNext
<1>5. more => Open(f, next, listed \union page, kept)'
  BY <1>4, OpenSame
<1>6. ~reader'[r].twice /\ f \notin Threads
  BY <1>a, <1>3 DEF Walk, Histories, Threads
<1> HIDE DEF Open, Behind
<1> QED BY <1>a, <1>3, <1>4, <1>5, <1>6 DEF Walk

LEMMA WalkOwn ==
    ASSUME TypeInv, NEW r \in Readers, Walk(r), Read(r), reader[r].feed \in Keyset
    PROVE  Walk(r)'
<1>0. /\ reader \in [Readers -> Request] /\ TypeOK
      /\ reader[r].cursor \in Keys /\ reader[r].page \in SUBSET Ids
      /\ reader[r].more \in BOOLEAN /\ 0 \in Nat /\ {} \in SUBSET Ids
  BY DEF TypeInv, TypeOK, Request, Keys
<1>1. UNCHANGED rows
  BY <1>0, ReadFrame
<1>2. CASE ListVideos(r)
  <2>1. Began(r) /\ Answer(r, Page(r), More(r), NextKey(r), 0)
    BY <1>2 DEF ListVideos
  <2> QED BY <1>1, <2>1, BeganOpen, WalkAnswered
<1>3. CASE ListComments(r)
  <2>1. /\ Answer(r, Page(r), More(r), NextKey(r), 0) /\ throughout' = throughout
        /\ reader[r].at = "between" /\ reader[r].feed \in Threads
    BY <1>3 DEF ListComments, ghosts, Threads
  <2>2. Open(reader[r].feed, reader[r].cursor, reader[r].listed, throughout'[r])
    BY <2>1 DEF Walk
  <2> QED BY <1>1, <2>1, <2>2, WalkAnswered
<1>4. CASE ListHistory(r)
  <2>1. /\ Began(r) /\ Hold(r, Page(r), More(r), NextKey(r))
        /\ reader[r].feed \in Histories
    BY <1>4 DEF ListHistory, Histories
  <2> QED BY <1>1, <2>1, BeganOpen, WalkHeld
<1>5. CASE LoadVideos(r)
  <2>1. /\ Answer(r, reader[r].page, reader[r].more, reader[r].cursor, 0)
        /\ throughout' = throughout
        /\ reader[r].at = "between" /\ reader[r].feed \in Histories
    BY <1>5 DEF LoadVideos, ghosts, Histories
  <2>2. /\ reader'[r].feed = reader[r].feed
        /\ reader'[r].at = IF reader[r].more THEN "more" ELSE "done"
        /\ reader'[r].cursor = reader[r].cursor
        /\ reader'[r].listed = reader[r].listed \union reader[r].page
        /\ reader'[r].twice = (reader[r].twice \/ reader[r].page \intersect reader[r].listed # {})
    BY <1>0, <2>1, Answered
  <2>3. /\ reader[r].page \intersect reader[r].listed = {} /\ ~reader[r].twice
        /\ IF reader[r].more
           THEN Open(reader[r].feed, reader[r].cursor, reader[r].listed \union reader[r].page,
                     throughout[r])
           ELSE throughout[r] \subseteq reader[r].listed \union reader[r].page
    BY <2>1 DEF Walk
  <2>4. ~reader'[r].twice
    BY <2>2, <2>3
  <2>a. PICK f, c, all, kept :
            /\ f = reader[r].feed /\ c = reader[r].cursor
            /\ all = reader[r].listed \union reader[r].page /\ kept = throughout[r]
    OBVIOUS
  <2>5. reader[r].more => Open(f, c, all, kept)'
    BY <1>1, <2>3, <2>a, OpenSame
  <2> HIDE DEF Open, Behind
  <2> QED BY <2>1, <2>2, <2>3, <2>4, <2>5, <2>a DEF Walk
<1>6. CASE FindVideo(r)
  <2>a. PICK f, c, listed, kept :
            /\ f = reader[r].feed /\ c = reader[r].cursor
            /\ listed = reader[r].listed /\ kept = throughout'[r]
    OBVIOUS
  <2>1. Open(f, c, listed, kept)
    BY <1>6, <2>a, BeganOpen DEF FindVideo
  <2>2. Open(f, c, listed, kept)'
    BY <1>1, <2>1, OpenSame
  <2>3. ~reader[r].twice /\ f \notin Histories
    BY <1>6, <2>a DEF Walk, FindVideo, Histories
  <2>4. CASE Home \in Published
    <3>1. Hold(r, {}, FALSE, c)
      BY <1>6, <2>a, <2>4 DEF FindVideo
    <3>2. c \in Keys
      BY <1>0, <2>a
    <3>3. /\ reader'[r].feed = f /\ reader'[r].at = "between"
          /\ reader'[r].cursor = c /\ reader'[r].listed = listed
          /\ reader'[r].twice = reader[r].twice
      BY <1>0, <2>a, <3>1, <3>2, Held, Zenon
    <3> HIDE DEF Open, Behind
    <3> QED BY <2>a, <2>2, <2>3, <3>3 DEF Walk
  <2>5. CASE Home \notin Published
    <3>1. reader'[r].at = "failed" /\ reader'[r].twice = reader[r].twice
      BY <1>0, <1>6, <2>5, Failed DEF FindVideo
    <3> QED BY <2>3, <3>1 DEF Walk
  <2> QED BY <2>4, <2>5
<1> QED BY <1>2, <1>3, <1>4, <1>5, <1>6 DEF Read, ListRanked, FindPublishedVideosInOrder,
        FindRow, FindStreams, Keyset, Ranked, Queries

LEMMA WalkOthers ==
    ASSUME TypeInv, NEW r \in Readers, Read(r), NEW q \in Readers \ {r}, Walk(q)
    PROVE  Walk(q)'
<1>1. reader'[q] = reader[q] /\ throughout'[q] = throughout[q] /\ UNCHANGED rows
  BY ReadFrame DEF TypeInv, Others
<1> HIDE DEF Open, Behind
<1> QED BY <1>1, OpenSame DEF Walk

(* Marks are cleared, or set to now.                                           *)
LEMMA MarksMove ==
    ASSUME TypeInv, Change
    PROVE  /\ clock' \in Nat /\ clock' >= clock
           /\ \A i \in Ids : mark'[i] \in {mark[i], 0, clock'}
<1>0. mark \in [Ids -> Nat] /\ clock \in Nat
  BY DEF TypeInv, TypeOK
<1>1. ASSUME NEW v \in Ids, SetMark(v)
      PROVE  /\ clock' \in Nat /\ clock' >= clock
             /\ \A i \in Ids : mark'[i] \in {mark[i], 0, clock'}
  BY <1>0, <1>1 DEF SetMark
<1>2. ASSUME NEW v \in Ids, ClearMark(v)
      PROVE  /\ clock' = clock
             /\ \A i \in Ids : mark'[i] \in {mark[i], 0, clock'}
  BY <1>0, <1>2 DEF ClearMark
<1>3. (\E v \in Ids : ChangeStatus(v) \/ CreateVideoComment(v) \/ DeleteVideoComment(v))
        \/ Reindex \/ FailOrRecover => UNCHANGED <<mark, clock>>
  BY DEF ChangeStatus, CreateVideoComment, DeleteVideoComment, Reindex, FailOrRecover, rows
<1> QED BY <1>0, <1>1, <1>2, <1>3 DEF Change

(* A change leaves what is behind a cursor there, and what kept its place      *)
(* after it.                                                                   *)
LEMMA OpenMoved ==
    ASSUME TypeInv, Change, Observe, NEW r \in Readers, NEW f, f = reader[r].feed,
           NEW c \in Keys, NEW listed \in SUBSET Ids, Open(f, c, listed, throughout[r]),
           NEW kept, kept = throughout'[r]
    PROVE  Open(f, c, listed, kept)'
<1>0. /\ mark \in [Ids -> Nat] /\ clock \in Nat /\ c[1] \in Nat /\ c[2] \in Nat
      /\ Ids \subseteq Nat
  BY FeedsAssumption DEF FeedsAssumption, TypeInv, TypeOK, Keys
<1>1. /\ clock' \in Nat /\ clock' >= clock
      /\ \A i \in Ids : mark'[i] \in {mark[i], 0, clock'}
  BY MarksMove
<1>2. ASSUME NEW i \in listed PROVE Behind(f, c, i)'
  <2>1. Behind(f, c, i) /\ i \in Ids /\ i \in Nat
    BY <1>0 DEF Open
  <2>2. mark'[i] \in {mark[i], 0, clock'}
    BY <1>1, <2>1
  <2>3. /\ c[1] <= clock' /\ (c[1] < clock' \/ i >= c[2])
    BY <1>0, <1>1, <2>1 DEF Behind
  <2>4. (f = "history" /\ mark'[i] = 0) \/ ~Comes(f, c, Key(f, i)')
    <3>1. CASE f # "history"
      <4>1. Key(f, i)' = Key(f, i)
        BY <3>1 DEF Key
      <4> QED BY <2>1, <3>1, <4>1 DEF Behind
    <3>2. CASE f = "history" /\ mark'[i] = mark[i]
      <4>1. Key(f, i)' = Key(f, i)
        BY <3>2 DEF Key
      <4> QED BY <2>1, <3>2, <4>1 DEF Behind
    <3>3. CASE f = "history" /\ mark'[i] = clock'
      <4>1. Key(f, i)' = <<clock', i>>
        BY <3>3 DEF Key
      <4> QED BY <1>0, <1>1, <2>1, <2>3, <3>3, <4>1 DEF Comes, OldestFirst
    <3> QED BY <2>2, <3>1, <3>2, <3>3
  <2> HIDE DEF Key
  <2> QED BY <2>1, <2>3, <2>4 DEF Behind, Comes
<1>3. kept \subseteq listed \union After(f, c)'
  <2> SUFFICES ASSUME NEW i \in kept, i \notin listed PROVE i \in After(f, c)'
    OBVIOUS
  <2>1. i \in throughout[r] /\ i \in Visible(f)' /\ Key(f, i)' = Key(f, i)
    BY Observed DEF TypeInv
  <2>2. c = NoKey \/ Comes(f, c, Key(f, i))
    BY <2>1 DEF Open, After
  <2>3. i \in Rows(f)'
    BY <2>1, RowsTypedNext
  <2> HIDE DEF Rows, Key
  <2> QED BY <2>1, <2>2, <2>3 DEF After, Comes
<1> HIDE DEF Behind, After
<1> QED BY <1>2, <1>3 DEF Open

LEMMA WalkMoved ==
    ASSUME TypeInv, Change, Observe, NEW r \in Readers, Walk(r)
    PROVE  Walk(r)'
<1>a. PICK f, c, page, listed, kept :
          /\ f = reader[r].feed /\ c = reader[r].cursor
          /\ page = reader[r].page /\ listed = reader[r].listed
          /\ kept = throughout'[r]
  OBVIOUS
<1>1. reader' = reader /\ throughout'[r] \subseteq throughout[r]
  BY Observed DEF TypeInv
<1>2. reader[r] \in Request
  BY DEF TypeInv, TypeOK
<1>3. c \in Keys /\ listed \in SUBSET Ids /\ listed \union page \in SUBSET Ids
  BY <1>a, <1>2 DEF Request, Keys
<1>4. /\ Open(f, c, listed, throughout[r]) => Open(f, c, listed, kept)'
      /\ Open(f, c, listed \union page, throughout[r])
            => Open(f, c, listed \union page, kept)'
  BY <1>a, <1>3, OpenMoved
<1> HIDE DEF Open, Behind
<1> QED BY <1>a, <1>1, <1>4 DEF Walk

LEMMA WalkStep == TypeInv /\ WalkInv /\ [Next]_vars => WalkInv'
<1> SUFFICES ASSUME TypeInv, WalkInv, [Next]_vars PROVE WalkInv'
  OBVIOUS
<1>1. ASSUME NEW q \in Readers, Read(q) PROVE WalkInv'
  <2> SUFFICES ASSUME NEW r \in Readers, reader'[r].feed \in Keyset PROVE Walk(r)'
    BY DEF WalkInv
  <2>1. reader'[r].feed = reader[r].feed
    BY <1>1, ReadFrame DEF TypeInv, Others
  <2> QED BY <1>1, <2>1, WalkOwn, WalkOthers DEF WalkInv
<1>2. ASSUME UNCHANGED <<rows, reader, throughout>> PROVE WalkInv'
  <2> HIDE DEF Open, Behind
  <2> QED BY <1>2, OpenSame DEF WalkInv, Walk
<1>3. CASE Change
  <2>1. CASE Observe
    BY <1>3, <2>1, WalkMoved, Observed DEF WalkInv, TypeInv
  <2> QED BY <1>2, <1>3, <2>1, RowsMove
<1>4. RefreshReads \/ RefreshStores => UNCHANGED <<rows, reader, throughout>>
  BY DEF RefreshReads, RefreshStores, ghosts
<1>5. UNCHANGED vars => UNCHANGED <<rows, reader, throughout>>
  BY DEF vars, ghosts
<1> QED BY <1>1, <1>2, <1>3, <1>4, <1>5 DEF Next

LEMMA WalkInit == Init => WalkInv
BY DEF Init, WalkInv, Walk, Threads

LEMMA WalkHolds == Spec => []WalkInv
BY TypeInvHolds, WalkInit, WalkStep, PTL DEF Spec

----------------------------------------------------------------------------
(* Listings that continue at an offset.                                        *)

(* While its list stays, a listing has the members before its offset behind    *)
(* it, and the published ones from there on ahead.                             *)
Place(r) ==
    LET R == reader[r]
        known == list[R.feed]
    IN
    /\ ~R.twice
    /\ R.at # "first" => throughout[r] \subseteq Published
    /\ R.at = "first" => R.listed = {} /\ R.offset = 0
    /\ R.at \in {"more", "between"} =>
          /\ \A i \in R.listed : Rank(known, i) < R.offset
          /\ \A i \in throughout[r] \intersect DOMAIN known :
                i \in R.listed \/ Rank(known, i) >= R.offset
    /\ R.at = "between" => R.page = HitsAt(known, R.offset) /\ R.more = MoreAt(known, R.offset)
    /\ R.at = "done" => throughout[r] \intersect DOMAIN known \subseteq R.listed

PlaceInv == \A r \in Readers : reader[r].feed \in Ranked /\ steady[r] => Place(r)

LEMMA PlaceOwn ==
    ASSUME TypeInv, NEW r \in Readers, Read(r), reader[r].feed \in Ranked, steady[r] => Place(r),
           steady'[r]
    PROVE  Place(r)'
<1>a. PICK f, known, offset, listed :
          /\ f = reader[r].feed /\ known = list[f]
          /\ offset = reader[r].offset /\ listed = reader[r].listed
  OBVIOUS
<1>0. /\ reader \in [Readers -> Request] /\ TypeOK /\ steady \in [Readers -> BOOLEAN]
      /\ f \in Ranked /\ offset \in Nat /\ PageSize \in Nat \ {0} /\ offset + PageSize \in Nat
      /\ reader[r].page \in SUBSET Ids /\ reader[r].more \in BOOLEAN
      /\ NoKey \in Keys /\ listed \in SUBSET Ids
  BY <1>a, FeedsAssumption DEF FeedsAssumption, TypeInv, TypeOK, Request, NoKey, Keys
<1>1. UNCHANGED <<rows, stores>> /\ reader'[r].feed = f
  BY <1>a, <1>0, ReadFrame
<1>2. known' = known /\ list' = list /\ list'[f] = known /\ Published' = Published
  BY <1>1, <1>a, RowsSame DEF stores
<1>3. DOMAIN known \subseteq Ids /\ known \in [DOMAIN known -> Nat]
  BY <1>0, <1>a DEF TypeOK
<1>4. /\ \A i \in DOMAIN known : /\ Rank(known, i) \in Nat
                                 /\ Rank(known, i) < Cardinality(DOMAIN known)
      /\ Cardinality(DOMAIN known) \in Nat
  BY <1>3, Ranks, FS_CardinalityType, FS_Subset, FeedsAssumption DEF FeedsAssumption
<1>5. HitsAt(known, offset) \in SUBSET Ids /\ MoreAt(known, offset) \in BOOLEAN
  BY <1>3, HitsTyped
<1>6. CASE ListRanked(r)
  <2>1. ~AnswerFromRows(r)
    BY <1>0, <1>6 DEF AnswerFromRows
  <2>2. steady[r] /\ Hold(r, HitsAt(known, offset), MoreAt(known, offset), NoKey)
    BY <1>6, <1>a, <2>1 DEF ListRanked
  <2>3. Place(r)
    BY <2>2
  <2>4. /\ reader'[r].at = "between" /\ reader'[r].page = HitsAt(known, offset)
        /\ reader'[r].more = MoreAt(known, offset)
        /\ reader'[r].offset = offset /\ reader'[r].listed = listed
        /\ reader'[r].twice = reader[r].twice
    BY <1>0, <1>5, <1>a, <2>2, Held
  <2>5. /\ throughout'[r] = IF reader[r].at = "first" THEN Visible(f) ELSE throughout[r]
        /\ reader[r].at \in {"first", "more"}
    BY <1>0, <1>6, <1>a, BeganTyped DEF ListRanked
  <2>6. Visible(f) = Published
    BY <1>0, PlainVisible DEF Ranked, Threads, Rows
  <2>7. throughout'[r] \subseteq Published
    BY <2>3, <2>5, <2>6 DEF Place
  <2>8. /\ \A i \in listed : Rank(known, i) < offset
        /\ \A i \in throughout'[r] \intersect DOMAIN known : i \in listed \/ Rank(known, i) >= offset
    <3>1. CASE reader[r].at = "first"
      <4>1. listed = {} /\ offset = 0
        BY <1>a, <2>3, <3>1 DEF Place
      <4>2. \A i \in DOMAIN known : Rank(known, i) >= 0
        BY <1>4
      <4> QED BY <4>1, <4>2
    <3>2. CASE reader[r].at = "more"
      BY <1>a, <2>3, <2>5, <3>2 DEF Place
    <3> QED BY <2>5, <3>1, <3>2
  <2>9. ~reader[r].twice
    BY <2>3 DEF Place
  <2> HIDE DEF Published, HitsAt, MoreAt, Rank
  <2> QED BY <1>1, <1>2, <2>4, <2>7, <2>8, <2>9 DEF Place
<1>7. CASE FindPublishedVideosInOrder(r)
  <2> DEFINE page == StillPublished(reader[r].page)
             next == offset + PageSize
  <2>1. /\ Answer(r, page, reader[r].more, NoKey, next)
        /\ throughout' = throughout /\ steady' = steady /\ reader[r].at = "between"
    BY <1>7, <1>a DEF FindPublishedVideosInOrder, ghosts
  <2>2. Place(r)
    BY <2>1
  <2>3. page \in SUBSET Ids /\ next \in Nat
    BY <1>0 DEF StillPublished
  <2> HIDE DEF page, next
  <2>4. /\ reader'[r].at = IF reader[r].more THEN "more" ELSE "done"
        /\ reader'[r].offset = next
        /\ reader'[r].listed = reader[r].listed \union page
        /\ reader'[r].twice = (reader[r].twice \/ page \intersect reader[r].listed # {})
    BY <1>0, <2>1, <2>3, Answered
  <2>5. /\ page = HitsAt(known, offset) \intersect Published
        /\ reader[r].more = MoreAt(known, offset) /\ ~reader[r].twice
        /\ throughout[r] \subseteq Published
        /\ \A i \in listed : Rank(known, i) < offset
        /\ \A i \in throughout[r] \intersect DOMAIN known : i \in listed \/ Rank(known, i) >= offset
    BY <1>a, <2>1, <2>2 DEF Place, page, StillPublished
  <2>6. \A i \in page : i \in DOMAIN known /\ Rank(known, i) >= offset /\ Rank(known, i) < next
    BY <2>5 DEF HitsAt, next
  <2>7. page \intersect listed = {}
    <3> SUFFICES ASSUME NEW i \in page, i \in listed PROVE FALSE
      OBVIOUS
    <3>1. Rank(known, i) >= offset /\ Rank(known, i) < offset /\ Rank(known, i) \in Nat
      BY <1>4, <2>5, <2>6
    <3> QED BY <1>0, <3>1
  <2>8. \A i \in listed \union page : Rank(known, i) < next
    <3>1. ASSUME NEW i \in listed PROVE Rank(known, i) < next
      <4>1. Rank(known, i) < offset /\ Rank(known, i) \in Nat
        <5>1. \A v : IsFiniteSet({w \in DOMAIN known : known[w] > known[v]})
          BY <1>3, FS_Subset, FeedsAssumption DEF FeedsAssumption
        <5> QED BY <2>5, <5>1, FS_CardinalityType DEF Rank
      <4> QED BY <1>0, <4>1 DEF next
    <3> QED BY <2>6, <3>1
  <2>9. ASSUME NEW i \in throughout[r], i \in DOMAIN known
        PROVE  i \in listed \union page \/ Rank(known, i) >= next
    <3>1. i \in Published /\ (i \in listed \/ Rank(known, i) >= offset) /\ Rank(known, i) \in Nat
      BY <1>4, <2>5, <2>9
    <3>2. CASE Rank(known, i) >= offset /\ ~(Rank(known, i) >= next)
      <4>1. Rank(known, i) < next
        BY <2>3, <3>1, <3>2
      <4>2. i \in HitsAt(known, offset)
        BY <2>9, <3>2, <4>1 DEF HitsAt, next
      <4> QED BY <2>5, <3>1, <4>2
    <3> QED BY <3>1, <3>2
  <2>10. ASSUME ~reader[r].more PROVE \A i \in DOMAIN known : ~(Rank(known, i) >= next)
    <3>1. ~(Cardinality(DOMAIN known) > offset + PageSize)
      BY <2>5, <2>10, Zenon DEF MoreAt
    <3>2. ASSUME NEW i \in DOMAIN known PROVE ~(Rank(known, i) >= offset + PageSize)
      <4>1. Rank(known, i) \in Nat /\ Rank(known, i) < Cardinality(DOMAIN known)
        BY <1>4
      <4> QED BY <1>0, <1>4, <3>1, <4>1
    <3> QED BY <3>2 DEF next
  <2>11. reader'[r].listed = listed \union page /\ ~reader'[r].twice
    BY <1>a, <2>4, <2>5, <2>7
  <2>12. throughout'[r] = throughout[r] /\ reader[r].more \in BOOLEAN
    BY <1>0, <2>1
  <2> HIDE DEF Published, HitsAt, MoreAt, Rank
  <2> QED BY <1>1, <1>2, <2>4, <2>5, <2>8, <2>9, <2>10, <2>11, <2>12 DEF Place
<1> QED BY <1>0, <1>a, <1>6, <1>7 DEF Read, ListVideos, ListHistory, LoadVideos, FindVideo,
        ListComments, FindRow, FindStreams, Queries, Ranked

(* A list that changes disturbs its listings.                                  *)
LEMMA ListStays ==
    ASSUME TypeInv, Change \/ RefreshReads \/ RefreshStores,
           NEW r \in Readers, reader[r].feed \in Ranked, steady'[r]
    PROVE  steady[r] /\ list'[reader[r].feed] = list[reader[r].feed]
<1>0. steady \in [Readers -> BOOLEAN] /\ DOMAIN list = Ranked
  BY DEF TypeInv, TypeOK
<1>1. CASE Reindex
  BY <1>0, <1>1 DEF Reindex, Disturb
<1>2. CASE FailOrRecover
  BY <1>0, <1>2 DEF FailOrRecover, Disturb
<1>3. CASE RefreshReads
  BY <1>3 DEF RefreshReads, ghosts
<1>4. CASE RefreshStores
  <2>1. CASE list' = list
    BY <1>4, <2>1 DEF RefreshStores
  <2>2. CASE list' # list
    <3>1. steady[r] /\ reader[r].feed # "recommended"
      BY <1>0, <1>4, <2>2 DEF RefreshStores, Disturb
    <3>2. PICK scoring \in Scorings, members \in refresher :
              list' = [list EXCEPT !["recommended"] = Scored(scoring, members)]
      BY <1>4, <2>2 DEF RefreshStores
    <3> QED BY <1>0, <3>1, <3>2
  <2> QED BY <2>1, <2>2
<1>5. CASE \E v \in Ids : \/ ChangeStatus(v) \/ SetMark(v) \/ ClearMark(v)
                          \/ CreateVideoComment(v) \/ DeleteVideoComment(v)
  BY <1>5 DEF ChangeStatus, SetMark, ClearMark, CreateVideoComment, DeleteVideoComment, stores
<1> QED BY <1>1, <1>2, <1>3, <1>4, <1>5 DEF Change

LEMMA PlaceKept ==
    ASSUME NEW r \in Readers, Place(r), reader'[r] = reader[r],
           list'[reader[r].feed] = list[reader[r].feed],
           throughout'[r] \subseteq throughout[r],
           reader[r].at # "first" => throughout'[r] \subseteq Published'
    PROVE  Place(r)'
<1>a. PICK f, known : f = reader[r].feed /\ known = list[f]
  OBVIOUS
<1> HIDE DEF Published, HitsAt, MoreAt, Rank
<1> QED BY <1>a DEF Place

LEMMA PlaceStep == TypeInv /\ PlaceInv /\ [Next]_vars => PlaceInv'
<1> SUFFICES ASSUME TypeInv, PlaceInv, [Next]_vars,
                    NEW r \in Readers, reader'[r].feed \in Ranked, steady'[r]
             PROVE  Place(r)'
  BY DEF PlaceInv
<1>1. CASE Read(r)
  <2>1. reader[r].feed \in Ranked
    BY <1>1, ReadFrame DEF TypeInv
  <2> QED BY <1>1, <2>1, PlaceOwn DEF PlaceInv
<1>2. ASSUME reader'[r] = reader[r], list' = list, steady'[r] = steady[r],
             throughout'[r] = throughout[r], Published' = Published
      PROVE  Place(r)'
  <2>1. Place(r)
    BY <1>2 DEF PlaceInv
  <2>2. reader[r].at # "first" => throughout[r] \subseteq Published
    BY <2>1 DEF Place
  <2> HIDE DEF Place, Published
  <2> QED BY <1>2, <2>1, <2>2, PlaceKept
<1>3. ASSUME NEW q \in Readers \ {r}, Read(q) PROVE Place(r)'
  <2>1. UNCHANGED <<rows, stores>> /\ reader'[r] = reader[r]
          /\ steady'[r] = steady[r] /\ throughout'[r] = throughout[r]
    BY <1>3, ReadFrame DEF TypeInv, Others
  <2> QED BY <1>2, <2>1, RowsSame DEF stores
<1>4. CASE Change \/ RefreshReads \/ RefreshStores
  <2>1. reader' = reader
    BY <1>4, ChangeStep, RefreshStep
  <2>2. steady[r] /\ list'[reader[r].feed] = list[reader[r].feed] /\ Place(r)
    BY <1>4, <2>1, ListStays DEF PlaceInv
  <2>3. CASE UNCHANGED <<rows, reader, seen, throughout>>
    <3>1. reader[r].at # "first" => throughout'[r] \subseteq Published'
      BY <2>2, <2>3, RowsSame DEF Place
    <3> QED BY <2>2, <2>3, <3>1, PlaceKept
  <2>4. CASE Observe
    <3>1. throughout'[r] \subseteq throughout[r] \intersect Visible(reader[r].feed)'
      BY <2>4, Observed DEF TypeInv
    <3>2. Visible(reader[r].feed)' \subseteq Published'
      BY <2>1 DEF Visible, Rows, Ranked
    <3> QED BY <2>1, <2>2, <3>1, <3>2, PlaceKept
  <2> QED BY <1>4, <2>3, <2>4, RowsMove
<1>5. CASE UNCHANGED vars
  BY <1>2, <1>5, RowsSame DEF vars, stores, ghosts
<1> QED BY <1>1, <1>3, <1>4, <1>5 DEF Next

LEMMA PlaceInit == Init => PlaceInv
BY DEF Init, PlaceInv, Place

LEMMA PlaceHolds == Spec => []PlaceInv
BY TypeInvHolds, PlaceInit, PlaceStep, PTL DEF Spec

(* No listing returns a row twice: with keys whatever happens to the rows,     *)
(* with offsets while the list is the same (the cursors of video.go,           *)
(* video_history.go and video_comment.go, the offsets of the ranking).         *)
THEOREM ListedOnceAlways == Spec => []ListedOnce
<1>1. TypeInv /\ WalkInv /\ PlaceInv /\ StreamInv => ListedOnce
  <2> SUFFICES ASSUME TypeInv, WalkInv, PlaceInv, StreamInv, NEW r \in Readers,
                      reader[r].feed \in Keyset \/ steady[r]
               PROVE  ~reader[r].twice
    BY DEF ListedOnce
  <2>1. reader[r].feed \in Keyset \/ reader[r].feed \in Ranked \/ reader[r].feed \in Queries
    BY DEF TypeInv, TypeOK, Request, Kinds
  <2> QED BY <2>1 DEF WalkInv, PlaceInv, StreamInv, Walk, Place, Stream
<1> QED BY <1>1, TypeInvHolds, WalkHolds, PlaceHolds, StreamHolds, PTL

(* A listing that has ended has returned whatever was there to be seen all the *)
(* time, in its place.                                                         *)
THEOREM NothingSkippedAlways == Spec => []NothingSkipped
<1>1. WalkInv /\ PlaceInv => NothingSkipped
  BY DEF WalkInv, PlaceInv, Walk, Place, NothingSkipped
<1> QED BY <1>1, WalkHolds, PlaceHolds, PTL
=============================================================================
