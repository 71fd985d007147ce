------------------------- MODULE SearchOutboxProofs -------------------------
(***************************************************************************)
(* Proofs about SearchOutbox for every set of videos, every number of      *)
(* indexers (one, where a theorem says so) and every bound on edits,       *)
(* halts and faults.                                                       *)
(***************************************************************************)
EXTENDS SearchOutbox, SequenceTheorems, TLAPS

-----------------------------------------------------------------------------
(* Types.                                                                  *)

Hindrances == {"edits", "renames", "halts", "faults"}

(* Using up one unit of a bound keeps the counters natural numbers. *)
LEMMA SpendType ==
  ASSUME spent \in [Hindrances -> Nat], NEW k \in Hindrances, Spend(k)
  PROVE  spent' \in [Hindrances -> Nat]
  BY DEF Spend

(* Abandoning a task changes who waits for it, nothing else. *)
LEMMA AbandonedTask ==
  ASSUME NEW t \in Task, NEW i \in Indexers
  PROVE  /\ Abandoned(t, i) \in Task
         /\ Abandoned(t, i).video = t.video
         /\ Abandoned(t, i).doc = t.doc
         /\ Abandoned(t, i).by = IF t.by = i THEN Free ELSE t.by
  BY DEF Abandoned, Task

(* Orphaning the task of an indexer abandons every task it waits for. *)
LEMMA OrphanedTasks ==
  ASSUME tasks \in Seq(Task), NEW i \in Indexers
  PROVE  /\ Orphaned(i) \in Seq(Task)
         /\ Len(tasks) \in Nat
         /\ Len(Orphaned(i)) = Len(tasks)
         /\ \A k \in 1 .. Len(tasks) : Orphaned(i)[k] = Abandoned(tasks[k], i)
<1>1. DOMAIN tasks = 1 .. Len(tasks) /\ Len(tasks) \in Nat
  BY LenProperties
<1>2. \A k \in 1 .. Len(tasks) : Abandoned(tasks[k], i) \in Task
  BY ElementOfSeq, AbandonedTask
<1>3. Orphaned(i) = [k \in 1 .. Len(tasks) |-> Abandoned(tasks[k], i)]
  BY <1>1 DEF Orphaned
<1>4. Orphaned(i) \in Seq(Task)
  BY <1>1, <1>2, <1>3, IsASeq
<1>5. Len(Orphaned(i)) = Len(tasks)
  BY <1>1, <1>3, <1>4, LenProperties
<1> QED
  BY <1>1, <1>3, <1>4, <1>5

(* The next task leaves the queue. *)
LEMMA NextTask ==
  ASSUME tasks \in Seq(Task), tasks # <<>>
  PROVE  /\ Head(tasks) \in Task /\ Head(tasks) = tasks[1]
         /\ Tail(tasks) \in Seq(Task)
         /\ Len(tasks) \in Nat \ {0}
         /\ Len(Tail(tasks)) = Len(tasks) - 1
         /\ \A k \in 1 .. Len(tasks) - 1 : Tail(tasks)[k] = tasks[k + 1]
<1>1. Len(tasks) \in Nat \ {0}
  BY EmptySeq, LenProperties
<1> QED
  BY <1>1, HeadTailProperties, ElementOfSeq

(* A new task is the last of the queue. *)
LEMMA NewTask ==
  ASSUME tasks \in Seq(Task), NEW t \in Task
  PROVE  /\ Append(tasks, t) \in Seq(Task)
         /\ Len(tasks) \in Nat
         /\ Len(Append(tasks, t)) = Len(tasks) + 1
         /\ \A k \in 1 .. Len(tasks) : Append(tasks, t)[k] = tasks[k]
         /\ Append(tasks, t)[Len(tasks) + 1] = t
  BY AppendProperties, LenProperties

(* The document read for a claim is a document. *)
LEMMA ProjectionType ==
  ASSUME TypeOK, NEW v \in Videos
  PROVE  Projection(v) \in Doc
  BY DEF TypeOK, Projection, Row, Doc

(* The type invariant holds initially. *)
LEMMA InitTypeOK == Init => TypeOK
<1> SUFFICES ASSUME Init PROVE TypeOK OBVIOUS
<1>1. tasks \in Seq(Task)
  BY EmptySeq DEF Init
<1>2. row \in [Videos -> Row]
  BY DEF Init, Row
<1>3. spent \in [{"edits", "renames", "halts", "faults"} -> Nat]
  BY DEF Init, Bounds
<1> QED
  BY <1>1, <1>2, <1>3 DEF Init, TypeOK, Doc, IndexerAt, Claimed

(* The indexer's steps keep the types. *)
LEMMA IndexerTypeOK ==
  ASSUME TypeOK, NEW i \in Indexers, IndexerStep(i) \/ StopWaiting(i) \/ Halt(i)
  PROVE  TypeOK'
<1>0. /\ \A v \in Videos : Projection(v) \in Doc
      /\ \A k \in Hindrances : Spend(k) => spent' \in [Hindrances -> Nat]
  BY ProjectionType, SpendType DEF TypeOK, Hindrances
<1> USE DEF TypeOK, Goto, IndexerAt, Claimed
<1>1. CASE Start(i)
  BY <1>1 DEF Start
<1>2. CASE PrepareVideoSearch(i)
  BY <1>0, <1>2 DEF PrepareVideoSearch, Hindrances
<1>3. CASE ClaimSearchOutbox(i)
  BY <1>0, <1>3 DEF ClaimSearchOutbox, ClaimFails, Hindrances
<1>4. CASE ReadVideo(i)
  BY <1>0, <1>4 DEF ReadVideo, Hindrances
<1>5. CASE SendDocument(i)
  <2>1. TaskOf(i, i) \in Task /\ TaskOf(i, Free) \in Task
    BY <1>5 DEF SendDocument, TaskOf, Task
  <2> QED
    BY <1>0, <1>5, <2>1, NewTask DEF SendDocument, Hindrances
<1>6. CASE DeleteEvent(i)
  BY <1>0, <1>6 DEF DeleteEvent, Hindrances
<1>7. CASE RetrySearchOutbox(i)
  BY <1>0, <1>7 DEF RetrySearchOutbox, Hindrances
<1>8. CASE StopWaiting(i)
  BY <1>0, <1>8, OrphanedTasks DEF StopWaiting, Hindrances
<1>9. CASE Halt(i)
  BY <1>0, <1>9, OrphanedTasks DEF Halt, Hindrances
<1> QED
  BY <1>1, <1>2, <1>3, <1>4, <1>5, <1>6, <1>7, <1>8, <1>9 DEF IndexerStep

(* The engine only reports to an indexer that is waiting. *)
LEMMA ReportedWaits ==
  ASSUME TypeOK, WaitInv, RunTask, NEW i \in Indexers
  PROVE  \/ at'[i] = at[i]
         \/ at[i] = "wait" /\ Head(tasks).by = i /\ at'[i] \in {"delete", "defer"}
<1>1. Head(tasks) \in Task /\ Head(tasks) = tasks[1] /\ 1 \in 1 .. Len(tasks)
  BY NextTask DEF TypeOK, RunTask
<1>2. Head(tasks).by # Free => at[Head(tasks).by] = "wait"
  BY <1>1 DEF WaitInv
<1> QED
  BY <1>1, <1>2 DEF TypeOK, RunTask, Report, Task

(* Every step keeps the types. *)
LEMMA NextTypeOK ==
  ASSUME TypeOK, WaitInv, [Next]_vars
  PROVE  TypeOK'
<1>0. /\ \A k \in Hindrances : Spend(k) => spent' \in [Hindrances -> Nat]
      /\ "faults" \in Hindrances
  BY SpendType DEF TypeOK, Hindrances
<1>1. ASSUME NEW v \in Videos, EditVideo(v) PROVE TypeOK'
  <2>1. row' \in [Videos -> Row]
    BY <1>1 DEF TypeOK, EditVideo, Row
  <2> QED
    BY <1>0, <1>1, <2>1 DEF TypeOK, EditVideo, ResetEvent, Hindrances
<1>6. ASSUME NEW v \in Videos, BecomeDue(v) \/ LockAges(v) PROVE TypeOK'
  BY <1>6 DEF TypeOK, BecomeDue, LockAges
<1>2. CASE RenameOwner
  BY <1>0, <1>2 DEF TypeOK, RenameOwner, Hindrances
<1>3. CASE \E i \in Indexers : IndexerStep(i) \/ StopWaiting(i) \/ Halt(i)
  BY <1>3, IndexerTypeOK
<1>4. CASE RunTask
  <2> DEFINE t == Head(tasks)
  <2>1. t \in Task /\ tasks' \in Seq(Task)
    BY <1>4, NextTask DEF TypeOK, RunTask
  <2>2. at' \in [Indexers -> IndexerAt]
    BY <1>4, <2>1 DEF TypeOK, RunTask, Report, Task, IndexerAt
  <2>3. \A i \in Indexers : at'[i] \in Claimed => at[i] \in Claimed
    BY <1>4, ReportedWaits DEF Claimed
  <2>4. index' \in [Videos -> Doc]
    BY <1>4, <2>1 DEF TypeOK, RunTask, Task
  <2>5. spent' \in [{"edits", "renames", "halts", "faults"} -> Nat]
    BY <1>0, <1>4 DEF TypeOK, RunTask, Hindrances
  <2> QED
    BY <1>4, <2>1, <2>2, <2>3, <2>4, <2>5 DEF TypeOK, RunTask
<1>5. CASE UNCHANGED vars
  BY <1>5 DEF TypeOK, vars
<1> QED
  BY <1>1, <1>2, <1>3, <1>4, <1>5, <1>6 DEF Next

-----------------------------------------------------------------------------
(* Who waits for which task.                                               *)

(* A step of an indexer that is not waiting, and leaves the queue alone.   *)
LEMMA WaitFrame ==
  ASSUME TypeOK, WaitInv, NEW i \in Indexers, at[i] # "wait", tasks' = tasks,
         \A j \in Indexers \ {i} :
           at'[j] = at[j] /\ claim'[j] = claim[j] /\ doc'[j] = doc[j]
  PROVE  WaitInv'
<1>1. \A k \in 1 .. Len(tasks) : tasks[k] \in Task
  BY ElementOfSeq DEF TypeOK
<1> QED
  BY <1>1 DEF WaitInv, Task

(* An indexer that stops waiting leaves its task to nobody. *)
LEMMA WaitOrphaned ==
  ASSUME TypeOK, WaitInv, NEW i \in Indexers, tasks' = Orphaned(i),
         UNCHANGED <<claim, doc>>,
         \A j \in Indexers \ {i} : at'[j] = at[j]
  PROVE  WaitInv'
<1>1. \A k \in 1 .. Len(tasks) : tasks[k] \in Task
  BY ElementOfSeq DEF TypeOK
<1>2. /\ Len(tasks') = Len(tasks)
      /\ \A k \in 1 .. Len(tasks) :
           /\ tasks'[k].video = tasks[k].video /\ tasks'[k].doc = tasks[k].doc
           /\ tasks'[k].by = IF tasks[k].by = i THEN Free ELSE tasks[k].by
  BY <1>1, OrphanedTasks, AbandonedTask DEF TypeOK
<1>3. \A k \in 1 .. Len(tasks') : tasks'[k].by # Free =>
        /\ tasks'[k].by = tasks[k].by /\ tasks[k].by # Free
        /\ tasks[k].by \in Indexers \ {i}
  BY <1>1, <1>2 DEF Task
<1> QED
  BY <1>2, <1>3 DEF WaitInv

(* A step of the engine takes the next task, and with it whoever waits.    *)
LEMMA WaitRunTask ==
  ASSUME TypeOK, WaitInv, RunTask
  PROVE  WaitInv'
<1>1. /\ \A k \in 1 .. Len(tasks) : tasks[k] \in Task
      /\ Len(tasks) \in Nat \ {0} /\ Len(tasks') = Len(tasks) - 1
      /\ \A k \in 1 .. Len(tasks') : tasks'[k] = tasks[k + 1] /\ k + 1 \in 1 .. Len(tasks)
      /\ Head(tasks) = tasks[1]
  BY NextTask, ElementOfSeq DEF TypeOK, RunTask
<1>2. UNCHANGED <<claim, doc>>
  BY DEF RunTask
<1>3. ASSUME NEW k \in 1 .. Len(tasks'), tasks'[k].by # Free
      PROVE  /\ at'[tasks'[k].by] = "wait"
             /\ tasks'[k].video = claim'[tasks'[k].by]
             /\ tasks'[k].doc = doc'[tasks'[k].by]
  <2>1. /\ tasks[k + 1].by \in Indexers /\ at[tasks[k + 1].by] = "wait"
        /\ tasks[k + 1].video = claim[tasks[k + 1].by]
        /\ tasks[k + 1].doc = doc[tasks[k + 1].by]
        /\ tasks[1].by # tasks[k + 1].by
    BY <1>1, <1>3 DEF WaitInv, Task
  <2> QED
    BY <1>1, <1>2, <2>1, ReportedWaits
<1>4. ASSUME NEW j \in 1 .. Len(tasks'), NEW k \in 1 .. Len(tasks'),
             tasks'[j].by # Free, tasks'[j].by = tasks'[k].by
      PROVE  j = k
  <2>1. j + 1 = k + 1
    BY <1>1, <1>4 DEF WaitInv
  <2> QED
    BY <1>1, <2>1
<1> QED
  BY <1>3, <1>4 DEF WaitInv

(* Sending a document: the new task is waited for by its sender or nobody. *)
LEMMA WaitSend ==
  ASSUME TypeOK, WaitInv, NEW i \in Indexers, SendDocument(i)
  PROVE  WaitInv'
<1>1. CASE UNCHANGED tasks /\ at'[i] = "defer"
  BY <1>1, WaitFrame DEF SendDocument, Goto, TypeOK
<1>2. CASE \E w \in {i, Free} : /\ tasks' = Append(tasks, TaskOf(i, w))
                                /\ w = i => at'[i] = "wait"
  <2>1. PICK w \in {i, Free} : /\ tasks' = Append(tasks, TaskOf(i, w))
                               /\ w = i => at'[i] = "wait"
    BY <1>2
  <2>2. /\ TaskOf(i, w) \in Task
        /\ TaskOf(i, w).video = claim[i] /\ TaskOf(i, w).doc = doc[i]
        /\ TaskOf(i, w).by = w
    BY DEF TypeOK, SendDocument, Goto, Claimed, TaskOf, Task
  <2>3. /\ Len(tasks) \in Nat /\ Len(tasks') = Len(tasks) + 1
        /\ \A k \in 1 .. Len(tasks) : tasks'[k] = tasks[k] /\ tasks[k] \in Task
        /\ tasks'[Len(tasks) + 1] = TaskOf(i, w)
    BY <2>1, <2>2, NewTask, ElementOfSeq DEF TypeOK
  <2>4. /\ UNCHANGED <<claim, doc>> /\ at[i] = "send"
        /\ \A j \in Indexers \ {i} : at'[j] = at[j]
    BY DEF SendDocument, Goto, TypeOK
  <2>5. \A k \in 1 .. Len(tasks) : tasks[k].by # i
    BY <2>3, <2>4, ConstantsOK DEF WaitInv, ConstantsOK
  <2>6. \A k \in 1 .. Len(tasks') : k \in 1 .. Len(tasks) \/ k = Len(tasks) + 1
    BY <2>3
  <2>7. \A k \in 1 .. Len(tasks) : tasks[k].by # Free => tasks[k].by \in Indexers \ {i}
    BY <2>3, <2>5 DEF Task
  <2>8. ASSUME NEW k \in 1 .. Len(tasks'), tasks'[k].by # Free
        PROVE  /\ at'[tasks'[k].by] = "wait"
               /\ tasks'[k].video = claim'[tasks'[k].by]
               /\ tasks'[k].doc = doc'[tasks'[k].by]
    BY <2>1, <2>2, <2>3, <2>4, <2>6, <2>7, <2>8 DEF WaitInv
  <2>9. ASSUME NEW j \in 1 .. Len(tasks'), NEW k \in 1 .. Len(tasks'),
               tasks'[j].by # Free, tasks'[j].by = tasks'[k].by
        PROVE  j = k
    BY <2>2, <2>3, <2>5, <2>6, <2>9 DEF WaitInv
  <2> QED
    BY <2>8, <2>9 DEF WaitInv
<1>3. \/ tasks' = Append(tasks, TaskOf(i, i)) /\ at'[i] = "wait"
      \/ tasks' = Append(tasks, TaskOf(i, Free)) /\ at'[i] = "defer"
      \/ UNCHANGED tasks /\ at'[i] = "defer"
  BY DEF SendDocument, Goto, TypeOK
<1> QED
  BY <1>1, <1>2, <1>3, ConstantsOK DEF ConstantsOK

(* Every step keeps who waits for what. *)
LEMMA NextWaitInv ==
  ASSUME TypeOK, WaitInv, [Next]_vars
  PROVE  WaitInv'
<1>1. CASE UNCHANGED <<tasks, at, claim, doc>>
  BY <1>1 DEF WaitInv
<1>2. ASSUME NEW v \in Videos, EditVideo(v) \/ BecomeDue(v) \/ LockAges(v)
      PROVE  UNCHANGED <<tasks, at, claim, doc>>
  BY <1>2 DEF EditVideo, BecomeDue, LockAges
<1>3. CASE RenameOwner
  BY <1>1, <1>3 DEF RenameOwner
<1>4. ASSUME NEW i \in Indexers, IndexerStep(i), ~SendDocument(i)
      PROVE  WaitInv'
  <2>1. /\ at[i] # "wait" /\ tasks' = tasks
        /\ \A j \in Indexers \ {i} :
             at'[j] = at[j] /\ claim'[j] = claim[j] /\ doc'[j] = doc[j]
    <3> USE DEF Goto, TypeOK
    <3>1. CASE Start(i) \/ PrepareVideoSearch(i)
      BY <3>1 DEF Start, PrepareVideoSearch
    <3>2. CASE ClaimSearchOutbox(i)
      BY <3>2 DEF ClaimSearchOutbox, ClaimFails
    <3>3. CASE ReadVideo(i)
      BY <3>3 DEF ReadVideo
    <3>4. CASE DeleteEvent(i)
      BY <3>4 DEF DeleteEvent
    <3>5. CASE RetrySearchOutbox(i)
      BY <3>5 DEF RetrySearchOutbox
    <3> QED
      BY <1>4, <3>1, <3>2, <3>3, <3>4, <3>5 DEF IndexerStep
  <2> QED
    BY <2>1, WaitFrame
<1>5. ASSUME NEW i \in Indexers, StopWaiting(i) \/ Halt(i)
      PROVE  WaitInv'
  <2>1. /\ tasks' = Orphaned(i) /\ UNCHANGED <<claim, doc>>
        /\ \A j \in Indexers \ {i} : at'[j] = at[j]
    BY <1>5 DEF StopWaiting, Halt, Goto, TypeOK
  <2> QED
    BY <2>1, WaitOrphaned
<1> QED
  BY <1>1, <1>2, <1>3, <1>4, <1>5, WaitSend, WaitRunTask DEF Next, vars

(* The indexer named by a task of the engine waits for it, and for no      *)
(* other: the result of waitSearchTask is always that of the claim's task. *)
THEOREM WaitingSound == Spec => [](TypeOK /\ WaitInv)
<1>1. Init => WaitInv
  BY EmptySeq DEF Init, WaitInv
<1>2. TypeOK /\ WaitInv /\ [Next]_vars => TypeOK' /\ WaitInv'
  BY NextTypeOK, NextWaitInv
<1> QED
  BY InitTypeOK, <1>1, <1>2, PTL DEF Spec

(* The variables always have their types. *)
THEOREM TypeCorrect == Spec => []TypeOK
  BY WaitingSound, PTL

-----------------------------------------------------------------------------
(* No event is lost, with any number of indexers.                          *)

(* Every step keeps ReadInv. *)
LEMMA NextReadInv ==
  ASSUME TypeOK, WaitInv, ReadInv, [Next]_vars
  PROVE  ReadInv'
<1> SUFFICES ASSUME NEW i \in Indexers, at'[i] \in Reading, Owns(i)'
             PROVE  /\ doc'[i].ver = row'[claim'[i]].ver
                    /\ doc'[i].shown = row'[claim'[i]].shown
  BY DEF ReadInv
<1>0. i # Free
  BY ConstantsOK DEF ConstantsOK
<1>a. ASSUME at[i] \in Reading, Owns(i), UNCHANGED <<row, claim>>, doc'[i] = doc[i]
      PROVE  /\ doc'[i].ver = row'[claim'[i]].ver
             /\ doc'[i].shown = row'[claim'[i]].shown
  BY <1>a DEF ReadInv
<1>1. ASSUME NEW v \in Videos, EditVideo(v)
      PROVE  /\ doc'[i].ver = row'[claim'[i]].ver
             /\ doc'[i].shown = row'[claim'[i]].shown
  <2>1. UNCHANGED <<at, claim, doc>> /\ lock' = [lock EXCEPT ![v] = Free]
    BY <1>1 DEF EditVideo, ResetEvent
  <2>2. claim[i] \in Videos /\ claim[i] # v /\ lock[claim[i]] = i
    BY <1>0, <2>1 DEF Owns, TypeOK, Claimed, Reading
  <2>3. row'[claim[i]] = row[claim[i]] /\ claim[i] \in outbox
    BY <1>1, <2>1, <2>2 DEF EditVideo, ResetEvent, TypeOK, Owns
  <2> QED
    BY <2>1, <2>2, <2>3 DEF ReadInv, Owns
<1>2. ASSUME NEW v \in Videos, BecomeDue(v) \/ LockAges(v)
      PROVE  /\ doc'[i].ver = row'[claim'[i]].ver
             /\ doc'[i].shown = row'[claim'[i]].shown
  BY <1>2, <1>a DEF BecomeDue, LockAges, Owns
<1>3. CASE RenameOwner \/ UNCHANGED vars
  BY <1>3, <1>a DEF RenameOwner, vars, Owns
<1>4. CASE RunTask
  <2>1. at[i] \in Reading
    BY <1>4, ReportedWaits DEF Reading
  <2> QED
    BY <1>4, <1>a, <2>1 DEF RunTask, Owns
<1>5. ASSUME NEW j \in Indexers, IndexerStep(j) \/ StopWaiting(j) \/ Halt(j)
      PROVE  /\ doc'[i].ver = row'[claim'[i]].ver
             /\ doc'[i].shown = row'[claim'[i]].shown
  <2> USE DEF Goto, Reading
  <2>1. CASE Start(j)
    BY <2>1, <1>a DEF Start, TypeOK, Owns
  <2>2. CASE PrepareVideoSearch(j)
    <3>1. CASE lock' = [v \in Videos |-> Free]
      <4>1. claim'[i] \in Videos
        BY <2>2 DEF PrepareVideoSearch, TypeOK, Claimed
      <4> QED
        BY <1>0, <3>1, <4>1 DEF Owns
    <3> QED
      BY <2>2, <3>1, <1>a DEF PrepareVideoSearch, Owns
  <2>3. CASE ClaimSearchOutbox(j)
    <3>1. i # j /\ UNCHANGED <<row, doc, outbox>>
      BY <2>3 DEF ClaimSearchOutbox, ClaimFails, TypeOK
    <3>2. claim'[i] = claim[i] /\ at'[i] = at[i]
      BY <2>3, <3>1 DEF ClaimSearchOutbox, ClaimFails, TypeOK
    <3>3. lock'[claim[i]] = i /\ claim[i] \in Videos
      BY <3>2 DEF Owns, TypeOK, Claimed
    <3>4. lock[claim[i]] = i
      BY <2>3, <3>1, <3>3 DEF ClaimSearchOutbox, TypeOK
    <3> QED
      BY <3>1, <3>2, <3>4 DEF Owns, ReadInv
  <2>4. CASE ReadVideo(j)
    <3>1. CASE i = j
      BY <2>4, <3>1 DEF ReadVideo, Projection, TypeOK
    <3>2. CASE i # j
      BY <2>4, <3>2, <1>a DEF ReadVideo, TypeOK, Owns
    <3> QED
      BY <3>1, <3>2
  <2>5. CASE SendDocument(j)
    BY <2>5, <1>a DEF SendDocument, TypeOK, Owns
  <2>6. CASE DeleteEvent(j)
    <3>1. at[i] \in Reading /\ UNCHANGED <<row, claim, doc>>
      BY <2>6 DEF DeleteEvent, TypeOK
    <3>2. Owns(i)
      BY <1>0, <2>6, <3>1 DEF DeleteEvent, Owns, TypeOK
    <3> QED
      BY <3>1, <3>2, <1>a
  <2>7. CASE RetrySearchOutbox(j)
    <3>1. at[i] \in Reading /\ UNCHANGED <<row, claim, doc, outbox>>
      BY <2>7 DEF RetrySearchOutbox, TypeOK
    <3>2. Owns(i)
      BY <1>0, <2>7, <3>1 DEF RetrySearchOutbox, Owns, TypeOK
    <3> QED
      BY <3>1, <3>2, <1>a
  <2>8. CASE StopWaiting(j) \/ Halt(j)
    BY <2>8, <1>a DEF StopWaiting, Halt, TypeOK, Owns
  <2> QED
    BY <1>5, <2>1, <2>2, <2>3, <2>4, <2>5, <2>6, <2>7, <2>8 DEF IndexerStep
<1> QED
  BY <1>1, <1>2, <1>3, <1>4, <1>5 DEF Next

(* Only the end of a claim that stands takes an outbox row away. *)
LEMMA RemovalCovered ==
  ASSUME TypeOK, ReadInv, [Next]_vars, NEW v \in Videos, v \in outbox, v \notin outbox'
  PROVE  EventCovered(v)
<1>1. \A u \in Videos : EditVideo(u) \/ BecomeDue(u) \/ LockAges(u) => v \in outbox'
  BY DEF EditVideo, ResetEvent, BecomeDue, LockAges
<1>2. RenameOwner \/ RunTask \/ UNCHANGED vars => v \in outbox'
  BY DEF RenameOwner, RunTask, vars
<1>3. PICK i \in Indexers : IndexerStep(i) \/ StopWaiting(i) \/ Halt(i)
  BY <1>1, <1>2 DEF Next
<1>4. DeleteEvent(i)
  BY <1>3 DEF IndexerStep, Start, PrepareVideoSearch, ClaimSearchOutbox, ClaimFails,
              ReadVideo, SendDocument, RetrySearchOutbox, StopWaiting, Halt
<1>5. at[i] = "delete" /\ Owns(i) /\ v = claim[i]
  BY <1>4 DEF DeleteEvent, Goto
<1> QED
  BY <1>5 DEF ReadInv, Reading, EventCovered

(* With any number of indexers, an outbox row is deleted only by an        *)
(* indexer whose document was made from the row as it is now.              *)
THEOREM EventsKept == Spec => NoEventLost
<1>1. Init => ReadInv
  BY DEF Init, ReadInv, Reading
<1>2. TypeOK /\ WaitInv /\ ReadInv /\ [Next]_vars => ReadInv'
  BY NextReadInv
<1>3. TypeOK /\ ReadInv /\ [Next]_vars =>
        [\A v \in Videos : v \in outbox /\ v \notin outbox' => EventCovered(v)]_vars
  BY RemovalCovered
<1> QED
  BY WaitingSound, <1>1, <1>2, <1>3, PTL DEF Spec, NoEventLost

-----------------------------------------------------------------------------
(* Nothing is forgotten, with one indexer and names that do not change.    *)

(* What RunTask does, with one indexer: the queue loses its first task,    *)
(* and if the indexer learns of success, the queue is empty.               *)
LEMMA SoleRunTask ==
  ASSUME TypeOK, WaitInv, SoleInv, RunTask, NEW i, Indexers = {i}
  PROVE  SoleInv'
<1> DEFINE t == Head(tasks)
<1>1. /\ \A k \in 1 .. Len(tasks) : tasks[k] \in Task
      /\ Len(tasks) \in Nat \ {0} /\ Len(tasks') = Len(tasks) - 1
      /\ \A k \in 1 .. Len(tasks') : tasks'[k] = tasks[k + 1] /\ k + 1 \in 1 .. Len(tasks)
      /\ t = tasks[1] /\ t \in Task
      /\ tasks' \in Seq(Task) /\ DOMAIN tasks = 1 .. Len(tasks)
      /\ DOMAIN tasks' = 1 .. Len(tasks')
  BY NextTask, ElementOfSeq, LenProperties DEF TypeOK, RunTask
<1>2. UNCHANGED <<row, name, outbox, claim, doc>>
  BY DEF RunTask
<1>3. \A v \in Videos \ outbox :
        /\ v # t.video /\ index'[v] = index[v]
        /\ \A k \in 1 .. Len(tasks') : tasks'[k].video # v
  <2> SUFFICES ASSUME NEW v \in Videos \ outbox
               PROVE  /\ v # t.video /\ index'[v] = index[v]
                      /\ \A k \in 1 .. Len(tasks') : tasks'[k].video # v
    OBVIOUS
  <2>1. \A k \in 1 .. Len(tasks) : tasks[k].video # v
    BY <1>1 DEF SoleInv, NothingForgotten
  <2>2. v # t.video
    BY <1>1, <2>1
  <2>3. index'[v] = index[v]
    BY <1>1, <2>2 DEF RunTask, TypeOK
  <2> QED
    BY <1>1, <2>1, <2>2, <2>3
<1>4. NothingForgotten'
  BY <1>1, <1>2, <1>3 DEF SoleInv, NothingForgotten, UpToDate, Projection
<1>5. \/ at'[i] = at[i]
      \/ at[i] = "wait" /\ t.by = i /\ at'[i] \in {"delete", "defer"}
  BY ReportedWaits
<1>6. at'[i] \in Claimed => claim'[i] \in outbox'
  BY <1>2, <1>5 DEF SoleInv, Claimed
<1>7. at'[i] \in Reading => doc'[i].name = name'
  BY <1>2, <1>5 DEF SoleInv, Reading
<1>8. ASSUME at'[i] = "wait"
      PROVE  tasks' # <<>> /\ tasks'[Len(tasks')].by = i
  <2>1. at[i] = "wait" /\ tasks[Len(tasks)].by = i
    BY <1>5, <1>8 DEF SoleInv
  <2>2. t.by # i
    BY <1>8, ConstantsOK DEF RunTask, Report, TypeOK, ConstantsOK
  <2>3. Len(tasks) # 1
    BY <1>1, <2>1, <2>2
  <2> QED
    BY <1>1, <2>1, <2>3, EmptySeq
<1>9. ASSUME at'[i] = "delete"
      PROVE  tasks' = <<>> /\ index'[claim'[i]] = doc'[i]
  <2>1. at[i] = "wait" /\ t.by = i
    BY <1>5, <1>9, <1>1, EmptySeq DEF SoleInv
  <2>2. tasks[Len(tasks)].by = i /\ i # Free
    BY <2>1, ConstantsOK DEF SoleInv, ConstantsOK
  <2>3. Len(tasks) = 1
    BY <1>1, <2>1, <2>2 DEF WaitInv
  <2>4. tasks' = <<>>
    BY <1>1, <2>3, EmptySeq
  <2>5. t.video = claim[i] /\ t.doc = doc[i]
    BY <1>1, <2>1, <2>2 DEF WaitInv
  <2>6. index' = [index EXCEPT ![t.video] = t.doc]
    BY <1>9, <2>1, <2>2 DEF RunTask, Report, TypeOK
  <2> QED
    BY <1>1, <1>2, <2>4, <2>5, <2>6 DEF TypeOK, Task
<1> QED
  BY <1>4, <1>6, <1>7, <1>8, <1>9 DEF SoleInv

(* The indexer's steps that leave the engine and the tables alone.         *)
LEMMA SoleFrame ==
  ASSUME SoleInv, NEW i, Indexers = {i},
         UNCHANGED <<row, name, outbox, tasks, index>>,
         at'[i] \notin {"wait", "delete"},
         at'[i] \in Claimed => claim'[i] \in outbox,
         at'[i] \in Reading => doc'[i].name = name
  PROVE  SoleInv'
<1>1. NothingForgotten'
  BY DEF SoleInv, NothingForgotten, UpToDate, Projection
<1> QED
  BY <1>1 DEF SoleInv

(* Sending a document of a claimed video adds a task of an outbox row.     *)
LEMMA SoleSend ==
  ASSUME TypeOK, SoleInv, NEW i, Indexers = {i}, SendDocument(i)
  PROVE  SoleInv'
<1>1. /\ UNCHANGED <<row, name, outbox, index, claim, doc>>
      /\ at[i] = "send" /\ claim[i] \in outbox /\ doc[i].name = name
      /\ at'[i] \in {"wait", "defer"}
  BY DEF SendDocument, Goto, SoleInv, Claimed, Reading, TypeOK
<1>2. \/ UNCHANGED tasks /\ at'[i] = "defer"
      \/ tasks' = Append(tasks, TaskOf(i, i))
      \/ tasks' = Append(tasks, TaskOf(i, Free)) /\ at'[i] = "defer"
  BY DEF SendDocument, Goto, TypeOK
<1>3. CASE UNCHANGED tasks /\ at'[i] = "defer"
  BY <1>1, <1>3, SoleFrame DEF Reading
<1>4. ASSUME NEW w \in {i, Free}, tasks' = Append(tasks, TaskOf(i, w)),
             w = Free => at'[i] = "defer"
      PROVE  SoleInv'
  <2>1. TaskOf(i, w) \in Task /\ TaskOf(i, w).video = claim[i] /\ TaskOf(i, w).by = w
    BY <1>1 DEF TypeOK, Claimed, TaskOf, Task
  <2>2. /\ Len(tasks) \in Nat /\ Len(tasks') = Len(tasks) + 1
        /\ \A k \in 1 .. Len(tasks) : tasks'[k] = tasks[k]
        /\ tasks'[Len(tasks) + 1] = TaskOf(i, w)
        /\ DOMAIN tasks = 1 .. Len(tasks) /\ DOMAIN tasks' = 1 .. Len(tasks')
        /\ tasks' # <<>>
    BY <1>4, <2>1, NewTask, LenProperties, EmptySeq DEF TypeOK
  <2>3. \A k \in 1 .. Len(tasks') : k \in 1 .. Len(tasks) \/ k = Len(tasks) + 1
    BY <2>2
  <2>4. \A v \in Videos \ outbox : \A k \in 1 .. Len(tasks') : tasks'[k].video # v
    BY <1>1, <2>1, <2>2, <2>3 DEF SoleInv, NothingForgotten
  <2>5. NothingForgotten'
    BY <1>1, <2>2, <2>4 DEF SoleInv, NothingForgotten, UpToDate, Projection
  <2>6. at'[i] = "wait" => tasks'[Len(tasks')].by = i
    BY <1>4, <2>1, <2>2
  <2> QED
    BY <1>1, <2>2, <2>5, <2>6 DEF SoleInv, Claimed, Reading
<1>5. i # Free
  BY ConstantsOK DEF ConstantsOK
<1> QED
  BY <1>2, <1>3, <1>4, <1>5

(* Giving up on a task leaves the queue's videos as they are.              *)
LEMMA SoleOrphaned ==
  ASSUME TypeOK, SoleInv, NEW i, Indexers = {i}, StopWaiting(i) \/ Halt(i)
  PROVE  SoleInv'
<1>1. /\ UNCHANGED <<row, name, outbox, index, claim, doc>> /\ tasks' = Orphaned(i)
      /\ at'[i] \in {"defer", "down"} /\ (at'[i] = "defer" => at[i] = "wait")
  BY DEF StopWaiting, Halt, Goto, TypeOK
<1>2. /\ \A k \in 1 .. Len(tasks) : tasks'[k].video = tasks[k].video
      /\ Len(tasks') = Len(tasks)
      /\ DOMAIN tasks = 1 .. Len(tasks) /\ DOMAIN tasks' = 1 .. Len(tasks')
  BY <1>1, OrphanedTasks, AbandonedTask, ElementOfSeq, LenProperties DEF TypeOK
<1>3. NothingForgotten'
  BY <1>1, <1>2 DEF SoleInv, NothingForgotten, UpToDate, Projection
<1> QED
  BY <1>1, <1>3 DEF SoleInv, Claimed, Reading

(* The end of a claim that stands: what was sent is what the row says.     *)
LEMMA SoleDelete ==
  ASSUME TypeOK, ReadInv, SoleInv, NEW i, Indexers = {i}, DeleteEvent(i)
  PROVE  SoleInv'
<1>1. CASE UNCHANGED outbox
  BY <1>1, SoleFrame DEF DeleteEvent, Goto, TypeOK, Claimed, Reading
<1>2. CASE Owns(i) /\ outbox' = outbox \ {claim[i]}
  <2>1. /\ UNCHANGED <<row, name, tasks, index>>
        /\ at[i] = "delete" /\ at'[i] \in {"ready", "unready"}
        /\ tasks = <<>> /\ index[claim[i]] = doc[i] /\ doc[i].name = name
    BY DEF DeleteEvent, Goto, TypeOK, SoleInv, Reading
  <2>2. claim[i] \in Videos /\ doc[i] = Projection(claim[i])
    BY <1>2, <2>1 DEF ReadInv, Reading, TypeOK, Projection, Doc, Claimed
  <2>3. UpToDate(claim[i])
    BY <2>1, <2>2 DEF UpToDate, Projection
  <2>4. \A v \in Videos \ outbox' : UpToDate(v)
    BY <1>2, <2>3 DEF SoleInv, NothingForgotten
  <2>5. DOMAIN tasks = {}
    BY <2>1
  <2>6. NothingForgotten'
    BY <2>1, <2>4, <2>5 DEF NothingForgotten, UpToDate, Projection
  <2> QED
    BY <2>1, <2>6 DEF SoleInv, Claimed, Reading
<1> QED
  BY <1>1, <1>2 DEF DeleteEvent

(* Every step keeps SoleInv. *)
LEMMA NextSoleInv ==
  ASSUME TypeOK, WaitInv, ReadInv, SoleInv, [Next]_vars,
         NEW i, Indexers = {i}, MaxRenames = 0
  PROVE  SoleInv'
<1>1. ASSUME NEW v \in Videos, EditVideo(v) PROVE SoleInv'
  <2>1. /\ UNCHANGED <<name, tasks, index, at, claim, doc>>
        /\ outbox' = outbox \cup {v}
        /\ \A u \in Videos \ {v} : row'[u] = row[u]
    BY <1>1 DEF EditVideo, ResetEvent, TypeOK
  <2>2. NothingForgotten'
    BY <2>1 DEF SoleInv, NothingForgotten, UpToDate, Projection
  <2> QED
    BY <2>1, <2>2 DEF SoleInv
<1>2. ASSUME UNCHANGED <<row, name, outbox, tasks, index, at, claim, doc>> PROVE SoleInv'
  BY <1>2 DEF SoleInv, NothingForgotten, UpToDate, Projection
<1>3. CASE RenameOwner
  BY <1>3 DEF RenameOwner, Spend, Bounds, TypeOK
<1>4. CASE RunTask
  BY <1>4, SoleRunTask
<1>5. ASSUME NEW v \in Videos, BecomeDue(v) \/ LockAges(v) PROVE SoleInv'
  BY <1>2, <1>5 DEF BecomeDue, LockAges
<1>6. CASE PrepareVideoSearch(i) /\ outbox' = Videos
  <2>1. UNCHANGED <<tasks, index, claim>> /\ at'[i] \in {"ready", "unready"}
    BY <1>6 DEF PrepareVideoSearch, Goto, TypeOK
  <2>2. NothingForgotten'
    BY <1>6 DEF NothingForgotten
  <2> QED
    BY <2>1, <2>2 DEF SoleInv, Claimed, Reading
<1>7. CASE Start(i) \/ (PrepareVideoSearch(i) /\ UNCHANGED outbox) \/ ClaimSearchOutbox(i)
  <2>1. UNCHANGED <<row, name, outbox, tasks, index>>
    BY <1>7 DEF Start, PrepareVideoSearch, ClaimSearchOutbox, ClaimFails
  <2>2. at'[i] \in {"unready", "ready", "read"}
    BY <1>7 DEF Start, PrepareVideoSearch, ClaimSearchOutbox, ClaimFails, Goto, TypeOK
  <2>3. at'[i] = "read" => claim'[i] \in outbox
    BY <1>7 DEF Start, PrepareVideoSearch, ClaimSearchOutbox, ClaimFails, Goto, TypeOK
  <2> QED
    BY <2>1, <2>2, <2>3, SoleFrame DEF Claimed, Reading
<1>8. CASE ReadVideo(i)
  <2>1. UNCHANGED <<row, name, outbox, tasks, index, claim>> /\ claim[i] \in outbox
    BY <1>8 DEF ReadVideo, Goto, SoleInv, Claimed
  <2>2. at'[i] = "defer" \/ (at'[i] = "send" /\ doc'[i].name = name)
    BY <1>8 DEF ReadVideo, Goto, TypeOK, Projection
  <2> QED
    BY <2>1, <2>2, SoleFrame DEF Reading
<1>9. CASE RetrySearchOutbox(i)
  BY <1>9, SoleFrame DEF RetrySearchOutbox, Goto, TypeOK, Claimed, Reading
<1>10. PrepareVideoSearch(i) => outbox' = Videos \/ UNCHANGED outbox
  BY DEF PrepareVideoSearch
<1> QED
  BY <1>1, <1>2, <1>3, <1>4, <1>5, <1>6, <1>7, <1>8, <1>9, <1>10,
     SoleSend, SoleDelete, SoleOrphaned DEF Next, IndexerStep, vars

(* One indexer, whatever crashes, faults and edits there are: a video that *)
(* has no outbox row is indexed as it is, and will stay so until it is     *)
(* changed.  With two indexers or a rename it fails: finding_two_indexers, *)
(* and MaxRenames = 1 in search_one.                                       *)
THEOREM IndexFollows ==
  ASSUME NEW i, Indexers = {i}, MaxRenames = 0
  PROVE  Spec => []NothingForgotten
<1>1. Init => ReadInv /\ SoleInv
  BY DEF Init, ReadInv, Reading, Claimed, SoleInv, NothingForgotten
<1>2. TypeOK /\ WaitInv /\ ReadInv /\ SoleInv /\ [Next]_vars => ReadInv' /\ SoleInv'
  BY NextReadInv, NextSoleInv
<1>3. SoleInv => NothingForgotten
  BY DEF SoleInv
<1> QED
  BY WaitingSound, <1>1, <1>2, <1>3, PTL DEF Spec
=============================================================================
