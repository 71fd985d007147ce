---------------------------- MODULE SearchOutbox ----------------------------
(***************************************************************************)
(* The search projection: the trigger on videos that keeps one outbox row  *)
(* for each changed video, the SearchIndexer that claims an outbox row,    *)
(* reads the video, sends its document (or its deletion) to the search     *)
(* engine, waits for the engine's task and deletes the outbox row, and the *)
(* engine, which runs the tasks of an index in the order it received them. *)
(*                                                                         *)
(* One action is one database transaction, one request to the engine, or   *)
(* one task of the engine.  A video's searchable columns are a version     *)
(* number and whether the video may be found (published, not deleted); the *)
(* owner's display name, which the document copies from another table, is  *)
(* a version number too.                                                   *)
(***************************************************************************)
EXTENDS Integers, FiniteSets, SequencesExt

CONSTANTS
  Videos,       \* ids of the rows of the videos table
  Indexers,     \* application processes, each with one SearchIndexer
  Free,         \* no indexer: locked_at is NULL, or nobody waits for a task
  Rejected,     \* videos whose document the engine's task always refuses
  SlowIndexer,  \* a live indexer may hold a claim for more than a minute
  MaxEdits,     \* bounds: changes of a video row,
  MaxRenames,   \*   changes of the owner's display name,
  MaxHalts,     \*   ends of a process, by Stop or by a crash,
  MaxFaults     \*   failed requests, failed tasks, cancelled contexts

ASSUME ConstantsOK ==
  /\ Videos \subseteq Nat \ {0} /\ IsFiniteSet(Videos)
  /\ Free \notin Indexers
  /\ Rejected \subseteq Videos /\ SlowIndexer \in BOOLEAN
  /\ MaxEdits \in Nat /\ MaxRenames \in Nat
  /\ MaxHalts \in Nat /\ MaxFaults \in Nat

VARIABLES
  row,      \* [Videos -> Row], the searchable part of the videos table
  name,     \* version of the owner's display name
  outbox,   \* SUBSET Videos: the rows of video_search_outbox
  lock,     \* [Videos -> Indexers \cup {Free}], locked_at
  aged,     \* SUBSET Videos: locked_at is more than a minute ago
  due,      \* outbox rows with available_at <= now, by available_at, video_id
  tasks,    \* the engine's queue of tasks
  index,    \* [Videos -> Doc], what the index holds
  at,       \* [Indexers -> IndexerAt]
  claim,    \* [Indexers -> Videos \cup {NoVideo}]
  doc,      \* [Indexers -> Doc], what was read for the claim
  spent     \* how much of each bound is used

vars == <<row, name, outbox, lock, aged, due, tasks, index, at, claim, doc, spent>>

NoVideo == 0

Row == [ver : Nat, shown : BOOLEAN]
(* shown = FALSE: there is no document; ver is then the version of the row *)
(* that had it removed.                                                    *)
Doc == [ver : Nat, shown : BOOLEAN, name : Nat]

Task == [video : Videos, doc : Doc, by : Indexers \cup {Free}]

IndexerAt == {"down", "unready", "ready", "read", "send", "wait", "delete", "defer"}
Claimed   == {"read", "send", "wait", "delete", "defer"}

Bounds == [edits |-> MaxEdits, renames |-> MaxRenames, halts |-> MaxHalts,
           faults |-> MaxFaults]

Spend(k) ==
  /\ spent[k] < Bounds[k]
  /\ spent' = [spent EXCEPT ![k] = @ + 1]

Projection(v) == [ver |-> row[v].ver, shown |-> row[v].shown, name |-> name]

ById == SetToSortSeq(Videos, <)

(* Migration 7 enqueued every video; the index is new. *)
Init ==
  /\ row \in [Videos -> [ver : {0}, shown : BOOLEAN]]
  /\ name = 0
  /\ outbox = Videos
  /\ lock = [v \in Videos |-> Free]
  /\ aged = {}
  /\ due = ById
  /\ tasks = <<>>
  /\ index = [v \in Videos |-> [ver |-> 0, shown |-> FALSE, name |-> 0]]
  /\ at = [i \in Indexers |-> "down"]
  /\ claim = [i \in Indexers |-> NoVideo]
  /\ doc = [i \in Indexers |-> [ver |-> 0, shown |-> FALSE, name |-> 0]]
  /\ spent = [k \in DOMAIN Bounds |-> 0]

-----------------------------------------------------------------------------
(* The rest of the application.                                            *)

(* Seeded fault: ON CONFLICT DO NOTHING. *)
InsertEvent(v) ==
  /\ outbox' = outbox \cup {v}
  /\ due' = IF v \in outbox THEN due ELSE Append(due, v)
  /\ UNCHANGED <<lock, aged>>

(* The trigger: a new event replaces the old one, whoever has claimed it.  *)
ResetEvent(v) ==
  /\ outbox' = outbox \cup {v}
  /\ lock' = [lock EXCEPT ![v] = Free]
  /\ aged' = aged \ {v}
  /\ due' = Append(Remove(due, v), v)

(* Any transaction that changes one of the columns the trigger names. *)
EditVideo(v) ==
  /\ Spend("edits")
  /\ \E s \in BOOLEAN : row' = [row EXCEPT ![v] = [ver |-> @.ver + 1, shown |-> s]]
  /\ ResetEvent(v)
  /\ UNCHANGED <<name, tasks, index, at, claim, doc>>

(* UpdateUserProfile writes to users, which has no trigger. *)
RenameOwner ==
  /\ Spend("renames")
  /\ name' = name + 1
  /\ UNCHANGED <<row, outbox, lock, aged, due, tasks, index, at, claim, doc>>

(* Time passes: the retry delay of an outbox row is over. *)
BecomeDue(v) ==
  /\ v \in outbox \ ToSet(due)
  /\ due' = Append(due, v)
  /\ UNCHANGED <<row, name, outbox, lock, aged, tasks, index, at, claim, doc, spent>>

Held(v) == \E i \in Indexers : lock[v] = i /\ claim[i] = v /\ at[i] \in Claimed

(* Time passes: a claim is a minute old. *)
LockAges(v) ==
  /\ lock[v] # Free /\ v \notin aged
  /\ ~Held(v) \/ SlowIndexer
  /\ aged' = aged \cup {v}
  /\ UNCHANGED <<row, name, outbox, lock, due, tasks, index, at, claim, doc, spent>>

-----------------------------------------------------------------------------
(* The indexer.                                                            *)

Goto(i, from, to) ==
  /\ at[i] = from
  /\ at' = [at EXCEPT ![i] = to]

Start(i) ==
  /\ Goto(i, "down", "unready")
  /\ UNCHANGED <<row, name, outbox, lock, aged, due, tasks, index, claim, doc, spent>>

(* Ensure configures the index; then every video is enqueued as due now,   *)
(* with its lock and its retry delay gone.  Ensure's own task is left out. *)
PrepareVideoSearch(i) ==
  \/ /\ Goto(i, "unready", "ready")
     /\ outbox' = Videos
     /\ lock' = [v \in Videos |-> Free]
     /\ aged' = {}
     /\ due' = ById
     /\ UNCHANGED <<row, name, tasks, index, claim, doc, spent>>
  \/ /\ at[i] = "unready" /\ Spend("faults")
     /\ UNCHANGED <<row, name, outbox, lock, aged, due, tasks, index, at, claim, doc>>

Claimable(v) == lock[v] = Free \/ v \in aged

(* The query or the update fails, and no row is locked. *)
ClaimFails(i) == Goto(i, "ready", "unready") /\ Spend("faults")

(* The first claimable row by available_at. *)
FirstDue(v) ==
  \E k \in DOMAIN due :
    /\ due[k] = v /\ Claimable(v)
    /\ \A j \in 1 .. k - 1 : ~Claimable(due[j])

ClaimSearchOutbox(i) ==
  \/ \E v \in outbox :
       /\ Goto(i, "ready", "read")
       /\ FirstDue(v)
       /\ lock' = [lock EXCEPT ![v] = i]
       /\ aged' = aged \ {v}
       /\ claim' = [claim EXCEPT ![i] = v]
       /\ UNCHANGED <<row, name, outbox, due, tasks, index, doc, spent>>
  \/ /\ ClaimFails(i)
     /\ UNCHANGED <<row, name, outbox, lock, aged, due, tasks, index, claim, doc>>

(* The video is read after the claim has been committed. *)
ReadVideo(i) ==
  \/ /\ Goto(i, "read", "send")
     /\ doc' = [doc EXCEPT ![i] = Projection(claim[i])]
     /\ UNCHANGED <<row, name, outbox, lock, aged, due, tasks, index, claim, spent>>
  \/ /\ Goto(i, "read", "defer") /\ Spend("faults")
     /\ UNCHANGED <<row, name, outbox, lock, aged, due, tasks, index, claim, doc>>

TaskOf(i, waiter) == [video |-> claim[i], doc |-> doc[i], by |-> waiter]

(* Upsert or Delete: the engine queues a task.  A failed request may have  *)
(* been received.                                                          *)
SendDocument(i) ==
  /\ \/ /\ Goto(i, "send", "wait")
        /\ tasks' = Append(tasks, TaskOf(i, i))
        /\ UNCHANGED spent
     \/ /\ Goto(i, "send", "defer") /\ Spend("faults")
        /\ \/ tasks' = Append(tasks, TaskOf(i, Free))
           \/ UNCHANGED tasks
  /\ UNCHANGED <<row, name, outbox, lock, aged, due, index, claim, doc>>

(* Nobody waits for the task of i any more. *)
Abandoned(t, i) == IF t.by = i THEN [t EXCEPT !.by = Free] ELSE t
Orphaned(i) == [k \in DOMAIN tasks |-> Abandoned(tasks[k], i)]

(* waitSearchTask fails: polling failed or the context was cancelled. *)
StopWaiting(i) ==
  /\ Goto(i, "wait", "defer") /\ Spend("faults")
  /\ tasks' = Orphaned(i)
  /\ UNCHANGED <<row, name, outbox, lock, aged, due, index, claim, doc>>

(* Seeded fault: the outbox row is taken whatever locked_at says. *)
OwnsAny(i) == claim[i] \in outbox

(* Seeded fault: locked_at is compared with more digits than are stored. *)
OwnsNever(i) == FALSE

(* The claim still stands: no event, preparation or other claim came since. *)
Owns(i) == claim[i] \in outbox /\ lock[claim[i]] = i

(* The outbox row goes only if the claim still stands. *)
DeleteEvent(i) ==
  \/ /\ Goto(i, "delete", "ready")
     /\ \/ /\ Owns(i)
           /\ outbox' = outbox \ {claim[i]}
           /\ lock' = [lock EXCEPT ![claim[i]] = Free]
           /\ aged' = aged \ {claim[i]}
           /\ due' = Remove(due, claim[i])
        \/ ~Owns(i) /\ UNCHANGED <<outbox, lock, aged, due>>
     /\ UNCHANGED <<row, name, tasks, index, claim, doc, spent>>
  \/ /\ Goto(i, "delete", "unready") /\ Spend("faults")
     /\ UNCHANGED <<row, name, outbox, lock, aged, due, tasks, index, claim, doc>>

(* The claim is released and its row is due again after a delay; an error  *)
(* of the update is ignored.                                               *)
RetrySearchOutbox(i) ==
  /\ Goto(i, "defer", "unready")
  /\ \/ /\ Owns(i)
        /\ lock' = [lock EXCEPT ![claim[i]] = Free]
        /\ aged' = aged \ {claim[i]}
        /\ due' = Remove(due, claim[i])
        /\ UNCHANGED spent
     \/ ~Owns(i) /\ UNCHANGED <<lock, aged, due, spent>>
     \/ Spend("faults") /\ UNCHANGED <<lock, aged, due>>
  /\ UNCHANGED <<row, name, outbox, tasks, index, claim, doc>>

(* The process ends at any point.  Stop cancels the context first, which   *)
(* is a fault of the step under way, and then ends the loop.               *)
Halt(i) ==
  /\ at[i] # "down" /\ Spend("halts")
  /\ at' = [at EXCEPT ![i] = "down"]
  /\ tasks' = Orphaned(i)
  /\ UNCHANGED <<row, name, outbox, lock, aged, due, index, claim, doc>>

IndexerStep(i) ==
  \/ Start(i) \/ PrepareVideoSearch(i) \/ ClaimSearchOutbox(i) \/ ReadVideo(i)
  \/ SendDocument(i) \/ DeleteEvent(i) \/ RetrySearchOutbox(i)

-----------------------------------------------------------------------------
(* The engine.                                                             *)

(* A waiting indexer learns how its task ended. *)
Report(t, next) ==
  IF t.by = Free THEN UNCHANGED at ELSE at' = [at EXCEPT ![t.by] = next]

RunTask ==
  /\ tasks # <<>>
  /\ tasks' = Tail(tasks)
  /\ LET t == Head(tasks) IN
     \/ /\ ~(t.video \in Rejected /\ t.doc.shown)
        /\ index' = [index EXCEPT ![t.video] = t.doc]
        /\ Report(t, "delete")
        /\ UNCHANGED spent
     \/ /\ Report(t, "defer")
        /\ \/ t.video \in Rejected /\ t.doc.shown /\ UNCHANGED spent
           \/ Spend("faults")
        /\ UNCHANGED index
  /\ UNCHANGED <<row, name, outbox, lock, aged, due, claim, doc>>

Next ==
  \/ \E v \in Videos : EditVideo(v) \/ BecomeDue(v) \/ LockAges(v)
  \/ RenameOwner
  \/ \E i \in Indexers : IndexerStep(i) \/ StopWaiting(i) \/ Halt(i)
  \/ RunTask

Spec == Init /\ [][Next]_vars

(* The loop polls on a timer, a stopped process is started again, and the  *)
(* engine works off its queue.  Edits, renames, halts and faults need not  *)
(* happen.                                                                 *)
Fairness ==
  /\ \A i \in Indexers : WF_vars(IndexerStep(i))
  /\ \A v \in Videos : WF_vars(BecomeDue(v))
  /\ WF_vars(RunTask)

FairSpec == Spec /\ Fairness

-----------------------------------------------------------------------------
(* Properties.                                                             *)

TypeOK ==
  /\ row \in [Videos -> Row] /\ name \in Nat
  /\ outbox \subseteq Videos
  /\ lock \in [Videos -> Indexers \cup {Free}]
  /\ aged \subseteq Videos
  /\ tasks \in Seq(Task)
  /\ index \in [Videos -> Doc]
  /\ at \in [Indexers -> IndexerAt]
  /\ claim \in [Indexers -> Videos \cup {NoVideo}]
  /\ \A i \in Indexers : at[i] \in Claimed => claim[i] \in Videos
  /\ doc \in [Indexers -> Doc]
  /\ spent \in [{"edits", "renames", "halts", "faults"} -> Nat]

(* What the index holds of v is what the tables say. *)
UpToDate(v) ==
  /\ index[v].shown = row[v].shown
  /\ row[v].shown => index[v] = Projection(v)

(* However claims, edits, retries and crashes interleave, and with any     *)
(* number of indexers: when an outbox row is deleted, the document its     *)
(* indexer sent was made from the row as it is now.  An event that arrived *)
(* after the row was read is not deleted with the one it replaced          *)
(* (locked_at in ProcessNextVideoSearchUpdate).                            *)
EventCovered(v) ==
  \E i \in Indexers : /\ claim[i] = v /\ at[i] = "delete"
                      /\ doc[i].ver = row[v].ver /\ doc[i].shown = row[v].shown
NoEventLost ==
  [][\A v \in Videos : v \in outbox /\ v \notin outbox' => EventCovered(v)]_vars

(* A video without an outbox row is indexed as it is, and no task in the   *)
(* engine's queue will change that: the outbox holds everything still to   *)
(* be done, over crashes, cancelled requests and failed tasks.             *)
NothingForgotten ==
  \A v \in Videos \ outbox :
    UpToDate(v) /\ \A k \in DOMAIN tasks : tasks[k].video # v

Reading == {"send", "wait", "delete"}     \* doc[i] has been read

(* Whoever is named by a task waits for it, and for no other. *)
WaitInv ==
  /\ \A k \in 1 .. Len(tasks) : tasks[k].by # Free =>
       /\ at[tasks[k].by] = "wait"
       /\ tasks[k].video = claim[tasks[k].by]
       /\ tasks[k].doc = doc[tasks[k].by]
  /\ \A j, k \in 1 .. Len(tasks) :
       tasks[j].by # Free /\ tasks[j].by = tasks[k].by => j = k

(* As long as a claim stands, what was read for it is the row as it is. *)
ReadInv ==
  \A i \in Indexers : at[i] \in Reading /\ Owns(i) =>
    doc[i].ver = row[claim[i]].ver /\ doc[i].shown = row[claim[i]].shown

(* With one indexer, its task is the last, so that nothing is queued any   *)
(* more when it is told that the task has succeeded.                       *)
SoleInv ==
  /\ \A i \in Indexers :
       /\ at[i] \in Claimed => claim[i] \in outbox
       /\ at[i] \in Reading => doc[i].name = name
       /\ at[i] = "wait" => tasks # <<>> /\ tasks[Len(tasks)].by = i
       /\ at[i] = "delete" => tasks = <<>> /\ index[claim[i]] = doc[i]
  /\ NothingForgotten

(* With nothing left to do for a video, neither in the outbox nor in the   *)
(* engine's queue, the index has it as it is: the projection is kept       *)
(* current (search_indexer.go:16).                                         *)
SettledIsCurrent ==
  \A v \in Videos \ outbox :
    (\A k \in DOMAIN tasks : tasks[k].video # v) => UpToDate(v)

(* Once edits, faults and halts cease, the index follows the tables.       *)
Converges == <>[](\A v \in Videos : UpToDate(v))

(* The outbox is drained, however many indexers share it. *)
Drains == <>[](outbox = {})

(* A document the engine refuses does not keep the others from being       *)
(* indexed ("drains durable updates", search_indexer.go:36).               *)
OthersConverge == <>[](\A v \in Videos \ Rejected : UpToDate(v))
=============================================================================
