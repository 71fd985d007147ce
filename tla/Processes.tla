----------------------------- MODULE Processes -----------------------------
(***************************************************************************)
(* Server processes from start to end (cmd/bilibili-lite/main.go): each    *)
(* one migrates the schema and seeds the administrator (internal/data),    *)
(* runs the four background workers (internal/worker) and, when asked to   *)
(* stop, stops them and closes its database.  Several processes may start  *)
(* on one database, with binaries that embed different migrations.         *)
(*                                                                         *)
(* A worker is a Start method with its loops.  The janitor, the indexer    *)
(* and the refresher loop in Start itself; the transcoder's Start recovers *)
(* stale claims once, begins its pool of loops, and goes on looping over   *)
(* stale claims beside it.  Kratos calls Start and Stop on goroutines of   *)
(* their own.                                                              *)
(***************************************************************************)
EXTENDS Naturals

CONSTANTS
    Procs,        \* server processes
    Nobody,       \* the advisory lock is free
    Last,         \* Last[p]: number of the last migration embedded in p's binary
    Seeds,        \* processes configured to seed the administrator
    Workers,      \* background workers of one process
    Loops,        \* loops of all workers of one process, those of Start among them
    Main,         \* the loops Start methods run themselves, the others form pools
    Owner,        \* Owner[l]: the worker loop l belongs to
    MaxCrashes    \* bound on processes killed

ASSUME ProcessesAssumption ==
    /\ Last \in [Procs -> Nat]
    /\ Nobody \notin Procs
    /\ Seeds \subseteq Procs
    /\ Main \subseteq Loops
    /\ Owner \in [Loops -> Workers]
    /\ MaxCrashes \in Nat

VARIABLES
    at,           \* where main() of a process is
    step,         \* the migration a process is at
    tableExists,  \* schema_migrations exists
    applied,      \* migrations recorded in schema_migrations
    executed,     \* executed[v]: committed executions of migration v's script
    lock,         \* holder of the migrations' advisory lock
    role,         \* role of the account called admin, or "absent"
    starts,       \* starts[p][w]: progress of the worker's Start
    loops,        \* loops[p][l]: what a loop is doing
    stops,        \* stops[p][w]: progress of the worker's Stop
    crashes       \* processes killed so far

schema == <<tableExists, applied, executed, lock, role>>
workers == <<starts, loops, stops>>
vars == <<at, step, schema, workers, crashes>>

Versions == UNION {1 .. Last[p] : p \in Procs}
Places == {"off", "open", "creating", "migrate", "locked", "recorded", "seed", "wired",
           "serving", "stopping", "closed", "failed", "killed"}
Starts == {"no", "called", "preparing", "running", "returned"}
Stops == {"no", "asked", "nil", "missed", "expired"}
Doing == {"idle", "busy", "gone"}

Init ==
    /\ at = [p \in Procs |-> "off"]
    /\ step = [p \in Procs |-> 1]
    /\ tableExists = FALSE
    /\ applied = {}
    /\ executed = [v \in Versions |-> 0]
    /\ lock = Nobody
    /\ role = "absent"
    /\ starts = [p \in Procs |-> [w \in Workers |-> "no"]]
    /\ loops = [p \in Procs |-> [l \in Loops |-> "gone"]]
    /\ stops = [p \in Procs |-> [w \in Workers |-> "no"]]
    /\ crashes = 0

Goto(p, place) == at' = [at EXCEPT ![p] = place]

----------------------------------------------------------------------------
\* Start-up: wireApp calls NewData, which migrates and seeds.

Launch(p) ==
    /\ at[p] = "off"
    /\ Goto(p, "open")
    /\ UNCHANGED <<step, schema, workers, crashes>>

\* CREATE TABLE IF NOT EXISTS runs outside the advisory lock: two processes may
\* both find no table.
LookForTable(p) ==
    /\ at[p] = "open"
    /\ Goto(p, IF tableExists THEN "migrate" ELSE "creating")
    /\ UNCHANGED <<step, schema, workers, crashes>>

\* PostgreSQL refuses the second creation; NewData returns the error.
CreateTable(p) ==
    /\ at[p] = "creating"
    /\ Goto(p, IF tableExists THEN "failed" ELSE "migrate")
    /\ tableExists' = TRUE
    /\ UNCHANGED <<step, applied, executed, lock, role, workers, crashes>>

\* applyMigration: the transaction of the migration in hand takes the lock first.
LockMigrations(p) ==
    /\ at[p] = "migrate"
    /\ step[p] <= Last[p]
    /\ lock = Nobody
    /\ lock' = p
    /\ Goto(p, "locked")
    /\ UNCHANGED <<step, tableExists, applied, executed, role, workers, crashes>>

\* A seeded fault: the record is not looked up again under the lock.
RunScriptUnchecked(p) ==
    /\ at[p] = "locked"
    /\ Goto(p, "recorded")
    /\ UNCHANGED <<step, tableExists, applied, executed, lock, role, workers, crashes>>

\* It runs the script of a migration that is not recorded yet; nothing of it is
\* visible to others before the commit.
RunScript(p) ==
    /\ at[p] = "locked"
    /\ Goto(p, IF step[p] \in applied THEN "migrate" ELSE "recorded")
    /\ IF step[p] \in applied
       THEN lock' = Nobody /\ step' = [step EXCEPT ![p] = @ + 1]
       ELSE UNCHANGED <<lock, step>>
    /\ UNCHANGED <<tableExists, applied, executed, role, workers, crashes>>

\* A seeded fault: a lock of the session, which the commit does not free.
CommitMigrationKeepLock(p) ==
    /\ at[p] = "recorded"
    /\ applied' = applied \union {step[p]}
    /\ executed' = [executed EXCEPT ![step[p]] = @ + 1]
    /\ step' = [step EXCEPT ![p] = @ + 1]
    /\ Goto(p, "migrate")
    /\ UNCHANGED <<tableExists, lock, role, workers, crashes>>

\* The commit publishes the script's effects and its record, and frees the lock.
CommitMigration(p) ==
    /\ at[p] = "recorded"
    /\ applied' = applied \union {step[p]}
    /\ executed' = [executed EXCEPT ![step[p]] = @ + 1]
    /\ lock' = Nobody
    /\ step' = [step EXCEPT ![p] = @ + 1]
    /\ Goto(p, "migrate")
    /\ UNCHANGED <<tableExists, role, workers, crashes>>

\* A statement of the migration or of the seed fails, the one that waits for the
\* lock among them, or the media directories cannot be made: the transaction is
\* rolled back, and wireApp returns the error.
FailStartUp(p) ==
    /\ \/ at[p] \in {"open", "creating", "locked", "recorded", "seed", "wired"}
       \/ at[p] = "migrate" /\ step[p] <= Last[p]
    /\ lock' = IF lock = p THEN Nobody ELSE lock
    /\ Goto(p, "failed")
    /\ UNCHANGED <<step, tableExists, applied, executed, role, workers, crashes>>

\* A seeded fault: the last migration is left out.
MigratedEarly(p) ==
    /\ at[p] = "migrate"
    /\ step[p] >= Last[p]
    /\ Goto(p, IF p \in Seeds THEN "seed" ELSE "wired")
    /\ UNCHANGED <<step, schema, workers, crashes>>

Migrated(p) ==
    /\ at[p] = "migrate"
    /\ step[p] > Last[p]
    /\ Goto(p, IF p \in Seeds THEN "seed" ELSE "wired")
    /\ UNCHANGED <<step, schema, workers, crashes>>

\* upsertAdministrator: one INSERT ... ON CONFLICT DO UPDATE SET role.
SeedAdministrator(p) ==
    /\ at[p] = "seed"
    /\ role' = "admin"
    /\ Goto(p, "wired")
    /\ UNCHANGED <<step, tableExists, applied, executed, lock, workers, crashes>>

\* Somebody registers the name of the administrator.
RegisterAdminName ==
    /\ role = "absent"
    /\ \E p \in Procs : at[p] = "serving"
    /\ role' = "user"
    /\ UNCHANGED <<at, step, tableExists, applied, executed, lock, workers, crashes>>

\* app.Run: every server's Start is on its way when it begins to wait for a signal.
Run(p) ==
    /\ at[p] = "wired"
    /\ Goto(p, "serving")
    /\ starts' = [starts EXCEPT ![p] = [w \in Workers |-> "called"]]
    /\ UNCHANGED <<step, schema, loops, stops, crashes>>

----------------------------------------------------------------------------
\* Workers.

\* The loops ls of process p are at work, the others do what they did.
Begun(p, ls) == [l \in Loops |-> IF l \in ls THEN "busy" ELSE loops[p][l]]

LoopsOf(w) == {l \in Loops : Owner[l] = w}

\* Start makes its context and its done channel known to Stop and does a first
\* round of work itself, the recovery of stale claims in the transcoder.
Start(p, w) ==
    /\ starts[p][w] = "called"
    /\ at[p] \in {"serving", "stopping"}
    /\ starts' = [starts EXCEPT ![p][w] = "preparing"]
    /\ loops' = [loops EXCEPT ![p] = Begun(p, LoopsOf(w) \cap Main)]
    /\ UNCHANGED <<at, step, schema, stops, crashes>>

\* After that round Start begins its pool and its own loop, also when it has been
\* cancelled meanwhile.
StartPool(p, w) ==
    /\ starts[p][w] = "preparing"
    /\ at[p] \in {"serving", "stopping"}
    /\ \A l \in LoopsOf(w) \cap Main : loops[p][l] = "idle"
    /\ starts' = [starts EXCEPT ![p][w] = "running"]
    /\ loops' = [loops EXCEPT ![p] = Begun(p, LoopsOf(w) \ Main)]
    /\ UNCHANGED <<at, step, schema, stops, crashes>>

\* A seeded fault: Stop waits for done first and cancels afterwards.
CancelledAfterwards(p, w) == stops[p][w] = "nil"

Cancelled(p, w) == stops[p][w] \in {"asked", "nil", "expired"}

\* A loop ends its work, because it is done or because its context is cancelled.
EndWork(p, l) ==
    /\ loops[p][l] = "busy"
    /\ at[p] \in {"serving", "stopping"}
    /\ loops' = [loops EXCEPT ![p][l] = "idle"]
    /\ UNCHANGED <<at, step, schema, starts, stops, crashes>>

\* A timer or a ticker fires.  When the context is done as well, select may take
\* either.
BeginWork(p, l) ==
    /\ loops[p][l] = "idle"
    /\ starts[p][Owner[l]] = "running"
    /\ at[p] \in {"serving", "stopping"}
    /\ loops' = [loops EXCEPT ![p][l] = "busy"]
    /\ UNCHANGED <<at, step, schema, starts, stops, crashes>>

Leave(p, l) ==
    /\ loops[p][l] = "idle"
    /\ starts[p][Owner[l]] = "running"
    /\ at[p] \in {"serving", "stopping"}
    /\ Cancelled(p, Owner[l])
    /\ loops' = [loops EXCEPT ![p][l] = "gone"]
    /\ UNCHANGED <<at, step, schema, starts, stops, crashes>>

\* A seeded fault: Start does not wait for its pool.
AnyGone(p, w) == \E l \in LoopsOf(w) : loops[p][l] = "gone"

\* Start waits for all its loops and closes done.
AllGone(p, w) == \A l \in LoopsOf(w) : loops[p][l] = "gone"

Return(p, w) ==
    /\ starts[p][w] = "running"
    /\ at[p] \in {"serving", "stopping"}
    /\ AllGone(p, w)
    /\ starts' = [starts EXCEPT ![p][w] = "returned"]
    /\ UNCHANGED <<at, step, schema, loops, stops, crashes>>

----------------------------------------------------------------------------
\* Shutdown.

\* A signal, or a server whose Start fails.
BeginStop(p) ==
    /\ at[p] = "serving"
    /\ Goto(p, "stopping")
    /\ UNCHANGED <<step, schema, workers, crashes>>

\* Stop cancels the context Start made known; it finds none when Start has not
\* come that far, and returns.
Stop(p, w) ==
    /\ at[p] = "stopping"
    /\ stops[p][w] = "no"
    /\ stops' = [stops EXCEPT ![p][w] = IF starts[p][w] = "called" THEN "missed" ELSE "asked"]
    /\ UNCHANGED <<at, step, schema, starts, loops, crashes>>

StopReturns(p, w) ==
    /\ at[p] = "stopping"
    /\ stops[p][w] = "asked"
    /\ \/ /\ starts[p][w] = "returned"
          /\ stops' = [stops EXCEPT ![p][w] = "nil"]
       \/ stops' = [stops EXCEPT ![p][w] = "expired"]
    /\ UNCHANGED <<at, step, schema, starts, loops, crashes>>

\* app.Run returns when every Start and every Stop has; main's deferred cleanup
\* closes Redis and PostgreSQL.
Close(p) ==
    /\ at[p] = "stopping"
    /\ \A w \in Workers : starts[p][w] = "returned" /\ stops[p][w] \in {"nil", "missed", "expired"}
    /\ Goto(p, "closed")
    /\ UNCHANGED <<step, schema, workers, crashes>>

\* The process is killed: PostgreSQL rolls back its transaction.
Crash(p) ==
    /\ at[p] \notin {"off", "closed", "failed", "killed"}
    /\ crashes < MaxCrashes
    /\ crashes' = crashes + 1
    /\ Goto(p, "killed")
    /\ lock' = IF lock = p THEN Nobody ELSE lock
    /\ starts' = [starts EXCEPT ![p] = [w \in Workers |-> "no"]]
    /\ loops' = [loops EXCEPT ![p] = [l \in Loops |-> "gone"]]
    /\ stops' = [stops EXCEPT ![p] = [w \in Workers |-> "no"]]
    /\ UNCHANGED <<step, tableExists, applied, executed, role>>

----------------------------------------------------------------------------
StartUp(p) ==
    \/ LookForTable(p) \/ CreateTable(p) \/ LockMigrations(p) \/ RunScript(p)
    \/ CommitMigration(p) \/ Migrated(p) \/ SeedAdministrator(p) \/ Run(p)

Work(p, l) == EndWork(p, l) \/ BeginWork(p, l) \/ Leave(p, l)

Next ==
    \/ \E p \in Procs :
          \/ Launch(p) \/ StartUp(p) \/ FailStartUp(p) \/ BeginStop(p) \/ Close(p) \/ Crash(p)
          \/ \E w \in Workers :
                \/ Start(p, w) \/ StartPool(p, w) \/ Return(p, w)
                \/ Stop(p, w) \/ StopReturns(p, w)
          \/ \E l \in Loops : Work(p, l)
    \/ RegisterAdminName

Spec == Init /\ [][Next]_vars

\* Goroutines are scheduled, every task ends, and a select in which the context is
\* done takes that branch in the end.
Fairness ==
    \A p \in Procs :
        /\ WF_vars(Close(p))
        /\ WF_vars(StartUp(p))
        /\ SF_vars(LockMigrations(p))
        /\ \A w \in Workers :
              /\ WF_vars(Start(p, w))
              /\ WF_vars(StartPool(p, w))
              /\ WF_vars(Return(p, w))
              /\ WF_vars(Stop(p, w))
              /\ WF_vars(StopReturns(p, w))
        /\ \A l \in Loops : WF_vars(EndWork(p, l)) /\ SF_vars(Leave(p, l))

FairSpec == Spec /\ Fairness

----------------------------------------------------------------------------
TypeOK ==
    /\ at \in [Procs -> Places]
    /\ step \in [Procs -> Nat \ {0}]
    /\ tableExists \in BOOLEAN
    /\ applied \subseteq Versions
    /\ executed \in [Versions -> Nat]
    /\ lock \in Procs \union {Nobody}
    /\ role \in {"absent", "user", "admin"}
    /\ starts \in [Procs -> [Workers -> Starts]]
    /\ loops \in [Procs -> [Loops -> Doing]]
    /\ stops \in [Procs -> [Workers -> Stops]]
    /\ crashes \in 0 .. MaxCrashes

(* Each migration's script takes effect exactly once, and it is recorded if it  *)
(* did, in the order of their numbers: also when an older and a newer binary    *)
(* start together and processes are killed on the way (migratePostgresSchema,   *)
(* applyMigration).                                                             *)
MigrationsOnce ==
    \A v \in Versions :
        /\ executed[v] = IF v \in applied THEN 1 ELSE 0
        /\ v \in applied => 1 .. v \subseteq applied

(* A process only serves on a schema with all the migrations it embeds and,    *)
(* when it seeds, with an administrator account in that role (NewData).        *)
ServesCurrentSchema ==
    \A p \in Procs : at[p] \in {"serving", "stopping"} =>
        /\ 1 .. Last[p] \subseteq applied
        /\ p \in Seeds => role = "admin"

(* The database is closed after the last loop of the last worker has ended,    *)
(* also when a Stop gave up waiting or found no loop to stop (main, app.Run    *)
(* and the workers' Start).                                                    *)
ClosedLast ==
    \A p \in Procs : at[p] = "closed" => \A l \in Loops : loops[p][l] = "gone"

(* A process that is stopped comes to an end, unless a Stop overtook its Start.*)
StoppedEnds ==
    \A p \in Procs : at[p] = "stopping" ~>
        at[p] \in {"closed", "killed"} \/ \E w \in Workers : stops[p][w] = "missed"

(* No process that starts waits for ever for another one's migration.          *)
StartUpEnds == \A p \in Procs : at[p] = "open" ~> at[p] \in {"serving", "failed", "killed"}
============================================================================
