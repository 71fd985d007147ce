------------------------- MODULE ProcessesProofs -------------------------
(* Proofs about Processes, for any processes, binaries and workers. *)
EXTENDS Processes, TLAPS

(* A process is inside applyMigration only for migrations it embeds.           *)
StepInv == \A p \in Procs : at[p] \in {"locked", "recorded"} => step[p] \in 1 .. Last[p]

TypeInv == TypeOK /\ StepInv

LEMMA TypeInvCorrect == Spec => []TypeInv
<1> USE ProcessesAssumption DEF ProcessesAssumption
<1>1. Init => TypeInv
  <2> SUFFICES ASSUME Init PROVE TypeInv
    OBVIOUS
  <2>1. at \in [Procs -> Places] /\ step \in [Procs -> Nat \ {0}] /\ StepInv
    BY DEF Init, Places, StepInv
  <2>2. applied \subseteq Versions /\ executed \in [Versions -> Nat]
    BY DEF Init
  <2>3. loops \in [Procs -> [Loops -> Doing]]
    BY DEF Init, Doing
  <2>4. starts \in [Procs -> [Workers -> Starts]] /\ stops \in [Procs -> [Workers -> Stops]]
    BY DEF Init, Starts, Stops
  <2>5. crashes \in 0 .. MaxCrashes
    BY DEF Init
  <2> QED
    BY <2>1, <2>2, <2>3, <2>4, <2>5 DEF Init, TypeInv, TypeOK
<1>2. TypeInv /\ [Next]_vars => TypeInv'
  <2> SUFFICES ASSUME TypeInv, [Next]_vars PROVE TypeInv'
    OBVIOUS
  <2> USE DEF TypeInv, StepInv, TypeOK, Places, Goto, schema, workers
  <2>1. ASSUME NEW p \in Procs,
               \/ Launch(p) \/ LookForTable(p) \/ Migrated(p) \/ BeginStop(p) \/ Close(p)
               \/ FailStartUp(p)
        PROVE  TypeInv'
    <3>1. PICK place \in Places : at' = [at EXCEPT ![p] = place] /\ place \notin {"locked", "recorded"}
      <4>1. CASE FailStartUp(p)
        BY <4>1 DEF FailStartUp
      <4>2. CASE ~FailStartUp(p)
        BY <2>1, <4>2 DEF Launch, LookForTable, Migrated, BeginStop, Close
      <4> QED
        BY <4>1, <4>2
    <3>2. lock' \in {lock, Nobody} /\ UNCHANGED <<step, tableExists, applied, executed, role, starts,
                                                 loops, stops, crashes>>
      BY <2>1 DEF Launch, LookForTable, FailStartUp, Migrated, BeginStop, Close
    <3> QED
      BY <3>1, <3>2
  <2>2. ASSUME NEW p \in Procs, CreateTable(p) \/ SeedAdministrator(p) PROVE TypeInv'
    <3>1. PICK place \in Places : at' = [at EXCEPT ![p] = place] /\ place \notin {"locked", "recorded"}
      BY <2>2 DEF CreateTable, SeedAdministrator
    <3>2. /\ tableExists' \in BOOLEAN
          /\ role' \in {role, "admin"}
          /\ UNCHANGED <<step, applied, executed, lock, starts, loops, stops, crashes>>
      BY <2>2 DEF CreateTable, SeedAdministrator
    <3> QED
      BY <3>1, <3>2
  <2>3. ASSUME NEW p \in Procs, LockMigrations(p) PROVE TypeInv'
    BY <2>3 DEF LockMigrations
  <2>4. ASSUME NEW p \in Procs, RunScript(p) PROVE TypeInv'
    <3>1. CASE step[p] \in applied
      <4>1. at' = [at EXCEPT ![p] = "migrate"] /\ step' = [step EXCEPT ![p] = step[p] + 1]
        BY <2>4, <3>1 DEF RunScript
      <4>2. at' \in [Procs -> Places] /\ step' \in [Procs -> Nat \ {0}] /\ StepInv'
        BY <4>1
      <4> QED
        BY <2>4, <3>1, <4>2 DEF RunScript
    <3>2. CASE step[p] \notin applied
      BY <2>4, <3>2 DEF RunScript
    <3> QED
      BY <3>1, <3>2
  <2>5. ASSUME NEW p \in Procs, CommitMigration(p) PROVE TypeInv'
    <3>1. step[p] \in Versions /\ step[p] + 1 \in Nat \ {0}
      BY <2>5 DEF CommitMigration, Versions
    <3>2. executed[step[p]] + 1 \in Nat
      BY <3>1
    <3>3. applied' \subseteq Versions /\ executed' \in [Versions -> Nat]
      BY <2>5, <3>1, <3>2 DEF CommitMigration
    <3>4. step' \in [Procs -> Nat \ {0}] /\ at' \in [Procs -> Places]
      BY <2>5, <3>1 DEF CommitMigration
    <3>5. StepInv'
      BY <2>5 DEF CommitMigration
    <3> QED
      BY <2>5, <3>3, <3>4, <3>5 DEF CommitMigration
  <2>6. ASSUME NEW p \in Procs, Run(p) \/ Crash(p) PROVE TypeInv'
    <3>1. PICK place \in Places : at' = [at EXCEPT ![p] = place] /\ place \notin {"locked", "recorded"}
      BY <2>6 DEF Run, Crash
    <3>2. at' \in [Procs -> Places] /\ StepInv'
      BY <2>6, <3>1 DEF Run, Crash
    <3>3. PICK x \in Starts : starts' = [starts EXCEPT ![p] = [w \in Workers |-> x]]
      BY <2>6 DEF Run, Crash, Starts
    <3>4. starts' \in [Procs -> [Workers -> Starts]]
      BY <3>3
    <3>5. loops' \in [Procs -> [Loops -> Doing]] /\ stops' \in [Procs -> [Workers -> Stops]]
      <4>1. [l \in Loops |-> "gone"] \in [Loops -> Doing] /\ [w \in Workers |-> "no"] \in [Workers -> Stops]
        BY DEF Doing, Stops
      <4>2. CASE Run(p)
        BY <4>2 DEF Run
      <4>3. CASE Crash(p)
        BY <4>3, <4>1 DEF Crash
      <4> QED
        BY <2>6, <4>2, <4>3
    <3>6. lock' \in Procs \union {Nobody} /\ crashes' \in 0 .. MaxCrashes
      BY <2>6 DEF Run, Crash
    <3> QED
      BY <2>6, <3>2, <3>4, <3>5, <3>6 DEF Run, Crash
  <2>7. ASSUME NEW p \in Procs, NEW w \in Workers,
               \/ Start(p, w) \/ StartPool(p, w) \/ Return(p, w)
               \/ Stop(p, w) \/ StopReturns(p, w)
        PROVE  TypeInv'
    <3>1. CASE Start(p, w) \/ StartPool(p, w)
      <4>1. starts' \in [Procs -> [Workers -> Starts]]
        <5>1. PICK x \in Starts : starts' = [starts EXCEPT ![p][w] = x]
          BY <3>1 DEF Start, StartPool, Starts
        <5> QED
          BY <5>1
      <4>2. PICK ls \in SUBSET Loops : loops' = [loops EXCEPT ![p] = Begun(p, ls)]
        BY <3>1 DEF Start, StartPool, LoopsOf
      <4>3. Begun(p, ls) \in [Loops -> Doing]
        BY DEF Begun, Doing
      <4>4. loops' \in [Procs -> [Loops -> Doing]]
        <5>1. loops' = [loops EXCEPT ![p] = Begun(p, ls)] /\ loops \in [Procs -> [Loops -> Doing]]
          BY <4>2
        <5> HIDE DEF TypeOK, TypeInv
        <5> QED
          BY <4>3, <5>1, Zenon
      <4> QED
        BY <3>1, <4>1, <4>4 DEF Start, StartPool
    <3>2. CASE Return(p, w)
      BY <3>2 DEF Return, Starts
    <3>3. CASE Stop(p, w) \/ StopReturns(p, w)
      <4>1. PICK x \in Stops : stops' = [stops EXCEPT ![p][w] = x]
        BY <3>3 DEF Stop, StopReturns, Stops
      <4>2. stops' \in [Procs -> [Workers -> Stops]]
        BY <4>1
      <4> QED
        BY <3>3, <4>2 DEF Stop, StopReturns
    <3> QED
      BY <2>7, <3>1, <3>2, <3>3
  <2>10. ASSUME NEW p \in Procs, NEW l \in Loops, Work(p, l) PROVE TypeInv'
    <3>1. PICK d \in Doing : loops' = [loops EXCEPT ![p][l] = d]
      BY <2>10 DEF Work, EndWork, BeginWork, Leave, Doing
    <3>2. loops' \in [Procs -> [Loops -> Doing]]
      BY <3>1
    <3> QED
      BY <2>10, <3>2 DEF Work, EndWork, BeginWork, Leave
  <2>8. CASE RegisterAdminName
    BY <2>8 DEF RegisterAdminName
  <2>9. CASE UNCHANGED vars
    BY <2>9 DEF vars
  <2> QED
    BY <2>1, <2>2, <2>3, <2>4, <2>5, <2>6, <2>7, <2>8, <2>9, <2>10 DEF Next, StartUp
<1> QED
  BY <1>1, <1>2, PTL DEF Spec

(* The variables keep their types.                                             *)
THEOREM TypeCorrect == Spec => []TypeOK
<1>1. TypeInv => TypeOK
  BY DEF TypeInv
<1> QED
  BY <1>1, TypeInvCorrect, PTL

----------------------------------------------------------------------------
LEMMA UpTo == ASSUME NEW n \in Nat, NEW v \in 1 .. n PROVE v = n \/ v \in 1 .. (n - 1)
  OBVIOUS

(* Migrations.  The advisory lock is held from LockMigrations to the end of    *)
(* the transaction; under it the record that was looked up stays as it was.    *)
LockInv ==
    \A p \in Procs :
        /\ at[p] \in {"locked", "recorded"} <=> lock = p
        /\ at[p] = "recorded" => step[p] \notin applied

(* A process is past the migrations that are recorded, and past all of its own *)
(* when it has left the loop over them.                                        *)
ProgressInv ==
    \A p \in Procs :
        /\ \A v \in 1 .. (step[p] - 1) : v \in applied
        /\ at[p] \in {"seed", "wired", "serving", "stopping"} => step[p] > Last[p]
        /\ at[p] \in {"wired", "serving", "stopping"} /\ p \in Seeds => role = "admin"

MigrationInv == LockInv /\ ProgressInv /\ MigrationsOnce

(* Steps that do not touch the migrations' tables.                             *)
LEMMA Elsewhere ==
    ASSUME TypeInv, MigrationInv, NEW p \in Procs, NEW place \in Places,
           at' = [at EXCEPT ![p] = place],
           UNCHANGED <<step, applied, executed, lock>>,
           place \notin {"locked", "recorded"},
           at[p] \notin {"locked", "recorded"},
           place \in {"seed", "wired", "serving", "stopping"} => step[p] > Last[p],
           place \in {"wired", "serving", "stopping"} /\ p \in Seeds => role' = "admin",
           role' \in {role, "admin"}
    PROVE  MigrationInv'
<1> USE DEF TypeInv, TypeOK, MigrationInv
<1>1. LockInv'
  BY DEF LockInv
<1>2. ProgressInv'
  BY DEF ProgressInv
<1>3. MigrationsOnce'
  BY DEF MigrationsOnce
<1> QED
  BY <1>1, <1>2, <1>3

(* Steps of the workers and of the environment.                                *)
LEMMA Beside ==
    ASSUME MigrationInv, UNCHANGED <<at, step, applied, executed, lock>>,
           role' = role \/ (role = "absent" /\ role' = "user")
    PROVE  MigrationInv'
  BY DEF MigrationInv, LockInv, ProgressInv, MigrationsOnce

LEMMA MigrationStep == TypeInv /\ MigrationInv /\ [Next]_vars => MigrationInv'
<1> SUFFICES ASSUME TypeInv, MigrationInv, [Next]_vars PROVE MigrationInv'
  OBVIOUS
<1> USE DEF Goto, schema, workers
<1>1. ASSUME NEW p \in Procs,
             Launch(p) \/ LookForTable(p) \/ CreateTable(p) \/ Migrated(p)
             \/ SeedAdministrator(p) \/ Run(p) \/ BeginStop(p) \/ Close(p)
      PROVE  MigrationInv'
  <2>1. PICK place \in Places :
           /\ at' = [at EXCEPT ![p] = place]
           /\ place \notin {"locked", "recorded"}
           /\ at[p] \notin {"locked", "recorded"}
           /\ place \in {"seed", "wired", "serving", "stopping"} => step[p] > Last[p]
           /\ place \in {"wired", "serving", "stopping"} /\ p \in Seeds => role' = "admin"
    BY <1>1 DEF Launch, LookForTable, CreateTable, Migrated, SeedAdministrator, Run, BeginStop, Close,
                Places, MigrationInv, ProgressInv
  <2>2. UNCHANGED <<step, applied, executed, lock>> /\ role' \in {role, "admin"}
    BY <1>1 DEF Launch, LookForTable, CreateTable, Migrated, SeedAdministrator, Run, BeginStop, Close
  <2> QED
    BY <2>1, <2>2, Elsewhere
<1>2. ASSUME NEW p \in Procs, LockMigrations(p) PROVE MigrationInv'
  <2> USE DEF TypeInv, TypeOK, MigrationInv
  <2>1. LockInv'
    BY <1>2, ProcessesAssumption DEF LockMigrations, LockInv, ProcessesAssumption
  <2>2. ProgressInv'
    <3>1. \A q \in Procs : at'[q] \in {at[q], "locked"} /\ UNCHANGED <<step, applied, role>>
      BY <1>2 DEF LockMigrations
    <3> QED
      BY <3>1 DEF ProgressInv
  <2>3. MigrationsOnce'
    BY <1>2 DEF LockMigrations, MigrationsOnce
  <2> QED
    BY <2>1, <2>2, <2>3
<1>3. ASSUME NEW p \in Procs, RunScript(p) PROVE MigrationInv'
  <2> USE DEF TypeInv, TypeOK, MigrationInv
  <2>1. LockInv'
    BY <1>3, ProcessesAssumption DEF RunScript, LockInv, ProcessesAssumption
  <2>2. ProgressInv'
    <3>1. CASE step[p] \in applied
      <4>1. step' = [step EXCEPT ![p] = step[p] + 1] /\ UNCHANGED <<applied, role>>
        BY <1>3, <3>1 DEF RunScript
      <4>2. \A v \in 1 .. (step'[p] - 1) : v \in applied
        <5>1. step[p] \in Nat /\ step'[p] = step[p] + 1
          BY <4>1
        <5>2. step'[p] - 1 = step[p]
          BY <5>1
        <5>3. \A v \in 1 .. step[p] : v = step[p] \/ v \in 1 .. (step[p] - 1)
          BY <5>1, UpTo
        <5> QED
          BY <3>1, <5>2, <5>3 DEF ProgressInv
      <4> QED
        BY <1>3, <3>1, <4>1, <4>2 DEF RunScript, ProgressInv
    <3>2. CASE step[p] \notin applied
      BY <1>3, <3>2 DEF RunScript, ProgressInv
    <3> QED
      BY <3>1, <3>2
  <2>3. MigrationsOnce'
    BY <1>3 DEF RunScript, MigrationsOnce
  <2> QED
    BY <2>1, <2>2, <2>3
<1>4. ASSUME NEW p \in Procs, CommitMigration(p) PROVE MigrationInv'
  <2> USE DEF TypeInv, TypeOK, MigrationInv
  <2>1. lock = p /\ step[p] \notin applied /\ step[p] \in Nat \ {0}
    BY <1>4 DEF CommitMigration, LockInv
  <2>2. \A v \in 1 .. (step[p] - 1) : v \in applied
    BY DEF ProgressInv
  <2>3. LockInv'
    BY <1>4, <2>1, ProcessesAssumption DEF CommitMigration, LockInv, ProcessesAssumption
  <2>4. ProgressInv'
    <3>1. \A v \in 1 .. (step'[p] - 1) : v \in applied'
      <4>1. step'[p] = step[p] + 1 /\ applied' = applied \union {step[p]}
        BY <1>4 DEF CommitMigration
      <4>2. step'[p] - 1 = step[p]
        BY <2>1, <4>1
      <4>3. \A v \in 1 .. step[p] : v = step[p] \/ v \in 1 .. (step[p] - 1)
        BY <2>1, UpTo
      <4> QED
        BY <2>2, <4>1, <4>2, <4>3
    <3>2. \A q \in Procs \ {p} : step'[q] = step[q] /\ at'[q] = at[q]
      BY <1>4 DEF CommitMigration
    <3>3. applied \subseteq applied' /\ role' = role /\ at'[p] = "migrate"
      BY <1>4 DEF CommitMigration, Places
    <3> QED
      BY <3>1, <3>2, <3>3 DEF ProgressInv
  <2>5. MigrationsOnce'
    <3>1. executed[step[p]] = 0 /\ step[p] \in Versions
      <4>1. step[p] \in 1 .. Last[p]
        BY <1>4 DEF CommitMigration, StepInv
      <4>2. step[p] \in Versions
        BY <4>1 DEF Versions
      <4> QED
        BY <2>1, <4>2 DEF MigrationsOnce
    <3>2. \A v \in Versions : executed'[v] = IF v \in applied' THEN 1 ELSE 0
      BY <1>4, <3>1 DEF CommitMigration, MigrationsOnce
    <3>3. 1 .. step[p] \subseteq applied'
      <4>1. \A v \in 1 .. step[p] : v = step[p] \/ v \in 1 .. (step[p] - 1)
        BY <2>1, UpTo
      <4> QED
        BY <1>4, <2>2, <4>1 DEF CommitMigration
    <3> QED
      BY <1>4, <3>2, <3>3 DEF CommitMigration, MigrationsOnce
  <2> QED
    BY <2>3, <2>4, <2>5
<1>5. ASSUME NEW p \in Procs, FailStartUp(p) \/ Crash(p) PROVE MigrationInv'
  <2> USE DEF TypeInv, TypeOK, MigrationInv
  <2>1. PICK place \in {"failed", "killed"} : at' = [at EXCEPT ![p] = place]
    BY <1>5 DEF FailStartUp, Crash
  <2>2. lock' = (IF lock = p THEN Nobody ELSE lock) /\ UNCHANGED <<step, applied, executed, role>>
    BY <1>5 DEF FailStartUp, Crash
  <2>3. LockInv'
    BY <2>1, <2>2, ProcessesAssumption DEF LockInv, ProcessesAssumption
  <2>4. ProgressInv' /\ MigrationsOnce'
    BY <2>1, <2>2 DEF ProgressInv, MigrationsOnce
  <2> QED
    BY <2>3, <2>4
<1>6. ASSUME NEW p \in Procs, NEW w \in Workers,
             \/ Start(p, w) \/ StartPool(p, w) \/ Return(p, w)
             \/ Stop(p, w) \/ StopReturns(p, w)
      PROVE  MigrationInv'
  BY <1>6, Beside DEF Start, StartPool, Return, Stop, StopReturns
<1>7. ASSUME NEW p \in Procs, NEW l \in Loops, Work(p, l) PROVE MigrationInv'
  BY <1>7, Beside DEF Work, EndWork, BeginWork, Leave
<1>8. CASE RegisterAdminName
  BY <1>8, Beside DEF RegisterAdminName
<1>9. CASE UNCHANGED vars
  BY <1>9, Beside DEF vars
<1> QED
  BY <1>1, <1>2, <1>3, <1>4, <1>5, <1>6, <1>7, <1>8, <1>9 DEF Next, StartUp

LEMMA MigrationInvCorrect == Spec => []MigrationInv
<1>1. Init => MigrationInv
  BY ProcessesAssumption
     DEF ProcessesAssumption, Init, MigrationInv, LockInv, ProgressInv, MigrationsOnce
<1> QED
  BY <1>1, MigrationStep, TypeInvCorrect, PTL DEF Spec

(* Any number of processes with any binaries that start together, fail or are  *)
(* killed apply each migration once and in order.                              *)
THEOREM MigrationsAlwaysOnce == Spec => []MigrationsOnce
<1>1. MigrationInv => MigrationsOnce
  BY DEF MigrationInv
<1> QED
  BY <1>1, MigrationInvCorrect, PTL

(* Whoever serves has its whole schema, and its administrator.                 *)
THEOREM AlwaysServesCurrentSchema == Spec => []ServesCurrentSchema
<1>1. TypeInv /\ MigrationInv => ServesCurrentSchema
  <2> SUFFICES ASSUME TypeInv, MigrationInv, NEW p \in Procs, at[p] \in {"serving", "stopping"}
               PROVE  1 .. Last[p] \subseteq applied /\ (p \in Seeds => role = "admin")
    BY DEF ServesCurrentSchema
  <2>1. step[p] \in Nat /\ Last[p] \in Nat /\ step[p] > Last[p]
    BY ProcessesAssumption DEF ProcessesAssumption, TypeInv, TypeOK, MigrationInv, ProgressInv
  <2>2. \A v \in 1 .. Last[p] : v \in 1 .. (step[p] - 1)
    BY <2>1
  <2> QED
    BY <2>2 DEF MigrationInv, ProgressInv
<1> QED
  BY <1>1, TypeInvCorrect, MigrationInvCorrect, PTL

----------------------------------------------------------------------------
(* A worker whose Start has returned has no loop left, and keeps none.         *)
ReturnedInv ==
    \A p \in Procs :
        /\ \A l \in Loops : starts[p][Owner[l]] = "returned" => loops[p][l] = "gone"
        /\ at[p] = "closed" => \A w \in Workers : starts[p][w] = "returned"
        /\ at[p] \in {"off", "open", "creating", "migrate", "locked", "recorded", "seed", "wired"} =>
              \A w \in Workers : starts[p][w] = "no"

LEMMA ReturnedStep == TypeInv /\ ReturnedInv /\ [Next]_vars => ReturnedInv'
<1> SUFFICES ASSUME TypeInv, ReturnedInv, [Next]_vars PROVE ReturnedInv'
  OBVIOUS
<1> USE ProcessesAssumption DEF ProcessesAssumption, TypeInv, TypeOK, ReturnedInv, Goto, schema, workers
<1>1. ASSUME NEW p \in Procs, Launch(p) \/ StartUp(p) \/ FailStartUp(p) \/ BeginStop(p) PROVE ReturnedInv'
  <2>1. CASE Run(p)
    BY <2>1 DEF Run
  <2>2. CASE ~Run(p)
    <3>1. PICK place \in Places \ {"closed"} : at' = [at EXCEPT ![p] = place]
      BY <1>1, <2>2 DEF Launch, StartUp, FailStartUp, BeginStop, LookForTable, CreateTable,
         LockMigrations, RunScript, CommitMigration, Migrated, SeedAdministrator, Places
    <3>2. place \in {"serving", "stopping", "failed", "killed"} \/ \A w \in Workers : starts[p][w] = "no"
      BY <1>1, <2>2, <3>1 DEF Launch, StartUp, FailStartUp, BeginStop, LookForTable, CreateTable,
         LockMigrations, RunScript, CommitMigration, Migrated, SeedAdministrator, Places
    <3>3. UNCHANGED <<starts, loops>>
      BY <1>1, <2>2 DEF Launch, StartUp, FailStartUp, BeginStop, LookForTable, CreateTable,
         LockMigrations, RunScript, CommitMigration, Migrated, SeedAdministrator
    <3> QED
      BY <3>1, <3>2, <3>3
  <2> QED
    BY <2>1, <2>2
<1>2. ASSUME NEW p \in Procs, Close(p) \/ Crash(p) PROVE ReturnedInv'
  <2>1. CASE Close(p)
    BY <2>1 DEF Close, Places
  <2>2. CASE Crash(p)
    <3>1. \A w \in Workers : starts'[p][w] = "no"
      BY <2>2 DEF Crash
    <3>2. \A q \in Procs \ {p} : UNCHANGED <<at[q], starts[q], loops[q]>>
      BY <2>2 DEF Crash
    <3>3. at'[p] = "killed"
      BY <2>2 DEF Crash
    <3>4. \A l \in Loops : Owner[l] \in Workers
      OBVIOUS
    <3> HIDE DEF TypeOK
    <3> QED
      BY <3>1, <3>2, <3>3, <3>4
  <2> QED
    BY <1>2, <2>1, <2>2
<1>3. ASSUME NEW p \in Procs, NEW w \in Workers, Start(p, w) \/ StartPool(p, w) PROVE ReturnedInv'
  <2>1. PICK ls \in SUBSET LoopsOf(w) : loops' = [loops EXCEPT ![p] = Begun(p, ls)]
    BY <1>3 DEF Start, StartPool
  <2>2. UNCHANGED at /\ starts'[p][w] \in {"preparing", "running"}
    BY <1>3 DEF Start, StartPool
  <2>3. \A q \in Procs, v \in Workers : starts'[q][v] = starts[q][v] \/ (q = p /\ v = w)
    BY <1>3 DEF Start, StartPool
  <2>4. \A q \in Procs, l \in Loops : loops'[q][l] = loops[q][l] \/ (q = p /\ Owner[l] = w)
    BY <2>1 DEF Begun, LoopsOf
  <2>5. starts[p][w] \in {"called", "preparing"}
    BY <1>3 DEF Start, StartPool
  <2>6. \A l \in Loops : Owner[l] \in Workers
    OBVIOUS
  <2> HIDE DEF TypeOK, TypeInv
  <2> QED
    BY <2>2, <2>3, <2>4, <2>5, <2>6
<1>4. ASSUME NEW p \in Procs, NEW w \in Workers, Return(p, w) PROVE ReturnedInv'
  BY <1>4 DEF Return, AllGone, LoopsOf
<1>5. ASSUME NEW p \in Procs, NEW w \in Workers, Stop(p, w) \/ StopReturns(p, w) PROVE ReturnedInv'
  BY <1>5 DEF Stop, StopReturns
<1>6. ASSUME NEW p \in Procs, NEW l \in Loops, Work(p, l) PROVE ReturnedInv'
  <2>1. PICK d \in Doing : loops' = [loops EXCEPT ![p][l] = d] /\ loops[p][l] # "gone"
    BY <1>6 DEF Work, EndWork, BeginWork, Leave, Doing
  <2>2. UNCHANGED <<at, starts>>
    BY <1>6 DEF Work, EndWork, BeginWork, Leave
  <2>3. starts[p][Owner[l]] # "returned"
    BY <2>1
  <2>4. \A q \in Procs, m \in Loops : loops'[q][m] = loops[q][m] \/ (q = p /\ m = l)
    BY <2>1
  <2> HIDE DEF TypeOK, TypeInv
  <2> QED
    BY <2>2, <2>3, <2>4
<1>7. CASE RegisterAdminName \/ UNCHANGED vars
  BY <1>7 DEF RegisterAdminName, vars
<1> QED
  BY <1>1, <1>2, <1>3, <1>4, <1>5, <1>6, <1>7 DEF Next

(* The database outlives every loop of every worker.                           *)
THEOREM AlwaysClosedLast == Spec => []ClosedLast
<1>1. Init => ReturnedInv
  <2> SUFFICES ASSUME Init PROVE ReturnedInv
    OBVIOUS
  <2>1. \A p \in Procs : at[p] = "off" /\ \A w \in Workers : starts[p][w] = "no"
    BY DEF Init
  <2>2. \A l \in Loops : Owner[l] \in Workers
    BY ProcessesAssumption DEF ProcessesAssumption
  <2>3. \A p \in Procs, l \in Loops : starts[p][Owner[l]] = "no"
    BY <2>1, <2>2
  <2> QED
    BY <2>1, <2>3 DEF ReturnedInv
<1>2. ReturnedInv => ClosedLast
  BY ProcessesAssumption DEF ProcessesAssumption, ReturnedInv, ClosedLast
<1> QED
  BY <1>1, <1>2, ReturnedStep, TypeInvCorrect, PTL DEF Spec
============================================================================
