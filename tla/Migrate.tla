-------------------------------- MODULE Migrate -----------------------------
(***************************************************************************)
(* Schema migrations (internal/repository/migration): processes that       *)
(* upgrade the shared database when they start, or downgrade it on demand, *)
(* with crashes, failing statements and lost connections.  A script is the *)
(* sequence of the tables it creates or drops; indexes go with theirs.     *)
(***************************************************************************)
EXTENDS Naturals, Sequences

CONSTANTS
    Proc,           \* server processes or Worker isolates
    Deployments,    \* [dialect, procs, jobs]: the database, the processes on it
                    \* and what they may be started for
    MaxFaults,      \* bound: faults injected
    Nil

Version == 1..3
UpgradeJob == 4     \* the jobs 0..2 are Downgrade(targetVersion)

ASSUME MigrateAssumption ==
    /\ Deployments \subseteq [dialect : {"sqlite", "postgres", "d1"},
                              procs : (SUBSET Proc) \ {{}},
                              jobs : (SUBSET ((0..2) \cup {UpgradeJob})) \ {{}}]
    /\ MaxFaults \in Nat /\ Nil \notin Proc

\* The embedded scripts.
InitialSchema     == <<"schema_migrations", "networks", "subnets", "tags">>
Auth              == <<"local_users", "oidc_identity_pools", "sessions",
                       "oidc_login_states">>
MachineIdentities == <<"machine_pools", "machine_identity_providers",
                       "machines", "machine_api_keys">>

InitialSchemaDown     == <<"tags", "subnets", "networks", "schema_migrations">>
MachineIdentitiesDown == <<"machine_api_keys", "machines",
                           "machine_identity_providers", "machine_pools">>

AuthDown == <<"oidc_login_states", "sessions", "oidc_identity_pools",
              "local_users">>

Up   == <<InitialSchema, Auth, MachineIdentities>>
Down == <<InitialSchemaDown, AuthDown, MachineIdentitiesDown>>

Entries(seq) == {seq[i] : i \in DOMAIN seq}
TablesOf(v) == Entries(Up[v])

\* The foreign keys: the tables that t's columns reference.
References(t) ==
    CASE t = "subnets" -> {"networks"}
      [] t = "sessions" -> {"local_users", "oidc_identity_pools"}
      [] t = "oidc_login_states" -> {"oidc_identity_pools"}
      [] t = "machine_identity_providers" -> {"machine_pools"}
      [] t = "machines" -> {"machine_pools", "machine_identity_providers"}
      [] t = "machine_api_keys" -> {"machines"}
      [] OTHER -> {}

VARIABLES
    deployment,     \* one of Deployments, for good
    tables,         \* the tables of the database
    versions,       \* the rows of schema_migrations
    lock,           \* the process whose session holds pg_advisory_lock, or Nil
    pc, job,        \* [Proc -> where it is, what it was started for]
    at, stmt,       \* [Proc -> the version it is at, the next statement]
    faults,         \* faults so far
    lost            \* history: the lock's session died under its process

schema == <<tables, versions>>
system == <<schema, lock, pc, job, at, stmt, faults>>
vars   == <<deployment, system, lost>>

Dialect == deployment.dialect

Init ==
    /\ deployment \in Deployments
    /\ tables = {} /\ versions = {}
    /\ lock = Nil
    /\ pc = [p \in Proc |-> "off"]
    /\ job = [p \in Proc |-> UpgradeJob]
    /\ at = [p \in Proc |-> 0]
    /\ stmt = [p \in Proc |-> 1]
    /\ faults = 0 /\ lost = FALSE

Transactional == Dialect # "d1"
Upgrades(p) == job[p] = UpgradeJob
Script(p) == IF Upgrades(p) THEN Up[at[p]] ELSE Down[at[p]]

-----------------------------------------------------------------------------
Goto(p, l) == pc' = [pc EXCEPT ![p] = l]

\* The deferred release, the end of the session, or of the process.
Release(p) == lock' = IF lock = p THEN Nil ELSE lock

Stop(p, l) ==
    /\ Goto(p, l)
    /\ at' = [at EXCEPT ![p] = 0]
    /\ stmt' = [stmt EXCEPT ![p] = 1]
    /\ Release(p)

\* A process starts, on an empty, an old or an upgraded database.
Start(p) ==
    /\ pc[p] = "off" /\ p \in deployment.procs
    /\ \E j \in deployment.jobs : job' = [job EXCEPT ![p] = j]
    /\ Goto(p, "lock")
    /\ UNCHANGED <<schema, lock, at, stmt, faults>>

\* Mutant: the lock is only tried and the run goes on without it.
Acquire_noWait(p) ==
    /\ pc[p] = "lock"
    /\ lock' = IF Dialect = "postgres" /\ lock = Nil THEN p ELSE lock
    /\ Goto(p, "read")
    /\ UNCHANGED <<schema, job, at, stmt, faults>>

\* AcquireMigrationLock: SQLite and D1 lock a mutex in the memory of the
\* process, which no other process sees.
Acquire(p) ==
    /\ pc[p] = "lock"
    /\ IF Dialect = "postgres" THEN lock = Nil /\ lock' = p ELSE UNCHANGED lock
    /\ Goto(p, "read")
    /\ UNCHANGED <<schema, job, at, stmt, faults>>

\* MAX(version); 0 when the table is empty or missing.
currentVersion(V) == IF V = {} THEN 0 ELSE CHOOSE v \in V : \A w \in V : w <= v

\* The first script of the loop, if there is one.
ReadVersion(p) ==
    LET current == currentVersion(versions)
    IN  /\ pc[p] = "read"
        /\ CASE Upgrades(p) /\ current = 3 -> Stop(p, "done")
             [] Upgrades(p) /\ current < 3 ->
                  /\ Goto(p, "script")
                  /\ at' = [at EXCEPT ![p] = current + 1]
                  /\ UNCHANGED <<stmt, lock>>
             [] ~Upgrades(p) /\ job[p] >= current -> Stop(p, "refused")
             [] ~Upgrades(p) /\ job[p] < current ->
                  /\ Goto(p, "script")
                  /\ at' = [at EXCEPT ![p] = 3]
                  /\ UNCHANGED <<stmt, lock>>
        /\ UNCHANGED <<schema, job, faults>>

\* Mutant: the script of the target version is reverted as well.
NextScript_inclusive(p) ==
    IF at[p] \in (IF Upgrades(p) THEN {3} ELSE {1, job[p]})
    THEN Stop(p, "done")
    ELSE /\ at' = [at EXCEPT ![p] = IF Upgrades(p) THEN @ + 1 ELSE @ - 1]
         /\ stmt' = [stmt EXCEPT ![p] = 1]
         /\ Goto(p, "script")
         /\ UNCHANGED lock

\* The next script of the loop, or the end of the job.
NextScript(p) ==
    IF at[p] = (IF Upgrades(p) THEN 3 ELSE job[p] + 1)
    THEN Stop(p, "done")
    ELSE /\ at' = [at EXCEPT ![p] = IF Upgrades(p) THEN @ + 1 ELSE @ - 1]
         /\ stmt' = [stmt EXCEPT ![p] = 1]
         /\ Goto(p, "script")
         /\ UNCHANGED lock

\* PostgreSQL refuses a table whose references are missing and keeps a table
\* that is referenced; IF [NOT] EXISTS makes the rest harmless.
Executes(script, up) ==
    Dialect = "postgres" =>
        \A i \in DOMAIN script :
            LET before == {script[j] : j \in 1..i-1}
            IN  IF up THEN References(script[i]) \subseteq tables \cup before
                ELSE \A t \in tables \ before : script[i] \notin References(t)

\* apply's INSERT: the table is there and has no such row (primary key).
Records(v, present) == v \notin versions /\ "schema_migrations" \in present

\* apply and revert in a transaction: all statements and the version row.
Apply(p) ==
    /\ Transactional /\ pc[p] = "script" /\ Upgrades(p)
    /\ IF Executes(Script(p), TRUE) /\ Records(at[p], tables \cup TablesOf(at[p]))
       THEN /\ tables' = tables \cup TablesOf(at[p])
            /\ versions' = versions \cup {at[p]}
            /\ NextScript(p)
       ELSE Stop(p, "failed") /\ UNCHANGED schema
    /\ UNCHANGED <<job, faults>>

Revert(p) ==
    /\ Transactional /\ pc[p] = "script" /\ ~Upgrades(p)
    /\ IF Executes(Script(p), FALSE)
       THEN /\ tables' = tables \ TablesOf(at[p])
            /\ versions' = versions \ {at[p]}
            /\ NextScript(p)
       ELSE Stop(p, "failed") /\ UNCHANGED schema
    /\ UNCHANGED <<job, faults>>

\* Mutant: CREATE TABLE without IF NOT EXISTS.
Statement_plainCreate(p) ==
    LET t == Script(p)[stmt[p]]
    IN  /\ ~Transactional /\ pc[p] = "script" /\ stmt[p] <= Len(Script(p))
        /\ IF Upgrades(p) /\ t \in tables
           THEN Stop(p, "failed") /\ UNCHANGED tables
           ELSE /\ tables' = IF Upgrades(p) THEN tables \cup {t} ELSE tables \ {t}
                /\ stmt' = [stmt EXCEPT ![p] = @ + 1]
                /\ UNCHANGED <<pc, at, lock>>
        /\ UNCHANGED <<versions, job, faults>>

\* Without transactions every statement of a script is a step of its own.
Statement(p) ==
    LET t == Script(p)[stmt[p]]
    IN  /\ ~Transactional /\ pc[p] = "script" /\ stmt[p] <= Len(Script(p))
        /\ Upgrades(p) \/ at[p] \notin versions
        /\ tables' = IF Upgrades(p) THEN tables \cup {t} ELSE tables \ {t}
        /\ stmt' = [stmt EXCEPT ![p] = @ + 1]
        /\ UNCHANGED <<versions, lock, pc, job, at, faults>>

\* Mutant: apply records the version before it runs the statements.
Record_first(p) ==
    /\ ~Transactional /\ pc[p] = "script" /\ Upgrades(p)
    /\ IF at[p] \in versions
       THEN stmt[p] > Len(Script(p)) /\ NextScript(p) /\ UNCHANGED versions
       ELSE versions' = versions \cup {at[p]} /\ UNCHANGED <<pc, at, stmt, lock>>
    /\ UNCHANGED <<tables, job, faults>>

\* apply's last statement.
Record(p) ==
    /\ ~Transactional /\ pc[p] = "script" /\ Upgrades(p) /\ stmt[p] > Len(Script(p))
    /\ IF Records(at[p], tables)
       THEN versions' = versions \cup {at[p]} /\ NextScript(p)
       ELSE Stop(p, "failed") /\ UNCHANGED versions
    /\ UNCHANGED <<tables, job, faults>>

\* revert's first statement.
Unrecord(p) ==
    /\ ~Transactional /\ pc[p] = "script" /\ ~Upgrades(p)
    /\ stmt[p] = 1 /\ at[p] \in versions
    /\ versions' = versions \ {at[p]}
    /\ UNCHANGED <<tables, lock, pc, job, at, stmt, faults>>

Reverted(p) ==
    /\ ~Transactional /\ pc[p] = "script" /\ ~Upgrades(p) /\ stmt[p] > Len(Script(p))
    /\ NextScript(p)
    /\ UNCHANGED <<schema, job, faults>>

-----------------------------------------------------------------------------
(* Faults.                                                                 *)

Spend == faults < MaxFaults /\ faults' = faults + 1

\* A statement fails: rollback, or on D1 what was done stays.
Fail(p) ==
    /\ pc[p] \in {"lock", "read", "script"}
    /\ Spend
    /\ Stop(p, "failed")
    /\ UNCHANGED <<schema, job>>

Crash(p) ==
    /\ pc[p] # "off"
    /\ Spend
    /\ Stop(p, "off")
    /\ UNCHANGED <<schema, job>>

\* The idle connection that took the advisory lock dies with its session; the
\* next statement gets a new one from the pool.
ConnectionLost(p) ==
    /\ lock = p
    /\ Spend
    /\ lock' = Nil
    /\ UNCHANGED <<schema, pc, job, at, stmt>>

\* A server whose migrations failed exits and is started again; an isolate keeps
\* its initErr (sync.Once).  A job that ended may be followed by another one.
Again(p) ==
    /\ pc[p] \in {"failed", "refused", "done"}
    /\ pc[p] = "failed" => Dialect # "d1"
    /\ pc[p] = "done" => deployment.jobs # {UpgradeJob}
    /\ Stop(p, "off")
    /\ UNCHANGED <<schema, job, faults>>

\* The platform may replace a failed isolate by a fresh one; it promises nothing.
Evict(p) ==
    /\ Dialect = "d1" /\ pc[p] = "failed"
    /\ Stop(p, "off")
    /\ UNCHANGED <<schema, job, faults>>

Run(p) ==
    \/ Acquire(p) \/ ReadVersion(p)
    \/ Apply(p) \/ Revert(p)
    \/ Statement(p) \/ Record(p) \/ Unrecord(p) \/ Reverted(p)

Work(p) == Start(p) \/ Run(p) \/ Again(p)

Next ==
    /\ \E p \in Proc : \/ (Work(p) \/ Evict(p) \/ Fail(p) \/ Crash(p)) /\ UNCHANGED lost
                       \/ ConnectionLost(p) /\ lost' = TRUE
    /\ UNCHANGED deployment

\* Processes are started and run; whoever waits for the lock gets it some time.
Fairness ==
    \A p \in Proc : WF_system(Work(p)) /\ SF_system(Acquire(p))

Spec == Init /\ [][Next]_vars
FairSpec == Spec /\ Fairness

-----------------------------------------------------------------------------
Built(V) == UNION {TablesOf(v) : v \in V}

OnlyUpgrades == deployment.jobs = {UpgradeJob}
Alone(p)     == deployment.procs = {p}

\* A recorded version stands for all of its tables and for every version before
\* it, also where a script is not atomic: apply records last, revert removes
\* the record first, and Upgrade, which looks at MAX(version) only, would never
\* fill a hole.  Only an upgrade and a downgrade that meet because the session
\* with the lock died may leave one (runner.go:36-48, 90-147).
RecordedMeansBuilt ==
    OnlyUpgrades \/ ~lost =>
        \A v \in versions : 1..v \subseteq versions /\ Built(1..v) \subseteq tables

\* Every server ends up running on the whole schema, however often it or another
\* one died in the middle of a script.  An isolate does too, or fails for good,
\* since it keeps its first error; however often it is replaced, half a script of
\* its predecessor never makes it fail for ever, and without a fault the schema
\* is complete in the end (runner.go:21-51, main.go:24-44 of the worker).
Upgraded ==
    OnlyUpgrades =>
        /\ \A p \in Proc :
              \/ <>[](p \in deployment.procs => pc[p] = "done" /\ versions = Version)
              \/ <>[](Dialect = "d1" /\ pc[p] = "failed")
        /\ <>[](faults > 0 \/ versions = Version)

\* A downgrade that succeeds leaves exactly the schema of its target version,
\* also after failed attempts (runner.go:53-88).
DowngradeLands ==
    \A p \in Proc : pc[p] = "done" /\ ~Upgrades(p) /\ Alone(p) =>
        versions = 1..job[p] /\ tables = Built(versions)

\* Without a fault no process fails: on PostgreSQL the lock keeps replicas that
\* start together apart; an isolate alone finds what it left (store.go:179-198,
\* runner.go:21-51).
NoFailureWithoutFault ==
    faults = 0 /\ (Dialect = "postgres" \/ \E p \in Proc : Alone(p))
        => \A p \in Proc : pc[p] # "failed"

-----------------------------------------------------------------------------
(* The invariant of the runner.                                            *)

\* Only PostgreSQL's lock keeps a downgrade apart from other processes; an
\* SQLite file has one server (TECHNICAL.md:1360).
ASSUME DowngradeAssumption ==
    \A d \in Deployments :
        d.dialect = "postgres" \/ d.jobs = {UpgradeJob} \/ \E p \in Proc : d.procs = {p}

Running == {"read", "script"}

TypeOK ==
    /\ deployment \in Deployments
    /\ tables \subseteq Built(Version) /\ versions \subseteq Version
    /\ lock \in Proc \cup {Nil}
    /\ pc \in [Proc -> {"off", "lock", "done", "refused", "failed"} \cup Running]
    /\ job \in [Proc -> (0..2) \cup {UpgradeJob}]
    /\ at \in [Proc -> 0..3] /\ stmt \in [Proc -> 1..5]
    /\ faults \in 0..MaxFaults /\ lost \in BOOLEAN

\* Where a process is in its loop.
ControlAt(p) ==
    /\ pc[p] # "off" => p \in deployment.procs /\ job[p] \in deployment.jobs
    /\ pc[p] # "script" => stmt[p] = 1
    /\ pc[p] = "script" => at[p] \in Version /\ (~Upgrades(p) => job[p] < at[p])

\* The advisory lock, until its session dies.
LockInv ==
    /\ Dialect = "postgres" /\ ~lost => \A p \in Proc : pc[p] \in Running => lock = p
    /\ lost => faults > 0

\* At most one process is in its loop.
Apart == (Dialect = "postgres" /\ ~lost) \/ \E p \in Proc : Alone(p)

Sound == \A v \in versions : 1..v \subseteq versions /\ Built(1..v) \subseteq tables

\* An upgrade has everything below its script, and of the script what it has
\* executed.
UpAt(p) ==
    pc[p] = "script" /\ Upgrades(p) =>
        /\ 1..(at[p] - 1) \subseteq versions
        /\ Apart => versions = 1..(at[p] - 1)
        /\ \A i \in 1..(stmt[p] - 1) : Up[at[p]][i] \in tables

\* A downgrade has nothing above its script, everything up to its target, and
\* of the script nothing it has executed.
DownAt(p) ==
    pc[p] = "script" /\ ~Upgrades(p) =>
        /\ versions \subseteq 1..at[p] /\ 1..job[p] \subseteq versions
        /\ tables \subseteq Built(1..at[p])
        /\ stmt[p] > 1 => at[p] \notin versions
        /\ \A i \in 1..(stmt[p] - 1) : Down[at[p]][i] \notin tables

\* After an upgrade and a downgrade have met nothing is promised any more.
DataInv ==
    Apart \/ OnlyUpgrades => Sound /\ \A p \in Proc : UpAt(p) /\ DownAt(p)

MigrateInv ==
    /\ TypeOK /\ (\A p \in Proc : ControlAt(p)) /\ LockInv
    /\ DataInv /\ DowngradeLands /\ NoFailureWithoutFault

-----------------------------------------------------------------------------
(* Statements of the documentation that D1 does not keep.                  *)

\* "On the first request, the Worker opens D1, runs pending SQLite migrations
\* [...], then serves" (TECHNICAL.md:1117): without a fault no isolate fails.
IsolatesServe == faults = 0 => \A p \in Proc : pc[p] # "failed"

\* "On mid-migration failure, the transaction is rolled back and the version
\* is not recorded" (TECHNICAL.md:243).
FailureRollsBack ==
    \A p \in Proc : pc[p] = "failed" /\ Alone(p) =>
        tables = Built(versions)
=============================================================================
