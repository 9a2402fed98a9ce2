---------------------------- MODULE MigrateProofs ---------------------------
(***************************************************************************)
(* Proofs about the migration runner, for any number of processes, any set *)
(* of deployments in which a downgrade is kept apart, and any number of    *)
(* crashes, failed statements and lost sessions.                           *)
(***************************************************************************)
EXTENDS Migrate, TLAPS

(* The scripts.                                                            *)

Tables1 == {"schema_migrations", "networks", "subnets", "tags"}
Tables2 == {"local_users", "oidc_identity_pools", "sessions", "oidc_login_states"}
Tables3 == {"machine_pools", "machine_identity_providers", "machines", "machine_api_keys"}

\* Every script has four statements, on the tables of its version.
LEMMA ScriptFacts ==
    /\ Up[1] = InitialSchema /\ Up[2] = Auth /\ Up[3] = MachineIdentities
    /\ Down[1] = InitialSchemaDown /\ Down[2] = AuthDown /\ Down[3] = MachineIdentitiesDown
    /\ \A v \in Version : /\ Len(Up[v]) = 4 /\ DOMAIN Up[v] = 1..4
                          /\ Len(Down[v]) = 4 /\ DOMAIN Down[v] = 1..4
<1>1. /\ Up[1] = InitialSchema /\ Up[2] = Auth /\ Up[3] = MachineIdentities
      /\ Down[1] = InitialSchemaDown /\ Down[2] = AuthDown /\ Down[3] = MachineIdentitiesDown
  BY DEF Up, Down
<1>2. /\ Len(InitialSchema) = 4 /\ DOMAIN InitialSchema = 1..4
      /\ Len(Auth) = 4 /\ DOMAIN Auth = 1..4
      /\ Len(MachineIdentities) = 4 /\ DOMAIN MachineIdentities = 1..4
  BY DEF InitialSchema, Auth, MachineIdentities
<1>3. /\ Len(InitialSchemaDown) = 4 /\ DOMAIN InitialSchemaDown = 1..4
      /\ Len(AuthDown) = 4 /\ DOMAIN AuthDown = 1..4
      /\ Len(MachineIdentitiesDown) = 4 /\ DOMAIN MachineIdentitiesDown = 1..4
  BY DEF InitialSchemaDown, AuthDown, MachineIdentitiesDown
<1>4. \A v \in Version : v = 1 \/ v = 2 \/ v = 3
  BY DEF Version
<1>5. QED
  BY <1>1, <1>2, <1>3, <1>4

\* The statements by name.
LEMMA Statements ==
    /\ Up[1][1] = "schema_migrations" /\ Up[1][2] = "networks"
    /\ Up[1][3] = "subnets" /\ Up[1][4] = "tags"
    /\ Up[2][1] = "local_users" /\ Up[2][2] = "oidc_identity_pools"
    /\ Up[2][3] = "sessions" /\ Up[2][4] = "oidc_login_states"
    /\ Up[3][1] = "machine_pools" /\ Up[3][2] = "machine_identity_providers"
    /\ Up[3][3] = "machines" /\ Up[3][4] = "machine_api_keys"
    /\ Down[1][1] = "tags" /\ Down[1][2] = "subnets"
    /\ Down[1][3] = "networks" /\ Down[1][4] = "schema_migrations"
    /\ Down[2][1] = "oidc_login_states" /\ Down[2][2] = "sessions"
    /\ Down[2][3] = "oidc_identity_pools" /\ Down[2][4] = "local_users"
    /\ Down[3][1] = "machine_api_keys" /\ Down[3][2] = "machines"
    /\ Down[3][3] = "machine_identity_providers" /\ Down[3][4] = "machine_pools"
<1>1. /\ Up[1][1] = "schema_migrations" /\ Up[1][2] = "networks"
      /\ Up[1][3] = "subnets" /\ Up[1][4] = "tags"
  BY ScriptFacts DEF InitialSchema
<1>2. /\ Up[2][1] = "local_users" /\ Up[2][2] = "oidc_identity_pools"
      /\ Up[2][3] = "sessions" /\ Up[2][4] = "oidc_login_states"
  BY ScriptFacts DEF Auth
<1>3. /\ Up[3][1] = "machine_pools" /\ Up[3][2] = "machine_identity_providers"
      /\ Up[3][3] = "machines" /\ Up[3][4] = "machine_api_keys"
  BY ScriptFacts DEF MachineIdentities
<1>4. /\ Down[1][1] = "tags" /\ Down[1][2] = "subnets"
      /\ Down[1][3] = "networks" /\ Down[1][4] = "schema_migrations"
  BY ScriptFacts DEF InitialSchemaDown
<1>5. /\ Down[2][1] = "oidc_login_states" /\ Down[2][2] = "sessions"
      /\ Down[2][3] = "oidc_identity_pools" /\ Down[2][4] = "local_users"
  BY ScriptFacts DEF AuthDown
<1>6. /\ Down[3][1] = "machine_api_keys" /\ Down[3][2] = "machines"
      /\ Down[3][3] = "machine_identity_providers" /\ Down[3][4] = "machine_pools"
  BY ScriptFacts DEF MachineIdentitiesDown
<1>7. QED
  BY <1>1, <1>2, <1>3, <1>4, <1>5, <1>6

LEMMA ScriptTables ==
    /\ TablesOf(1) = Tables1 /\ TablesOf(2) = Tables2 /\ TablesOf(3) = Tables3
    /\ \A v \in Version : \A i \in 1..4 : Up[v][i] \in TablesOf(v) /\ Down[v][i] \in TablesOf(v)
    /\ \A v \in Version : \A t \in TablesOf(v) : \E i \in 1..4 : Down[v][i] = t
<1>1. \A i \in 1..4 : i = 1 \/ i = 2 \/ i = 3 \/ i = 4
  OBVIOUS
<1>2. /\ TablesOf(1) = {Up[1][i] : i \in 1..4}
      /\ TablesOf(2) = {Up[2][i] : i \in 1..4}
      /\ TablesOf(3) = {Up[3][i] : i \in 1..4}
  BY ScriptFacts DEF TablesOf, Entries, Version
<1>3. TablesOf(1) = Tables1 /\ TablesOf(2) = Tables2 /\ TablesOf(3) = Tables3
  BY <1>1, <1>2, Statements DEF Tables1, Tables2, Tables3
<1>4. \A v \in Version : v = 1 \/ v = 2 \/ v = 3
  BY DEF Version
<1>5. \A v \in Version : \A i \in 1..4 : Up[v][i] \in TablesOf(v)
  BY <1>2, <1>4
<1>6. \A v \in Version : \A i \in 1..4 : Down[v][i] \in TablesOf(v)
  BY <1>1, <1>3, <1>4, Statements DEF Tables1, Tables2, Tables3
<1>7. \A v \in Version : \A t \in TablesOf(v) : \E i \in 1..4 : Down[v][i] = t
  BY <1>3, <1>4, Statements DEF Tables1, Tables2, Tables3
<1>8. QED
  BY <1>3, <1>5, <1>6, <1>7

\* No table belongs to two versions.
LEMMA TablesDisjoint ==
    ASSUME NEW v \in Version, NEW w \in Version, v # w
    PROVE  TablesOf(v) \cap TablesOf(w) = {}
<1>1. /\ Tables1 \cap Tables2 = {} /\ Tables1 \cap Tables3 = {} /\ Tables2 \cap Tables3 = {}
  BY DEF Tables1, Tables2, Tables3
<1>2. (v = 1 \/ v = 2 \/ v = 3) /\ (w = 1 \/ w = 2 \/ w = 3)
  BY DEF Version
<1>3. QED
  BY <1>1, <1>2, ScriptTables

\* The foreign keys, as pairs.
LEMMA ReferencePairs ==
    ASSUME NEW t, NEW u
    PROVE  u \in References(t) <=>
             \/ t = "subnets" /\ u = "networks"
             \/ t = "sessions" /\ u \in {"local_users", "oidc_identity_pools"}
             \/ t = "oidc_login_states" /\ u = "oidc_identity_pools"
             \/ t = "machine_identity_providers" /\ u = "machine_pools"
             \/ t = "machines" /\ u \in {"machine_pools", "machine_identity_providers"}
             \/ t = "machine_api_keys" /\ u = "machines"
BY DEF References

\* The references of every script are satisfied within it, so PostgreSQL
\* executes each of them on any schema.
LEMMA ScriptsExecute ==
    ASSUME NEW v \in Version
    PROVE  Executes(Up[v], TRUE) /\ Executes(Down[v], FALSE)
<1>1. \A i \in 1..4 : i = 1 \/ i = 2 \/ i = 3 \/ i = 4
  OBVIOUS
<1>2. v = 1 \/ v = 2 \/ v = 3
  BY DEF Version
<1>3. DOMAIN Up[v] = 1..4 /\ DOMAIN Down[v] = 1..4
  BY ScriptFacts
<1>4. ASSUME NEW i \in 1..4, NEW u \in References(Up[v][i])
      PROVE  \E j \in 1..(i - 1) : Up[v][j] = u
  <2>1. CASE v = 1
    BY <1>1, <1>4, <2>1, Statements, ReferencePairs
  <2>2. CASE v = 2
    BY <1>1, <1>4, <2>2, Statements, ReferencePairs
  <2>3. CASE v = 3
    BY <1>1, <1>4, <2>3, Statements, ReferencePairs
  <2>4. QED
    BY <1>2, <2>1, <2>2, <2>3
<1>5. ASSUME NEW i \in 1..4, NEW t, Down[v][i] \in References(t)
      PROVE  \E j \in 1..(i - 1) : Down[v][j] = t
  <2>1. CASE v = 1
    BY <1>1, <1>5, <2>1, Statements, ReferencePairs
  <2>2. CASE v = 2
    BY <1>1, <1>5, <2>2, Statements, ReferencePairs
  <2>3. CASE v = 3
    BY <1>1, <1>5, <2>3, Statements, ReferencePairs
  <2>4. QED
    BY <1>2, <2>1, <2>2, <2>3
<1>6. QED
  BY <1>3, <1>4, <1>5 DEF Executes

LEMMA MaxVersion ==
    ASSUME NEW V \in SUBSET Version
    PROVE  /\ currentVersion(V) \in 0..3 /\ \A v \in V : v <= currentVersion(V)
           /\ (\A v \in V : 1..v \subseteq V) => V = 1..currentVersion(V)
<1>1. \A v \in V : v \in Nat /\ (v = 1 \/ v = 2 \/ v = 3)
  BY DEF Version
<1>2. CASE V = {}
  BY <1>2 DEF currentVersion
<1>3. CASE V # {}
  <2>1. \E v \in V : \A w \in V : w <= v
    BY <1>1, <1>3
  <2>2. PICK c \in V : c = currentVersion(V) /\ \A w \in V : w <= c
    BY <1>3, <2>1 DEF currentVersion
  <2>3. V \subseteq 1..c
    BY <1>1, <2>2
  <2>4. (\A v \in V : 1..v \subseteq V) => V = 1..c
    BY <2>3
  <2>5. QED
    BY <1>1, <2>2, <2>4
<1>4. QED
  BY <1>2, <1>3

-----------------------------------------------------------------------------
(* The frame of a step.                                                    *)

\* A step of p leaves the other processes where they are.
Others(p) ==
    /\ UNCHANGED deployment
    /\ \A q \in Proc \ {p} :
         pc'[q] = pc[q] /\ job'[q] = job[q] /\ at'[q] = at[q] /\ stmt'[q] = stmt[q]

\* What DowngradeLands says of one process.
LandedAt(p) ==
    pc[p] = "done" /\ ~Upgrades(p) /\ Alone(p) =>
        versions = 1..job[p] /\ tables = Built(versions)

\* A process is alone, or the lock is PostgreSQL's.
Guarded == Dialect = "postgres" \/ \E p \in Proc : Alone(p)

\* Where at most one process is in its loop, no other one is in a script.
LEMMA OneInScript ==
    ASSUME MigrateInv, Apart, NEW p \in Proc, NEW q \in Proc,
           pc[p] = "script", pc[q] = "script"
    PROVE  p = q
<1>1. CASE Dialect = "postgres" /\ ~lost
  BY <1>1 DEF MigrateInv, LockInv, Running
<1>2. CASE \E s \in Proc : Alone(s)
  BY <1>2 DEF MigrateInv, ControlAt, Alone
<1>3. QED
  BY <1>1, <1>2 DEF Apart

\* A downgrade in its script is the only process there, as long as the lock's
\* session lives.
LEMMA DowngradeApart ==
    ASSUME MigrateInv
    PROVE  /\ OnlyUpgrades \/ ~lost => Apart \/ OnlyUpgrades
           /\ \A p \in Proc : pc[p] # "off" /\ OnlyUpgrades => Upgrades(p)
           /\ \A p \in Proc : Alone(p) => Apart
<1>1. deployment \in Deployments
  BY DEF MigrateInv, TypeOK
<1>2. OnlyUpgrades \/ ~lost => Apart \/ OnlyUpgrades
  BY <1>1, DowngradeAssumption DEF OnlyUpgrades, Apart, Alone, Dialect
<1>3. \A p \in Proc : pc[p] # "off" /\ OnlyUpgrades => Upgrades(p)
  BY DEF MigrateInv, ControlAt, OnlyUpgrades, Upgrades
<1>4. QED
  BY <1>2, <1>3 DEF Apart

\* What a step of one process has to show for itself: its own control and lock,
\* the tables it changes, and its own result.
LEMMA StepKeeps ==
    ASSUME MigrateInv, NEW p \in Proc, Others(p), p \in deployment.procs,
           TypeOK', ControlAt(p)',
           lost => lost', faults <= faults', lost' => lost \/ faults < faults',
           lock' = lock \/ lock \in {p, Nil},
           Dialect = "postgres" /\ ~lost' /\ pc'[p] \in Running => lock' = p,
           (Apart \/ OnlyUpgrades)' => Sound' /\ UpAt(p)' /\ DownAt(p)',
           \/ UNCHANGED schema
           \/ /\ pc[p] = "script"
              /\ OnlyUpgrades => versions \subseteq versions' /\ tables \subseteq tables',
           LandedAt(p)',
           pc'[p] = "failed" => pc[p] = "failed" \/ faults' > 0 \/ ~Guarded
    PROVE  MigrateInv'
<1> USE DEF MigrateInv
<1>1. /\ Dialect' = Dialect /\ OnlyUpgrades' = OnlyUpgrades /\ Guarded' = Guarded
      /\ \A q \in Proc : Alone(q)' = Alone(q)
      /\ Apart' => Apart
      /\ lost \in BOOLEAN /\ lost' \in BOOLEAN
      /\ faults \in Nat /\ faults' \in Nat
  BY MigrateAssumption DEF Others, Dialect, OnlyUpgrades, Guarded, Alone, Apart, TypeOK
<1>2. ASSUME NEW q \in Proc \ {p}
      PROVE  ControlAt(q)'
  BY <1>2 DEF ControlAt, Others, Upgrades
<1>3. LockInv'
  <2>1. lost' => faults' > 0
    BY <1>1 DEF LockInv
  <2>2. ASSUME Dialect = "postgres", ~lost', NEW q \in Proc, pc'[q] \in Running
        PROVE  lock' = q
    <3>1. CASE q = p
      BY <2>2, <3>1
    <3>2. CASE q # p
      <4>1. pc[q] \in Running /\ lock = q
        BY <1>1, <2>2, <3>2 DEF Others, LockInv
      <4>2. lock \notin {p, Nil}
        BY <3>2, <4>1, MigrateAssumption
      <4>3. QED
        BY <4>1, <4>2
    <3>3. QED
      BY <3>1, <3>2
  <2>3. QED
    BY <1>1, <2>1, <2>2 DEF LockInv, Running
<1>4. DataInv'
  <2> SUFFICES ASSUME (Apart \/ OnlyUpgrades)'
               PROVE  \A q \in Proc : UpAt(q)' /\ DownAt(q)'
    BY DEF DataInv
  <2>1. Apart \/ OnlyUpgrades
    BY <1>1
  <2>2. ASSUME NEW q \in Proc, q # p
        PROVE  UpAt(q)' /\ DownAt(q)'
    <3>1. /\ pc'[q] = pc[q] /\ job'[q] = job[q] /\ at'[q] = at[q] /\ stmt'[q] = stmt[q]
          /\ Upgrades(q)' = Upgrades(q)
      BY <2>2 DEF Others, Upgrades
    <3>2. UpAt(q) /\ DownAt(q)
      BY <2>1 DEF DataInv
    <3>3. CASE UNCHANGED schema
      BY <1>1, <3>1, <3>2, <3>3 DEF schema, UpAt, DownAt
    <3>4. CASE pc[p] = "script" /\ pc[q] = "script" /\ Apart
      BY <2>2, <3>4, OneInScript
    <3>5. CASE pc[q] # "script"
      BY <3>1, <3>5 DEF UpAt, DownAt
    <3>6. CASE OnlyUpgrades /\ ~Apart /\ pc[q] = "script"
               /\ versions \subseteq versions' /\ tables \subseteq tables'
      <4>1. Upgrades(q) /\ ~Apart'
        BY <1>1, <3>6, DowngradeApart
      <4>2. QED
        BY <3>1, <3>2, <3>6, <4>1 DEF UpAt, DownAt
    <3>7. QED
      BY <2>1, <3>3, <3>4, <3>5, <3>6
  <2>3. QED
    BY <2>2
<1>5. DowngradeLands'
  <2>1. ASSUME NEW q \in Proc, q # p
        PROVE  ~Alone(q)'
    BY <1>1, <2>1 DEF Alone
  <2>2. \A q \in Proc : LandedAt(q)'
    BY <2>1 DEF LandedAt
  <2>3. QED
    BY <2>2 DEF LandedAt, DowngradeLands
<1>6. NoFailureWithoutFault'
  <2> SUFFICES ASSUME faults' = 0, Guarded, NEW q \in Proc
               PROVE  pc'[q] # "failed"
    BY <1>1 DEF NoFailureWithoutFault, Guarded
  <2>1. faults = 0
    BY <1>1
  <2>2. pc[q] # "failed"
    BY <2>1 DEF NoFailureWithoutFault, Guarded
  <2>3. QED
    BY <2>2 DEF Others
<1>7. QED
  BY <1>2, <1>3, <1>4, <1>5, <1>6

\* What Stop does to the process, and to the lock.
LEMMA StopEffect ==
    ASSUME TypeOK, NEW p \in Proc, NEW l, Stop(p, l), UNCHANGED <<deployment, job>>,
           l \in {"off", "done", "refused", "failed"}
    PROVE  /\ Others(p)
           /\ pc' \in [Proc -> {"off", "lock", "done", "refused", "failed"} \cup Running]
           /\ at' \in [Proc -> 0..3] /\ stmt' \in [Proc -> 1..5]
           /\ lock' \in Proc \cup {Nil}
           /\ pc'[p] = l /\ stmt'[p] = 1 /\ l \notin Running /\ l # "script"
           /\ lock' = lock \/ lock \in {p, Nil}
<1>1. /\ pc' = [pc EXCEPT ![p] = l] /\ at' = [at EXCEPT ![p] = 0]
      /\ stmt' = [stmt EXCEPT ![p] = 1]
      /\ lock' = IF lock = p THEN Nil ELSE lock
  BY DEF Stop, Goto, Release
<1>2. QED
  BY <1>1 DEF TypeOK, Others, Running

\* A process that leaves its loop keeps the invariant, if the tables it leaves do.
LEMMA StopKeeps ==
    ASSUME MigrateInv, NEW p \in Proc, NEW l, Stop(p, l), pc[p] # "off",
           l \in {"off", "done", "refused", "failed"},
           UNCHANGED <<deployment, job, lost>>,
           faults' \in 0..MaxFaults, faults <= faults',
           tables' \subseteq Built(Version), versions' \subseteq Version,
           Apart \/ OnlyUpgrades => Sound',
           \/ UNCHANGED schema
           \/ /\ pc[p] = "script"
              /\ OnlyUpgrades => versions \subseteq versions' /\ tables \subseteq tables',
           l = "done" => LandedAt(p)',
           l = "failed" => faults' > 0 \/ ~Guarded
    PROVE  MigrateInv'
<1> USE DEF MigrateInv
<1>1. /\ Others(p) /\ pc'[p] = l /\ stmt'[p] = 1 /\ l \notin Running /\ l # "script"
      /\ lock' = lock \/ lock \in {p, Nil}
  BY StopEffect
<1>2. TypeOK'
  BY StopEffect DEF TypeOK
<1>3. p \in deployment.procs /\ job[p] \in deployment.jobs
  BY DEF ControlAt
<1>4. ControlAt(p)'
  BY <1>1, <1>3 DEF ControlAt
<1>5. (Apart \/ OnlyUpgrades)' <=> Apart \/ OnlyUpgrades
  BY DEF Apart, OnlyUpgrades, Dialect, Alone
<1>6. UpAt(p)' /\ DownAt(p)'
  BY <1>1 DEF UpAt, DownAt
<1>7. LandedAt(p)'
  BY <1>1 DEF LandedAt
<1>8. QED
  <2>1. (Apart \/ OnlyUpgrades)' => Sound' /\ UpAt(p)' /\ DownAt(p)'
    BY <1>5, <1>6
  <2>2. lost' => lost \/ faults < faults'
    OBVIOUS
  <2>3. pc'[p] = "failed" => pc[p] = "failed" \/ faults' > 0 \/ ~Guarded
    BY <1>1
  <2>4. QED
    BY <1>1, <1>2, <1>3, <1>4, <1>7, <2>1, <2>2, <2>3, StepKeeps

-----------------------------------------------------------------------------
(* Before the scripts.                                                     *)

LEMMA StartKeeps ==
    ASSUME MigrateInv, NEW p \in Proc, Start(p), UNCHANGED <<deployment, lost>>
    PROVE  MigrateInv'
<1> USE DEF MigrateInv
<1>1. PICK j \in deployment.jobs : job' = [job EXCEPT ![p] = j]
  BY DEF Start
<1>2. /\ pc[p] = "off" /\ p \in deployment.procs /\ pc' = [pc EXCEPT ![p] = "lock"]
      /\ UNCHANGED <<tables, versions, lock, at, stmt, faults>>
  BY DEF Start, Goto, schema
<1>3. j \in (0..2) \cup {UpgradeJob}
  BY MigrateAssumption DEF TypeOK
<1>4. Others(p) /\ pc'[p] = "lock" /\ job'[p] = j /\ stmt'[p] = stmt[p]
  BY <1>1, <1>2 DEF TypeOK, Others
<1>5. TypeOK'
  BY <1>1, <1>2, <1>3 DEF TypeOK
<1>6. ControlAt(p)'
  BY <1>2, <1>4 DEF ControlAt
<1>7. (Apart \/ OnlyUpgrades)' => Sound'
  BY <1>2 DEF DataInv, Apart, OnlyUpgrades, Dialect, Alone, Sound, Built
<1>8. UpAt(p)' /\ DownAt(p)' /\ LandedAt(p)' /\ pc'[p] \notin Running
  BY <1>4 DEF UpAt, DownAt, LandedAt, Running
<1>9. UNCHANGED schema /\ faults <= faults'
  BY <1>2 DEF schema, TypeOK
<1>10. QED
  BY <1>2, <1>4, <1>5, <1>6, <1>7, <1>8, <1>9, StepKeeps

LEMMA AcquireKeeps ==
    ASSUME MigrateInv, NEW p \in Proc, Acquire(p), UNCHANGED <<deployment, lost>>
    PROVE  MigrateInv'
<1> USE DEF MigrateInv
<1>1. /\ pc[p] = "lock" /\ pc' = [pc EXCEPT ![p] = "read"]
      /\ UNCHANGED <<tables, versions, job, at, stmt, faults>>
      /\ IF Dialect = "postgres" THEN lock = Nil /\ lock' = p ELSE UNCHANGED lock
  BY DEF Acquire, Goto, schema
<1>2. Others(p) /\ pc'[p] = "read" /\ p \in deployment.procs
  BY <1>1 DEF TypeOK, Others, ControlAt
<1>3. TypeOK'
  BY <1>1 DEF TypeOK, Running
<1>4. ControlAt(p)'
  BY <1>1, <1>2 DEF ControlAt
<1>5. (Apart \/ OnlyUpgrades)' => Sound'
  BY <1>1 DEF DataInv, Apart, OnlyUpgrades, Dialect, Alone, Sound, Built
<1>6. UpAt(p)' /\ DownAt(p)' /\ LandedAt(p)'
  BY <1>2 DEF UpAt, DownAt, LandedAt
<1>7. UNCHANGED schema /\ faults <= faults'
  BY <1>1 DEF schema, TypeOK
<1>8. lock' = lock \/ lock \in {p, Nil}
  BY <1>1
<1>9. Dialect = "postgres" => lock' = p
  BY <1>1
<1>10. QED
  BY <1>2, <1>3, <1>4, <1>5, <1>6, <1>7, <1>8, <1>9, StepKeeps

\* The version read is the one the tables are at.
LEMMA ReadVersionKeeps ==
    ASSUME MigrateInv, NEW p \in Proc, ReadVersion(p), UNCHANGED <<deployment, lost>>
    PROVE  MigrateInv'
<1> USE DEF MigrateInv
<1> DEFINE current == currentVersion(versions)
<1>1. pc[p] = "read" /\ UNCHANGED <<tables, versions, job, faults>>
  BY DEF ReadVersion, schema
<1>2. /\ current \in 0..3 /\ \A v \in versions : v <= current
      /\ Sound => versions = 1..current
  BY MaxVersion DEF TypeOK, Sound
<1>3. /\ job[p] \in (0..2) \cup {UpgradeJob} /\ p \in deployment.procs
      /\ job[p] \in deployment.jobs /\ stmt[p] = 1
  BY <1>1 DEF TypeOK, ControlAt
<1>4. /\ Apart \/ OnlyUpgrades => Sound
      /\ (Apart \/ OnlyUpgrades)' => Apart \/ OnlyUpgrades
  BY DEF DataInv, Apart, OnlyUpgrades, Dialect, Alone
<1>5. \/ Stop(p, "done") /\ Upgrades(p)
      \/ Stop(p, "refused")
      \/ \E v \in Version :
           /\ pc' = [pc EXCEPT ![p] = "script"] /\ at' = [at EXCEPT ![p] = v]
           /\ UNCHANGED <<stmt, lock>>
           /\ \/ Upgrades(p) /\ v = current + 1
              \/ ~Upgrades(p) /\ v = 3 /\ job[p] < current
  <2>1. CASE Upgrades(p) /\ current = 3
    BY <2>1 DEF ReadVersion
  <2>2. CASE Upgrades(p) /\ current # 3
    <3>1. current + 1 \in Version /\ current < 3
      BY <1>2, <2>2 DEF Version
    <3>2. /\ Goto(p, "script") /\ at' = [at EXCEPT ![p] = current + 1]
          /\ UNCHANGED <<stmt, lock>>
      BY <2>2, <3>1 DEF ReadVersion
    <3>3. QED
      BY <2>2, <3>1, <3>2 DEF Goto
  <2>3. CASE ~Upgrades(p) /\ job[p] >= current
    <3>1. ~(job[p] < current)
      BY <1>2, <1>3, <2>3 DEF UpgradeJob
    <3>2. Stop(p, "refused")
      BY <2>3, <3>1 DEF ReadVersion
    <3>3. QED
      BY <3>2
  <2>4. CASE ~Upgrades(p) /\ ~(job[p] >= current)
    <3>1. 3 \in Version /\ job[p] < current
      BY <1>2, <1>3, <2>4 DEF Version, UpgradeJob
    <3>2. /\ Goto(p, "script") /\ at' = [at EXCEPT ![p] = 3]
          /\ UNCHANGED <<stmt, lock>>
      BY <2>4, <3>1 DEF ReadVersion
    <3>3. QED
      BY <2>4, <3>1, <3>2 DEF Goto
  <2>5. QED
    BY <2>1, <2>2, <2>3, <2>4
<1>6. /\ tables' \subseteq Built(Version) /\ versions' \subseteq Version
      /\ UNCHANGED schema /\ faults' \in 0..MaxFaults /\ faults <= faults'
      /\ Apart \/ OnlyUpgrades => Sound'
  BY <1>1, <1>4 DEF TypeOK, schema, Sound
<1>7. CASE Stop(p, "done") /\ Upgrades(p)
  <2>1. LandedAt(p)'
    BY <1>1, <1>7 DEF LandedAt, Upgrades
  <2>2. QED
    BY <1>1, <1>6, <1>7, <2>1, StopKeeps
<1>8. CASE Stop(p, "refused")
  BY <1>1, <1>6, <1>8, StopKeeps
<1>9. ASSUME NEW v \in Version,
             pc' = [pc EXCEPT ![p] = "script"], at' = [at EXCEPT ![p] = v],
             UNCHANGED <<stmt, lock>>,
             \/ Upgrades(p) /\ v = current + 1
             \/ ~Upgrades(p) /\ v = 3 /\ job[p] < current
      PROVE  MigrateInv'
  <2>1. /\ Others(p) /\ pc'[p] = "script" /\ at'[p] = v /\ stmt'[p] = 1
        /\ job'[p] = job[p] /\ Upgrades(p)' = Upgrades(p)
    BY <1>1, <1>3, <1>9 DEF TypeOK, Others, Upgrades
  <2>2. TypeOK'
    BY <1>1, <1>9 DEF TypeOK, Running, Version
  <2>3. ControlAt(p)'
    <3>1. v \in Version /\ (~Upgrades(p) => job[p] < v)
      BY <1>2, <1>3, <1>9 DEF UpgradeJob, Upgrades
    <3>2. QED
      BY <1>1, <1>3, <2>1, <3>1 DEF ControlAt
  <2>4. ASSUME Apart \/ OnlyUpgrades
        PROVE  UpAt(p)' /\ DownAt(p)'
    <3>1. versions = 1..current
      BY <1>2, <1>4, <2>4
    <3>2. CASE Upgrades(p)
      <4>1. v - 1 = current
        BY <1>2, <1>9, <3>2
      <4>2. versions' = 1..(v - 1) /\ 1..(stmt'[p] - 1) = {}
        BY <1>1, <2>1, <3>1, <4>1
      <4>3. QED
        BY <2>1, <3>2, <4>2 DEF UpAt, DownAt
    <3>3. CASE ~Upgrades(p)
      <4>1. v = 3 /\ versions \subseteq 1..3 /\ 1..job[p] \subseteq versions
        BY <1>2, <1>3, <1>9, <3>1, <3>3 DEF UpgradeJob, Upgrades
      <4>2. tables \subseteq Built(1..v)
        BY <4>1 DEF TypeOK, Version
      <4>3. QED
        BY <1>1, <2>1, <3>3, <4>1, <4>2 DEF UpAt, DownAt
    <3>4. QED
      BY <3>2, <3>3
  <2>5. LandedAt(p)'
    BY <2>1 DEF LandedAt
  <2>6. (Apart \/ OnlyUpgrades)' => Sound' /\ UpAt(p)' /\ DownAt(p)'
    BY <1>4, <1>6, <2>4
  <2>7. Dialect = "postgres" /\ ~lost' => lock' = p
    BY <1>1, <1>9 DEF LockInv, Running
  <2>8. QED
    BY <1>3, <1>6, <1>9, <2>1, <2>2, <2>3, <2>5, <2>6, <2>7, StepKeeps
<1>10. QED
  BY <1>5, <1>7, <1>8, <1>9

-----------------------------------------------------------------------------
(* The scripts.                                                            *)

\* A recorded version whose tables are built keeps the schema sound.
LEMMA SoundUp ==
    ASSUME Sound, NEW v \in Version, 1..(v - 1) \subseteq versions,
           versions' = versions \cup {v}, tables \subseteq tables',
           TablesOf(v) \subseteq tables'
    PROVE  Sound'
<1>1. v \in Nat
  BY DEF Version
<1>2. \A u \in 1..v : u \in 1..(v - 1) \/ u = v
  BY <1>1
<1>3. ASSUME NEW u \in versions
      PROVE  1..u \subseteq versions' /\ Built(1..u) \subseteq tables'
  BY DEF Sound
<1>4. 1..v \subseteq versions'
  BY <1>2
<1>5. ASSUME NEW t \in Built(1..v)
      PROVE  t \in tables'
  <2>1. PICK u \in 1..v : t \in TablesOf(u)
    BY DEF Built
  <2>2. CASE u = v
    BY <2>1, <2>2
  <2>3. CASE u \in 1..(v - 1)
    <3>1. u \in versions /\ u \in 1..u
      BY <2>3
    <3>2. t \in Built(1..u)
      BY <2>1, <3>1 DEF Built
    <3>3. QED
      BY <1>3, <3>1, <3>2
  <2>4. QED
    BY <1>2, <2>1, <2>2, <2>3
<1>6. \A u \in versions' : 1..u \subseteq versions' /\ Built(1..u) \subseteq tables'
  BY <1>3, <1>4, <1>5
<1>7. QED
  BY <1>6 DEF Sound, Built

\* So does the removal of the highest version with tables of its own.
LEMMA SoundDown ==
    ASSUME Sound, versions \subseteq Version, NEW v \in Version, versions \subseteq 1..v,
           versions' = versions \ {v},
           \A t \in tables : t \in tables' \/ t \in TablesOf(v)
    PROVE  Sound'
<1>1. ASSUME NEW u \in versions'
      PROVE  1..u \subseteq versions' /\ Built(1..u) \subseteq tables'
  <2>1. u \in versions /\ u \in 1..v /\ u # v /\ v \in Nat
    BY <1>1 DEF Version
  <2>2. 1..u \subseteq versions /\ Built(1..u) \subseteq tables
    BY <2>1 DEF Sound
  <2>3. v \notin 1..u
    BY <2>1
  <2>4. ASSUME NEW t \in Built(1..u)
        PROVE  t \in tables'
    <3>1. PICK w \in 1..u : t \in TablesOf(w)
      BY DEF Built
    <3>2. w \in Version /\ w # v
      BY <2>2, <2>3, <3>1
    <3>3. t \notin TablesOf(v)
      BY <3>1, <3>2, TablesDisjoint
    <3>4. QED
      BY <2>2, <3>3
  <2>5. QED
    BY <2>2, <2>3, <2>4
<1>2. QED
  BY <1>1 DEF Sound, Built

\* The next script of the loop.
LEMMA NextScriptEffect ==
    ASSUME MigrateInv, NEW p \in Proc, pc[p] = "script", NextScript(p),
           UNCHANGED <<deployment, job>>
    PROVE  \/ /\ Stop(p, "done")
              /\ at[p] = IF Upgrades(p) THEN 3 ELSE job[p] + 1
           \/ /\ Others(p) /\ pc' = pc
              /\ stmt' = [stmt EXCEPT ![p] = 1]
              /\ at' = [at EXCEPT ![p] = IF Upgrades(p) THEN at[p] + 1 ELSE at[p] - 1]
              /\ UNCHANGED lock
              /\ at[p] # IF Upgrades(p) THEN 3 ELSE job[p] + 1
<1>1. CASE at[p] = (IF Upgrades(p) THEN 3 ELSE job[p] + 1)
  BY <1>1 DEF NextScript
<1>2. CASE at[p] # (IF Upgrades(p) THEN 3 ELSE job[p] + 1)
  <2>1. /\ at' = [at EXCEPT ![p] = IF Upgrades(p) THEN at[p] + 1 ELSE at[p] - 1]
        /\ stmt' = [stmt EXCEPT ![p] = 1]
        /\ pc' = [pc EXCEPT ![p] = "script"]
        /\ UNCHANGED lock
    BY <1>2 DEF NextScript, Goto
  <2>2. pc' = pc
    BY <2>1 DEF MigrateInv, TypeOK
  <2>3. Others(p)
    BY <2>1, <2>2 DEF Others, MigrateInv, TypeOK
  <2>4. QED
    BY <1>2, <2>1, <2>2, <2>3
<1>3. QED
  BY <1>1, <1>2

\* A process that stays in its loop keeps the invariant, if what it has done
\* agrees with where it is.
LEMMA StayKeeps ==
    ASSUME MigrateInv, NEW p \in Proc, Others(p), pc[p] = "script", pc' = pc,
           UNCHANGED <<job, faults, lost, lock>>, TypeOK',
           at'[p] \in Version, ~Upgrades(p) => job[p] < at'[p],
           OnlyUpgrades => versions \subseteq versions' /\ tables \subseteq tables',
           Apart \/ OnlyUpgrades => Sound' /\ UpAt(p)' /\ DownAt(p)'
    PROVE  MigrateInv'
<1> USE DEF MigrateInv
<1>1. p \in deployment.procs /\ job[p] \in deployment.jobs
  BY DEF ControlAt
<1>2. ControlAt(p)'
  BY <1>1 DEF ControlAt, Others, Upgrades
<1>3. (Apart \/ OnlyUpgrades)' => Apart \/ OnlyUpgrades
  BY DEF Others, Apart, OnlyUpgrades, Dialect, Alone
<1>4. (Apart \/ OnlyUpgrades)' => Sound' /\ UpAt(p)' /\ DownAt(p)'
  BY <1>3
<1>5. LandedAt(p)'
  BY DEF LandedAt
<1>6. Dialect = "postgres" /\ ~lost' /\ pc'[p] \in Running => lock' = p
  BY DEF LockInv, Running
<1>7. faults <= faults'
  BY DEF TypeOK
<1>8. QED
  BY <1>1, <1>2, <1>4, <1>5, <1>6, <1>7, StepKeeps

\* An upgrade that has built and recorded its version goes on or is done.
LEMMA UpNextKeeps ==
    ASSUME MigrateInv, NEW p \in Proc, pc[p] = "script", Upgrades(p), NextScript(p),
           UNCHANGED <<deployment, job, faults, lost>>,
           versions' = versions \cup {at[p]},
           tables \subseteq tables', tables' \subseteq Built(Version),
           Apart \/ OnlyUpgrades => TablesOf(at[p]) \subseteq tables'
    PROVE  MigrateInv'
<1> USE DEF MigrateInv
<1> DEFINE v == at[p]
<1>1. v \in Version /\ v \in Nat /\ versions' \subseteq Version
  <2>1. v \in Version /\ versions \subseteq Version
    BY DEF ControlAt, TypeOK
  <2>2. versions' \subseteq Version
    BY <2>1
  <2>3. QED
    BY <2>1, <2>2 DEF Version
<1>2. ASSUME Apart \/ OnlyUpgrades
      PROVE  /\ 1..(v - 1) \subseteq versions /\ Sound'
             /\ Apart => versions = 1..(v - 1)
  <2>1. Sound /\ 1..(v - 1) \subseteq versions /\ (Apart => versions = 1..(v - 1))
    BY <1>2 DEF DataInv, UpAt
  <2>2. QED
    BY <1>1, <1>2, <2>1, SoundUp
<1>3. CASE Stop(p, "done")
  <2>1. LandedAt(p)'
    BY DEF LandedAt, Upgrades
  <2>2. faults' \in 0..MaxFaults /\ faults <= faults' /\ versions \subseteq versions'
    BY DEF TypeOK
  <2>3. QED
    BY <1>1, <1>2, <1>3, <2>1, <2>2, StopKeeps
<1>4. CASE /\ Others(p) /\ pc' = pc
           /\ stmt' = [stmt EXCEPT ![p] = 1]
           /\ at' = [at EXCEPT ![p] = at[p] + 1]
           /\ UNCHANGED lock
           /\ at[p] # 3
  <2>1. v + 1 \in Version /\ at'[p] = v + 1 /\ stmt'[p] = 1
    BY <1>1, <1>4 DEF TypeOK, Version
  <2>2. TypeOK'
    BY <1>1, <1>4, <2>1 DEF TypeOK, Version
  <2>3. ASSUME Apart \/ OnlyUpgrades
        PROVE  UpAt(p)' /\ DownAt(p)'
    <3>1. at'[p] - 1 = v /\ 1..(stmt'[p] - 1) = {} /\ Upgrades(p)'
      BY <1>1, <2>1 DEF Upgrades
    <3>2. 1..v = 1..(v - 1) \cup {v}
      BY <1>1 DEF Version
    <3>3. 1..v \subseteq versions' /\ (Apart => versions' = 1..v)
      BY <1>2, <2>3, <3>2
    <3>4. Apart' => Apart
      BY DEF Apart, Dialect, Alone
    <3>5. QED
      BY <3>1, <3>3, <3>4 DEF UpAt, DownAt
  <2>4. versions \subseteq versions'
    OBVIOUS
  <2>5. QED
    BY <1>2, <1>4, <2>1, <2>2, <2>3, <2>4, StayKeeps
<1>5. QED
  BY <1>3, <1>4, NextScriptEffect

\* A downgrade that has dropped its version goes on or is done.
LEMMA DownNextKeeps ==
    ASSUME MigrateInv, NEW p \in Proc, pc[p] = "script", ~Upgrades(p), NextScript(p),
           UNCHANGED <<deployment, job, faults, lost>>,
           versions' \subseteq versions, tables' \subseteq tables,
           Apart => /\ versions' = versions \ {at[p]}
                    /\ tables' \cap TablesOf(at[p]) = {}
                    /\ \A t \in tables : t \in tables' \/ t \in TablesOf(at[p])
    PROVE  MigrateInv'
<1> USE DEF MigrateInv
<1> DEFINE v == at[p]
<1>1. /\ v \in Version /\ v \in Nat /\ job[p] < v /\ job[p] \in 0..2
      /\ versions' \subseteq Version /\ tables' \subseteq Built(Version) /\ ~OnlyUpgrades
  BY DowngradeApart DEF ControlAt, TypeOK, Version, Upgrades
<1>2. ASSUME Apart
      PROVE  /\ Sound' /\ versions' \subseteq 1..(v - 1) /\ 1..job[p] \subseteq versions'
             /\ tables' \subseteq Built(1..(v - 1))
  <2>1. /\ Sound /\ versions \subseteq 1..v /\ 1..job[p] \subseteq versions
        /\ tables \subseteq Built(1..v) /\ versions \subseteq Version
    BY <1>2 DEF DataInv, DownAt, TypeOK
  <2>2. Sound'
    BY <1>1, <1>2, <2>1, SoundDown
  <2>3. \A u \in 1..v : u # v => u \in 1..(v - 1)
    BY <1>1
  <2>4. v \notin 1..job[p]
    BY <1>1
  <2>5. ASSUME NEW t \in tables'
        PROVE  t \in Built(1..(v - 1))
    <3>1. PICK u \in 1..v : t \in TablesOf(u)
      BY <2>1 DEF Built
    <3>2. u # v
      BY <1>2, <3>1
    <3>3. u \in 1..(v - 1)
      BY <2>3, <3>2
    <3>4. QED
      BY <3>1, <3>3 DEF Built
  <2>6. QED
    BY <1>2, <2>1, <2>2, <2>3, <2>4, <2>5
<1>3. CASE Stop(p, "done") /\ v = job[p] + 1
  <2>1. LandedAt(p)'
    <3> SUFFICES ASSUME Alone(p)
                 PROVE  versions' = 1..job[p] /\ tables' = Built(versions')
      BY DEF LandedAt, Built, Alone
    <3>1. Apart
      BY DEF Apart
    <3>2. versions' = 1..job[p]
      <4>1. v - 1 = job[p]
        BY <1>1, <1>3
      <4>2. QED
        BY <1>2, <3>1, <4>1
    <3>3. tables' \subseteq Built(versions')
      BY <1>1, <1>2, <1>3, <3>1, <3>2
    <3>4. ASSUME NEW t \in Built(versions')
          PROVE  t \in tables'
      <4>1. PICK u \in versions' : t \in TablesOf(u)
        BY DEF Built
      <4>2. u \in 1..u
        BY <1>1, <4>1 DEF Version
      <4>3. t \in Built(1..u)
        BY <4>1, <4>2 DEF Built
      <4>4. Built(1..u) \subseteq tables'
        BY <1>2, <3>1, <4>1 DEF Sound, Built
      <4>5. QED
        BY <4>3, <4>4
    <3>5. QED
      BY <3>2, <3>3, <3>4
  <2>2. faults' \in 0..MaxFaults /\ faults <= faults'
    BY DEF TypeOK
  <2>3. Apart \/ OnlyUpgrades => Sound'
    BY <1>1, <1>2
  <2>4. QED
    BY <1>1, <1>3, <2>1, <2>2, <2>3, StopKeeps
<1>4. CASE /\ Others(p) /\ pc' = pc
           /\ stmt' = [stmt EXCEPT ![p] = 1]
           /\ at' = [at EXCEPT ![p] = at[p] - 1]
           /\ UNCHANGED lock
           /\ at[p] # job[p] + 1
  <2>1. v - 1 \in Version /\ job[p] < v - 1 /\ at'[p] = v - 1 /\ stmt'[p] = 1
    BY <1>1, <1>4 DEF TypeOK, Version
  <2>2. TypeOK'
    BY <1>1, <1>4, <2>1 DEF TypeOK, Version
  <2>3. ASSUME Apart
        PROVE  UpAt(p)' /\ DownAt(p)'
    <3>1. 1..(stmt'[p] - 1) = {} /\ ~Upgrades(p)' /\ ~(stmt'[p] > 1)
      BY <2>1 DEF Upgrades
    <3>2. /\ versions' \subseteq 1..at'[p] /\ 1..job'[p] \subseteq versions'
          /\ tables' \subseteq Built(1..at'[p])
      BY <1>2, <2>1, <2>3
    <3>3. QED
      BY <3>1, <3>2 DEF UpAt, DownAt, Built
  <2>4. QED
    BY <1>1, <1>2, <1>4, <2>1, <2>2, <2>3, StayKeeps
<1>5. QED
  BY <1>3, <1>4, NextScriptEffect

\* Without a fault the lock's session is alive.
LEMMA GuardedApart ==
    ASSUME MigrateInv, faults = 0, Guarded
    PROVE  Apart
BY DEF MigrateInv, TypeOK, LockInv, Guarded, Apart

\* The version and the statements of a process that is in a script.
LEMMA InScript ==
    ASSUME MigrateInv, NEW p \in Proc, pc[p] = "script"
    PROVE  /\ at[p] \in Version /\ at[p] \in Nat /\ stmt[p] \in 1..5
           /\ Len(Script(p)) = 4
           /\ Upgrades(p) => Script(p) = Up[at[p]]
           /\ ~Upgrades(p) => Script(p) = Down[at[p]] /\ job[p] \in 0..2 /\ job[p] < at[p]
                              /\ ~OnlyUpgrades
           /\ TablesOf(at[p]) \subseteq Built(Version)
           /\ TablesOf(at[p]) = {Up[at[p]][i] : i \in 1..4}
<1>1. at[p] \in Version /\ stmt[p] \in 1..5 /\ (~Upgrades(p) => job[p] < at[p])
  BY DEF MigrateInv, TypeOK, ControlAt
<1>2. /\ Upgrades(p) => Script(p) = Up[at[p]]
      /\ ~Upgrades(p) => Script(p) = Down[at[p]]
  BY DEF Script
<1>3. Len(Script(p)) = 4
  BY <1>1, <1>2, ScriptFacts
<1>4. ~Upgrades(p) => job[p] \in 0..2 /\ ~OnlyUpgrades
  BY DowngradeApart DEF MigrateInv, TypeOK, Upgrades
<1>5. TablesOf(at[p]) = {Up[at[p]][i] : i \in 1..4}
  BY <1>1, ScriptFacts DEF TablesOf, Entries
<1>6. TablesOf(at[p]) \subseteq Built(Version)
  BY <1>1 DEF Built
<1>7. at[p] \in Nat
  BY <1>1 DEF Version
<1>8. QED
  BY <1>1, <1>2, <1>3, <1>4, <1>5, <1>6, <1>7

LEMMA FailedStopKeeps ==
    ASSUME MigrateInv, NEW p \in Proc, pc[p] = "script", Stop(p, "failed"),
           UNCHANGED <<deployment, job, faults, lost, tables, versions>>,
           faults > 0 \/ ~Guarded
    PROVE  MigrateInv'
<1> USE DEF MigrateInv
<1>1. /\ tables' \subseteq Built(Version) /\ versions' \subseteq Version
      /\ UNCHANGED schema /\ faults' \in 0..MaxFaults /\ faults <= faults'
      /\ Apart \/ OnlyUpgrades => Sound'
  BY DEF TypeOK, schema, DataInv, Sound, Built
<1>2. QED
  BY <1>1, StopKeeps

\* Where nobody else migrates, the version row of an upgrade's script can be written.
LEMMA ScriptRecords ==
    ASSUME MigrateInv, NEW p \in Proc, pc[p] = "script", Upgrades(p), faults = 0, Guarded
    PROVE  Records(at[p], tables \cup TablesOf(at[p]))
<1> USE DEF MigrateInv
<1> DEFINE v == at[p]
<1>1. v \in Version /\ v \in Nat
  BY InScript
<1>2. versions = 1..(v - 1) /\ Sound
  BY GuardedApart DEF DataInv, UpAt
<1>3. v \notin versions
  BY <1>1, <1>2
<1>4. "schema_migrations" \in TablesOf(1)
  BY ScriptTables DEF Tables1
<1>5. CASE v = 1
  BY <1>3, <1>4, <1>5 DEF Records
<1>6. CASE v # 1
  <2>1. 1 \in versions /\ 1 \in 1..1
    BY <1>1, <1>2, <1>6 DEF Version
  <2>2. Built(1..1) \subseteq tables
    BY <1>2, <2>1 DEF Sound
  <2>3. QED
    BY <1>3, <1>4, <2>1, <2>2 DEF Built, Records
<1>7. QED
  BY <1>5, <1>6

LEMMA ApplyKeeps ==
    ASSUME MigrateInv, NEW p \in Proc, Apply(p), UNCHANGED <<deployment, lost>>
    PROVE  MigrateInv'
<1> USE DEF MigrateInv
<1> DEFINE Written == Records(at[p], tables \cup TablesOf(at[p]))
<1>1. /\ pc[p] = "script" /\ Upgrades(p) /\ UNCHANGED <<job, faults>>
      /\ IF Executes(Script(p), TRUE) /\ Written
         THEN /\ tables' = tables \cup TablesOf(at[p])
              /\ versions' = versions \cup {at[p]}
              /\ NextScript(p)
         ELSE Stop(p, "failed") /\ UNCHANGED <<tables, versions>>
  BY DEF Apply, schema
<1>2. Executes(Script(p), TRUE)
  BY <1>1, InScript, ScriptsExecute
<1>3. CASE Written
  <2>1. /\ tables' = tables \cup TablesOf(at[p]) /\ versions' = versions \cup {at[p]}
        /\ NextScript(p)
    BY <1>1, <1>2, <1>3
  <2>2. tables' \subseteq Built(Version)
    BY <1>1, <2>1, InScript DEF TypeOK
  <2>3. at[p] \notin versions
    BY <1>3 DEF Records
  <2>4. QED
    BY <1>1, <2>1, <2>2, <2>3, UpNextKeeps
<1>4. CASE ~Written
  <2>1. Stop(p, "failed") /\ UNCHANGED <<tables, versions>>
    BY <1>1, <1>4
  <2>2. faults > 0 \/ ~Guarded
    BY <1>1, <1>4, ScriptRecords DEF TypeOK
  <2>3. QED
    BY <1>1, <2>1, <2>2, FailedStopKeeps
<1>5. QED
  BY <1>3, <1>4

LEMMA RevertKeeps ==
    ASSUME MigrateInv, NEW p \in Proc, Revert(p), UNCHANGED <<deployment, lost>>
    PROVE  MigrateInv'
<1>1. /\ pc[p] = "script" /\ ~Upgrades(p) /\ UNCHANGED <<job, faults>>
      /\ IF Executes(Script(p), FALSE)
         THEN /\ tables' = tables \ TablesOf(at[p])
              /\ versions' = versions \ {at[p]}
              /\ NextScript(p)
         ELSE Stop(p, "failed") /\ UNCHANGED schema
  BY DEF Revert
<1>2. Executes(Script(p), FALSE)
  BY <1>1, InScript, ScriptsExecute
<1>3. /\ tables' = tables \ TablesOf(at[p]) /\ versions' = versions \ {at[p]}
      /\ NextScript(p)
  BY <1>1, <1>2
<1>4. QED
  BY <1>1, <1>3, DownNextKeeps

\* A statement on D1, of an upgrade or of a downgrade.
LEMMA StatementKeeps ==
    ASSUME MigrateInv, NEW p \in Proc, Statement(p), UNCHANGED <<deployment, lost>>
    PROVE  MigrateInv'
<1> USE DEF MigrateInv
<1> DEFINE v == at[p]
           t == Script(p)[stmt[p]]
<1>1. /\ pc[p] = "script" /\ stmt[p] <= Len(Script(p))
      /\ Upgrades(p) \/ v \notin versions
      /\ tables' = IF Upgrades(p) THEN tables \cup {t} ELSE tables \ {t}
      /\ stmt' = [stmt EXCEPT ![p] = stmt[p] + 1]
      /\ UNCHANGED <<versions, lock, pc, job, at, faults>>
  BY DEF Statement
<1>2. v \in Version /\ v \in Nat /\ stmt[p] \in 1..4
  <2>1. v \in Version /\ v \in Nat /\ stmt[p] \in 1..5 /\ Len(Script(p)) = 4
    BY <1>1, InScript
  <2>2. QED
    BY <1>1, <2>1
<1>3. stmt'[p] = stmt[p] + 1 /\ Others(p)
  BY <1>1 DEF TypeOK, Others
<1>4. \A i \in 1..(stmt'[p] - 1) : i \in 1..(stmt[p] - 1) \/ i = stmt[p]
  BY <1>2, <1>3
<1>5. t \in TablesOf(v)
  BY <1>1, <1>2, InScript, ScriptTables
<1>6. TypeOK'
  <2>1. stmt' \in [Proc -> 1..5]
    BY <1>1, <1>2 DEF TypeOK
  <2>2. tables' \subseteq Built(Version)
    BY <1>1, <1>5, InScript DEF TypeOK
  <2>3. QED
    BY <1>1, <2>1, <2>2 DEF TypeOK
<1>7. CASE Upgrades(p)
  <2>1. tables' = tables \cup {t} /\ t = Up[v][stmt[p]]
    BY <1>1, <1>7, InScript
  <2>2. ASSUME Apart \/ OnlyUpgrades
        PROVE  Sound' /\ UpAt(p)' /\ DownAt(p)'
    <3>1. Sound /\ UpAt(p)
      BY <2>2 DEF DataInv
    <3>2. Sound'
      BY <1>1, <2>1, <3>1 DEF Sound, Built
    <3>3. \A i \in 1..(stmt'[p] - 1) : Up[v][i] \in tables'
      BY <1>1, <1>4, <1>7, <2>1, <3>1 DEF UpAt
    <3>4. Apart' => Apart
      BY DEF Apart, Dialect, Alone
    <3>5. UpAt(p)' /\ DownAt(p)'
      BY <1>1, <1>7, <3>1, <3>3, <3>4 DEF UpAt, DownAt, Upgrades
    <3>6. QED
      BY <3>2, <3>5
  <2>3. tables \subseteq tables'
    BY <2>1
  <2>4. QED
    BY <1>1, <1>2, <1>3, <1>6, <1>7, <2>2, <2>3, StayKeeps
<1>8. CASE ~Upgrades(p)
  <2>1. /\ tables' = tables \ {t} /\ t = Down[v][stmt[p]] /\ v \notin versions
        /\ ~OnlyUpgrades /\ job[p] < v
    BY <1>1, <1>8, InScript
  <2>2. ASSUME Apart
        PROVE  Sound' /\ UpAt(p)' /\ DownAt(p)'
    <3>1. Sound /\ DownAt(p) /\ versions \subseteq Version
      BY <2>2 DEF DataInv, TypeOK
    <3>2. versions \subseteq 1..v /\ 1..job[p] \subseteq versions
          /\ tables \subseteq Built(1..v)
          /\ \A i \in 1..(stmt[p] - 1) : Down[v][i] \notin tables
      BY <1>1, <1>8, <3>1 DEF DownAt
    <3>3. versions' = versions \ {v} /\ \A u \in tables : u \in tables' \/ u \in TablesOf(v)
      BY <1>1, <1>5, <2>1
    <3>4. Sound'
      BY <1>2, <3>1, <3>2, <3>3, SoundDown
    <3>5. \A i \in 1..(stmt'[p] - 1) : Down[v][i] \notin tables'
      BY <1>4, <2>1, <3>2
    <3>6. tables' \subseteq Built(1..v)
      BY <2>1, <3>2
    <3>7. UpAt(p)' /\ DownAt(p)'
      BY <1>1, <1>8, <2>1, <3>2, <3>5, <3>6 DEF UpAt, DownAt, Upgrades, Built
    <3>8. QED
      BY <3>4, <3>7
  <2>3. QED
    BY <1>1, <1>2, <1>3, <1>6, <1>8, <2>1, <2>2, StayKeeps
<1>9. QED
  BY <1>7, <1>8

\* The version row is written once its tables are there.
LEMMA RecordKeeps ==
    ASSUME MigrateInv, NEW p \in Proc, Record(p), UNCHANGED <<deployment, lost>>
    PROVE  MigrateInv'
<1> USE DEF MigrateInv
<1> DEFINE v == at[p]
<1>1. /\ pc[p] = "script" /\ Upgrades(p) /\ stmt[p] > Len(Script(p))
      /\ UNCHANGED <<tables, job, faults>>
      /\ IF Records(v, tables)
         THEN versions' = versions \cup {v} /\ NextScript(p)
         ELSE Stop(p, "failed") /\ UNCHANGED versions
  BY DEF Record
<1>2. v \in Version /\ v \in Nat /\ \A i \in 1..4 : i \in 1..(stmt[p] - 1)
  <2>1. v \in Version /\ v \in Nat /\ stmt[p] \in 1..5 /\ Len(Script(p)) = 4
    BY <1>1, InScript
  <2>2. QED
    BY <1>1, <2>1
<1>3. Apart \/ OnlyUpgrades => TablesOf(v) \subseteq tables
  <2>1. TablesOf(v) = {Up[v][i] : i \in 1..4}
    BY <1>1, InScript
  <2>2. Apart \/ OnlyUpgrades => \A i \in 1..(stmt[p] - 1) : Up[v][i] \in tables
    BY <1>1 DEF DataInv, UpAt
  <2>3. QED
    BY <1>2, <2>1, <2>2
<1>4. CASE ~Records(v, tables)
  <2>1. Stop(p, "failed") /\ UNCHANGED versions
    BY <1>1, <1>4
  <2>2. ASSUME faults = 0, Guarded
        PROVE  FALSE
    <3>1. TablesOf(v) \subseteq tables
      BY <1>3, <2>2, GuardedApart
    <3>2. Records(v, tables \cup TablesOf(v))
      BY <1>1, <2>2, ScriptRecords
    <3>3. QED
      BY <1>4, <3>1, <3>2 DEF Records
  <2>3. faults > 0 \/ ~Guarded
    BY <2>2 DEF TypeOK
  <2>4. QED
    BY <1>1, <2>1, <2>3, FailedStopKeeps
<1>5. CASE Records(v, tables)
  <2>1. versions' = versions \cup {v} /\ NextScript(p) /\ v \notin versions
    BY <1>1, <1>5 DEF Records
  <2>2. tables' \subseteq Built(Version)
    BY <1>1 DEF TypeOK
  <2>3. QED
    BY <1>1, <1>3, <2>1, <2>2, UpNextKeeps
<1>6. QED
  BY <1>4, <1>5

LEMMA UnrecordKeeps ==
    ASSUME MigrateInv, NEW p \in Proc, Unrecord(p), UNCHANGED <<deployment, lost>>
    PROVE  MigrateInv'
<1> USE DEF MigrateInv
<1> DEFINE v == at[p]
<1>1. /\ pc[p] = "script" /\ ~Upgrades(p) /\ stmt[p] = 1
      /\ versions' = versions \ {v}
      /\ UNCHANGED <<tables, lock, pc, job, at, stmt, faults>>
  BY DEF Unrecord
<1>2. /\ v \in Version /\ v \in Nat /\ ~OnlyUpgrades
      /\ job[p] \in 0..2 /\ job[p] < v /\ Others(p)
  BY <1>1, InScript DEF Others
<1>3. TypeOK'
  BY <1>1 DEF TypeOK
<1>4. ASSUME Apart
      PROVE  Sound' /\ UpAt(p)' /\ DownAt(p)'
  <2>1. Sound /\ DownAt(p) /\ versions \subseteq Version
    BY <1>4 DEF DataInv, TypeOK
  <2>2. /\ versions \subseteq 1..v /\ 1..job[p] \subseteq versions
        /\ tables \subseteq Built(1..v)
        /\ \A i \in 1..(stmt[p] - 1) : Down[v][i] \notin tables
    BY <1>1, <2>1 DEF DownAt
  <2>3. Sound'
    BY <1>1, <1>2, <2>1, <2>2, SoundDown
  <2>4. 1..job[p] \subseteq versions'
    BY <1>1, <1>2, <2>2
  <2>5. UpAt(p)' /\ DownAt(p)'
    BY <1>1, <2>2, <2>4 DEF UpAt, DownAt, Upgrades, Built
  <2>6. QED
    BY <2>3, <2>5
<1>5. QED
  BY <1>1, <1>2, <1>3, <1>4, StayKeeps

LEMMA RevertedKeeps ==
    ASSUME MigrateInv, NEW p \in Proc, Reverted(p), UNCHANGED <<deployment, lost>>
    PROVE  MigrateInv'
<1> USE DEF MigrateInv
<1> DEFINE v == at[p]
<1>1. /\ pc[p] = "script" /\ ~Upgrades(p) /\ stmt[p] > Len(Script(p)) /\ NextScript(p)
      /\ UNCHANGED <<tables, versions, job, faults>>
  BY DEF Reverted, schema
<1>2. /\ v \in Version /\ stmt[p] > 1 /\ \A i \in 1..4 : i \in 1..(stmt[p] - 1)
  BY <1>1, InScript
<1>3. ASSUME Apart
      PROVE  v \notin versions /\ tables \cap TablesOf(v) = {}
  <2>1. v \notin versions /\ \A i \in 1..(stmt[p] - 1) : Down[v][i] \notin tables
    BY <1>1, <1>2, <1>3 DEF DataInv, DownAt
  <2>2. QED
    BY <1>2, <2>1, ScriptTables
<1>4. QED
  BY <1>1, <1>3, DownNextKeeps

-----------------------------------------------------------------------------
(* Faults and restarts.                                                    *)

LEMMA BreakKeeps ==
    ASSUME MigrateInv, NEW p \in Proc, NEW l \in {"off", "failed"}, Stop(p, l),
           pc[p] # "off", UNCHANGED <<schema, job, deployment, lost>>,
           faults' \in 0..MaxFaults,
           faults' = faults + 1 \/ (faults' = faults /\ l = "off")
    PROVE  MigrateInv'
<1> USE DEF MigrateInv
<1>1. /\ tables' \subseteq Built(Version) /\ versions' \subseteq Version
      /\ Apart \/ OnlyUpgrades => Sound'
  BY DEF TypeOK, schema, DataInv, Sound, Built
<1>2. faults <= faults' /\ (l = "failed" => faults' > 0)
  BY MigrateAssumption DEF TypeOK
<1>3. QED
  BY <1>1, <1>2, StopKeeps

LEMMA ConnectionLostKeeps ==
    ASSUME MigrateInv, NEW p \in Proc, ConnectionLost(p), lost' = TRUE,
           UNCHANGED deployment
    PROVE  MigrateInv'
<1> USE DEF MigrateInv
<1>1. /\ lock = p /\ faults' = faults + 1 /\ faults < MaxFaults /\ lock' = Nil
      /\ UNCHANGED <<tables, versions, pc, job, at, stmt>>
  BY DEF ConnectionLost, Spend, schema
<1>2. Others(p) /\ faults \in Nat /\ faults <= faults' /\ faults < faults' /\ UNCHANGED schema
  BY <1>1, MigrateAssumption DEF Others, TypeOK, schema
<1>3. TypeOK'
  BY <1>1, MigrateAssumption DEF TypeOK
<1>4. /\ Dialect' = Dialect /\ OnlyUpgrades' = OnlyUpgrades
      /\ (\A q \in Proc : Alone(q)' = Alone(q)) /\ (Apart' => Apart)
  BY DEF Dialect, OnlyUpgrades, Alone, Apart, TypeOK
<1>5. \A q \in Proc : ControlAt(q)' /\ LandedAt(q)'
  BY <1>1, <1>4 DEF ControlAt, Upgrades, LandedAt, DowngradeLands, Built
<1>6. LockInv'
  BY <1>1, <1>2 DEF LockInv
<1>7. DataInv'
  BY <1>1, <1>4 DEF DataInv, Sound, UpAt, DownAt, Upgrades, Built
<1>8. DowngradeLands'
  BY <1>5 DEF DowngradeLands, LandedAt
<1>9. NoFailureWithoutFault'
  BY <1>2 DEF NoFailureWithoutFault
<1>10. QED
  BY <1>3, <1>5, <1>6, <1>7, <1>8, <1>9

LEMMA FaultKeeps ==
    ASSUME MigrateInv, NEW p \in Proc, Fail(p) \/ Crash(p) \/ Again(p) \/ Evict(p),
           UNCHANGED <<deployment, lost>>
    PROVE  MigrateInv'
<1>1. CASE Fail(p)
  <2>1. /\ Stop(p, "failed") /\ UNCHANGED <<schema, job>> /\ pc[p] # "off"
        /\ faults' = faults + 1 /\ faults < MaxFaults
    BY <1>1 DEF Fail, Spend
  <2>2. faults' \in 0..MaxFaults
    BY <2>1, MigrateAssumption DEF MigrateInv, TypeOK
  <2>3. QED
    BY <2>1, <2>2, BreakKeeps
<1>2. CASE Crash(p)
  <2>1. /\ Stop(p, "off") /\ UNCHANGED <<schema, job>> /\ pc[p] # "off"
        /\ faults' = faults + 1 /\ faults < MaxFaults
    BY <1>2 DEF Crash, Spend
  <2>2. faults' \in 0..MaxFaults
    BY <2>1, MigrateAssumption DEF MigrateInv, TypeOK
  <2>3. QED
    BY <2>1, <2>2, BreakKeeps
<1>3. CASE Again(p) \/ Evict(p)
  <2>1. /\ Stop(p, "off") /\ UNCHANGED <<schema, job, faults>> /\ pc[p] # "off"
    BY <1>3 DEF Again, Evict
  <2>2. faults' \in 0..MaxFaults
    BY <2>1 DEF MigrateInv, TypeOK
  <2>3. QED
    BY <2>1, <2>2, BreakKeeps
<1>4. QED
  BY <1>1, <1>2, <1>3

LEMMA InitMigrate == Init => MigrateInv
<1> SUFFICES ASSUME Init PROVE MigrateInv
  OBVIOUS
<1>1. TypeOK
  <2>1. /\ pc \in [Proc -> {"off", "lock", "done", "refused", "failed"} \cup Running]
        /\ job \in [Proc -> (0..2) \cup {UpgradeJob}]
        /\ at \in [Proc -> 0..3] /\ stmt \in [Proc -> 1..5]
    BY DEF Init
  <2>2. faults \in 0..MaxFaults
    BY MigrateAssumption DEF Init
  <2>3. QED
    BY <2>1, <2>2 DEF Init, TypeOK
<1>2. \A p \in Proc : pc[p] = "off" /\ stmt[p] = 1
  BY DEF Init
<1>3. \A p \in Proc : ControlAt(p) /\ UpAt(p) /\ DownAt(p)
  BY <1>2 DEF ControlAt, UpAt, DownAt
<1>4. LockInv /\ DowngradeLands /\ NoFailureWithoutFault
  BY <1>2 DEF Init, LockInv, DowngradeLands, NoFailureWithoutFault, Running
<1>5. Sound
  BY DEF Init, Sound
<1>6. QED
  BY <1>1, <1>3, <1>4, <1>5 DEF MigrateInv, DataInv

\* The runner's invariant, on all three databases, whatever fails: where a
\* process is in its loop says what is recorded and what is built
\* (runner.go:21-147).
THEOREM MigrateInductive == Spec => []MigrateInv
<1>1. MigrateInv /\ [Next]_vars => MigrateInv'
  <2> SUFFICES ASSUME MigrateInv, [Next]_vars
               PROVE  MigrateInv'
    OBVIOUS
  <2>1. CASE UNCHANGED vars
    BY <2>1 DEF vars, system, schema, MigrateInv, TypeOK, ControlAt, LockInv, DataInv,
                DowngradeLands, NoFailureWithoutFault, Apart, OnlyUpgrades, Sound,
                UpAt, DownAt, Upgrades, Dialect, Alone, Built
  <2>2. CASE Next
    <3>1. PICK p \in Proc : \/ (Work(p) \/ Evict(p) \/ Fail(p) \/ Crash(p)) /\ UNCHANGED lost
                            \/ ConnectionLost(p) /\ lost' = TRUE
      BY <2>2 DEF Next
    <3>2. UNCHANGED deployment
      BY <2>2 DEF Next
    <3>3. CASE ConnectionLost(p) /\ lost' = TRUE
      BY <3>2, <3>3, ConnectionLostKeeps
    <3>4. CASE (Fail(p) \/ Crash(p) \/ Again(p) \/ Evict(p)) /\ UNCHANGED lost
      BY <3>2, <3>4, FaultKeeps
    <3>5. CASE (Start(p) \/ Run(p)) /\ UNCHANGED lost
      BY <3>2, <3>5, StartKeeps, AcquireKeeps, ReadVersionKeeps, ApplyKeeps, RevertKeeps,
         StatementKeeps, RecordKeeps, UnrecordKeeps, RevertedKeeps DEF Run
    <3>6. QED
      BY <3>1, <3>3, <3>4, <3>5 DEF Work
  <2>3. QED
    BY <2>1, <2>2
<1>2. QED
  BY <1>1, InitMigrate, PTL DEF Spec

\* A recorded version stands for its tables and for every version before it,
\* unless an upgrade and a downgrade have met.
THEOREM RecordsAreBuilt == Spec => []RecordedMeansBuilt
<1>1. MigrateInv => RecordedMeansBuilt
  BY DowngradeApart DEF MigrateInv, DataInv, Sound, RecordedMeansBuilt
<1>2. QED
  BY <1>1, MigrateInductive, PTL

\* A downgrade that succeeds leaves exactly the schema of its target.
THEOREM DowngradesLand == Spec => []DowngradeLands
<1>1. MigrateInv => DowngradeLands
  BY DEF MigrateInv
<1>2. QED
  BY <1>1, MigrateInductive, PTL

\* Processes that start together do not make each other fail.
THEOREM NoneFailsUnprovoked == Spec => []NoFailureWithoutFault
<1>1. MigrateInv => NoFailureWithoutFault
  BY DEF MigrateInv
<1>2. QED
  BY <1>1, MigrateInductive, PTL

=============================================================================
