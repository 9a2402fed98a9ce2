# Kilhog in TLA+

Kilhog is an IP address manager: an HTTP server that keeps networks and a tree
of IPv4 subnets in SQLite, PostgreSQL or Cloudflare D1, together with users,
sessions, OIDC logins and machine identities.  This directory models the server
in TLA+, checks the models with TLC and proves their main properties with
TLAPS.  Paths below are relative to the repository, `internal/` included.

## 1. The system

| Part | State | Operations | What it talks to |
|---|---|---|---|
| CIDR arithmetic, `iputil/ipv4.go` | none | parse, contain, overlap, validate a subnet, find a free block | called by the subnet service inside its transaction |
| Store, `repository/db/store.go` | `writeMu`, the pool | `WithTx`, `WithWriteLock`, `WithWriteTx`, `Flush`, `CloseContext`, migration lock | every repository |
| Subnets, `service/subnet.go`, `repository/subnet_repository.go` | table `subnets` | create (explicit or first free block), update of the description, delete | store, `iputil`, networks |
| Networks, `service/network.go`, `repository/network_repository.go` | table `networks` | create, update, delete with `ON DELETE CASCADE` | store, subnets |
| Tags, `repository/tags.go` | table `tags`, no foreign key | replaced or deleted with their resource | same transaction as the resource |
| Users, `service/user.go` | table `local_users` | create, update, delete, own password, last administrator rule | store, sessions |
| Authentication, `service/auth.go` | tables `sessions`, `oidc_login_states` | bootstrap, login, authentication of requests, OIDC start and callback, logout | users, identity pools, the issuers |
| Identity pools, `service/identity_pool.go` | table `oidc_identity_pools` | create, update, delete | sessions and login states by cascade |
| Machine identity, `service/machine.go`, `machine_auth.go` | pools, providers, machines, keys; the JWKS cache in memory | administration; verification of API keys and JWTs | store, the issuers' JWKS endpoints |
| Metrics, `metrics/` | two gauges in memory | added to by services, seeded by `Refresh` at startup and by the loop | services, repositories |
| Migrations, `repository/migration` | `schema_migrations` | upgrade, downgrade under a lock | store |
| Start and shutdown, `cmd/kilhog` | the listener, the store | migrate, seed, serve, drain, flush, close | everything |
| Worker, `cmd/kilhog-worker` | `sync.Once` per isolate | open D1 and migrate on the first request | migrations, the same services |

Handlers decode, call one service method and encode; requests run in their own
goroutines, in one or several processes, and meet only in the database, in
`writeMu` and in the JWKS cache.  That makes the following hard to test, and it is
what the properties are about:

* what a request reads **before** its write transaction may have changed when it
  writes: the parent's CIDR, the ancestors, uniqueness of names, the number of
  administrators, the provider of a machine, the state of an identity pool;
* an update writes back in full a row that it read earlier;
* two creates under one parent must not choose the same block; what serialises
  them is a mutex on SQLite and a row lock on PostgreSQL;
* row locks, foreign keys and cascades can wait for each other in a circle;
* every error path has to give the locks back (deferred calls do it in the code, the
  one exit `Answer` in the model);
* authentication reads session, user, key, machine and pool in separate queries
  while administrators change all of them;
* keys are cached for an hour and fetched over a network that takes its time;
* processes crash between the statements of a migration, and D1 has no
  transactions;
* the process is killed ten seconds after the signal whatever its handlers do;
* the loop that searches a free block counts in a `uint32`.

`PROJECT.json` lists every hazard at its line, with the properties about it.

## 2. Modules

| Module | Models | Notes |
|---|---|---|
| `IPv4` | `iputil/ipv4.go` | addresses of `W` bits, the code has 32; operators only |
| `FindFree`, `MCFindFree` | the loop of `findFreeInRange` | one iteration per step, modulo `2^W` |
| `Store` | tables, schema constraints, write transactions | `Dialect` chooses mutex or row locks |
| `Api` | request goroutines | arguments, locals, answering, failing at any step |
| `Subnets`, `Networks` | the two services over their repositories | one action per database interaction |
| `Ipam`, `MCIpam` | both over one store | history variable, fairness and properties |
| `AddressPlan` | nothing in the code: the promise | allocations and withdrawals in one step each |
| `IpamInvariant` | — | the inductive invariant, the mapping to `AddressPlan` |
| `TagWrites`, `MCTagWrites` | resource and tag rows, statement by statement, on three dialects | refines `Resources` |
| `Resources` | the promise | a resource and its tags change as one |
| `IdentityStore` | users, sessions, pools, login states: constraints and cascades | each write enabled iff the statement succeeds |
| `IdentityApi` | requests to `/auth`, `/users`, `/identity-pools` | arguments, locals, answering, failing |
| `Users` | `UserService` | |
| `Sessions` | bootstrap, login, logout, `AuthenticateRequest`, the admin middleware | bearer token, then cookie, then JWT |
| `IdentityPools` | `IdentityPoolService` | |
| `OidcLogin` | OIDC start and callback, `Take` | the issuer's answers are a choice |
| `Identity`, `MCIdentity` | the four over one store | history variables, properties |
| `LoginTicket` | the promise of `oidc_login_states` | one-shot tickets |
| `IdentityInvariant` | — | the inductive invariant |
| `MachineStore`, `Machines` | tables and administration of machine identity | |
| `MachineAuth` | authentication by API key and by JWT | signatures and claims are a relation `Accepts` |
| `MachineIdentity`, `MCMachine` | both over one store | history variable, properties |
| `MachineInvariant` | — | the inductive invariant |
| `Jwks`, `MCJwks` | the JWKS cache of `keysForProvider` | with time, slow discoveries and fetches, key rotation |
| `Gauges`, `MCGauges` | the tracker, the seed, the refresh loop | replicas, crashes, failing counts |
| `Migrate`, `MCMigrate` | the runner and its lock | three dialects, crashes, lost sessions, evicted isolates |
| `Shutdown`, `MCShutdown` | SIGTERM to exit, with running handlers and the deferred calls of `main` | with time |
| `IPv4Proofs`, `FindFreeProofs`, `IpamProofs`, `IdentityProofs`, `MachineProofs`, `MigrateProofs`, `ServerProofs`, `TagWritesProofs` | — | the proofs; `ServerProofs` has those about `Shutdown`, `Gauges` and `Jwks`, whose names do not meet (`GaugesInit`, `JwksNext`, `Call` for a request, `Process` for a server) |

How code and model correspond:

* **A request** is an element of `Req`: a goroutine of any server process over the
  same database.  `pc` is the place in its service method, `arg` the decoded
  request, `loc` what the method holds in local variables, `reply` the status of
  the answer.  `Receive` is the arrival of a request; which arguments can arrive is
  what the routes allow (`RequestsAssumption` and its like).
* **A step** runs from one database interaction to the next.  Statements of one
  transaction are steps of their own where other requests can get in between:
  lock, name check, choice of the block and insert of a create; start and write
  of an update; lock and cascade of a network delete; the SELECT and the DELETE of
  `Take` on PostgreSQL.  A transaction of a single statement is one step.
* **Effects appear at commit.**  Reads outside transactions see committed rows; a
  rollback leaves the tables as they were.  `TagWrites` is the module in which
  transactions have an inside, and in which D1 has none.
* **Locks.**  On SQLite `writeMu` is held from `WithWriteTx` to the commit.  On
  PostgreSQL a create locks the row of its parent (`SELECT ... FOR UPDATE`), a
  delete or update the row it changes, an insert waits for the network row its
  foreign key refers to, a cascading delete for every subnet it removes.
  `DeadlockAbort` is PostgreSQL's deadlock detection.  These database facts are
  marked external in the map.
* **Failures.**  `Fail` is a statement that fails or a client that has gone, at any
  label: roll back, give the locks back, answer.  A request waiting for `writeMu`
  cannot fail before it has it, as Go's mutex cannot be cancelled.
* **Ids** are never used twice (`used`), as `uuid.New` and the random tokens
  promise; a key's prefix and a session's token hash are its id.
* **Passwords, names, constraints** are elements of small sets.  `Fold` is the case
  folding of slugs and usernames; "" is the name that the validation refuses.
* **Time.**  Sessions, login states and keys expire at any moment (`Expire`).  `Jwks`
  counts in units of the timeout of one HTTP call: discovery makes two calls, each
  with a timeout of its own, and between database and HTTP calls a request may take
  any time.  `Shutdown` counts in half-seconds since the signal.  Time passes while
  `main` waits, and up to `Overhead` units more for all that it does itself; SIGKILL
  comes at `Grace` wherever `main` is.
* **Credentials.**  A request carries any of a bearer token that may be a session, a
  session cookie and a JWT.  A session that is missing or expired makes
  `AuthenticateRequest` try the next one; a session that is found decides.
* **Histories.**  `raced` holds the subnets created under a parent whose deletion had
  already found it without children; `seen` collects what has been true for a request
  since it arrived, `issuedTo` and `claims` to whom a session was issued and how many
  callbacks a state has served, `inForce` and `always` since when a key has been in
  force.  They are written by `Observe` and `ObserveRaces` and read by no guard.

## 3. Runs

| Run | Question | Result |
|---|---|---|
| `find_free` | does the search keep its loop invariant, return the lowest free block, agree with `FindFreeIPv4Block` of `IPv4`, and end? | yes, except where the counter wraps |
| `find_free_wrap` | does it always end? | **no**, finding 1 |
| `ipam_sqlite` | is the tree of blocks sound with the mutex; can a subnet be reached from outside its network; can anything but a create that overlaps a deletion leave an orphan or fall to a cascade? | yes; no; no |
| `ipam_postgres` | the same with row locks; is the invariant of the proofs one, is the atomic plan implemented, is every request answered? | yes, with deadlock detection |
| `identity` | do names stay unique and rows owned, does nobody act with rights lost before the request, does a lone request keep the last administrator, does a state serve one callback? | yes |
| `last_admin_race` | does an enabled administrator remain? | **not always**, finding 5 |
| `machine` | do creates under running deletes leave nothing behind, is a machine authenticated with rights it held, is a revocation final? | yes |
| `jwks` | for how long is a withdrawn key accepted, is a key in force ever unknown? | less than the cache's hour and the timeout of one HTTP call; no |
| `gauges` | do replicas converge to the tables, does one server without the loop count networks right and subnets never short? | yes |
| `migrate` | does a recorded version have its tables after any crash, does a downgrade land, do all servers end upgraded? | yes; an isolate may fail for good instead |
| `shutdown` | is the database closed between writes, what can cost the clean exit, is a WAL left behind? | yes; a handler that outlives the drain, or a drain that ends too late; no |
| `tag_writes` | do a resource and its tags change as one? | yes, on SQLite and PostgreSQL |

The runs `find_free`, `ipam_postgres`, `identity`, `machine`, `jwks`, `gauges`, `migrate`,
`shutdown` and `tag_writes` also check the inductive invariants of section 5, type
invariants included, on their instances.  `NetworkColumnRight` is checked as
a conjunct of `IndInv`.

Bounds, and why they are enough:

* *Requests*: two at a time, three in `Shutdown`.  Every hazard above needs two; a
  third would be a second one of the same kind.  Answered requests are replaced by
  new ones for ever, so a run covers sequences of any length.
* *Scenarios* (`MCIdentity`, `MCMachine`): the requests of a behaviour come from one
  of several sets, each with the tables it starts from, so that related requests
  meet and unrelated ones do not multiply.  `identity` has six: accounts, two
  administrators, the empty server, logins, pools, OIDC.  `machine` has four:
  administration of pools and what is below, of pools and keys, authentications
  under changes, two machines that meet the same token.  The variable `scenario`
  only restricts what arrives.  `gone` are the ids a scenario does not give out:
  they count as used by rows deleted before the start.
* *Ids*: three subnets and two networks on SQLite, two and two on PostgreSQL with
  liveness; three users, four sessions, three pools, two states; two or three of
  everything in `machine`.  A create is accepted only while an id is left for it.
* *Addresses*: `W = 2` in `MCIpam`, four addresses, which has blocks that are
  equal, nested and disjoint; `W = 4` for the search: every parent, every length,
  every set of disjoint children; `W = 3` for the wrap.
* *Jwks*: a cache lifetime of two timeouts, four units of time, two key sets, one
  server, the modes `static` and `discovery`; `uri` is discovery without its first
  call, and the theorems cover all three.  The servers' caches are independent but
  for the row, and an update made on another server is an update whose invalidation
  comes late, which two requests on one server have too.
* *Gauges*: two replicas with the loop and two commits or crashes; one server
  without it and seven.  Refreshes are not bounded.
* *Migrate*: three processes, three faults, five deployments: replicas on
  PostgreSQL, isolates on D1, and downgrades on each dialect.
* *Shutdown*: the real ten, two and one seconds, counted by halves, half a second
  (`Overhead`) for main's own work, three handlers.
* *TagWrites*: a network, a subnet, two descriptions, two tags.

Symmetry under permutations of what no constant names; none in the runs with
liveness.

Fairness.  `Ipam`: strong fairness on the steps of every request.  A runnable
goroutine is scheduled; one that waits for `writeMu` gets it in the end because
Go's mutex hands it over to a starving waiter; PostgreSQL queues lock waiters.
Nothing is assumed of clients (`Receive`) or of failures (`Fail`).  `Gauges`: hooks and
the ticker run (weak fairness); a count succeeds again and again (strong: the
database answers some time, however often it fails in between).  `Migrate`: a
process runs, and a server that failed exits and is started again (weak fairness);
whoever waits for the advisory lock gets it some time (strong: PostgreSQL queues
waiters).  An isolate that failed keeps its `initErr` for good; the platform may
replace it (`Evict`), for which no fairness is assumed.  So `Upgraded` says of a server
that it ends on the whole schema, of an isolate that it does or fails for good, and
that without a fault the schema is complete in the end all the same.  `FindFree`: the
loop runs.

No deadlock is checked for `Gauges`, `Migrate`, `Shutdown` and `TagWrites`: they stop
when the bounds are used up or the process has ended.

## 4. Findings

1. `ipv4.go:101`: for a full parent that ends at 255.255.255.255 `candidate += step`
   wraps to 0 and the search never ends, while it holds the transaction.
   TECHNICAL.md:888 promises a 409.  (`find_free_wrap`)
2. `subnet.go:331`: a child created between the child check and the DELETE stays
   behind without its parent; `parent_uuid` has no foreign key (FUNCTIONAL.md:64).
3. `network.go:163`: the same for a network, where the cascade silently deletes the
   new subnet (TECHNICAL.md:732).
4. `network.go:69`: of two creates with one name that both pass the check, the second
   gets a 500 from the UNIQUE constraint in place of a 409 (TECHNICAL.md:701).
5. `user.go:221`: two administrators demote, disable or delete each other and none is
   left (FUNCTIONAL.md:240).  (`last_admin_race`)
6. `auth.go:167`: two concurrent bootstraps with different usernames both create an
   administrator (FUNCTIONAL.md:225).
7. `user.go:271`: a change of the own password restores the role and the enabled flag
   that an administrator has changed in between (FUNCTIONAL.md:238).
8. `auth_routes.go:105`: a logout whose DELETE fails clears the cookie and answers 200
   (FUNCTIONAL.md:330).
9. `auth.go:383`: a pool disabled during a callback still gives a session
   (FUNCTIONAL.md:288).
10. `session_repository.go:131`: on PostgreSQL two callbacks take the same login state
    (TECHNICAL.md:363).
11. `machine_auth.go:91`: a token is accepted for a machine that was at no instant its
    only match (TECHNICAL.md:522).
12. `machine_auth.go:284`: a fetch that overlaps an update puts the old static document
    back into the cache for up to an hour (FUNCTIONAL.md:408).
13. `network.go:181`: subnets removed by a cascade stay in the gauge when the loop is
    off (TECHNICAL.md:987).
14. `refresh.go:53`: a delete between commit and hook is counted twice, and a gauge can
    be negative (metrics.go:133).
15. `store.go:179`: of two D1 isolates that migrate at once one fails, and answers 500
    for the rest of its life (`sync.Once`, TECHNICAL.md:1117).
16. `runner.go:117`: a failed script on D1 leaves its first tables (TECHNICAL.md:243).
17. `shutdown.go:26`: drain and flush may use all of the ten seconds, 8 + 2, when a
    handler keeps reading; the close and the metrics shutdown come after them, and a
    transaction that does not end keeps `Flush` (`store.go:56`) waiting even longer
    (TECHNICAL.md:1206).
18. `refresh.go:76`: a tick that counts after the close dereferences the nil database
    in a goroutine nobody recovers (TECHNICAL.md:169).
19. `store.go:143`: on D1 a failure between two statements leaves a row with the old, no
    or some of its tags (TECHNICAL.md:153).
20. `network_repository.go:163`: the tags of the subnets that a network delete
    cascades to are never deleted (FUNCTIONAL.md:149).

Refuted statements.  Findings 1 and 5 have runs of their own.  The statements of the
others are definitions of the modules; TLC refutes each when it is added to the
configuration named here:

| Finding | Statement | Add to | As |
|---|---|---|---|
| 2 | `ParentExists` | `IpamSqlite.cfg` | INVARIANT |
| 3 | `NetworkDeletedOnlyEmpty` | `IpamSqlite.cfg` | PROPERTY |
| 4 | `NameClashIsConflict` | `IpamPostgres.cfg` | INVARIANT |
| 6 | `BootstrapCreatesFirst` | `Identity.cfg` | PROPERTY |
| 7 | `PasswordChangeKeepsRole` | `Identity.cfg` | PROPERTY |
| 8 | `LogoutEndsSession` | `Identity.cfg` | PROPERTY |
| 9 | `DisabledPoolAuthenticatesNobody` | `Identity.cfg` | PROPERTY |
| 10 | `ImplementsTickets` | `Identity.cfg`, with `Dialect = "postgres"` | PROPERTY |
| 11 | `MatchedAlone` | `Machine.cfg` | PROPERTY |
| 12 | `UpdateTakesEffect` | `Jwks.cfg` | INVARIANT |
| 13 | `SubnetGaugeExact` | `Gauges.cfg` | INVARIANT |
| 14 | `GaugeNonNegative` | `Gauges.cfg` | INVARIANT |
| 15 | `IsolatesServe` | `Migrate.cfg` | INVARIANT |
| 16 | `FailureRollsBack` | `Migrate.cfg` | INVARIANT |
| 17 | `ExitsBeforeKill` | `Shutdown.cfg` | INVARIANT |
| 18 | `NeverCrashes` | `Shutdown.cfg` | INVARIANT |
| 19 | `ImplementsResources` | `TagWrites.cfg`, with `Dialects = {"d1"}` | PROPERTY |
| 20 | `NoOrphanTags` | `TagWrites.cfg` | INVARIANT |

## 5. Proofs

Every theorem holds for all values of the constants that the named ASSUMEs allow:
any number of requests, rows, processes and handlers, any width of addresses.

`IPv4Proofs` has the lemmas about the arithmetic.  The blocks of one length are the
multiples of its size (`MultiplesApart`, `FloorUnique`); a prefix is the block of its
addresses (`PrefixBlock`); blocks are nested or disjoint (`BlocksNest`); so
`contains` and `overlap`, which compare masked addresses, mean what they say of the
addresses (`ContainsMeansMember`, `OverlapsMeansShared`).  Masking is idempotent,
parsing gives a prefix and gives back a stored one, an accepted candidate is inside
the parent and clear of the siblings, and what the search returns without an error
is free (`FindFreeGivesFree`).

### The search for a free block

`FindFreeProofs`, for every parent, length and set of siblings:

| Theorem | Statement |
|---|---|
| `FindFreeInductive` | `Spec => []FindFreeInv` |
| `LoopIsOperator` | the loop returns what `FindFreeIPv4Block` says, with which `Subnets` is modelled |
| `SearchIsFirstFit` | a returned block is the lowest aligned range in the parent that shares no address with a sibling; without one there is none |
| `SearchNeverGoesBack` | each pass is above the one before, except in `SearchWraps`: a full parent that ends at the highest address |

The loop counts modulo `2^W`, the operator chooses a minimum.  What links them is
`LoopInv`: the candidate is a multiple of the step and no free block lies below it.
One pass keeps it, because multiples of the step leave no aligned block between two
candidates (`NextCandidate`); a wrap to 0 keeps it, because then no free block is left
to be below.  That the search then runs for ever (finding 1) is no matter of partial
correctness; `SearchNeverGoesBack` says that it is the only way to do so.  The pass
before the wrap ends at the last address, so its block meets the parent and lies in
it (`LastPass`), and a free block would have to start beyond (`NoneLeft`).  With at
most `2^W` addresses to go up, only fairness is missing to conclude that the search
ends; TLC concludes it in `EndsUnlessWrapped`.

### Subnets and networks

`IpamProofs` proves, for every `W`, every number of requests, networks and
subnets, every request set the routes allow and both dialects:

| Theorem | Statement |
|---|---|
| `TypeCorrect` | `Spec => []TypeOK` |
| `Inductive` | `Spec => []IndInv` |
| `NoSiblingOverlap` | siblings never overlap |
| `AlwaysInsideParent` | a subnet is inside the subnet it was created under |
| `ColumnAlwaysRight` | `network_uuid` agrees with the parents and an existing network |
| `AddressesAlwaysSound` | overlap and containment read address by address: no address is in two siblings, every address of a subnet is its parent's |
| `IdentityNeverChanges` | a stale update moves no subnet and revives none |
| `TenancyAlwaysKept` | a subnet is created, changed or removed only through the URL of its own network, or with that network |
| `OrphansAreRaces` | a subnet without its parent was created after a deletion had found the parent without children |
| `CascadesAreRaces` | a cascade takes a subnet only if it was created like that, or together with the subnet above it |
| `NamesAlwaysUnique` | names are unique |
| `ImplementsAtomicPlan` | `Ipam` implements `AddressPlan` |

The safety properties are not inductive: that an insert keeps siblings disjoint
depends on what the request has seen.  `IndInv` adds

* `ControlAt`: what a label says about arguments and locals;
* `LockAt`: a transaction of several steps owns the mutex or its first row;
* `SpentAt`, `SpentInv`: the uuids a request or a row refers to are spent, so that no
  new row can take the place of one that a request has read;
* `CreateAt`: the parent of a create in its transaction exists, its prefix is the
  one read before the transaction, the chosen block is clear of all siblings;
* `UpdateAt`: the copy an update writes back equals the row but for the
  description;
* `RaceInv`: the children of a row whose deletion has passed its check are all in
  `raced`, and so are those the deletion has left behind;
* `TenantAt`: the row at which the climb of `ensureInNetwork` stands is in the
  network of the target, and past the climb the target, as long as it exists, is in
  the network of the URL.

The argument, in the order of the module: every action keeps types and control (one
lemma per kind of action); a step touches neither the control state nor the locks of
another request (`OthersUntouched`, `LocksKept`); it does one of five things to the
tables (`TableEffect`); so rows keep their identity (`IdentityStep`) and the parent of
a create in its transaction stays, since whoever removes it would need the lock its
creator holds (`ParentKept`); so what requests know stays true (`OthersHold`,
`OwnHolds`), and with it each property of the tables (`SiblingsStep`, `InsideStep`,
`ColumnStep`).  `ensureInNetwork` climbs from row to parent in separate queries, and
rows come and go under it; `TenantAt` survives because no uuid is used twice and a row
never changes its network, so a parent read now is in the network its child was read
in (`OthersTenant`), and the step to a parent keeps to `NetworkColumnRight`
(`EnsureTenant`, `OwnTenant`).  For the races, a subnet can only come below a deletion
that has passed its check by an insert, which `raced` records, and leaves it by that
deletion or its rollback (`CascadesAreRaces`, `RaceInv`). The refinement maps an
insert to `Allocate`, deletes to `Withdraw` and `WithdrawNetwork` and everything else
to a stutter.

### Accounts, sessions, pools and OIDC logins

`IdentityProofs` proves, for every number of requests, users, sessions, pools and
login states, every seed and request set that the assumptions allow, and both
dialects except where it says otherwise:

| Theorem | Statement |
|---|---|
| `IdentityInductive` | `Spec => []IdentityInv` |
| `RowsAlwaysOwned` | no session or login state outlives its user or pool |
| `KeysAlwaysUnique` | usernames, and slugs, names and issuers of pools, are unique although they are looked up outside the transaction |
| `RightsAlwaysHeld` | a request acts only with rights that were there at some instant since it arrived |
| `LastAdminGoesByRace` | the last enabled administrator goes only by a request during which their number was once not one |
| `LoginStatesAreTickets` | on SQLite the login states implement `LoginTicket` |
| `StateServesOneCallback` | on SQLite no login state is redeemed twice |
| `StateServesOnePool` | on both dialects all callbacks with one login state hold the same pool, the one in its row |

`IdentityInv` strengthens the properties by `ControlInv` (what a label says of
arguments and locals), `SessionsIssued` (a session has the user it was issued to,
and its token is spent), and `Knows`:

* `SeenAt`: what holds now is in `seen`;
* `PrincipalAt`: between the query for the session and the one for the user the
  session had been live and belongs to that user for good;
* `DemotionAt`: a request about to take an administrator's rights away either has
  seen a number of enabled administrators other than one, or the only one is
  somebody else.

The argument: a step moves one request (`ProcessEffect`, one lemma per module) and
makes at most one statement (`TableEffect`), and every statement keeps the table
properties because the schema refuses what would break them (`StatementKeeps`).
`RightsStep` follows from `PrincipalAt`: whoever gets past the middleware has had its
session, and the user row was an administrator's when it was read.  For
`LastAdminGoesByRace`, a statement changes at most one account (`OneUser`); so while
the number of enabled administrators stays one, the one stays the same
(`SoleStays`), and a request that read its target as an enabled administrator and
then counted at most one was refused; the check that passed saw two.  For the
tickets, on SQLite the label between SELECT and DELETE is unreachable
(`ControlAt`), so `Take` redeems an open ticket in one step, an insert issues one, a
pool's cascade withdraws some, and every other step leaves them alone.  On
PostgreSQL the refinement fails: finding 10.  What is left there is `StateServesOnePool`
(`OneStateOnePool` of `Identity`): a callback takes its pool from the row or had it
before (`HandComesFrom`), a row never changes, and none is inserted under a state
that was given out (`RowsOfStates`); so the second session of a state that was taken
twice is at least one of the pool whose login began it.

### Machine identity

`MachineProofs`, for every number of requests, pools, providers, machines and keys,
every coherent start and every relation `Accepts` of tokens:

| Theorem | Statement |
|---|---|
| `MachineInductive` | `Spec => []MachineInv` |
| `NothingOutlives` | no provider, machine or key outlives what it belongs to |
| `ProviderSamePool` | the provider of a machine belongs to the machine's pool |
| `MembersUnique` | names and issuers are unique within a pool |
| `AuthenticatedRights` | who is authenticated by a key had, each at some instant of the request, a valid key, an enabled machine and an enabled pool; by a JWT, an enabled machine of an enabled pool that matches the token |
| `RevocationFinal` | no request in flight brings a revoked key back |

`MachineInv` adds to the table properties `ControlInv`, `RowsUsed` (a row has a uuid
that was given out), `ProviderAt` (a request about to write a provider, or a machine
with one, has seen it in the pool of the row it writes, and it is there as long as
it exists), `KeyAt` and `JwtAt` (what an authentication has passed is in its history;
the key lasts as long as the machine found by it) and `SeenAt` (what holds now is in
the history).

The argument has the two layers of `IdentityProofs`: what a step does to its request
(`StepProcess`) and which of eight statements it makes (`MachineTables`).  Each
statement keeps the tables (one `...Keeps` lemma each): foreign keys refuse a row
without its owner and the indexes a second name, but nothing in the schema ties a
machine's provider to the machine's pool.  That it stays right although it was
checked before the write is `ProviderAt`: a provider can vanish in between, which
the foreign key notices, but it cannot move to another pool, and its uuid cannot
come back in one.

### Migrations

`MigrateProofs`, for every number of processes and faults, with the three scripts of
the repository and the three dialects:

| Theorem | Statement |
|---|---|
| `MigrateInductive` | `Spec => []MigrateInv` |
| `RecordsAreBuilt` | a recorded version has its tables and all its predecessors |
| `DowngradesLand` | a downgrade that ran alone leaves exactly its target |
| `NoneFailsUnprovoked` | without a fault neither replicas on PostgreSQL nor a process alone fail |

`MigrateInv` says who can be past the lock (`LockInv`), that the schema is `Sound`
(versions without a hole, each with its tables) until an upgrade and a downgrade
that are not kept `Apart` have met, and what an upgrade and a downgrade know in the middle of a
script (`UpAt`, `DownAt`).  The order of the statements carries the proof: on D1 `apply` records
last and `revert` unrecords first, so a script cut anywhere leaves
tables too many and never a record too many (`RecordKeeps`, `UnrecordKeeps`).

### Shutdown

`ServerProofs`, for every number of handlers, every grace period longer than the
flush, every timeout of the metrics shutdown and every time of main's own below that
of the flush:

| Theorem | Statement |
|---|---|
| `ShutdownInductive` | `Spec => []ShutdownInv` |
| `NeverClosedUnderWrite` | the database is closed between write transactions |
| `TimelyDrainsExit` | SIGKILL finds `main` at work only if a handler outlived the drain, or the drain ended so late that flush, metrics shutdown and main's own work no longer fit |
| `ExitIsSynced` | after an exit with no reader left the file holds everything committed |

`MutexInv` says who holds `writeMu`, `ClosingInv` how far the closing has come.  `BudgetInv`
says that, unless handlers outlived the drain, none is left after it, so that the
mutex is free and nothing but the contexts `main` made and its own work holds it up:
each phase ends within the sum of the timeouts before it and `spent`.  With a handler
left, or after a drain that took its eight seconds, the clean exit is not certain:
finding 17.

### Gauges

`ServerProofs`, for any deployment and any number of servers, commits and crashes:

| Theorem | Statement |
|---|---|
| `GaugesInductive` | `GaugesSpec => []GaugesInv` |
| `NetworksNeverMiscounted` | without the loop the gauge of the only server, with the hooks still to run, is the number of networks |
| `SubnetsNeverShort` | that of subnets is never below their number |

With other replicas or with the loop a gauge can be anything for a while (finding 14),
so the properties are about one server without it, and liveness (`Converges`) about
the rest.  That the seed at startup is right depends on nobody writing meanwhile:
`CountedAt` says that until the only server serves, what it has counted is true, and
`PhaseAt` that it never refreshes again once it does and has nothing to track before.
From there `Tracked` moves with the rows: a commit puts one into the hooks, a hook
moves it into the gauge (`ServingKeeps`, `TrackKeeps`), a crash takes hooks and gauge
away together with the right to serve (`CrashKeeps`).  A cascade removes subnets and
leaves the gauge, which therefore errs upwards only (finding 13).

### The cache of signing keys

`ServerProofs`, for any number of server processes and requests, any lifetime of an
entry, any timeout of a fetch and any sequence of rotations and updates:

| Theorem | Statement |
|---|---|
| `JwksInductive` | `JwksSpec => []JwksInv` |
| `StaleKeysExpire` | a withdrawn key is accepted for less than the lifetime and one timeout |
| `CurrentKeysAccepted` | a token whose key has been in force since it arrived is never told that its kid is unknown |

`JwksInv` follows a key set from the issuer into the cache.  `CallAt`: a request is at
most one timeout past the start of its HTTP call, and has not yet looked at the
source when it looks into the cache.  `FetchedAt`: the set it brings was
in force when that call began or later, and is the set of the token's kid if that has
been in force all along.  `CacheInv`: so what it stores was in force at most one
timeout before it was stored.  An entry is used for less than its lifetime after
that, hence the bound.  The histories make it provable: a fetch reads what is in force
by the row its request has read, and that is what `Observe` stamps with the current
time (`HistoryGrows`, `FetchKeeps`).  A kid is called unknown only after a forced
fetch (`JudgeDecides`), and by `FetchedAt` that set would have had it.

### Tags

`TagWritesProofs`, for every set of resources, descriptions and tags, on SQLite and
PostgreSQL (`"d1" \notin Dialects`; on D1 the refinement fails, finding 19):

| Theorem | Statement |
|---|---|
| `TagWritesInductive` | `Spec => []TagWritesInv` |
| `TransactionsAreWhole` | the statements implement `Resources`: a resource and its tags change as one |

A commit replaces the tags that the transaction deleted by the ones it inserted.
That this is the replacement of **all** tags needs `WipedInv`: nobody has added tags of
the resource in between, because the row was written before its tags and the mutex
or the row lock is held from then on (`ExclusiveInv`).

### Assumptions

The named ASSUMEs of the modules, which TLC evaluates on every run:

* `PowerAssumption`, `PowersNestAssumption`: powers of two are positive naturals and
  divide each other.  They are facts; the provers have no induction to derive them.
* `RequestsAssumption` and its like: what routes and decoding let through.
* `SeedAssumption`: a start is a set of tables that keeps the schema's constraints
  (`Coherent` in `MachineIdentity`).
* `NilAssumption`, `AbsentAssumption`, `EntryAssumption`, `WholeAssumption`,
  `StatusAssumption`: `Nil` and `Absent` are no row, no entry and no write, and a uuid is no
  HTTP status.
* `ShutdownAssumption`: the flush timeout is positive and below the grace period, and
  main's own work takes less than the flush timeout.
* `JwksAssumption`: a cache entry lives for at least one unit of time (an hour in the
  code).
* `DowngradeAssumption`: a downgrade runs on PostgreSQL or with no other process.  An
  SQLite file has one server (TECHNICAL.md:1360), and the program calls `Downgrade`
  only from tests.

### Only model-checked

Every safety property that a passing run checks is a theorem above.  What stays with
TLC is liveness, which needs fairness and ENABLED, out of the provers' reach:
`EveryRequestAnswered`, `Converges`, `Upgraded`, `EndsUnlessWrapped`.  The findings are
counterexamples, so they need no proof.

## 6. Not modelled, and the plan

Left out for good:

* formatting, JSON, status texts, logging, the read-only endpoints: no state;
* the operation counters and HTTP histograms: they only count;
* the client library and the command line: one call per function, no state and no
  retry;
* the drivers' connection settings; what they do with statements and locks is in
  `Store`;
* cryptography: hashes and signatures are equality and choice;
* `DeleteExpired`, which the program never calls; `providersMu`, which serialises the
  discovery of issuers and changes no result;
* the wiring of the Worker, which builds the same services over D1.

What could come next:

1. the operation counters of `metrics.go`, if a property of them is ever relied on;
2. the Go client's calls, if it gets retries;
3. a proof of the liveness properties, with provers that handle ENABLED: the safety
   halves are there (`SearchNeverGoesBack`, `RecordsAreBuilt`, `TimelyDrainsExit`).
