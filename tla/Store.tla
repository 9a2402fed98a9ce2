-------------------------------- MODULE Store -------------------------------
(***************************************************************************)
(* The database as the repositories see it (internal/repository): the      *)
(* committed rows of the tables networks and subnets, the constraints of   *)
(* the schema, and the two ways db.Store serialises writers:               *)
(*                                                                         *)
(*   "sqlite"    Store.writeMu is held for the whole write transaction;    *)
(*   "postgres"  there is no mutex, only the row locks of the statements   *)
(*               (SELECT ... FOR UPDATE, UPDATE, DELETE, foreign keys).    *)
(*                                                                         *)
(* Reads outside a transaction go to the pool and see the committed rows.  *)
(* The effect of a transaction appears at once, in the step that commits;  *)
(* a rollback therefore changes no table.                                  *)
(***************************************************************************)
EXTENDS IPv4

CONSTANTS
    Dialect,        \* "sqlite" or "postgres"
    Req,            \* the request goroutines of the server(s)
    Net, Subnet,    \* uuids of networks and of subnets
    Name,           \* resource names; "" is the name that trims to nothing
    Text,           \* descriptions, with the tags written in the same transaction
    Nil             \* no row, no value

ASSUME DialectAssumption == Dialect \in {"sqlite", "postgres"}
ASSUME UuidAssumption == Net \cap Subnet = {} /\ Nil \notin Net \cup Subnet \cup Req

Uuid       == Net \cup Subnet
NetworkRow == [name : Name, desc : Text]
SubnetRow  == [network : Net, name : Name, desc : Text, cidr : Prefix,
               parent : Uuid]

ASSUME NilAssumption == Nil \notin NetworkRow \cup SubnetRow \cup Prefix

VARIABLES
    networks,       \* [Net -> row or Nil]
    subnets,        \* [Subnet -> row or Nil]
    used,           \* uuids ever given to a row: uuid.New never repeats
    writeMu,        \* the request holding Store.writeMu, or Nil
    rowLock         \* [Uuid -> the transaction holding that row, or Nil]

tables == <<networks, subnets, used>>
locks  == <<writeMu, rowLock>>

StoreTypeOK ==
    /\ networks \in [Net -> NetworkRow \cup {Nil}]
    /\ subnets \in [Subnet -> SubnetRow \cup {Nil}]
    /\ used \in SUBSET Uuid
    /\ writeMu \in Req \cup {Nil}
    /\ rowLock \in [Uuid -> Req \cup {Nil}]

-----------------------------------------------------------------------------
(* Queries.                                                                *)

UsesSQLiteSyntax == Dialect = "sqlite"

LiveSubnets == {s \in Subnet : subnets[s] # Nil}

Exists(x) == IF x \in Net THEN networks[x] # Nil ELSE subnets[x] # Nil

NetworksNamed(name) == {n \in Net : networks[n] # Nil /\ networks[n].name = name}

SubnetsNamed(n, name) ==
    {s \in LiveSubnets : subnets[s].network = n /\ subnets[s].name = name}

listByParent(p) == {s \in LiveSubnets : subnets[s].parent = p}

\* The prefix a row's address and prefix columns parse to.
RowPrefix(row) == ParseIPv4Prefix(row.cidr.addr, row.cidr.len).prefix

subnetsToPrefixes(S) == {RowPrefix(subnets[s]) : s \in S}

\* The network_uuid column of a child of p, read inside the transaction.
NetworkColumn(p) ==
    IF p \in Net THEN p
    ELSE IF subnets[p] = Nil THEN Nil
    ELSE subnets[p].network

-----------------------------------------------------------------------------
(* Write transactions.                                                     *)

\* No other transaction holds row x; on SQLite no row is ever locked.
FreeFor(r, x) == rowLock[x] \in {Nil, r}

\* WithWriteTx can start and its first statement, on row x, does not wait.
Unblocked(r, x) ==
    /\ UsesSQLiteSyntax => writeMu = Nil
    /\ FreeFor(r, x)

\* Mutant: the row lock of PostgreSQL forgotten, as without " FOR UPDATE".
HoldRow_noForUpdate(r, x) ==
    IF UsesSQLiteSyntax
    THEN writeMu' = r /\ UNCHANGED rowLock
    ELSE UNCHANGED locks

\* Mutant: a write transaction that does not take the application mutex.
HoldRow_noMutex(r, x) ==
    IF UsesSQLiteSyntax
    THEN UNCHANGED locks
    ELSE UNCHANGED writeMu /\ rowLock' = [rowLock EXCEPT ![x] = r]

\* A transaction of several steps starts with row x locked.
HoldRow(r, x) ==
    IF UsesSQLiteSyntax
    THEN writeMu' = r /\ UNCHANGED rowLock
    ELSE UNCHANGED writeMu /\ rowLock' = [rowLock EXCEPT ![x] = r]

\* A transaction of several steps starts and locks no row.
HoldMutex(r) ==
    /\ UNCHANGED rowLock
    /\ IF UsesSQLiteSyntax THEN writeMu = Nil /\ writeMu' = r
       ELSE UNCHANGED writeMu

\* Commit or rollback, and the deferred Unlock; nothing when r holds nothing.
Release(r) ==
    /\ writeMu' = IF writeMu = r THEN Nil ELSE writeMu
    /\ rowLock' = [x \in Uuid |-> IF rowLock[x] = r THEN Nil ELSE rowLock[x]]
=============================================================================
