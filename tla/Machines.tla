------------------------------- MODULE Machines ------------------------------
(***************************************************************************)
(* MachineIdentityService (internal/service/machine.go): the administration *)
(* of machine pools, providers, machines and API keys, one database        *)
(* interaction per step.  The requests come from an administrator: the     *)
(* check of that is module Sessions'.  Keys of providers are module Jwks.  *)
(***************************************************************************)
EXTENDS MachineStore

CONSTANTS Req, Requests

\* The arguments of a request; a field that an update leaves out is Nil, and
\* provider = "clear" sets the machine's provider to null.
Args == [op : {"CreatePool", "UpdatePool", "DeletePool", "CreateProvider",
               "UpdateProvider", "DeleteProvider", "CreateMachine",
               "UpdateMachine", "DeleteMachine", "CreateKey", "RevokeKey",
               "AuthKey", "AuthJwt"},
         pool : Pool \cup {Nil}, provider : Provider \cup {Nil, "clear"},
         machine : Machine \cup {Nil}, key : Key \cup {Nil},
         name : Name \cup {Nil}, slug : Name \cup {Nil},
         issuer : Issuer \cup {Nil}, enabled : BOOLEAN \cup {Nil},
         constraint : Constraint \cup {Nil}]

\* What decoding guarantees: ids of the right kind, the fields a create needs.
ASSUME MachineRequestsAssumption ==
    /\ Requests \subseteq Args /\ Nil \notin Requests
    /\ \A q \in Requests :
        /\ q.op \notin {"CreatePool", "AuthKey", "AuthJwt"} => q.pool \in Pool
        /\ q.op \in {"CreatePool", "CreateProvider", "CreateMachine"} =>
             q.name \in Name /\ q.enabled \in BOOLEAN
        /\ q.op = "CreatePool" => q.slug \in Name
        /\ q.op = "CreateProvider" => q.issuer \in Issuer
        /\ q.op = "CreateMachine" =>
             /\ q.provider \in Provider \cup {Nil}
             /\ q.provider # Nil => q.constraint \in Constraint
        /\ q.op \in {"UpdateProvider", "DeleteProvider"} => q.provider \in Provider
        /\ q.op \in {"UpdateMachine", "DeleteMachine", "CreateKey", "RevokeKey"} =>
             q.machine \in Machine
        /\ q.op \in {"RevokeKey", "AuthKey"} => q.key \in Key
        /\ q.op = "AuthJwt" => q.issuer \in Issuer /\ q.constraint \in Constraint

\* HTTP statuses are not uuids.
Status == {200, 201, 400, 401, 404, 409, 500}

ASSUME StatusAssumption == Machine \cap (Status \cup {0}) = {}

VARIABLES
    pc, arg,    \* [Req -> where the request is], [Req -> its arguments]
    loc,        \* [Req -> the locals of its method]
    reply       \* [Req -> 0, the HTTP status or the authenticated machine,
                \*         when the last step answered]

process == <<pc, arg, loc, reply>>

PoolPC     == {"poolRead", "poolSlug", "poolNames", "poolWrite", "poolDelete"}
ProviderPC == {"getProvider", "provName", "provIssuer", "provWrite", "provDelete"}
MachinePC  == {"getMachine", "machProvider", "machName", "machWrite", "machDelete"}
KeyPC      == {"keyInsert", "keyRead", "keyRevoke"}
AuthKeyPC  == {"keyLookup", "keyMachine", "keyPool", "keyTouch"}
AuthJwtPC  == {"jwtProviders", "jwtVerify", "jwtMachines"}

Label == {"idle", "getPool"} \cup PoolPC \cup ProviderPC \cup MachinePC \cup KeyPC
         \cup AuthKeyPC \cup AuthJwtPC

\* id: the row being read or written; row: as read and changed in memory; rest
\* and matches: the loop variables of AuthenticateJWT.
Locals == [id : Pool \cup Provider \cup Machine \cup {Nil},
           row : PoolRow \cup ProviderRow \cup MachineRow \cup {Nil},
           rest : SUBSET Provider, matches : SUBSET Machine]

NoLocals == [id |-> Nil, row |-> Nil, rest |-> {}, matches |-> {}]

NoReply == [r \in Req |-> 0]

EntryPoint(op) ==
    CASE op = "CreatePool" -> "poolSlug"
      [] op = "UpdatePool" -> "poolRead"
      [] op = "DeletePool" -> "poolDelete"
      [] op = "AuthKey" -> "keyLookup"
      [] op = "AuthJwt" -> "jwtProviders"
      [] OTHER -> "getPool"

\* Mutant: the fields that the body leaves out are overwritten too.
Or_overwrites(x, y) == x

\* A field that the body leaves out keeps its value.
Or(x, y) == IF x = Nil THEN y ELSE x

\* The row a create builds before its first query.
NewRow(q) ==
    CASE q.op = "CreatePool" -> [name |-> q.name, slug |-> q.slug, enabled |-> q.enabled]
      [] q.op = "CreateProvider" ->
           [pool |-> q.pool, name |-> q.name, issuer |-> q.issuer, enabled |-> q.enabled]
      [] q.op = "CreateMachine" ->
           [pool |-> q.pool, name |-> q.name, enabled |-> q.enabled,
            provider |-> q.provider,
            constraint |-> IF q.provider = Nil THEN Anything ELSE q.constraint]
      [] OTHER -> Nil

\* Bound: uuids are finite, a create is accepted while one is left for it.
IdLeft(q) ==
    LET K == CASE q.op = "CreatePool" -> Pool [] q.op = "CreateProvider" -> Provider
               [] q.op = "CreateMachine" -> Machine [] q.op = "CreateKey" -> Key
               [] OTHER -> {}
    IN  K # {} => Cardinality({r \in Req : pc[r] # "idle" /\ arg[r].op = q.op})
                    < Cardinality(K \ used)

Receive(r) ==
    /\ pc[r] = "idle"
    /\ \E q \in Requests :
        /\ IdLeft(q)
        /\ arg' = [arg EXCEPT ![r] = q]
        /\ pc' = [pc EXCEPT ![r] = EntryPoint(q.op)]
        /\ loc' = [loc EXCEPT ![r] = [NoLocals EXCEPT !.row = NewRow(q)]]
    /\ reply' = NoReply
    /\ UNCHANGED tables

Answer(r, status) ==
    /\ pc' = [pc EXCEPT ![r] = "idle"]
    /\ arg' = [arg EXCEPT ![r] = Nil]
    /\ loc' = [loc EXCEPT ![r] = NoLocals]
    /\ reply' = [NoReply EXCEPT ![r] = status]

Refuse(r, status) == Answer(r, status) /\ UNCHANGED tables

Proceed(r, l, new) ==
    /\ pc' = [pc EXCEPT ![r] = l]
    /\ loc' = [loc EXCEPT ![r] = new]
    /\ reply' = NoReply
    /\ UNCHANGED <<arg, tables>>

\* A statement fails, or the request's context is cancelled: the request ends,
\* with a 500 or with the 401 of the reads whose error is not looked at; the
\* error of TouchLastUsed is dropped.
Fail(r) ==
    /\ pc[r] \notin {"idle", "jwtVerify"}
    /\ Refuse(r, IF pc[r] = "keyTouch" THEN loc[r].id
                 ELSE IF pc[r] \in {"keyMachine", "keyPool"} THEN 401 ELSE 500)

\* A query for rows that would clash with the one at hand.
Unique(r, here, taken, next) ==
    /\ pc[r] = here
    /\ IF taken \subseteq {loc[r].id} THEN Proceed(r, next, loc[r])
       ELSE Refuse(r, 409)

-----------------------------------------------------------------------------
(* Pools.                                                                  *)

\* An invalid name or slug is refused before the first query.
ReadPool(r) ==
    LET q == arg[r]
        row == pools[q.pool]
    IN  /\ pc[r] = "poolRead"
        /\ IF row = Nil THEN Refuse(r, 404)
           ELSE IF "" \in {q.name, q.slug} THEN Refuse(r, 400)
           ELSE Proceed(r, "poolSlug", [loc[r] EXCEPT !.id = q.pool,
                  !.row = [name |-> Or(q.name, row.name), slug |-> Or(q.slug, row.slug),
                           enabled |-> Or(q.enabled, row.enabled)]])

EnsurePoolUnique(r) ==
    \/ /\ pc[r] = "poolSlug" /\ "" \in {loc[r].row.name, loc[r].row.slug}
       /\ Refuse(r, 400)
    \/ /\ pc[r] = "poolSlug" /\ "" \notin {loc[r].row.name, loc[r].row.slug}
       /\ Unique(r, "poolSlug", PoolsWith("slug", loc[r].row.slug), "poolNames")
    \/ Unique(r, "poolNames", PoolsWith("name", loc[r].row.name), "poolWrite")

WritePoolRow(r) ==
    LET row == loc[r].row
    IN  /\ pc[r] = "poolWrite"
        /\ \E p \in IF loc[r].id = Nil THEN Pool \ used ELSE {loc[r].id} :
             IF loc[r].id # Nil /\ pools[p] = Nil THEN Refuse(r, 404)
             ELSE IF ~PoolFits(p, row) THEN Refuse(r, 500)
             ELSE WritePool(p, row) /\ Answer(r, IF loc[r].id = Nil THEN 201 ELSE 200)

DeletePool(r) ==
    /\ pc[r] = "poolDelete"
    /\ IF pools[arg[r].pool] = Nil THEN Refuse(r, 404)
       ELSE RemovePool(arg[r].pool) /\ Answer(r, 200)

-----------------------------------------------------------------------------
(* Everything below a pool starts with GetPool.                            *)

\* CreateMachine goes on to buildMachine, CreateProvider to its uniqueness
\* queries, the rest reads the provider or the machine of the path first.
GetPool(r) ==
    LET q == arg[r]
        create == q.op \in {"CreateProvider", "CreateMachine"}
    IN  /\ pc[r] = "getPool"
        /\ IF pools[q.pool] = Nil THEN Refuse(r, 404)
           ELSE IF create /\ q.name = "" THEN Refuse(r, 400)
           ELSE Proceed(r, CASE q.op = "CreateProvider" -> "provName"
                             [] q.op = "CreateMachine" ->
                                  IF q.provider = Nil THEN "machName" ELSE "machProvider"
                             [] q.op \in {"UpdateProvider", "DeleteProvider"} -> "getProvider"
                             [] OTHER -> "getMachine",
                        loc[r])

GetProvider(r) ==
    LET q == arg[r]
        row == providers[q.provider]
    IN  /\ pc[r] = "getProvider"
        /\ IF row = Nil \/ row.pool # q.pool THEN Refuse(r, 404)
           ELSE IF q.op = "DeleteProvider" THEN Proceed(r, "provDelete", loc[r])
           ELSE IF q.name = "" THEN Refuse(r, 400)
           ELSE Proceed(r, "provName", [loc[r] EXCEPT !.id = q.provider,
                  !.row = [pool |-> q.pool, name |-> Or(q.name, row.name),
                           issuer |-> Or(q.issuer, row.issuer),
                           enabled |-> Or(q.enabled, row.enabled)]])

EnsureProviderUnique(r) ==
    LET row == loc[r].row
    IN  \/ Unique(r, "provName", ProvidersWith(row.pool, "name", row.name), "provIssuer")
        \/ Unique(r, "provIssuer", ProvidersWith(row.pool, "issuer", row.issuer), "provWrite")

WriteProviderRow(r) ==
    LET row == loc[r].row
    IN  /\ pc[r] = "provWrite"
        /\ \E v \in IF loc[r].id = Nil THEN Provider \ used ELSE {loc[r].id} :
             IF loc[r].id # Nil /\ providers[v] = Nil THEN Refuse(r, 404)
             ELSE IF ~ProviderFits(v, row) THEN Refuse(r, 500)
             ELSE WriteProvider(v, row) /\ Answer(r, IF loc[r].id = Nil THEN 201 ELSE 200)

DeleteProvider(r) ==
    /\ pc[r] = "provDelete"
    /\ IF providers[arg[r].provider] = Nil THEN Refuse(r, 404)
       ELSE RemoveProvider(arg[r].provider) /\ Answer(r, 200)

\* GetMachine; an update also merges the body into the row, and a machine
\* without provider loses its constraints (buildMachine).
GetMachine(r) ==
    LET q == arg[r]
        row == machines[q.machine]
        provider == IF q.provider = "clear" THEN Nil ELSE Or(q.provider, row.provider)
        new == [pool |-> q.pool, name |-> Or(q.name, row.name),
                enabled |-> Or(q.enabled, row.enabled), provider |-> provider,
                constraint |-> IF provider = Nil THEN Anything
                               ELSE Or(q.constraint, row.constraint)]
    IN  /\ pc[r] = "getMachine"
        /\ IF row = Nil \/ row.pool # q.pool THEN Refuse(r, 404)
           ELSE CASE q.op = "DeleteMachine" -> Proceed(r, "machDelete", loc[r])
                  [] q.op = "CreateKey" -> Proceed(r, "keyInsert", loc[r])
                  [] q.op = "RevokeKey" -> Proceed(r, "keyRead", loc[r])
                  [] q.op = "UpdateMachine" ->
                       IF q.name = "" THEN Refuse(r, 400)
                       ELSE Proceed(r, IF provider = Nil THEN "machName" ELSE "machProvider",
                                    [loc[r] EXCEPT !.id = q.machine, !.row = new])

\* Mutant: buildMachine does not compare the pools.
CheckProvider_anyPool(r) ==
    LET row == loc[r].row
    IN  /\ pc[r] = "machProvider"
        /\ IF row.provider \notin LiveProviders \/ row.constraint = Anything
           THEN Refuse(r, 400)
           ELSE Proceed(r, "machName", loc[r])

\* buildMachine: the provider must exist and be of the machine's pool, and a
\* machine with a provider needs a constraint.
CheckProvider(r) ==
    LET row == loc[r].row
    IN  /\ pc[r] = "machProvider"
        /\ IF row.provider \notin LiveProviders \/ row.constraint = Anything
              \/ providers[row.provider].pool # row.pool
           THEN Refuse(r, 400)
           ELSE Proceed(r, "machName", loc[r])

EnsureMachineNameUnique(r) ==
    Unique(r, "machName", MachinesNamed(loc[r].row.pool, loc[r].row.name), "machWrite")

WriteMachineRow(r) ==
    LET row == loc[r].row
    IN  /\ pc[r] = "machWrite"
        /\ \E m \in IF loc[r].id = Nil THEN Machine \ used ELSE {loc[r].id} :
             IF loc[r].id # Nil /\ machines[m] = Nil THEN Refuse(r, 404)
             ELSE IF ~MachineFits(m, row) THEN Refuse(r, 500)
             ELSE WriteMachine(m, row) /\ Answer(r, IF loc[r].id = Nil THEN 201 ELSE 200)

DeleteMachine(r) ==
    /\ pc[r] = "machDelete"
    /\ IF machines[arg[r].machine] = Nil THEN Refuse(r, 404)
       ELSE RemoveMachine(arg[r].machine) /\ Answer(r, 200)

\* The INSERT of a key with a fresh prefix: the foreign key fails when the
\* machine is gone.
InsertKey(r) ==
    /\ pc[r] = "keyInsert"
    /\ \E k \in Key \ used :
         IF machines[arg[r].machine] = Nil THEN Refuse(r, 500)
         ELSE AddKey(k, arg[r].machine) /\ Answer(r, 201)

ReadKey(r) ==
    LET row == keys[arg[r].key]
    IN  /\ pc[r] = "keyRead"
        /\ IF row = Nil \/ row.machine # arg[r].machine THEN Refuse(r, 404)
           ELSE Proceed(r, "keyRevoke", loc[r])

WriteRevocation(r) ==
    /\ pc[r] = "keyRevoke"
    /\ IF keys[arg[r].key] = Nil THEN Refuse(r, 404)
       ELSE RevokeKey(arg[r].key) /\ Answer(r, 200)

MachineStep(r) ==
    \/ ReadPool(r) \/ EnsurePoolUnique(r) \/ WritePoolRow(r) \/ DeletePool(r)
    \/ GetPool(r)
    \/ GetProvider(r) \/ EnsureProviderUnique(r) \/ WriteProviderRow(r)
    \/ DeleteProvider(r)
    \/ GetMachine(r) \/ CheckProvider(r) \/ EnsureMachineNameUnique(r)
    \/ WriteMachineRow(r) \/ DeleteMachine(r)
    \/ InsertKey(r) \/ ReadKey(r) \/ WriteRevocation(r)
=============================================================================
