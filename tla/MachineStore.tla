----------------------------- MODULE MachineStore ----------------------------
(***************************************************************************)
(* The tables of machine pools, their JWT providers, machines and machine  *)
(* API keys (script 003_machine_identities, internal/repository/machine_*  *)
(* _repository.go): every write is a transaction of one statement, so one  *)
(* step, with its unique constraints, foreign keys and cascades.           *)
(***************************************************************************)
EXTENDS Naturals, FiniteSets

CONSTANTS
    Pool, Provider, Machine, Key,   \* uuids (a key's prefix is its uuid here)
    Name, Issuer,                   \* names and slugs; "" is invalid
    Constraint, Anything,           \* subject, subject_prefix and claims of a
                                    \* machine; Anything: none of them is set
    Nil

ASSUME AnythingAssumption == Anything \in Constraint
PoolRow     == [name : Name, slug : Name, enabled : BOOLEAN]
ProviderRow == [pool : Pool, name : Name, issuer : Issuer, enabled : BOOLEAN]
MachineRow  == [pool : Pool, name : Name, enabled : BOOLEAN,
                provider : Provider \cup {Nil}, constraint : Constraint]
KeyRow      == [machine : Machine, revoked : BOOLEAN]

ASSUME NilMachineAssumption ==
    /\ Nil \notin Pool \cup Provider \cup Machine \cup Key
    /\ Nil \notin PoolRow /\ Nil \notin ProviderRow
    /\ Nil \notin MachineRow /\ Nil \notin KeyRow

VARIABLES
    pools, providers, machines, keys,   \* the tables: rows or Nil
    used,                               \* uuids ever given out
    expired                             \* keys whose expires_at has passed

tables == <<pools, providers, machines, keys, used>>

StoreTypeOK ==
    /\ pools \in [Pool -> PoolRow \cup {Nil}]
    /\ providers \in [Provider -> ProviderRow \cup {Nil}]
    /\ machines \in [Machine -> MachineRow \cup {Nil}]
    /\ keys \in [Key -> KeyRow \cup {Nil}]
    /\ used \subseteq Pool \cup Provider \cup Machine \cup Key
    /\ expired \subseteq Key

LivePools     == {p \in Pool : pools[p] # Nil}
LiveProviders == {v \in Provider : providers[v] # Nil}
LiveMachines  == {m \in Machine : machines[m] # Nil}
LiveKeys      == {k \in Key : keys[k] # Nil}

PoolsWith(field, value) == {p \in LivePools : pools[p][field] = value}

ProvidersWith(p, field, value) ==
    {v \in LiveProviders : providers[v].pool = p /\ providers[v][field] = value}

MachinesNamed(p, name) ==
    {m \in LiveMachines : machines[m].pool = p /\ machines[m].name = name}

-----------------------------------------------------------------------------
(* Writes, each enabled exactly when the statement succeeds.               *)

PoolFits(p, row) ==
    /\ PoolsWith("name", row.name) \subseteq {p}
    /\ PoolsWith("slug", row.slug) \subseteq {p}

WritePool(p, row) ==
    /\ pools' = [pools EXCEPT ![p] = row]
    /\ used' = used \cup {p}
    /\ UNCHANGED <<providers, machines, keys>>

\* Mutant: machines.machine_pool_uuid without ON DELETE CASCADE.
RemovePool_machinesStay(p) ==
    /\ pools' = [pools EXCEPT ![p] = Nil]
    /\ providers' = [v \in Provider |->
           IF v \in LiveProviders /\ providers[v].pool = p THEN Nil ELSE providers[v]]
    /\ UNCHANGED <<machines, keys, used>>

\* DELETE of a pool cascades to its providers and machines, and on to the keys.
RemovePool(p) ==
    LET gone == {m \in LiveMachines : machines[m].pool = p}
    IN  /\ pools' = [pools EXCEPT ![p] = Nil]
        /\ providers' = [v \in Provider |->
               IF v \in LiveProviders /\ providers[v].pool = p THEN Nil ELSE providers[v]]
        /\ machines' = [m \in Machine |-> IF m \in gone THEN Nil ELSE machines[m]]
        /\ keys' = [k \in Key |->
               IF k \in LiveKeys /\ keys[k].machine \in gone THEN Nil ELSE keys[k]]
        /\ UNCHANGED used

ProviderFits(v, row) ==
    /\ row.pool \in LivePools
    /\ \A f \in {"name", "issuer"} : ProvidersWith(row.pool, f, row[f]) \subseteq {v}

WriteProvider(v, row) ==
    /\ providers' = [providers EXCEPT ![v] = row]
    /\ used' = used \cup {v}
    /\ UNCHANGED <<pools, machines, keys>>

\* machines.provider_uuid is ON DELETE SET NULL.
RemoveProvider(v) ==
    /\ providers' = [providers EXCEPT ![v] = Nil]
    /\ machines' = [m \in Machine |->
           IF m \in LiveMachines /\ machines[m].provider = v
           THEN [machines[m] EXCEPT !.provider = Nil] ELSE machines[m]]
    /\ UNCHANGED <<pools, keys, used>>

MachineFits(m, row) ==
    /\ row.pool \in LivePools
    /\ row.provider \in LiveProviders \cup {Nil}
    /\ MachinesNamed(row.pool, row.name) \subseteq {m}

WriteMachine(m, row) ==
    /\ machines' = [machines EXCEPT ![m] = row]
    /\ used' = used \cup {m}
    /\ UNCHANGED <<pools, providers, keys>>

RemoveMachine(m) ==
    /\ machines' = [machines EXCEPT ![m] = Nil]
    /\ keys' = [k \in Key |->
           IF k \in LiveKeys /\ keys[k].machine = m THEN Nil ELSE keys[k]]
    /\ UNCHANGED <<pools, providers, used>>

AddKey(k, m) ==
    /\ keys' = [keys EXCEPT ![k] = [machine |-> m, revoked |-> FALSE]]
    /\ used' = used \cup {k}
    /\ UNCHANGED <<pools, providers, machines>>

RevokeKey(k) ==
    /\ keys' = [keys EXCEPT ![k].revoked = TRUE]
    /\ UNCHANGED <<pools, providers, machines, used>>
=============================================================================
