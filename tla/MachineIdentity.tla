--------------------------- MODULE MachineIdentity ---------------------------
(***************************************************************************)
(* Machine identity: the administration of pools, providers, machines and  *)
(* keys, and the authentications that run meanwhile.                       *)
(***************************************************************************)
EXTENDS MachineAuth

CONSTANT Seeds  \* what the tables may hold at the start

\* gone: uuids that were given out and whose rows have been deleted since.
SeedRow == [pools : [Pool -> PoolRow \cup {Nil}],
            providers : [Provider -> ProviderRow \cup {Nil}],
            machines : [Machine -> MachineRow \cup {Nil}],
            keys : [Key -> KeyRow \cup {Nil}],
            gone : SUBSET (Pool \cup Provider \cup Machine \cup Key)]

\* The foreign keys and unique constraints of the script hold, and what
\* buildMachine checks: the rows were written through the same service.
Coherent(d) ==
    LET V == {v \in Provider : d.providers[v] # Nil}
        M == {m \in Machine : d.machines[m] # Nil}
    IN  /\ \A v \in V : d.pools[d.providers[v].pool] # Nil
        /\ \A v, w \in V : v # w /\ d.providers[v].pool = d.providers[w].pool =>
              /\ d.providers[v].issuer # d.providers[w].issuer
              /\ d.providers[v].name # d.providers[w].name
        /\ \A m \in M : /\ d.pools[d.machines[m].pool] # Nil
                        /\ d.machines[m].provider # Nil =>
                             /\ d.machines[m].provider \in V
                             /\ d.providers[d.machines[m].provider].pool = d.machines[m].pool
        /\ \A m, n \in M : m # n /\ d.machines[m].pool = d.machines[n].pool =>
              d.machines[m].name # d.machines[n].name
        /\ \A k \in Key : d.keys[k] # Nil => d.machines[d.keys[k].machine] # Nil

ASSUME SeedAssumption == Seeds \subseteq SeedRow /\ \A d \in Seeds : Coherent(d)

VARIABLE seen   \* history: what has held at some instant of each request

vars == <<tables, expired, process, seen>>

InitFrom(d) ==
    /\ pools = d.pools /\ providers = d.providers
    /\ machines = d.machines /\ keys = d.keys
    /\ used = LivePools \cup LiveProviders \cup LiveMachines \cup LiveKeys \cup d.gone
    /\ expired = {}
    /\ pc = [r \in Req |-> "idle"]
    /\ arg = [r \in Req |-> Nil]
    /\ loc = [r \in Req |-> NoLocals]
    /\ reply = NoReply
    /\ seen = [r \in Req |-> {}]

Init == \E d \in Seeds : InitFrom(d)

\* time.Now() passes the expires_at of a key.
Expire(k) ==
    /\ expired' = expired \cup {k}
    /\ reply' = NoReply
    /\ UNCHANGED <<tables, pc, arg, loc>>

System ==
    \/ \E r \in Req : (MachineStep(r) \/ AuthStep(r)) /\ UNCHANGED expired
    \/ \E r \in Req : (Receive(r) \/ Fail(r)) /\ UNCHANGED expired
    \/ \E k \in LiveKeys : Expire(k)

\* All machines a token would be matched to if the tables stood still.
TokenMatches(q) ==
    UNION {Matching(v, q.constraint) : v \in TrustedProviders(q.issuer)}

\* The machine of the key that request r presents, as a singleton.
KeyMachine(r) ==
    {m \in LiveMachines : arg[r].key \in LiveKeys /\ keys[arg[r].key].machine = m}

\* Its pool, which is still looked up when the machine has been deleted.
KeyPool(r) ==
    IF pc[r] \in {"keyPool", "keyTouch"} THEN {loc[r].row.pool} \cap LivePools
    ELSE {machines[m].pool : m \in KeyMachine(r)}

\* What holds now for the authentication request r.
Facts(r) ==
    LET q == arg[r]
    IN  CASE q = Nil -> {}
          [] q # Nil /\ q.op = "AuthKey" ->
               {f \in {"key", "machine", "pool"} :
                  \/ f = "key" /\ q.key \in ValidKeys
                  \/ f = "machine" /\ \E m \in KeyMachine(r) : machines[m].enabled
                  \/ f = "pool" /\ \E p \in KeyPool(r) : pools[p].enabled}
          [] q # Nil /\ q.op = "AuthJwt" ->
               {<<"enabled", m>> : m \in {n \in LiveMachines :
                   machines[n].enabled /\ pools[machines[n].pool].enabled
                   /\ q.constraint \in Accepts[machines[n].constraint]}}
               \cup {<<"sole", m>> : m \in {n \in Machine : TokenMatches(q) = {n}}}
          [] OTHER -> {}

Observe ==
    seen' = [r \in Req |-> IF pc'[r] = "idle" THEN {}
                           ELSE (IF pc[r] = "idle" THEN {} ELSE seen[r]) \cup Facts(r)']

Next == System /\ Observe

Spec == Init /\ [][Next]_vars

-----------------------------------------------------------------------------
TypeOK ==
    /\ StoreTypeOK
    /\ pc \in [Req -> Label]
    /\ arg \in [Req -> Requests \cup {Nil}]
    /\ loc \in [Req -> Locals]
    /\ reply \in [Req -> Status \cup {0} \cup Machine]
    /\ \A r \in Req : pc[r] = "idle" <=> arg[r] = Nil

\* Deleting a pool takes its providers, machines and keys with it, and nothing
\* that is being created below it meanwhile survives ("Deleting a pool deletes
\* its providers, machines, and machine API keys", FUNCTIONAL.md:363).
NothingOutlivesItsPool ==
    /\ \A v \in LiveProviders : providers[v].pool \in LivePools
    /\ \A m \in LiveMachines : /\ machines[m].pool \in LivePools
                               /\ machines[m].provider \in LiveProviders \cup {Nil}
    /\ \A k \in LiveKeys : keys[k].machine \in LiveMachines

\* "When provider is set, it must belong to the same machine pool as the
\* machine" (FUNCTIONAL.md:452), although the provider is read, and may be
\* deleted, before the machine is written (machine.go:645-655).
ProviderOfSamePool ==
    \A m \in LiveMachines : machines[m].provider # Nil =>
        providers[machines[m].provider].pool = machines[m].pool

\* At most one provider of a pool trusts an issuer and names are unique within
\* a pool, although the checks precede the transaction (machine.go:381-393).
PoolMembersUnique ==
    /\ \A v, w \in LiveProviders : v # w /\ providers[v].pool = providers[w].pool =>
         providers[v].issuer # providers[w].issuer /\ providers[v].name # providers[w].name
    /\ \A m, n \in LiveMachines : m # n /\ machines[m].pool = machines[n].pool =>
         machines[m].name # machines[n].name

\* A machine is authenticated only with rights it held at some instant since
\* the request arrived: the key was valid, machine and pool were enabled; for a
\* JWT the machine was enabled, in an enabled pool, with constraints that the
\* token meets.
AuthenticatedWithRights ==
    [][\A r \in Req : arg[r] # Nil /\ reply'[r] \in Machine =>
         IF arg[r].op = "AuthKey" THEN {"key", "machine", "pool"} \subseteq seen[r]
         ELSE <<"enabled", reply'[r]>> \in seen[r] \cup Facts(r)]_vars

\* "revoked_at: when set, the key is rejected" (FUNCTIONAL.md:470): nothing
\* takes a revocation back, the TouchLastUsed of an authentication in flight
\* included.
RevocationIsFinal ==
    [][\A k \in Key : keys[k] # Nil /\ keys[k].revoked =>
         keys'[k] = Nil \/ keys'[k].revoked]_vars

-----------------------------------------------------------------------------
\* "Exactly one enabled machine must match" (TECHNICAL.md:522): an accepted
\* machine was, at some instant, the only one the token matches.  The machines
\* of each provider are listed in a query of its own.
MatchedAlone ==
    [][\A r \in Req : arg[r] # Nil /\ arg[r].op = "AuthJwt" /\ reply'[r] \in Machine =>
         <<"sole", reply'[r]>> \in seen[r] \cup Facts(r)]_vars
=============================================================================
