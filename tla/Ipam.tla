-------------------------------- MODULE Ipam --------------------------------
(***************************************************************************)
(* The address-management core of the server: any number of concurrent     *)
(* network and subnet requests over one database.                          *)
(***************************************************************************)
EXTENDS Subnets, Networks

CONSTANT Seed       \* [Net -> row or Nil]: the networks created so far

ASSUME SeedAssumption ==
    /\ Seed \in [Net -> NetworkRow \cup {Nil}]
    /\ \A m, n \in Net :
        m # n /\ Seed[m] # Nil /\ Seed[n] # Nil => Seed[m].name # Seed[n].name

VARIABLE raced      \* history: the subnets created under a parent whose deletion,
                    \* which may still be going on, had found it without children

system == <<tables, locks, process>>
vars   == <<system, raced>>

Init ==
    /\ networks = Seed
    /\ subnets = [s \in Subnet |-> Nil]
    /\ used = {n \in Net : Seed[n] # Nil}
    /\ writeMu = Nil
    /\ rowLock = [x \in Uuid |-> Nil]
    /\ pc = [r \in Req |-> "idle"]
    /\ arg = [r \in Req |-> Nil]
    /\ loc = [r \in Req |-> NoLocals]
    /\ reply = [r \in Req |-> "none"]
    /\ raced = {}

\* The rows a transaction that has begun waits for: the network row of an
\* INSERT (foreign key), the subnet rows of a cascading DELETE.
Awaited(r) ==
    CASE pc[r] = "chosen" -> {NetworkColumn(arg[r].id)} \ {Nil}
      [] pc[r] = "netCascade" -> Cascaded(arg[r].id)
      [] OTHER -> {}

WaitsFor(r, q) == q # r /\ \E x \in Awaited(r) : rowLock[x] = q

\* Mutant: a database that does not look for cycles.
DeadlockAbort_never(r) == FALSE /\ UNCHANGED system

\* PostgreSQL aborts one transaction of a cycle of waiting transactions.
DeadlockAbort(r) ==
    /\ \E q \in Req : WaitsFor(r, q) /\ WaitsFor(q, r)
    /\ Refuse(r, "ErrInternal")

Step(r) == SubnetStep(r) \/ NetworkStep(r) \/ DeadlockAbort(r)

\* A deletion between its check for children and its commit.
Deleting(r) == pc[r] \in {"deleteTx", "netDeleteTx", "netCascade"}

DeletionPending(x) == \E r \in Req : Deleting(r) /\ arg[r].id = x

\* The parent of a live subnet is being deleted or gone.
AtRisk(s) ==
    subnets[s] # Nil
        /\ (DeletionPending(subnets[s].parent) \/ ~Exists(subnets[s].parent))

\* Forgotten once the deletion has ended and left the parent.
ObserveRaces ==
    raced' = {s \in Subnet :
                /\ IF subnets[s] # Nil THEN s \in raced
                   ELSE subnets'[s] # Nil /\ DeletionPending(subnets'[s].parent)
                /\ AtRisk(s)'}

Next ==
    /\ \E r \in Req : Receive(r) \/ Step(r) \/ Fail(r)
    /\ ObserveRaces

\* A goroutine that can run does, and neither Go's mutex (starvation mode) nor
\* PostgreSQL's lock queues let a waiter be overtaken for ever, hence strong
\* fairness.  Clients owe nothing: no fairness on Receive or Fail.
Fairness == \A r \in Req : SF_system(Step(r))

Spec == Init /\ [][Next]_vars

FairSpec == Spec /\ Fairness

-----------------------------------------------------------------------------
TypeOK ==
    /\ StoreTypeOK
    /\ ApiTypeOK

\* "parallel creates under the same parent cannot pick the same CIDR"
\* (TECHNICAL.md, Concurrency): two subnets of one parent, network or subnet,
\* never overlap, whatever creates, updates and deletes run at the same time.
SiblingsDisjoint ==
    \A s, t \in LiveSubnets :
        s # t /\ subnets[s].parent = subnets[t].parent
            => ~Overlaps(subnets[s].cidr, subnets[t].cidr)

\* A subnet lies inside the subnet it was created under as long as that one
\* exists, although the parent's CIDR was read before the transaction
\* (subnet.go:96 against :155).
ChildInsideParent ==
    \A s \in LiveSubnets :
        subnets[s].parent \in LiveSubnets
            => PrefixContains(subnets[subnets[s].parent].cidr, subnets[s].cidr)

\* What the two mean, address by address and without masks: no address belongs
\* to two subnets of one parent, and every address of a subnet is its parent's
\* (ipv4.go:39-71 under subnet.go:104-189).
AddressesSound ==
    \A s, t \in LiveSubnets :
        /\ s # t /\ subnets[s].parent = subnets[t].parent
             => Addresses(subnets[s].cidr) \cap Addresses(subnets[t].cidr) = {}
        /\ subnets[s].parent = t
             => Addresses(subnets[s].cidr) \subseteq Addresses(subnets[t].cidr)

\* The denormalised network_uuid column, computed in the transaction from the
\* parent's column, is the network the parent chain leads to, and that network
\* exists (subnet_repository.go:350-374, schema: ON DELETE CASCADE).
NetworkColumnRight ==
    \A s \in LiveSubnets :
        /\ networks[subnets[s].network] # Nil
        /\ subnets[s].parent \in Net => subnets[s].network = subnets[s].parent
        /\ subnets[s].parent \in LiveSubnets
             => subnets[s].network = subnets[subnets[s].parent].network

\* Names are unique per network and network names globally, although network
\* names and, across parents on PostgreSQL, subnet names are checked outside
\* any lock (network.go:69,130, subnet.go:105).
NamesUnique ==
    /\ \A m, n \in Net : m # n /\ networks[m] # Nil /\ networks[n] # Nil
            => networks[m].name # networks[n].name
    /\ \A s, t \in LiveSubnets : s # t /\ subnets[s].network = subnets[t].network
            => subnets[s].name # subnets[t].name

\* Deletes look for children before their transaction (subnet.go:331-343,
\* network.go:163-175), so ParentExists does not hold; but a subnet outlives its
\* parent only if it was created between that check and the commit.
OrphanedOnlyByRace ==
    \A s \in LiveSubnets : ~Exists(subnets[s].parent) => s \in raced

\* The same of the cascade of a network: it takes a subnet only if the subnet was
\* created between the check and the commit of a deletion, or goes together with
\* the subnet it was created under.
CascadedOnlyByRace ==
    [][\A n \in Net : networks[n] # Nil /\ networks'[n] = Nil =>
         \A s \in Cascaded(n) : s \in raced \/ subnets[s].parent \in Cascaded(n)]_vars

\* Only the description of an existing subnet ever changes: the whole-row
\* write of a stale copy (subnet.go:298-309) moves no subnet, changes no CIDR,
\* and does not bring a deleted subnet back.
SubnetIdentityFixed ==
    [][\A s \in Subnet :
        /\ subnets[s] # Nil /\ subnets'[s] # Nil =>
             \E d \in Text : subnets'[s] = [subnets[s] EXCEPT !.desc = d]
        /\ subnets[s] = Nil /\ s \in used => subnets'[s] = Nil]_vars

\* A subnet is created, changed or deleted only by a request through the URL of
\* its own network, the deletion of that network included: the check of
\* ensureInNetwork (subnet.go:267-285) is still true when the write happens.
TenancyKept ==
    [][\A s \in Subnet : subnets'[s] # subnets[s] =>
         LET n == IF subnets[s] # Nil THEN subnets[s].network
                  ELSE subnets'[s].network
         IN  \E r \in Req :
               /\ pc[r] # "idle" /\ pc'[r] = "idle"
               /\ \/ arg[r].op \in SubnetOps /\ arg[r].net = n
                  \/ arg[r].op = "DeleteNetwork" /\ arg[r].id = n]_vars

\* Every request is answered in the end, whatever the others do.
EveryRequestAnswered == \A r \in Req : pc[r] # "idle" ~> pc[r] = "idle"

-----------------------------------------------------------------------------
(* Statements of the documentation that concurrent requests break.         *)

\* "A subnet always belongs, directly or indirectly, to a single root network"
\* (FUNCTIONAL.md:64): the parent of a subnet exists.
ParentExists == \A s \in LiveSubnets : Exists(subnets[s].parent)

\* "Deletes a network only if it has no child subnets" (TECHNICAL.md:732).
NetworkDeletedOnlyEmpty ==
    [][\A n \in Net : networks[n] # Nil /\ networks'[n] = Nil
            => listByParent(n) = {}]_vars

\* "409: name already in use" (TECHNICAL.md:701): a taken name is reported by
\* the check in the service and never by the constraint of the schema, whose
\* error the handlers turn into a 500.
NameClashIsConflict == \A r \in Req : reply[r] # "ConstraintViolation"
=============================================================================
