------------------------------- MODULE Subnets ------------------------------
(***************************************************************************)
(* SubnetService (internal/service/subnet.go) over SubnetRepository        *)
(* (internal/repository/subnet_repository.go): creation with explicit or   *)
(* automatic address, update of the description, delete.                   *)
(***************************************************************************)
EXTENDS Api

(* ensureInNetwork: the row of the target (for a create: of the parent     *)
(* subnet), then the rows of its ancestors one query at a time.            *)

\* What follows ensureInNetwork in CreateInNetwork, UpdateInNetwork and
\* DeleteInNetwork.
AfterEnsure(op) ==
    CASE op = "CreateSubnet" -> "context"
      [] op = "UpdateSubnet" -> "update"
      [] op = "DeleteSubnet" -> "delete"

\* Mutant: the network of the URL is not compared with the subnet's.
EnsureInNetwork_anyNetwork(r) ==
    LET cur == loc[r].cursor
        row == subnets[cur]
    IN  /\ pc[r] = "ensure"
        /\ IF row = Nil THEN Refuse(r, "ErrSubnetNotFound")
           ELSE /\ Goto(r, AfterEnsure(arg[r].op))
                /\ loc' = [loc EXCEPT ![r].cursor = Nil]
                /\ UNCHANGED <<tables, locks>>

EnsureInNetwork(r) ==
    LET cur == loc[r].cursor
        row == subnets[cur]
    IN  /\ pc[r] = "ensure"
        /\ IF row = Nil
           THEN Refuse(r, IF cur = arg[r].id THEN "ErrSubnetNotFound"
                          ELSE "ErrParentNotFound")
           ELSE IF row.parent \in Subnet
           THEN /\ Goto(r, "ensure")
                /\ loc' = [loc EXCEPT ![r].cursor = row.parent]
                /\ UNCHANGED <<tables, locks>>
           ELSE IF row.parent # arg[r].net
           THEN Refuse(r, "ErrSubnetNotInNetwork")
           ELSE /\ Goto(r, AfterEnsure(arg[r].op))
                /\ loc' = [loc EXCEPT ![r].cursor = Nil]
                /\ UNCHANGED <<tables, locks>>

-----------------------------------------------------------------------------
(* Create.                                                                 *)

\* The first lines of Create: input checks, in their order.
InputError(q) ==
    IF q.name = "" THEN "ErrInvalidSubnetName"
    ELSE IF q.type # "ipv4" THEN "ErrIPv6NotSupported"
    ELSE "none"

\* resolveNetworkUUID has seen a row whose parent is p: at a network the
\* answer is known, at a subnet its row is the next to read.
Climb(r, p, prefix) ==
    /\ UNCHANGED <<tables, locks>>
    /\ IF p \in Net
       THEN /\ Goto(r, "begin")
            /\ loc' = [loc EXCEPT ![r] = [loc[r] EXCEPT !.cursor = Nil,
                                                        !.network = p,
                                                        !.prefix = prefix]]
       ELSE /\ Goto(r, "root")
            /\ loc' = [loc EXCEPT ![r] = [loc[r] EXCEPT !.cursor = p,
                                                        !.prefix = prefix]]

\* Input checks, then resolveParentContext's read of the parent row: the CIDR
\* the whole creation works with is the one seen here, outside the transaction.
ResolveParentContext(r) ==
    LET q == arg[r]
    IN  /\ pc[r] = "context"
        /\ IF InputError(q) # "none" THEN Refuse(r, InputError(q))
           ELSE IF ~Exists(q.id) THEN Refuse(r, "ErrParentNotFound")
           ELSE IF q.id \in Net THEN Climb(r, q.id, {})
           ELSE Climb(r, subnets[q.id].parent, {RowPrefix(subnets[q.id])})

ResolveNetworkUUID(r) ==
    LET row == subnets[loc[r].cursor]
    IN  /\ pc[r] = "root"
        /\ IF row = Nil THEN Refuse(r, "ErrParentNotFound")
           ELSE Climb(r, row.parent, loc[r].prefix)

\* CreateAtomically opens the transaction: mutex or SELECT ... FOR UPDATE.
LockParentForCreate(r) ==
    /\ pc[r] = "begin"
    /\ Unblocked(r, arg[r].id)
    /\ IF ~Exists(arg[r].id) THEN Refuse(r, "ErrParentNotFound")
       ELSE /\ HoldRow(r, arg[r].id)
            /\ Goto(r, "locked")
            /\ UNCHANGED <<tables, loc>>

CheckName(r) ==
    /\ pc[r] = "locked"
    /\ IF SubnetsNamed(loc[r].network, arg[r].name) # {}
       THEN Refuse(r, "ErrSubnetNameTaken")
       ELSE Goto(r, "named") /\ UNCHANGED <<tables, locks, loc>>

\* The candidate: the explicit address, or the first free block.
Candidate(q, prefix, siblings) ==
    IF q.addr # Nil THEN ParseIPv4Prefix(q.addr, q.len)
    ELSE IF q.id \in Net THEN Err("ErrAddressRequired")
    ELSE FindFreeIPv4Block(CHOOSE p \in prefix : TRUE, q.len, siblings)

\* The search that never returns (FindFree!AlwaysEnds): the goroutine spins
\* inside the transaction.
Spins(q, prefix, siblings) ==
    /\ q.addr = Nil
    /\ q.id \in Subnet
    /\ \A p \in prefix : SearchWraps(p, q.len, siblings)

\* ListSiblings, the choice of the candidate and ValidateIPv4Subnet.
ChooseBlock(r) ==
    LET q == arg[r]
        siblings == subnetsToPrefixes(listByParent(q.id))
        cand == Candidate(q, loc[r].prefix, siblings)
        valid == ValidateIPv4Subnet(cand.prefix, loc[r].prefix, siblings)
    IN  /\ pc[r] = "named"
        /\ ~Spins(q, loc[r].prefix, siblings)
        /\ IF cand.err # "none" THEN Refuse(r, cand.err)
           ELSE IF valid # "none" THEN Refuse(r, valid)
           ELSE /\ Goto(r, "chosen")
                /\ loc' = [loc EXCEPT ![r].block = cand.prefix]
                /\ UNCHANGED <<tables, locks>>

\* Constraints of the schema an INSERT of (net, name) can meet.
ViolatesSchema(net, name) ==
    networks[net] = Nil \/ SubnetsNamed(net, name) # {}

\* insertSubnet and COMMIT.  The foreign key makes the INSERT wait for a
\* transaction that holds the network row.
InsertSubnet(r) ==
    LET q == arg[r]
        net == NetworkColumn(q.id)
    IN  /\ pc[r] = "chosen"
        /\ IF net = Nil THEN Refuse(r, "ErrInternal")
           ELSE /\ FreeFor(r, net)
                /\ IF ViolatesSchema(net, q.name)
                   THEN Refuse(r, "ConstraintViolation")
                   ELSE \E id \in Subnet \ used :
                        /\ subnets' = [subnets EXCEPT ![id] =
                             [network |-> net, name |-> q.name, desc |-> q.desc,
                              cidr |-> loc[r].block, parent |-> q.id]]
                        /\ used' = used \cup {id}
                        /\ UNCHANGED networks
                        /\ Answer(r, "ok")

-----------------------------------------------------------------------------
(* Update: the row is read, the description replaced, the WHOLE row        *)
(* written back in a later transaction.                                    *)

ReadForUpdate(r) ==
    LET row == subnets[arg[r].id]
    IN  /\ pc[r] = "update"
        /\ IF row = Nil THEN Refuse(r, "ErrSubnetNotFound")
           ELSE /\ Goto(r, "updateTx")
                /\ loc' = [loc EXCEPT ![r].row = [row EXCEPT !.desc = arg[r].desc]]
                /\ UNCHANGED <<tables, locks>>

\* The transaction starts and resolves the network column through the parent.
BeginUpdate(r) ==
    LET net == NetworkColumn(loc[r].row.parent)
    IN  /\ pc[r] = "updateTx"
        /\ UsesSQLiteSyntax => writeMu = Nil
        /\ IF net = Nil THEN Refuse(r, "ErrInternal")
           ELSE /\ HoldMutex(r)
                /\ Goto(r, "updateWrite")
                /\ loc' = [loc EXCEPT ![r].network = net]
                /\ UNCHANGED tables

\* The row the UPDATE statement writes.
WrittenRow(r) == [loc[r].row EXCEPT !.network = loc[r].network]

\* Mutant: an upsert, RowsAffected() = 0 is not looked at.
WriteUpdate_upsert(r) ==
    LET id == arg[r].id
    IN  /\ pc[r] = "updateWrite"
        /\ FreeFor(r, id)
        /\ subnets' = [subnets EXCEPT ![id] = WrittenRow(r)]
        /\ UNCHANGED <<networks, used>>
        /\ Answer(r, "ok")

WriteUpdate(r) ==
    LET id == arg[r].id
        row == WrittenRow(r)
    IN  /\ pc[r] = "updateWrite"
        /\ FreeFor(r, id)
        /\ IF subnets[id] = Nil THEN Refuse(r, "ErrSubnetNotFound")
           ELSE IF SubnetsNamed(row.network, row.name) \ {id} # {}
           THEN Refuse(r, "ConstraintViolation")
           ELSE /\ subnets' = [subnets EXCEPT ![id] = row]
                /\ UNCHANGED <<networks, used>>
                /\ Answer(r, "ok")

-----------------------------------------------------------------------------
(* Delete.                                                                 *)

ReadForDelete(r) ==
    /\ pc[r] = "delete"
    /\ IF subnets[arg[r].id] = Nil THEN Refuse(r, "ErrSubnetNotFound")
       ELSE Goto(r, "deleteCheck") /\ UNCHANGED <<tables, locks, loc>>

\* Mutant: the children are looked for under the wrong kind of parent.
CheckChildren_kind(r) ==
    /\ pc[r] = "deleteCheck"
    /\ Goto(r, "deleteTx") /\ UNCHANGED <<tables, locks, loc>>

\* The check for children runs outside the write transaction.
CheckChildren(r) ==
    /\ pc[r] = "deleteCheck"
    /\ IF listByParent(arg[r].id) # {} THEN Refuse(r, "ErrSubnetHasChildren")
       ELSE Goto(r, "deleteTx") /\ UNCHANGED <<tables, locks, loc>>

DeleteSubnet(r) ==
    LET id == arg[r].id
    IN  /\ pc[r] = "deleteTx"
        /\ Unblocked(r, id)
        /\ IF subnets[id] = Nil THEN Refuse(r, "ErrSubnetNotFound")
           ELSE /\ subnets' = [subnets EXCEPT ![id] = Nil]
                /\ UNCHANGED <<networks, used>>
                /\ Answer(r, "ok")

SubnetStep(r) ==
    \/ EnsureInNetwork(r)
    \/ ResolveParentContext(r)
    \/ ResolveNetworkUUID(r)
    \/ LockParentForCreate(r)
    \/ CheckName(r)
    \/ ChooseBlock(r)
    \/ InsertSubnet(r)
    \/ ReadForUpdate(r)
    \/ BeginUpdate(r)
    \/ WriteUpdate(r)
    \/ ReadForDelete(r)
    \/ CheckChildren(r)
    \/ DeleteSubnet(r)
=============================================================================
