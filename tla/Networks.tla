------------------------------ MODULE Networks ------------------------------
(***************************************************************************)
(* NetworkService (internal/service/network.go) over NetworkRepository     *)
(* (internal/repository/network_repository.go).                            *)
(***************************************************************************)
EXTENDS Api

\* TrimSpace(name) = "" and validateTags, in their order.
NetworkInputError(q) ==
    IF q.name = "" THEN "ErrInvalidNetworkName"
    ELSE IF q.desc = BadTags THEN "ErrDuplicateTagKey"
    ELSE "none"

NetworkRowOf(q) == [name |-> q.name, desc |-> q.desc]

-----------------------------------------------------------------------------
(* Create.  The name is looked up before the transaction starts.           *)

CheckNetworkName(r) ==
    LET q == arg[r]
    IN  /\ pc[r] = "netName"
        /\ IF NetworkInputError(q) # "none" THEN Refuse(r, NetworkInputError(q))
           ELSE IF NetworksNamed(q.name) # {} THEN Refuse(r, "ErrNetworkNameTaken")
           ELSE Goto(r, "netInsert") /\ UNCHANGED <<tables, locks, loc>>

\* Mutant: the schema without UNIQUE on networks.name.
InsertNetwork_noUnique(r) ==
    /\ pc[r] = "netInsert"
    /\ UsesSQLiteSyntax => writeMu = Nil
    /\ \E n \in Net \ used :
        /\ networks' = [networks EXCEPT ![n] = NetworkRowOf(arg[r])]
        /\ used' = used \cup {n}
        /\ UNCHANGED subnets
        /\ Answer(r, "ok")

\* INSERT, replaceTags, COMMIT.
InsertNetwork(r) ==
    LET q == arg[r]
    IN  /\ pc[r] = "netInsert"
        /\ UsesSQLiteSyntax => writeMu = Nil
        /\ IF NetworksNamed(q.name) # {} THEN Refuse(r, "ConstraintViolation")
           ELSE \E n \in Net \ used :
                /\ networks' = [networks EXCEPT ![n] = NetworkRowOf(q)]
                /\ used' = used \cup {n}
                /\ UNCHANGED subnets
                /\ Answer(r, "ok")

-----------------------------------------------------------------------------
(* Update.                                                                 *)

ReadNetwork(r) ==
    LET q == arg[r]
        row == networks[q.id]
    IN  /\ pc[r] = "netRead"
        /\ IF row = Nil THEN Refuse(r, "ErrNetworkNotFound")
           ELSE IF NetworkInputError(q) # "none" THEN Refuse(r, NetworkInputError(q))
           ELSE /\ Goto(r, IF q.name # row.name THEN "netRename" ELSE "netWrite")
                /\ UNCHANGED <<tables, locks, loc>>

CheckNewName(r) ==
    /\ pc[r] = "netRename"
    /\ IF NetworksNamed(arg[r].name) \ {arg[r].id} # {}
       THEN Refuse(r, "ErrNetworkNameTaken")
       ELSE Goto(r, "netWrite") /\ UNCHANGED <<tables, locks, loc>>

\* UPDATE, replaceTags, COMMIT.
WriteNetwork(r) ==
    LET q == arg[r]
    IN  /\ pc[r] = "netWrite"
        /\ Unblocked(r, q.id)
        /\ IF networks[q.id] = Nil THEN Refuse(r, "ErrNetworkNotFound")
           ELSE IF NetworksNamed(q.name) \ {q.id} # {}
           THEN Refuse(r, "ConstraintViolation")
           ELSE /\ networks' = [networks EXCEPT ![q.id] = NetworkRowOf(q)]
                /\ UNCHANGED <<subnets, used>>
                /\ Answer(r, "ok")

-----------------------------------------------------------------------------
(* Delete.  The check for children runs outside the transaction; the       *)
(* DELETE cascades to every subnet of the network.                         *)

ReadNetworkForDelete(r) ==
    /\ pc[r] = "netDelete"
    /\ IF networks[arg[r].id] = Nil THEN Refuse(r, "ErrNetworkNotFound")
       ELSE Goto(r, "netCheck") /\ UNCHANGED <<tables, locks, loc>>

\* Mutant: the children are looked for under the wrong kind of parent.
CheckNetworkChildren_kind(r) ==
    /\ pc[r] = "netCheck"
    /\ Goto(r, "netDeleteTx") /\ UNCHANGED <<tables, locks, loc>>

CheckNetworkChildren(r) ==
    /\ pc[r] = "netCheck"
    /\ IF listByParent(arg[r].id) # {} THEN Refuse(r, "ErrNetworkHasChildren")
       ELSE Goto(r, "netDeleteTx") /\ UNCHANGED <<tables, locks, loc>>

\* DELETE FROM networks takes the row ...
LockNetworkForDelete(r) ==
    LET n == arg[r].id
    IN  /\ pc[r] = "netDeleteTx"
        /\ Unblocked(r, n)
        /\ IF networks[n] = Nil THEN Refuse(r, "ErrNetworkNotFound")
           ELSE /\ HoldRow(r, n)
                /\ Goto(r, "netCascade")
                /\ UNCHANGED <<tables, loc>>

\* The subnets ON DELETE CASCADE removes with network n.
Cascaded(n) == {s \in LiveSubnets : subnets[s].network = n}

\* ... and its cascade takes the rows of the subnets, one by one locked.
CascadeAndCommit(r) ==
    LET n == arg[r].id
    IN  /\ pc[r] = "netCascade"
        /\ \A s \in Cascaded(n) : FreeFor(r, s)
        /\ networks' = [networks EXCEPT ![n] = Nil]
        /\ subnets' = [s \in Subnet |-> IF s \in Cascaded(n) THEN Nil ELSE subnets[s]]
        /\ UNCHANGED used
        /\ Answer(r, "ok")

NetworkStep(r) ==
    \/ CheckNetworkName(r)
    \/ InsertNetwork(r)
    \/ ReadNetwork(r)
    \/ CheckNewName(r)
    \/ WriteNetwork(r)
    \/ ReadNetworkForDelete(r)
    \/ CheckNetworkChildren(r)
    \/ LockNetworkForDelete(r)
    \/ CascadeAndCommit(r)
=============================================================================
