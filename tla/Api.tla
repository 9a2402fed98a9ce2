--------------------------------- MODULE Api --------------------------------
(***************************************************************************)
(* Request goroutines.  A request arrives with its decoded arguments       *)
(* (internal/handler), runs the service method one database interaction    *)
(* per step, and is answered; its locals die with it.                      *)
(***************************************************************************)
EXTENDS Store

CONSTANT Requests   \* the decoded HTTP requests clients may send

SubnetOps  == {"CreateSubnet", "UpdateSubnet", "DeleteSubnet"}
NetworkOps == {"CreateNetwork", "UpdateNetwork", "DeleteNetwork"}

\* Stands for a tag list with an empty or a repeated key, see validateTags.
BadTags == "bad tags"

\* id is the parent of a subnet to create and otherwise the target; net is the
\* network of the URL; addr is Nil when the address field is empty; desc is
\* the description together with the tags.
Args == [op : SubnetOps \cup NetworkOps, net : Net \cup {Nil},
         id : Uuid \cup {Nil}, name : Name, desc : Text \cup {BadTags},
         addr : Word \cup {BadAddress, Nil}, len : Int,
         type : {"ipv4", "ipv6"}]

\* What the routes guarantee: a subnet request names its network and a row,
\* POST /networks/{uuid}/subnets makes that network the parent.
ASSUME RequestsAssumption ==
    /\ Requests \subseteq Args
    /\ \A q \in Requests :
        /\ q.op = "CreateSubnet" => q.id \in Subnet \cup {q.net}
        /\ q.op \in {"UpdateSubnet", "DeleteSubnet"} => q.id \in Subnet
        /\ q.op \in SubnetOps => q.net \in Net /\ q.desc \in Text
        /\ q.op \in {"UpdateNetwork", "DeleteNetwork"} => q.id \in Net
        /\ q.op = "CreateNetwork" => q.id = Nil
        /\ q # Nil

VARIABLES
    pc,         \* [Req -> where the request is]
    arg,        \* [Req -> its arguments, or Nil]
    loc,        \* [Req -> the locals of its service method]
    reply       \* [Req -> how its last request was answered]

process == <<pc, arg, loc, reply>>

\* cursor: the subnet whose row resolveNetworkUUID reads next; network and
\* prefix: parentContext (no prefix for a network parent); block: the chosen
\* candidate; row: the subnet an update has read.
Locals == [cursor : Subnet \cup {Nil}, network : Net \cup {Nil},
           prefix : SUBSET Prefix, block : Prefix \cup {Nil},
           row : SubnetRow \cup {Nil}]

NoLocals == [cursor |-> Nil, network |-> Nil, prefix |-> {}, block |-> Nil,
             row |-> Nil]

CreatePC  == {"context", "root", "begin", "locked", "named", "chosen"}
UpdatePC  == {"update", "updateTx", "updateWrite"}
DeletePC  == {"delete", "deleteCheck", "deleteTx"}
SubnetPC  == {"ensure"} \cup CreatePC \cup UpdatePC \cup DeletePC
NetworkPC == {"netName", "netInsert", "netRead", "netRename", "netWrite",
              "netDelete", "netCheck", "netDeleteTx", "netCascade"}

ApiTypeOK ==
    /\ pc \in [Req -> {"idle"} \cup SubnetPC \cup NetworkPC]
    /\ arg \in [Req -> Requests \cup {Nil}]
    /\ loc \in [Req -> Locals]
    /\ \A r \in Req : pc[r] = "idle" <=> arg[r] = Nil

-----------------------------------------------------------------------------
EntryPoint(q) ==
    CASE q.op = "CreateSubnet" /\ q.id \in Net -> "context"
      [] q.op \in SubnetOps /\ q.id \notin Net -> "ensure"
      [] q.op = "CreateNetwork" -> "netName"
      [] q.op = "UpdateNetwork" -> "netRead"
      [] q.op = "DeleteNetwork" -> "netDelete"

\* Bound: uuids are finite here, so a create is accepted only while a fresh
\* uuid is left for it and for the creates in flight.
UuidLeft(q) ==
    LET ids == IF q.op = "CreateSubnet" THEN Subnet ELSE Net
    IN  q.op \in {"CreateSubnet", "CreateNetwork"} =>
          Cardinality({p \in Req : pc[p] # "idle" /\ arg[p].op = q.op})
            < Cardinality(ids \ used)

Receive(r) ==
    /\ pc[r] = "idle"
    /\ \E q \in Requests :
        /\ UuidLeft(q)
        /\ arg' = [arg EXCEPT ![r] = q]
        /\ pc' = [pc EXCEPT ![r] = EntryPoint(q)]
        /\ loc' = [loc EXCEPT ![r].cursor = IF q.id \in Subnet THEN q.id ELSE Nil]
    /\ reply' = [reply EXCEPT ![r] = "none"]
    /\ UNCHANGED <<tables, locks>>

\* The service method goes on at label l.
Goto(r, l) ==
    /\ pc' = [pc EXCEPT ![r] = l]
    /\ UNCHANGED <<arg, reply>>

\* The service method returns: transaction over, locks released.
Answer(r, outcome) ==
    /\ pc' = [pc EXCEPT ![r] = "idle"]
    /\ arg' = [arg EXCEPT ![r] = Nil]
    /\ loc' = [loc EXCEPT ![r] = NoLocals]
    /\ reply' = [reply EXCEPT ![r] = outcome]
    /\ Release(r)

\* The method returns an error and has committed nothing.
Refuse(r, err) == Answer(r, err) /\ UNCHANGED tables

\* The labels at which the next step of the code is writeMu.Lock().
AtMutex == {"begin", "updateTx", "deleteTx", "netInsert", "netWrite",
            "netDeleteTx"}

\* A statement fails or the client goes away and its context is cancelled: the
\* transaction rolls back and the error is a 500.  A request queued on the
\* mutex cannot notice before it gets it.
Fail(r) ==
    /\ pc[r] # "idle"
    /\ (UsesSQLiteSyntax /\ pc[r] \in AtMutex) => writeMu = Nil
    /\ Refuse(r, "ErrInternal")
=============================================================================
