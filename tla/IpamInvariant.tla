--------------------------- MODULE IpamInvariant ----------------------------
(***************************************************************************)
(* The inductive invariant of Ipam, in named parts, and the refinement     *)
(* mapping to AddressPlan.  The runs check both; IpamProofs proves them.   *)
(***************************************************************************)
EXTENDS Ipam

\* The labels inside CreateAtomically's transaction.
InCreateTx == {"locked", "named", "chosen"}

\* The request holds what serialises writers under its row.
HoldsSerialiser(r) ==
    IF UsesSQLiteSyntax THEN writeMu = r ELSE rowLock[arg[r].id] = r

\* What the label l of a request says of its arguments q and its locals x.
ControlAt(l, q, x) ==
    /\ l \in SubnetPC => q.op \in SubnetOps
    /\ l \in CreatePC => q.id \in Uuid
    /\ l \in {"ensure"} \cup UpdatePC \cup DeletePC => q.id \in Subnet
    /\ l = "ensure" => x.cursor \in Subnet
    /\ l = "root" => x.cursor \in Subnet /\ q.id \in Subnet
    /\ l = "chosen" => x.block \in Prefix
    /\ l \in {"updateTx", "updateWrite"} => x.row \in SubnetRow
    /\ l = "updateWrite" => x.network \in Net
    /\ l \in NetworkPC \ {"netName", "netInsert"} => q.id \in Net
    /\ l \in {"netInsert", "netRename", "netWrite"} => q.desc \in Text

ControlInv == \A r \in Req : ControlAt(pc[r], arg[r], loc[r])

\* A transaction of several steps owns the mutex or the row it started with.
LockAt(r) ==
    /\ pc[r] \in InCreateTx \cup {"netCascade"} => HoldsSerialiser(r)
    /\ pc[r] = "updateWrite" /\ UsesSQLiteSyntax => writeMu = r

\* The rows a request goes on to write under exist or existed: no later row
\* can take their uuids.
SpentAt(r) ==
    pc[r] \in {"root", "begin", "updateTx", "updateWrite"} \cup InCreateTx
        => arg[r].id \in Net \cup used

\* What a create knows is still true: its parent exists, the CIDR read before
\* the transaction is the parent's, the chosen block is inside it and clear of
\* every sibling.
CreateAt(r) ==
    /\ pc[r] \in InCreateTx => Exists(arg[r].id)
    /\ pc[r] \in {"root", "begin"} \cup InCreateTx /\ arg[r].id \in LiveSubnets
        => loc[r].prefix = {subnets[arg[r].id].cidr}
    /\ pc[r] = "chosen" =>
        /\ \A p \in loc[r].prefix : PrefixContains(p, loc[r].block)
        /\ \A s \in listByParent(arg[r].id) :
             ~Overlaps(loc[r].block, subnets[s].cidr)

\* The stale copy an update writes back differs from the row, if the row still
\* exists, in nothing but the description.
UpdateAt(r) ==
    pc[r] \in {"updateTx", "updateWrite"} /\ arg[r].id \in LiveSubnets =>
        /\ loc[r].row = [subnets[arg[r].id] EXCEPT !.desc = arg[r].desc]
        /\ pc[r] = "updateWrite" => loc[r].network = loc[r].row.network

RequestInv(r) == LockAt(r) /\ SpentAt(r) /\ CreateAt(r) /\ UpdateAt(r)

\* The uuids of rows and of their parents are spent.
SpentInv ==
    \A s \in LiveSubnets :
        s \in used /\ (subnets[s].parent \in Subnet => subnets[s].parent \in used)

\* What ensureInNetwork has found out is still true: the row it reads next is in
\* the network of the target, and past it the target, as long as it exists, is in
\* the network of the URL.  No uuid it has seen can become another row.
TenantAt(r) ==
    LET x == arg[r].id
        cur == loc[r].cursor
    IN  /\ pc[r] = "ensure" /\ cur # x =>
            /\ {x, cur} \subseteq used
            /\ {x, cur} \subseteq LiveSubnets
                 => subnets[x].network = subnets[cur].network
        /\ pc[r] \in CreatePC \cup UpdatePC \cup DeletePC =>
            /\ x \in {arg[r].net} \cup used
            /\ x \in Net => x = arg[r].net
            /\ x \in LiveSubnets => subnets[x].network = arg[r].net
        /\ pc[r] \in {"netDelete", "netCheck", "netDeleteTx", "netCascade"}
            => arg[r].op = "DeleteNetwork"

TenantInv == \A r \in Req : TenantAt(r)

\* The children of a parent that is about to be deleted have come since its
\* deletion looked for them, and so have those it leaves behind.
RaceInv ==
    /\ raced \subseteq Subnet
    /\ \A r \in Req : Deleting(r) => listByParent(arg[r].id) \subseteq raced
    /\ OrphanedOnlyByRace

\* Every part, with the properties it is there for.
IndInv ==
    /\ TypeOK /\ ControlInv /\ SpentInv /\ TenantInv /\ RaceInv
    /\ \A r \in Req : RequestInv(r)
    /\ SiblingsDisjoint /\ ChildInsideParent /\ NetworkColumnRight

-----------------------------------------------------------------------------
\* The plan a table of subnets stands for.
PlanOf ==
    [s \in Subnet |->
        IF subnets[s] = Nil THEN Nil
        ELSE [network |-> subnets[s].network, name |-> subnets[s].name,
              cidr |-> subnets[s].cidr, parent |-> subnets[s].parent]]

Plan == INSTANCE AddressPlan WITH plan <- PlanOf, spent <- used \cap Subnet

\* No entry of the plan is mistaken for "no entry".
ASSUME EntryAssumption == Nil \notin Plan!Entry

\* The interleaved requests implement the atomic plan: each commit is one
\* allocation or withdrawal that is right for the plan at that moment.
ImplementsPlan == Plan!PlanSpec
=============================================================================
