-------------------------- MODULE MachineInvariant --------------------------
(***************************************************************************)
(* The inductive invariant of MachineIdentity, in named parts.  The run    *)
(* checks it on a small instance; MachineProofs proves it.                 *)
(***************************************************************************)
EXTENDS MachineIdentity

BelowOps == {"CreateProvider", "UpdateProvider", "DeleteProvider", "CreateMachine",
             "UpdateMachine", "DeleteMachine", "CreateKey", "RevokeKey"}

\* What the label l of a request says of its arguments q and its locals x.
ControlAt(l, q, x) ==
    /\ l = "poolRead" => q.op = "UpdatePool"
    /\ l \in {"poolSlug", "poolNames", "poolWrite"} =>
         x.id \in Pool \cup {Nil} /\ x.row \in PoolRow
    /\ l = "poolDelete" => q.op = "DeletePool"
    /\ l = "getPool" =>
         /\ q.op \in BelowOps /\ x.id = Nil
         /\ q.op = "CreateProvider" => x.row \in ProviderRow
         /\ q.op = "CreateMachine" => x.row \in MachineRow /\ x.row.provider = q.provider
    /\ l = "getProvider" => q.op \in {"UpdateProvider", "DeleteProvider"}
    /\ l = "provDelete" => q.op = "DeleteProvider"
    /\ l \in {"provName", "provIssuer", "provWrite"} =>
         x.id \in Provider \cup {Nil} /\ x.row \in ProviderRow
    /\ l = "getMachine" => q.op \in {"UpdateMachine", "DeleteMachine", "CreateKey", "RevokeKey"}
    /\ l = "machProvider" => x.row.provider \in Provider
    /\ l \in {"machProvider", "machName", "machWrite"} =>
         x.id \in Machine \cup {Nil} /\ x.row \in MachineRow
    /\ l = "machDelete" => q.op = "DeleteMachine"
    /\ l = "keyInsert" => q.op = "CreateKey"
    /\ l \in {"keyRead", "keyRevoke"} => q.op = "RevokeKey"
    /\ l \in AuthKeyPC => q.op = "AuthKey"
    /\ l \in {"keyMachine", "keyPool", "keyTouch"} => x.id \in Machine
    /\ l \in {"keyPool", "keyTouch"} => x.row \in MachineRow
    /\ l \in AuthJwtPC => q.op = "AuthJwt"
    /\ l = "jwtMachines" => x.id \in Provider
    /\ l = "jwtProviders" => x.matches = {}

ControlInv == \A r \in Req : ControlAt(pc[r], arg[r], loc[r])

\* A row has a uuid that was given out.
RowsUsed == LivePools \cup LiveProviders \cup LiveMachines \cup LiveKeys \subseteq used

\* The provider v was seen in pool p, and stays there as long as it exists.
SeenIn(v, p) == v \in used /\ (providers[v] # Nil => providers[v].pool = p)

\* At the label l with the locals x, a request about to write a provider, or a
\* machine with a provider, has seen that one in the pool of the row it writes.
ProviderAt(l, x) ==
    /\ l \in {"provName", "provIssuer", "provWrite"} /\ x.id # Nil =>
         SeenIn(x.id, x.row.pool)
    /\ l \in {"machName", "machWrite"} /\ x.row.provider # Nil =>
         SeenIn(x.row.provider, x.row.pool)

\* An authentication by the key of q has seen (s) what it has passed, and its
\* key lasts as long as the machine that it found.
KeyAt(l, q, x, s) ==
    /\ l \in {"keyMachine", "keyPool", "keyTouch"} =>
         /\ "key" \in s /\ x.id \in used
         /\ machines[x.id] # Nil => keys[q.key] # Nil /\ keys[q.key].machine = x.id
    /\ l \in {"keyPool", "keyTouch"} => "machine" \in s
    /\ l = "keyTouch" => "pool" \in s

\* The machines that a token has matched so far were entitled when they did.
JwtAt(l, x, s) ==
    l \in {"jwtVerify", "jwtMachines"} => \A m \in x.matches : <<"enabled", m>> \in s

\* What the label l of a request says of the tables and of its history s.
InformedAt(l, q, x, s) == ProviderAt(l, x) /\ KeyAt(l, q, x, s) /\ JwtAt(l, x, s)

\* What holds now has been seen.
SeenAt(r) ==
    /\ pc[r] = "idle" => seen[r] = {}
    /\ pc[r] # "idle" => Facts(r) \subseteq seen[r]

KnowledgeInv ==
    \A r \in Req : SeenAt(r) /\ InformedAt(pc[r], arg[r], loc[r], seen[r])

TablesInv == RowsUsed /\ NothingOutlivesItsPool /\ ProviderOfSamePool /\ PoolMembersUnique

\* Every part, with the properties it is there for.
MachineInv == TypeOK /\ ControlInv /\ TablesInv /\ KnowledgeInv
=============================================================================
