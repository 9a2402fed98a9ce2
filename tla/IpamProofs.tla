----------------------------- MODULE IpamProofs -----------------------------
(***************************************************************************)
(* Proofs about Ipam for every number of requests, networks and subnets,   *)
(* every address width and both ways of serialising writers.               *)
(***************************************************************************)
EXTENDS IpamInvariant, IPv4Proofs

-----------------------------------------------------------------------------
(* Type correctness, with the control invariant it needs.                  *)

\* The empty database and the idle processes have their types.
LEMMA TypeInit == Init => TypeOK /\ ControlInv
<1> SUFFICES ASSUME Init PROVE TypeOK /\ ControlInv
  OBVIOUS
<1> USE DEF Init
<1>1. StoreTypeOK
  BY SeedAssumption DEF StoreTypeOK, Uuid
<1>2. NoLocals \in Locals
  BY DEF NoLocals, Locals
<1>3. ApiTypeOK
  BY <1>2 DEF ApiTypeOK
<1>4. ControlInv
  BY DEF ControlInv, ControlAt, SubnetPC, CreatePC, UpdatePC, DeletePC, NetworkPC
<1>5. QED
  BY <1>1, <1>3, <1>4 DEF TypeOK

\* Giving locks back keeps the types of the locks.
LEMMA ReleaseType ==
    ASSUME StoreTypeOK, NEW r \in Req, Release(r)
    PROVE  writeMu' \in Req \cup {Nil} /\ rowLock' \in [Uuid -> Req \cup {Nil}]
BY DEF StoreTypeOK, Release

\* An answer keeps the types of everything but the tables.
LEMMA AnswerType ==
    ASSUME TypeOK, ControlInv, NEW r \in Req, NEW out, Answer(r, out)
    PROVE  /\ writeMu' \in Req \cup {Nil}
           /\ rowLock' \in [Uuid -> Req \cup {Nil}]
           /\ ApiTypeOK'
           /\ ControlInv'
<1>1. writeMu' \in Req \cup {Nil} /\ rowLock' \in [Uuid -> Req \cup {Nil}]
  BY ReleaseType DEF TypeOK, Answer
<1>2. NoLocals \in Locals
  BY DEF NoLocals, Locals
<1>3. ApiTypeOK'
  BY <1>2 DEF TypeOK, ApiTypeOK, Answer
<1>4. ControlInv'
  BY DEF TypeOK, ApiTypeOK, Answer, ControlInv, ControlAt, SubnetPC, CreatePC, UpdatePC,
         DeletePC, NetworkPC
<1>5. QED
  BY <1>1, <1>3, <1>4

\* A request that fails and rolls its transaction back keeps the types.
LEMMA RefuseType ==
    ASSUME TypeOK, ControlInv, NEW r \in Req, NEW err, Refuse(r, err)
    PROVE  TypeOK' /\ ControlInv'
BY AnswerType DEF Refuse, tables, TypeOK, StoreTypeOK

\* Reading a request (handler/subnet.go, handler/network.go) keeps the types.
LEMMA ReceiveType ==
    ASSUME TypeOK, ControlInv, NEW r \in Req, Receive(r)
    PROVE  TypeOK' /\ ControlInv'
<1>1. PICK q \in Requests :
        /\ arg' = [arg EXCEPT ![r] = q]
        /\ pc' = [pc EXCEPT ![r] = EntryPoint(q)]
        /\ loc' = [loc EXCEPT ![r].cursor = IF q.id \in Subnet THEN q.id ELSE Nil]
  BY DEF Receive
<1>2. /\ q # Nil
      /\ q.op = "CreateSubnet" => q.id \in Subnet \cup {q.net} /\ q.net \in Net
      /\ q.op \in {"UpdateSubnet", "DeleteSubnet"} => q.id \in Subnet
      /\ q.op \in {"UpdateNetwork", "DeleteNetwork"} => q.id \in Net
      /\ q.op \in SubnetOps \cup NetworkOps
  BY RequestsAssumption DEF Args, SubnetOps
<1>3. \/ EntryPoint(q) = "context" /\ q.op \in SubnetOps /\ q.id \in Uuid
      \/ EntryPoint(q) = "ensure" /\ q.op \in SubnetOps /\ q.id \in Subnet
      \/ EntryPoint(q) = "netName"
      \/ EntryPoint(q) \in {"netRead", "netDelete"} /\ q.id \in Net
  BY <1>2, UuidAssumption DEF EntryPoint, SubnetOps, NetworkOps, Uuid
<1>4. StoreTypeOK'
  BY DEF Receive, tables, locks, TypeOK, StoreTypeOK
<1>5. ApiTypeOK'
  BY <1>1, <1>2, <1>3 DEF TypeOK, ApiTypeOK, Locals, SubnetPC, CreatePC, NetworkPC
<1>6. ControlInv'
  BY <1>1, <1>2, <1>3 DEF TypeOK, ApiTypeOK, Locals, ControlInv, ControlAt, SubnetPC, CreatePC,
     UpdatePC, DeletePC, NetworkPC
<1>7. QED
  BY <1>4, <1>5 , <1>6 DEF TypeOK

\* The locals and arguments of a request in flight have their types.
LEMMA InFlight ==
    ASSUME TypeOK, NEW r \in Req, pc[r] # "idle"
    PROVE  arg[r] \in Requests /\ arg[r] \in Args /\ loc[r] \in Locals
BY RequestsAssumption DEF TypeOK, ApiTypeOK

\* A request that goes on at label l with locals x, when l, its arguments and x
\* fit together, keeps the types of the requests.
LEMMA GotoType ==
    ASSUME TypeOK, ControlInv, NEW r \in Req, pc[r] # "idle",
           NEW l \in SubnetPC \cup NetworkPC, NEW x \in Locals,
           ControlAt(l, arg[r], x), Goto(r, l), loc' = [loc EXCEPT ![r] = x]
    PROVE  ApiTypeOK' /\ ControlInv'
<1>1. l # "idle"
  BY DEF SubnetPC, NetworkPC, CreatePC, UpdatePC, DeletePC
<1>2. /\ pc' \in [Req -> {"idle"} \cup SubnetPC \cup NetworkPC]
      /\ arg' \in [Req -> Requests \cup {Nil}]
      /\ loc' \in [Req -> Locals]
      /\ \A p \in Req : pc'[p] = "idle" <=> arg'[p] = Nil
  BY <1>1 DEF TypeOK, ApiTypeOK, Goto
<1>3. \A p \in Req : ControlAt(pc'[p], arg'[p], loc'[p])
  BY DEF ControlInv, Goto, TypeOK, ApiTypeOK
<1>4. QED
  BY <1>2, <1>3 DEF ApiTypeOK, ControlInv

\* Climb, the common end of resolveParentContext and resolveNetworkUUID.
LEMMA ClimbType ==
    ASSUME TypeOK, ControlInv, NEW r \in Req, pc[r] \in {"context", "root"},
           NEW p \in Uuid, NEW prefix \in SUBSET Prefix, Climb(r, p, prefix),
           arg[r].id \in Subnet \/ p \in Net
    PROVE  TypeOK' /\ ControlInv'
<1>1. arg[r].op \in SubnetOps /\ arg[r].id \in Uuid /\ loc[r] \in Locals
  BY DEF ControlInv, ControlAt, SubnetPC, CreatePC, TypeOK, ApiTypeOK
<1>2. StoreTypeOK'
  BY DEF Climb, TypeOK, StoreTypeOK, tables, locks
<1>3. CASE p \in Net
  <2> DEFINE x == [loc[r] EXCEPT !.cursor = Nil, !.network = p, !.prefix = prefix]
  <2>1. x \in Locals
    BY <1>1, <1>3 DEF Locals
  <2>2. Goto(r, "begin") /\ loc' = [loc EXCEPT ![r] = x]
    BY <1>3 DEF Climb
  <2>3. ControlAt("begin", arg[r], x)
    BY <1>1 DEF ControlAt, SubnetPC, CreatePC, UpdatePC, DeletePC, NetworkPC
  <2>4. "begin" \in SubnetPC \cup NetworkPC /\ pc[r] # "idle"
    BY DEF SubnetPC, CreatePC
  <2> HIDE DEF x
  <2>5. QED
    BY <1>2, <2>1, <2>2, <2>3, <2>4, GotoType DEF TypeOK
<1>4. CASE p \notin Net
  <2> DEFINE x == [loc[r] EXCEPT !.cursor = p, !.prefix = prefix]
  <2>1. x \in Locals /\ x.cursor = p /\ p \in Subnet
    BY <1>1, <1>4 DEF Locals, Uuid
  <2>2. Goto(r, "root") /\ loc' = [loc EXCEPT ![r] = x]
    BY <1>4 DEF Climb
  <2> HIDE DEF x
  <2>3. ControlAt("root", arg[r], x)
    BY <1>1, <1>4, <2>1 DEF ControlAt, SubnetPC, CreatePC, UpdatePC, DeletePC, NetworkPC
  <2>4. "root" \in SubnetPC \cup NetworkPC /\ pc[r] # "idle"
    BY DEF SubnetPC, CreatePC
  <2>5. QED
    BY <1>2, <2>1, <2>2, <2>3, <2>4, GotoType DEF TypeOK
<1>5. QED
  BY <1>3, <1>4

\* The handler's check that the subnet belongs to the network keeps the types.
LEMMA EnsureType ==
    ASSUME TypeOK, ControlInv, NEW r \in Req, EnsureInNetwork(r)
    PROVE  TypeOK' /\ ControlInv'
<1>1. /\ arg[r].op \in SubnetOps
      /\ arg[r].id \in Subnet
      /\ loc[r].cursor \in Subnet
      /\ pc[r] = "ensure"
  BY DEF EnsureInNetwork, ControlInv, ControlAt, SubnetPC
<1>2. AfterEnsure(arg[r].op) \in {"context", "update", "delete"}
  BY <1>1 DEF AfterEnsure, SubnetOps
<1>3. CASE \E err : Refuse(r, err)
  BY <1>3, RefuseType
<1>4. CASE \E l \in {"ensure", "context", "update", "delete"}, c \in Subnet \cup {Nil} :
              /\ Goto(r, l)
              /\ l = "ensure" => c \in Subnet
              /\ loc' = [loc EXCEPT ![r].cursor = c]
              /\ UNCHANGED <<tables, locks>>
  <2>1. PICK l \in {"ensure", "context", "update", "delete"}, c \in Subnet \cup {Nil} :
              /\ Goto(r, l)
              /\ l = "ensure" => c \in Subnet
              /\ loc' = [loc EXCEPT ![r].cursor = c]
              /\ UNCHANGED <<tables, locks>>
    BY <1>4
  <2>2. StoreTypeOK'
    BY <2>1 DEF TypeOK, StoreTypeOK, tables, locks
  <2> DEFINE x == [loc[r] EXCEPT !.cursor = c]
  <2>3. x \in Locals /\ x.cursor = c
    BY DEF TypeOK, ApiTypeOK, Locals
  <2>4. loc' = [loc EXCEPT ![r] = x]
    BY <2>1
  <2>5. l \in SubnetPC \cup NetworkPC /\ pc[r] # "idle"
    BY <1>1 DEF SubnetPC, CreatePC, UpdatePC, DeletePC
  <2> HIDE DEF x
  <2>6. ControlAt(l, arg[r], x)
    BY <1>1, <2>1, <2>3 DEF ControlAt, SubnetPC, CreatePC, UpdatePC, DeletePC, NetworkPC, Uuid
  <2>7. QED
    BY <2>1, <2>2, <2>3, <2>4, <2>5, <2>6, GotoType DEF TypeOK
<1>5. QED
  BY <1>1, <1>2, <1>3, <1>4 DEF EnsureInNetwork

\* The prefix of a stored row is the stored prefix.
LEMMA RowPrefixIsCidr ==
    ASSUME NEW row \in SubnetRow
    PROVE  row.cidr \in Prefix /\ RowPrefix(row) = row.cidr
<1>1. row.cidr \in Prefix
  BY DEF SubnetRow
<1>2. ParseIPv4Prefix(row.cidr.addr, row.cidr.len) = Ok(row.cidr)
  BY <1>1, ParseStoredPrefix
<1>3. QED
  BY <1>1, <1>2 DEF RowPrefix, Ok

\* Loading the parent row or the network row of a creation keeps the types.
LEMMA ContextType ==
    ASSUME TypeOK, ControlInv, NEW r \in Req,
           ResolveParentContext(r) \/ ResolveNetworkUUID(r)
    PROVE  TypeOK' /\ ControlInv'
<1>1. CASE \E err : Refuse(r, err)
  BY <1>1, RefuseType
<1>2. CASE ResolveParentContext(r) /\ ~\E err : Refuse(r, err)
  <2>1. arg[r].id \in Uuid /\ pc[r] = "context"
    BY <1>2 DEF ResolveParentContext, ControlInv, ControlAt, CreatePC
  <2>2. CASE arg[r].id \in Net
    BY <1>2, <2>1, <2>2, ClimbType DEF ResolveParentContext
  <2>3. CASE arg[r].id \notin Net
    <3>1. subnets[arg[r].id] \in SubnetRow /\ arg[r].id \in Subnet
      BY <1>2, <2>1, <2>3 DEF ResolveParentContext, Exists, TypeOK, StoreTypeOK, Uuid
    <3>2. subnets[arg[r].id].parent \in Uuid
      BY <3>1 DEF SubnetRow
    <3>3. {RowPrefix(subnets[arg[r].id])} \in SUBSET Prefix
      BY <3>1, RowPrefixIsCidr
    <3>4. QED
      BY <1>2, <2>1, <2>3, <3>1, <3>2, <3>3, ClimbType DEF ResolveParentContext
  <2>4. QED
    BY <2>2, <2>3
<1>3. CASE ResolveNetworkUUID(r) /\ ~\E err : Refuse(r, err)
  <2>1. arg[r].id \in Subnet /\ pc[r] = "root" /\ loc[r].cursor \in Subnet
    BY <1>3 DEF ResolveNetworkUUID, ControlInv, ControlAt
  <2>2. subnets[loc[r].cursor].parent \in Uuid
    BY <1>3, <2>1 DEF ResolveNetworkUUID, TypeOK, StoreTypeOK, SubnetRow
  <2>3. loc[r].prefix \in SUBSET Prefix
    BY <2>1, InFlight DEF Locals
  <2>4. QED
    BY <1>3, <2>1, <2>2, <2>3, ClimbType DEF ResolveNetworkUUID
<1>4. QED
  BY <1>1, <1>2, <1>3

\* A request that goes on with its locals as they are.
LEMMA StayType ==
    ASSUME TypeOK, ControlInv, NEW r \in Req, pc[r] # "idle",
           NEW l \in SubnetPC \cup NetworkPC, ControlAt(l, arg[r], loc[r]),
           Goto(r, l), UNCHANGED loc
    PROVE  ApiTypeOK' /\ ControlInv'
<1>1. loc' = [loc EXCEPT ![r] = loc[r]] /\ loc[r] \in Locals
  BY DEF TypeOK, ApiTypeOK
<1>2. QED
  BY <1>1, GotoType

\* The first locks of a write transaction have their types.
LEMMA HoldType ==
    ASSUME TypeOK, NEW r \in Req, NEW x \in Uuid, HoldRow(r, x)
    PROVE  writeMu' \in Req \cup {Nil} /\ rowLock' \in [Uuid -> Req \cup {Nil}]
BY DEF TypeOK, StoreTypeOK, HoldRow, locks

\* The two steps that start a transaction with a row locked.
LEMMA LockRowType ==
    ASSUME TypeOK, ControlInv, NEW r \in Req,
           LockParentForCreate(r) \/ LockNetworkForDelete(r)
    PROVE  TypeOK' /\ ControlInv'
<1>1. CASE \E err : Refuse(r, err)
  BY <1>1, RefuseType
<1>2. CASE LockParentForCreate(r) /\ ~\E err : Refuse(r, err)
  <2>1. pc[r] = "begin" /\ arg[r].id \in Uuid /\ arg[r].op \in SubnetOps
    BY <1>2 DEF LockParentForCreate, ControlInv, ControlAt, CreatePC, SubnetPC
  <2>2. HoldRow(r, arg[r].id) /\ Goto(r, "locked") /\ UNCHANGED <<tables, loc>>
    BY <1>2 DEF LockParentForCreate
  <2>3. StoreTypeOK'
    BY <2>1, <2>2, HoldType DEF TypeOK, StoreTypeOK, tables
  <2>4. "locked" \in SubnetPC \cup NetworkPC /\ ControlAt("locked", arg[r], loc[r])
    BY <2>1 DEF ControlAt, SubnetPC, CreatePC, UpdatePC, DeletePC, NetworkPC
  <2>5. QED
    BY <2>1, <2>2, <2>3, <2>4, StayType DEF TypeOK
<1>3. CASE LockNetworkForDelete(r) /\ ~\E err : Refuse(r, err)
  <2>1. pc[r] = "netDeleteTx" /\ arg[r].id \in Net
    BY <1>3 DEF LockNetworkForDelete, ControlInv, ControlAt, NetworkPC
  <2>2. HoldRow(r, arg[r].id) /\ Goto(r, "netCascade") /\ UNCHANGED <<tables, loc>>
    BY <1>3 DEF LockNetworkForDelete
  <2>3. StoreTypeOK'
    BY <2>1, <2>2, HoldType DEF TypeOK, StoreTypeOK, tables, Uuid
  <2>4. "netCascade" \in SubnetPC \cup NetworkPC /\ ControlAt("netCascade", arg[r], loc[r])
    BY <2>1 DEF ControlAt, SubnetPC, CreatePC, UpdatePC, DeletePC, NetworkPC
  <2>5. QED
    BY <2>1, <2>2, <2>3, <2>4, StayType DEF TypeOK
<1>4. QED
  BY <1>1, <1>2, <1>3

\* The steps that only look something up and go on.
LEMMA LookUpType ==
    ASSUME TypeOK, ControlInv, NEW r \in Req,
           \/ CheckName(r) \/ ReadForDelete(r) \/ CheckChildren(r)
           \/ CheckNetworkName(r) \/ ReadNetwork(r) \/ CheckNewName(r)
           \/ ReadNetworkForDelete(r) \/ CheckNetworkChildren(r)
    PROVE  TypeOK' /\ ControlInv'
<1>1. CASE \E err : Refuse(r, err)
  BY <1>1, RefuseType
<1>2. CASE ~\E err : Refuse(r, err)
  <2>1. pc[r] # "idle" /\ UNCHANGED <<tables, locks, loc>>
    BY <1>2 DEF CheckName, ReadForDelete, CheckChildren, CheckNetworkName, ReadNetwork,
       CheckNewName, ReadNetworkForDelete, CheckNetworkChildren
  <2>2. arg[r].desc \in Text \cup {BadTags}
    BY <2>1, InFlight DEF Args
  <2>3. \E l \in SubnetPC \cup NetworkPC : Goto(r, l) /\ ControlAt(l, arg[r], loc[r])
    <3>1. CASE CheckName(r)
      <4>1. pc[r] = "locked" /\ Goto(r, "named")
        BY <1>2, <3>1 DEF CheckName
      <4>2. ControlAt("named", arg[r], loc[r]) /\ "named" \in SubnetPC
        BY <4>1 DEF ControlInv, ControlAt, SubnetPC, CreatePC, UpdatePC, DeletePC, NetworkPC
      <4>3. QED
        BY <4>1, <4>2
    <3>2. CASE ReadForDelete(r) \/ CheckChildren(r)
      <4>1. PICK l \in {"deleteCheck", "deleteTx"} : Goto(r, l)
        BY <1>2, <3>2 DEF ReadForDelete, CheckChildren
      <4>2. pc[r] \in DeletePC
        BY <3>2 DEF ReadForDelete, CheckChildren, DeletePC
      <4>3. ControlAt(l, arg[r], loc[r]) /\ l \in SubnetPC
        BY <4>2 DEF ControlInv, ControlAt, SubnetPC, CreatePC, UpdatePC, DeletePC, NetworkPC
      <4>4. QED
        BY <4>1, <4>3
    <3>3. CASE CheckNetworkName(r)
      <4>1. Goto(r, "netInsert") /\ NetworkInputError(arg[r]) = "none"
        BY <1>2, <3>3 DEF CheckNetworkName
      <4>2. arg[r].desc \in Text
        BY <2>2, <4>1 DEF NetworkInputError
      <4>3. ControlAt("netInsert", arg[r], loc[r]) /\ "netInsert" \in NetworkPC
        BY <4>2 DEF ControlAt, SubnetPC, CreatePC, UpdatePC, DeletePC, NetworkPC
      <4>4. QED
        BY <4>1, <4>3
    <3>4. CASE ReadNetwork(r)
      <4>1. /\ pc[r] = "netRead" /\ NetworkInputError(arg[r]) = "none"
            /\ Goto(r, "netRename") \/ Goto(r, "netWrite")
        BY <1>2, <3>4 DEF ReadNetwork
      <4>2. arg[r].desc \in Text /\ arg[r].id \in Net
        BY <2>2, <4>1 DEF NetworkInputError, ControlInv, ControlAt, NetworkPC
      <4>3. \A l \in {"netRename", "netWrite"} :
                ControlAt(l, arg[r], loc[r]) /\ l \in NetworkPC
        BY <4>2 DEF ControlAt, SubnetPC, CreatePC, UpdatePC, DeletePC, NetworkPC
      <4>4. QED
        BY <4>1, <4>3
    <3>5. CASE CheckNewName(r)
      <4>1. pc[r] = "netRename" /\ Goto(r, "netWrite")
        BY <1>2, <3>5 DEF CheckNewName
      <4>2. ControlAt("netWrite", arg[r], loc[r]) /\ "netWrite" \in NetworkPC
        BY <4>1 DEF ControlInv, ControlAt, SubnetPC, CreatePC, UpdatePC, DeletePC, NetworkPC
      <4>3. QED
        BY <4>1, <4>2
    <3>6. CASE ReadNetworkForDelete(r) \/ CheckNetworkChildren(r)
      <4>1. PICK l \in {"netCheck", "netDeleteTx"} : Goto(r, l)
        BY <1>2, <3>6 DEF ReadNetworkForDelete, CheckNetworkChildren
      <4>2. pc[r] \in {"netDelete", "netCheck"}
        BY <3>6 DEF ReadNetworkForDelete, CheckNetworkChildren
      <4>3. ControlAt(l, arg[r], loc[r]) /\ l \in NetworkPC
        BY <4>2 DEF ControlInv, ControlAt, SubnetPC, CreatePC, UpdatePC, DeletePC, NetworkPC
      <4>4. QED
        BY <4>1, <4>3
    <3>7. QED
      BY <3>1, <3>2, <3>3, <3>4, <3>5, <3>6
  <2>4. ApiTypeOK' /\ ControlInv'
    BY <2>1, <2>3, StayType
  <2>5. StoreTypeOK'
    BY <2>1 DEF TypeOK, StoreTypeOK, tables, locks
  <2>6. QED
    BY <2>4, <2>5 DEF TypeOK
<1>3. QED
  BY <1>1, <1>2

\* A candidate without an error is a prefix.
LEMMA CandidateIsPrefix ==
    ASSUME NEW q, NEW prefix, NEW siblings, Candidate(q, prefix, siblings).err = "none"
    PROVE  Candidate(q, prefix, siblings).prefix \in Prefix
<1>1. CASE q.addr # Nil
  BY <1>1, ParseGivesPrefix DEF Candidate
<1>2. CASE q.addr = Nil /\ q.id \in Net
  BY <1>2 DEF Candidate, Err
<1>3. CASE q.addr = Nil /\ q.id \notin Net
  <2> DEFINE p == CHOOSE p \in prefix : TRUE
  <2>1. Candidate(q, prefix, siblings) = FindFreeIPv4Block(p, q.len, siblings)
    BY <1>3 DEF Candidate
  <2> HIDE DEF p
  <2>2. FindFreeIPv4Block(p, q.len, siblings).prefix \in FreeBlocks(p, q.len, siblings)
    BY <2>1, FindFreeGivesFree
  <2>3. QED
    BY <2>1, <2>2 DEF FreeBlocks
<1>4. QED
  BY <1>1, <1>2, <1>3

\* What ChooseBlock leaves behind when it goes on: a prefix that is clear of
\* the siblings and inside the prefix of the parent.
LEMMA ChosenBlock ==
    ASSUME NEW r \in Req, ChooseBlock(r), ~\E err : Refuse(r, err)
    PROVE  \E b \in Prefix :
              /\ pc[r] = "named"
              /\ Goto(r, "chosen")
              /\ loc' = [loc EXCEPT ![r].block = b]
              /\ UNCHANGED <<tables, locks>>
              /\ \A p \in loc[r].prefix : PrefixContains(p, b)
              /\ \A s \in listByParent(arg[r].id) : ~Overlaps(b, RowPrefix(subnets[s]))
<1> DEFINE sib  == subnetsToPrefixes(listByParent(arg[r].id))
           cand == Candidate(arg[r], loc[r].prefix, sib)
<1>1. /\ pc[r] = "named"
      /\ cand.err = "none"
      /\ ValidateIPv4Subnet(cand.prefix, loc[r].prefix, sib) = "none"
      /\ Goto(r, "chosen")
      /\ loc' = [loc EXCEPT ![r].block = cand.prefix]
      /\ UNCHANGED <<tables, locks>>
  BY DEF ChooseBlock
<1>2. cand.prefix \in Prefix
  BY <1>1, CandidateIsPrefix
<1> HIDE DEF cand
<1>3. /\ \A p \in loc[r].prefix : PrefixContains(p, cand.prefix)
      /\ \A s \in sib : ~Overlaps(cand.prefix, s)
  BY <1>1, ValidateSound
<1>4. \A s \in listByParent(arg[r].id) : RowPrefix(subnets[s]) \in sib
  BY DEF subnetsToPrefixes
<1>5. QED
  BY <1>1, <1>2, <1>3, <1>4

\* Choosing the block of a creation, named or found free, keeps the types.
LEMMA ChooseType ==
    ASSUME TypeOK, ControlInv, NEW r \in Req, ChooseBlock(r)
    PROVE  TypeOK' /\ ControlInv'
<1>1. CASE \E err : Refuse(r, err)
  BY <1>1, RefuseType
<1>2. CASE ~\E err : Refuse(r, err)
  <2>1. PICK b \in Prefix :
          /\ pc[r] = "named"
          /\ Goto(r, "chosen")
          /\ loc' = [loc EXCEPT ![r].block = b]
          /\ UNCHANGED <<tables, locks>>
    BY <1>2, ChosenBlock
  <2> DEFINE x == [loc[r] EXCEPT !.block = b]
  <2>2. loc[r] \in Locals /\ loc \in [Req -> Locals]
    BY DEF TypeOK, ApiTypeOK
  <2>3. x \in Locals /\ x.block = b /\ loc' = [loc EXCEPT ![r] = x]
    BY <2>1, <2>2 DEF Locals
  <2> HIDE DEF x
  <2>4. ControlAt("chosen", arg[r], x)
    BY <2>1, <2>3 DEF ControlInv, ControlAt, SubnetPC, CreatePC, UpdatePC, DeletePC, NetworkPC
  <2>5. "chosen" \in SubnetPC \cup NetworkPC /\ pc[r] # "idle"
    BY <2>1 DEF SubnetPC, CreatePC
  <2>6. ApiTypeOK' /\ ControlInv'
    BY <2>1, <2>3, <2>4, <2>5, GotoType
  <2>7. QED
    BY <2>1, <2>6 DEF TypeOK, StoreTypeOK, tables, locks
<1>3. QED
  BY <1>1, <1>2

\* The network column of a parent is a network or, without a parent, Nil.
LEMMA NetworkColumnType ==
    ASSUME StoreTypeOK, NEW p \in Uuid
    PROVE  NetworkColumn(p) \in Net \cup {Nil}
BY DEF StoreTypeOK, NetworkColumn, SubnetRow, Uuid

\* A statement that replaces one row and answers keeps the types.
LEMMA CommitType ==
    ASSUME TypeOK, ControlInv, NEW r \in Req, Answer(r, "ok"),
           networks' \in [Net -> NetworkRow \cup {Nil}],
           subnets' \in [Subnet -> SubnetRow \cup {Nil}],
           used' \in SUBSET Uuid
    PROVE  TypeOK' /\ ControlInv'
BY AnswerType DEF TypeOK, StoreTypeOK

\* What an insert that commits does to the tables.
LEMMA InsertedRow ==
    ASSUME TypeOK, ControlInv, NEW r \in Req, InsertSubnet(r), ~\E err : Refuse(r, err)
    PROVE  /\ pc[r] = "chosen" /\ arg[r].id \in Uuid
           /\ NetworkColumn(arg[r].id) \in Net
           /\ networks[NetworkColumn(arg[r].id)] # Nil
           /\ SubnetsNamed(NetworkColumn(arg[r].id), arg[r].name) = {}
           /\ UNCHANGED networks
           /\ Answer(r, "ok")
           /\ \E id \in Subnet \ used, row \in SubnetRow :
                /\ row = [network |-> NetworkColumn(arg[r].id), name |-> arg[r].name,
                          desc |-> arg[r].desc, cidr |-> loc[r].block,
                          parent |-> arg[r].id]
                /\ subnets' = [subnets EXCEPT ![id] = row]
                /\ used' = used \cup {id}
<1> DEFINE net == NetworkColumn(arg[r].id)
<1>1. /\ pc[r] = "chosen" /\ net # Nil
      /\ networks[net] # Nil /\ SubnetsNamed(net, arg[r].name) = {}
      /\ UNCHANGED networks /\ Answer(r, "ok")
  BY DEF InsertSubnet, ViolatesSchema
<1>2. PICK id \in Subnet \ used :
        /\ subnets' = [subnets EXCEPT ![id] =
             [network |-> net, name |-> arg[r].name, desc |-> arg[r].desc,
              cidr |-> loc[r].block, parent |-> arg[r].id]]
        /\ used' = used \cup {id}
  BY DEF InsertSubnet, ViolatesSchema
<1>3. arg[r].id \in Uuid /\ arg[r].op \in SubnetOps /\ loc[r].block \in Prefix
  BY <1>1 DEF ControlInv, ControlAt, SubnetPC, CreatePC
<1>4. arg[r].name \in Name /\ arg[r].desc \in Text
  <2>1. arg[r] \in Requests /\ arg[r] \in Args
    BY <1>1, InFlight
  <2>2. QED
    BY <2>1, <1>3, RequestsAssumption DEF Args
<1>5. net \in Net
  BY <1>1, <1>3, NetworkColumnType DEF TypeOK
<1> HIDE DEF net
<1>6. [network |-> net, name |-> arg[r].name, desc |-> arg[r].desc,
       cidr |-> loc[r].block, parent |-> arg[r].id] \in SubnetRow
  BY <1>3, <1>4, <1>5 DEF SubnetRow
<1>7. QED
  BY <1>1, <1>2, <1>3, <1>5, <1>6 DEF net

\* The INSERT of a new subnet and its commit keep the types.
LEMMA InsertType ==
    ASSUME TypeOK, ControlInv, NEW r \in Req, InsertSubnet(r)
    PROVE  TypeOK' /\ ControlInv'
<1>1. CASE \E err : Refuse(r, err)
  BY <1>1, RefuseType
<1>2. CASE ~\E err : Refuse(r, err)
  <2>1. PICK id \in Subnet \ used, row \in SubnetRow :
          /\ subnets' = [subnets EXCEPT ![id] = row]
          /\ used' = used \cup {id}
    BY <1>2, InsertedRow
  <2>2. UNCHANGED networks /\ Answer(r, "ok")
    BY <1>2, InsertedRow
  <2>3. QED
    BY <2>1, <2>2, CommitType DEF TypeOK, StoreTypeOK, Uuid
<1>3. QED
  BY <1>1, <1>2

\* The two steps of an update before its write.
LEMMA UpdateType ==
    ASSUME TypeOK, ControlInv, NEW r \in Req, ReadForUpdate(r) \/ BeginUpdate(r)
    PROVE  TypeOK' /\ ControlInv'
<1> USE DEF SubnetPC, CreatePC, UpdatePC, DeletePC, NetworkPC
<1>1. CASE \E err : Refuse(r, err)
  BY <1>1, RefuseType
<1>2. CASE ReadForUpdate(r) /\ ~\E err : Refuse(r, err)
  <2> DEFINE row == [subnets[arg[r].id] EXCEPT !.desc = arg[r].desc]
             x == [loc[r] EXCEPT !.row = row]
  <2>1. /\ pc[r] = "update" /\ subnets[arg[r].id] # Nil /\ Goto(r, "updateTx")
        /\ loc' = [loc EXCEPT ![r].row = row]
        /\ UNCHANGED <<tables, locks>>
    BY <1>2 DEF ReadForUpdate
  <2>2. arg[r].id \in Subnet /\ arg[r].op \in SubnetOps
    BY <2>1 DEF ControlInv, ControlAt
  <2>3. arg[r].desc \in Text
    <3>1. arg[r] \in Requests
      BY <2>1, InFlight
    <3>2. QED
      BY <2>2, <3>1, RequestsAssumption
  <2>4. row \in SubnetRow
    BY <2>1, <2>2, <2>3 DEF TypeOK, StoreTypeOK, SubnetRow
  <2> HIDE DEF row
  <2>5. x \in Locals /\ x.row = row /\ loc' = [loc EXCEPT ![r] = x]
    <3>1. loc[r] \in Locals /\ loc \in [Req -> Locals]
      BY DEF TypeOK, ApiTypeOK
    <3>2. QED
      BY <2>1, <2>4, <3>1 DEF Locals
  <2> HIDE DEF x
  <2>6. ControlAt("updateTx", arg[r], x)
    BY <2>2, <2>4, <2>5 DEF ControlAt
  <2>7. ApiTypeOK' /\ ControlInv'
    BY <2>1, <2>5, <2>6, GotoType
  <2>8. QED
    BY <2>1, <2>7 DEF TypeOK, StoreTypeOK, tables, locks
<1>3. CASE BeginUpdate(r) /\ ~\E err : Refuse(r, err)
  <2> DEFINE net == NetworkColumn(loc[r].row.parent)
             x == [loc[r] EXCEPT !.network = net]
  <2>1. /\ pc[r] = "updateTx" /\ net # Nil /\ HoldMutex(r) /\ Goto(r, "updateWrite")
        /\ loc' = [loc EXCEPT ![r].network = net]
        /\ UNCHANGED tables
    BY <1>3 DEF BeginUpdate
  <2>2. arg[r].id \in Subnet /\ arg[r].op \in SubnetOps /\ loc[r].row \in SubnetRow
    BY <2>1 DEF ControlInv, ControlAt
  <2>3. net \in Net
    BY <2>1, <2>2, NetworkColumnType DEF TypeOK, SubnetRow
  <2> HIDE DEF net
  <2>4. x \in Locals /\ x.network = net /\ x.row = loc[r].row /\ loc' = [loc EXCEPT ![r] = x]
    BY <2>1, <2>3 DEF TypeOK, ApiTypeOK, Locals
  <2> HIDE DEF x
  <2>5. ControlAt("updateWrite", arg[r], x)
    BY <2>2, <2>3, <2>4 DEF ControlAt
  <2>6. ApiTypeOK' /\ ControlInv'
    BY <2>1, <2>4, <2>5, GotoType
  <2>7. QED
    BY <2>1, <2>6 DEF HoldMutex, TypeOK, StoreTypeOK, tables
<1>4. QED
  BY <1>1, <1>2, <1>3

\* What the write of an update does when it commits.
LEMMA WrittenRowType ==
    ASSUME TypeOK, ControlInv, NEW r \in Req, WriteUpdate(r), ~\E err : Refuse(r, err)
    PROVE  /\ pc[r] = "updateWrite" /\ arg[r].id \in Subnet
           /\ subnets[arg[r].id] # Nil
           /\ WrittenRow(r) \in SubnetRow
           /\ subnets' = [subnets EXCEPT ![arg[r].id] = WrittenRow(r)]
           /\ UNCHANGED <<networks, used>>
           /\ Answer(r, "ok")
<1>1. /\ pc[r] = "updateWrite" /\ subnets[arg[r].id] # Nil
      /\ subnets' = [subnets EXCEPT ![arg[r].id] = WrittenRow(r)]
      /\ UNCHANGED <<networks, used>>
      /\ Answer(r, "ok")
  BY DEF WriteUpdate
<1>2. arg[r].id \in Subnet /\ loc[r].row \in SubnetRow /\ loc[r].network \in Net
  BY <1>1 DEF ControlInv, ControlAt, UpdatePC
<1>3. WrittenRow(r) \in SubnetRow
  BY <1>2 DEF WrittenRow, SubnetRow
<1>4. QED
  BY <1>1, <1>2, <1>3

\* The commits that replace or remove rows.
LEMMA WriteType ==
    ASSUME TypeOK, ControlInv, NEW r \in Req,
           \/ WriteUpdate(r) \/ DeleteSubnet(r) \/ InsertNetwork(r)
           \/ WriteNetwork(r) \/ CascadeAndCommit(r)
    PROVE  TypeOK' /\ ControlInv'
<1> USE DEF SubnetPC, CreatePC, UpdatePC, DeletePC, NetworkPC
<1>1. CASE \E err : Refuse(r, err)
  BY <1>1, RefuseType
<1>2. CASE ~\E err : Refuse(r, err)
  <2>1. CASE WriteUpdate(r)
    <3>1. /\ WrittenRow(r) \in SubnetRow
          /\ subnets' = [subnets EXCEPT ![arg[r].id] = WrittenRow(r)]
          /\ UNCHANGED <<networks, used>>
          /\ Answer(r, "ok")
      BY <1>2, <2>1, WrittenRowType
    <3>2. QED
      BY <3>1, CommitType DEF TypeOK, StoreTypeOK
  <2>2. CASE DeleteSubnet(r)
    <3>1. /\ subnets' = [subnets EXCEPT ![arg[r].id] = Nil]
          /\ UNCHANGED <<networks, used>>
          /\ Answer(r, "ok")
      BY <1>2, <2>2 DEF DeleteSubnet
    <3>2. QED
      BY <3>1, CommitType DEF TypeOK, StoreTypeOK
  <2>3. CASE InsertNetwork(r) \/ WriteNetwork(r)
    <3>1. pc[r] \in {"netInsert", "netWrite"}
      BY <2>3 DEF InsertNetwork, WriteNetwork
    <3>2. NetworkRowOf(arg[r]) \in NetworkRow
      <4>1. arg[r].desc \in Text
        BY <3>1 DEF ControlInv, ControlAt
      <4>2. arg[r].name \in Name
        BY <3>1, InFlight DEF Args
      <4>3. QED
        BY <4>1, <4>2 DEF NetworkRowOf, NetworkRow
    <3>3. CASE InsertNetwork(r)
      <4>1. PICK n \in Net \ used :
              /\ networks' = [networks EXCEPT ![n] = NetworkRowOf(arg[r])]
              /\ used' = used \cup {n}
              /\ UNCHANGED subnets
              /\ Answer(r, "ok")
        BY <1>2, <3>3 DEF InsertNetwork
      <4>2. QED
        BY <3>2, <4>1, CommitType DEF TypeOK, StoreTypeOK, Uuid
    <3>4. CASE WriteNetwork(r)
      <4>1. /\ networks' = [networks EXCEPT ![arg[r].id] = NetworkRowOf(arg[r])]
            /\ UNCHANGED <<subnets, used>>
            /\ Answer(r, "ok")
        BY <1>2, <3>4 DEF WriteNetwork
      <4>2. QED
        BY <3>2, <4>1, CommitType DEF TypeOK, StoreTypeOK
    <3>5. QED
      BY <2>3, <3>3, <3>4
  <2>4. CASE CascadeAndCommit(r)
    <3>1. /\ networks' = [networks EXCEPT ![arg[r].id] = Nil]
          /\ subnets' = [s \in Subnet |-> IF s \in Cascaded(arg[r].id) THEN Nil
                                          ELSE subnets[s]]
          /\ UNCHANGED used
          /\ Answer(r, "ok")
      BY <1>2, <2>4 DEF CascadeAndCommit
    <3>2. QED
      BY <3>1, CommitType DEF TypeOK, StoreTypeOK
  <2>5. QED
    BY <2>1, <2>2, <2>3, <2>4
<1>3. QED
  BY <1>1, <1>2

\* A step of request r.
StepOf(r) == Receive(r) \/ Step(r) \/ Fail(r)

\* Every step keeps the types, and what a label says of its request.
LEMMA StepType ==
    ASSUME TypeOK, ControlInv, NEW r \in Req, StepOf(r)
    PROVE  TypeOK' /\ ControlInv'
<1>1. CASE Receive(r)
  BY <1>1, ReceiveType
<1>2. CASE Fail(r) \/ DeadlockAbort(r)
  BY <1>2, RefuseType DEF Fail, DeadlockAbort
<1>3. CASE SubnetStep(r)
  BY <1>3, EnsureType, ContextType, LockRowType, LookUpType, ChooseType, InsertType,
     UpdateType, WriteType DEF SubnetStep
<1>4. CASE NetworkStep(r)
  BY <1>4, LockRowType, LookUpType, WriteType DEF NetworkStep
<1>5. QED
  BY <1>1, <1>2, <1>3, <1>4 DEF StepOf, Step

LEMMA NextType ==
    ASSUME TypeOK, ControlInv, [Next]_vars
    PROVE  TypeOK' /\ ControlInv'
<1>1. CASE UNCHANGED vars
  BY <1>1 DEF vars, system, tables, locks, process, TypeOK, StoreTypeOK, ApiTypeOK, ControlInv
<1>2. CASE Next
  BY <1>2, StepType DEF Next, StepOf
<1>3. QED
  BY <1>1, <1>2

\* The tables, the locks and the requests of the server keep their types
\* whatever the requests do (Store, Api, Subnets and Networks).
THEOREM TypeCorrect == Spec => []TypeOK
<1>1. Init => TypeOK /\ ControlInv
  BY TypeInit
<1>2. TypeOK /\ ControlInv /\ [Next]_vars => TypeOK' /\ ControlInv'
  BY NextType
<1>3. QED
  BY <1>1, <1>2, PTL DEF Spec

-----------------------------------------------------------------------------
(* What a step of one request leaves to the others.                        *)

\* A step of one request leaves the label, arguments and locals of every other
\* request alone.
LEMMA OthersUntouched ==
    ASSUME TypeOK, NEW r \in Req, StepOf(r), NEW p \in Req, p # r
    PROVE  pc'[p] = pc[p] /\ arg'[p] = arg[p] /\ loc'[p] = loc[p]
<1>1. /\ \A l : Goto(r, l) => pc'[p] = pc[p] /\ arg'[p] = arg[p]
      /\ \A x : loc' = [loc EXCEPT ![r] = x] => loc'[p] = loc[p]
      /\ UNCHANGED loc => loc'[p] = loc[p]
  BY DEF TypeOK, ApiTypeOK, Goto
<1>2. CASE \E out : Answer(r, out)
  BY <1>2 DEF Answer, TypeOK, ApiTypeOK
<1>3. CASE ~\E out : Answer(r, out)
  <2>1. \A err : ~Refuse(r, err)
    BY <1>3 DEF Refuse
  <2>2. CASE Receive(r)
    BY <2>2 DEF Receive, TypeOK, ApiTypeOK
  <2>3. CASE EnsureInNetwork(r)
    BY <1>1, <2>1, <2>3 DEF EnsureInNetwork
  <2>4. CASE ResolveParentContext(r) \/ ResolveNetworkUUID(r)
    BY <1>1, <2>1, <2>4 DEF ResolveParentContext, ResolveNetworkUUID, Climb
  <2>5. CASE CheckName(r) \/ LockParentForCreate(r) \/ ReadForDelete(r) \/ CheckChildren(r)
    BY <1>1, <2>1, <2>5 DEF CheckName, LockParentForCreate, ReadForDelete, CheckChildren
  <2>6. CASE ChooseBlock(r)
    <3>1. PICK b : Goto(r, "chosen") /\ loc' = [loc EXCEPT ![r].block = b]
      BY <2>1, <2>6, ChosenBlock
    <3>2. QED
      BY <1>1, <3>1
  <2>7. CASE ReadForUpdate(r) \/ BeginUpdate(r)
    BY <1>1, <2>1, <2>7 DEF ReadForUpdate, BeginUpdate
  <2>8. CASE \/ CheckNetworkName(r) \/ ReadNetwork(r) \/ CheckNewName(r)
             \/ ReadNetworkForDelete(r) \/ CheckNetworkChildren(r)
             \/ LockNetworkForDelete(r)
    BY <1>1, <2>1, <2>8 DEF CheckNetworkName, ReadNetwork, CheckNewName,
       ReadNetworkForDelete, CheckNetworkChildren, LockNetworkForDelete
  <2>9. ~(InsertSubnet(r) \/ WriteUpdate(r) \/ DeleteSubnet(r))
    BY <1>3, <2>1 DEF InsertSubnet, WriteUpdate, DeleteSubnet
  <2>10. ~(InsertNetwork(r) \/ WriteNetwork(r) \/ CascadeAndCommit(r))
    BY <1>3, <2>1 DEF InsertNetwork, WriteNetwork, CascadeAndCommit
  <2>11. ~(DeadlockAbort(r) \/ Fail(r))
    BY <2>1 DEF DeadlockAbort, Fail
  <2>12. QED
    BY <2>2, <2>3, <2>4, <2>5, <2>6, <2>7, <2>8, <2>9, <2>10, <2>11
       DEF StepOf, Step, SubnetStep, NetworkStep
<1>4. QED
  BY <1>2, <1>3

\* What the locks of a step can be: kept, given back, or taken while free.
LEMMA LockEffect ==
    ASSUME NEW r \in Req, StepOf(r)
    PROVE  \/ UNCHANGED locks
           \/ Release(r)
           \/ /\ pc[r] = "begin" \/ pc[r] = "netDeleteTx"
              /\ Unblocked(r, arg[r].id) /\ HoldRow(r, arg[r].id)
           \/ pc[r] = "updateTx" /\ HoldMutex(r)
<1>1. CASE \E out : Answer(r, out)
  BY <1>1 DEF Answer
<1>2. CASE ~\E out : Answer(r, out)
  <2>1. \A err : ~Refuse(r, err)
    BY <1>2 DEF Refuse
  <2>2. CASE Receive(r)
    BY <2>2 DEF Receive
  <2>3. CASE EnsureInNetwork(r)
    BY <2>1, <2>3 DEF EnsureInNetwork
  <2>4. CASE ResolveParentContext(r) \/ ResolveNetworkUUID(r)
    BY <2>1, <2>4 DEF ResolveParentContext, ResolveNetworkUUID, Climb
  <2>5. CASE CheckName(r) \/ LockParentForCreate(r) \/ ReadForDelete(r) \/ CheckChildren(r)
    BY <2>1, <2>5 DEF CheckName, LockParentForCreate, ReadForDelete, CheckChildren
  <2>6. CASE ChooseBlock(r)
    BY <2>1, <2>6, ChosenBlock
  <2>7. CASE ReadForUpdate(r) \/ BeginUpdate(r)
    BY <2>1, <2>7 DEF ReadForUpdate, BeginUpdate
  <2>8. CASE \/ CheckNetworkName(r) \/ ReadNetwork(r) \/ CheckNewName(r)
             \/ ReadNetworkForDelete(r) \/ CheckNetworkChildren(r)
             \/ LockNetworkForDelete(r)
    BY <2>1, <2>8 DEF CheckNetworkName, ReadNetwork, CheckNewName,
       ReadNetworkForDelete, CheckNetworkChildren, LockNetworkForDelete
  <2>9. ~(InsertSubnet(r) \/ WriteUpdate(r) \/ DeleteSubnet(r))
    BY <1>2, <2>1 DEF InsertSubnet, WriteUpdate, DeleteSubnet
  <2>10. ~(InsertNetwork(r) \/ WriteNetwork(r) \/ CascadeAndCommit(r))
    BY <1>2, <2>1 DEF InsertNetwork, WriteNetwork, CascadeAndCommit
  <2>11. ~(DeadlockAbort(r) \/ Fail(r))
    BY <2>1 DEF DeadlockAbort, Fail
  <2>12. QED
    BY <2>2, <2>3, <2>4, <2>5, <2>6, <2>7, <2>8, <2>9, <2>10, <2>11
       DEF StepOf, Step, SubnetStep, NetworkStep
<1>3. QED
  BY <1>1, <1>2

\* No request takes a lock another one holds.
LEMMA LocksKept ==
    ASSUME TypeOK, NEW r \in Req, StepOf(r), NEW p \in Req, p # r
    PROVE  /\ writeMu = p => writeMu' = p
           /\ \A x \in Uuid : rowLock[x] = p => rowLock'[x] = p
<1>1. p # Nil /\ rowLock \in [Uuid -> Req \cup {Nil}]
  BY UuidAssumption DEF TypeOK, StoreTypeOK
<1>2. CASE UNCHANGED locks
  BY <1>2 DEF locks
<1>3. CASE Release(r)
  BY <1>1, <1>3 DEF Release
<1>4. CASE Unblocked(r, arg[r].id) /\ HoldRow(r, arg[r].id)
  BY <1>1, <1>4 DEF Unblocked, HoldRow, FreeFor
<1>5. CASE HoldMutex(r)
  BY <1>1, <1>5 DEF HoldMutex
<1>6. QED
  BY <1>2, <1>3, <1>4, <1>5, LockEffect

-----------------------------------------------------------------------------
(* What a step does to the tables.                                         *)

\* No subnet changes; networks may be created or changed.
KeepsSubnets ==
    /\ UNCHANGED subnets
    /\ used \subseteq used' /\ used' \ used \subseteq Net
    /\ \A n \in Net : networks[n] # Nil => networks'[n] # Nil

\* An insert commits.
Inserted(r) == InsertSubnet(r) /\ ~\E err : Refuse(r, err)

\* An update commits.
Redescribed(r) ==
    /\ pc[r] = "updateWrite" /\ Answer(r, "ok")
    /\ arg[r].id \in LiveSubnets
    /\ UNCHANGED <<networks, used>>
    /\ \E d \in Text : subnets' =
          [subnets EXCEPT ![arg[r].id] = [subnets[arg[r].id] EXCEPT !.desc = d]]

\* A delete commits.
Removed(r) ==
    /\ pc[r] = "deleteTx" /\ Answer(r, "ok")
    /\ arg[r].id \in LiveSubnets
    /\ Unblocked(r, arg[r].id)
    /\ UNCHANGED <<networks, used>>
    /\ subnets' = [subnets EXCEPT ![arg[r].id] = Nil]

\* A network delete commits.
Swept(r) ==
    /\ pc[r] = "netCascade" /\ Answer(r, "ok")
    /\ arg[r].id \in Net
    /\ \A s \in Cascaded(arg[r].id) : FreeFor(r, s)
    /\ networks' = [networks EXCEPT ![arg[r].id] = Nil]
    /\ subnets' = [s \in Subnet |-> IF s \in Cascaded(arg[r].id) THEN Nil
                                    ELSE subnets[s]]
    /\ UNCHANGED used

\* An update that commits changes nothing but the description.
LEMMA UpdateEffect ==
    ASSUME IndInv, NEW r \in Req, WriteUpdate(r), ~\E err : Refuse(r, err)
    PROVE  Redescribed(r)
<1>1. /\ pc[r] = "updateWrite" /\ arg[r].id \in Subnet /\ subnets[arg[r].id] # Nil
      /\ WrittenRow(r) \in SubnetRow
      /\ subnets' = [subnets EXCEPT ![arg[r].id] = WrittenRow(r)]
      /\ UNCHANGED <<networks, used>>
      /\ Answer(r, "ok")
  BY WrittenRowType DEF IndInv
<1>2. arg[r].id \in LiveSubnets /\ subnets[arg[r].id] \in SubnetRow
  BY <1>1 DEF LiveSubnets, IndInv, TypeOK, StoreTypeOK
<1>3. /\ loc[r].row = [subnets[arg[r].id] EXCEPT !.desc = arg[r].desc]
      /\ loc[r].network = loc[r].row.network
  BY <1>1, <1>2 DEF IndInv, RequestInv, UpdateAt
<1>4. WrittenRow(r) = [subnets[arg[r].id] EXCEPT !.desc = WrittenRow(r).desc]
  BY <1>2, <1>3 DEF WrittenRow, SubnetRow
<1>5. WrittenRow(r).desc \in Text
  BY <1>1 DEF SubnetRow
<1>6. QED
  BY <1>1, <1>2, <1>4, <1>5 DEF Redescribed

\* The five things a step can do to the tables.
LEMMA TableEffect ==
    ASSUME IndInv, NEW r \in Req, StepOf(r)
    PROVE  KeepsSubnets \/ Inserted(r) \/ Redescribed(r) \/ Removed(r) \/ Swept(r)
<1>0. UNCHANGED tables => KeepsSubnets
  BY DEF tables, KeepsSubnets
<1>1. CASE \E err : Refuse(r, err)
  BY <1>0, <1>1 DEF Refuse
<1>2. CASE ~\E err : Refuse(r, err)
  <2>1. CASE \/ Receive(r) \/ EnsureInNetwork(r) \/ ResolveParentContext(r)
             \/ ResolveNetworkUUID(r) \/ LockParentForCreate(r) \/ CheckName(r)
             \/ ReadForUpdate(r) \/ BeginUpdate(r) \/ ReadForDelete(r)
             \/ CheckChildren(r)
    BY <1>0, <1>2, <2>1 DEF Receive, EnsureInNetwork, ResolveParentContext, Climb,
       ResolveNetworkUUID, LockParentForCreate, CheckName, ReadForUpdate, BeginUpdate,
       ReadForDelete, CheckChildren
  <2>2. CASE ChooseBlock(r)
    BY <1>0, <1>2, <2>2, ChosenBlock
  <2>3. CASE \/ CheckNetworkName(r) \/ ReadNetwork(r) \/ CheckNewName(r)
             \/ ReadNetworkForDelete(r) \/ CheckNetworkChildren(r)
             \/ LockNetworkForDelete(r)
    BY <1>0, <1>2, <2>3 DEF CheckNetworkName, ReadNetwork, CheckNewName,
       ReadNetworkForDelete, CheckNetworkChildren, LockNetworkForDelete
  <2>4. CASE WriteUpdate(r)
    BY <1>2, <2>4, UpdateEffect
  <2>5. CASE DeleteSubnet(r)
    <3>1. /\ pc[r] = "deleteTx" /\ Unblocked(r, arg[r].id) /\ subnets[arg[r].id] # Nil
          /\ subnets' = [subnets EXCEPT ![arg[r].id] = Nil]
          /\ UNCHANGED <<networks, used>> /\ Answer(r, "ok")
      BY <1>2, <2>5 DEF DeleteSubnet
    <3>2. arg[r].id \in Subnet
      BY <3>1 DEF IndInv, ControlInv, ControlAt, DeletePC
    <3>3. QED
      BY <3>1, <3>2 DEF LiveSubnets, Removed
  <2>6. CASE InsertNetwork(r)
    <3>1. PICK n \in Net \ used :
            /\ networks' = [networks EXCEPT ![n] = NetworkRowOf(arg[r])]
            /\ used' = used \cup {n}
            /\ UNCHANGED subnets
      BY <1>2, <2>6 DEF InsertNetwork
    <3>2. NetworkRowOf(arg[r]) # Nil
      <4>1. pc[r] = "netInsert"
        BY <2>6 DEF InsertNetwork
      <4>2. arg[r].desc \in Text
        BY <4>1 DEF IndInv, ControlInv, ControlAt
      <4>3. arg[r].name \in Name
        BY <4>1, InFlight DEF Args, IndInv
      <4>4. QED
        BY <4>2, <4>3, NilAssumption DEF NetworkRowOf, NetworkRow
    <3>3. QED
      BY <3>1, <3>2 DEF IndInv, TypeOK, StoreTypeOK, KeepsSubnets
  <2>7. CASE WriteNetwork(r)
    <3>1. /\ networks' = [networks EXCEPT ![arg[r].id] = NetworkRowOf(arg[r])]
          /\ UNCHANGED <<subnets, used>>
      BY <1>2, <2>7 DEF WriteNetwork
    <3>2. NetworkRowOf(arg[r]) # Nil
      <4>1. pc[r] = "netWrite"
        BY <2>7 DEF WriteNetwork
      <4>2. arg[r].desc \in Text
        BY <4>1 DEF IndInv, ControlInv, ControlAt
      <4>3. arg[r].name \in Name
        BY <4>1, InFlight DEF Args, IndInv
      <4>4. QED
        BY <4>2, <4>3, NilAssumption DEF NetworkRowOf, NetworkRow
    <3>3. QED
      BY <3>1, <3>2 DEF IndInv, TypeOK, StoreTypeOK, KeepsSubnets
  <2>8. CASE CascadeAndCommit(r)
    <3>1. pc[r] = "netCascade" /\ arg[r].id \in Net
      BY <2>8 DEF CascadeAndCommit, IndInv, ControlInv, ControlAt, NetworkPC
    <3>2. QED
      BY <2>8, <3>1 DEF CascadeAndCommit, Swept
  <2>9. CASE InsertSubnet(r)
    BY <1>2, <2>9 DEF Inserted
  <2>10. ~(DeadlockAbort(r) \/ Fail(r))
    BY <1>2 DEF DeadlockAbort, Fail
  <2>11. QED
    BY <2>1, <2>2, <2>3, <2>4, <2>5, <2>6, <2>7, <2>8, <2>9, <2>10
       DEF StepOf, Step, SubnetStep, NetworkStep
<1>3. QED
  BY <1>1, <1>2

\* A row and its next version differ in the description only.
SameButDesc(s) == \E d \in Text : subnets'[s] = [subnets[s] EXCEPT !.desc = d]

\* The row an insert writes, with what the transaction knows about it.
LEMMA InsertEffect ==
    ASSUME IndInv, NEW r \in Req, Inserted(r)
    PROVE  \E id \in Subnet \ used :
              /\ pc[r] = "chosen"
              /\ UNCHANGED networks /\ used' = used \cup {id}
              /\ subnets[id] = Nil /\ subnets'[id] \in SubnetRow
              /\ \A s \in Subnet \ {id} : subnets'[s] = subnets[s]
              /\ subnets'[id].parent = arg[r].id
              /\ subnets'[id].cidr = loc[r].block
              /\ subnets'[id].name = arg[r].name
              /\ subnets'[id].network = NetworkColumn(arg[r].id)
<1>1. PICK id \in Subnet \ used, row \in SubnetRow :
        /\ row = [network |-> NetworkColumn(arg[r].id), name |-> arg[r].name,
                  desc |-> arg[r].desc, cidr |-> loc[r].block, parent |-> arg[r].id]
        /\ subnets' = [subnets EXCEPT ![id] = row]
        /\ used' = used \cup {id}
  BY InsertedRow DEF IndInv, Inserted
<1>2. pc[r] = "chosen" /\ UNCHANGED networks
  BY InsertedRow DEF IndInv, Inserted
<1>3. subnets[id] = Nil
  BY DEF IndInv, SpentInv, LiveSubnets
<1>4. subnets'[id] = row /\ \A s \in Subnet \ {id} : subnets'[s] = subnets[s]
  BY <1>1 DEF IndInv, TypeOK, StoreTypeOK
<1>5. /\ row.network = NetworkColumn(arg[r].id) /\ row.name = arg[r].name
      /\ row.cidr = loc[r].block /\ row.parent = arg[r].id
  BY <1>1
<1>6. QED
  BY <1>1, <1>2, <1>3, <1>4, <1>5

\* A spent uuid stays spent.
LEMMA UsedGrows ==
    ASSUME IndInv, NEW r \in Req, StepOf(r)
    PROVE  used \subseteq used'
BY TableEffect, InsertEffect DEF KeepsSubnets, Redescribed, Removed, Swept

\* Rows keep their identity, and a spent uuid that has no row gets none.
LEMMA IdentityStep ==
    ASSUME IndInv, NEW r \in Req, StepOf(r), NEW s \in Subnet
    PROVE  /\ subnets[s] # Nil /\ subnets'[s] # Nil => SameButDesc(s)
           /\ subnets[s] = Nil /\ s \in used => subnets'[s] = Nil
<1>1. subnets \in [Subnet -> SubnetRow \cup {Nil}]
  BY DEF IndInv, TypeOK, StoreTypeOK
<1>2. subnets[s] # Nil /\ subnets'[s] = subnets[s] => SameButDesc(s)
  <2>1. ASSUME subnets[s] \in SubnetRow
        PROVE  subnets[s] = [subnets[s] EXCEPT !.desc = subnets[s].desc]
               /\ subnets[s].desc \in Text
    BY <2>1 DEF SubnetRow
  <2>2. QED
    BY <1>1, <2>1 DEF SameButDesc
<1>3. CASE KeepsSubnets
  BY <1>2, <1>3 DEF KeepsSubnets
<1>4. CASE Inserted(r)
  BY <1>2, <1>4, InsertEffect
<1>5. CASE Redescribed(r)
  BY <1>1, <1>2, <1>5 DEF Redescribed, SameButDesc, LiveSubnets
<1>6. CASE Removed(r)
  BY <1>1, <1>2, <1>6 DEF Removed
<1>7. CASE Swept(r)
  BY <1>1, <1>2, <1>7 DEF Swept
<1>8. QED
  BY <1>3, <1>4, <1>5, <1>6, <1>7, TableEffect

\* The rows of the next state are new, inserted by r, or rows of this state.
LEMMA LiveStep ==
    ASSUME IndInv, NEW r \in Req, StepOf(r), NEW s \in Subnet, subnets'[s] # Nil
    PROVE  \/ /\ s \in LiveSubnets
              /\ subnets[s] \in SubnetRow /\ subnets'[s] \in SubnetRow
              /\ subnets'[s].cidr = subnets[s].cidr
              /\ subnets'[s].parent = subnets[s].parent
              /\ subnets'[s].network = subnets[s].network
              /\ subnets'[s].name = subnets[s].name
           \/ /\ s \notin LiveSubnets /\ s \notin used /\ s \in used'
              /\ Inserted(r)
              /\ \A t \in Subnet \ {s} : subnets'[t] = subnets[t]
              /\ subnets'[s].parent = arg[r].id
              /\ subnets'[s].cidr = loc[r].block
              /\ subnets'[s].name = arg[r].name
              /\ subnets'[s].network = NetworkColumn(arg[r].id)
<1>1. CASE s \in LiveSubnets
  <2>1. subnets[s] \in SubnetRow
    BY <1>1 DEF IndInv, TypeOK, StoreTypeOK, LiveSubnets
  <2>2. SameButDesc(s)
    BY <1>1, IdentityStep DEF LiveSubnets
  <2>3. QED
    BY <1>1, <2>1, <2>2 DEF SameButDesc, SubnetRow
<1>2. CASE s \notin LiveSubnets
  <2>1. subnets[s] = Nil
    BY <1>2 DEF LiveSubnets
  <2>2. Inserted(r)
    <3>1. ~KeepsSubnets /\ ~Redescribed(r) /\ ~Removed(r) /\ ~Swept(r)
      BY <2>1 DEF KeepsSubnets, Redescribed, Removed, Swept, IndInv, TypeOK, StoreTypeOK,
         LiveSubnets
    <3>2. QED
      BY <3>1, TableEffect
  <2>3. QED
    BY <1>2, <2>1, <2>2, InsertEffect
<1>3. QED
  BY <1>1, <1>2

\* The row a transaction of another request is about does not go away: whoever
\* removes it would need the mutex, or the lock on that row.
LEMMA ParentKept ==
    ASSUME IndInv, NEW r \in Req, StepOf(r), NEW p \in Req, p # r,
           pc[p] \in InCreateTx, NEW x, x = arg[p].id
    PROVE  x \in Uuid /\ Exists(x)'
<1>1. /\ x \in Uuid /\ Exists(x) /\ HoldsSerialiser(p) /\ p # Nil
      /\ IF UsesSQLiteSyntax THEN writeMu = p ELSE rowLock[x] = p
  BY UuidAssumption
     DEF IndInv, RequestInv, LockAt, CreateAt, HoldsSerialiser, ControlInv, ControlAt,
         InCreateTx, CreatePC
<1>2. Exists(x)' <=> IF x \in Net THEN networks'[x] # Nil ELSE subnets'[x] # Nil
  BY DEF Exists
<1>3. CASE KeepsSubnets
  BY <1>1, <1>2, <1>3 DEF KeepsSubnets, Exists
<1>4. CASE Inserted(r)
  BY <1>1, <1>2, <1>4, InsertEffect, NilAssumption DEF Exists, Uuid
<1>5. CASE Redescribed(r)
  <2>1. subnets[arg[r].id] \in SubnetRow /\ arg[r].id \in Subnet
    BY <1>5 DEF Redescribed, LiveSubnets, IndInv, TypeOK, StoreTypeOK
  <2>2. subnets'[arg[r].id] # Nil
    BY <1>5, <2>1, NilAssumption DEF Redescribed, SubnetRow, IndInv, TypeOK, StoreTypeOK
  <2>3. QED
    BY <1>1, <1>2, <1>5, <2>1, <2>2 DEF Exists, Redescribed, Uuid, IndInv, TypeOK, StoreTypeOK
<1>6. CASE Removed(r)
  <2>1. arg[r].id # x
    BY <1>1, <1>6 DEF Removed, Unblocked, FreeFor
  <2>2. QED
    BY <1>1, <1>2, <1>6, <2>1 DEF Exists, Removed, Uuid, IndInv, TypeOK, StoreTypeOK
<1>7. CASE Swept(r)
  <2>1. HoldsSerialiser(r)
    BY <1>7 DEF Swept, IndInv, RequestInv, LockAt
  <2>2. ~UsesSQLiteSyntax /\ arg[r].id # x
    BY <1>1, <2>1 DEF HoldsSerialiser
  <2>3. x \notin Cascaded(arg[r].id)
    BY <1>1, <1>7, <2>2 DEF Swept, FreeFor
  <2>4. QED
    BY <1>1, <1>2, <1>7, <2>2, <2>3 DEF Exists, Swept, Uuid, IndInv, TypeOK, StoreTypeOK
<1>8. QED
  BY <1>3, <1>4, <1>5, <1>6, <1>7, TableEffect

-----------------------------------------------------------------------------
(* What every request knows stays true.                                    *)

\* The labels at which RequestInv says something.
Tracked == {"root", "begin", "updateTx", "updateWrite", "netCascade"} \cup InCreateTx

\* Two creates are never in their transactions under the same parent.
LEMMA OneCreateEach ==
    ASSUME IndInv, NEW p \in Req, NEW r \in Req, p # r,
           pc[p] \in InCreateTx, pc[r] \in InCreateTx
    PROVE  arg[p].id # arg[r].id
<1>1. HoldsSerialiser(p) /\ HoldsSerialiser(r)
  BY DEF IndInv, RequestInv, LockAt
<1>2. QED
  BY <1>1 DEF HoldsSerialiser

\* The row a request goes on to write under: if it is there after a step, it
\* was there before, with the same prefix.
LEMMA KnownRow ==
    ASSUME IndInv, NEW r \in Req, StepOf(r), NEW x \in Net \cup used, x \in LiveSubnets'
    PROVE  /\ x \in LiveSubnets
           /\ subnets'[x].cidr = subnets[x].cidr
           /\ SameButDesc(x)
<1>1. x \in Subnet /\ subnets'[x] # Nil
  BY DEF LiveSubnets
<1>2. x \in used
  BY <1>1, UuidAssumption
<1>3. x \in LiveSubnets /\ subnets'[x].cidr = subnets[x].cidr
  BY <1>1, <1>2, LiveStep
<1>4. QED
  BY <1>1, <1>3, IdentityStep DEF LiveSubnets

\* A step of r keeps what another request p knows.
LEMMA OthersHold ==
    ASSUME IndInv, NEW r \in Req, StepOf(r), NEW p \in Req, p # r
    PROVE  RequestInv(p)'
<1> DEFINE x == arg[p].id
<1>1. pc'[p] = pc[p] /\ arg'[p] = arg[p] /\ loc'[p] = loc[p]
  BY OthersUntouched DEF IndInv
<1>2. LockAt(p) /\ SpentAt(p) /\ CreateAt(p) /\ UpdateAt(p)
  BY DEF IndInv, RequestInv
<1>3. LockAt(p)'
  <2>1. /\ writeMu = p => writeMu' = p
        /\ \A y \in Uuid : rowLock[y] = p => rowLock'[y] = p
    BY LocksKept DEF IndInv
  <2>2. pc[p] \in InCreateTx \cup {"netCascade"} => x \in Uuid
    BY DEF IndInv, ControlInv, ControlAt, InCreateTx, CreatePC, NetworkPC, Uuid
  <2>3. QED
    BY <1>1, <1>2, <2>1, <2>2 DEF LockAt, HoldsSerialiser, UsesSQLiteSyntax
<1>4. SpentAt(p)'
  BY <1>1, <1>2, UsedGrows DEF SpentAt
<1>5. CreateAt(p)'
  <2>1. pc[p] \in InCreateTx => Exists(arg[p].id)'
    <3>1. SUFFICES ASSUME pc[p] \in InCreateTx, NEW y, y = arg[p].id
                   PROVE  Exists(y)'
      BY <1>1
    <3>2. QED
      BY <3>1, ParentKept
  <2>2. ASSUME pc[p] \in {"root", "begin"} \cup InCreateTx, x \in LiveSubnets'
        PROVE  loc[p].prefix = {subnets'[x].cidr}
    <3>1. x \in Net \cup used
      BY <1>2, <2>2 DEF SpentAt
    <3>2. PICK y \in Net \cup used : y = arg[p].id
      BY <3>1
    <3>3. y \in LiveSubnets'
      BY <2>2, <3>2, <1>1
    <3>4. y \in LiveSubnets /\ subnets'[y].cidr = subnets[y].cidr
      BY <3>3, KnownRow
    <3>5. QED
      BY <1>2, <2>2, <3>2, <3>4 DEF CreateAt
  <2>3. ASSUME pc[p] = "chosen", NEW s \in Subnet, subnets'[s] # Nil,
               subnets'[s].parent = arg[p].id
        PROVE  ~Overlaps(loc[p].block, subnets'[s].cidr)
    <3>1. s \in LiveSubnets
      <4>1. ASSUME Inserted(r), arg[r].id = arg[p].id
            PROVE  FALSE
        <5>1. pc[r] = "chosen"
          BY <4>1, InsertEffect
        <5>2. QED
          BY <2>3, <4>1, <5>1, OneCreateEach DEF InCreateTx
      <4>2. QED
        BY <2>3, <4>1, LiveStep
    <3>2. subnets'[s].cidr = subnets[s].cidr /\ subnets'[s].parent = subnets[s].parent
      BY <2>3, <3>1, LiveStep
    <3>3. s \in listByParent(arg[p].id)
      BY <2>3, <3>1, <3>2 DEF listByParent
    <3>4. QED
      BY <1>2, <2>3, <3>2, <3>3 DEF CreateAt
  <2>4. pc[p] = "chosen" => \A q \in loc[p].prefix : PrefixContains(q, loc[p].block)
    BY <1>2 DEF CreateAt
  <2>5. QED
    BY <1>1, <2>1, <2>2, <2>3, <2>4 DEF CreateAt, listByParent, LiveSubnets
<1>6. UpdateAt(p)'
  <2>1. SUFFICES ASSUME pc[p] \in {"updateTx", "updateWrite"}, arg'[p].id \in LiveSubnets'
                 PROVE  loc[p].row = [subnets'[x] EXCEPT !.desc = arg[p].desc]
                        /\ (pc[p] = "updateWrite" => loc[p].network = loc[p].row.network)
    BY <1>1 DEF UpdateAt
  <2>2. PICK y \in Net \cup used : y = arg[p].id
    BY <1>2, <2>1 DEF SpentAt
  <2>3. y \in LiveSubnets /\ SameButDesc(y)
    BY <1>1, <2>1, <2>2, KnownRow
  <2>4. subnets[y] \in SubnetRow
    BY <2>3 DEF LiveSubnets, IndInv, TypeOK, StoreTypeOK
  <2>5. [subnets'[y] EXCEPT !.desc = arg[p].desc] = [subnets[y] EXCEPT !.desc = arg[p].desc]
    BY <2>3, <2>4 DEF SameButDesc, SubnetRow
  <2>6. QED
    BY <1>2, <2>1, <2>2, <2>3, <2>5 DEF UpdateAt
<1>7. QED
  BY <1>3, <1>4, <1>5, <1>6 DEF RequestInv

\* The steps that lead to a tracked label change no table.
LEMMA TrackedSteps ==
    ASSUME IndInv, NEW r \in Req, StepOf(r), pc'[r] \in Tracked
    PROVE  /\ UNCHANGED <<tables, arg>>
           /\ \A err : ~Refuse(r, err)
           /\ \/ ResolveParentContext(r) \/ ResolveNetworkUUID(r)
              \/ LockParentForCreate(r) \/ CheckName(r) \/ ChooseBlock(r)
              \/ ReadForUpdate(r) \/ BeginUpdate(r) \/ LockNetworkForDelete(r)
<1>1. pc \in [Req -> {"idle"} \cup SubnetPC \cup NetworkPC]
  BY DEF IndInv, TypeOK, ApiTypeOK
<1>2. \A out : ~Answer(r, out)
  BY <1>1 DEF Answer, Tracked, InCreateTx
<1>3. \A err : ~Refuse(r, err)
  BY <1>2 DEF Refuse
<1>4. \A l : Goto(r, l) => l \in Tracked /\ UNCHANGED arg
  BY <1>1 DEF Goto
<1>5. ~Receive(r)
  <2>1. SUFFICES ASSUME Receive(r) PROVE FALSE
    OBVIOUS
  <2>2. PICK q \in Requests : pc' = [pc EXCEPT ![r] = EntryPoint(q)]
    BY <2>1 DEF Receive
  <2>3. q \in Args /\ (q.op \in {"UpdateSubnet", "DeleteSubnet"} => q.id \in Subnet)
    BY RequestsAssumption
  <2>4. EntryPoint(q) \in {"context", "ensure", "netName", "netRead", "netDelete"}
    BY <2>3, UuidAssumption DEF EntryPoint, Args, SubnetOps, NetworkOps
  <2>5. QED
    BY <1>1, <2>2, <2>4 DEF Tracked, InCreateTx
<1>6. ~EnsureInNetwork(r)
  <2>1. SUFFICES ASSUME EnsureInNetwork(r) PROVE FALSE
    OBVIOUS
  <2>2. arg[r].op \in SubnetOps
    BY <2>1 DEF EnsureInNetwork, IndInv, ControlInv, ControlAt, SubnetPC
  <2>3. AfterEnsure(arg[r].op) \in {"context", "update", "delete"}
    BY <2>2 DEF AfterEnsure, SubnetOps
  <2>4. QED
    BY <1>3, <1>4, <2>1, <2>3 DEF EnsureInNetwork, Tracked, InCreateTx
<1>7. ~(ReadForDelete(r) \/ CheckChildren(r) \/ CheckNetworkName(r) \/ ReadNetwork(r)
        \/ CheckNewName(r) \/ ReadNetworkForDelete(r) \/ CheckNetworkChildren(r))
  BY <1>3, <1>4 DEF ReadForDelete, CheckChildren, CheckNetworkName, ReadNetwork,
     CheckNewName, ReadNetworkForDelete, CheckNetworkChildren, Tracked, InCreateTx
<1>8. ~(\/ InsertSubnet(r) \/ WriteUpdate(r) \/ DeleteSubnet(r) \/ InsertNetwork(r)
        \/ WriteNetwork(r) \/ CascadeAndCommit(r))
  BY <1>2, <1>3 DEF InsertSubnet, WriteUpdate, DeleteSubnet, InsertNetwork, WriteNetwork,
     CascadeAndCommit
<1>9. ~(DeadlockAbort(r) \/ Fail(r))
  BY <1>3 DEF DeadlockAbort, Fail
<1>10. \/ ResolveParentContext(r) \/ ResolveNetworkUUID(r)
       \/ LockParentForCreate(r) \/ CheckName(r) \/ ChooseBlock(r)
       \/ ReadForUpdate(r) \/ BeginUpdate(r) \/ LockNetworkForDelete(r)
  BY <1>5, <1>6, <1>7, <1>8, <1>9 DEF StepOf, Step, SubnetStep, NetworkStep
<1>11. UNCHANGED <<tables, arg>>
  <2>1. CASE ChooseBlock(r)
    BY <1>3, <1>4, <2>1, ChosenBlock
  <2>2. CASE ~ChooseBlock(r)
    BY <1>3, <1>4, <1>10, <2>2 DEF ResolveParentContext, ResolveNetworkUUID, Climb,
       LockParentForCreate, CheckName, ReadForUpdate, BeginUpdate, LockNetworkForDelete
  <2>3. QED
    BY <2>1, <2>2
<1>12. QED
  BY <1>3, <1>10, <1>11

\* The reads of the parent before the transaction: the prefix they keep is the
\* prefix of the parent's row.
LEMMA ContextHolds ==
    ASSUME IndInv, NEW r \in Req, UNCHANGED <<tables, arg>>, \A err : ~Refuse(r, err),
           ResolveParentContext(r) \/ ResolveNetworkUUID(r)
    PROVE  RequestInv(r)'
<1> DEFINE x == arg[r].id
<1>1. /\ pc \in [Req -> {"idle"} \cup SubnetPC \cup NetworkPC] /\ loc \in [Req -> Locals]
      /\ loc[r] \in Locals
      /\ subnets \in [Subnet -> SubnetRow \cup {Nil}]
      /\ networks' = networks /\ subnets' = subnets /\ used' = used /\ arg' = arg
  BY DEF IndInv, TypeOK, ApiTypeOK, StoreTypeOK, tables
<1>2. /\ x \in Uuid
      /\ x \in Net \cup used
      /\ pc'[r] \in {"root", "begin"}
      /\ x \in LiveSubnets => loc'[r].prefix = {subnets[x].cidr}
  <2>1. ASSUME NEW p, NEW prefix, Climb(r, p, prefix)
        PROVE  pc'[r] \in {"root", "begin"} /\ loc'[r].prefix = prefix
    <3>1. CASE p \in Net
      <4>1. Goto(r, "begin")
            /\ loc' = [loc EXCEPT ![r] = [loc[r] EXCEPT !.cursor = Nil, !.network = p,
                                                        !.prefix = prefix]]
        BY <2>1, <3>1 DEF Climb
      <4>2. pc'[r] = "begin"
        BY <1>1, <4>1 DEF Goto
      <4>3. QED
        BY <1>1, <4>1, <4>2 DEF Locals
    <3>2. CASE p \notin Net
      <4>1. Goto(r, "root")
            /\ loc' = [loc EXCEPT ![r] = [loc[r] EXCEPT !.cursor = p, !.prefix = prefix]]
        BY <2>1, <3>2 DEF Climb
      <4>2. pc'[r] = "root"
        BY <1>1, <4>1 DEF Goto
      <4>3. QED
        BY <1>1, <4>1, <4>2 DEF Locals
    <3>3. QED
      BY <3>1, <3>2
  <2>2. CASE ResolveParentContext(r)
    <3>1. /\ pc[r] = "context" /\ Exists(x)
          /\ IF x \in Net THEN Climb(r, x, {})
             ELSE Climb(r, subnets[x].parent, {RowPrefix(subnets[x])})
      BY <2>2 DEF ResolveParentContext
    <3>2. x \in Uuid
      BY <3>1 DEF IndInv, ControlInv, ControlAt, CreatePC
    <3>3. x \in LiveSubnets => x \in used /\ subnets[x] \in SubnetRow
      BY <1>1 DEF IndInv, SpentInv, LiveSubnets
    <3>4. x \in Net \/ x \in LiveSubnets
      BY <3>1, <3>2 DEF Exists, Uuid, LiveSubnets
    <3>5. x \in LiveSubnets => x \notin Net
      BY UuidAssumption DEF LiveSubnets
    <3>6. x \in LiveSubnets => RowPrefix(subnets[x]) = subnets[x].cidr
      BY <3>3, RowPrefixIsCidr
    <3>7. QED
      BY <2>1, <3>1, <3>2, <3>3, <3>4, <3>5, <3>6
  <2>3. CASE ResolveNetworkUUID(r)
    <3>1. pc[r] = "root" /\ \E p : Climb(r, p, loc[r].prefix)
      BY <2>3 DEF ResolveNetworkUUID
    <3>2. x \in Uuid
      BY <3>1 DEF IndInv, ControlInv, ControlAt, CreatePC
    <3>3. x \in Net \cup used /\ (x \in LiveSubnets => loc[r].prefix = {subnets[x].cidr})
      BY <3>1 DEF IndInv, RequestInv, SpentAt, CreateAt
    <3>4. QED
      BY <2>1, <3>1, <3>2, <3>3
  <2>4. QED
    BY <2>2, <2>3
<1>3. QED
  BY <1>1, <1>2 DEF RequestInv, LockAt, SpentAt, CreateAt, UpdateAt, InCreateTx, LiveSubnets

\* The steps of a create inside its transaction.
LEMMA CreateHolds ==
    ASSUME IndInv, NEW r \in Req, UNCHANGED <<tables, arg>>, \A err : ~Refuse(r, err),
           LockParentForCreate(r) \/ CheckName(r) \/ ChooseBlock(r)
    PROVE  RequestInv(r)'
<1> DEFINE x == arg[r].id
<1>1. /\ pc \in [Req -> {"idle"} \cup SubnetPC \cup NetworkPC] /\ loc \in [Req -> Locals]
      /\ loc[r] \in Locals
      /\ rowLock \in [Uuid -> Req \cup {Nil}]
      /\ subnets \in [Subnet -> SubnetRow \cup {Nil}]
      /\ networks' = networks /\ subnets' = subnets /\ used' = used /\ arg' = arg
  BY DEF IndInv, TypeOK, ApiTypeOK, StoreTypeOK, tables
<1>2. pc[r] \in {"begin", "locked", "named"}
  BY ChosenBlock DEF LockParentForCreate, CheckName
<1>3. /\ x \in Uuid
      /\ x \in Net \cup used
      /\ x \in LiveSubnets => loc[r].prefix = {subnets[x].cidr}
      /\ pc[r] # "begin" => Exists(x) /\ HoldsSerialiser(r)
  BY <1>2 DEF IndInv, ControlInv, ControlAt, CreatePC, RequestInv, LockAt, SpentAt,
     CreateAt, InCreateTx
<1>4. CASE LockParentForCreate(r) \/ CheckName(r)
  <2>1. /\ Exists(x) /\ loc' = loc /\ pc'[r] \in {"locked", "named"}
        /\ HoldRow(r, x) \/ (UNCHANGED locks /\ pc[r] # "begin")
    <3>1. CASE LockParentForCreate(r)
      <4>1. Exists(x) /\ HoldRow(r, x) /\ Goto(r, "locked") /\ loc' = loc
        BY <3>1 DEF LockParentForCreate
      <4>2. QED
        BY <1>1, <4>1 DEF Goto
    <3>2. CASE CheckName(r)
      <4>1. pc[r] = "locked" /\ UNCHANGED locks /\ Goto(r, "named") /\ loc' = loc
        BY <3>2 DEF CheckName
      <4>2. QED
        BY <1>1, <1>3, <4>1 DEF Goto
    <3>3. QED
      BY <1>4, <3>1, <3>2
  <2>2. HoldsSerialiser(r)'
    BY <1>1, <1>3, <2>1 DEF HoldsSerialiser, HoldRow, locks, UsesSQLiteSyntax
  <2>3. QED
    BY <1>1, <1>3, <2>1, <2>2
       DEF RequestInv, LockAt, SpentAt, CreateAt, UpdateAt, InCreateTx, LiveSubnets, Exists
<1>5. CASE ChooseBlock(r)
  <2>1. PICK b \in Prefix :
          /\ pc[r] = "named" /\ Goto(r, "chosen")
          /\ loc' = [loc EXCEPT ![r].block = b]
          /\ UNCHANGED locks
          /\ \A p \in loc[r].prefix : PrefixContains(p, b)
          /\ \A s \in listByParent(x) : ~Overlaps(b, RowPrefix(subnets[s]))
    BY <1>5, ChosenBlock
  <2>2. /\ pc'[r] = "chosen" /\ loc'[r].block = b /\ loc'[r].prefix = loc[r].prefix
    BY <1>1, <2>1 DEF Goto, Locals
  <2>3. \A s \in listByParent(x) : ~Overlaps(b, subnets[s].cidr)
    <3>1. \A s \in listByParent(x) : subnets[s] \in SubnetRow
      BY <1>1 DEF listByParent, LiveSubnets
    <3>2. QED
      BY <2>1, <3>1, RowPrefixIsCidr
  <2>4. HoldsSerialiser(r)'
    BY <1>1, <1>3, <2>1 DEF HoldsSerialiser, locks, UsesSQLiteSyntax
  <2>5. QED
    BY <1>1, <1>3, <2>1, <2>2, <2>3, <2>4
       DEF RequestInv, LockAt, SpentAt, CreateAt, UpdateAt, InCreateTx, LiveSubnets, Exists,
           listByParent
<1>6. QED
  BY <1>4, <1>5

\* The steps of an update before its write: the copy of the row, and the network
\* column resolved again in the transaction.
LEMMA UpdateHolds ==
    ASSUME IndInv, NEW r \in Req, UNCHANGED <<tables, arg>>, \A err : ~Refuse(r, err),
           ReadForUpdate(r) \/ BeginUpdate(r)
    PROVE  RequestInv(r)'
<1> DEFINE x == arg[r].id
<1>1. /\ pc \in [Req -> {"idle"} \cup SubnetPC \cup NetworkPC] /\ loc \in [Req -> Locals]
      /\ loc[r] \in Locals
      /\ subnets \in [Subnet -> SubnetRow \cup {Nil}]
      /\ networks' = networks /\ subnets' = subnets /\ used' = used /\ arg' = arg
  BY DEF IndInv, TypeOK, ApiTypeOK, StoreTypeOK, tables
<1>2. CASE ReadForUpdate(r)
  <2> DEFINE row == [subnets[x] EXCEPT !.desc = arg[r].desc]
  <2>1. /\ pc[r] = "update" /\ subnets[x] # Nil /\ Goto(r, "updateTx")
        /\ loc' = [loc EXCEPT ![r].row = row]
    BY <1>2 DEF ReadForUpdate
  <2>2. x \in LiveSubnets
    BY <2>1 DEF IndInv, ControlInv, ControlAt, UpdatePC, LiveSubnets
  <2>3. x \in used
    BY <2>2 DEF IndInv, SpentInv
  <2>4. pc'[r] = "updateTx"
    BY <1>1, <2>1 DEF Goto
  <2>5. loc'[r].row = row
    <3> HIDE DEF row
    <3>1. QED
      BY <1>1, <2>1 DEF Locals
  <2>6. QED
    BY <1>1, <2>3, <2>4, <2>5
       DEF RequestInv, LockAt, SpentAt, CreateAt, UpdateAt, InCreateTx, LiveSubnets
<1>3. CASE BeginUpdate(r)
  <2> DEFINE net == NetworkColumn(loc[r].row.parent)
  <2>1. /\ pc[r] = "updateTx" /\ net # Nil /\ Goto(r, "updateWrite") /\ HoldMutex(r)
        /\ loc' = [loc EXCEPT ![r].network = net]
    BY <1>3 DEF BeginUpdate
  <2>2. x \in Net \cup used /\ loc[r].row \in SubnetRow
    BY <2>1 DEF IndInv, RequestInv, SpentAt, ControlInv, ControlAt
  <2>3. x \in LiveSubnets => loc[r].row = [subnets[x] EXCEPT !.desc = arg[r].desc]
    BY <2>1 DEF IndInv, RequestInv, UpdateAt
  <2>4. x \in LiveSubnets => net = loc[r].row.network
    <3>1. SUFFICES ASSUME x \in LiveSubnets PROVE net = loc[r].row.network
      OBVIOUS
    <3>2. subnets[x] \in SubnetRow
      BY <1>1, <3>1 DEF LiveSubnets
    <3>3. /\ loc[r].row.parent = subnets[x].parent
          /\ loc[r].row.network = subnets[x].network
          /\ subnets[x].parent \in Uuid
      BY <2>3, <3>1, <3>2 DEF SubnetRow
    <3>4. /\ subnets[x].parent \in Net => subnets[x].network = subnets[x].parent
          /\ subnets[x].parent \in LiveSubnets
               => subnets[x].network = subnets[subnets[x].parent].network
      BY <3>1 DEF IndInv, NetworkColumnRight
    <3>5. QED
      BY <2>1, <3>3, <3>4 DEF NetworkColumn, LiveSubnets, Uuid
  <2>5. pc'[r] = "updateWrite"
    BY <1>1, <2>1 DEF Goto
  <2>6. loc'[r].network = net /\ loc'[r].row = loc[r].row
    <3> HIDE DEF net
    <3>1. QED
      BY <1>1, <2>1 DEF Locals
  <2>7. UsesSQLiteSyntax => writeMu' = r
    BY <2>1 DEF HoldMutex
  <2>8. QED
    BY <1>1, <2>2, <2>3, <2>4, <2>5, <2>6, <2>7
       DEF RequestInv, LockAt, SpentAt, CreateAt, UpdateAt, InCreateTx, LiveSubnets,
           UsesSQLiteSyntax
<1>4. QED
  BY <1>2, <1>3

\* A step of r gives or keeps what r itself has to know.
LEMMA OwnHolds ==
    ASSUME IndInv, NEW r \in Req, StepOf(r)
    PROVE  RequestInv(r)'
<1>1. CASE pc'[r] \notin Tracked
  BY <1>1 DEF Tracked, InCreateTx, RequestInv, LockAt, SpentAt, CreateAt, UpdateAt
<1>2. CASE pc'[r] \in Tracked
  <2>1. /\ UNCHANGED <<tables, arg>>
        /\ \A err : ~Refuse(r, err)
        /\ \/ ResolveParentContext(r) \/ ResolveNetworkUUID(r)
           \/ LockParentForCreate(r) \/ CheckName(r) \/ ChooseBlock(r)
           \/ ReadForUpdate(r) \/ BeginUpdate(r) \/ LockNetworkForDelete(r)
    BY <1>2, TrackedSteps
  <2>2. CASE LockNetworkForDelete(r)
    <3>1. Goto(r, "netCascade") /\ HoldRow(r, arg[r].id)
      BY <2>1, <2>2 DEF LockNetworkForDelete
    <3>2. arg[r].id \in Uuid
      BY <2>2 DEF LockNetworkForDelete, IndInv, ControlInv, ControlAt, NetworkPC, Uuid
    <3>3. HoldsSerialiser(r)'
      BY <2>1, <3>1, <3>2
         DEF HoldsSerialiser, HoldRow, UsesSQLiteSyntax, IndInv, TypeOK, StoreTypeOK
    <3>4. pc'[r] = "netCascade"
      BY <3>1 DEF Goto, IndInv, TypeOK, ApiTypeOK
    <3>5. QED
      BY <3>3, <3>4 DEF InCreateTx, RequestInv, LockAt, SpentAt, CreateAt, UpdateAt
  <2>3. QED
    BY <2>1, <2>2, ContextHolds, CreateHolds, UpdateHolds
<1>3. QED
  BY <1>1, <1>2

-----------------------------------------------------------------------------
(* What every step does to the table of subnets.                           *)

\* Rows and their parents are spent after the step.
LEMMA SpentStep ==
    ASSUME IndInv, NEW r \in Req, StepOf(r)
    PROVE  SpentInv'
<1>1. SUFFICES ASSUME NEW s \in Subnet, subnets'[s] # Nil
               PROVE  s \in used' /\ (subnets'[s].parent \in Subnet
                                         => subnets'[s].parent \in used')
  BY DEF SpentInv, LiveSubnets
<1>2. used \subseteq used'
  BY UsedGrows
<1>3. CASE s \in LiveSubnets
  BY <1>1, <1>2, <1>3, LiveStep DEF IndInv, SpentInv
<1>4. CASE s \notin LiveSubnets
  <2>1. Inserted(r) /\ s \in used' /\ subnets'[s].parent = arg[r].id
    BY <1>1, <1>4, LiveStep
  <2>2. arg[r].id \in Net \cup used
    BY <2>1, InsertEffect DEF IndInv, RequestInv, SpentAt, InCreateTx
  <2>3. QED
    BY <1>2, <2>1, <2>2, UuidAssumption
<1>5. QED
  BY <1>3, <1>4

\* A new block is clear of its siblings, the others have not moved.
LEMMA SiblingsStep ==
    ASSUME IndInv, NEW r \in Req, StepOf(r)
    PROVE  SiblingsDisjoint'
<1>1. SUFFICES ASSUME NEW s \in Subnet, NEW t \in Subnet, s # t,
                      subnets'[s] # Nil, subnets'[t] # Nil,
                      subnets'[s].parent = subnets'[t].parent
               PROVE  ~Overlaps(subnets'[s].cidr, subnets'[t].cidr)
  BY DEF SiblingsDisjoint, LiveSubnets
<1>2. ASSUME NEW a \in Subnet, NEW b \in Subnet, a # b, a \notin LiveSubnets,
             subnets'[a] # Nil, subnets'[b] # Nil,
             subnets'[a].parent = subnets'[b].parent
      PROVE  /\ ~Overlaps(subnets'[a].cidr, subnets'[b].cidr)
             /\ ~Overlaps(subnets'[b].cidr, subnets'[a].cidr)
  <2>1. /\ Inserted(r) /\ subnets'[b] = subnets[b]
        /\ subnets'[a].parent = arg[r].id /\ subnets'[a].cidr = loc[r].block
    BY <1>2, LiveStep
  <2>2. pc[r] = "chosen"
    BY <2>1, InsertEffect
  <2>3. b \in listByParent(arg[r].id)
    BY <1>2, <2>1 DEF listByParent, LiveSubnets
  <2>4. ~Overlaps(loc[r].block, subnets[b].cidr)
    BY <2>2, <2>3 DEF IndInv, RequestInv, CreateAt
  <2>5. loc[r].block \in Prefix
    BY <2>2 DEF IndInv, ControlInv, ControlAt
  <2>6. subnets[b].cidr \in Prefix
    BY <1>2, <2>1, RowPrefixIsCidr DEF IndInv, TypeOK, StoreTypeOK
  <2>7. QED
    BY <2>1, <2>4, <2>5, <2>6, OverlapsSymmetric
<1>3. CASE s \in LiveSubnets /\ t \in LiveSubnets
  <2>1. /\ subnets'[s].cidr = subnets[s].cidr /\ subnets'[s].parent = subnets[s].parent
        /\ subnets'[t].cidr = subnets[t].cidr /\ subnets'[t].parent = subnets[t].parent
    BY <1>1, <1>3, LiveStep
  <2>2. QED
    BY <1>1, <1>3, <2>1 DEF IndInv, SiblingsDisjoint
<1>4. QED
  BY <1>1, <1>2, <1>3

\* A new block is inside the block of its parent, if the parent is a subnet.
LEMMA InsideStep ==
    ASSUME IndInv, NEW r \in Req, StepOf(r)
    PROVE  ChildInsideParent'
<1>1. SUFFICES ASSUME NEW s \in Subnet, subnets'[s] # Nil,
                      NEW p \in Subnet, subnets'[p] # Nil, p = subnets'[s].parent
               PROVE  PrefixContains(subnets'[p].cidr, subnets'[s].cidr)
  BY DEF ChildInsideParent, LiveSubnets
<1>2. CASE s \in LiveSubnets
  <2>1. subnets'[s].cidr = subnets[s].cidr /\ p = subnets[s].parent
    BY <1>1, <1>2, LiveStep
  <2>2. p \in used
    BY <1>2, <2>1 DEF IndInv, SpentInv
  <2>3. p \in LiveSubnets /\ subnets'[p].cidr = subnets[p].cidr
    BY <1>1, <2>2, LiveStep
  <2>4. QED
    BY <1>2, <2>1, <2>3 DEF IndInv, ChildInsideParent
<1>3. CASE s \notin LiveSubnets
  <2>1. Inserted(r) /\ p = arg[r].id /\ subnets'[s].cidr = loc[r].block
    BY <1>1, <1>3, LiveStep
  <2>2. pc[r] = "chosen"
    BY <2>1, InsertEffect
  <2>3. p \in used
    BY <2>1, <2>2, UuidAssumption DEF IndInv, RequestInv, SpentAt, InCreateTx
  <2>4. p \in LiveSubnets /\ subnets'[p].cidr = subnets[p].cidr
    BY <1>1, <2>3, LiveStep
  <2>5. /\ loc[r].prefix = {subnets[p].cidr}
        /\ \A q \in loc[r].prefix : PrefixContains(q, loc[r].block)
    BY <2>1, <2>2, <2>4 DEF IndInv, RequestInv, CreateAt, InCreateTx
  <2>6. QED
    BY <2>1, <2>4, <2>5
<1>4. QED
  BY <1>2, <1>3

\* A network that goes takes every subnet with its number along, a new row takes
\* the number of its parent.
LEMMA ColumnStep ==
    ASSUME IndInv, NEW r \in Req, StepOf(r)
    PROVE  NetworkColumnRight'
<1>1. SUFFICES ASSUME NEW s \in Subnet, subnets'[s] # Nil
               PROVE  /\ networks'[subnets'[s].network] # Nil
                      /\ subnets'[s].parent \in Net
                           => subnets'[s].network = subnets'[s].parent
                      /\ subnets'[s].parent \in Subnet /\ subnets'[subnets'[s].parent] # Nil
                           => subnets'[s].network = subnets'[subnets'[s].parent].network
  BY DEF NetworkColumnRight, LiveSubnets
<1>2. CASE s \in LiveSubnets
  <2>1. /\ subnets[s] \in SubnetRow
        /\ subnets'[s].parent = subnets[s].parent
        /\ subnets'[s].network = subnets[s].network
    BY <1>1, <1>2, LiveStep
  <2>2. /\ networks[subnets[s].network] # Nil
        /\ subnets[s].parent \in Net => subnets[s].network = subnets[s].parent
        /\ subnets[s].parent \in LiveSubnets
             => subnets[s].network = subnets[subnets[s].parent].network
    BY <1>2 DEF IndInv, NetworkColumnRight
  <2>3. networks'[subnets[s].network] # Nil
    <3>1. subnets[s].network \in Net
      BY <2>1 DEF SubnetRow
    <3>2. CASE KeepsSubnets
      BY <2>2, <3>1, <3>2 DEF KeepsSubnets
    <3>3. CASE Inserted(r) \/ Redescribed(r) \/ Removed(r)
      BY <2>2, <3>3, InsertEffect DEF Redescribed, Removed
    <3>4. CASE Swept(r)
      <4>1. s \notin Cascaded(arg[r].id)
        BY <1>1, <3>4 DEF Swept
      <4>2. subnets[s].network # arg[r].id
        BY <1>2, <4>1 DEF Cascaded
      <4>3. QED
        BY <2>2, <3>1, <3>4, <4>2 DEF Swept, IndInv, TypeOK, StoreTypeOK
    <3>5. QED
      BY <3>2, <3>3, <3>4, TableEffect
  <2>4. ASSUME NEW p \in Subnet, p = subnets[s].parent, subnets'[p] # Nil
        PROVE  subnets[s].network = subnets'[p].network
    <3>1. p \in used
      BY <1>2, <2>4 DEF IndInv, SpentInv
    <3>2. p \in LiveSubnets /\ subnets'[p].network = subnets[p].network
      BY <2>4, <3>1, LiveStep
    <3>3. QED
      BY <2>2, <2>4, <3>2
  <2>5. QED
    BY <2>1, <2>2, <2>3, <2>4
<1>3. CASE s \notin LiveSubnets
  <2>1. /\ Inserted(r) /\ subnets'[s].parent = arg[r].id
        /\ subnets'[s].network = NetworkColumn(arg[r].id)
    BY <1>1, <1>3, LiveStep
  <2>2. /\ pc[r] = "chosen" /\ UNCHANGED networks
        /\ networks[NetworkColumn(arg[r].id)] # Nil
    BY <2>1, InsertEffect, InsertedRow DEF Inserted, IndInv
  <2>3. arg[r].id \in Net => NetworkColumn(arg[r].id) = arg[r].id
    BY DEF NetworkColumn
  <2>4. ASSUME NEW p \in Subnet, p = arg[r].id, subnets'[p] # Nil
        PROVE  NetworkColumn(arg[r].id) = subnets'[p].network
    <3>1. p \in used /\ p \notin Net
      BY <2>2, <2>4, UuidAssumption DEF IndInv, RequestInv, SpentAt, InCreateTx
    <3>2. p \in LiveSubnets /\ subnets'[p].network = subnets[p].network
      BY <2>4, <3>1, LiveStep
    <3>3. QED
      BY <2>4, <3>1, <3>2 DEF NetworkColumn, LiveSubnets
  <2>5. QED
    BY <2>1, <2>2, <2>3, <2>4
<1>4. QED
  BY <1>2, <1>3

-----------------------------------------------------------------------------
(* What ensureInNetwork has found out stays true.                          *)

\* The labels between ensureInNetwork and the answer.
Ensured == CreatePC \cup UpdatePC \cup DeletePC

\* The labels of a network delete.
NetDeletePC == {"netDelete", "netCheck", "netDeleteTx", "netCascade"}

\* A step of r keeps what ensureInNetwork has found out for another request p.
LEMMA OthersTenant ==
    ASSUME IndInv, NEW r \in Req, StepOf(r), NEW p \in Req, p # r
    PROVE  TenantAt(p)'
<1> DEFINE x == arg[p].id
           cur == loc[p].cursor
<1>1. pc'[p] = pc[p] /\ arg'[p] = arg[p] /\ loc'[p] = loc[p]
  BY OthersUntouched DEF IndInv
<1>2. used \subseteq used'
  BY UsedGrows
<1>3. TenantAt(p)
  BY DEF IndInv, TenantInv
<1>4. ASSUME NEW y \in used, y \in LiveSubnets'
      PROVE  y \in LiveSubnets /\ subnets'[y].network = subnets[y].network
  <2>1. y \in Subnet /\ subnets'[y] # Nil
    BY <1>4 DEF LiveSubnets
  <2>2. QED
    BY <1>4, <2>1, LiveStep
<1>5. ASSUME pc[p] \in Ensured, x \in LiveSubnets'
      PROVE  x \in used
  <2>1. arg[p] \in Requests /\ arg[p].op \in SubnetOps
    BY <1>5, InFlight
       DEF Ensured, CreatePC, UpdatePC, DeletePC, SubnetPC, IndInv, ControlInv, ControlAt
  <2>2. arg[p].net \in Net /\ x \in Subnet
    BY <1>5, <2>1, RequestsAssumption DEF LiveSubnets
  <2>3. QED
    BY <1>3, <1>5, <2>2, UuidAssumption DEF TenantAt, Ensured
<1>6. pc[p] = "ensure" /\ cur # x =>
        /\ {x, cur} \subseteq used'
        /\ {x, cur} \subseteq LiveSubnets' => subnets'[x].network = subnets'[cur].network
  BY <1>2, <1>3, <1>4 DEF TenantAt
<1>7. pc[p] \in Ensured =>
        /\ x \in {arg[p].net} \cup used'
        /\ x \in Net => x = arg[p].net
        /\ x \in LiveSubnets' => subnets'[x].network = arg[p].net
  BY <1>2, <1>3, <1>4, <1>5 DEF TenantAt, Ensured
<1>8. pc[p] \in NetDeletePC => arg[p].op = "DeleteNetwork"
  BY <1>3 DEF TenantAt, NetDeletePC
<1>9. QED
  BY <1>1, <1>6, <1>7, <1>8 DEF TenantAt, Ensured, NetDeletePC

\* A request that arrives knows nothing yet, or names its network itself.
LEMMA ReceiveTenant ==
    ASSUME IndInv, NEW r \in Req, Receive(r)
    PROVE  TenantAt(r)'
<1>1. PICK q \in Requests :
        /\ arg' = [arg EXCEPT ![r] = q]
        /\ pc' = [pc EXCEPT ![r] = EntryPoint(q)]
        /\ loc' = [loc EXCEPT ![r].cursor = IF q.id \in Subnet THEN q.id ELSE Nil]
  BY DEF Receive
<1>2. /\ q \in Args
      /\ q.op = "CreateSubnet" => q.id \in Subnet \cup {q.net}
      /\ q.op \in {"UpdateSubnet", "DeleteSubnet"} => q.id \in Subnet
      /\ q.op \in SubnetOps => q.net \in Net
  BY RequestsAssumption
<1>3. /\ arg'[r] = q /\ pc'[r] = EntryPoint(q)
      /\ q.id \in Subnet => loc'[r].cursor = q.id
  BY <1>1 DEF IndInv, TypeOK, ApiTypeOK, Locals
<1>4. q.op \in SubnetOps \cup NetworkOps
  BY <1>2 DEF Args
<1>5. CASE q.op = "CreateSubnet" /\ q.id \in Net
  <2>1. EntryPoint(q) = "context"
    BY <1>5 DEF EntryPoint, SubnetOps
  <2>2. q.id = q.net /\ q.id \notin Subnet
    BY <1>2, <1>5, UuidAssumption
  <2>3. QED
    BY <1>3, <2>1, <2>2 DEF TenantAt, LiveSubnets
<1>6. CASE q.op \in SubnetOps /\ q.id \notin Net
  <2>1. EntryPoint(q) = "ensure"
    BY <1>6 DEF EntryPoint, SubnetOps
  <2>2. q.id \in Subnet
    BY <1>2, <1>6 DEF SubnetOps
  <2>3. QED
    BY <1>3, <2>1, <2>2 DEF TenantAt, CreatePC, UpdatePC, DeletePC
<1>7. CASE q.op \in NetworkOps
  <2>1. \/ EntryPoint(q) \in {"netName", "netRead"}
        \/ EntryPoint(q) = "netDelete" /\ q.op = "DeleteNetwork"
    BY <1>7 DEF EntryPoint, SubnetOps, NetworkOps
  <2>2. QED
    BY <1>3, <2>1 DEF TenantAt, CreatePC, UpdatePC, DeletePC
<1>8. QED
  BY <1>2, <1>4, <1>5, <1>6, <1>7, UuidAssumption DEF SubnetOps

\* One row of the climb: the parent of a row is in the network of the row, and at
\* the top the network is the one of the URL.
LEMMA EnsureTenant ==
    ASSUME IndInv, NEW r \in Req, EnsureInNetwork(r), \A err : ~Refuse(r, err)
    PROVE  TenantAt(r)'
<1> DEFINE x == arg[r].id
           cur == loc[r].cursor
           row == subnets[cur]
<1>1. /\ pc[r] = "ensure" /\ row # Nil
      /\ UNCHANGED tables
      /\ \/ /\ row.parent \in Subnet /\ Goto(r, "ensure")
            /\ loc' = [loc EXCEPT ![r].cursor = row.parent]
         \/ /\ row.parent \notin Subnet /\ row.parent = arg[r].net
            /\ Goto(r, AfterEnsure(arg[r].op))
  BY DEF EnsureInNetwork
<1>2. /\ x \in Subnet /\ cur \in Subnet
      /\ arg[r].op \in SubnetOps
      /\ loc \in [Req -> Locals] /\ pc \in [Req -> {"idle"} \cup SubnetPC \cup NetworkPC]
  BY <1>1 DEF IndInv, ControlInv, ControlAt, SubnetPC, TypeOK, ApiTypeOK
<1>3. cur \in LiveSubnets /\ cur \in used
  BY <1>1, <1>2 DEF LiveSubnets, IndInv, SpentInv
<1>4. /\ row.parent \in Net \cup Subnet
      /\ row.parent \in Subnet => row.parent \in used
      /\ row.parent \in Net => row.network = row.parent
      /\ row.parent \in LiveSubnets => row.network = subnets[row.parent].network
  <2>1. row \in SubnetRow
    BY <1>1, <1>2 DEF IndInv, TypeOK, StoreTypeOK
  <2>2. QED
    BY <1>3, <2>1 DEF IndInv, SpentInv, NetworkColumnRight, SubnetRow, Uuid
<1>5. /\ x \in used
      /\ x \in LiveSubnets => subnets[x].network = row.network
  BY <1>1, <1>3 DEF IndInv, TenantInv, TenantAt
<1>6. used' = used /\ subnets' = subnets /\ LiveSubnets' = LiveSubnets /\ arg'[r] = arg[r]
  BY <1>1 DEF tables, LiveSubnets, Goto
<1>7. CASE row.parent \in Subnet
  <2>1. loc'[r].cursor = row.parent /\ pc'[r] = "ensure"
    BY <1>1, <1>2, <1>7 DEF Goto, Locals
  <2>2. QED
    BY <1>4, <1>5, <1>6, <1>7, <2>1 DEF TenantAt, CreatePC, UpdatePC, DeletePC
<1>8. CASE row.parent \notin Subnet
  <2>1. pc'[r] = AfterEnsure(arg[r].op)
    BY <1>1, <1>2, <1>8 DEF Goto
  <2>2. pc'[r] \in {"context", "update", "delete"}
    BY <1>2, <2>1 DEF AfterEnsure, SubnetOps
  <2>3. row.network = arg[r].net
    BY <1>1, <1>4, <1>8
  <2>4. x \notin Net
    BY <1>2, UuidAssumption
  <2>5. QED
    BY <1>5, <1>6, <2>2, <2>3, <2>4 DEF TenantAt
<1>9. QED
  BY <1>7, <1>8

\* Any other step of r leads from a label to one of the same operation.
LEMMA SameOperation ==
    ASSUME IndInv, NEW r \in Req, StepOf(r), \A out : ~Answer(r, out),
           ~Receive(r), ~EnsureInNetwork(r)
    PROVE  /\ UNCHANGED <<tables, arg>>
           /\ \/ pc[r] \in Ensured /\ pc'[r] \in Ensured
              \/ pc[r] \in NetDeletePC /\ pc'[r] \in NetDeletePC
              \/ pc'[r] \in NetworkPC \ NetDeletePC
<1> USE DEF Ensured, CreatePC, UpdatePC, DeletePC, NetDeletePC, NetworkPC
<1>1. /\ pc \in [Req -> {"idle"} \cup SubnetPC \cup NetworkPC]
      /\ \A err : ~Refuse(r, err)
  BY DEF IndInv, TypeOK, ApiTypeOK, Refuse
<1>2. \A l : Goto(r, l) => pc'[r] = l /\ UNCHANGED arg
  BY <1>1 DEF Goto
<1>3. CASE ResolveParentContext(r) \/ ResolveNetworkUUID(r)
  BY <1>1, <1>2, <1>3 DEF ResolveParentContext, ResolveNetworkUUID, Climb
<1>4. CASE LockParentForCreate(r) \/ CheckName(r)
  BY <1>1, <1>2, <1>4 DEF LockParentForCreate, CheckName
<1>5. CASE ChooseBlock(r)
  <2>1. pc[r] = "named" /\ Goto(r, "chosen") /\ UNCHANGED tables
    BY <1>1, <1>5, ChosenBlock DEF ChooseBlock
  <2>2. QED
    BY <1>2, <2>1
<1>6. CASE ReadForUpdate(r) \/ BeginUpdate(r)
  BY <1>1, <1>2, <1>6 DEF ReadForUpdate, BeginUpdate
<1>7. CASE ReadForDelete(r) \/ CheckChildren(r)
  BY <1>1, <1>2, <1>7 DEF ReadForDelete, CheckChildren
<1>8. CASE CheckNetworkName(r) \/ ReadNetwork(r) \/ CheckNewName(r)
  BY <1>1, <1>2, <1>8 DEF CheckNetworkName, ReadNetwork, CheckNewName
<1>9. CASE \/ ReadNetworkForDelete(r) \/ CheckNetworkChildren(r)
           \/ LockNetworkForDelete(r)
  BY <1>1, <1>2, <1>9 DEF ReadNetworkForDelete, CheckNetworkChildren, LockNetworkForDelete
<1>10. ~(\/ InsertSubnet(r) \/ WriteUpdate(r) \/ DeleteSubnet(r) \/ InsertNetwork(r)
         \/ WriteNetwork(r) \/ CascadeAndCommit(r) \/ DeadlockAbort(r) \/ Fail(r))
  BY <1>1 DEF InsertSubnet, WriteUpdate, DeleteSubnet, InsertNetwork, WriteNetwork,
     CascadeAndCommit, DeadlockAbort, Fail
<1>11. QED
  BY <1>3, <1>4, <1>5, <1>6, <1>7, <1>8, <1>9, <1>10
     DEF StepOf, Step, SubnetStep, NetworkStep

\* A step of r gives or keeps what ensureInNetwork has found out for r.
LEMMA OwnTenant ==
    ASSUME IndInv, NEW r \in Req, StepOf(r)
    PROVE  TenantAt(r)'
<1>1. TenantAt(r) /\ pc \in [Req -> {"idle"} \cup SubnetPC \cup NetworkPC]
  BY DEF IndInv, TenantInv, TypeOK, ApiTypeOK
<1>2. CASE \E out : Answer(r, out)
  <2>1. pc'[r] = "idle"
    BY <1>1, <1>2 DEF Answer
  <2>2. QED
    BY <2>1 DEF TenantAt, CreatePC, UpdatePC, DeletePC
<1>3. CASE Receive(r) \/ (EnsureInNetwork(r) /\ \A err : ~Refuse(r, err))
  BY <1>3, ReceiveTenant, EnsureTenant
<1>4. CASE /\ \A out : ~Answer(r, out)
           /\ ~Receive(r) /\ ~EnsureInNetwork(r)
  <2>1. /\ UNCHANGED <<tables, arg>>
        /\ \/ pc[r] \in Ensured /\ pc'[r] \in Ensured
           \/ pc[r] \in NetDeletePC /\ pc'[r] \in NetDeletePC
           \/ pc'[r] \in NetworkPC \ NetDeletePC
    BY <1>4, SameOperation
  <2>2. used' = used /\ subnets' = subnets /\ LiveSubnets' = LiveSubnets /\ arg' = arg
    BY <2>1 DEF tables, LiveSubnets
  <2>3. CASE pc[r] \in Ensured /\ pc'[r] \in Ensured
    BY <1>1, <2>2, <2>3 DEF TenantAt, Ensured, CreatePC, UpdatePC, DeletePC
  <2>4. CASE pc'[r] \notin Ensured
    BY <1>1, <2>1, <2>2, <2>4
       DEF TenantAt, Ensured, NetDeletePC, NetworkPC, CreatePC, UpdatePC, DeletePC
  <2>5. QED
    BY <2>1, <2>3, <2>4 DEF Ensured, NetDeletePC, NetworkPC, CreatePC, UpdatePC, DeletePC
<1>5. QED
  BY <1>2, <1>3, <1>4 DEF Refuse

-----------------------------------------------------------------------------
(* What races leave behind.                                                *)

\* A deletion gets past its check only when there are no children, and moves on
\* without a change of the tables.
LEMMA DeletingSteps ==
    ASSUME IndInv, NEW r \in Req, StepOf(r), Deleting(r)'
    PROVE  /\ UNCHANGED <<tables, arg>>
           /\ Deleting(r) \/ listByParent(arg[r].id) = {}
<1>1. pc \in [Req -> {"idle"} \cup SubnetPC \cup NetworkPC]
  BY DEF IndInv, TypeOK, ApiTypeOK
<1>2. \A out : ~Answer(r, out)
  BY <1>1 DEF Answer, Deleting
<1>3. \A err : ~Refuse(r, err)
  BY <1>2 DEF Refuse
<1>4. \A l : Goto(r, l) => l \in {"deleteTx", "netDeleteTx", "netCascade"} /\ UNCHANGED arg
  BY <1>1 DEF Goto, Deleting
<1>5. ~Receive(r)
  <2>1. SUFFICES ASSUME Receive(r) PROVE FALSE
    OBVIOUS
  <2>2. PICK q \in Requests : pc' = [pc EXCEPT ![r] = EntryPoint(q)]
    BY <2>1 DEF Receive
  <2>3. q \in Args /\ (q.op \in {"UpdateSubnet", "DeleteSubnet"} => q.id \in Subnet)
    BY RequestsAssumption
  <2>4. EntryPoint(q) \in {"context", "ensure", "netName", "netRead", "netDelete"}
    BY <2>3, UuidAssumption DEF EntryPoint, Args, SubnetOps, NetworkOps
  <2>5. QED
    BY <1>1, <2>2, <2>4 DEF Deleting
<1>6. ~EnsureInNetwork(r)
  <2>1. SUFFICES ASSUME EnsureInNetwork(r) PROVE FALSE
    OBVIOUS
  <2>2. arg[r].op \in SubnetOps
    BY <2>1 DEF EnsureInNetwork, IndInv, ControlInv, ControlAt, SubnetPC
  <2>3. AfterEnsure(arg[r].op) \in {"context", "update", "delete"}
    BY <2>2 DEF AfterEnsure, SubnetOps
  <2>4. QED
    BY <1>3, <1>4, <2>1, <2>3 DEF EnsureInNetwork
<1>7. ~(\/ ResolveParentContext(r) \/ ResolveNetworkUUID(r) \/ LockParentForCreate(r)
        \/ CheckName(r) \/ ReadForUpdate(r) \/ BeginUpdate(r) \/ ReadForDelete(r))
  BY <1>3, <1>4 DEF ResolveParentContext, ResolveNetworkUUID, Climb, LockParentForCreate,
     CheckName, ReadForUpdate, BeginUpdate, ReadForDelete
<1>8. ~(\/ CheckNetworkName(r) \/ ReadNetwork(r) \/ CheckNewName(r)
        \/ ReadNetworkForDelete(r))
  BY <1>3, <1>4 DEF CheckNetworkName, ReadNetwork, CheckNewName, ReadNetworkForDelete
<1>9. ~ChooseBlock(r)
  BY <1>3, <1>4, ChosenBlock
<1>10. ~(\/ InsertSubnet(r) \/ WriteUpdate(r) \/ DeleteSubnet(r) \/ InsertNetwork(r)
         \/ WriteNetwork(r) \/ CascadeAndCommit(r) \/ DeadlockAbort(r) \/ Fail(r))
  BY <1>2, <1>3 DEF InsertSubnet, WriteUpdate, DeleteSubnet, InsertNetwork, WriteNetwork,
     CascadeAndCommit, DeadlockAbort, Fail
<1>11. CheckChildren(r) \/ CheckNetworkChildren(r) \/ LockNetworkForDelete(r)
  BY <1>5, <1>6, <1>7, <1>8, <1>9, <1>10 DEF StepOf, Step, SubnetStep, NetworkStep
<1>12. QED
  BY <1>3, <1>4, <1>11
     DEF CheckChildren, CheckNetworkChildren, LockNetworkForDelete, Deleting

\* The parent of a subnet that stays goes only in a deletion of that parent.
LEMMA ParentGoes ==
    ASSUME IndInv, NEW r \in Req, StepOf(r), NEW s \in LiveSubnets, subnets'[s] # Nil,
           NEW p, p = subnets[s].parent, Exists(p), ~Exists(p)'
    PROVE  Deleting(r) /\ arg[r].id = p
<1>1. p \in Uuid
  BY DEF IndInv, TypeOK, StoreTypeOK, LiveSubnets, SubnetRow
<1>2. CASE KeepsSubnets
  BY <1>1, <1>2 DEF KeepsSubnets, Exists
<1>3. CASE Inserted(r)
  BY <1>1, <1>3, InsertEffect, NilAssumption DEF Exists, Uuid
<1>4. CASE Redescribed(r)
  <2>1. subnets[arg[r].id] \in SubnetRow /\ arg[r].id \in Subnet
    BY <1>4 DEF Redescribed, LiveSubnets, IndInv, TypeOK, StoreTypeOK
  <2>2. subnets'[arg[r].id] # Nil
    BY <1>4, <2>1, NilAssumption DEF Redescribed, SubnetRow, IndInv, TypeOK, StoreTypeOK
  <2>3. QED
    BY <1>1, <1>4, <2>1, <2>2 DEF Exists, Redescribed, Uuid, IndInv, TypeOK, StoreTypeOK
<1>5. CASE Removed(r)
  BY <1>1, <1>5 DEF Removed, Deleting, Exists, Uuid, IndInv, TypeOK, StoreTypeOK
<1>6. CASE Swept(r)
  <2>1. pc[r] = "netCascade" /\ arg[r].id \in Net /\ s \notin Cascaded(arg[r].id)
    BY <1>6 DEF Swept, LiveSubnets
  <2>2. CASE p \in Net
    BY <1>6, <2>1, <2>2 DEF Swept, Deleting, Exists, IndInv, TypeOK, StoreTypeOK
  <2>3. CASE p \notin Net
    <3>1. p \in LiveSubnets /\ p \in Cascaded(arg[r].id)
      BY <1>1, <1>6, <2>3 DEF Swept, Exists, Uuid, LiveSubnets
    <3>2. subnets[s].network = subnets[p].network
      BY <3>1 DEF IndInv, NetworkColumnRight
    <3>3. QED
      BY <2>1, <3>1, <3>2 DEF Cascaded
  <2>4. QED
    BY <2>2, <2>3
<1>7. QED
  BY <1>2, <1>3, <1>4, <1>5, <1>6, TableEffect

\* A subnet is created under a parent that is there after the step.
LEMMA NewParentStays ==
    ASSUME IndInv, NEW r \in Req, Inserted(r), NEW p, p = arg[r].id
    PROVE  Exists(p)'
<1>1. pc[r] = "chosen"
  BY InsertEffect
<1>2. Exists(p) /\ p \in Uuid
  BY <1>1 DEF IndInv, RequestInv, CreateAt, InCreateTx, ControlInv, ControlAt, CreatePC
<1>3. QED
  BY <1>2, InsertEffect, NilAssumption DEF Exists, Uuid

\* Every step keeps track of the races.
LEMMA RaceStep ==
    ASSUME IndInv, NEW r \in Req, StepOf(r), ObserveRaces
    PROVE  RaceInv'
<1>1. raced' \subseteq Subnet
  BY DEF ObserveRaces
<1>2. ASSUME NEW p \in Req, Deleting(p)', NEW s \in Subnet, subnets'[s] # Nil,
             subnets'[s].parent = arg'[p].id
      PROVE  s \in raced'
  <2>1. AtRisk(s)'
    BY <1>2 DEF AtRisk, DeletionPending
  <2>2. CASE p # r
    <3>1. Deleting(p) /\ subnets'[s].parent = arg[p].id
      BY <1>2, <2>2, OthersUntouched DEF Deleting, IndInv
    <3>2. CASE s \in LiveSubnets
      <4>1. s \in listByParent(arg[p].id)
        BY <1>2, <3>1, <3>2, LiveStep DEF listByParent
      <4>2. s \in raced
        BY <3>1, <4>1 DEF IndInv, RaceInv
      <4>3. QED
        BY <2>1, <3>2, <4>2 DEF ObserveRaces, LiveSubnets
    <3>3. CASE s \notin LiveSubnets
      <4>1. DeletionPending(subnets'[s].parent)
        BY <3>1 DEF DeletionPending
      <4>2. QED
        BY <1>2, <2>1, <3>3, <4>1 DEF ObserveRaces, LiveSubnets
    <3>4. QED
      BY <3>2, <3>3
  <2>3. CASE p = r
    <3>1. /\ UNCHANGED <<tables, arg>>
          /\ Deleting(r) \/ listByParent(arg[r].id) = {}
      BY <1>2, <2>3, DeletingSteps
    <3>2. subnets[s] # Nil /\ s \in listByParent(arg[r].id)
      BY <1>2, <2>3, <3>1 DEF tables, listByParent, LiveSubnets
    <3>3. s \in raced
      BY <3>1, <3>2 DEF IndInv, RaceInv
    <3>4. QED
      BY <2>1, <3>2, <3>3 DEF ObserveRaces
  <2>4. QED
    BY <2>2, <2>3
<1>3. ASSUME NEW s \in Subnet, subnets'[s] # Nil, NEW p, p = subnets'[s].parent, ~Exists(p)'
      PROVE  s \in raced'
  <2>1. AtRisk(s)'
    BY <1>3 DEF AtRisk, Exists
  <2>2. s \in LiveSubnets /\ subnets[s].parent = p
    BY <1>3, LiveStep, NewParentStays
  <2>3. s \in raced
    <3>1. CASE ~Exists(p)
      BY <2>2, <3>1 DEF IndInv, RaceInv, OrphanedOnlyByRace
    <3>2. CASE Exists(p)
      <4>1. Deleting(r) /\ arg[r].id = p
        BY <1>3, <2>2, <3>2, ParentGoes
      <4>2. s \in listByParent(arg[r].id)
        BY <2>2, <4>1 DEF listByParent
      <4>3. QED
        BY <4>1, <4>2 DEF IndInv, RaceInv
    <3>3. QED
      BY <3>1, <3>2
  <2>4. QED
    BY <2>1, <2>2, <2>3 DEF ObserveRaces, LiveSubnets
<1>4. OrphanedOnlyByRace'
  BY <1>3 DEF OrphanedOnlyByRace, LiveSubnets, Exists
<1>5. \A p \in Req : Deleting(p)' => (listByParent(arg[p].id) \subseteq raced)'
  BY <1>2 DEF listByParent, LiveSubnets
<1>6. QED
  BY <1>1, <1>4, <1>5 DEF RaceInv

-----------------------------------------------------------------------------
(* The theorems about the subnets.                                         *)

\* The strengthened invariant holds at the start and is kept by every step.
LEMMA IndInvInit == Init => IndInv
<1> SUFFICES ASSUME Init PROVE IndInv
  OBVIOUS
<1>1. TypeOK /\ ControlInv
  BY TypeInit
<1>2. \A r \in Req : RequestInv(r)
  BY DEF Init, RequestInv, LockAt, SpentAt, CreateAt, UpdateAt, InCreateTx
<1>3. LiveSubnets = {}
  BY DEF Init, LiveSubnets
<1>4. TenantInv
  BY DEF Init, TenantInv, TenantAt, CreatePC, UpdatePC, DeletePC
<1>5. SpentInv /\ SiblingsDisjoint /\ ChildInsideParent /\ NetworkColumnRight
  BY <1>3 DEF SpentInv, SiblingsDisjoint, ChildInsideParent, NetworkColumnRight
<1>6. RaceInv
  BY <1>3 DEF Init, RaceInv, OrphanedOnlyByRace, Deleting
<1>7. QED
  BY <1>1, <1>2, <1>4, <1>5, <1>6 DEF IndInv

\* Every step of a request preserves the inductive invariant.
LEMMA IndInvStep ==
    ASSUME IndInv, NEW r \in Req, StepOf(r), ObserveRaces
    PROVE  IndInv'
<1>1. RaceInv'
  BY RaceStep
<1>2. TypeOK' /\ ControlInv'
  BY StepType DEF IndInv
<1>3. \A p \in Req : RequestInv(p)'
  BY OthersHold, OwnHolds
<1>4. TenantInv'
  BY OthersTenant, OwnTenant DEF TenantInv
<1>5. QED
  BY <1>1, <1>2, <1>3, <1>4, SpentStep, SiblingsStep, InsideStep, ColumnStep DEF IndInv

\* A step that changes nothing preserves the inductive invariant.
LEMMA IndInvStutter ==
    ASSUME IndInv, UNCHANGED vars
    PROVE  IndInv'
BY DEF vars, system, tables, locks, process, RaceInv, OrphanedOnlyByRace, Deleting, IndInv, TypeOK, StoreTypeOK, ApiTypeOK, ControlInv,
   RequestInv, LockAt, HoldsSerialiser, SpentAt, CreateAt, UpdateAt, Exists, LiveSubnets,
   listByParent, SpentInv, SiblingsDisjoint, ChildInsideParent, NetworkColumnRight,
   UsesSQLiteSyntax, TenantInv, TenantAt

\* The strengthening of the safety properties is an invariant of the server.
THEOREM Inductive == Spec => []IndInv
<1>1. ASSUME IndInv, [Next]_vars PROVE IndInv'
  <2>1. CASE UNCHANGED vars
    BY <1>1, <2>1, IndInvStutter
  <2>2. CASE Next
    <3>1. (\E r \in Req : StepOf(r)) /\ ObserveRaces
      BY <2>2 DEF Next, StepOf
    <3>2. QED
      BY <1>1, <3>1, IndInvStep
  <2>3. QED
    BY <1>1, <2>1, <2>2
<1>2. QED
  BY <1>1, IndInvInit, PTL DEF Spec

\* Two subnets of one parent never overlap, however many requests run at once:
\* CreateAtomically serialises the creates of one parent (subnet.go:104-189).
THEOREM NoSiblingOverlap == Spec => []SiblingsDisjoint
<1>1. IndInv => SiblingsDisjoint
  BY DEF IndInv
<1>2. QED
  BY <1>1, Inductive, PTL

\* A subnet lies inside the subnet it was created under: the CIDR read before
\* the transaction is still right in it (subnet.go:96, 155).
THEOREM AlwaysInsideParent == Spec => []ChildInsideParent
<1>1. IndInv => ChildInsideParent
  BY DEF IndInv
<1>2. QED
  BY <1>1, Inductive, PTL

\* Blocks compared by mask and length, as the code compares them (ipv4.go:39-71),
\* are compared address by address: nothing is handed out twice.
THEOREM AddressesAlwaysSound == Spec => []AddressesSound
<1>1. IndInv => AddressesSound
  <2>1. SUFFICES ASSUME IndInv, NEW s \in LiveSubnets, NEW t \in LiveSubnets
                 PROVE  /\ s # t /\ subnets[s].parent = subnets[t].parent
                             => Addresses(subnets[s].cidr) \cap Addresses(subnets[t].cidr) = {}
                        /\ subnets[s].parent = t
                             => Addresses(subnets[s].cidr) \subseteq Addresses(subnets[t].cidr)
    BY DEF AddressesSound
  <2>2. subnets[s].cidr \in Prefix /\ subnets[t].cidr \in Prefix
    BY <2>1 DEF IndInv, TypeOK, StoreTypeOK, LiveSubnets, SubnetRow
  <2>3. ASSUME s # t, subnets[s].parent = subnets[t].parent
        PROVE  Addresses(subnets[s].cidr) \cap Addresses(subnets[t].cidr) = {}
    <3>1. ~Overlaps(subnets[s].cidr, subnets[t].cidr)
      BY <2>1, <2>3 DEF IndInv, SiblingsDisjoint
    <3>2. QED
      BY <2>2, <3>1, OverlapsMeansShared
  <2>4. ASSUME subnets[s].parent = t
        PROVE  Addresses(subnets[s].cidr) \subseteq Addresses(subnets[t].cidr)
    <3>1. PrefixContains(subnets[t].cidr, subnets[s].cidr)
      BY <2>1, <2>4 DEF IndInv, ChildInsideParent
    <3>2. PICK p \in Prefix, q \in Prefix : p = subnets[t].cidr /\ q = subnets[s].cidr
      BY <2>2
    <3>3. p.len <= q.len /\ Contains(p, q.addr) /\ q.addr \in Word
      BY <3>1, <3>2 DEF PrefixContains, Prefix
    <3>4. Addresses(q) \subseteq Addresses(p)
      BY <3>3, ContainsMeansMember, BlocksNest
    <3>5. QED
      BY <3>2, <3>4
  <2>5. QED
    BY <2>3, <2>4
<1>2. QED
  BY <1>1, Inductive, PTL

\* The network_uuid column is right after every insert, update and cascade
\* (subnet_repository.go:350-374).
THEOREM ColumnAlwaysRight == Spec => []NetworkColumnRight
<1>1. IndInv => NetworkColumnRight
  BY DEF IndInv
<1>2. QED
  BY <1>1, Inductive, PTL

\* The stale copy an update writes back moves no subnet and revives none
\* (subnet.go:298-309).
THEOREM IdentityNeverChanges == Spec => SubnetIdentityFixed
<1> DEFINE Kept == \A s \in Subnet :
             /\ subnets[s] # Nil /\ subnets'[s] # Nil =>
                  \E d \in Text : subnets'[s] = [subnets[s] EXCEPT !.desc = d]
             /\ subnets[s] = Nil /\ s \in used => subnets'[s] = Nil
<1>1. ASSUME IndInv, [Next]_vars PROVE [Kept]_vars
  <2>1. CASE Next
    <3>1. PICK r \in Req : StepOf(r)
      BY <2>1 DEF Next, StepOf
    <3>2. QED
      BY <1>1, <3>1, IdentityStep DEF SameButDesc
  <2>2. QED
    BY <1>1, <2>1
<1>2. QED
  BY <1>1, Inductive, PTL DEF Spec, SubnetIdentityFixed

\* A subnet changes only through the URL of its own network, or with it: what
\* ensureInNetwork found is still true at the commit, several queries and a
\* transaction later (subnet.go:267-285).
THEOREM TenancyAlwaysKept == Spec => TenancyKept
<1> DEFINE Owner(s) == IF subnets[s] # Nil THEN subnets[s].network ELSE subnets'[s].network
           Right(s, r) == /\ pc[r] # "idle" /\ pc'[r] = "idle"
                          /\ \/ arg[r].op \in SubnetOps /\ arg[r].net = Owner(s)
                             \/ arg[r].op = "DeleteNetwork" /\ arg[r].id = Owner(s)
<1>1. ASSUME IndInv, NEW r \in Req, StepOf(r), NEW s \in Subnet, subnets'[s] # subnets[s]
      PROVE  Right(s, r)
  <2>1. /\ pc \in [Req -> {"idle"} \cup SubnetPC \cup NetworkPC]
        /\ subnets \in [Subnet -> SubnetRow \cup {Nil}]
        /\ TenantAt(r)
    BY <1>1 DEF IndInv, TypeOK, ApiTypeOK, StoreTypeOK, TenantInv
  <2>2. \A out : Answer(r, out) => pc'[r] = "idle"
    BY <2>1 DEF Answer
  <2>3. pc[r] \in SubnetPC => arg[r].op \in SubnetOps
    BY <1>1 DEF IndInv, ControlInv, ControlAt
  <2>4. ~KeepsSubnets
    BY <1>1 DEF KeepsSubnets
  <2>5. CASE Inserted(r)
    <3>1. /\ pc[r] = "chosen" /\ Answer(r, "ok") /\ arg[r].id \in Uuid
      BY <1>1, <2>5, InsertedRow DEF IndInv, Inserted
    <3>2. subnets[s] = Nil /\ subnets'[s].network = NetworkColumn(arg[r].id)
      BY <1>1, <2>5, InsertEffect
    <3>3. Exists(arg[r].id)
      BY <1>1, <3>1 DEF IndInv, RequestInv, CreateAt, InCreateTx
    <3>4. NetworkColumn(arg[r].id) = arg[r].net
      BY <2>1, <3>1, <3>3 DEF NetworkColumn, Exists, TenantAt, CreatePC, LiveSubnets, Uuid
    <3>5. QED
      BY <2>2, <2>3, <3>1, <3>2, <3>4 DEF SubnetPC, CreatePC
  <2>6. CASE Redescribed(r) \/ Removed(r)
    <3>1. /\ pc[r] \in {"updateWrite", "deleteTx"} /\ Answer(r, "ok")
          /\ arg[r].id \in LiveSubnets /\ s = arg[r].id
      BY <1>1, <2>1, <2>6 DEF Redescribed, Removed
    <3>2. subnets[s] # Nil /\ subnets[s].network = arg[r].net
      BY <2>1, <3>1 DEF TenantAt, UpdatePC, DeletePC, LiveSubnets
    <3>3. QED
      BY <2>2, <2>3, <3>1, <3>2 DEF SubnetPC, UpdatePC, DeletePC
  <2>7. CASE Swept(r)
    <3>1. /\ pc[r] = "netCascade" /\ Answer(r, "ok")
          /\ s \in Cascaded(arg[r].id)
      BY <1>1, <2>7 DEF Swept
    <3>2. subnets[s] # Nil /\ subnets[s].network = arg[r].id
      BY <3>1 DEF Cascaded, LiveSubnets
    <3>3. arg[r].op = "DeleteNetwork"
      BY <2>1, <3>1 DEF TenantAt
    <3>4. QED
      BY <2>2, <3>1, <3>2, <3>3
  <2>8. QED
    BY <1>1, <2>4, <2>5, <2>6, <2>7, TableEffect
<1> DEFINE Kept == \A s \in Subnet : subnets'[s] # subnets[s] => \E r \in Req : Right(s, r)
<1>2. ASSUME IndInv, [Next]_vars PROVE [Kept]_vars
  <2>1. CASE Next
    <3>1. PICK r \in Req : StepOf(r)
      BY <2>1 DEF Next, StepOf
    <3>2. \A s \in Subnet : subnets'[s] # subnets[s] => Right(s, r)
      BY <1>1, <1>2, <3>1
    <3>3. Kept
      BY <3>2
    <3>4. QED
      BY <3>3
  <2>2. QED
    BY <1>2, <2>1
<1>3. QED
  BY <1>2, Inductive, PTL DEF Spec, TenancyKept

\* A subnet that outlives its parent was created between the parent's check for
\* children and its removal, whoever else was at work (subnet.go:331-343).
THEOREM OrphansAreRaces == Spec => []OrphanedOnlyByRace
<1>1. IndInv => OrphanedOnlyByRace
  BY DEF IndInv, RaceInv
<1>2. QED
  BY <1>1, Inductive, PTL

\* The cascade of a network takes only subnets that came after a check for
\* children, and what is under them (network.go:163-175).
THEOREM CascadesAreRaces == Spec => CascadedOnlyByRace
<1> DEFINE Came(n, s) == s \in raced \/ subnets[s].parent \in Cascaded(n)
           Kept == \A n \in Net : networks[n] # Nil /\ networks'[n] = Nil =>
                     \A s \in Cascaded(n) : Came(n, s)
<1>1. ASSUME IndInv, NEW r \in Req, StepOf(r), NEW n \in Net,
             networks[n] # Nil, networks'[n] = Nil, NEW s \in Cascaded(n)
      PROVE  Came(n, s)
  <2>1. Swept(r)
    BY <1>1, TableEffect, InsertEffect DEF KeepsSubnets, Redescribed, Removed
  <2>2. pc[r] = "netCascade" /\ arg[r].id = n
    BY <1>1, <2>1 DEF Swept, IndInv, TypeOK, StoreTypeOK
  <2>3. /\ s \in LiveSubnets /\ subnets[s].network = n
        /\ subnets[s].parent \in Uuid
    BY <1>1 DEF Cascaded, IndInv, TypeOK, StoreTypeOK, LiveSubnets, SubnetRow
  <2>4. /\ subnets[s].parent \in Net => subnets[s].parent = n
        /\ subnets[s].parent \in LiveSubnets => subnets[subnets[s].parent].network = n
    BY <1>1, <2>3 DEF IndInv, NetworkColumnRight
  <2>5. CASE subnets[s].parent \in Net
    <3>1. s \in listByParent(arg[r].id)
      BY <2>2, <2>3, <2>4, <2>5 DEF listByParent
    <3>2. QED
      BY <1>1, <2>2, <3>1 DEF IndInv, RaceInv, Deleting
  <2>6. CASE subnets[s].parent \in LiveSubnets
    BY <2>4, <2>6 DEF Cascaded
  <2>7. CASE subnets[s].parent \in Subnet \ (Net \cup LiveSubnets)
    <3>1. ~Exists(subnets[s].parent)
      BY <2>7 DEF Exists, LiveSubnets
    <3>2. QED
      BY <1>1, <2>3, <3>1 DEF IndInv, RaceInv, OrphanedOnlyByRace
  <2>8. QED
    BY <2>3, <2>5, <2>6, <2>7 DEF Uuid
<1>2. ASSUME IndInv, [Next]_vars PROVE [Kept]_vars
  <2>1. CASE Next
    <3>1. PICK r \in Req : StepOf(r)
      BY <2>1 DEF Next, StepOf
    <3>2. QED
      BY <1>1, <1>2, <3>1
  <2>2. QED
    BY <1>2, <2>1
<1>3. QED
  BY <1>2, Inductive, PTL DEF Spec, CascadedOnlyByRace

-----------------------------------------------------------------------------
(* Names.                                                                  *)

\* A network keeps its name, goes, or takes a name no other network has.
LEMMA NetworkNameStep ==
    ASSUME IndInv, NEW r \in Req, StepOf(r)
    PROVE  \/ \A n \in Net : networks'[n] \in {networks[n], Nil}
           \/ \E m \in Net :
                /\ \A n \in Net \ {m} : networks'[n] = networks[n]
                /\ \A n \in Net \ {m} :
                     networks[n] # Nil => networks[n].name # networks'[m].name
<1>1. networks \in [Net -> NetworkRow \cup {Nil}]
  BY DEF IndInv, TypeOK, StoreTypeOK
<1>2. CASE UNCHANGED networks
  BY <1>1, <1>2
<1>3. CASE \E err : Refuse(r, err)
  BY <1>2, <1>3 DEF Refuse, tables
<1>4. CASE InsertNetwork(r) /\ ~\E err : Refuse(r, err)
  <2>1. PICK m \in Net \ used : networks' = [networks EXCEPT ![m] = NetworkRowOf(arg[r])]
    BY <1>4 DEF InsertNetwork
  <2>2. NetworksNamed(arg[r].name) = {}
    BY <1>4 DEF InsertNetwork
  <2>3. networks'[m].name = arg[r].name
    BY <1>1, <2>1 DEF NetworkRowOf
  <2>4. \A n \in Net \ {m} : networks[n] # Nil => networks[n].name # arg[r].name
    BY <2>2 DEF NetworksNamed
  <2>5. \A n \in Net \ {m} : networks'[n] = networks[n]
    BY <1>1, <2>1
  <2>6. QED
    BY <2>3, <2>4, <2>5
<1>5. CASE WriteNetwork(r) /\ ~\E err : Refuse(r, err)
  <2> DEFINE m == arg[r].id
  <2>1. /\ m \in Net
        /\ networks' = [networks EXCEPT ![m] = NetworkRowOf(arg[r])]
        /\ NetworksNamed(arg[r].name) \ {m} = {}
    BY <1>5 DEF WriteNetwork, IndInv, ControlInv, ControlAt, NetworkPC
  <2> HIDE DEF m
  <2>2. networks'[m].name = arg[r].name
    BY <1>1, <2>1 DEF NetworkRowOf
  <2>3. \A n \in Net \ {m} : networks[n] # Nil => networks[n].name # arg[r].name
    BY <2>1 DEF NetworksNamed
  <2>4. \A n \in Net \ {m} : networks'[n] = networks[n]
    BY <1>1, <2>1
  <2>5. QED
    BY <2>1, <2>2, <2>3, <2>4
<1>6. CASE CascadeAndCommit(r)
  BY <1>1, <1>6 DEF CascadeAndCommit
<1>7. CASE \/ Receive(r) \/ SubnetStep(r) \/ Fail(r) \/ DeadlockAbort(r)
           \/ (NetworkStep(r) /\ ~InsertNetwork(r) /\ ~WriteNetwork(r) /\ ~CascadeAndCommit(r))
  <2>1. CASE ChooseBlock(r)
    BY <1>2, <1>3, <2>1, ChosenBlock DEF tables
  <2>2. CASE ~ChooseBlock(r)
    <3>1. CASE SubnetStep(r)
      BY <1>2, <1>3, <2>2, <3>1 DEF SubnetStep, EnsureInNetwork, ResolveParentContext, Climb,
         ResolveNetworkUUID, LockParentForCreate, CheckName, InsertSubnet, ReadForUpdate,
         BeginUpdate, WriteUpdate, ReadForDelete, CheckChildren, DeleteSubnet, tables
    <3>2. CASE ~SubnetStep(r)
      BY <1>2, <1>3, <1>7, <3>2 DEF Receive, Fail, DeadlockAbort, NetworkStep, CheckNetworkName,
         ReadNetwork, CheckNewName, ReadNetworkForDelete, CheckNetworkChildren,
         LockNetworkForDelete, tables
    <3>3. QED
      BY <3>1, <3>2
  <2>3. QED
    BY <2>1, <2>2
<1>8. QED
  BY <1>3, <1>4, <1>5, <1>6, <1>7 DEF StepOf, Step, NetworkStep

\* Network names and the subnet names of one network are unique whatever requests
\* race: the checks before the transaction may be stale, the schema's are not.
THEOREM NamesAlwaysUnique == Spec => []NamesUnique
<1>1. Init => NamesUnique
  BY SeedAssumption DEF Init, NamesUnique, LiveSubnets
<1>2. ASSUME IndInv, NamesUnique, [Next]_vars
      PROVE  NamesUnique'
  <2>1. CASE UNCHANGED vars
    BY <1>2, <2>1 DEF vars, system, tables, NamesUnique, LiveSubnets
  <2>2. CASE Next
    <3>1. PICK r \in Req : StepOf(r)
      BY <2>2 DEF Next, StepOf
    <3>2. ASSUME NEW m \in Net, NEW n \in Net, m # n, networks'[m] # Nil, networks'[n] # Nil
          PROVE  networks'[m].name # networks'[n].name
      BY <1>2, <3>1, <3>2, NetworkNameStep DEF NamesUnique
    <3>3. ASSUME NEW a \in Subnet, NEW b \in Subnet, a # b, a \notin LiveSubnets,
                 subnets'[a] # Nil, subnets'[b] # Nil,
                 subnets'[a].network = subnets'[b].network
          PROVE  subnets'[a].name # subnets'[b].name
      <4>1. /\ Inserted(r) /\ subnets'[b] = subnets[b]
            /\ subnets'[a].name = arg[r].name
            /\ subnets'[a].network = NetworkColumn(arg[r].id)
        BY <1>2, <3>1, <3>3, LiveStep
      <4>2. SubnetsNamed(NetworkColumn(arg[r].id), arg[r].name) = {}
        BY <1>2, <4>1, InsertedRow DEF Inserted, IndInv
      <4>3. QED
        BY <3>3, <4>1, <4>2 DEF SubnetsNamed, LiveSubnets
    <3>4. ASSUME NEW s \in Subnet, NEW t \in Subnet, s # t,
                 subnets'[s] # Nil, subnets'[t] # Nil,
                 subnets'[s].network = subnets'[t].network
          PROVE  subnets'[s].name # subnets'[t].name
      <4>1. CASE s \in LiveSubnets /\ t \in LiveSubnets
        <5>1. /\ subnets'[s].name = subnets[s].name /\ subnets'[s].network = subnets[s].network
              /\ subnets'[t].name = subnets[t].name /\ subnets'[t].network = subnets[t].network
          BY <1>2, <3>1, <3>4, <4>1, LiveStep
        <5>2. QED
          BY <1>2, <3>4, <4>1, <5>1 DEF NamesUnique
      <4>2. QED
        BY <3>3, <3>4, <4>1
    <3>5. QED
      BY <3>2, <3>4 DEF NamesUnique, LiveSubnets
  <2>3. QED
    BY <1>2, <2>1, <2>2
<1>3. QED
  BY <1>1, <1>2, Inductive, PTL DEF Spec

-----------------------------------------------------------------------------
(* The refinement of the atomic plan.                                      *)

\* AddressPlan computes with the same prefixes.
LEMMA SamePrefixes ==
    /\ Plan!Prefix = Prefix
    /\ \A p, q : Plan!PrefixContains(p, q) = PrefixContains(p, q)
    /\ \A p, q : Plan!Overlaps(p, q) = Overlaps(p, q)
BY DEF Plan!Prefix, Prefix, Plan!Word, Word, Plan!PrefixLen, PrefixLen, Plan!Masked, Masked,
   Plan!PrefixContains, PrefixContains, Plan!Contains, Contains, Plan!Overlaps, Overlaps

\* The plan entry of a row.
EntryOf(row) == [network |-> row.network, name |-> row.name, cidr |-> row.cidr,
                 parent |-> row.parent]

\* A live row has an entry in the plan, a dead one has none.
LEMMA PlanAt ==
    ASSUME IndInv
    PROVE  /\ \A s \in LiveSubnets : PlanOf[s] = EntryOf(subnets[s]) /\ PlanOf[s] # Nil
           /\ \A s \in LiveSubnets :
                /\ PlanOf[s].network = subnets[s].network /\ PlanOf[s].name = subnets[s].name
                /\ PlanOf[s].cidr = subnets[s].cidr /\ PlanOf[s].parent = subnets[s].parent
           /\ \A s \in Subnet \ LiveSubnets : PlanOf[s] = Nil
           /\ Plan!InPlan = LiveSubnets
<1>1. \A s \in LiveSubnets : PlanOf[s] = EntryOf(subnets[s])
  BY DEF PlanOf, EntryOf, LiveSubnets
<1>2. \A s \in LiveSubnets : EntryOf(subnets[s]) \in Plan!Entry
  <2>1. \A s \in LiveSubnets : subnets[s] \in SubnetRow
    BY DEF LiveSubnets, IndInv, TypeOK, StoreTypeOK
  <2>2. QED
    BY <2>1, SamePrefixes DEF EntryOf, Plan!Entry, SubnetRow, Uuid
<1>3. \A s \in Subnet \ LiveSubnets : PlanOf[s] = Nil
  BY DEF PlanOf, LiveSubnets
<1>4. \A s \in LiveSubnets : PlanOf[s] # Nil
  BY <1>1, <1>2, EntryAssumption
<1>5. ASSUME NEW s \in LiveSubnets
      PROVE  /\ PlanOf[s].network = subnets[s].network /\ PlanOf[s].name = subnets[s].name
             /\ PlanOf[s].cidr = subnets[s].cidr /\ PlanOf[s].parent = subnets[s].parent
  <2>1. PlanOf[s] = [network |-> subnets[s].network, name |-> subnets[s].name,
                     cidr |-> subnets[s].cidr, parent |-> subnets[s].parent]
    BY <1>1 DEF EntryOf
  <2>2. QED
    BY <2>1
<1>6. QED
  BY <1>1, <1>3, <1>4, <1>5 DEF Plan!InPlan, LiveSubnets

\* No table of subnets changes, or only descriptions: the plan stutters.
LEMMA PlanStutters ==
    ASSUME IndInv, NEW r \in Req, StepOf(r), IndInv', KeepsSubnets \/ Redescribed(r)
    PROVE  PlanOf' = PlanOf /\ (used \cap Subnet)' = used \cap Subnet
<1>1. (used \cap Subnet)' = used \cap Subnet
  BY UuidAssumption DEF KeepsSubnets, Redescribed
<1>2. ASSUME NEW s \in Subnet
      PROVE  PlanOf'[s] = PlanOf[s]
  <2>1. subnets'[s] # Nil <=> subnets[s] # Nil
    <3>1. CASE KeepsSubnets
      BY <3>1 DEF KeepsSubnets
    <3>2. CASE Redescribed(r)
      <4>1. \A t \in LiveSubnets : subnets[t] \in SubnetRow
        BY DEF LiveSubnets, IndInv, TypeOK, StoreTypeOK
      <4>2. \A d \in Text : [subnets[arg[r].id] EXCEPT !.desc = d] \in SubnetRow
        BY <3>2, <4>1 DEF Redescribed, SubnetRow
      <4>3. QED
        BY <3>2, <4>2, NilAssumption
           DEF Redescribed, LiveSubnets, IndInv, TypeOK, StoreTypeOK
    <3>3. QED
      BY <3>1, <3>2
  <2>2. CASE subnets[s] # Nil
    <3>1. /\ s \in LiveSubnets
          /\ subnets'[s].cidr = subnets[s].cidr /\ subnets'[s].parent = subnets[s].parent
          /\ subnets'[s].network = subnets[s].network /\ subnets'[s].name = subnets[s].name
      BY <2>1, <2>2, LiveStep DEF LiveSubnets
    <3>2. QED
      BY <2>1, <2>2, <3>1 DEF PlanOf
  <2>3. CASE subnets[s] = Nil
    BY <2>1, <2>3 DEF PlanOf
  <2>4. QED
    BY <2>2, <2>3
<1>3. QED
  BY <1>1, <1>2 DEF PlanOf

\* A committed insert is one allocation of the atomic plan.
LEMMA InsertAllocates ==
    ASSUME IndInv, NEW r \in Req, StepOf(r), IndInv', Inserted(r)
    PROVE  \E s \in Subnet : Plan!Allocate(s)
<1>1. PICK s \in Subnet \ used :
        /\ pc[r] = "chosen"
        /\ used' = used \cup {s}
        /\ subnets[s] = Nil /\ subnets'[s] \in SubnetRow
        /\ \A t \in Subnet \ {s} : subnets'[t] = subnets[t]
        /\ subnets'[s].parent = arg[r].id
        /\ subnets'[s].cidr = loc[r].block
        /\ subnets'[s].name = arg[r].name
        /\ subnets'[s].network = NetworkColumn(arg[r].id)
  BY InsertEffect
<1>2. /\ \A t \in Subnet \ {s} : PlanOf'[t] = PlanOf[t]
      /\ PlanOf'[s] = EntryOf(subnets'[s])
      /\ PlanOf' = [PlanOf EXCEPT ![s] = PlanOf'[s]]
  <2>1. \A t \in Subnet \ {s} : PlanOf'[t] = PlanOf[t]
    BY <1>1 DEF PlanOf
  <2>2. PlanOf'[s] = EntryOf(subnets'[s])
    BY <1>1, NilAssumption DEF PlanOf, EntryOf
  <2>3. PlanOf = [t \in Subnet |-> PlanOf[t]] /\ PlanOf' = [t \in Subnet |-> PlanOf'[t]]
    BY DEF PlanOf
  <2>4. PlanOf' = [PlanOf EXCEPT ![s] = PlanOf'[s]]
    BY <2>1, <2>3
  <2>5. QED
    BY <2>1, <2>2, <2>4
<1>3. /\ PlanOf'[s].network = subnets'[s].network /\ PlanOf'[s].name = subnets'[s].name
      /\ PlanOf'[s].cidr = subnets'[s].cidr /\ PlanOf'[s].parent = subnets'[s].parent
  BY <1>2 DEF EntryOf
<1>4. PlanOf'[s] \in Plan!Entry
  BY <1>1, <1>2, SamePrefixes DEF EntryOf, Plan!Entry, SubnetRow, Uuid
<1>5. \A t \in LiveSubnets : /\ PlanOf[t].network = subnets[t].network
                             /\ PlanOf[t].name = subnets[t].name
                             /\ PlanOf[t].cidr = subnets[t].cidr
                             /\ PlanOf[t].parent = subnets[t].parent
  BY PlanAt
<1>6. Plan!Fits(PlanOf'[s])
  <2>1. /\ Exists(arg[r].id) /\ arg[r].id \in Uuid
        /\ arg[r].id \in LiveSubnets => loc[r].prefix = {subnets[arg[r].id].cidr}
        /\ \A p \in loc[r].prefix : PrefixContains(p, loc[r].block)
        /\ \A t \in listByParent(arg[r].id) : ~Overlaps(loc[r].block, subnets[t].cidr)
    BY <1>1 DEF IndInv, RequestInv, CreateAt, InCreateTx, ControlInv, ControlAt, CreatePC
  <2>2. \/ PlanOf'[s].parent \in Net /\ PlanOf'[s].network = PlanOf'[s].parent
        \/ /\ PlanOf'[s].parent \in Plan!InPlan
           /\ PlanOf'[s].network = PlanOf[PlanOf'[s].parent].network
           /\ Plan!PrefixContains(PlanOf[PlanOf'[s].parent].cidr, PlanOf'[s].cidr)
    <3>1. CASE arg[r].id \in Net
      BY <1>1, <1>3, <3>1 DEF NetworkColumn
    <3>2. CASE arg[r].id \notin Net
      <4>1. arg[r].id \in LiveSubnets
        BY <2>1, <3>2 DEF Exists, Uuid, LiveSubnets
      <4>2. NetworkColumn(arg[r].id) = subnets[arg[r].id].network
        BY <3>2, <4>1 DEF NetworkColumn, LiveSubnets
      <4>3. PrefixContains(subnets[arg[r].id].cidr, loc[r].block)
        BY <2>1, <4>1
      <4>4. QED
        BY <1>1, <1>3, <1>5, <4>1, <4>2, <4>3, PlanAt, SamePrefixes
    <3>3. QED
      BY <3>1, <3>2
  <2>3. ASSUME NEW t \in LiveSubnets
        PROVE  /\ subnets[t].parent = arg[r].id => ~Overlaps(loc[r].block, subnets[t].cidr)
               /\ subnets[t].network = NetworkColumn(arg[r].id)
                    => subnets[t].name # arg[r].name
    <3>1. SubnetsNamed(NetworkColumn(arg[r].id), arg[r].name) = {}
      BY InsertedRow DEF Inserted, IndInv
    <3>2. QED
      BY <2>1, <3>1 DEF SubnetsNamed, listByParent
  <2>4. \A t \in Plan!InPlan :
          /\ PlanOf[t].parent = PlanOf'[s].parent
                => ~Plan!Overlaps(PlanOf'[s].cidr, PlanOf[t].cidr)
          /\ PlanOf[t].network = PlanOf'[s].network => PlanOf[t].name # PlanOf'[s].name
    BY <1>1, <1>3, <1>5, <2>3, PlanAt, SamePrefixes
  <2>5. QED
    BY <2>2, <2>4 DEF Plan!Fits
<1>7. (used \cap Subnet)' = (used \cap Subnet) \cup {s} /\ s \notin used \cap Subnet
  BY <1>1
<1>8. QED
  BY <1>2, <1>4, <1>6, <1>7 DEF Plan!Allocate

\* A committed delete withdraws one subnet, a committed network delete all of the
\* network's.
LEMMA RemovalWithdraws ==
    ASSUME IndInv, NEW r \in Req, Removed(r) \/ Swept(r)
    PROVE  \/ \E s \in Subnet : Plan!Withdraw(s)
           \/ \E n \in Net : Plan!WithdrawNetwork(n)
<1>1. /\ subnets \in [Subnet -> SubnetRow \cup {Nil}]
      /\ (used \cap Subnet)' = used \cap Subnet
  BY DEF Removed, Swept, IndInv, TypeOK, StoreTypeOK
<1>2. CASE Removed(r)
  <2> DEFINE s == arg[r].id
  <2>1. s \in LiveSubnets /\ subnets' = [subnets EXCEPT ![s] = Nil]
    BY <1>2 DEF Removed
  <2> HIDE DEF s
  <2>2. s \in Subnet /\ PlanOf' = [PlanOf EXCEPT ![s] = Nil]
    BY <1>1, <2>1 DEF PlanOf, LiveSubnets
  <2>3. QED
    BY <1>1, <2>1, <2>2, PlanAt DEF Plan!Withdraw
<1>3. CASE Swept(r)
  <2> DEFINE n == arg[r].id
  <2>1. /\ n \in Net
        /\ subnets' = [s \in Subnet |-> IF s \in Cascaded(n) THEN Nil ELSE subnets[s]]
    BY <1>3 DEF Swept
  <2> HIDE DEF n
  <2>2. \A s \in Subnet : s \in Cascaded(n) <=> s \in LiveSubnets /\ PlanOf[s].network = n
    BY PlanAt DEF Cascaded, LiveSubnets
  <2>3. PlanOf' = [s \in Subnet |-> IF s \in Cascaded(n) THEN Nil ELSE PlanOf[s]]
    BY <2>1 DEF PlanOf
  <2>4. PlanOf' = [s \in Subnet |->
                     IF s \in Plan!InPlan /\ PlanOf[s].network = n THEN Nil ELSE PlanOf[s]]
    BY <2>2, <2>3, PlanAt
  <2>5. QED
    BY <1>1, <2>1, <2>4 DEF Plan!WithdrawNetwork
<1>4. QED
  BY <1>2, <1>3

\* The server implements the atomic plan: whatever the requests interleave, every
\* commit is one allocation or withdrawal that is right at that moment.
THEOREM ImplementsAtomicPlan == Spec => ImplementsPlan
<1>1. Init => Plan!PlanInit
  <2>1. Init => used \cap Subnet = {} /\ \A s \in Subnet : subnets[s] = Nil
    BY UuidAssumption DEF Init
  <2>2. QED
    BY <2>1 DEF Plan!PlanInit, PlanOf
<1>2. ASSUME IndInv, IndInv', [Next]_vars
      PROVE  [Plan!PlanNext]_(Plan!planVars)
  <2>1. CASE UNCHANGED vars
    BY <2>1 DEF vars, system, tables, PlanOf, Plan!planVars
  <2>2. CASE Next
    <3>1. PICK r \in Req : StepOf(r)
      BY <2>2 DEF Next, StepOf
    <3>2. CASE KeepsSubnets \/ Redescribed(r)
      BY <1>2, <3>1, <3>2, PlanStutters DEF Plan!planVars
    <3>3. CASE Inserted(r)
      BY <1>2, <3>1, <3>3, InsertAllocates DEF Plan!PlanNext
    <3>4. CASE Removed(r) \/ Swept(r)
      BY <1>2, <3>4, RemovalWithdraws DEF Plan!PlanNext
    <3>5. QED
      BY <1>2, <3>1, <3>2, <3>3, <3>4, TableEffect
  <2>3. QED
    BY <1>2, <2>1, <2>2
<1>3. QED
  BY <1>1, <1>2, Inductive, PTL DEF Spec, ImplementsPlan, Plan!PlanSpec
=============================================================================
