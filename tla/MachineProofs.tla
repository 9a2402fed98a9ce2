---------------------------- MODULE MachineProofs ---------------------------
(***************************************************************************)
(* Proofs about MachineIdentity for every number of requests, pools,       *)
(* providers, machines and keys, and every set of requests that the routes *)
(* admit.                                                                  *)
(***************************************************************************)
EXTENDS MachineInvariant, TLAPS

-----------------------------------------------------------------------------
(* What a step does to the process state: a request is answered with a     *)
(* status or with a machine that it has seen entitled, or it moves on to a *)
(* label whose invariant holds.                                            *)

Entitled(r, m) ==
    IF arg[r].op = "AuthKey" THEN {"key", "machine", "pool"} \subseteq seen[r]
    ELSE <<"enabled", m>> \in seen[r]

Answered(r) ==
    /\ pc[r] # "idle"
    /\ \/ \E status \in Status : Answer(r, status)
       \/ \E m \in Machine : Answer(r, m) /\ Entitled(r, m)

Moved(r) ==
    /\ pc[r] # "idle"
    /\ \E l \in Label \ {"idle"}, x \in Locals :
        /\ Proceed(r, l, x)
        /\ ControlAt(l, arg[r], x)
        /\ InformedAt(l, arg[r], x, seen[r])

\* What the proofs below use of a request in flight.
LEMMA AtRequest ==
    ASSUME MachineInv, NEW r \in Req, pc[r] # "idle"
    PROVE  /\ arg[r] \in Requests /\ arg[r] \in Args
           /\ loc[r] \in Locals
           /\ pc[r] \in Label
           /\ ControlAt(pc[r], arg[r], loc[r])
           /\ InformedAt(pc[r], arg[r], loc[r], seen[r])
           /\ Facts(r) \subseteq seen[r]
BY MachineRequestsAssumption
   DEF MachineInv, TypeOK, ControlInv, KnowledgeInv, SeenAt

LEMMA RefuseAnswers ==
    ASSUME NEW r \in Req, pc[r] # "idle", NEW status \in Status, Refuse(r, status)
    PROVE  Answered(r)
BY DEF Answered, Refuse

LEMMA ProceedMoves ==
    ASSUME NEW r \in Req, pc[r] # "idle", NEW l \in Label \ {"idle"}, NEW x \in Locals,
           Proceed(r, l, x), ControlAt(l, arg[r], x),
           InformedAt(l, arg[r], x, seen[r])
    PROVE  Moved(r)
BY DEF Moved

\* The labels that ask nothing of the tables or the history.
LEMMA Uninformed ==
    ASSUME NEW l \in Label, NEW q, NEW x, NEW s,
           l \notin {"provName", "provIssuer", "provWrite", "machName", "machWrite",
                     "keyMachine", "keyPool", "keyTouch", "jwtVerify", "jwtMachines"}
    PROVE  InformedAt(l, q, x, s)
BY DEF InformedAt, ProviderAt, KeyAt, JwtAt

\* A field that the body leaves out keeps its value, in either case one of the
\* column's.
LEMMA OrIn ==
    ASSUME NEW S, NEW x \in S \cup {Nil}, NEW y \in S
    PROVE  Or(x, y) \in S
BY DEF Or

\* A query of uniqueness keeps the locals or refuses.
LEMMA UniqueCases ==
    ASSUME NEW r, NEW here, NEW taken, NEW next, Unique(r, here, taken, next)
    PROVE  /\ pc[r] = here
           /\ Proceed(r, next, loc[r]) \/ Refuse(r, 409)
BY DEF Unique

-----------------------------------------------------------------------------
(* MachineIdentityService.                                                 *)

LEMMA PoolProcess ==
    ASSUME MachineInv, NEW r \in Req,
           \/ ReadPool(r) \/ EnsurePoolUnique(r) \/ WritePoolRow(r) \/ DeletePool(r)
    PROVE  Answered(r) \/ Moved(r)
<1> DEFINE q == arg[r]
           x == loc[r]
<1>0. /\ pc[r] \in PoolPC /\ pc[r] # "idle"
      /\ q \in Requests /\ q \in Args /\ x \in Locals
      /\ ControlAt(pc[r], q, x)
  <2>1. pc[r] \in PoolPC /\ pc[r] # "idle"
    BY DEF ReadPool, EnsurePoolUnique, WritePoolRow, DeletePool, Unique, PoolPC
  <2>2. QED
    BY <2>1, AtRequest
<1>1. CASE ReadPool(r)
  <2> DEFINE old == pools[q.pool]
             new == [name |-> Or(q.name, old.name), slug |-> Or(q.slug, old.slug),
                     enabled |-> Or(q.enabled, old.enabled)]
             y == [x EXCEPT !.id = q.pool, !.row = new]
  <2>1. pc[r] = "poolRead" /\ q.op = "UpdatePool" /\ q.pool \in Pool
    BY <1>0, <1>1, MachineRequestsAssumption DEF ReadPool, ControlAt
  <2>2. CASE old # Nil /\ Proceed(r, "poolSlug", y)
    <3>1. old \in PoolRow
      BY <2>1, <2>2 DEF MachineInv, TypeOK, StoreTypeOK
    <3>2. new \in PoolRow
      <4>1. /\ q.name \in Name \cup {Nil} /\ q.slug \in Name \cup {Nil}
            /\ q.enabled \in BOOLEAN \cup {Nil}
            /\ old.name \in Name /\ old.slug \in Name /\ old.enabled \in BOOLEAN
        BY <1>0, <3>1 DEF Args, PoolRow
      <4>2. /\ Or(q.name, old.name) \in Name /\ Or(q.slug, old.slug) \in Name
            /\ Or(q.enabled, old.enabled) \in BOOLEAN
        BY <4>1, OrIn
      <4>3. QED
        BY <4>2 DEF PoolRow
    <3> HIDE DEF new
    <3>3. y \in Locals /\ y.id = q.pool /\ y.row = new
      BY <1>0, <2>1, <3>2 DEF Locals
    <3> HIDE DEF y
    <3>4. ControlAt("poolSlug", q, y)
      BY <2>1, <3>2, <3>3 DEF ControlAt, AuthKeyPC, AuthJwtPC
    <3>5. QED
      BY <1>0, <2>2, <3>3, <3>4, ProceedMoves, Uninformed DEF Label, PoolPC
  <2>3. CASE Refuse(r, 404) \/ Refuse(r, 400)
    BY <1>0, <2>3, RefuseAnswers DEF Status
  <2>4. QED
    BY <1>1, <2>2, <2>3 DEF ReadPool
<1>2. CASE EnsurePoolUnique(r)
  <2>1. /\ pc[r] \in {"poolSlug", "poolNames"}
        /\ \/ Refuse(r, 400) \/ Refuse(r, 409)
           \/ Proceed(r, "poolNames", x) \/ Proceed(r, "poolWrite", x)
    BY <1>2, UniqueCases DEF EnsurePoolUnique
  <2>2. ASSUME NEW l \in {"poolNames", "poolWrite"}, Proceed(r, l, x)
        PROVE  Moved(r)
    <3>1. ControlAt(l, q, x)
      BY <1>0, <2>1, <2>2 DEF ControlAt, AuthKeyPC, AuthJwtPC
    <3>2. QED
      BY <1>0, <2>2, <3>1, ProceedMoves, Uninformed DEF Label, PoolPC
  <2>3. QED
    BY <1>0, <2>1, <2>2, RefuseAnswers DEF Status
<1>3. CASE WritePoolRow(r)
  <2>1. Refuse(r, 404) \/ Refuse(r, 500) \/ Answer(r, 201) \/ Answer(r, 200)
    BY <1>3 DEF WritePoolRow
  <2>2. QED
    BY <1>0, <2>1, RefuseAnswers DEF Answered, Status
<1>4. CASE DeletePool(r)
  <2>1. Refuse(r, 404) \/ Answer(r, 200)
    BY <1>4 DEF DeletePool
  <2>2. QED
    BY <1>0, <2>1, RefuseAnswers DEF Answered, Status
<1>5. QED
  BY <1>1, <1>2, <1>3, <1>4

LEMMA GetPoolProcess ==
    ASSUME MachineInv, NEW r \in Req, GetPool(r)
    PROVE  Answered(r) \/ Moved(r)
<1> DEFINE q == arg[r]
           x == loc[r]
           next == CASE q.op = "CreateProvider" -> "provName"
                     [] q.op = "CreateMachine" ->
                          IF q.provider = Nil THEN "machName" ELSE "machProvider"
                     [] q.op \in {"UpdateProvider", "DeleteProvider"} -> "getProvider"
                     [] OTHER -> "getMachine"
<1>0. /\ pc[r] = "getPool" /\ pc[r] # "idle" /\ q \in Requests /\ x \in Locals
      /\ q.op \in BelowOps /\ x.id = Nil
      /\ q.op = "CreateProvider" => x.row \in ProviderRow
      /\ q.op = "CreateMachine" => x.row \in MachineRow /\ x.row.provider = q.provider
  BY AtRequest DEF GetPool, ControlAt
<1>1. CASE Refuse(r, 404) \/ Refuse(r, 400)
  BY <1>0, <1>1, RefuseAnswers DEF Status
<1>2. CASE Proceed(r, next, x)
  <2>1. CASE q.op = "CreateProvider"
    <3>1. next = "provName"
      BY <2>1
    <3>2. ControlAt("provName", q, x) /\ InformedAt("provName", q, x, seen[r])
      BY <1>0, <2>1
         DEF ControlAt, AuthKeyPC, AuthJwtPC, InformedAt, ProviderAt, KeyAt, JwtAt
    <3>3. QED
      BY <1>0, <1>2, <3>1, <3>2, ProceedMoves DEF Label, ProviderPC
  <2>2. CASE q.op = "CreateMachine" /\ q.provider = Nil
    <3>1. next = "machName"
      BY <2>2
    <3>2. ControlAt("machName", q, x) /\ InformedAt("machName", q, x, seen[r])
      BY <1>0, <2>2
         DEF ControlAt, AuthKeyPC, AuthJwtPC, InformedAt, ProviderAt, KeyAt, JwtAt
    <3>3. QED
      BY <1>0, <1>2, <3>1, <3>2, ProceedMoves DEF Label, MachinePC
  <2>3. CASE q.op = "CreateMachine" /\ q.provider # Nil
    <3>1. next = "machProvider"
      BY <2>3
    <3>2. q.provider \in Provider
      BY <1>0, <2>3, MachineRequestsAssumption
    <3>3. ControlAt("machProvider", q, x)
      BY <1>0, <2>3, <3>2 DEF ControlAt, AuthKeyPC, AuthJwtPC
    <3>4. QED
      BY <1>0, <1>2, <3>1, <3>3, ProceedMoves, Uninformed DEF Label, MachinePC
  <2>4. CASE q.op \in {"UpdateProvider", "DeleteProvider"}
    <3>1. next = "getProvider"
      BY <2>4
    <3>2. ControlAt("getProvider", q, x)
      BY <2>4 DEF ControlAt, AuthKeyPC, AuthJwtPC
    <3>3. QED
      BY <1>0, <1>2, <3>1, <3>2, ProceedMoves, Uninformed DEF Label, ProviderPC
  <2>5. CASE q.op \in {"UpdateMachine", "DeleteMachine", "CreateKey", "RevokeKey"}
    <3>1. next = "getMachine"
      BY <2>5
    <3>2. ControlAt("getMachine", q, x)
      BY <2>5 DEF ControlAt, AuthKeyPC, AuthJwtPC
    <3>3. QED
      BY <1>0, <1>2, <3>1, <3>2, ProceedMoves, Uninformed DEF Label, MachinePC
  <2>6. QED
    BY <1>0, <2>1, <2>2, <2>3, <2>4, <2>5 DEF BelowOps
<1>3. QED
  BY <1>1, <1>2 DEF GetPool

LEMMA ProviderProcess ==
    ASSUME MachineInv, NEW r \in Req,
           \/ GetProvider(r) \/ EnsureProviderUnique(r) \/ WriteProviderRow(r)
           \/ DeleteProvider(r)
    PROVE  Answered(r) \/ Moved(r)
<1> DEFINE q == arg[r]
           x == loc[r]
<1>0. /\ pc[r] \in ProviderPC /\ pc[r] # "idle"
      /\ q \in Requests /\ q \in Args /\ x \in Locals
      /\ ControlAt(pc[r], q, x) /\ InformedAt(pc[r], q, x, seen[r])
  <2>1. pc[r] \in ProviderPC /\ pc[r] # "idle"
    BY DEF GetProvider, EnsureProviderUnique, WriteProviderRow, DeleteProvider, Unique,
       ProviderPC
  <2>2. QED
    BY <2>1, AtRequest
<1>1. CASE GetProvider(r)
  <2> DEFINE v == q.provider
             old == providers[v]
             new == [pool |-> q.pool, name |-> Or(q.name, old.name),
                     issuer |-> Or(q.issuer, old.issuer),
                     enabled |-> Or(q.enabled, old.enabled)]
             y == [x EXCEPT !.id = v, !.row = new]
  <2>1. /\ pc[r] = "getProvider" /\ q.op \in {"UpdateProvider", "DeleteProvider"}
        /\ v \in Provider /\ q.pool \in Pool
    BY <1>0, <1>1, MachineRequestsAssumption DEF GetProvider, ControlAt
  <2>2. CASE q.op = "DeleteProvider" /\ Proceed(r, "provDelete", x)
    <3>1. ControlAt("provDelete", q, x)
      BY <2>2 DEF ControlAt, AuthKeyPC, AuthJwtPC
    <3>2. QED
      BY <1>0, <2>2, <3>1, ProceedMoves, Uninformed DEF Label, ProviderPC
  <2>3. CASE old # Nil /\ old.pool = q.pool /\ Proceed(r, "provName", y)
    <3>1. old \in ProviderRow
      BY <2>1, <2>3 DEF MachineInv, TypeOK, StoreTypeOK
    <3>2. new \in ProviderRow
      <4>1. /\ q.name \in Name \cup {Nil} /\ q.issuer \in Issuer \cup {Nil}
            /\ q.enabled \in BOOLEAN \cup {Nil}
            /\ old.name \in Name /\ old.issuer \in Issuer /\ old.enabled \in BOOLEAN
        BY <1>0, <3>1 DEF Args, ProviderRow
      <4>2. /\ Or(q.name, old.name) \in Name /\ Or(q.issuer, old.issuer) \in Issuer
            /\ Or(q.enabled, old.enabled) \in BOOLEAN
        BY <4>1, OrIn
      <4>3. QED
        BY <2>1, <4>2 DEF ProviderRow
    <3>3. new.pool = q.pool
      OBVIOUS
    <3> HIDE DEF new
    <3>4. y \in Locals /\ y.id = v /\ y.row = new
      BY <1>0, <2>1, <3>2 DEF Locals
    <3> HIDE DEF y
    <3>5. ControlAt("provName", q, y)
      BY <2>1, <3>2, <3>4 DEF ControlAt, AuthKeyPC, AuthJwtPC
    <3>6. v \in used
      BY <2>1, <2>3 DEF MachineInv, TablesInv, RowsUsed, LiveProviders
    <3>7. InformedAt("provName", q, y, seen[r])
      BY <2>3, <3>3, <3>4, <3>6 DEF InformedAt, ProviderAt, SeenIn, KeyAt, JwtAt
    <3>8. QED
      BY <1>0, <2>3, <3>4, <3>5, <3>7, ProceedMoves DEF Label, ProviderPC
  <2>4. CASE Refuse(r, 404) \/ Refuse(r, 400)
    BY <1>0, <2>4, RefuseAnswers DEF Status
  <2>5. QED
    BY <1>1, <2>2, <2>3, <2>4 DEF GetProvider
<1>2. CASE EnsureProviderUnique(r)
  <2>1. /\ pc[r] \in {"provName", "provIssuer"}
        /\ \/ Refuse(r, 409)
           \/ Proceed(r, "provIssuer", x) \/ Proceed(r, "provWrite", x)
    BY <1>2, UniqueCases DEF EnsureProviderUnique
  <2>2. ASSUME NEW l \in {"provIssuer", "provWrite"}, Proceed(r, l, x)
        PROVE  Moved(r)
    <3>1. ControlAt(l, q, x)
      BY <1>0, <2>1, <2>2 DEF ControlAt, AuthKeyPC, AuthJwtPC
    <3>2. InformedAt(l, q, x, seen[r])
      BY <1>0, <2>1, <2>2 DEF InformedAt, ProviderAt, KeyAt, JwtAt
    <3>3. QED
      BY <1>0, <2>2, <3>1, <3>2, ProceedMoves DEF Label, ProviderPC
  <2>3. QED
    BY <1>0, <2>1, <2>2, RefuseAnswers DEF Status
<1>3. CASE WriteProviderRow(r)
  <2>1. Refuse(r, 404) \/ Refuse(r, 500) \/ Answer(r, 201) \/ Answer(r, 200)
    BY <1>3 DEF WriteProviderRow
  <2>2. QED
    BY <1>0, <2>1, RefuseAnswers DEF Answered, Status
<1>4. CASE DeleteProvider(r)
  <2>1. Refuse(r, 404) \/ Answer(r, 200)
    BY <1>4 DEF DeleteProvider
  <2>2. QED
    BY <1>0, <2>1, RefuseAnswers DEF Answered, Status
<1>5. QED
  BY <1>1, <1>2, <1>3, <1>4

LEMMA MachineRowProcess ==
    ASSUME MachineInv, NEW r \in Req,
           \/ GetMachine(r) \/ CheckProvider(r) \/ EnsureMachineNameUnique(r)
           \/ WriteMachineRow(r) \/ DeleteMachine(r)
    PROVE  Answered(r) \/ Moved(r)
<1> DEFINE q == arg[r]
           x == loc[r]
<1>0. /\ pc[r] \in MachinePC /\ pc[r] # "idle"
      /\ q \in Requests /\ q \in Args /\ x \in Locals
      /\ ControlAt(pc[r], q, x) /\ InformedAt(pc[r], q, x, seen[r])
  <2>1. pc[r] \in MachinePC /\ pc[r] # "idle"
    BY DEF GetMachine, CheckProvider, EnsureMachineNameUnique, WriteMachineRow,
       DeleteMachine, Unique, MachinePC
  <2>2. QED
    BY <2>1, AtRequest
<1>1. CASE GetMachine(r)
  <2> DEFINE m == q.machine
             old == machines[m]
             provider == IF q.provider = "clear" THEN Nil ELSE Or(q.provider, old.provider)
             new == [pool |-> q.pool, name |-> Or(q.name, old.name),
                     enabled |-> Or(q.enabled, old.enabled), provider |-> provider,
                     constraint |-> IF provider = Nil THEN Anything
                                    ELSE Or(q.constraint, old.constraint)]
             y == [x EXCEPT !.id = m, !.row = new]
             next == IF provider = Nil THEN "machName" ELSE "machProvider"
  <2>1. /\ pc[r] = "getMachine"
        /\ q.op \in {"UpdateMachine", "DeleteMachine", "CreateKey", "RevokeKey"}
        /\ m \in Machine /\ q.pool \in Pool
    BY <1>0, <1>1, MachineRequestsAssumption DEF GetMachine, ControlAt
  <2>2. CASE q.op = "DeleteMachine" /\ Proceed(r, "machDelete", x)
    <3>1. ControlAt("machDelete", q, x)
      BY <2>2 DEF ControlAt, AuthKeyPC, AuthJwtPC
    <3>2. QED
      BY <1>0, <2>2, <3>1, ProceedMoves, Uninformed DEF Label, MachinePC
  <2>3. CASE q.op = "CreateKey" /\ Proceed(r, "keyInsert", x)
    <3>1. ControlAt("keyInsert", q, x)
      BY <2>3 DEF ControlAt, AuthKeyPC, AuthJwtPC
    <3>2. QED
      BY <1>0, <2>3, <3>1, ProceedMoves, Uninformed DEF Label, KeyPC
  <2>4. CASE q.op = "RevokeKey" /\ Proceed(r, "keyRead", x)
    <3>1. ControlAt("keyRead", q, x)
      BY <2>4 DEF ControlAt, AuthKeyPC, AuthJwtPC
    <3>2. QED
      BY <1>0, <2>4, <3>1, ProceedMoves, Uninformed DEF Label, KeyPC
  <2>5. CASE old # Nil /\ old.pool = q.pool /\ Proceed(r, next, y)
    <3>1. old \in MachineRow
      BY <2>1, <2>5 DEF MachineInv, TypeOK, StoreTypeOK
    <3>2. /\ q.name \in Name \cup {Nil} /\ q.enabled \in BOOLEAN \cup {Nil}
          /\ q.provider \in Provider \cup {Nil, "clear"}
          /\ q.constraint \in Constraint \cup {Nil}
          /\ old.name \in Name /\ old.enabled \in BOOLEAN
          /\ old.provider \in Provider \cup {Nil} /\ old.constraint \in Constraint
      BY <1>0, <3>1 DEF Args, MachineRow
    <3>3. provider \in Provider \cup {Nil}
      BY <3>2 DEF Or
    <3>4. new \in MachineRow /\ new.provider = provider
      <4>1. Or(q.name, old.name) \in Name /\ Or(q.enabled, old.enabled) \in BOOLEAN
        BY <3>2, OrIn
      <4>2. (IF provider = Nil THEN Anything ELSE Or(q.constraint, old.constraint))
               \in Constraint
        BY <3>2, OrIn, AnythingAssumption
      <4> HIDE DEF provider
      <4>3. QED
        BY <2>1, <3>3, <4>1, <4>2 DEF MachineRow
    <3> HIDE DEF new, provider
    <3>5. y \in Locals /\ y.id = m /\ y.row = new
      BY <1>0, <2>1, <3>4 DEF Locals
    <3> HIDE DEF y
    <3>6. CASE provider = Nil
      <4>1. Proceed(r, "machName", y)
        BY <2>5, <3>6
      <4>2. ControlAt("machName", q, y)
        BY <2>1, <3>4, <3>5 DEF ControlAt, AuthKeyPC, AuthJwtPC
      <4>3. InformedAt("machName", q, y, seen[r])
        BY <3>4, <3>5, <3>6 DEF InformedAt, ProviderAt, KeyAt, JwtAt
      <4>4. QED
        BY <1>0, <3>5, <4>1, <4>2, <4>3, ProceedMoves DEF Label, MachinePC
    <3>7. CASE provider # Nil
      <4>1. Proceed(r, "machProvider", y)
        BY <2>5, <3>7
      <4>2. ControlAt("machProvider", q, y)
        BY <2>1, <3>3, <3>4, <3>5, <3>7 DEF ControlAt, AuthKeyPC, AuthJwtPC
      <4>3. QED
        BY <1>0, <3>5, <4>1, <4>2, ProceedMoves, Uninformed DEF Label, MachinePC
    <3>8. QED
      BY <3>6, <3>7
  <2>6. CASE Refuse(r, 404) \/ Refuse(r, 400)
    BY <1>0, <2>6, RefuseAnswers DEF Status
  <2>7. \/ Refuse(r, 404) \/ Refuse(r, 400)
        \/ q.op = "DeleteMachine" /\ Proceed(r, "machDelete", x)
        \/ q.op = "CreateKey" /\ Proceed(r, "keyInsert", x)
        \/ q.op = "RevokeKey" /\ Proceed(r, "keyRead", x)
        \/ old # Nil /\ old.pool = q.pool /\ Proceed(r, next, y)
    <3>1. CASE q.op = "UpdateMachine"
      BY <1>1, <3>1 DEF GetMachine
    <3>2. CASE q.op = "DeleteMachine"
      BY <1>1, <3>2 DEF GetMachine
    <3>3. CASE q.op = "CreateKey"
      BY <1>1, <3>3 DEF GetMachine
    <3>4. CASE q.op = "RevokeKey"
      BY <1>1, <3>4 DEF GetMachine
    <3>5. QED
      BY <2>1, <3>1, <3>2, <3>3, <3>4
  <2>8. QED
    BY <2>2, <2>3, <2>4, <2>5, <2>6, <2>7
<1>2. CASE CheckProvider(r)
  <2>1. pc[r] = "machProvider" /\ x.id \in Machine \cup {Nil} /\ x.row \in MachineRow
    BY <1>0, <1>2 DEF CheckProvider, ControlAt
  <2>2. CASE /\ x.row.provider \in LiveProviders
             /\ providers[x.row.provider].pool = x.row.pool
             /\ Proceed(r, "machName", x)
    <3>1. ControlAt("machName", q, x)
      BY <2>1 DEF ControlAt, AuthKeyPC, AuthJwtPC
    <3>2. InformedAt("machName", q, x, seen[r])
      BY <2>2 DEF InformedAt, ProviderAt, SeenIn, KeyAt, JwtAt, MachineInv, TablesInv,
         RowsUsed
    <3>3. QED
      BY <1>0, <2>2, <3>1, <3>2, ProceedMoves DEF Label, MachinePC
  <2>3. CASE Refuse(r, 400)
    BY <1>0, <2>3, RefuseAnswers DEF Status
  <2>4. QED
    BY <1>2, <2>2, <2>3 DEF CheckProvider
<1>3. CASE EnsureMachineNameUnique(r)
  <2>1. pc[r] = "machName" /\ (Proceed(r, "machWrite", x) \/ Refuse(r, 409))
    BY <1>3, UniqueCases DEF EnsureMachineNameUnique
  <2>2. ControlAt("machWrite", q, x) /\ InformedAt("machWrite", q, x, seen[r])
    BY <1>0, <2>1 DEF ControlAt, AuthKeyPC, AuthJwtPC, InformedAt, ProviderAt, KeyAt, JwtAt
  <2>3. QED
    BY <1>0, <2>1, <2>2, ProceedMoves, RefuseAnswers DEF Label, MachinePC, Status
<1>4. CASE WriteMachineRow(r)
  <2>1. Refuse(r, 404) \/ Refuse(r, 500) \/ Answer(r, 201) \/ Answer(r, 200)
    BY <1>4 DEF WriteMachineRow
  <2>2. QED
    BY <1>0, <2>1, RefuseAnswers DEF Answered, Status
<1>5. CASE DeleteMachine(r)
  <2>1. Refuse(r, 404) \/ Answer(r, 200)
    BY <1>5 DEF DeleteMachine
  <2>2. QED
    BY <1>0, <2>1, RefuseAnswers DEF Answered, Status
<1>6. QED
  BY <1>1, <1>2, <1>3, <1>4, <1>5

LEMMA KeyProcess ==
    ASSUME MachineInv, NEW r \in Req, InsertKey(r) \/ ReadKey(r) \/ WriteRevocation(r)
    PROVE  Answered(r) \/ Moved(r)
<1>0. /\ pc[r] \in KeyPC /\ pc[r] # "idle"
      /\ loc[r] \in Locals /\ ControlAt(pc[r], arg[r], loc[r])
  <2>1. pc[r] \in KeyPC /\ pc[r] # "idle"
    BY DEF InsertKey, ReadKey, WriteRevocation, KeyPC
  <2>2. QED
    BY <2>1, AtRequest
<1>1. CASE InsertKey(r) \/ WriteRevocation(r)
  <2>1. Refuse(r, 500) \/ Refuse(r, 404) \/ Answer(r, 201) \/ Answer(r, 200)
    BY <1>1 DEF InsertKey, WriteRevocation
  <2>2. QED
    BY <1>0, <2>1, RefuseAnswers DEF Answered, Status
<1>2. CASE ReadKey(r)
  <2>1. pc[r] = "keyRead" /\ (Refuse(r, 404) \/ Proceed(r, "keyRevoke", loc[r]))
    BY <1>2 DEF ReadKey
  <2>2. ControlAt("keyRevoke", arg[r], loc[r])
    BY <1>0, <2>1 DEF ControlAt, AuthKeyPC, AuthJwtPC
  <2>3. QED
    BY <1>0, <2>1, <2>2, RefuseAnswers, ProceedMoves, Uninformed DEF Status, Label, KeyPC
<1>3. QED
  BY <1>1, <1>2

-----------------------------------------------------------------------------
(* Authentication.                                                         *)

\* What holds now for an authentication by key.
LEMMA KeyFacts ==
    ASSUME NEW r \in Req, arg[r] # Nil, arg[r].op = "AuthKey"
    PROVE  /\ arg[r].key \in ValidKeys => "key" \in Facts(r)
           /\ (\E m \in KeyMachine(r) : machines[m].enabled) => "machine" \in Facts(r)
           /\ (\E p \in KeyPool(r) : pools[p].enabled) => "pool" \in Facts(r)
<1>1. Facts(r) = {f \in {"key", "machine", "pool"} :
                    \/ f = "key" /\ arg[r].key \in ValidKeys
                    \/ f = "machine" /\ \E m \in KeyMachine(r) : machines[m].enabled
                    \/ f = "pool" /\ \E p \in KeyPool(r) : pools[p].enabled}
  BY DEF Facts
<1>2. QED
  BY <1>1

\* And for an authentication by a token.
LEMMA JwtFacts ==
    ASSUME NEW r \in Req, arg[r] # Nil, arg[r].op = "AuthJwt",
           NEW m \in LiveMachines, machines[m].enabled, pools[machines[m].pool].enabled,
           arg[r].constraint \in Accepts[machines[m].constraint]
    PROVE  <<"enabled", m>> \in Facts(r)
BY DEF Facts

LEMMA AuthKeyProcess ==
    ASSUME MachineInv, NEW r \in Req,
           LookupKey(r) \/ LoadMachine(r) \/ LoadPool(r) \/ TouchKey(r)
    PROVE  Answered(r) \/ Moved(r)
<1> DEFINE q == arg[r]
           x == loc[r]
           k == q.key
<1>0. /\ pc[r] \in AuthKeyPC /\ pc[r] # "idle"
      /\ q \in Requests /\ q \in Args /\ q # Nil /\ x \in Locals
      /\ q.op = "AuthKey" /\ k \in Key
      /\ ControlAt(pc[r], q, x) /\ InformedAt(pc[r], q, x, seen[r])
      /\ Facts(r) \subseteq seen[r]
  <2>1. pc[r] \in AuthKeyPC /\ pc[r] # "idle"
    BY DEF LookupKey, LoadMachine, LoadPool, TouchKey, AuthKeyPC
  <2>2. QED
    BY <2>1, AtRequest, MachineRequestsAssumption DEF ControlAt
<1>1. CASE LookupKey(r)
  <2> DEFINE y == [x EXCEPT !.id = keys[k].machine]
  <2>1. CASE k \in ValidKeys /\ Proceed(r, "keyMachine", y)
    <3>1. /\ keys[k] \in KeyRow /\ keys[k].machine \in Machine /\ keys[k] # Nil
          /\ keys[k].machine \in used
      <4>1. keys[k] # Nil /\ keys[k] \in KeyRow
        BY <1>0, <2>1 DEF ValidKeys, LiveKeys, MachineInv, TypeOK, StoreTypeOK
      <4>2. keys[k].machine \in LiveMachines
        BY <1>0, <4>1 DEF MachineInv, TablesInv, NothingOutlivesItsPool, LiveKeys
      <4>3. QED
        BY <4>1, <4>2 DEF KeyRow, MachineInv, TablesInv, RowsUsed, LiveMachines
    <3>2. y \in Locals /\ y.id = keys[k].machine
      BY <1>0, <3>1 DEF Locals
    <3> HIDE DEF y
    <3>3. ControlAt("keyMachine", q, y)
      BY <1>0, <3>1, <3>2 DEF ControlAt, AuthKeyPC, AuthJwtPC
    <3>4. "key" \in seen[r]
      BY <1>0, <2>1, KeyFacts
    <3>5. InformedAt("keyMachine", q, y, seen[r])
      BY <3>1, <3>2, <3>4 DEF InformedAt, ProviderAt, KeyAt, JwtAt
    <3>6. QED
      BY <1>0, <2>1, <3>2, <3>3, <3>5, ProceedMoves DEF Label, AuthKeyPC
  <2>2. CASE Refuse(r, 401)
    BY <1>0, <2>2, RefuseAnswers DEF Status
  <2>3. QED
    BY <1>1, <2>1, <2>2 DEF LookupKey
<1>2. CASE LoadMachine(r)
  <2> DEFINE row == machines[x.id]
             y == [x EXCEPT !.row = row]
  <2>1. pc[r] = "keyMachine" /\ x.id \in Machine
    BY <1>0, <1>2 DEF LoadMachine, ControlAt
  <2>2. CASE row # Nil /\ row.enabled /\ Proceed(r, "keyPool", y)
    <3>1. row \in MachineRow
      BY <2>1, <2>2 DEF MachineInv, TypeOK, StoreTypeOK
    <3>2. y \in Locals /\ y.id = x.id /\ y.row = row
      BY <1>0, <3>1 DEF Locals
    <3> HIDE DEF y
    <3>3. ControlAt("keyPool", q, y)
      BY <1>0, <2>1, <3>1, <3>2 DEF ControlAt, AuthKeyPC, AuthJwtPC
    <3>4. /\ "key" \in seen[r] /\ x.id \in used
          /\ keys[k] # Nil /\ keys[k].machine = x.id
      BY <1>0, <2>1, <2>2 DEF InformedAt, KeyAt
    <3>5. x.id \in KeyMachine(r)
      BY <1>0, <2>1, <2>2, <3>4 DEF KeyMachine, LiveMachines, LiveKeys
    <3>6. "machine" \in seen[r]
      BY <1>0, <2>2, <3>5, KeyFacts
    <3>7. InformedAt("keyPool", q, y, seen[r])
      BY <3>2, <3>4, <3>6 DEF InformedAt, ProviderAt, KeyAt, JwtAt
    <3>8. QED
      BY <1>0, <2>2, <3>2, <3>3, <3>7, ProceedMoves DEF Label, AuthKeyPC
  <2>3. CASE Refuse(r, 401)
    BY <1>0, <2>3, RefuseAnswers DEF Status
  <2>4. QED
    BY <1>2, <2>2, <2>3 DEF LoadMachine
<1>3. CASE LoadPool(r)
  <2> DEFINE row == pools[x.row.pool]
  <2>1. pc[r] = "keyPool" /\ x.id \in Machine /\ x.row \in MachineRow
    BY <1>0, <1>3 DEF LoadPool, ControlAt, AuthKeyPC
  <2>2. CASE row # Nil /\ row.enabled /\ Proceed(r, "keyTouch", x)
    <3>1. ControlAt("keyTouch", q, x)
      BY <1>0, <2>1 DEF ControlAt, AuthKeyPC, AuthJwtPC
    <3>2. x.row.pool \in KeyPool(r)
      BY <2>1, <2>2 DEF KeyPool, LivePools, MachineRow
    <3>3. "pool" \in seen[r]
      BY <1>0, <2>2, <3>2, KeyFacts
    <3>4. InformedAt("keyTouch", q, x, seen[r])
      BY <1>0, <2>1, <3>3 DEF InformedAt, ProviderAt, KeyAt, JwtAt
    <3>5. QED
      BY <1>0, <2>2, <3>1, <3>4, ProceedMoves DEF Label, AuthKeyPC
  <2>3. CASE Refuse(r, 401)
    BY <1>0, <2>3, RefuseAnswers DEF Status
  <2>4. QED
    BY <1>3, <2>2, <2>3 DEF LoadPool
<1>4. CASE TouchKey(r)
  <2>1. pc[r] = "keyTouch" /\ Answer(r, x.id) /\ x.id \in Machine
    BY <1>0, <1>4 DEF TouchKey, Refuse, ControlAt
  <2>2. Entitled(r, x.id)
    BY <1>0, <2>1 DEF Entitled, InformedAt, KeyAt
  <2>3. QED
    BY <1>0, <2>1, <2>2 DEF Answered
<1>5. QED
  BY <1>1, <1>2, <1>3, <1>4

\* The decision at the end of the loop takes one of the entitled machines.
LEMMA DecideAnswers ==
    ASSUME NEW r \in Req, pc[r] # "idle", arg[r].op = "AuthJwt",
           NEW matches \in SUBSET Machine, Decide(r, matches),
           \A m \in matches : <<"enabled", m>> \in seen[r]
    PROVE  Answered(r)
<1>1. CASE Refuse(r, 401)
  BY <1>1, RefuseAnswers DEF Status
<1>2. CASE \E m \in matches : Refuse(r, m)
  <2>1. PICK m \in matches : Answer(r, m)
    BY <1>2 DEF Refuse
  <2>2. m \in Machine /\ Entitled(r, m)
    BY <2>1 DEF Entitled
  <2>3. QED
    BY <2>1, <2>2 DEF Answered
<1>3. QED
  BY <1>1, <1>2 DEF Decide

LEMMA AuthJwtProcess ==
    ASSUME MachineInv, NEW r \in Req, ListProviders(r) \/ VerifyToken(r) \/ ListMachines(r)
    PROVE  Answered(r) \/ Moved(r)
<1> DEFINE q == arg[r]
           x == loc[r]
<1>0. /\ pc[r] \in AuthJwtPC /\ pc[r] # "idle"
      /\ q \in Requests /\ q # Nil /\ x \in Locals
      /\ x.matches \in SUBSET Machine /\ x.rest \in SUBSET Provider
      /\ q.op = "AuthJwt"
      /\ ControlAt(pc[r], q, x) /\ InformedAt(pc[r], q, x, seen[r])
      /\ Facts(r) \subseteq seen[r]
  <2>1. pc[r] \in AuthJwtPC /\ pc[r] # "idle"
    BY DEF ListProviders, VerifyToken, ListMachines, AuthJwtPC
  <2>2. QED
    BY <2>1, AtRequest, MachineRequestsAssumption DEF ControlAt, Locals
<1>1. CASE ListProviders(r)
  <2> DEFINE found == TrustedProviders(q.issuer)
             y == [x EXCEPT !.rest = found]
  <2>1. CASE Proceed(r, "jwtVerify", y)
    <3>1. found \in SUBSET Provider
      BY DEF TrustedProviders, LiveProviders
    <3> HIDE DEF found
    <3>2. y \in Locals /\ y.matches = x.matches
      BY <1>0, <3>1 DEF Locals
    <3> HIDE DEF y
    <3>3. ControlAt("jwtVerify", q, y)
      BY <1>0 DEF ControlAt, AuthKeyPC, AuthJwtPC
    <3>4. x.matches = {}
      BY <1>0, <1>1 DEF ListProviders, ControlAt
    <3>5. InformedAt("jwtVerify", q, y, seen[r])
      BY <3>2, <3>4 DEF InformedAt, ProviderAt, KeyAt, JwtAt
    <3>6. QED
      BY <1>0, <2>1, <3>2, <3>3, <3>5, ProceedMoves DEF Label, AuthJwtPC
  <2>2. CASE Refuse(r, 401)
    BY <1>0, <2>2, RefuseAnswers DEF Status
  <2>3. QED
    BY <1>1, <2>1, <2>2 DEF ListProviders
<1>2. CASE VerifyToken(r)
  <2>1. pc[r] = "jwtVerify" /\ \A m \in x.matches : <<"enabled", m>> \in seen[r]
    BY <1>0, <1>2 DEF VerifyToken, InformedAt, JwtAt
  <2>2. PICK v \in x.rest :
          \/ Decide(r, x.matches)
          \/ Proceed(r, "jwtVerify", [x EXCEPT !.rest = x.rest \ {v}])
          \/ Proceed(r, "jwtMachines", [x EXCEPT !.rest = x.rest \ {v}, !.id = v])
    BY <1>2 DEF VerifyToken
  <2>3. CASE Decide(r, x.matches)
    BY <1>0, <2>1, <2>3, DecideAnswers
  <2>4. CASE Proceed(r, "jwtVerify", [x EXCEPT !.rest = x.rest \ {v}])
    <3> DEFINE y == [x EXCEPT !.rest = x.rest \ {v}]
    <3>1. y \in Locals /\ y.matches = x.matches
      BY <1>0 DEF Locals
    <3> HIDE DEF y
    <3>2. ControlAt("jwtVerify", q, y)
      BY <1>0 DEF ControlAt, AuthKeyPC, AuthJwtPC
    <3>3. InformedAt("jwtVerify", q, y, seen[r])
      BY <2>1, <3>1 DEF InformedAt, ProviderAt, KeyAt, JwtAt
    <3>4. QED
      BY <1>0, <2>4, <3>1, <3>2, <3>3, ProceedMoves DEF Label, AuthJwtPC, y
  <2>5. CASE Proceed(r, "jwtMachines", [x EXCEPT !.rest = x.rest \ {v}, !.id = v])
    <3> DEFINE y == [x EXCEPT !.rest = x.rest \ {v}, !.id = v]
    <3>1. y \in Locals /\ y.matches = x.matches /\ y.id = v /\ v \in Provider
      BY <1>0, <2>2 DEF Locals
    <3> HIDE DEF y
    <3>2. ControlAt("jwtMachines", q, y)
      BY <1>0, <3>1 DEF ControlAt, AuthKeyPC, AuthJwtPC
    <3>3. InformedAt("jwtMachines", q, y, seen[r])
      BY <2>1, <3>1 DEF InformedAt, ProviderAt, KeyAt, JwtAt
    <3>4. QED
      BY <1>0, <2>5, <3>1, <3>2, <3>3, ProceedMoves DEF Label, AuthJwtPC, y
  <2>6. QED
    BY <2>2, <2>3, <2>4, <2>5
<1>3. CASE ListMachines(r)
  <2> DEFINE found == Matching(x.id, q.constraint)
             matches == x.matches \cup found
             y == [x EXCEPT !.matches = matches]
  <2>1. pc[r] = "jwtMachines" /\ \A m \in x.matches : <<"enabled", m>> \in seen[r]
    BY <1>0, <1>3 DEF ListMachines, InformedAt, JwtAt
  <2>2. ASSUME NEW m \in found
        PROVE  m \in Machine /\ <<"enabled", m>> \in seen[r]
    <3>1. /\ m \in LiveMachines /\ m \in Machine /\ machines[m].enabled
          /\ pools[machines[m].pool].enabled
          /\ q.constraint \in Accepts[machines[m].constraint]
      BY <2>2 DEF Matching, MachinesOf, LiveMachines
    <3>2. <<"enabled", m>> \in Facts(r)
      BY <1>0, <3>1, JwtFacts
    <3>3. QED
      BY <1>0, <3>1, <3>2
  <2> HIDE DEF found
  <2>3. matches \in SUBSET Machine /\ \A m \in matches : <<"enabled", m>> \in seen[r]
    BY <1>0, <2>1, <2>2
  <2>4. Decide(r, matches) \/ Proceed(r, "jwtVerify", y)
    BY <1>3 DEF ListMachines, found
  <2> HIDE DEF matches
  <2>5. CASE Decide(r, matches)
    BY <1>0, <2>3, <2>5, DecideAnswers
  <2>6. CASE Proceed(r, "jwtVerify", y)
    <3>1. y \in Locals /\ y.matches = matches
      BY <1>0, <2>3 DEF Locals
    <3> HIDE DEF y
    <3>2. ControlAt("jwtVerify", q, y)
      BY <1>0 DEF ControlAt, AuthKeyPC, AuthJwtPC
    <3>3. InformedAt("jwtVerify", q, y, seen[r])
      BY <2>3, <3>1 DEF InformedAt, ProviderAt, KeyAt, JwtAt
    <3>4. QED
      BY <1>0, <2>6, <3>1, <3>2, <3>3, ProceedMoves DEF Label, AuthJwtPC
  <2>7. QED
    BY <2>4, <2>5, <2>6
<1>4. QED
  BY <1>1, <1>2, <1>3

\* Every step of a request that arrived answers it or moves it on.
LEMMA StepProcess ==
    ASSUME MachineInv, NEW r \in Req, MachineStep(r) \/ AuthStep(r) \/ Fail(r)
    PROVE  Answered(r) \/ Moved(r)
<1>1. CASE MachineStep(r)
  BY <1>1, PoolProcess, GetPoolProcess, ProviderProcess, MachineRowProcess, KeyProcess
     DEF MachineStep
<1>2. CASE AuthStep(r)
  BY <1>2, AuthKeyProcess, AuthJwtProcess DEF AuthStep
<1>3. CASE Fail(r)
  <2>1. pc[r] # "idle" /\ (pc[r] # "keyTouch" => Refuse(r, 401) \/ Refuse(r, 500))
    BY <1>3 DEF Fail
  <2>2. CASE pc[r] = "keyTouch"
    <3>1. /\ Answer(r, loc[r].id) /\ loc[r].id \in Machine /\ arg[r].op = "AuthKey"
          /\ InformedAt(pc[r], arg[r], loc[r], seen[r])
      BY <1>3, <2>1, <2>2, AtRequest DEF Fail, Refuse, ControlAt, AuthKeyPC
    <3>2. Entitled(r, loc[r].id)
      BY <2>2, <3>1 DEF Entitled, InformedAt, KeyAt
    <3>3. QED
      BY <2>1, <3>1, <3>2 DEF Answered
  <2>3. QED
    BY <2>1, <2>2, RefuseAnswers DEF Status
<1>4. QED
  BY <1>1, <1>2, <1>3

-----------------------------------------------------------------------------
(* What a step does to the tables: nothing, or one statement.              *)

Statement ==
    \/ UNCHANGED tables
    \/ \E p \in Pool, row \in PoolRow : WritePool(p, row)
    \/ \E p \in Pool : RemovePool(p)
    \/ \E v \in Provider, row \in ProviderRow :
         /\ v \notin used \/ (providers[v] # Nil /\ providers[v].pool = row.pool)
         /\ ProviderFits(v, row) /\ WriteProvider(v, row)
    \/ \E v \in Provider : RemoveProvider(v)
    \/ \E m \in Machine, row \in MachineRow :
         /\ m \notin used \/ machines[m] # Nil
         /\ row.provider # Nil => SeenIn(row.provider, row.pool)
         /\ MachineFits(m, row) /\ WriteMachine(m, row)
    \/ \E m \in Machine : RemoveMachine(m)
    \/ \E k \in Key, m \in Machine : k \notin used /\ machines[m] # Nil /\ AddKey(k, m)
    \/ \E k \in Key : keys[k] # Nil /\ RevokeKey(k)

\* The requests that stay as they are, and reads, leave the tables alone.
LEMMA QuietSteps ==
    ASSUME NEW r \in Req, AuthStep(r) \/ Fail(r) \/ Receive(r)
    PROVE  UNCHANGED tables
<1>1. CASE AuthStep(r)
  BY <1>1 DEF AuthStep, LookupKey, LoadMachine, LoadPool, TouchKey, ListProviders,
     VerifyToken, ListMachines, Decide, Refuse, Proceed, tables
<1>2. CASE Fail(r) \/ Receive(r)
  BY <1>2 DEF Fail, Receive, Refuse
<1>3. QED
  BY <1>1, <1>2

LEMMA MachineTables ==
    ASSUME MachineInv, NEW r \in Req, MachineStep(r)
    PROVE  Statement
<1> DEFINE q == arg[r]
           x == loc[r]
<1>0. pc[r] # "idle"
  BY DEF MachineStep, ReadPool, EnsurePoolUnique, WritePoolRow, DeletePool, GetPool,
     GetProvider, EnsureProviderUnique, WriteProviderRow, DeleteProvider, GetMachine,
     CheckProvider, EnsureMachineNameUnique, WriteMachineRow, DeleteMachine, InsertKey,
     ReadKey, WriteRevocation, Unique
<1>a. /\ q \in Requests /\ x \in Locals /\ ControlAt(pc[r], q, x)
      /\ InformedAt(pc[r], q, x, seen[r])
  BY <1>0, AtRequest
<1>1. CASE \/ ReadPool(r) \/ EnsurePoolUnique(r) \/ GetPool(r) \/ GetProvider(r)
           \/ EnsureProviderUnique(r) \/ CheckProvider(r) \/ EnsureMachineNameUnique(r)
           \/ ReadKey(r)
  <2>1. UNCHANGED tables
    BY <1>1 DEF ReadPool, EnsurePoolUnique, GetPool, GetProvider, EnsureProviderUnique,
       CheckProvider, EnsureMachineNameUnique, ReadKey, Unique, Refuse, Proceed, tables
  <2>2. QED
    BY <2>1 DEF Statement
<1>2. CASE GetMachine(r)
  <2>1. /\ q.op \in {"UpdateMachine", "DeleteMachine", "CreateKey", "RevokeKey"}
    BY <1>a, <1>2 DEF GetMachine, ControlAt
  <2>2. UNCHANGED tables
    BY <1>2, <2>1 DEF GetMachine, Refuse, Proceed, tables
  <2>3. QED
    BY <2>2 DEF Statement
<1>3. CASE WritePoolRow(r)
  <2>1. x.id \in Pool \cup {Nil} /\ x.row \in PoolRow
    BY <1>a, <1>3 DEF WritePoolRow, ControlAt
  <2>2. PICK p \in IF x.id = Nil THEN Pool \ used ELSE {x.id} :
               Refuse(r, 404) \/ Refuse(r, 500) \/ WritePool(p, x.row)
    BY <1>3 DEF WritePoolRow
  <2>3. p \in Pool
    BY <2>1, <2>2
  <2>4. QED
    BY <2>1, <2>2, <2>3 DEF Statement, Refuse
<1>4. CASE DeletePool(r)
  <2>1. q.pool \in Pool
    BY <1>a, <1>4, MachineRequestsAssumption DEF DeletePool, ControlAt
  <2>2. Refuse(r, 404) \/ RemovePool(q.pool)
    BY <1>4 DEF DeletePool
  <2>3. QED
    BY <2>1, <2>2 DEF Statement, Refuse
<1>5. CASE WriteProviderRow(r)
  <2>1. /\ pc[r] = "provWrite" /\ x.id \in Provider \cup {Nil} /\ x.row \in ProviderRow
        /\ x.id # Nil => SeenIn(x.id, x.row.pool)
    BY <1>a, <1>5 DEF WriteProviderRow, ControlAt, InformedAt, ProviderAt
  <2>2. PICK v \in IF x.id = Nil THEN Provider \ used ELSE {x.id} :
               \/ Refuse(r, 404) \/ Refuse(r, 500)
               \/ /\ x.id = Nil \/ providers[v] # Nil
                  /\ ProviderFits(v, x.row) /\ WriteProvider(v, x.row)
    BY <1>5 DEF WriteProviderRow
  <2>3. CASE Refuse(r, 404) \/ Refuse(r, 500)
    BY <2>3 DEF Statement, Refuse
  <2>4. CASE /\ x.id = Nil \/ providers[v] # Nil
             /\ ProviderFits(v, x.row) /\ WriteProvider(v, x.row)
    <3>1. /\ v \in Provider
          /\ v \notin used \/ (providers[v] # Nil /\ providers[v].pool = x.row.pool)
      <4>1. CASE x.id = Nil
        BY <2>2, <4>1
      <4>2. CASE x.id # Nil
        BY <2>1, <2>2, <2>4, <4>2 DEF SeenIn
      <4>3. QED
        BY <4>1, <4>2
    <3>2. \E w \in Provider, row \in ProviderRow :
            /\ w \notin used \/ (providers[w] # Nil /\ providers[w].pool = row.pool)
            /\ ProviderFits(w, row) /\ WriteProvider(w, row)
      BY <2>1, <2>4, <3>1
    <3>3. QED
      BY <3>2 DEF Statement
  <2>5. QED
    BY <2>2, <2>3, <2>4
<1>6. CASE DeleteProvider(r)
  <2>1. q.provider \in Provider
    BY <1>a, <1>6, MachineRequestsAssumption DEF DeleteProvider, ControlAt
  <2>2. Refuse(r, 404) \/ RemoveProvider(q.provider)
    BY <1>6 DEF DeleteProvider
  <2>3. QED
    BY <2>1, <2>2 DEF Statement, Refuse
<1>7. CASE WriteMachineRow(r)
  <2>1. /\ pc[r] = "machWrite" /\ x.id \in Machine \cup {Nil} /\ x.row \in MachineRow
        /\ x.row.provider # Nil => SeenIn(x.row.provider, x.row.pool)
    BY <1>a, <1>7 DEF WriteMachineRow, ControlAt, InformedAt, ProviderAt
  <2>2. PICK m \in IF x.id = Nil THEN Machine \ used ELSE {x.id} :
               \/ Refuse(r, 404) \/ Refuse(r, 500)
               \/ /\ x.id = Nil \/ machines[m] # Nil
                  /\ MachineFits(m, x.row) /\ WriteMachine(m, x.row)
    BY <1>7 DEF WriteMachineRow
  <2>3. CASE Refuse(r, 404) \/ Refuse(r, 500)
    BY <2>3 DEF Statement, Refuse
  <2>4. CASE /\ x.id = Nil \/ machines[m] # Nil
             /\ MachineFits(m, x.row) /\ WriteMachine(m, x.row)
    <3>1. m \in Machine /\ (m \notin used \/ machines[m] # Nil)
      BY <2>1, <2>2, <2>4
    <3>2. QED
      BY <2>1, <2>4, <3>1 DEF Statement
  <2>5. QED
    BY <2>2, <2>3, <2>4
<1>8. CASE DeleteMachine(r)
  <2>1. q.machine \in Machine
    BY <1>a, <1>8, MachineRequestsAssumption DEF DeleteMachine, ControlAt
  <2>2. Refuse(r, 404) \/ RemoveMachine(q.machine)
    BY <1>8 DEF DeleteMachine
  <2>3. QED
    BY <2>1, <2>2 DEF Statement, Refuse
<1>9. CASE InsertKey(r)
  <2>1. q.machine \in Machine
    BY <1>a, <1>9, MachineRequestsAssumption DEF InsertKey, ControlAt
  <2>2. PICK k \in Key \ used :
               Refuse(r, 500) \/ (machines[q.machine] # Nil /\ AddKey(k, q.machine))
    BY <1>9 DEF InsertKey
  <2>3. CASE Refuse(r, 500)
    BY <2>3 DEF Statement, Refuse
  <2>4. CASE machines[q.machine] # Nil /\ AddKey(k, q.machine)
    <3>1. \E j \in Key, m \in Machine : j \notin used /\ machines[m] # Nil /\ AddKey(j, m)
      BY <2>1, <2>2, <2>4
    <3>2. QED
      BY <3>1 DEF Statement
  <2>5. QED
    BY <2>2, <2>3, <2>4
<1>10. CASE WriteRevocation(r)
  <2>1. q.key \in Key
    BY <1>a, <1>10, MachineRequestsAssumption DEF WriteRevocation, ControlAt
  <2>2. Refuse(r, 404) \/ (keys[q.key] # Nil /\ RevokeKey(q.key))
    BY <1>10 DEF WriteRevocation
  <2>3. CASE Refuse(r, 404)
    BY <2>3 DEF Statement, Refuse
  <2>4. CASE keys[q.key] # Nil /\ RevokeKey(q.key)
    <3>1. \E k \in Key : keys[k] # Nil /\ RevokeKey(k)
      BY <2>1, <2>4
    <3>2. QED
      BY <3>1 DEF Statement
  <2>5. QED
    BY <2>2, <2>3, <2>4
<1>11. QED
  BY <1>1, <1>2, <1>3, <1>4, <1>5, <1>6, <1>7, <1>8, <1>9, <1>10 DEF MachineStep

-----------------------------------------------------------------------------
(* What every statement keeps.                                             *)

\* A uuid that was given out is never given out again: what it names stays
\* where it is, or goes for good.
Stable ==
    /\ used \subseteq used'
    /\ \A v \in Provider : v \in used /\ providers'[v] # Nil =>
         providers[v] # Nil /\ providers'[v].pool = providers[v].pool
    /\ \A m \in Machine : m \in used /\ machines'[m] # Nil => machines[m] # Nil
    /\ \A k \in Key : keys[k] # Nil =>
         /\ keys'[k] # Nil => keys'[k].machine = keys[k].machine
         /\ machines'[keys[k].machine] # Nil => keys'[k] # Nil
         /\ keys[k].revoked /\ keys'[k] # Nil => keys'[k].revoked

LEMMA WritePoolKeeps ==
    ASSUME StoreTypeOK, TablesInv, NEW p \in Pool, NEW row \in PoolRow, WritePool(p, row),
           UNCHANGED expired
    PROVE  StoreTypeOK' /\ TablesInv' /\ Stable
<1>0. row # Nil
  BY NilMachineAssumption
<1>1. StoreTypeOK'
  BY DEF StoreTypeOK, WritePool
<1>2. LivePools \subseteq LivePools' /\ LivePools' \subseteq LivePools \cup {p}
  BY <1>0 DEF LivePools, WritePool, StoreTypeOK
<1>3. UNCHANGED <<providers, machines, keys, LiveProviders, LiveMachines, LiveKeys>>
  BY DEF WritePool, LiveProviders, LiveMachines, LiveKeys
<1>4. RowsUsed'
  BY <1>2, <1>3 DEF RowsUsed, TablesInv, WritePool
<1>5. NothingOutlivesItsPool'
  BY <1>2, <1>3 DEF NothingOutlivesItsPool, TablesInv
<1>6. ProviderOfSamePool' /\ PoolMembersUnique'
  BY <1>3 DEF ProviderOfSamePool, PoolMembersUnique, TablesInv
<1>7. Stable
  BY <1>3 DEF Stable, WritePool, StoreTypeOK, TablesInv, NothingOutlivesItsPool, LiveKeys, LiveMachines
<1>8. QED
  BY <1>1, <1>4, <1>5, <1>6, <1>7 DEF TablesInv

LEMMA RemovePoolKeeps ==
    ASSUME StoreTypeOK, TablesInv, NEW p \in Pool, RemovePool(p), UNCHANGED expired
    PROVE  StoreTypeOK' /\ TablesInv' /\ Stable
<1> DEFINE gone == {m \in LiveMachines : machines[m].pool = p}
<1>1. /\ pools' = [pools EXCEPT ![p] = Nil]
      /\ providers' = [v \in Provider |->
             IF v \in LiveProviders /\ providers[v].pool = p THEN Nil ELSE providers[v]]
      /\ machines' = [m \in Machine |-> IF m \in gone THEN Nil ELSE machines[m]]
      /\ keys' = [k \in Key |->
             IF k \in LiveKeys /\ keys[k].machine \in gone THEN Nil ELSE keys[k]]
      /\ used' = used
  BY DEF RemovePool
<1>2. /\ LivePools' = LivePools \ {p}
      /\ LiveProviders' = {v \in LiveProviders : providers[v].pool # p}
      /\ LiveMachines' = LiveMachines \ gone
      /\ LiveKeys' = {k \in LiveKeys : keys[k].machine \notin gone}
  BY <1>1 DEF LivePools, LiveProviders, LiveMachines, LiveKeys, StoreTypeOK
<1>3. /\ \A v \in LiveProviders' : providers'[v] = providers[v]
      /\ \A m \in LiveMachines' : machines'[m] = machines[m]
      /\ \A k \in LiveKeys' : keys'[k] = keys[k]
  BY <1>1, <1>2 DEF LiveProviders, LiveMachines, LiveKeys
<1>4. StoreTypeOK'
  BY <1>1 DEF StoreTypeOK
<1>5. RowsUsed'
  BY <1>1, <1>2 DEF RowsUsed, TablesInv
<1>6. NothingOutlivesItsPool'
  <2>1. \A v \in LiveProviders' : providers'[v].pool \in LivePools'
    BY <1>2, <1>3 DEF NothingOutlivesItsPool, TablesInv
  <2>2. \A m \in LiveMachines' : /\ machines'[m].pool \in LivePools'
                                 /\ machines'[m].provider \in LiveProviders' \cup {Nil}
    BY <1>2, <1>3 DEF NothingOutlivesItsPool, ProviderOfSamePool, TablesInv
  <2>3. \A k \in LiveKeys' : keys'[k].machine \in LiveMachines'
    BY <1>2, <1>3 DEF NothingOutlivesItsPool, TablesInv
  <2>4. QED
    BY <2>1, <2>2, <2>3 DEF NothingOutlivesItsPool
<1>7. ProviderOfSamePool'
  BY <1>2, <1>3, <1>6 DEF ProviderOfSamePool, NothingOutlivesItsPool, TablesInv
<1>8. PoolMembersUnique'
  BY <1>2, <1>3 DEF PoolMembersUnique, TablesInv
<1>9. Stable
  <2>1. \A v \in Provider : v \in used /\ providers'[v] # Nil =>
          providers[v] # Nil /\ providers'[v].pool = providers[v].pool
    BY <1>1
  <2>2. \A m \in Machine : m \in used /\ machines'[m] # Nil => machines[m] # Nil
    BY <1>1
  <2>3. ASSUME NEW k \in Key, keys[k] # Nil
        PROVE  /\ keys'[k] # Nil => keys'[k].machine = keys[k].machine
               /\ machines'[keys[k].machine] # Nil => keys'[k] # Nil
               /\ keys[k].revoked /\ keys'[k] # Nil => keys'[k].revoked
    <3>1. k \in LiveKeys /\ keys[k].machine \in Machine
      BY <2>3 DEF LiveKeys, TablesInv, NothingOutlivesItsPool, LiveMachines
    <3> HIDE DEF gone
    <3>2. QED
      BY <1>1, <2>3, <3>1
  <2>4. QED
    BY <1>1, <2>1, <2>2, <2>3 DEF Stable
<1>10. QED
  BY <1>4, <1>5, <1>6, <1>7, <1>8, <1>9 DEF TablesInv

LEMMA WriteProviderKeeps ==
    ASSUME StoreTypeOK, TablesInv, NEW v \in Provider, NEW row \in ProviderRow,
           v \notin used \/ (providers[v] # Nil /\ providers[v].pool = row.pool),
           ProviderFits(v, row), WriteProvider(v, row), UNCHANGED expired
    PROVE  StoreTypeOK' /\ TablesInv' /\ Stable
<1>0. row # Nil
  BY NilMachineAssumption
<1>1. /\ providers' = [providers EXCEPT ![v] = row]
      /\ used' = used \cup {v}
      /\ UNCHANGED <<pools, machines, keys>>
  BY DEF WriteProvider
<1>2. /\ providers'[v] = row /\ LiveProviders' = LiveProviders \cup {v}
      /\ \A w \in Provider \ {v} : providers'[w] = providers[w]
      /\ UNCHANGED <<LivePools, LiveMachines, LiveKeys>>
  BY <1>0, <1>1 DEF LivePools, LiveProviders, LiveMachines, LiveKeys, StoreTypeOK
<1>3. StoreTypeOK'
  BY <1>1 DEF StoreTypeOK
<1>4. RowsUsed'
  BY <1>1, <1>2 DEF RowsUsed, TablesInv
<1>5. v \in LiveProviders => providers[v].pool = row.pool
  BY DEF TablesInv, RowsUsed, LiveProviders
<1>6. NothingOutlivesItsPool'
  <2>1. \A w \in LiveProviders' : providers'[w].pool \in LivePools'
    BY <1>2 DEF NothingOutlivesItsPool, TablesInv, ProviderFits, LiveProviders
  <2>2. QED
    BY <1>1, <1>2, <2>1 DEF NothingOutlivesItsPool, TablesInv
<1>7. ProviderOfSamePool'
  <2>1. ASSUME NEW m \in LiveMachines, machines[m].provider # Nil
        PROVE  providers'[machines[m].provider].pool = machines[m].pool
    <3>1. /\ machines[m].provider \in LiveProviders
          /\ providers[machines[m].provider].pool = machines[m].pool
      BY <2>1 DEF TablesInv, NothingOutlivesItsPool, ProviderOfSamePool
    <3>2. QED
      BY <1>2, <1>5, <3>1 DEF LiveProviders
  <2>2. QED
    BY <1>1, <1>2, <2>1 DEF ProviderOfSamePool
<1>8. PoolMembersUnique'
  <2>1. ASSUME NEW w \in LiveProviders, w # v, providers[w].pool = row.pool
        PROVE  providers[w].issuer # row.issuer /\ providers[w].name # row.name
    <3>1. /\ ProvidersWith(row.pool, "name", row.name) \subseteq {v}
          /\ ProvidersWith(row.pool, "issuer", row.issuer) \subseteq {v}
      BY DEF ProviderFits
    <3>2. QED
      BY <2>1, <3>1 DEF ProvidersWith
  <2>2. \A u, w \in LiveProviders' : u # w /\ providers'[u].pool = providers'[w].pool =>
          /\ providers'[u].issuer # providers'[w].issuer
          /\ providers'[u].name # providers'[w].name
    BY <1>2, <2>1 DEF TablesInv, PoolMembersUnique, LiveProviders
  <2>3. QED
    BY <1>1, <1>2, <2>2 DEF TablesInv, PoolMembersUnique
<1>9. Stable
  <2>1. \A w \in Provider : w \in used /\ providers'[w] # Nil =>
          providers[w] # Nil /\ providers'[w].pool = providers[w].pool
    BY <1>2
  <2>2. QED
    BY <1>1, <2>1 DEF Stable, TablesInv, NothingOutlivesItsPool, LiveKeys, LiveMachines
<1>10. QED
  BY <1>3, <1>4, <1>6, <1>7, <1>8, <1>9 DEF TablesInv

LEMMA RemoveProviderKeeps ==
    ASSUME StoreTypeOK, TablesInv, NEW v \in Provider, RemoveProvider(v), UNCHANGED expired
    PROVE  StoreTypeOK' /\ TablesInv' /\ Stable
<1>1. /\ providers' = [providers EXCEPT ![v] = Nil]
      /\ machines' = [m \in Machine |->
             IF m \in LiveMachines /\ machines[m].provider = v
             THEN [machines[m] EXCEPT !.provider = Nil] ELSE machines[m]]
      /\ UNCHANGED <<pools, keys, used>>
  BY DEF RemoveProvider
<1>2. ASSUME NEW m \in LiveMachines
      PROVE  /\ machines'[m] \in MachineRow /\ machines'[m] # Nil
             /\ machines'[m].pool = machines[m].pool
             /\ machines'[m].name = machines[m].name
             /\ machines'[m].provider =
                  IF machines[m].provider = v THEN Nil ELSE machines[m].provider
  <2>1. m \in Machine /\ machines[m] \in MachineRow
    BY DEF LiveMachines, StoreTypeOK
  <2>2. machines'[m] = IF machines[m].provider = v
                       THEN [machines[m] EXCEPT !.provider = Nil] ELSE machines[m]
    BY <1>1, <2>1
  <2>3. QED
    BY <2>1, <2>2, NilMachineAssumption DEF MachineRow
<1>3. /\ LiveProviders' = LiveProviders \ {v}
      /\ \A w \in LiveProviders' : providers'[w] = providers[w]
      /\ UNCHANGED <<LivePools, LiveKeys>>
  BY <1>1 DEF LivePools, LiveProviders, LiveKeys, StoreTypeOK
<1>4. \A m \in Machine \ LiveMachines : machines'[m] = machines[m]
  BY <1>1
<1>5. LiveMachines' = LiveMachines
  BY <1>2, <1>4 DEF LiveMachines
<1>6. StoreTypeOK'
  <2>1. machines' \in [Machine -> MachineRow \cup {Nil}]
    <3>1. machines' = [m \in Machine |-> machines'[m]]
      BY <1>1
    <3>2. \A m \in Machine : machines'[m] \in MachineRow \cup {Nil}
      BY <1>2, <1>4 DEF StoreTypeOK
    <3>3. QED
      BY <3>1, <3>2
  <2>2. QED
    BY <1>1, <2>1 DEF StoreTypeOK
<1>7. RowsUsed'
  BY <1>1, <1>3, <1>5 DEF RowsUsed, TablesInv
<1>8. NothingOutlivesItsPool'
  <2>1. \A w \in LiveProviders' : providers'[w].pool \in LivePools'
    BY <1>3 DEF NothingOutlivesItsPool, TablesInv
  <2>2. \A m \in LiveMachines' : /\ machines'[m].pool \in LivePools'
                                 /\ machines'[m].provider \in LiveProviders' \cup {Nil}
    BY <1>2, <1>3, <1>5 DEF NothingOutlivesItsPool, TablesInv
  <2>3. \A k \in LiveKeys' : keys'[k].machine \in LiveMachines'
    BY <1>1, <1>3, <1>5 DEF NothingOutlivesItsPool, TablesInv
  <2>4. QED
    BY <2>1, <2>2, <2>3 DEF NothingOutlivesItsPool
<1>9. ProviderOfSamePool'
  <2>1. ASSUME NEW m \in LiveMachines, machines'[m].provider # Nil
        PROVE  providers'[machines'[m].provider].pool = machines'[m].pool
    <3>1. machines'[m].provider = machines[m].provider /\ machines[m].provider # v
      BY <1>2, <2>1
    <3>2. machines[m].provider \in LiveProviders'
      BY <1>3, <2>1, <3>1 DEF TablesInv, NothingOutlivesItsPool
    <3>3. QED
      BY <1>2, <1>3, <2>1, <3>1, <3>2 DEF TablesInv, ProviderOfSamePool
  <2>2. QED
    BY <1>5, <2>1 DEF ProviderOfSamePool
<1>10. PoolMembersUnique'
  BY <1>2, <1>3, <1>5 DEF PoolMembersUnique, TablesInv
<1>11. Stable
  <2>1. \A w \in Provider : w \in used /\ providers'[w] # Nil =>
          providers[w] # Nil /\ providers'[w].pool = providers[w].pool
    BY <1>1 DEF StoreTypeOK
  <2>2. \A m \in Machine : m \in used /\ machines'[m] # Nil => machines[m] # Nil
    BY <1>5 DEF LiveMachines
  <2>3. QED
    BY <1>1, <2>1, <2>2
       DEF Stable, TablesInv, NothingOutlivesItsPool, LiveKeys, LiveMachines
<1>12. QED
  BY <1>6, <1>7, <1>8, <1>9, <1>10, <1>11 DEF TablesInv

LEMMA WriteMachineKeeps ==
    ASSUME StoreTypeOK, TablesInv, NEW m \in Machine, NEW row \in MachineRow,
           m \notin used \/ machines[m] # Nil,
           row.provider # Nil => SeenIn(row.provider, row.pool),
           MachineFits(m, row), WriteMachine(m, row), UNCHANGED expired
    PROVE  StoreTypeOK' /\ TablesInv' /\ Stable
<1>0. row # Nil
  BY NilMachineAssumption
<1>1. /\ machines' = [machines EXCEPT ![m] = row]
      /\ used' = used \cup {m}
      /\ UNCHANGED <<pools, providers, keys>>
  BY DEF WriteMachine
<1>2. /\ machines'[m] = row /\ LiveMachines' = LiveMachines \cup {m}
      /\ \A n \in Machine \ {m} : machines'[n] = machines[n]
      /\ UNCHANGED <<LivePools, LiveProviders, LiveKeys>>
  BY <1>0, <1>1 DEF LivePools, LiveProviders, LiveMachines, LiveKeys, StoreTypeOK
<1>3. StoreTypeOK'
  BY <1>1 DEF StoreTypeOK
<1>4. RowsUsed'
  BY <1>1, <1>2 DEF RowsUsed, TablesInv
<1>5. NothingOutlivesItsPool'
  <2>1. \A n \in LiveMachines' : /\ machines'[n].pool \in LivePools'
                                 /\ machines'[n].provider \in LiveProviders' \cup {Nil}
    BY <1>2 DEF NothingOutlivesItsPool, TablesInv, MachineFits, LiveMachines
  <2>2. QED
    BY <1>1, <1>2, <2>1 DEF NothingOutlivesItsPool, TablesInv
<1>6. ProviderOfSamePool'
  <2>1. row.provider # Nil => providers[row.provider].pool = row.pool
    BY DEF SeenIn, MachineFits, LiveProviders
  <2>2. \A n \in LiveMachines' : machines'[n].provider # Nil =>
          providers[machines'[n].provider].pool = machines'[n].pool
    BY <1>2, <2>1 DEF TablesInv, ProviderOfSamePool, LiveMachines
  <2>3. QED
    BY <1>1, <2>2 DEF ProviderOfSamePool
<1>7. PoolMembersUnique'
  <2>1. ASSUME NEW n \in LiveMachines, n # m, machines[n].pool = row.pool
        PROVE  machines[n].name # row.name
    BY <2>1 DEF MachineFits, MachinesNamed
  <2>2. \A n, o \in LiveMachines' : n # o /\ machines'[n].pool = machines'[o].pool =>
          machines'[n].name # machines'[o].name
    BY <1>2, <2>1 DEF TablesInv, PoolMembersUnique, LiveMachines
  <2>3. QED
    BY <1>1, <1>2, <2>2 DEF TablesInv, PoolMembersUnique
<1>8. Stable
  <2>1. \A n \in Machine : n \in used /\ machines'[n] # Nil => machines[n] # Nil
    BY <1>2
  <2>2. QED
    BY <1>1, <2>1 DEF Stable
<1>9. QED
  BY <1>3, <1>4, <1>5, <1>6, <1>7, <1>8 DEF TablesInv

LEMMA RemoveMachineKeeps ==
    ASSUME StoreTypeOK, TablesInv, NEW m \in Machine, RemoveMachine(m), UNCHANGED expired
    PROVE  StoreTypeOK' /\ TablesInv' /\ Stable
<1>1. /\ machines' = [machines EXCEPT ![m] = Nil]
      /\ keys' = [k \in Key |->
             IF k \in LiveKeys /\ keys[k].machine = m THEN Nil ELSE keys[k]]
      /\ UNCHANGED <<pools, providers, used>>
  BY DEF RemoveMachine
<1>2. /\ LiveMachines' = LiveMachines \ {m}
      /\ LiveKeys' = {k \in LiveKeys : keys[k].machine # m}
      /\ \A n \in LiveMachines' : machines'[n] = machines[n]
      /\ \A k \in LiveKeys' : keys'[k] = keys[k]
      /\ UNCHANGED <<LivePools, LiveProviders>>
  BY <1>1 DEF LivePools, LiveProviders, LiveMachines, LiveKeys, StoreTypeOK
<1>3. StoreTypeOK'
  BY <1>1 DEF StoreTypeOK
<1>4. RowsUsed'
  BY <1>1, <1>2 DEF RowsUsed, TablesInv
<1>5. NothingOutlivesItsPool'
  BY <1>1, <1>2 DEF NothingOutlivesItsPool, TablesInv
<1>6. ProviderOfSamePool'
  BY <1>1, <1>2 DEF ProviderOfSamePool, TablesInv
<1>7. PoolMembersUnique'
  BY <1>1, <1>2 DEF PoolMembersUnique, TablesInv
<1>8. Stable
  <2>1. \A n \in Machine : n \in used /\ machines'[n] # Nil => machines[n] # Nil
    BY <1>1 DEF StoreTypeOK
  <2>2. ASSUME NEW k \in Key, keys[k] # Nil
        PROVE  /\ keys'[k] # Nil => keys'[k].machine = keys[k].machine
               /\ machines'[keys[k].machine] # Nil => keys'[k] # Nil
               /\ keys[k].revoked /\ keys'[k] # Nil => keys'[k].revoked
    BY <1>1, <2>2 DEF LiveKeys, StoreTypeOK
  <2>3. QED
    BY <1>1, <2>1, <2>2 DEF Stable
<1>9. QED
  BY <1>3, <1>4, <1>5, <1>6, <1>7, <1>8 DEF TablesInv

LEMMA AddKeyKeeps ==
    ASSUME StoreTypeOK, TablesInv, NEW k \in Key, NEW m \in Machine, k \notin used,
           machines[m] # Nil, AddKey(k, m), UNCHANGED expired
    PROVE  StoreTypeOK' /\ TablesInv' /\ Stable
<1> DEFINE row == [machine |-> m, revoked |-> FALSE]
<1>0. row \in KeyRow /\ row.machine = m
  BY DEF KeyRow
<1>1. /\ keys' = [keys EXCEPT ![k] = row]
      /\ used' = used \cup {k}
      /\ UNCHANGED <<pools, providers, machines>>
  BY DEF AddKey
<1> HIDE DEF row
<1>2. row # Nil
  BY <1>0, NilMachineAssumption
<1>3. /\ keys'[k] = row /\ LiveKeys' = LiveKeys \cup {k}
      /\ \A j \in Key \ {k} : keys'[j] = keys[j]
      /\ UNCHANGED <<LivePools, LiveProviders, LiveMachines>>
  BY <1>1, <1>2 DEF LivePools, LiveProviders, LiveMachines, LiveKeys, StoreTypeOK
<1>4. k \notin LiveKeys
  BY DEF TablesInv, RowsUsed
<1>5. StoreTypeOK'
  BY <1>0, <1>1 DEF StoreTypeOK
<1>6. RowsUsed'
  BY <1>1, <1>3 DEF RowsUsed, TablesInv
<1>7. NothingOutlivesItsPool'
  <2>1. \A j \in LiveKeys' : keys'[j].machine \in LiveMachines'
    BY <1>0, <1>1, <1>3, <1>4 DEF NothingOutlivesItsPool, TablesInv, LiveMachines, LiveKeys
  <2>2. QED
    BY <1>1, <1>3, <2>1 DEF NothingOutlivesItsPool, TablesInv
<1>8. ProviderOfSamePool' /\ PoolMembersUnique'
  BY <1>1, <1>3 DEF ProviderOfSamePool, PoolMembersUnique, TablesInv
<1>9. Stable
  <2>1. \A j \in Key : keys[j] # Nil => keys'[j] = keys[j]
    BY <1>3, <1>4 DEF LiveKeys
  <2>2. QED
    BY <1>1, <2>1 DEF Stable
<1>10. QED
  BY <1>5, <1>6, <1>7, <1>8, <1>9 DEF TablesInv

LEMMA RevokeKeyKeeps ==
    ASSUME StoreTypeOK, TablesInv, NEW k \in Key, keys[k] # Nil, RevokeKey(k),
           UNCHANGED expired
    PROVE  StoreTypeOK' /\ TablesInv' /\ Stable
<1> DEFINE row == [keys[k] EXCEPT !.revoked = TRUE]
<1>0. keys[k] \in KeyRow /\ row \in KeyRow /\ row.machine = keys[k].machine /\ row.revoked
  BY DEF KeyRow, StoreTypeOK
<1>1. /\ keys' = [keys EXCEPT ![k] = row]
      /\ UNCHANGED <<pools, providers, machines, used>>
  BY DEF RevokeKey, StoreTypeOK
<1> HIDE DEF row
<1>2. row # Nil
  BY <1>0, NilMachineAssumption
<1>3. /\ keys'[k] = row /\ LiveKeys' = LiveKeys
      /\ \A j \in Key \ {k} : keys'[j] = keys[j]
      /\ UNCHANGED <<LivePools, LiveProviders, LiveMachines>>
  BY <1>1, <1>2 DEF LivePools, LiveProviders, LiveMachines, LiveKeys, StoreTypeOK
<1>4. StoreTypeOK'
  BY <1>0, <1>1 DEF StoreTypeOK
<1>5. RowsUsed'
  BY <1>1, <1>3 DEF RowsUsed, TablesInv
<1>6. NothingOutlivesItsPool'
  <2>1. \A j \in LiveKeys' : keys'[j].machine = keys[j].machine
    BY <1>0, <1>3 DEF LiveKeys
  <2>2. QED
    BY <1>1, <1>3, <2>1 DEF NothingOutlivesItsPool, TablesInv
<1>7. ProviderOfSamePool' /\ PoolMembersUnique'
  BY <1>1, <1>3 DEF ProviderOfSamePool, PoolMembersUnique, TablesInv
<1>8. Stable
  <2>1. ASSUME NEW j \in Key, keys[j] # Nil
        PROVE  /\ keys'[j] # Nil /\ keys'[j].machine = keys[j].machine
               /\ keys[j].revoked => keys'[j].revoked
    BY <1>0, <1>2, <1>3, <2>1
  <2>2. QED
    BY <1>1, <2>1 DEF Stable
<1>9. QED
  BY <1>4, <1>5, <1>6, <1>7, <1>8 DEF TablesInv

LEMMA StatementKeeps ==
    ASSUME StoreTypeOK, TablesInv, Statement, UNCHANGED expired
    PROVE  StoreTypeOK' /\ TablesInv' /\ Stable
<1>1. CASE UNCHANGED tables
  <2>1. StoreTypeOK'
    BY <1>1 DEF tables, StoreTypeOK
  <2>2. TablesInv'
    BY <1>1 DEF tables, TablesInv, RowsUsed, NothingOutlivesItsPool, ProviderOfSamePool,
       PoolMembersUnique, LivePools, LiveProviders, LiveMachines, LiveKeys
  <2>3. Stable
    BY <1>1 DEF tables, Stable, TablesInv, NothingOutlivesItsPool, LiveKeys, LiveMachines
  <2>4. QED
    BY <2>1, <2>2, <2>3
<1>2. CASE \E p \in Pool, row \in PoolRow : WritePool(p, row)
  BY <1>2, WritePoolKeeps
<1>3. CASE \E p \in Pool : RemovePool(p)
  BY <1>3, RemovePoolKeeps
<1>4. CASE \E v \in Provider, row \in ProviderRow :
             /\ v \notin used \/ (providers[v] # Nil /\ providers[v].pool = row.pool)
             /\ ProviderFits(v, row) /\ WriteProvider(v, row)
  BY <1>4, WriteProviderKeeps
<1>5. CASE \E v \in Provider : RemoveProvider(v)
  BY <1>5, RemoveProviderKeeps
<1>6. CASE \E m \in Machine, row \in MachineRow :
             /\ m \notin used \/ machines[m] # Nil
             /\ row.provider # Nil => SeenIn(row.provider, row.pool)
             /\ MachineFits(m, row) /\ WriteMachine(m, row)
  BY <1>6, WriteMachineKeeps
<1>7. CASE \E m \in Machine : RemoveMachine(m)
  BY <1>7, RemoveMachineKeeps
<1>8. CASE \E k \in Key, m \in Machine : k \notin used /\ machines[m] # Nil /\ AddKey(k, m)
  BY <1>8, AddKeyKeeps
<1>9. CASE \E k \in Key : keys[k] # Nil /\ RevokeKey(k)
  BY <1>9, RevokeKeyKeeps
<1>10. QED
  BY <1>1, <1>2, <1>3, <1>4, <1>5, <1>6, <1>7, <1>8, <1>9 DEF Statement

-----------------------------------------------------------------------------
(* The inductive invariant.                                                *)

\* Changes of the process state.  An answer leaves the request idle.
LEMMA AnsweredKeeps ==
    ASSUME MachineInv, NEW r \in Req, Answered(r), StoreTypeOK'
    PROVE  /\ TypeOK' /\ ControlInv' /\ pc'[r] = "idle"
           /\ \A o \in Req \ {r} : pc'[o] = pc[o] /\ arg'[o] = arg[o] /\ loc'[o] = loc[o]
<1>1. PICK a \in Status \cup Machine : Answer(r, a)
  BY DEF Answered
<1>2. /\ pc' = [pc EXCEPT ![r] = "idle"] /\ arg' = [arg EXCEPT ![r] = Nil]
      /\ loc' = [loc EXCEPT ![r] = NoLocals] /\ reply' = [NoReply EXCEPT ![r] = a]
  BY <1>1 DEF Answer
<1>3. TypeOK
  BY DEF MachineInv
<1>4. /\ pc'[r] = "idle" /\ arg'[r] = Nil
      /\ \A o \in Req \ {r} : pc'[o] = pc[o] /\ arg'[o] = arg[o] /\ loc'[o] = loc[o]
  BY <1>2, <1>3 DEF TypeOK
<1>5. TypeOK'
  <2>1. NoLocals \in Locals /\ "idle" \in Label
    BY DEF NoLocals, Locals, Label
  <2>2. reply' \in [Req -> Status \cup {0} \cup Machine]
    BY <1>2 DEF NoReply
  <2>3. pc' \in [Req -> Label] /\ arg' \in [Req -> Requests \cup {Nil}]
        /\ loc' \in [Req -> Locals]
    BY <1>2, <1>3, <2>1 DEF TypeOK
  <2>4. \A o \in Req : pc'[o] = "idle" <=> arg'[o] = Nil
    BY <1>3, <1>4 DEF TypeOK
  <2>5. QED
    BY <2>2, <2>3, <2>4 DEF TypeOK
<1>6. ControlAt(pc[r], arg[r], loc[r])'
  BY <1>4 DEF ControlAt, AuthKeyPC, AuthJwtPC
<1>7. \A o \in Req \ {r} : ControlAt(pc[o], arg[o], loc[o])'
  BY <1>4 DEF ControlAt, MachineInv, ControlInv
<1>8. ControlInv'
  BY <1>6, <1>7 DEF ControlInv
<1>9. QED
  BY <1>4, <1>5, <1>8

\* A move to the label l with the locals x.
LEMMA ProceedKeeps ==
    ASSUME MachineInv, NEW r \in Req, pc[r] # "idle", NEW l \in Label \ {"idle"},
           NEW x \in Locals, Proceed(r, l, x), ControlAt(l, arg[r], x), StoreTypeOK'
    PROVE  /\ TypeOK' /\ ControlInv'
           /\ pc'[r] = l /\ arg'[r] = arg[r] /\ loc'[r] = x
           /\ \A o \in Req \ {r} : pc'[o] = pc[o] /\ arg'[o] = arg[o] /\ loc'[o] = loc[o]
<1>1. /\ pc' = [pc EXCEPT ![r] = l] /\ arg' = arg
      /\ loc' = [loc EXCEPT ![r] = x] /\ reply' = NoReply
  BY DEF Proceed
<1>2. TypeOK
  BY DEF MachineInv
<1>3. /\ pc'[r] = l /\ arg'[r] = arg[r] /\ loc'[r] = x
      /\ \A o \in Req \ {r} : pc'[o] = pc[o] /\ arg'[o] = arg[o] /\ loc'[o] = loc[o]
  BY <1>1, <1>2 DEF TypeOK
<1>4. TypeOK'
  <2>1. reply' \in [Req -> Status \cup {0} \cup Machine]
    BY <1>1 DEF NoReply
  <2>2. pc' \in [Req -> Label] /\ arg' \in [Req -> Requests \cup {Nil}]
        /\ loc' \in [Req -> Locals]
    BY <1>1, <1>2 DEF TypeOK
  <2>3. \A o \in Req : pc'[o] = "idle" <=> arg'[o] = Nil
    BY <1>2, <1>3 DEF TypeOK
  <2>4. QED
    BY <2>1, <2>2, <2>3 DEF TypeOK
<1>5. ControlAt(pc[r], arg[r], loc[r])'
  BY <1>3 DEF ControlAt
<1>6. \A o \in Req \ {r} : ControlAt(pc[o], arg[o], loc[o])'
  BY <1>3 DEF ControlAt, MachineInv, ControlInv
<1>7. ControlInv'
  BY <1>5, <1>6 DEF ControlInv
<1>8. QED
  BY <1>3, <1>4, <1>7

\* Where a request starts.
LEMMA EntryPoints ==
    ASSUME NEW q \in Args
    PROVE  EntryPoint(q.op) = IF q.op = "CreatePool" THEN "poolSlug"
                              ELSE IF q.op = "UpdatePool" THEN "poolRead"
                              ELSE IF q.op = "DeletePool" THEN "poolDelete"
                              ELSE IF q.op = "AuthKey" THEN "keyLookup"
                              ELSE IF q.op = "AuthJwt" THEN "jwtProviders" ELSE "getPool"
BY DEF EntryPoint, Args

\* The row that a create builds.
LEMMA NewRowTyped ==
    ASSUME NEW q \in Requests
    PROVE  /\ NewRow(q) \in PoolRow \cup ProviderRow \cup MachineRow \cup {Nil}
           /\ q.op = "CreatePool" => NewRow(q) \in PoolRow
           /\ q.op = "CreateProvider" => NewRow(q) \in ProviderRow
           /\ q.op = "CreateMachine" =>
                NewRow(q) \in MachineRow /\ NewRow(q).provider = q.provider
<1>1. CASE q.op = "CreatePool"
  <2>1. NewRow(q) = [name |-> q.name, slug |-> q.slug, enabled |-> q.enabled]
    BY <1>1 DEF NewRow
  <2>2. q.name \in Name /\ q.slug \in Name /\ q.enabled \in BOOLEAN
    BY <1>1, MachineRequestsAssumption
  <2>3. QED
    BY <1>1, <2>1, <2>2 DEF PoolRow
<1>2. CASE q.op = "CreateProvider"
  <2>1. NewRow(q) = [pool |-> q.pool, name |-> q.name, issuer |-> q.issuer,
                     enabled |-> q.enabled]
    BY <1>2 DEF NewRow
  <2>2. /\ q.pool \in Pool /\ q.name \in Name /\ q.issuer \in Issuer
        /\ q.enabled \in BOOLEAN
    BY <1>2, MachineRequestsAssumption
  <2>3. QED
    BY <1>2, <2>1, <2>2 DEF ProviderRow
<1>3. CASE q.op = "CreateMachine"
  <2> DEFINE c == IF q.provider = Nil THEN Anything ELSE q.constraint
  <2>1. NewRow(q) = [pool |-> q.pool, name |-> q.name, enabled |-> q.enabled,
                     provider |-> q.provider, constraint |-> c]
    BY <1>3 DEF NewRow
  <2>2. /\ q.pool \in Pool /\ q.name \in Name /\ q.enabled \in BOOLEAN
        /\ q.provider \in Provider \cup {Nil} /\ c \in Constraint
    BY <1>3, MachineRequestsAssumption, AnythingAssumption
  <2> HIDE DEF c
  <2>3. QED
    BY <1>3, <2>1, <2>2 DEF MachineRow
<1>4. CASE q.op \notin {"CreatePool", "CreateProvider", "CreateMachine"}
  BY <1>4 DEF NewRow
<1>5. QED
  BY <1>1, <1>2, <1>3, <1>4

LEMMA ReceiveKeeps ==
    ASSUME MachineInv, NEW r \in Req, Receive(r), StoreTypeOK'
    PROVE  /\ TypeOK' /\ ControlInv' /\ reply' = NoReply
           /\ pc'[r] \in {"poolSlug", "poolRead", "poolDelete", "keyLookup",
                          "jwtProviders", "getPool"}
           /\ \A o \in Req \ {r} : pc'[o] = pc[o] /\ arg'[o] = arg[o] /\ loc'[o] = loc[o]
<1>1. PICK q \in Requests :
        /\ arg' = [arg EXCEPT ![r] = q]
        /\ pc' = [pc EXCEPT ![r] = EntryPoint(q.op)]
        /\ loc' = [loc EXCEPT ![r] = [NoLocals EXCEPT !.row = NewRow(q)]]
  BY DEF Receive
<1> DEFINE l == EntryPoint(q.op)
           x == [NoLocals EXCEPT !.row = NewRow(q)]
<1>2. TypeOK /\ q \in Args /\ q # Nil
  BY MachineRequestsAssumption DEF MachineInv
<1>3. x \in Locals /\ x.id = Nil /\ x.row = NewRow(q) /\ x.matches = {}
  BY NewRowTyped DEF Locals, NoLocals
<1>4. /\ l \in {"poolSlug", "poolRead", "poolDelete", "keyLookup", "jwtProviders", "getPool"}
      /\ l = "poolSlug" => q.op = "CreatePool"
      /\ l = "poolRead" => q.op = "UpdatePool"
      /\ l = "poolDelete" => q.op = "DeletePool"
      /\ l = "keyLookup" => q.op = "AuthKey"
      /\ l = "jwtProviders" => q.op = "AuthJwt"
      /\ l = "getPool" => q.op \in BelowOps
  BY <1>2, EntryPoints DEF Args, BelowOps
<1> HIDE DEF l, x
<1>5. ControlAt(l, q, x)
  BY <1>3, <1>4, NewRowTyped DEF ControlAt, AuthKeyPC, AuthJwtPC
<1>6. l \in Label \ {"idle"}
  BY <1>4 DEF Label, PoolPC, AuthKeyPC, AuthJwtPC
<1>7. /\ pc'[r] = l /\ arg'[r] = q /\ loc'[r] = x
      /\ \A o \in Req \ {r} : pc'[o] = pc[o] /\ arg'[o] = arg[o] /\ loc'[o] = loc[o]
  BY <1>1, <1>2 DEF TypeOK, l, x
<1>8. reply' = NoReply
  BY DEF Receive
<1>9. TypeOK'
  <2>1. reply' \in [Req -> Status \cup {0} \cup Machine]
    BY <1>8 DEF NoReply
  <2>2. pc' \in [Req -> Label] /\ arg' \in [Req -> Requests \cup {Nil}]
        /\ loc' \in [Req -> Locals]
    BY <1>1, <1>2, <1>3, <1>6 DEF TypeOK, l, x
  <2>3. \A o \in Req : pc'[o] = "idle" <=> arg'[o] = Nil
    BY <1>2, <1>6, <1>7 DEF TypeOK
  <2>4. QED
    BY <2>1, <2>2, <2>3 DEF TypeOK
<1>10. ControlAt(pc[r], arg[r], loc[r])'
  BY <1>5, <1>7 DEF ControlAt
<1>11. \A o \in Req \ {r} : ControlAt(pc[o], arg[o], loc[o])'
  BY <1>7 DEF ControlAt, MachineInv, ControlInv
<1>12. ControlInv'
  BY <1>10, <1>11 DEF ControlInv
<1>13. QED
  BY <1>4, <1>7, <1>8, <1>9, <1>12

\* What was seen stays seen while the request runs.
LEMMA SeenGrows ==
    ASSUME Observe, NEW r \in Req
    PROVE  /\ SeenAt(r)'
           /\ pc[r] # "idle" /\ pc'[r] # "idle" => seen[r] \subseteq seen'[r]
<1>1. seen'[r] = IF pc'[r] = "idle" THEN {}
                 ELSE (IF pc[r] = "idle" THEN {} ELSE seen[r]) \cup Facts(r)'
  BY DEF Observe
<1>2. QED
  BY <1>1 DEF SeenAt

\* What a label asks for stays true while the tables change under it.
LEMMA InformedKept ==
    ASSUME Stable, NEW r, NEW l, NEW q \in Requests, NEW x, NEW s,
           ControlAt(l, q, x), InformedAt(l, q, x, s), s \subseteq seen'[r],
           pc'[r] = l, arg'[r] = q, loc'[r] = x
    PROVE  InformedAt(pc[r], arg[r], loc[r], seen[r])'
<1>1. ASSUME NEW v \in Provider, NEW p, SeenIn(v, p)
      PROVE  v \in used' /\ (providers'[v] # Nil => providers'[v].pool = p)
  BY <1>1 DEF SeenIn, Stable
<1>2. ProviderAt(pc[r], loc[r])'
  <2>1. ASSUME l \in {"provName", "provIssuer", "provWrite"}, x.id # Nil
        PROVE  SeenIn(x.id, x.row.pool) /\ x.id \in Provider
    BY <2>1 DEF ControlAt, InformedAt, ProviderAt
  <2>2. ASSUME l \in {"machName", "machWrite"}, x.row.provider # Nil
        PROVE  SeenIn(x.row.provider, x.row.pool) /\ x.row.provider \in Provider
    BY <2>2 DEF ControlAt, InformedAt, ProviderAt, MachineRow
  <2>3. QED
    BY <1>1, <2>1, <2>2 DEF ProviderAt, SeenIn
<1>3. KeyAt(pc[r], arg[r], loc[r], seen[r])'
  <2>1. ASSUME l \in {"keyMachine", "keyPool", "keyTouch"}
        PROVE  /\ "key" \in seen'[r] /\ x.id \in used'
               /\ machines'[x.id] # Nil => keys'[q.key] # Nil /\ keys'[q.key].machine = x.id
    <3>1. x.id \in Machine /\ q.key \in Key
      BY <2>1, MachineRequestsAssumption DEF ControlAt, AuthKeyPC
    <3>2. /\ "key" \in s /\ x.id \in used
          /\ machines[x.id] # Nil => keys[q.key] # Nil /\ keys[q.key].machine = x.id
      BY <2>1 DEF InformedAt, KeyAt
    <3>3. QED
      BY <3>1, <3>2 DEF Stable
  <2>2. /\ l \in {"keyPool", "keyTouch"} => "machine" \in s
        /\ l = "keyTouch" => "pool" \in s
    BY DEF InformedAt, KeyAt
  <2>3. QED
    BY <2>1, <2>2 DEF KeyAt
<1>4. JwtAt(pc[r], loc[r], seen[r])'
  BY DEF InformedAt, JwtAt
<1>5. QED
  BY <1>2, <1>3, <1>4 DEF InformedAt

\* The same for a label that asks for nothing.
LEMMA UninformedNext ==
    ASSUME NEW r, pc'[r] \in {"idle", "poolSlug", "poolRead", "poolDelete", "keyLookup",
                              "jwtProviders", "getPool"}
    PROVE  InformedAt(pc[r], arg[r], loc[r], seen[r])'
BY DEF InformedAt, ProviderAt, KeyAt, JwtAt

\* A request that this step does not touch.
LEMMA BystanderKeeps ==
    ASSUME MachineInv, Observe, Stable, NEW r \in Req,
           pc'[r] = pc[r], arg'[r] = arg[r], loc'[r] = loc[r]
    PROVE  SeenAt(r)' /\ InformedAt(pc[r], arg[r], loc[r], seen[r])'
<1>1. CASE pc[r] = "idle"
  BY <1>1, SeenGrows, UninformedNext
<1>2. CASE pc[r] # "idle"
  BY <1>2, AtRequest, SeenGrows, InformedKept
<1>3. QED
  BY <1>1, <1>2

\* What System does, one request or the clock at a time.
LEMMA SystemCases ==
    ASSUME MachineInv, System
    PROVE  /\ Statement
           /\ \/ \E r \in Req : /\ Answered(r) \/ Moved(r) \/ Receive(r)
                                /\ UNCHANGED expired
              \/ \E k \in Key : Expire(k)
<1>1. CASE \E r \in Req : (MachineStep(r) \/ AuthStep(r)) /\ UNCHANGED expired
  <2>1. PICK r \in Req : (MachineStep(r) \/ AuthStep(r)) /\ UNCHANGED expired
    BY <1>1
  <2>2. Statement
    BY <2>1, MachineTables, QuietSteps DEF Statement
  <2>3. QED
    BY <2>1, <2>2, StepProcess
<1>2. CASE \E r \in Req : (Receive(r) \/ Fail(r)) /\ UNCHANGED expired
  <2>1. PICK r \in Req : (Receive(r) \/ Fail(r)) /\ UNCHANGED expired
    BY <1>2
  <2>2. Statement
    BY <2>1, QuietSteps DEF Statement
  <2>3. QED
    BY <2>1, <2>2, StepProcess
<1>3. CASE \E k \in LiveKeys : Expire(k)
  BY <1>3 DEF Expire, Statement, LiveKeys
<1>4. QED
  BY <1>1, <1>2, <1>3 DEF System

\* The clock: the tables stay, the requests stay where they are.
LEMMA ExpireKeeps ==
    ASSUME MachineInv, NEW k \in Key, Expire(k)
    PROVE  TypeOK' /\ ControlInv' /\ TablesInv' /\ Stable
<1>1. expired' = expired \cup {k} /\ reply' = NoReply /\ UNCHANGED <<tables, pc, arg, loc>>
  BY DEF Expire
<1>2. TypeOK'
  <2>1. reply' \in [Req -> Status \cup {0} \cup Machine]
    BY <1>1 DEF NoReply
  <2>2. StoreTypeOK'
    BY <1>1 DEF MachineInv, TypeOK, StoreTypeOK, tables
  <2>3. QED
    BY <1>1, <2>1, <2>2 DEF MachineInv, TypeOK
<1>3. ControlInv'
  BY <1>1 DEF MachineInv, ControlInv, ControlAt
<1>4. TablesInv'
  BY <1>1 DEF MachineInv, tables, TablesInv, RowsUsed, NothingOutlivesItsPool,
     ProviderOfSamePool, PoolMembersUnique, LivePools, LiveProviders, LiveMachines, LiveKeys
<1>5. Stable
  BY <1>1 DEF MachineInv, tables, Stable, TablesInv, NothingOutlivesItsPool, LiveKeys,
     LiveMachines
<1>6. QED
  BY <1>2, <1>3, <1>4, <1>5

LEMMA MachineStepKeeps ==
    ASSUME MachineInv, Next
    PROVE  MachineInv'
<1>1. Observe /\ System
  BY DEF Next
<1>2. CASE \E k \in Key : Expire(k)
  <2>1. /\ TypeOK' /\ ControlInv' /\ TablesInv' /\ Stable
        /\ \A o \in Req : pc'[o] = pc[o] /\ arg'[o] = arg[o] /\ loc'[o] = loc[o]
    BY <1>2, ExpireKeeps DEF Expire
  <2>2. KnowledgeInv'
    BY <1>1, <2>1, BystanderKeeps DEF KnowledgeInv
  <2>3. QED
    BY <2>1, <2>2 DEF MachineInv
<1>3. ASSUME NEW r \in Req, Answered(r) \/ Moved(r) \/ Receive(r), UNCHANGED expired
      PROVE  MachineInv'
  <2>1. StoreTypeOK' /\ TablesInv' /\ Stable
    BY <1>1, <1>3, SystemCases, StatementKeeps DEF MachineInv, TypeOK
  <2>2. ASSUME NEW o \in Req \ {r},
               pc'[o] = pc[o], arg'[o] = arg[o], loc'[o] = loc[o]
        PROVE  SeenAt(o)' /\ InformedAt(pc[o], arg[o], loc[o], seen[o])'
    BY <1>1, <2>1, <2>2, BystanderKeeps
  <2>3. SeenAt(r)'
    BY <1>1, SeenGrows
  <2>4. CASE Answered(r)
    <3>1. TypeOK' /\ ControlInv'
      BY <2>1, <2>4, AnsweredKeeps
    <3>2. InformedAt(pc[r], arg[r], loc[r], seen[r])'
      BY <2>1, <2>4, AnsweredKeeps, UninformedNext
    <3>3. KnowledgeInv'
      BY <2>1, <2>2, <2>3, <2>4, <3>2, AnsweredKeeps DEF KnowledgeInv
    <3>4. QED
      BY <2>1, <3>1, <3>3 DEF MachineInv
  <2>5. CASE Moved(r)
    <3>1. PICK l \in Label \ {"idle"}, x \in Locals :
            Proceed(r, l, x) /\ ControlAt(l, arg[r], x) /\ InformedAt(l, arg[r], x, seen[r])
      BY <2>5 DEF Moved
    <3>2. pc[r] # "idle" /\ arg[r] \in Requests
      BY <2>5, AtRequest DEF Moved
    <3>3. /\ TypeOK' /\ ControlInv'
          /\ pc'[r] = l /\ arg'[r] = arg[r] /\ loc'[r] = x
          /\ \A o \in Req \ {r} : pc'[o] = pc[o] /\ arg'[o] = arg[o] /\ loc'[o] = loc[o]
      BY <2>1, <3>1, <3>2, ProceedKeeps
    <3>4. seen[r] \subseteq seen'[r]
      BY <1>1, <3>2, <3>3, SeenGrows
    <3>5. InformedAt(pc[r], arg[r], loc[r], seen[r])'
      BY <2>1, <3>1, <3>2, <3>3, <3>4, InformedKept
    <3>6. KnowledgeInv'
      BY <2>2, <2>3, <3>3, <3>5 DEF KnowledgeInv
    <3>7. QED
      BY <2>1, <3>3, <3>6 DEF MachineInv
  <2>6. CASE Receive(r)
    <3>1. TypeOK' /\ ControlInv'
      BY <2>1, <2>6, ReceiveKeeps
    <3>2. InformedAt(pc[r], arg[r], loc[r], seen[r])'
      BY <2>1, <2>6, ReceiveKeeps, UninformedNext
    <3>3. KnowledgeInv'
      BY <2>1, <2>2, <2>3, <2>6, <3>2, ReceiveKeeps DEF KnowledgeInv
    <3>4. QED
      BY <2>1, <3>1, <3>3 DEF MachineInv
  <2>7. QED
    BY <1>3, <2>4, <2>5, <2>6
<1>4. QED
  BY <1>1, <1>2, <1>3, SystemCases

LEMMA StutterKeeps ==
    ASSUME MachineInv, UNCHANGED vars
    PROVE  MachineInv'
<1>1. /\ UNCHANGED <<pools, providers, machines, keys, used, expired, pc, arg, loc, reply, seen>>
  BY DEF vars, tables, process
<1>2. TypeOK'
  BY <1>1 DEF MachineInv, TypeOK, StoreTypeOK
<1>3. ControlInv'
  BY <1>1 DEF MachineInv, ControlInv, ControlAt
<1>4. TablesInv'
  BY <1>1 DEF MachineInv, TablesInv, RowsUsed, NothingOutlivesItsPool,
     ProviderOfSamePool, PoolMembersUnique, LivePools, LiveProviders, LiveMachines, LiveKeys
<1>5. \A r \in Req : Facts(r)' = Facts(r)
  BY <1>1 DEF Facts, ValidKeys, LiveKeys, KeyMachine, KeyPool, LivePools, LiveMachines,
     TokenMatches, Matching, MachinesOf, TrustedProviders, LiveProviders
<1>6. KnowledgeInv'
  BY <1>1, <1>5 DEF MachineInv, KnowledgeInv, SeenAt, InformedAt, ProviderAt, SeenIn,
     KeyAt, JwtAt
<1>7. QED
  BY <1>2, <1>3, <1>4, <1>6 DEF MachineInv

LEMMA InitMachine ==
    ASSUME Init
    PROVE  MachineInv
<1>1. PICK d \in Seeds : InitFrom(d)
  BY DEF Init
<1>2. d \in SeedRow /\ Coherent(d)
  BY SeedAssumption
<1>3. /\ pools = d.pools /\ providers = d.providers /\ machines = d.machines /\ keys = d.keys
      /\ used = LivePools \cup LiveProviders \cup LiveMachines \cup LiveKeys \cup d.gone
      /\ expired = {} /\ reply = NoReply
      /\ \A r \in Req : pc[r] = "idle" /\ arg[r] = Nil /\ seen[r] = {}
  BY <1>1 DEF InitFrom
<1>4. StoreTypeOK
  BY <1>2, <1>3 DEF SeedRow, StoreTypeOK, LivePools, LiveProviders, LiveMachines, LiveKeys
<1>5. TypeOK
  <2>1. NoLocals \in Locals /\ "idle" \in Label
    BY DEF NoLocals, Locals, Label
  <2>2. /\ pc \in [Req -> Label] /\ arg \in [Req -> Requests \cup {Nil}]
        /\ loc \in [Req -> Locals] /\ reply \in [Req -> Status \cup {0} \cup Machine]
    BY <1>1, <2>1 DEF InitFrom, NoReply
  <2>3. QED
    BY <1>3, <1>4, <2>2 DEF TypeOK
<1>6. ControlInv
  BY <1>3 DEF ControlInv, ControlAt, AuthKeyPC, AuthJwtPC
<1>7. TablesInv
  <2>1. RowsUsed
    BY <1>3 DEF RowsUsed
  <2>2. NothingOutlivesItsPool
    BY <1>2, <1>3, <1>4
       DEF Coherent, NothingOutlivesItsPool, LivePools, LiveProviders, LiveMachines,
           LiveKeys, StoreTypeOK, ProviderRow, MachineRow, KeyRow
  <2>3. ProviderOfSamePool /\ PoolMembersUnique
    BY <1>2, <1>3
       DEF Coherent, ProviderOfSamePool, PoolMembersUnique, LiveProviders, LiveMachines
  <2>4. QED
    BY <2>1, <2>2, <2>3 DEF TablesInv
<1>8. KnowledgeInv
  BY <1>3 DEF KnowledgeInv, SeenAt, InformedAt, ProviderAt, KeyAt, JwtAt
<1>9. QED
  BY <1>5, <1>6, <1>7, <1>8 DEF MachineInv

\* The inductive invariant holds in every reachable state: types, labels, the
\* three invariants of the tables and what the requests in flight know.
THEOREM MachineInductive == Spec => []MachineInv
<1>1. Init => MachineInv
  BY InitMachine
<1>2. MachineInv /\ [Next]_vars => MachineInv'
  BY MachineStepKeeps, StutterKeeps
<1>3. QED
  BY <1>1, <1>2, PTL DEF Spec

-----------------------------------------------------------------------------
(* What it gives.                                                          *)

\* Deleting a pool takes everything below it along, also what was being created
\* below it meanwhile (repository/machine_pool_repository.go, the foreign keys
\* of script 003): no provider, machine or key is left without its parent.
THEOREM NothingOutlives == Spec => []NothingOutlivesItsPool
<1>1. MachineInv => NothingOutlivesItsPool
  BY DEF MachineInv, TablesInv
<1>2. QED
  BY <1>1, MachineInductive, PTL

\* The provider of a machine is of the machine's pool, although buildMachine
\* reads it before the machine is written (service/machine.go:645-655).
THEOREM ProviderSamePool == Spec => []ProviderOfSamePool
<1>1. MachineInv => ProviderOfSamePool
  BY DEF MachineInv, TablesInv
<1>2. QED
  BY <1>1, MachineInductive, PTL

\* Within a pool the names of providers and of machines and the issuers are
\* unique, whatever the checks before the write saw (service/machine.go:381-393).
THEOREM MembersUnique == Spec => []PoolMembersUnique
<1>1. MachineInv => PoolMembersUnique
  BY DEF MachineInv, TablesInv
<1>2. QED
  BY <1>1, MachineInductive, PTL

LEMMA StepAuthenticates ==
    ASSUME MachineInv, Next, NEW r \in Req, arg[r] # Nil, reply'[r] \in Machine
    PROVE  IF arg[r].op = "AuthKey" THEN {"key", "machine", "pool"} \subseteq seen[r]
           ELSE <<"enabled", reply'[r]>> \in seen[r] \cup Facts(r)
<1>1. reply' # NoReply
  BY StatusAssumption DEF NoReply
<1>2. PICK o \in Req : Answered(o)
  BY <1>1, SystemCases DEF Next, Moved, Proceed, Receive, Expire
<1>3. PICK a \in Status \cup Machine :
        Answer(o, a) /\ (a \in Status \/ (a \in Machine /\ Entitled(o, a)))
  BY <1>2 DEF Answered
<1>4. reply' = [NoReply EXCEPT ![o] = a]
  BY <1>3 DEF Answer
<1>5. o = r /\ a = reply'[r]
  BY <1>4, StatusAssumption DEF NoReply
<1>6. Entitled(r, reply'[r])
  BY <1>3, <1>5, StatusAssumption
<1>7. QED
  BY <1>6 DEF Entitled

\* Whoever is authenticated as a machine has been entitled to it at some instant
\* of the request, although the key, the machine and the pool are read one after
\* the other and may change in between (service/machine_auth.go).
THEOREM AuthenticatedRights == Spec => AuthenticatedWithRights
<1>1. MachineInv /\ [Next]_vars =>
        [\A r \in Req : arg[r] # Nil /\ reply'[r] \in Machine =>
           IF arg[r].op = "AuthKey" THEN {"key", "machine", "pool"} \subseteq seen[r]
           ELSE <<"enabled", reply'[r]>> \in seen[r] \cup Facts(r)]_vars
  BY StepAuthenticates
<1>2. QED
  BY <1>1, MachineInductive, PTL DEF Spec, AuthenticatedWithRights

\* A revoked key stays revoked as long as it exists, whatever requests are in
\* flight (repository/machine_api_key_repository.go).
THEOREM RevocationFinal == Spec => RevocationIsFinal
<1>1. MachineInv /\ [Next]_vars =>
        [\A k \in Key : keys[k] # Nil /\ keys[k].revoked =>
           keys'[k] = Nil \/ keys'[k].revoked]_vars
  <2>1. ASSUME MachineInv, Next
        PROVE  \A k \in Key : keys[k] # Nil /\ keys[k].revoked =>
                 keys'[k] = Nil \/ keys'[k].revoked
    <3>1. Stable
      <4>1. CASE UNCHANGED expired
        BY <2>1, <4>1, SystemCases, StatementKeeps DEF Next, MachineInv, TypeOK
      <4>2. CASE \E k \in Key : Expire(k)
        BY <2>1, <4>2, ExpireKeeps
      <4>3. QED
        BY <2>1, <4>1, <4>2, SystemCases DEF Next
    <3>2. QED
      BY <3>1 DEF Stable
  <2>2. QED
    BY <2>1
<1>2. QED
  BY <1>1, MachineInductive, PTL DEF Spec, RevocationIsFinal

=============================================================================
