--------------------------- MODULE IdentityProofs ---------------------------
(***************************************************************************)
(* Proofs about Identity for every number of requests, users, sessions and *)
(* pools, every set of requests the routes admit and both dialects.        *)
(***************************************************************************)
EXTENDS IdentityInvariant, FiniteSetTheorems, TLAPS

-----------------------------------------------------------------------------
(* What a step of the server does to the process state: it answers, moves  *)
(* on to a label whose control invariant holds, or receives a request.     *)

Answered(r) == pc[r] # "idle" /\ \E status \in Status : Answer(r, status)

Moved(r) ==
    /\ pc[r] # "idle"
    /\ \E l \in Label \ {"idle"}, x \in Locals :
        /\ Goto(r, l)
        /\ loc' = [loc EXCEPT ![r] = x]
        /\ ControlAt(l, arg[r], x)

\* One step of a request, with all it does but the history.
StepOf(r) ==
    \/ Step(r) /\ UNCHANGED expired
    \/ (Receive(r) \/ Fail(r)) /\ UNCHANGED <<expired, claims>>

\* What the proofs below use of a request in flight.
LEMMA AtRequest ==
    ASSUME TypeOK, ControlInv, NEW r \in Req, pc[r] # "idle"
    PROVE  /\ arg[r] \in Requests /\ arg[r] \in Args
           /\ loc[r] \in Locals
           /\ pc[r] \in Label
           /\ ControlAt(pc[r], arg[r], loc[r])
BY RequestsAssumption DEF TypeOK, ApiTypeOK, ControlInv, Label

\* A read that goes on, and a refusal, from the pieces their actions name.
LEMMA ProceedMoves ==
    ASSUME NEW r \in Req, pc[r] # "idle", NEW l \in Label \ {"idle"}, NEW x \in Locals,
           Proceed(r, l, x), ControlAt(l, arg[r], x)
    PROVE  Moved(r)
BY DEF Moved, Proceed

LEMMA RefuseAnswers ==
    ASSUME NEW r \in Req, pc[r] # "idle", NEW status \in Status, Refuse(r, status)
    PROVE  Answered(r)
BY DEF Answered, Refuse

-----------------------------------------------------------------------------
(* UserService.                                                            *)

\* The merge of a stored row and an update body is a row (user.go:160-214).
LEMMA MergedRow ==
    ASSUME NEW row \in UserRow, NEW q \in Args
    PROVE  MergeUser(row, q) \in UserRow
BY NilAssumption DEF MergeUser, UserRow, Args, Or

LEMMA UserProcess ==
    ASSUME TypeOK, ControlInv, NEW r \in Req, UserStep(r)
    PROVE  Answered(r) \/ Moved(r)
<1> DEFINE q == arg[r]
           x == loc[r]
<1>0. /\ pc[r] \in UserPC /\ pc[r] # "idle"
      /\ q \in Requests /\ q \in Args /\ x \in Locals /\ ControlAt(pc[r], q, x)
  <2>1. pc[r] \in UserPC /\ pc[r] # "idle"
    BY DEF UserStep, CheckUsername, InsertUser, ReadUser, CheckRename, UpdateUserRow,
       ReadForDelete, EnsureNotLastAdmin, DeleteUserRow, ReadForPassword, UserPC
  <2>2. QED
    BY <2>1, AtRequest
<1>1. CASE CheckUsername(r)
  <2>1. pc[r] = "userName" /\ q.op \in {"Bootstrap", "CreateUser"}
    BY <1>0, <1>1 DEF CheckUsername, ControlAt
  <2>2. CASE Proceed(r, "userInsert", x)
    <3>1. ControlAt("userInsert", q, x)
      BY <2>1 DEF ControlAt, AuthPC
    <3>2. QED
      BY <1>0, <2>2, <3>1, ProceedMoves DEF Label, UserPC
  <2>3. CASE Refuse(r, 400) \/ Refuse(r, 409)
    BY <1>0, <2>3, RefuseAnswers DEF Status
  <2>4. QED
    BY <1>1, <2>2, <2>3 DEF CheckUsername
<1>2. CASE InsertUser(r)
  <2>1. pc[r] = "userInsert" /\ q.op \in {"Bootstrap", "CreateUser"}
    BY <1>0, <1>2 DEF InsertUser, ControlAt
  <2>2. PICK u \in User \ used :
          \/ Refuse(r, 500)
          \/ Goto(r, "sessionInsert") /\ loc' = [loc EXCEPT ![r].owner = u]
          \/ Answer(r, 201)
    BY <1>2 DEF InsertUser
  <2>3. CASE Goto(r, "sessionInsert") /\ loc' = [loc EXCEPT ![r].owner = u]
    <3> DEFINE y == [x EXCEPT !.owner = u]
    <3>1. y \in Locals /\ y.owner = u
      BY <1>0 DEF Locals
    <3>2. loc' = [loc EXCEPT ![r] = y]
      BY <2>3, <1>0 DEF TypeOK, ApiTypeOK
    <3>3. ControlAt("sessionInsert", q, y)
      BY <3>1 DEF ControlAt, AuthPC
    <3>4. QED
      BY <1>0, <2>3, <3>1, <3>2, <3>3 DEF Moved, Label, LoginPC
  <2>4. CASE Refuse(r, 500) \/ Answer(r, 201)
    BY <1>0, <2>4, RefuseAnswers DEF Status, Answered
  <2>5. QED
    BY <2>2, <2>3, <2>4
<1>3. CASE ReadUser(r)
  <2> DEFINE new == MergeUser(users[q.id], q)
             demotes == IsEnabledAdmin(users[q.id]) /\ ~IsEnabledAdmin(new)
             next == IF new.name # users[q.id].name THEN "userRename"
                     ELSE IF demotes THEN "adminCount" ELSE "userWrite"
             y == [x EXCEPT !.owner = q.id, !.row = new, !.flag = demotes]
  <2>1. pc[r] = "userRead" /\ q.op = "UpdateUser" /\ q.id \in User
    BY <1>0, <1>3, RequestsAssumption DEF ReadUser, ControlAt
  <2>2. CASE users[q.id] # Nil /\ Proceed(r, next, y)
    <3>1. new \in UserRow
      BY <1>0, <2>1, <2>2, MergedRow DEF TypeOK, StoreTypeOK
    <3>2. demotes \in BOOLEAN
      BY <3>1 DEF IsEnabledAdmin
    <3> HIDE DEF new, demotes
    <3>3. y \in Locals /\ y.owner = q.id /\ y.row = new
      BY <1>0, <2>1, <3>1, <3>2 DEF Locals
    <3>4. next \in {"userRename", "adminCount", "userWrite"}
      OBVIOUS
    <3> HIDE DEF next, y
    <3>5. ControlAt(next, q, y)
      BY <2>1, <3>1, <3>3, <3>4 DEF ControlAt, AuthPC
    <3>6. QED
      BY <1>0, <2>2, <3>3, <3>4, <3>5, ProceedMoves DEF Label, UserPC
  <2>3. CASE Refuse(r, 404) \/ Refuse(r, 400)
    BY <1>0, <2>3, RefuseAnswers DEF Status
  <2>4. QED
    BY <1>3, <2>2, <2>3 DEF ReadUser
<1>4. CASE CheckRename(r)
  <2> DEFINE next == IF x.flag THEN "adminCount" ELSE "userWrite"
  <2>1. /\ pc[r] = "userRename" /\ q.op = "UpdateUser"
        /\ x.owner \in User /\ x.row \in UserRow
    BY <1>0, <1>4 DEF CheckRename, ControlAt
  <2>2. CASE Proceed(r, next, x)
    <3>1. next \in {"adminCount", "userWrite"}
      OBVIOUS
    <3> HIDE DEF next
    <3>2. ControlAt(next, q, x)
      BY <2>1, <3>1 DEF ControlAt, AuthPC
    <3>3. QED
      BY <1>0, <2>2, <3>1, <3>2, ProceedMoves DEF Label, UserPC
  <2>3. CASE Refuse(r, 409)
    BY <1>0, <2>3, RefuseAnswers DEF Status
  <2>4. QED
    BY <1>4, <2>2, <2>3 DEF CheckRename
<1>5. CASE UpdateUserRow(r)
  <2>1. Refuse(r, 404) \/ Refuse(r, 500) \/ Answer(r, 200)
    BY <1>5 DEF UpdateUserRow
  <2>2. QED
    BY <1>0, <2>1, RefuseAnswers DEF Answered, Status
<1>6. CASE ReadForDelete(r)
  <2> DEFINE next == IF IsEnabledAdmin(users[q.id]) THEN "adminCount" ELSE "userDelete"
             y == [x EXCEPT !.owner = q.id]
  <2>1. pc[r] = "userDelRead" /\ q.op = "DeleteUser" /\ q.id \in User
    BY <1>0, <1>6, RequestsAssumption DEF ReadForDelete, ControlAt
  <2>2. CASE Proceed(r, next, y)
    <3>1. y \in Locals /\ y.owner = q.id
      BY <1>0, <2>1 DEF Locals
    <3>2. next \in {"adminCount", "userDelete"}
      OBVIOUS
    <3> HIDE DEF next, y
    <3>3. ControlAt(next, q, y)
      BY <2>1, <3>1, <3>2 DEF ControlAt, AuthPC
    <3>4. QED
      BY <1>0, <2>2, <3>1, <3>2, <3>3, ProceedMoves DEF Label, UserPC
  <2>3. CASE Refuse(r, 404)
    BY <1>0, <2>3, RefuseAnswers DEF Status
  <2>4. QED
    BY <1>6, <2>2, <2>3 DEF ReadForDelete
<1>7. CASE EnsureNotLastAdmin(r)
  <2> DEFINE next == IF q.op = "DeleteUser" THEN "userDelete" ELSE "userWrite"
  <2>1. /\ pc[r] = "adminCount" /\ q.op \in {"UpdateUser", "DeleteUser"}
        /\ x.owner \in User /\ (q.op = "UpdateUser" => x.row \in UserRow)
    BY <1>0, <1>7 DEF EnsureNotLastAdmin, ControlAt
  <2>2. CASE Proceed(r, next, x)
    <3>1. ControlAt(next, q, x)
      BY <2>1 DEF ControlAt, AuthPC
    <3>2. QED
      BY <1>0, <2>2, <3>1, ProceedMoves DEF Label, UserPC
  <2>3. CASE Refuse(r, 409)
    BY <1>0, <2>3, RefuseAnswers DEF Status
  <2>4. QED
    BY <1>7, <2>2, <2>3 DEF EnsureNotLastAdmin
<1>8. CASE DeleteUserRow(r)
  <2>1. Refuse(r, 404) \/ Answer(r, 200)
    BY <1>8 DEF DeleteUserRow
  <2>2. QED
    BY <1>0, <2>1, RefuseAnswers DEF Answered, Status
<1>9. CASE ReadForPassword(r)
  <2> DEFINE u == x.principal
             y == [x EXCEPT !.owner = u, !.row = [users[u] EXCEPT !.pw = q.pw]]
  <2>1. /\ pc[r] = "pwRead" /\ q.op = "ChangePassword" /\ u \in User /\ q.pw \in Password
    BY <1>0, <1>9, RequestsAssumption DEF ReadForPassword, ControlAt
  <2>2. CASE users[u] # Nil /\ Proceed(r, "userWrite", y)
    <3>1. [users[u] EXCEPT !.pw = q.pw] \in UserRow
      BY <2>1, <2>2 DEF TypeOK, StoreTypeOK, UserRow
    <3>2. y \in Locals /\ y.owner = u /\ y.row = [users[u] EXCEPT !.pw = q.pw]
      BY <1>0, <2>1, <3>1 DEF Locals
    <3> HIDE DEF y
    <3>3. ControlAt("userWrite", q, y)
      BY <2>1, <3>1, <3>2 DEF ControlAt, AuthPC
    <3>4. QED
      BY <1>0, <2>2, <3>2, <3>3, ProceedMoves DEF Label, UserPC
  <2>3. CASE Refuse(r, 404) \/ Refuse(r, 401)
    BY <1>0, <2>3, RefuseAnswers DEF Status
  <2>4. QED
    BY <1>9, <2>2, <2>3 DEF ReadForPassword
<1>10. QED
  BY <1>1, <1>2, <1>3, <1>4, <1>5, <1>6, <1>7, <1>8, <1>9 DEF UserStep

-----------------------------------------------------------------------------
(* AuthService.                                                            *)

\* Where the operations behind the middleware start.
EnterPC == {"userName", "userRead", "userDelRead", "poolRead", "poolDelete", "pwRead"}

\* The handler behind the middleware refuses or goes on where its operation
\* starts, for a local user that was looked up, to an administrator's operation
\* only for an administrator.
LEMMA EnterMoves ==
    ASSUME TypeOK, ControlInv, NEW r \in Req, pc[r] \in AuthPC, NEW row, Enter(r, row),
           row # Nil => loc[r].principal \in User
    PROVE  \/ Answered(r)
           \/ /\ Moved(r) /\ row # Nil /\ pc'[r] \in EnterPC
              /\ arg[r].op \in AdminOps => IsEnabledAdmin(row)
<1> DEFINE q == arg[r]
           x == loc[r]
           next == Dispatch(q.op)
<1>0. /\ pc[r] # "idle" /\ q \in Requests /\ x \in Locals
      /\ q.op \in AdminOps \cup {"Me", "ChangePassword"}
  BY AtRequest DEF AuthPC, ControlAt
<1>1. CASE Refuse(r, 200) \/ Refuse(r, 403)
  BY <1>0, <1>1, RefuseAnswers DEF Status
<1>2. CASE /\ q.op # "Me"
           /\ q.op \in AdminOps => IsEnabledAdmin(row)
           /\ q.op = "ChangePassword" => row # Nil
           /\ Proceed(r, next, x)
  <2>1. row # Nil
    BY <1>0, <1>2 DEF IsEnabledAdmin
  <2>2. /\ q.op = "CreateUser" => next = "userName"
        /\ q.op = "UpdateUser" => next = "userRead"
        /\ q.op = "DeleteUser" => next = "userDelRead"
        /\ q.op \in {"CreatePool", "UpdatePool"} => next = "poolRead"
        /\ q.op = "DeletePool" => next = "poolDelete"
        /\ q.op = "ChangePassword" => next = "pwRead"
    BY DEF Dispatch
  <2> HIDE DEF next
  <2>3. q.op \in {"CreateUser", "UpdateUser", "DeleteUser", "CreatePool", "UpdatePool",
                  "DeletePool", "ChangePassword"}
    BY <1>0, <1>2 DEF AdminOps, UserOps, PoolOps
  <2>4. next \in Label \ {"idle"} /\ ControlAt(next, q, x)
    BY <2>1, <2>2, <2>3 DEF Label, UserPC, PoolPC, AuthPC, ControlAt
  <2>5. pc'[r] \in EnterPC
    BY <1>2, <2>2, <2>3 DEF Proceed, Goto, TypeOK, ApiTypeOK, EnterPC
  <2>6. QED
    BY <1>0, <1>2, <2>1, <2>4, <2>5, ProceedMoves
<1>3. QED
  BY <1>1, <1>2 DEF Enter

\* After a session token that was rejected, or at first: another token of the
\* request, the JWT, or a 401.
LEMMA TryMoves ==
    ASSUME TypeOK, ControlInv, NEW r \in Req, pc[r] \in AuthPC,
           NEW s \in Session \cup {Nil}, TryAfter(r, s)
    PROVE  /\ Answered(r) \/ Moved(r)
           /\ pc'[r] \in {"idle", "session", "bearer"}
<1> DEFINE q == arg[r]
           next == NextCandidate(q, s)
           y == [NoLocals EXCEPT !.session = next]
<1>0. /\ pc[r] # "idle" /\ q \in Requests /\ q \in Args
      /\ q.op \in AdminOps \cup {"Me", "ChangePassword"}
  BY AtRequest DEF AuthPC, ControlAt
<1>1. CASE next # Nil
  <2>1. q.token \notin State
    BY <1>0, RequestsAssumption DEF AdminOps, UserOps, PoolOps
  <2>2. next \in Carried(q) /\ next \in Session
    BY <1>0, <1>1, <2>1, RequestsAssumption DEF NextCandidate, Carried, Args
  <2>3. y \in Locals /\ y.session = next
    BY <2>2 DEF NoLocals, Locals
  <2>4. Goto(r, "session") /\ loc' = [loc EXCEPT ![r] = y]
    BY <1>1 DEF TryAfter
  <2> HIDE DEF y, next
  <2>5. ControlAt("session", q, y)
    BY <1>0, <2>2, <2>3 DEF ControlAt, AuthPC
  <2>6. Moved(r)
    BY <1>0, <2>3, <2>4, <2>5 DEF Moved, Label, AuthPC
  <2>7. QED
    BY <2>4, <2>6 DEF Goto, TypeOK, ApiTypeOK
<1>2. CASE next = Nil /\ q.jwt # Nil
  <2>1. Goto(r, "bearer") /\ loc' = [loc EXCEPT ![r] = NoLocals]
    BY <1>2 DEF TryAfter
  <2>2. ControlAt("bearer", q, NoLocals) /\ NoLocals \in Locals
    BY <1>0 DEF ControlAt, AuthPC, NoLocals, Locals
  <2>3. Moved(r)
    BY <1>0, <2>1, <2>2 DEF Moved, Label, AuthPC
  <2>4. QED
    BY <2>1, <2>3 DEF Goto, TypeOK, ApiTypeOK
<1>3. CASE next = Nil /\ q.jwt = Nil
  <2>1. Answer(r, 401)
    BY <1>3 DEF TryAfter
  <2>2. QED
    BY <1>0, <2>1 DEF Answered, Status, Answer, TypeOK, ApiTypeOK
<1>4. QED
  BY <1>1, <1>2, <1>3

LEMMA SessionProcess ==
    ASSUME TypeOK, ControlInv, RowsOwned, NEW r \in Req, SessionStep(r)
    PROVE  Answered(r) \/ Moved(r)
<1> DEFINE q == arg[r]
           x == loc[r]
<1>0. /\ pc[r] \in AuthPC \cup LoginPC /\ pc[r] # "idle"
      /\ q \in Requests /\ q \in Args /\ x \in Locals /\ ControlAt(pc[r], q, x)
  <2>1. pc[r] \in AuthPC \cup LoginPC /\ pc[r] # "idle"
    BY DEF SessionStep, CountForBootstrap, CheckPassword, InsertSession, Logout, CountUsers,
       CountPools, LookupSession, DropExpired, LoadPrincipal, AuthenticateOIDCBearer,
       AuthPC, LoginPC
  <2>2. QED
    BY <2>1, AtRequest
<1>1. CASE CountForBootstrap(r)
  <2>1. pc[r] = "bootCount" /\ q.op = "Bootstrap"
    BY <1>0, <1>1 DEF CountForBootstrap, ControlAt
  <2>2. CASE Proceed(r, "userName", x)
    <3>1. ControlAt("userName", q, x)
      BY <2>1 DEF ControlAt, AuthPC
    <3>2. QED
      BY <1>0, <2>2, <3>1, ProceedMoves DEF Label, UserPC
  <2>3. CASE Refuse(r, 409) \/ Refuse(r, 403)
    BY <1>0, <2>3, RefuseAnswers DEF Status
  <2>4. QED
    BY <1>1, <2>2, <2>3 DEF CountForBootstrap
<1>2. CASE CheckPassword(r)
  <2>1. CASE Refuse(r, 401)
    BY <1>0, <2>1, RefuseAnswers DEF Status
  <2>2. ASSUME NEW u \in User, Proceed(r, "sessionInsert", [x EXCEPT !.owner = u])
        PROVE  Moved(r)
    <3> DEFINE y == [x EXCEPT !.owner = u]
    <3>1. y \in Locals /\ y.owner = u
      BY <1>0 DEF Locals
    <3> HIDE DEF y
    <3>2. ControlAt("sessionInsert", q, y)
      BY <3>1 DEF ControlAt, AuthPC
    <3>3. QED
      BY <1>0, <2>2, <3>1, <3>2, ProceedMoves DEF Label, LoginPC, y
  <2>3. QED
    BY <1>2, <2>1, <2>2 DEF CheckPassword, UsersNamed, LiveUsers
<1>3. CASE InsertSession(r) \/ Logout(r)
  <2>1. Refuse(r, 500) \/ \E status \in {200, 201} : Answer(r, status)
    BY <1>3 DEF InsertSession, Logout
  <2>2. QED
    BY <1>0, <2>1, RefuseAnswers DEF Answered, Status
<1>4. CASE CountUsers(r)
  <2> DEFINE y == [x EXCEPT !.flag = LiveUsers # {} \/ Configured]
  <2>1. pc[r] = "status" /\ Proceed(r, "poolCount", y)
    BY <1>4 DEF CountUsers
  <2>2. y \in Locals
    BY <1>0 DEF Locals
  <2> HIDE DEF y
  <2>3. ControlAt("poolCount", q, y)
    BY <1>0, <2>1 DEF ControlAt, AuthPC
  <2>4. QED
    BY <1>0, <2>1, <2>2, <2>3, ProceedMoves DEF Label, AuthPC
<1>5. CASE CountPools(r)
  <2>1. pc[r] \in AuthPC
    BY <1>5 DEF CountPools, AuthPC
  <2>2. CASE Refuse(r, 403)
    BY <1>0, <2>2, RefuseAnswers DEF Status
  <2>3. CASE TryAfter(r, Nil)
    BY <2>1, <2>3, TryMoves
  <2>4. QED
    BY <1>5, <2>2, <2>3 DEF CountPools
<1>6. CASE LookupSession(r)
  <2> DEFINE s == x.session
             y == [x EXCEPT !.principal = sessions[s].owner]
  <2>1. /\ pc[r] = "session" /\ s \in Carried(q) /\ s \in Session
        /\ q.op \in AdminOps \cup {"Me", "ChangePassword"}
    BY <1>0, <1>6 DEF LookupSession, ControlAt, AuthPC, Carried
  <2>2. CASE TryAfter(r, s)
    BY <2>1, <2>2, TryMoves DEF AuthPC
  <2>3. CASE Proceed(r, "dropSession", x)
    <3>1. ControlAt("dropSession", q, x)
      BY <2>1 DEF ControlAt, AuthPC
    <3>2. QED
      BY <1>0, <2>3, <3>1, ProceedMoves DEF Label, AuthPC
  <2>4. CASE Enter(r, Nil)
    BY <1>0, <2>1, <2>4, EnterMoves DEF AuthPC
  <2>5. CASE /\ sessions[s] # Nil /\ sessions[s].kind # "oidc"
             /\ Proceed(r, "principal", y)
    <3>1. sessions[s].owner \in User
      BY <2>1, <2>5 DEF TypeOK, StoreTypeOK, SessionRow, RowsOwned, LiveUsers
    <3>2. y \in Locals /\ y.principal \in User /\ y.session = s
      BY <1>0, <3>1 DEF Locals
    <3> HIDE DEF y
    <3>3. ControlAt("principal", q, y)
      BY <2>1, <3>2 DEF ControlAt, AuthPC
    <3>4. QED
      BY <1>0, <2>5, <3>2, <3>3, ProceedMoves DEF Label, AuthPC
  <2>6. QED
    BY <1>6, <2>2, <2>3, <2>4, <2>5 DEF LookupSession
<1>7. CASE LoadPrincipal(r)
  <2>1. pc[r] \in AuthPC /\ x.principal \in User
    BY <1>0, <1>7 DEF LoadPrincipal, ControlAt, AuthPC
  <2>2. CASE Refuse(r, 500) \/ Refuse(r, 401)
    BY <1>0, <2>2, RefuseAnswers DEF Status
  <2>3. CASE Enter(r, users[x.principal])
    BY <2>1, <2>3, EnterMoves
  <2>4. QED
    BY <1>7, <2>2, <2>3 DEF LoadPrincipal
<1>8. CASE AuthenticateOIDCBearer(r)
  <2>1. pc[r] \in AuthPC
    BY <1>8 DEF AuthenticateOIDCBearer, AuthPC
  <2>2. CASE Refuse(r, 401)
    BY <1>0, <2>2, RefuseAnswers DEF Status
  <2>3. CASE Enter(r, Nil)
    BY <2>1, <2>3, EnterMoves
  <2>4. QED
    BY <1>8, <2>2, <2>3 DEF AuthenticateOIDCBearer
<1>9. CASE DropExpired(r)
  <2>1. pc[r] \in AuthPC /\ x.session \in Session
    BY <1>0, <1>9 DEF DropExpired, ControlAt, Carried, AuthPC
  <2>2. QED
    BY <1>9, <2>1, TryMoves DEF DropExpired
<1>10. QED
  BY <1>1, <1>2, <1>3, <1>4, <1>5, <1>6, <1>7, <1>8, <1>9 DEF SessionStep

-----------------------------------------------------------------------------
(* IdentityPoolService and the OIDC flow.                                  *)

LEMMA PoolProcess ==
    ASSUME TypeOK, ControlInv, NEW r \in Req, PoolStep(r)
    PROVE  Answered(r) \/ Moved(r)
<1> DEFINE q == arg[r]
           x == loc[r]
<1>0. /\ pc[r] \in PoolPC /\ pc[r] # "idle"
      /\ q \in Requests /\ q \in Args /\ x \in Locals /\ ControlAt(pc[r], q, x)
  <2>1. pc[r] \in PoolPC /\ pc[r] # "idle"
    BY DEF PoolStep, PreparePool, EnsureSlugUnique, EnsureIssuerUnique, EnsureNameUnique,
       EnsureUnique, WritePoolRow, DeletePool, PoolPC
  <2>2. QED
    BY <2>1, AtRequest
<1>1. CASE PreparePool(r)
  <2> DEFINE creates == q.op = "CreatePool"
             new == IF creates THEN NewPool(q) ELSE MergePool(pools[q.id], q)
             o == IF creates THEN Nil ELSE q.id
             y == [x EXCEPT !.owner = o, !.row = new]
  <2>1. pc[r] = "poolRead" /\ q.op \in {"CreatePool", "UpdatePool"}
    BY <1>0, <1>1 DEF PreparePool, ControlAt
  <2>2. CASE Refuse(r, 404) \/ Refuse(r, 400)
    BY <1>0, <2>2, RefuseAnswers DEF Status
  <2>3. CASE (creates \/ pools[q.id] # Nil) /\ Proceed(r, "poolSlug", y)
    <3>1. new \in PoolRow /\ o \in Pool \cup {Nil}
      <4>1. CASE creates
        <5>1. NewPool(q) \in PoolRow
          BY <1>0, <4>1, RequestsAssumption DEF NewPool, PoolRow
        <5>2. QED
          BY <4>1, <5>1
      <4>2. CASE ~creates
        <5>1. q.id \in Pool /\ pools[q.id] \in PoolRow
          BY <1>0, <2>1, <2>3, <4>2, RequestsAssumption DEF TypeOK, StoreTypeOK
        <5>2. MergePool(pools[q.id], q) \in PoolRow
          BY <1>0, <5>1, NilAssumption DEF MergePool, PoolRow, Args, Or
        <5>3. QED
          BY <4>2, <5>1, <5>2
      <4>3. QED
        BY <4>1, <4>2
    <3> HIDE DEF new, o
    <3>4. y \in Locals /\ y.row = new /\ y.owner = o
      BY <1>0, <3>1 DEF Locals
    <3> HIDE DEF y
    <3>5. ControlAt("poolSlug", q, y)
      BY <2>1, <3>1, <3>4 DEF ControlAt, AuthPC
    <3>6. QED
      BY <1>0, <2>3, <3>4, <3>5, ProceedMoves DEF Label, PoolPC
  <2>4. QED
    BY <1>1, <2>2, <2>3 DEF PreparePool
<1>2. ASSUME NEW here \in {"poolSlug", "poolIssuer", "poolNames"}, NEW taken,
             NEW next \in {"poolIssuer", "poolNames", "poolWrite"},
             EnsureUnique(r, here, taken, next)
      PROVE  Answered(r) \/ Moved(r)
  <2>1. CASE Refuse(r, 409)
    BY <1>0, <2>1, RefuseAnswers DEF Status
  <2>2. CASE Proceed(r, next, x)
    <3>1. ControlAt(next, q, x)
      BY <1>0, <1>2 DEF EnsureUnique, ControlAt, AuthPC
    <3>2. QED
      BY <1>0, <2>2, <3>1, ProceedMoves DEF Label, PoolPC
  <2>3. QED
    BY <1>2, <2>1, <2>2 DEF EnsureUnique
<1>3. CASE EnsureSlugUnique(r) \/ EnsureIssuerUnique(r) \/ EnsureNameUnique(r)
  BY <1>2, <1>3 DEF EnsureSlugUnique, EnsureIssuerUnique, EnsureNameUnique
<1>4. CASE WritePoolRow(r) \/ DeletePool(r)
  <2>1. Refuse(r, 404) \/ Refuse(r, 500) \/ Answer(r, 200) \/ Answer(r, 201)
    BY <1>4 DEF WritePoolRow, DeletePool
  <2>2. QED
    BY <1>0, <2>1, RefuseAnswers DEF Answered, Status
<1>5. QED
  BY <1>1, <1>3, <1>4 DEF PoolStep

LEMMA OidcProcess ==
    ASSUME TypeOK, ControlInv, NEW r \in Req, OidcStep(r)
    PROVE  Answered(r) \/ Moved(r)
<1> DEFINE q == arg[r]
           x == loc[r]
<1>0. /\ pc[r] \in OidcPC /\ pc[r] # "idle"
      /\ q \in Requests /\ q \in Args /\ x \in Locals /\ ControlAt(pc[r], q, x)
  <2>1. pc[r] \in OidcPC /\ pc[r] # "idle"
    BY DEF OidcStep, FindPool, Discover, InsertLoginState, SelectLoginState, TakeLoginState,
       CheckPool, Exchange, OidcPC
  <2>2. QED
    BY <2>1, AtRequest
<1>1. ASSUME NEW p \in Pool, NEW l \in {"discover", "takeDelete", "poolCheck"},
             l = "takeDelete" => q.op = "Callback" /\ Dialect = "postgres",
             Goto(r, l), loc' = [loc EXCEPT ![r] = [x EXCEPT !.owner = p]]
      PROVE  Moved(r)
  <2> DEFINE y == [x EXCEPT !.owner = p]
  <2>1. y \in Locals /\ y.owner = p
    BY <1>0 DEF Locals
  <2> HIDE DEF y
  <2>2. ControlAt(l, q, y)
    BY <1>1, <2>1 DEF ControlAt, AuthPC
  <2>3. QED
    BY <1>0, <1>1, <2>1, <2>2 DEF Moved, Label, OidcPC, y
<1>2. CASE FindPool(r)
  <2>1. CASE Refuse(r, 404) \/ Refuse(r, 401)
    BY <1>0, <2>1, RefuseAnswers DEF Status
  <2>2. ASSUME NEW p \in Pool, Proceed(r, "discover", [x EXCEPT !.owner = p])
        PROVE  Moved(r)
    BY <1>1, <2>2 DEF Proceed
  <2>3. QED
    BY <1>2, <2>1, <2>2 DEF FindPool, PoolsWith, LivePools
<1>3. ASSUME NEW l \in {"stateInsert", "exchange", "discover", "sessionInsert"},
             x.owner \in Pool, Proceed(r, l, x)
      PROVE  Moved(r)
  <2>1. ControlAt(l, q, x)
    BY <1>3 DEF ControlAt, AuthPC
  <2>2. QED
    BY <1>0, <1>3, <2>1, ProceedMoves DEF Label, OidcPC, LoginPC
<1>4. CASE Discover(r) \/ CheckPool(r) \/ Exchange(r)
  <2>1. x.owner \in Pool
    BY <1>0, <1>4 DEF Discover, CheckPool, Exchange, ControlAt
  <2>2. CASE Refuse(r, 401) \/ Refuse(r, 404)
    BY <1>0, <2>2, RefuseAnswers DEF Status
  <2>3. QED
    BY <1>3, <1>4, <2>1, <2>2 DEF Discover, CheckPool, Exchange
<1>5. CASE InsertLoginState(r)
  <2>1. Refuse(r, 500) \/ Answer(r, 200)
    BY <1>5 DEF InsertLoginState
  <2>2. QED
    BY <1>0, <2>1, RefuseAnswers DEF Answered, Status
<1>6. CASE SelectLoginState(r)
  <2> DEFINE row == loginStates[q.token]
  <2>1. pc[r] = "take" /\ q.op = "Callback" /\ q.token \in State
    BY <1>0, <1>6, RequestsAssumption DEF SelectLoginState, ControlAt
  <2>2. CASE Refuse(r, 401)
    BY <1>0, <2>2, RefuseAnswers DEF Status
  <2>3. CASE /\ row # Nil /\ Dialect = "postgres"
             /\ Proceed(r, "takeDelete", [x EXCEPT !.owner = row.pool])
    <3>1. row.pool \in Pool
      BY <2>1, <2>3 DEF TypeOK, StoreTypeOK, LoginStateRow
    <3>2. QED
      BY <1>1, <2>1, <2>3, <3>1 DEF Proceed
  <2>4. QED
    BY <1>6, <2>2, <2>3 DEF SelectLoginState
<1>7. CASE TakeLoginState(r)
  <2> DEFINE p == IF pc[r] = "take" THEN loginStates[q.token].pool ELSE x.owner
  <2>1. p \in Pool
    <3>1. CASE pc[r] = "take"
      BY <1>0, <1>7, <3>1, RequestsAssumption
         DEF TakeLoginState, ControlAt, TypeOK, StoreTypeOK, LoginStateRow
    <3>2. CASE pc[r] = "takeDelete"
      BY <1>0, <3>2 DEF ControlAt
    <3>3. QED
      BY <1>7, <3>1, <3>2 DEF TakeLoginState
  <2>2. CASE Answer(r, 401)
    BY <1>0, <2>2 DEF Answered, Status
  <2>3. CASE Goto(r, "poolCheck") /\ loc' = [loc EXCEPT ![r].owner = p]
    <3>1. loc' = [loc EXCEPT ![r] = [x EXCEPT !.owner = p]]
      BY <2>3
    <3>2. QED
      BY <1>1, <2>1, <2>3, <3>1
  <2>4. QED
    BY <1>7, <2>2, <2>3 DEF TakeLoginState
<1>8. QED
  BY <1>2, <1>4, <1>5, <1>6, <1>7 DEF OidcStep

\* A step answers its request, moves it on, or receives it.
LEMMA ProcessEffect ==
    ASSUME TypeOK, ControlInv, RowsOwned, NEW r \in Req, StepOf(r)
    PROVE  Answered(r) \/ Moved(r) \/ Receive(r)
<1>1. ASSUME Fail(r) PROVE Answered(r)
  <2>1. FailStatus(pc[r]) \in Status
    BY DEF FailStatus, Status
  <2>2. QED
    BY <1>1, <2>1, RefuseAnswers DEF Fail
<1>2. QED
  BY <1>1, UserProcess, SessionProcess, PoolProcess, OidcProcess DEF StepOf, Step

-----------------------------------------------------------------------------
(* What a step of the server does to the tables: nothing, or one statement. *)

\* The statements, over all rows and ids they may be about.
Statement ==
    \/ \E u \in User, row \in UserRow : WriteUser(u, row)
    \/ \E u \in User : RemoveUser(u)
    \/ \E s \in Session \ used, x \in User \cup Pool :
         AddSession(s, IF x \in User THEN "local_user" ELSE "oidc", x)
    \/ \E s \in Session : RemoveSession(s)
    \/ \E p \in Pool, row \in PoolRow : WritePool(p, row)
    \/ \E p \in Pool : RemovePool(p)
    \/ \E t \in State \ used, p \in Pool : AddLoginState(t, p)
    \/ \E t \in State : RemoveLoginState(t)

\* What a new user's row holds (user.go:106-150, auth.go:160-200).
LEMMA NewUserRow ==
    ASSUME NEW q \in Requests, q.op \in {"Bootstrap", "CreateUser"}
    PROVE  NewUser(q) \in UserRow
<1>1. q \in Args /\ q.name \in Name /\ q.pw \in Password
  BY RequestsAssumption
<1>2. CASE q.op = "Bootstrap"
  BY <1>1, <1>2 DEF NewUser, UserRow, Role
<1>3. CASE q.op = "CreateUser"
  BY <1>1, <1>3, RequestsAssumption DEF NewUser, UserRow
<1>4. QED
  BY <1>2, <1>3

LEMMA UserTables ==
    ASSUME TypeOK, ControlInv, NEW r \in Req, UserStep(r)
    PROVE  UNCHANGED tables \/ Statement
<1>0. pc[r] \in UserPC => arg[r] \in Requests /\ ControlAt(pc[r], arg[r], loc[r])
  BY AtRequest DEF UserPC
<1>1. CASE \/ CheckUsername(r) \/ ReadUser(r) \/ CheckRename(r) \/ ReadForDelete(r)
           \/ EnsureNotLastAdmin(r) \/ ReadForPassword(r)
  BY <1>1 DEF CheckUsername, ReadUser, CheckRename, ReadForDelete, EnsureNotLastAdmin,
     ReadForPassword, Refuse, Proceed
<1>2. CASE InsertUser(r)
  <2>1. NewUser(arg[r]) \in UserRow
    BY <1>0, <1>2, NewUserRow DEF InsertUser, ControlAt, UserPC
  <2>2. PICK u \in User \ used : Refuse(r, 500) \/ WriteUser(u, NewUser(arg[r]))
    BY <1>2 DEF InsertUser
  <2>3. QED
    BY <2>1, <2>2 DEF Statement, Refuse
<1>3. CASE UpdateUserRow(r)
  <2>1. loc[r].owner \in User /\ loc[r].row \in UserRow
    BY <1>0, <1>3 DEF UpdateUserRow, ControlAt, UserPC
  <2>2. QED
    BY <1>3, <2>1 DEF UpdateUserRow, Statement, Refuse
<1>4. CASE DeleteUserRow(r)
  <2>1. loc[r].owner \in User
    BY <1>0, <1>4 DEF DeleteUserRow, ControlAt, UserPC
  <2>2. QED
    BY <1>4, <2>1 DEF DeleteUserRow, Statement, Refuse
<1>5. QED
  BY <1>1, <1>2, <1>3, <1>4 DEF UserStep

LEMMA SessionTables ==
    ASSUME TypeOK, ControlInv, NEW r \in Req, SessionStep(r)
    PROVE  UNCHANGED tables \/ Statement
<1>0. pc[r] \in LoginPC \cup AuthPC =>
        /\ arg[r] \in Requests /\ arg[r] \in Args
        /\ ControlAt(pc[r], arg[r], loc[r])
  BY AtRequest DEF LoginPC, AuthPC
<1>1. CASE \/ CountForBootstrap(r) \/ CheckPassword(r) \/ CountUsers(r) \/ CountPools(r)
           \/ LookupSession(r) \/ LoadPrincipal(r) \/ AuthenticateOIDCBearer(r)
  BY <1>1 DEF CountForBootstrap, CheckPassword, CountUsers, CountPools, LookupSession,
     LoadPrincipal, AuthenticateOIDCBearer, Enter, Refuse, Proceed
<1>2. CASE InsertSession(r)
  <2>1. loc[r].owner \in User \cup Pool
    BY <1>0, <1>2 DEF InsertSession, ControlAt, LoginPC
  <2>2. CASE Refuse(r, 500)
    BY <2>2 DEF Refuse
  <2>3. CASE \E s \in Session \ used :
               AddSession(s, IF loc[r].owner \in User THEN "local_user" ELSE "oidc",
                          loc[r].owner)
    BY <2>1, <2>3 DEF Statement
  <2>4. QED
    BY <1>2, <2>2, <2>3 DEF InsertSession
<1>3. CASE Logout(r)
  <2>1. arg[r].token \in Session \cup {Nil}
    BY <1>0, <1>3, RequestsAssumption DEF Logout, ControlAt, LoginPC, Args
  <2>2. QED
    BY <1>3, <2>1 DEF Logout, Statement
<1>4. CASE DropExpired(r)
  <2>1. loc[r].session \in Session
    BY <1>0, <1>4 DEF DropExpired, ControlAt, Carried, AuthPC
  <2>2. QED
    BY <1>4, <2>1 DEF DropExpired, Statement
<1>5. QED
  BY <1>1, <1>2, <1>3, <1>4 DEF SessionStep

LEMMA PoolTables ==
    ASSUME TypeOK, ControlInv, NEW r \in Req, PoolStep(r)
    PROVE  UNCHANGED tables \/ Statement
<1>0. pc[r] \in PoolPC => arg[r] \in Requests /\ ControlAt(pc[r], arg[r], loc[r])
  BY AtRequest DEF PoolPC
<1>1. CASE \/ PreparePool(r) \/ EnsureSlugUnique(r) \/ EnsureIssuerUnique(r)
           \/ EnsureNameUnique(r)
  BY <1>1 DEF PreparePool, EnsureSlugUnique, EnsureIssuerUnique, EnsureNameUnique,
     EnsureUnique, Refuse, Proceed
<1>2. CASE WritePoolRow(r)
  <2>1. loc[r].row \in PoolRow /\ loc[r].owner \in Pool \cup {Nil}
    BY <1>0, <1>2 DEF WritePoolRow, ControlAt, PoolPC
  <2>2. \/ \E status \in Status : Refuse(r, status)
        \/ loc[r].owner # Nil /\ WritePool(loc[r].owner, loc[r].row)
        \/ \E p \in Pool \ used : WritePool(p, loc[r].row)
    BY <1>2 DEF WritePoolRow, Status
  <2>3. QED
    BY <2>1, <2>2 DEF Statement, Refuse
<1>3. CASE DeletePool(r)
  <2>1. arg[r].id \in Pool
    BY <1>0, <1>3, RequestsAssumption DEF DeletePool, ControlAt, PoolPC
  <2>2. QED
    BY <1>3, <2>1 DEF DeletePool, Statement, Refuse
<1>4. QED
  BY <1>1, <1>2, <1>3 DEF PoolStep

LEMMA OidcTables ==
    ASSUME TypeOK, ControlInv, NEW r \in Req, OidcStep(r)
    PROVE  UNCHANGED tables \/ Statement
<1>0. pc[r] \in OidcPC => arg[r] \in Requests /\ ControlAt(pc[r], arg[r], loc[r])
  BY AtRequest DEF OidcPC
<1>1. CASE \/ FindPool(r) \/ Discover(r) \/ SelectLoginState(r) \/ CheckPool(r)
           \/ Exchange(r)
  BY <1>1 DEF FindPool, Discover, SelectLoginState, CheckPool, Exchange, Refuse, Proceed
<1>2. CASE InsertLoginState(r)
  <2>1. loc[r].owner \in Pool
    BY <1>0, <1>2 DEF InsertLoginState, ControlAt, OidcPC
  <2>2. QED
    BY <1>2, <2>1 DEF InsertLoginState, Statement, Refuse
<1>3. CASE TakeLoginState(r)
  <2>1. arg[r].token \in State
    BY <1>0, <1>3, RequestsAssumption DEF TakeLoginState, ControlAt, OidcPC
  <2>2. QED
    BY <1>3, <2>1 DEF TakeLoginState, Statement
<1>4. QED
  BY <1>1, <1>2, <1>3 DEF OidcStep

\* A step of a request runs at most one statement that writes, and it succeeds
\* as the schema demands.
LEMMA TableEffect ==
    ASSUME TypeOK, ControlInv, NEW r \in Req, StepOf(r)
    PROVE  UNCHANGED tables \/ Statement
<1>1. CASE Receive(r) \/ Fail(r)
  BY <1>1 DEF Receive, Fail, Refuse
<1>2. QED
  BY <1>1, UserTables, SessionTables, PoolTables, OidcTables DEF StepOf, Step

-----------------------------------------------------------------------------
(* Type and control invariant.                                             *)

\* One statement keeps the types of the tables.
LEMMA StatementType ==
    ASSUME StoreTypeOK, Statement, expired' = expired
    PROVE  StoreTypeOK'
<1> USE DEF StoreTypeOK
<1>1. CASE \E u \in User, row \in UserRow : WriteUser(u, row)
  BY <1>1 DEF WriteUser, Id
<1>2. CASE \E u \in User : RemoveUser(u)
  BY <1>2 DEF RemoveUser
<1>3. ASSUME NEW s \in Session \ used, NEW x \in User \cup Pool,
             AddSession(s, IF x \in User THEN "local_user" ELSE "oidc", x)
      PROVE  StoreTypeOK'
  BY <1>3 DEF AddSession, SessionRow, Id
<1>4. CASE \E s \in Session : RemoveSession(s)
  BY <1>4 DEF RemoveSession
<1>5. CASE \E p \in Pool, row \in PoolRow : WritePool(p, row)
  BY <1>5 DEF WritePool, Id
<1>6. ASSUME NEW p \in Pool, RemovePool(p)
      PROVE  StoreTypeOK'
  <2>1. \A s \in Session : sessions[s] # Nil =>
          [sessions[s] EXCEPT !.owner = Nil] \in SessionRow
    BY DEF SessionRow
  <2>2. sessions' \in [Session -> SessionRow \cup {Nil}]
    BY <1>6, <2>1 DEF RemovePool
  <2>3. QED
    BY <1>6, <2>2 DEF RemovePool
<1>7. CASE \E t \in State \ used, p \in Pool : AddLoginState(t, p)
  BY <1>7 DEF AddLoginState, LoginStateRow, Id
<1>8. CASE \E t \in State : RemoveLoginState(t)
  BY <1>8 DEF RemoveLoginState
<1>9. QED
  BY <1>1, <1>2, <1>3, <1>4, <1>5, <1>6, <1>7, <1>8 DEF Statement

\* The process state after a step of request r.
LEMMA ProcessType ==
    ASSUME TypeOK, ControlInv, NEW r \in Req, Answered(r) \/ Moved(r) \/ Receive(r)
    PROVE  /\ ApiTypeOK' /\ ControlInv'
           /\ \A p \in Req \ {r} : pc'[p] = pc[p] /\ arg'[p] = arg[p] /\ loc'[p] = loc[p]
<1> USE DEF TypeOK, ApiTypeOK
<1>0. NoLocals \in Locals /\ Nil \notin Requests
  BY RequestsAssumption DEF NoLocals, Locals
<1>1. CASE Answered(r)
  <2>1. PICK status \in Status : Answer(r, status)
    BY <1>1 DEF Answered
  <2>2. /\ pc' = [pc EXCEPT ![r] = "idle"] /\ arg' = [arg EXCEPT ![r] = Nil]
        /\ loc' = [loc EXCEPT ![r] = NoLocals] /\ reply' = [NoReply EXCEPT ![r] = status]
    BY <2>1 DEF Answer
  <2>3. ApiTypeOK'
    BY <1>0, <2>2 DEF NoReply, Status
  <2>4. ControlAt("idle", Nil, NoLocals)
    BY DEF ControlAt, AuthPC
  <2>5. QED
    BY <2>2, <2>3, <2>4 DEF ControlInv
<1>2. CASE Moved(r)
  <2>1. PICK l \in Label \ {"idle"}, x \in Locals :
          /\ Goto(r, l) /\ loc' = [loc EXCEPT ![r] = x] /\ ControlAt(l, arg[r], x)
    BY <1>2 DEF Moved
  <2>2. pc' = [pc EXCEPT ![r] = l] /\ arg' = arg /\ reply' = NoReply
    BY <2>1 DEF Goto
  <2>3. ApiTypeOK'
    BY <1>2, <2>1, <2>2 DEF NoReply, Moved, Label
  <2>4. QED
    BY <2>1, <2>2, <2>3 DEF ControlInv
<1>3. CASE Receive(r)
  <2>1. PICK q \in Requests :
          /\ arg' = [arg EXCEPT ![r] = q] /\ pc' = [pc EXCEPT ![r] = EntryPoint(q)]
          /\ reply' = NoReply /\ loc' = loc
    BY <1>3 DEF Receive
  <2>2. /\ EntryPoint(q) \in {"bootCount", "login", "logout", "poolBySlug", "take", "status"}
        /\ EntryPoint(q) = "bootCount" => q.op = "Bootstrap"
        /\ EntryPoint(q) = "logout" => q.op = "Logout"
        /\ EntryPoint(q) = "take" => q.op = "Callback"
        /\ EntryPoint(q) = "status" => q.op \notin AuthOps
    BY DEF EntryPoint, AuthOps
  <2>3. EntryPoint(q) \in Label \ {"idle"}
    BY <2>2 DEF Label, AuthPC, LoginPC, OidcPC
  <2>4. q.op \in Ops
    BY RequestsAssumption DEF Args
  <2>5. ControlAt(EntryPoint(q), q, loc[r])
    BY <2>2, <2>4 DEF ControlAt, AuthPC, Ops, AuthOps
  <2>6. ApiTypeOK'
    BY <1>0, <2>1, <2>3 DEF NoReply, Label
  <2>7. QED
    BY <2>1, <2>5, <2>6 DEF ControlInv
<1>4. QED
  BY <1>1, <1>2, <1>3

\* The history variables have their types after any step that leaves the
\* tables with theirs.
LEMMA ObserveType ==
    ASSUME TypeOK, StoreTypeOK', ApiTypeOK', Observe
    PROVE  /\ issuedTo' \in [Session -> User \cup Pool \cup {Nil}]
           /\ seen' \in [Req -> SUBSET Fact]
<1>1. \A s \in Session : sessions'[s] # Nil => sessions'[s].owner \in User \cup Pool \cup {Nil}
  BY DEF StoreTypeOK, SessionRow
<1>2. issuedTo' \in [Session -> User \cup Pool \cup {Nil}]
  BY <1>1 DEF Observe, TypeOK
<1>3. \A r \in Req : Facts(r)' \subseteq Fact
  BY DEF Facts, Fact, Carried
<1>4. \A r \in Req : seen[r] \subseteq Fact
  BY DEF TypeOK, Fact
<1>5. \A r \in Req :
        (IF pc'[r] = "idle" THEN {}
         ELSE (IF pc[r] = "idle" THEN {} ELSE seen[r]) \cup Facts(r)') \subseteq Fact
  BY <1>3, <1>4
<1>6. seen' \in [Req -> SUBSET Fact]
  BY <1>5 DEF Observe
<1>7. QED
  BY <1>2, <1>6

\* The steps of the system are those of a request, and the clock's.
LEMMA SystemSteps ==
    ASSUME Next
    PROVE  /\ Observe
           /\ \/ \E r \in Req : StepOf(r)
              \/ \E x \in Session \cup State : Expire(x)
BY DEF Next, System, StepOf

LEMMA TypeStep ==
    ASSUME TypeOK, ControlInv, RowsOwned, Next
    PROVE  TypeOK' /\ ControlInv'
<1>1. ASSUME NEW r \in Req, StepOf(r)
      PROVE  TypeOK' /\ ControlInv'
  <2>1. expired' = expired
    BY <1>1 DEF StepOf
  <2>2. StoreTypeOK'
    <3>1. UNCHANGED tables => StoreTypeOK'
      BY <2>1 DEF TypeOK, StoreTypeOK, tables
    <3>2. QED
      BY <1>1, <2>1, <3>1, TableEffect, StatementType DEF TypeOK
  <2>3. ApiTypeOK' /\ ControlInv'
    BY <1>1, ProcessEffect, ProcessType
  <2>4. claims' \in [State -> Nat]
    <3>1. \/ claims' = claims
          \/ \E t : claims' = [claims EXCEPT ![t] = @ + 1]
      BY <1>1 DEF StepOf, Step, OidcStep, FindPool, Discover, InsertLoginState,
         SelectLoginState, TakeLoginState, CheckPool, Exchange
    <3>2. QED
      BY <3>1 DEF TypeOK
  <2>5. QED
    BY <2>2, <2>3, <2>4, SystemSteps, ObserveType DEF TypeOK, Fact
<1>2. ASSUME NEW x \in Session \cup State, Expire(x)
      PROVE  TypeOK' /\ ControlInv'
  <2>1. /\ UNCHANGED <<tables, pc, arg, loc, claims>>
        /\ expired' = expired \cup {x} /\ reply' = NoReply
    BY <1>2 DEF Expire
  <2>2. StoreTypeOK'
    BY <2>1 DEF TypeOK, StoreTypeOK, tables
  <2>3. ApiTypeOK' /\ ControlInv'
    BY <2>1 DEF TypeOK, ApiTypeOK, NoReply, ControlInv
  <2>4. QED
    BY <2>1, <2>2, <2>3, SystemSteps, ObserveType DEF TypeOK, Fact
<1>3. QED
  BY <1>1, <1>2, SystemSteps

-----------------------------------------------------------------------------
(* The invariants of the tables.                                           *)

\* A statement keeps them all: unique index and foreign keys see to it.
LEMMA StatementKeeps ==
    ASSUME StoreTypeOK, RowsOwned, UsernamesUnique, PoolKeysUnique, Statement
    PROVE  RowsOwned' /\ UsernamesUnique' /\ PoolKeysUnique'
<1> USE DEF StoreTypeOK, LiveUsers, LivePools
<1>a. ASSUME UNCHANGED users PROVE UsernamesUnique'
  BY <1>a DEF UsernamesUnique
<1>b. ASSUME UNCHANGED pools PROVE PoolKeysUnique'
  BY <1>b DEF PoolKeysUnique
<1>1. ASSUME NEW u \in User, NEW row \in UserRow, WriteUser(u, row)
      PROVE  RowsOwned' /\ UsernamesUnique' /\ PoolKeysUnique'
  <2>1. /\ users' = [users EXCEPT ![u] = row] /\ UNCHANGED <<sessions, pools, loginStates>>
        /\ row # Nil /\ UsernameFree(u, row.name)
    BY <1>1, NilAssumption DEF WriteUser
  <2>2. RowsOwned'
    BY <2>1 DEF RowsOwned
  <2>3. \A v \in User : v # u /\ users[v] # Nil => users[v].name # row.name
    BY <2>1 DEF UsernameFree, UsersNamed
  <2>4. UsernamesUnique'
    BY <2>1, <2>3 DEF UsernamesUnique
  <2>5. QED
    BY <1>b, <2>1, <2>2, <2>4
<1>2. ASSUME NEW u \in User, RemoveUser(u)
      PROVE  RowsOwned' /\ UsernamesUnique' /\ PoolKeysUnique'
  <2>1. /\ users' = [users EXCEPT ![u] = Nil]
        /\ \A s \in Session : sessions'[s] # Nil =>
             sessions[s] # Nil /\ sessions'[s] = sessions[s] /\ sessions[s].owner # u
        /\ UNCHANGED <<pools, loginStates>>
    BY <1>2 DEF RemoveUser
  <2>2. RowsOwned'
    BY <2>1 DEF RowsOwned
  <2>3. UsernamesUnique'
    BY <2>1 DEF UsernamesUnique
  <2>4. QED
    BY <1>b, <2>1, <2>2, <2>3
<1>3. ASSUME NEW s \in Session \ used, NEW x \in User \cup Pool,
             AddSession(s, IF x \in User THEN "local_user" ELSE "oidc", x)
      PROVE  RowsOwned' /\ UsernamesUnique' /\ PoolKeysUnique'
  <2> DEFINE kind == IF x \in User THEN "local_user" ELSE "oidc"
  <2>1. /\ sessions' = [sessions EXCEPT ![s] = [kind |-> kind, owner |-> x]]
        /\ UNCHANGED <<users, pools, loginStates>> /\ OwnerExists(x)
    BY <1>3 DEF AddSession
  <2>2. \A t \in Session \ {s} : sessions'[t] = sessions[t]
    BY <2>1
  <2>3. /\ sessions'[s].kind = kind /\ sessions'[s].owner = x
        /\ kind = "local_user" => x \in LiveUsers
        /\ kind # "local_user" => x \in LivePools
    BY <2>1 DEF OwnerExists
  <2> HIDE DEF kind
  <2>4. RowsOwned'
    BY <2>1, <2>2, <2>3 DEF RowsOwned
  <2>5. QED
    BY <1>a, <1>b, <2>1, <2>4
<1>4. ASSUME NEW s \in Session, RemoveSession(s)
      PROVE  RowsOwned' /\ UsernamesUnique' /\ PoolKeysUnique'
  BY <1>4, <1>a, <1>b DEF RemoveSession, RowsOwned
<1>5. ASSUME NEW p \in Pool, NEW row \in PoolRow, WritePool(p, row)
      PROVE  RowsOwned' /\ UsernamesUnique' /\ PoolKeysUnique'
  <2>1. /\ pools' = [pools EXCEPT ![p] = row] /\ UNCHANGED <<users, sessions, loginStates>>
        /\ row # Nil /\ PoolKeysFree(p, row)
    BY <1>5, NilAssumption DEF WritePool
  <2>2. RowsOwned'
    BY <2>1 DEF RowsOwned
  <2>3. \A o \in Pool : o # p /\ pools[o] # Nil =>
          \A f \in {"name", "slug", "issuer"} : pools[o][f] # row[f]
    BY <2>1 DEF PoolKeysFree, PoolsWith
  <2>4. PoolKeysUnique'
    BY <2>1, <2>3 DEF PoolKeysUnique
  <2>5. QED
    BY <1>a, <2>1, <2>2, <2>4
<1>6. ASSUME NEW p \in Pool, RemovePool(p)
      PROVE  RowsOwned' /\ UsernamesUnique' /\ PoolKeysUnique'
  <2>1. /\ pools' = [pools EXCEPT ![p] = Nil] /\ users' = users
        /\ sessions' = [s \in Session |->
             IF sessions[s] # Nil /\ sessions[s].owner = p
             THEN [sessions[s] EXCEPT !.owner = Nil] ELSE sessions[s]]
        /\ \A t \in State : loginStates'[t] # Nil =>
             /\ loginStates[t] # Nil /\ loginStates'[t] = loginStates[t]
             /\ loginStates[t].pool # p
    BY <1>6 DEF RemovePool
  <2>2. \A s \in Session : sessions'[s] # Nil =>
          IF sessions'[s].kind = "local_user" THEN sessions'[s].owner \in LiveUsers
          ELSE sessions'[s].owner \in (LivePools \ {p}) \cup {Nil}
    <3> SUFFICES ASSUME NEW s \in Session, sessions'[s] # Nil
                 PROVE  IF sessions'[s].kind = "local_user"
                        THEN sessions'[s].owner \in LiveUsers
                        ELSE sessions'[s].owner \in (LivePools \ {p}) \cup {Nil}
      OBVIOUS
    <3>1. sessions[s] # Nil /\ sessions[s] \in SessionRow
      BY <2>1
    <3>2. CASE sessions[s].owner = p
      <4>1. sessions'[s] = [sessions[s] EXCEPT !.owner = Nil]
        BY <2>1, <3>1, <3>2
      <4>2. sessions'[s].kind = sessions[s].kind /\ sessions'[s].owner = Nil
        BY <3>1, <4>1 DEF SessionRow
      <4>3. sessions[s].kind # "local_user"
        BY <3>1, <3>2, IdAssumption DEF RowsOwned
      <4>4. QED
        BY <4>2, <4>3
    <3>3. CASE sessions[s].owner # p
      BY <2>1, <3>1, <3>3 DEF RowsOwned
    <3>4. QED
      BY <3>2, <3>3
  <2>3. LiveUsers' = LiveUsers /\ LivePools' = LivePools \ {p}
    BY <2>1
  <2>4. RowsOwned'
    BY <2>1, <2>2, <2>3 DEF RowsOwned
  <2>5. PoolKeysUnique'
    BY <2>1 DEF PoolKeysUnique
  <2>6. QED
    BY <1>a, <2>1, <2>4, <2>5
<1>7. ASSUME NEW t \in State \ used, NEW p \in Pool, AddLoginState(t, p)
      PROVE  RowsOwned' /\ UsernamesUnique' /\ PoolKeysUnique'
  <2>1. RowsOwned'
    BY <1>7 DEF AddLoginState, RowsOwned
  <2>2. QED
    BY <1>7, <1>a, <1>b, <2>1 DEF AddLoginState
<1>8. ASSUME NEW t \in State, RemoveLoginState(t)
      PROVE  RowsOwned' /\ UsernamesUnique' /\ PoolKeysUnique'
  BY <1>8, <1>a, <1>b DEF RemoveLoginState, RowsOwned
<1>9. QED
  BY <1>1, <1>2, <1>3, <1>4, <1>5, <1>6, <1>7, <1>8 DEF Statement

\* So does every step.
LEMMA TablesStep ==
    ASSUME TypeOK, ControlInv, RowsOwned, UsernamesUnique, PoolKeysUnique, Next
    PROVE  RowsOwned' /\ UsernamesUnique' /\ PoolKeysUnique'
<1>1. UNCHANGED tables => RowsOwned' /\ UsernamesUnique' /\ PoolKeysUnique'
  BY DEF tables, RowsOwned, UsernamesUnique, PoolKeysUnique, LiveUsers, LivePools
<1>2. UNCHANGED tables \/ Statement
  BY SystemSteps, TableEffect DEF Expire
<1>3. QED
  BY <1>1, <1>2, StatementKeeps DEF TypeOK

-----------------------------------------------------------------------------
(* The histories.                                                          *)

\* A session keeps its kind, a local one its owner, while it is there; a new
\* one has a token that was never given out; given out tokens stay so.
LEMMA SessionStable ==
    ASSUME TypeOK, ControlInv, RowsOwned, SessionsIssued, Next, NEW s \in Session
    PROVE  /\ used \subseteq used'
           /\ sessions[s] = Nil /\ sessions'[s] # Nil => s \notin used /\ s \in used'
           /\ sessions[s] # Nil /\ sessions'[s] # Nil =>
                /\ sessions'[s].kind = sessions[s].kind
                /\ sessions[s].kind = "local_user" =>
                     sessions'[s].owner = sessions[s].owner
<1> USE DEF TypeOK, StoreTypeOK
<1>1. CASE UNCHANGED tables
  BY <1>1 DEF tables
<1>2. CASE Statement
  <2>1. CASE \/ \E u \in User, row \in UserRow : WriteUser(u, row)
             \/ \E p \in Pool, row \in PoolRow : WritePool(p, row)
             \/ \E t \in State \ used, p \in Pool : AddLoginState(t, p)
             \/ \E t \in State : RemoveLoginState(t)
    BY <2>1 DEF WriteUser, WritePool, AddLoginState, RemoveLoginState
  <2>2. CASE \E u \in User : RemoveUser(u)
    BY <2>2 DEF RemoveUser
  <2>3. ASSUME NEW t \in Session \ used, NEW x \in User \cup Pool, NEW kind,
               AddSession(t, kind, x)
        PROVE  /\ used \subseteq used'
               /\ sessions[s] = Nil /\ sessions'[s] # Nil => s \notin used /\ s \in used'
               /\ sessions[s] # Nil /\ sessions'[s] # Nil /\ s # t =>
                    sessions'[s] = sessions[s]
               /\ s = t => s \notin used
    BY <2>3 DEF AddSession
  <2>4. CASE \E t \in Session : RemoveSession(t)
    BY <2>4 DEF RemoveSession
  <2>5. ASSUME NEW p \in Pool, RemovePool(p)
        PROVE  /\ used' = used
               /\ sessions[s] = Nil => sessions'[s] = Nil
               /\ sessions[s] # Nil =>
                    /\ sessions'[s].kind = sessions[s].kind
                    /\ sessions[s].kind = "local_user" =>
                         sessions'[s].owner = sessions[s].owner
    <3>1. /\ used' = used
          /\ sessions'[s] = IF sessions[s] # Nil /\ sessions[s].owner = p
                            THEN [sessions[s] EXCEPT !.owner = Nil] ELSE sessions[s]
      BY <2>5 DEF RemovePool
    <3>2. sessions[s] # Nil => sessions[s] \in SessionRow
      OBVIOUS
    <3>3. sessions[s] # Nil /\ sessions[s].kind = "local_user" => sessions[s].owner # p
      BY IdAssumption DEF RowsOwned, LiveUsers
    <3>4. QED
      BY <3>1, <3>2, <3>3 DEF SessionRow
  <2>6. ASSUME NEW t \in Session \ used
        PROVE  sessions[t] = Nil
    BY DEF SessionsIssued
  <2>7. QED
    BY <1>2, <2>1, <2>2, <2>3, <2>4, <2>5, <2>6 DEF Statement
<1>3. QED
  BY <1>1, <1>2, SystemSteps, TableEffect DEF Expire

\* SessionsIssued is kept, and a token that was given out keeps its user.
LEMMA IssuedStep ==
    ASSUME TypeOK, ControlInv, RowsOwned, SessionsIssued, Next
    PROVE  /\ SessionsIssued'
           /\ \A s \in Session \cap used : issuedTo'[s] = issuedTo[s] /\ s \in used'
<1>1. \A s \in Session :
        issuedTo'[s] = IF sessions[s] = Nil /\ sessions'[s] # Nil
                       THEN sessions'[s].owner ELSE issuedTo[s]
  BY SystemSteps DEF Observe
<1>2. SessionsIssued'
  BY <1>1, SessionStable DEF SessionsIssued
<1>3. QED
  BY <1>1, <1>2, SessionStable

\* What a request has seen it has seen, and it sees what holds.
LEMMA SeenStep ==
    ASSUME TypeOK, Next, NEW r \in Req
    PROVE  /\ SeenAt(r)'
           /\ pc[r] # "idle" /\ pc'[r] # "idle" => seen[r] \subseteq seen'[r]
BY SystemSteps DEF Observe, SeenAt

-----------------------------------------------------------------------------
(* Which step leads where.                                                 *)

LEMMA UserLabels ==
    ASSUME TypeOK, ControlInv, NEW r \in Req, UserStep(r)
    PROVE  pc'[r] \notin AuthPC
<1>1. \/ \E status \in Status : Answer(r, status)
      \/ \E status \in Status : Refuse(r, status)
      \/ \E l \in UserPC \cup {"sessionInsert"} : Goto(r, l) \/ \E x : Proceed(r, l, x)
  <2> USE DEF Status, UserPC
  <2>1. CASE CheckUsername(r)
    <3>1. Refuse(r, 400) \/ Refuse(r, 409) \/ Proceed(r, "userInsert", loc[r])
      BY <2>1 DEF CheckUsername
    <3>2. QED
      BY <3>1
  <2>2. CASE CheckRename(r)
    BY <2>2 DEF CheckRename
  <2>3. CASE ReadForPassword(r)
    BY <2>3 DEF ReadForPassword
  <2>4. CASE InsertUser(r)
    BY <2>4 DEF InsertUser
  <2>5. CASE ReadUser(r)
    <3> DEFINE new == MergeUser(users[arg[r].id], arg[r])
               demotes == IsEnabledAdmin(users[arg[r].id]) /\ ~IsEnabledAdmin(new)
               next == IF new.name # users[arg[r].id].name THEN "userRename"
                       ELSE IF demotes THEN "adminCount" ELSE "userWrite"
               y == [loc[r] EXCEPT !.owner = arg[r].id, !.row = new, !.flag = demotes]
    <3>1. Refuse(r, 400) \/ Refuse(r, 404) \/ Proceed(r, next, y)
      BY <2>5 DEF ReadUser
    <3>2. next \in {"userRename", "adminCount", "userWrite"}
      OBVIOUS
    <3> HIDE DEF next, y
    <3>3. QED
      BY <3>1, <3>2
  <2>6. CASE ReadForDelete(r) \/ EnsureNotLastAdmin(r)
    BY <2>6 DEF ReadForDelete, EnsureNotLastAdmin
  <2>7. CASE UpdateUserRow(r) \/ DeleteUserRow(r)
    BY <2>7 DEF UpdateUserRow, DeleteUserRow
  <2>8. QED
    BY <2>1, <2>2, <2>3, <2>4, <2>5, <2>6, <2>7 DEF UserStep
<1>2. QED
  BY <1>1 DEF Refuse, Answer, Proceed, Goto, TypeOK, ApiTypeOK, AuthPC, UserPC

LEMMA PoolLabels ==
    ASSUME TypeOK, ControlInv, NEW r \in Req, PoolStep(r)
    PROVE  pc'[r] \in {"idle"} \cup PoolPC
<1>1. CASE PreparePool(r)
  <2> DEFINE creates == arg[r].op = "CreatePool"
             new == IF creates THEN NewPool(arg[r])
                    ELSE MergePool(pools[arg[r].id], arg[r])
             y == [loc[r] EXCEPT !.owner = IF creates THEN Nil ELSE arg[r].id, !.row = new]
  <2>1. Refuse(r, 400) \/ Refuse(r, 404) \/ Proceed(r, "poolSlug", y)
    BY <1>1 DEF PreparePool
  <2> HIDE DEF y
  <2>2. QED
    BY <2>1 DEF PoolPC, Refuse, Answer, Proceed, Goto, TypeOK, ApiTypeOK
<1> USE DEF Refuse, Answer, Proceed, Goto, TypeOK, ApiTypeOK
<1>2. CASE EnsureSlugUnique(r) \/ EnsureIssuerUnique(r) \/ EnsureNameUnique(r)
  BY <1>2 DEF EnsureSlugUnique, EnsureIssuerUnique, EnsureNameUnique, EnsureUnique, PoolPC
<1>3. CASE WritePoolRow(r) \/ DeletePool(r)
  <2>1. \E status \in Status : Answer(r, status)
    BY <1>3 DEF WritePoolRow, DeletePool, Status
  <2>2. QED
    BY <2>1
<1>4. QED
  BY <1>1, <1>2, <1>3 DEF PoolStep

LEMMA OidcLabels ==
    ASSUME TypeOK, ControlInv, NEW r \in Req, OidcStep(r)
    PROVE  pc'[r] \in {"idle", "sessionInsert"} \cup OidcPC
<1> USE DEF Refuse, Answer, Proceed, Goto, TypeOK, ApiTypeOK, OidcPC
<1>1. CASE FindPool(r)
  BY <1>1 DEF FindPool
<1>2. CASE Discover(r)
  BY <1>2 DEF Discover
<1>3. CASE InsertLoginState(r) \/ SelectLoginState(r)
  BY <1>3 DEF InsertLoginState, SelectLoginState
<1>4. CASE TakeLoginState(r)
  BY <1>4 DEF TakeLoginState
<1>5. CASE CheckPool(r) \/ Exchange(r)
  BY <1>5 DEF CheckPool, Exchange
<1>6. QED
  BY <1>1, <1>2, <1>3, <1>4, <1>5 DEF OidcStep

\* Before the principal is known.
LEMMA EarlyLabels ==
    ASSUME TypeOK, ControlInv, NEW r \in Req,
           \/ CountForBootstrap(r) \/ CheckPassword(r) \/ InsertSession(r) \/ Logout(r)
           \/ CountUsers(r) \/ CountPools(r) \/ DropExpired(r)
           \/ AuthenticateOIDCBearer(r)
    PROVE  \/ pc'[r] \in {"idle", "poolCount", "session", "bearer"}
           \/ pc'[r] \in {"userName", "sessionInsert"} /\ pc[r] \notin AuthPC
<1>1. CASE CountForBootstrap(r) \/ CheckPassword(r) \/ InsertSession(r) \/ Logout(r)
  BY <1>1 DEF CountForBootstrap, CheckPassword, InsertSession, Logout, Refuse, Answer,
     Proceed, Goto, TypeOK, ApiTypeOK, AuthPC
<1>2. CASE CountUsers(r) \/ CountPools(r) \/ DropExpired(r)
  <2>1. CASE CountUsers(r) \/ Refuse(r, 403)
    BY <2>1 DEF CountUsers, Refuse, Answer, Proceed, Goto, TypeOK, ApiTypeOK
  <2>2. DropExpired(r) => loc[r].session \in Session
    BY AtRequest DEF DropExpired, ControlAt, Carried
  <2>3. CASE CountPools(r) /\ TryAfter(r, Nil)
    <3>1. pc[r] \in AuthPC
      BY <2>3 DEF CountPools, AuthPC
    <3>2. QED
      BY <2>3, <3>1, TryMoves
  <2>4. CASE DropExpired(r)
    <3>1. pc[r] \in AuthPC /\ TryAfter(r, loc[r].session)
      BY <2>4 DEF DropExpired, AuthPC
    <3>2. QED
      BY <2>2, <2>4, <3>1, TryMoves
  <2>5. QED
    BY <1>2, <2>1, <2>3, <2>4 DEF CountPools
<1>3. CASE AuthenticateOIDCBearer(r)
  <2>1. pc[r] \in AuthPC
    BY <1>3 DEF AuthenticateOIDCBearer, AuthPC
  <2>2. Answered(r)
    BY <1>3, <2>1, EnterMoves, RefuseAnswers DEF AuthenticateOIDCBearer, Status, AuthPC
  <2>3. QED
    BY <2>2 DEF Answered, Answer, TypeOK, ApiTypeOK
<1>4. QED
  BY <1>1, <1>2, <1>3

\* A live session leads to its user, who is read next.
LEMMA LookupLabels ==
    ASSUME TypeOK, ControlInv, NEW r \in Req, LookupSession(r)
    PROVE  LET s == loc[r].session
           IN  /\ pc[r] = "session" /\ s \in Session /\ s \in Carried(arg[r])
               /\ \/ pc'[r] \in {"idle", "dropSession", "session", "bearer"}
                  \/ /\ pc'[r] = "principal" /\ arg'[r] = arg[r]
                     /\ loc'[r].session = s /\ loc'[r].principal = sessions[s].owner
                     /\ sessions[s] # Nil /\ s \notin expired
                     /\ sessions[s].kind = "local_user"
<1> DEFINE s == loc[r].session
<1>1. pc[r] = "session" /\ s \in Session /\ s \in Carried(arg[r])
  BY AtRequest DEF LookupSession, ControlAt, Carried
<1>2. CASE TryAfter(r, s) \/ Proceed(r, "dropSession", loc[r])
  <2>1. CASE TryAfter(r, s)
    BY <1>1, <2>1, TryMoves DEF AuthPC
  <2>2. CASE Proceed(r, "dropSession", loc[r])
    BY <1>1, <2>2 DEF Proceed, Goto, TypeOK, ApiTypeOK
  <2>3. QED
    BY <1>2, <2>1, <2>2
<1>3. CASE Enter(r, Nil)
  <2>1. Answered(r)
    BY <1>1, <1>3, EnterMoves DEF AuthPC
  <2>2. QED
    BY <1>1, <2>1 DEF Answered, Answer, TypeOK, ApiTypeOK
<1>4. CASE /\ sessions[s] # Nil /\ s \notin expired /\ sessions[s].kind # "oidc"
           /\ Proceed(r, "principal", [loc[r] EXCEPT !.principal = sessions[s].owner])
  <2>1. sessions[s].kind = "local_user"
    BY <1>1, <1>4 DEF TypeOK, StoreTypeOK, SessionRow
  <2>2. pc'[r] = "principal" /\ arg'[r] = arg[r]
    BY <1>4 DEF Proceed, Goto, TypeOK, ApiTypeOK
  <2>3. loc'[r] = [loc[r] EXCEPT !.principal = sessions[s].owner] /\ loc[r] \in Locals
    BY <1>4 DEF Proceed, TypeOK, ApiTypeOK
  <2>4. loc'[r].principal = sessions[s].owner /\ loc'[r].session = s
    BY <2>3 DEF Locals
  <2>5. QED
    BY <1>1, <1>4, <2>1, <2>2, <2>4
<1>5. QED
  BY <1>1, <1>2, <1>3, <1>4 DEF LookupSession

\* Only an enabled user gets on, to an administrator's operation only an
\* administrator.
LEMMA PrincipalLabels ==
    ASSUME TypeOK, ControlInv, NEW r \in Req, LoadPrincipal(r)
    PROVE  LET u == loc[r].principal
           IN  /\ pc[r] = "principal" /\ u \in User
               /\ \/ pc'[r] = "idle"
                  \/ /\ pc'[r] \in EnterPC /\ arg'[r] = arg[r]
                     /\ users[u] # Nil /\ users[u].enabled
                     /\ arg[r].op \in AdminOps => IsEnabledAdmin(users[u])
<1> DEFINE u == loc[r].principal
<1>1. pc[r] = "principal" /\ u \in User
  BY AtRequest DEF LoadPrincipal, ControlAt
<1>2. CASE Refuse(r, 500) \/ Refuse(r, 401)
  BY <1>1, <1>2 DEF Refuse, Answer, TypeOK, ApiTypeOK
<1>3. CASE users[u] # Nil /\ users[u].enabled /\ Enter(r, users[u])
  <2>1. \/ Answered(r)
        \/ /\ Moved(r) /\ pc'[r] \in EnterPC
           /\ arg[r].op \in AdminOps => IsEnabledAdmin(users[u])
    BY <1>1, <1>3, EnterMoves DEF AuthPC
  <2>2. Answered(r) => pc'[r] = "idle"
    BY DEF Answered, Answer, TypeOK, ApiTypeOK
  <2>3. Moved(r) => arg'[r] = arg[r]
    BY DEF Moved, Goto
  <2>4. QED
    BY <1>1, <1>3, <2>1, <2>2, <2>3
<1>4. QED
  BY <1>1, <1>2, <1>3 DEF LoadPrincipal

LEMMA ReceiveLabels ==
    ASSUME TypeOK, NEW r \in Req, Receive(r)
    PROVE  /\ pc[r] = "idle"
           /\ pc'[r] \in {"bootCount", "login", "logout", "poolBySlug", "take", "status"}
           /\ pc'[r] # "status" => arg'[r].op \in AuthOps
BY DEF Receive, EntryPoint, TypeOK, ApiTypeOK, AuthOps

\* A request is where it is, unless a step of its own moves it.
LEMMA Untouched ==
    ASSUME TypeOK, ControlInv, RowsOwned, Next, NEW r \in Req
    PROVE  \/ StepOf(r)
           \/ pc'[r] = pc[r] /\ arg'[r] = arg[r] /\ loc'[r] = loc[r]
<1>1. ASSUME NEW p \in Req, p # r, StepOf(p)
      PROVE  pc'[r] = pc[r] /\ arg'[r] = arg[r] /\ loc'[r] = loc[r]
  BY <1>1, ProcessEffect, ProcessType
<1>2. QED
  BY <1>1, SystemSteps DEF Expire

\* An answered request is idle, one that moves keeps its arguments.
LEMMA OwnLabels ==
    ASSUME TypeOK, NEW r \in Req
    PROVE  /\ Answered(r) => pc'[r] = "idle"
           /\ Moved(r) => pc[r] # "idle" /\ arg'[r] = arg[r]
           /\ Fail(r) => pc'[r] = "idle"
BY DEF Answered, Moved, Fail, Refuse, Answer, Goto, TypeOK, ApiTypeOK

\* The principal is looked up by its session alone.
LEMMA ToPrincipal ==
    ASSUME TypeOK, ControlInv, NEW r \in Req, StepOf(r), pc'[r] = "principal"
    PROVE  LookupSession(r)
<1>1. ~UserStep(r)
  BY UserLabels DEF AuthPC
<1>2. ~PoolStep(r)
  BY PoolLabels DEF PoolPC
<1>3. ~OidcStep(r)
  BY OidcLabels DEF OidcPC
<1>4. ~Receive(r) /\ ~Fail(r)
  BY ReceiveLabels, OwnLabels
<1>5. ~LoadPrincipal(r)
  BY PrincipalLabels DEF EnterPC
<1>6. QED
  BY <1>1, <1>2, <1>3, <1>4, <1>5, EarlyLabels DEF StepOf, Step, SessionStep

\* The principal alone leads out of the authentication.
LEMMA FromPrincipal ==
    ASSUME TypeOK, ControlInv, NEW r \in Req, StepOf(r), pc[r] \in AuthPC,
           pc'[r] \notin AuthPC \cup {"idle"}
    PROVE  LoadPrincipal(r)
<1>1. ~UserStep(r)
  BY DEF UserStep, CheckUsername, InsertUser, ReadUser, CheckRename, UpdateUserRow,
     ReadForDelete, EnsureNotLastAdmin, DeleteUserRow, ReadForPassword, AuthPC
<1>2. ~PoolStep(r) /\ ~OidcStep(r)
  BY DEF PoolStep, PreparePool, EnsureSlugUnique, EnsureIssuerUnique, EnsureNameUnique,
     EnsureUnique, WritePoolRow, DeletePool, OidcStep, FindPool, Discover,
     InsertLoginState, SelectLoginState, TakeLoginState, CheckPool, Exchange, AuthPC
<1>3. ~Receive(r) /\ ~Fail(r)
  BY OwnLabels DEF Receive, AuthPC
<1>4. ~LookupSession(r)
  BY LookupLabels DEF AuthPC
<1>5. QED
  BY <1>1, <1>2, <1>3, <1>4, EarlyLabels DEF StepOf, Step, SessionStep, AuthPC

\* The steps that lead to a demoting write, or to the check of a new name.
LEMMA ToDemotion ==
    ASSUME TypeOK, ControlInv, NEW r \in Req, StepOf(r),
           pc'[r] \in {"userRename", "userWrite", "userDelete"}
    PROVE  \/ ReadUser(r) \/ CheckRename(r) \/ ReadForDelete(r)
           \/ EnsureNotLastAdmin(r) \/ ReadForPassword(r)
<1>1. ~SessionStep(r)
  <2>1. ~LookupSession(r) /\ ~LoadPrincipal(r)
    BY LookupLabels, PrincipalLabels DEF EnterPC
  <2>2. QED
    BY <2>1, EarlyLabels DEF SessionStep
<1>2. ~PoolStep(r) /\ ~OidcStep(r)
  BY PoolLabels, OidcLabels DEF PoolPC, OidcPC
<1>3. ~Receive(r) /\ ~Fail(r)
  BY ReceiveLabels, OwnLabels
<1>4. ~CheckUsername(r)
  <2>1. CheckUsername(r) =>
          Refuse(r, 400) \/ Refuse(r, 409) \/ Proceed(r, "userInsert", loc[r])
    BY DEF CheckUsername
  <2>2. QED
    BY <2>1 DEF Refuse, Answer, Proceed, Goto, TypeOK, ApiTypeOK
<1>5. ~InsertUser(r)
  BY DEF InsertUser, Refuse, Answer, Goto, TypeOK, ApiTypeOK
<1>6. ~UpdateUserRow(r) /\ ~DeleteUserRow(r)
  BY DEF UpdateUserRow, DeleteUserRow, Refuse, Answer, TypeOK, ApiTypeOK
<1>7. QED
  BY <1>1, <1>2, <1>3, <1>4, <1>5, <1>6 DEF StepOf, Step, UserStep

-----------------------------------------------------------------------------
(* What a request knows stays true.                                        *)

LEMMA PrincipalStep ==
    ASSUME IdentityInv, Next, NEW r \in Req
    PROVE  PrincipalAt(r)'
<1> USE DEF IdentityInv, Knows
<1> SUFFICES ASSUME pc'[r] = "principal" PROVE PrincipalAt(r)'
  BY DEF PrincipalAt
<1>1. CASE pc'[r] = pc[r] /\ arg'[r] = arg[r] /\ loc'[r] = loc[r]
  <2>1. loc[r].session \in Session /\ PrincipalAt(r) /\ pc[r] # "idle"
    BY <1>1, AtRequest DEF ControlAt, Carried
  <2>2. seen[r] \subseteq seen'[r]
    BY <1>1, <2>1, SeenStep
  <2>3. QED
    BY <1>1, <2>1, <2>2, IssuedStep DEF PrincipalAt
<1>2. CASE StepOf(r)
  <2> DEFINE s == loc[r].session
  <2>1. /\ pc[r] = "session" /\ s \in Session /\ s \in Carried(arg[r])
        /\ arg'[r] = arg[r] /\ loc'[r].session = s /\ loc'[r].principal = sessions[s].owner
        /\ sessions[s] # Nil /\ s \notin expired /\ sessions[s].kind = "local_user"
    BY <1>2, ToPrincipal, LookupLabels
  <2>2. Holds("live", s)
    BY <2>1 DEF Holds
  <2>3. <<"live", s>> \in Facts(r)
    BY <2>1, <2>2 DEF Facts
  <2>4. <<"live", s>> \in seen'[r]
    BY <2>1, <2>3, SeenStep DEF SeenAt
  <2>5. s \in used /\ issuedTo[s] = sessions[s].owner
    BY <2>1 DEF SessionsIssued
  <2>6. QED
    BY <2>1, <2>4, <2>5, IssuedStep DEF PrincipalAt
<1>3. QED
  BY <1>1, <1>2, Untouched

\* At most one account changes in a step.
LEMMA OneUser ==
    ASSUME TypeOK, ControlInv, Next
    PROVE  \E u : \A v \in User : v # u => users'[v] = users[v]
<1>1. CASE UNCHANGED tables
  BY <1>1 DEF tables
<1>2. CASE Statement
  BY <1>2 DEF Statement, WriteUser, RemoveUser, AddSession, RemoveSession, WritePool,
     RemovePool, AddLoginState, RemoveLoginState, TypeOK, StoreTypeOK
<1>3. QED
  BY <1>1, <1>2, SystemSteps, TableEffect DEF Expire

\* The only enabled administrator does not become another one in one step.
LEMMA SoleStays ==
    ASSUME TypeOK, ControlInv, Next, NEW v, NEW w, v # w, EnabledAdmins = {v}
    PROVE  EnabledAdmins' # {w}
<1> SUFFICES ASSUME EnabledAdmins' = {w} PROVE FALSE
  OBVIOUS
<1>1. v \in User /\ IsEnabledAdmin(users[v]) /\ ~IsEnabledAdmin(users'[v])
  BY DEF EnabledAdmins
<1>2. w \in User /\ IsEnabledAdmin(users'[w]) /\ ~IsEnabledAdmin(users[w])
  BY DEF EnabledAdmins
<1>3. QED
  BY <1>1, <1>2, OneUser

\* Without NotSole seen there is one enabled administrator.
LEMMA Sole ==
    ASSUME NEW r \in Req, SeenAt(r), pc[r] # "idle", NotSole \notin seen[r]
    PROVE  \E a \in User : EnabledAdmins = {a}
BY DEF SeenAt, Facts

\* A step that leads a request to a demoting write has counted more than one
\* enabled administrator, or the user it is about is none.
LEMMA DemotionStarts ==
    ASSUME IdentityInv, NEW r \in Req, StepOf(r), pc[r] # "idle", Demotes(r)',
           ~(Demotes(r) /\ loc'[r].owner = loc[r].owner)
    PROVE  users' = users /\ EnabledAdmins # {loc'[r].owner}
<1> USE DEF IdentityInv
<1> DEFINE q == arg[r]
           x == loc[r]
<1>0. /\ x \in Locals /\ q \in Args /\ q \in Requests /\ ControlAt(pc[r], q, x)
      /\ pc'[r] \in {"userRename", "userWrite", "userDelete"}
  BY AtRequest DEF Demotes
<1>1. ASSUME NEW status, Refuse(r, status) PROVE FALSE
  BY <1>0, <1>1 DEF Refuse, Answer, TypeOK, ApiTypeOK
<1>2. ASSUME NEW l, NEW y, Proceed(r, l, y)
      PROVE  pc'[r] = l /\ loc'[r] = y /\ users' = users
  BY <1>2 DEF Proceed, Goto, tables, TypeOK, ApiTypeOK
<1>3. CASE ReadUser(r)
  <2> DEFINE old == users[q.id]
             new == MergeUser(old, q)
             demotes == IsEnabledAdmin(old) /\ ~IsEnabledAdmin(new)
             next == IF new.name # old.name THEN "userRename"
                     ELSE IF demotes THEN "adminCount" ELSE "userWrite"
             y == [x EXCEPT !.owner = q.id, !.row = new, !.flag = demotes]
  <2>1. Proceed(r, next, y)
    BY <1>1, <1>3 DEF ReadUser
  <2>2. y.owner = q.id /\ y.row = new /\ y.flag = demotes
    BY <1>0 DEF Locals
  <2>3. pc'[r] = next /\ loc'[r] = y /\ users' = users
    BY <1>2, <2>1
  <2>4. ~demotes /\ ~IsEnabledAdmin(new)
    <3> HIDE DEF y, new, demotes, old
    <3>1. next # "userDelete" /\ (next = "userWrite" => ~demotes)
      OBVIOUS
    <3>2. CASE next = "userRename"
      BY <2>2, <2>3, <3>2 DEF Demotes
    <3>3. CASE next = "userWrite"
      BY <2>2, <2>3, <3>1, <3>3 DEF Demotes
    <3> HIDE DEF next
    <3>4. QED
      BY <1>0, <2>3, <3>1, <3>2, <3>3
  <2>5. ~IsEnabledAdmin(users[q.id])
    BY <2>4
  <2>6. q.id \notin EnabledAdmins
    BY <2>5 DEF EnabledAdmins
  <2> HIDE DEF y
  <2>7. QED
    BY <2>2, <2>3, <2>6
<1>4. CASE CheckRename(r)
  <2> DEFINE next == IF x.flag THEN "adminCount" ELSE "userWrite"
  <2>1. pc[r] = "userRename" /\ Proceed(r, next, x)
    BY <1>1, <1>4 DEF CheckRename
  <2>2. pc'[r] = next /\ loc'[r] = x
    BY <1>2, <2>1
  <2>3. ~x.flag /\ pc'[r] = "userWrite"
    BY <1>0, <2>2
  <2>4. ~IsEnabledAdmin(x.row)
    BY <2>2, <2>3 DEF Demotes
  <2>5. QED
    BY <2>1, <2>2, <2>3, <2>4 DEF Demotes
<1>5. CASE ReadForDelete(r)
  <2> DEFINE next == IF IsEnabledAdmin(users[q.id]) THEN "adminCount" ELSE "userDelete"
             y == [x EXCEPT !.owner = q.id]
  <2>1. Proceed(r, next, y)
    BY <1>1, <1>5 DEF ReadForDelete
  <2>2. y.owner = q.id
    BY <1>0 DEF Locals
  <2>3. pc'[r] = next /\ loc'[r] = y /\ users' = users
    BY <1>2, <2>1
  <2>4. q.id \notin EnabledAdmins
    BY <1>0, <2>3 DEF EnabledAdmins
  <2> HIDE DEF y
  <2>5. QED
    BY <2>2, <2>3, <2>4
<1>6. CASE EnsureNotLastAdmin(r)
  <2> DEFINE next == IF q.op = "DeleteUser" THEN "userDelete" ELSE "userWrite"
  <2>1. ~(Cardinality(EnabledAdmins) <= 1) /\ Proceed(r, next, x)
    BY <1>1, <1>6 DEF EnsureNotLastAdmin
  <2>2. \A a : Cardinality({a}) = 1
    BY FS_Singleton
  <2>3. ASSUME NEW a, EnabledAdmins = {a} PROVE FALSE
    <3>1. Cardinality(EnabledAdmins) = 1
      BY <2>2, <2>3
    <3>2. ~(1 <= 1)
      BY <2>1, <3>1
    <3>3. QED
      BY <3>2
  <2>4. QED
    BY <1>2, <2>1, <2>3
<1>7. CASE ReadForPassword(r)
  <2> DEFINE u == x.principal
             y == [x EXCEPT !.owner = u, !.row = [users[u] EXCEPT !.pw = q.pw]]
  <2>1. users[u] # Nil /\ Proceed(r, "userWrite", y)
    BY <1>1, <1>7 DEF ReadForPassword
  <2>2. u \in User /\ users[u] \in UserRow
    BY <1>0, <1>7, <2>1 DEF ReadForPassword, ControlAt, TypeOK, StoreTypeOK
  <2>3. y.owner = u /\ y.row = [users[u] EXCEPT !.pw = q.pw]
    BY <1>0 DEF Locals
  <2>4. pc'[r] = "userWrite" /\ loc'[r] = y /\ users' = users
    BY <1>2, <2>1
  <2>5. y.row # Nil /\ y.row.role = users[u].role /\ y.row.enabled = users[u].enabled
    <3>1. q.pw \in Password
      BY <1>0, <1>7, RequestsAssumption DEF ReadForPassword, ControlAt
    <3>2. y.row \in UserRow
      BY <2>2, <2>3, <3>1 DEF UserRow
    <3>3. QED
      BY <2>2, <2>3, <3>2, NilAssumption DEF UserRow
  <2> HIDE DEF y
  <2>6. ~IsEnabledAdmin(y.row)
    BY <2>4 DEF Demotes
  <2>7. u \notin EnabledAdmins
    BY <2>5, <2>6 DEF EnabledAdmins, IsEnabledAdmin
  <2>8. QED
    BY <2>3, <2>4, <2>7
<1>8. QED
  BY <1>0, <1>3, <1>4, <1>5, <1>6, <1>7, ToDemotion

LEMMA DemotionStep ==
    ASSUME IdentityInv, Next, TypeOK', NEW r \in Req
    PROVE  DemotionAt(r)'
<1> USE DEF IdentityInv, Knows
<1> SUFFICES ASSUME Demotes(r)', NotSole \notin seen'[r], EnabledAdmins' = {loc'[r].owner}
             PROVE  FALSE
  BY DEF DemotionAt
<1> DEFINE w == loc'[r].owner
<1>1. pc'[r] # "idle"
  BY DEF Demotes
<1>2. pc[r] # "idle"
  <2>1. CASE StepOf(r)
    <3>1. ~Receive(r)
      BY ReceiveLabels DEF Demotes
    <3>2. QED
      BY <1>1, <2>1, <3>1, ProcessEffect, OwnLabels
  <2>2. QED
    BY <1>1, <2>1, Untouched
<1>3. NotSole \notin seen[r]
  BY <1>1, <1>2, SeenStep
<1>4. PICK v \in User : EnabledAdmins = {v}
  BY <1>2, <1>3, Sole
<1>5. CASE Demotes(r) /\ w = loc[r].owner
  <2>1. v # w
    BY <1>3, <1>4, <1>5 DEF DemotionAt
  <2>2. QED
    BY <1>4, <2>1, SoleStays
<1>6. CASE ~(Demotes(r) /\ w = loc[r].owner)
  <2>1. StepOf(r)
    <3>1. pc'[r] = pc[r] /\ loc'[r] = loc[r] => Demotes(r)
      BY DEF Demotes
    <3>2. QED
      BY <1>6, <3>1, Untouched
  <2>2. users' = users /\ EnabledAdmins # {w}
    BY <1>2, <1>6, <2>1, DemotionStarts
  <2>3. QED
    BY <2>2 DEF EnabledAdmins
<1>7. QED
  BY <1>5, <1>6

\* Rights are proved when the request leaves the authentication, and then seen.
LEMMA RightsStep ==
    ASSUME IdentityInv, Next, TypeOK'
    PROVE  RightsWereHeld'
<1> USE DEF IdentityInv, Knows
<1> SUFFICES ASSUME NEW r \in Req
             PROVE  /\ ActsAsAdmin(r)' => \E s \in Carried(arg'[r]) :
                         {<<"live", s>>, <<"admin", s>>} \subseteq seen'[r]
                    /\ ActsAsLocalUser(r)' => \E s \in Carried(arg'[r]) :
                         {<<"live", s>>, <<"enabled", s>>} \subseteq seen'[r]
  BY DEF RightsWereHeld, Carried
<1> SUFFICES ASSUME arg'[r] # Nil, pc'[r] \notin AuthPC,
                    arg'[r].op \in AdminOps \cup {"ChangePassword"}
             PROVE  /\ arg'[r].op \in AdminOps => \E s \in Carried(arg'[r]) :
                         {<<"live", s>>, <<"admin", s>>} \subseteq seen'[r]
                    /\ arg'[r].op = "ChangePassword" => \E s \in Carried(arg'[r]) :
                         {<<"live", s>>, <<"enabled", s>>} \subseteq seen'[r]
  BY DEF ActsAsAdmin, ActsAsLocalUser
<1>1. pc'[r] # "idle"
  BY DEF TypeOK, ApiTypeOK
<1>2. pc[r] # "idle" /\ arg'[r] = arg[r] /\ (pc'[r] = pc[r] \/ StepOf(r))
  <2>1. CASE StepOf(r)
    <3>1. ~Receive(r)
      BY ReceiveLabels DEF AdminOps, UserOps, PoolOps, AuthOps, AuthPC
    <3>2. QED
      BY <1>1, <2>1, <3>1, ProcessEffect, OwnLabels
  <2>2. CASE pc'[r] = pc[r] /\ arg'[r] = arg[r]
    BY <1>1, <2>2
  <2>3. QED
    BY <2>1, <2>2, Untouched
<1>3. seen[r] \subseteq seen'[r] /\ Facts(r) \subseteq seen[r]
  BY <1>1, <1>2, SeenStep DEF SeenAt
<1>4. CASE pc[r] \notin AuthPC
  BY <1>2, <1>3, <1>4 DEF RightsWereHeld, ActsAsAdmin, ActsAsLocalUser
<1>5. CASE pc[r] \in AuthPC
  <2> DEFINE u == loc[r].principal
             s == loc[r].session
  <2>1. LoadPrincipal(r)
    BY <1>1, <1>2, <1>5, FromPrincipal
  <2>2. /\ pc[r] = "principal" /\ u \in User
        /\ users[u] # Nil /\ users[u].enabled
        /\ arg[r].op \in AdminOps => IsEnabledAdmin(users[u])
    BY <1>1, <2>1, PrincipalLabels
  <2>3. <<"live", s>> \in seen[r] /\ issuedTo[s] = u
    BY <2>2 DEF PrincipalAt
  <2>4. s \in Session /\ s \in Carried(arg[r])
    BY <2>2, AtRequest DEF ControlAt, Carried
  <2>5. Holds("enabled", s) /\ (IsEnabledAdmin(users[u]) => Holds("admin", s))
    BY <2>2, <2>3 DEF Holds, LiveUsers
  <2>6. /\ <<"enabled", s>> \in Facts(r)
        /\ IsEnabledAdmin(users[u]) => <<"admin", s>> \in Facts(r)
    BY <2>4, <2>5 DEF Facts
  <2>7. QED
    BY <1>2, <1>3, <2>2, <2>3, <2>4, <2>6
<1>6. QED
  BY <1>4, <1>5

-----------------------------------------------------------------------------
(* The invariant and the theorems.                                         *)

\* Any seed is in order: no request is in flight, its sessions are known.
LEMMA Initially == Init => IdentityInv
<1> SUFFICES ASSUME NEW d \in Seeds, InitFrom(d) PROVE IdentityInv
  BY DEF Init
<1> USE DEF InitFrom
<1>0. /\ d \in SeedRow
      /\ \A u, v \in User : u # v /\ d.users[u] # Nil /\ d.users[v] # Nil =>
            d.users[u].name # d.users[v].name
      /\ \A p, o \in Pool : p # o /\ d.pools[p] # Nil /\ d.pools[o] # Nil =>
            \A f \in {"name", "slug", "issuer"} : d.pools[p][f] # d.pools[o][f]
      /\ \A s \in Session : d.sessions[s] # Nil =>
            /\ d.sessions[s].kind = "local_user"
            /\ d.sessions[s].owner \in User /\ d.users[d.sessions[s].owner] # Nil
  BY SeedAssumption
<1>1. /\ users \in [User -> UserRow \cup {Nil}]
      /\ sessions \in [Session -> SessionRow \cup {Nil}]
      /\ pools \in [Pool -> PoolRow \cup {Nil}]
      /\ d.gone \in SUBSET Id
  BY <1>0 DEF SeedRow
<1>2. StoreTypeOK
  <2>1. used \in SUBSET Id
    BY <1>1 DEF Id, LiveUsers, LivePools
  <2>2. QED
    BY <1>1, <2>1 DEF StoreTypeOK
<1>3. NoLocals \in Locals
  BY DEF NoLocals, Locals
<1>4. ApiTypeOK
  BY <1>3 DEF ApiTypeOK, NoReply
<1>5. issuedTo \in [Session -> User \cup Pool \cup {Nil}]
  BY <1>1 DEF SessionRow
<1>6. TypeOK
  BY <1>2, <1>4, <1>5 DEF TypeOK
<1>7. ControlInv
  <2>1. ControlAt("idle", Nil, NoLocals)
    BY DEF ControlAt, AuthPC
  <2>2. QED
    BY <2>1 DEF ControlInv
<1>8. RowsOwned /\ UsernamesUnique /\ PoolKeysUnique
  BY <1>0 DEF RowsOwned, UsernamesUnique, PoolKeysUnique, LiveUsers, LivePools
<1>9. SessionsIssued
  BY DEF SessionsIssued
<1>10. \A r \in Req : Knows(r)
  BY DEF Knows, SeenAt, PrincipalAt, DemotionAt, Demotes
<1>11. RightsWereHeld
  BY DEF RightsWereHeld, ActsAsAdmin, ActsAsLocalUser
<1>12. QED
  BY <1>6, <1>7, <1>8, <1>9, <1>10, <1>11 DEF IdentityInv

LEMMA InvariantStep == IdentityInv /\ [Next]_vars => IdentityInv'
<1>1. ASSUME IdentityInv, Next PROVE IdentityInv'
  <2>1. TypeOK' /\ ControlInv'
    BY <1>1, TypeStep DEF IdentityInv
  <2>2. RowsOwned' /\ UsernamesUnique' /\ PoolKeysUnique'
    BY <1>1, TablesStep DEF IdentityInv
  <2>3. SessionsIssued'
    BY <1>1, IssuedStep DEF IdentityInv
  <2>4. \A r \in Req : SeenAt(r)' /\ PrincipalAt(r)' /\ DemotionAt(r)'
    BY <1>1, <2>1, SeenStep, PrincipalStep, DemotionStep DEF IdentityInv
  <2>5. RightsWereHeld'
    BY <1>1, <2>1, RightsStep
  <2>6. QED
    BY <2>1, <2>2, <2>3, <2>4, <2>5 DEF IdentityInv, Knows
<1>2. ASSUME IdentityInv, UNCHANGED vars PROVE IdentityInv'
  <2>1. TypeOK' /\ ControlInv'
    BY <1>2 DEF IdentityInv, vars, tables, process, TypeOK, StoreTypeOK, ApiTypeOK,
       ControlInv
  <2>2. RowsOwned' /\ UsernamesUnique' /\ PoolKeysUnique' /\ SessionsIssued'
    BY <1>2 DEF IdentityInv, vars, tables, RowsOwned, UsernamesUnique, PoolKeysUnique,
       SessionsIssued, LiveUsers, LivePools
  <2>3. \A r \in Req : Facts(r)' = Facts(r)
    BY <1>2 DEF vars, tables, process, Facts, Carried, Holds, LiveUsers, EnabledAdmins
  <2>4. EnabledAdmins' = EnabledAdmins
    BY <1>2 DEF vars, tables, EnabledAdmins
  <2>5. \A r \in Req : SeenAt(r)' /\ PrincipalAt(r)' /\ DemotionAt(r)'
    BY <1>2, <2>3, <2>4 DEF IdentityInv, Knows, vars, tables, process, SeenAt, PrincipalAt,
       DemotionAt, Demotes
  <2>6. RightsWereHeld'
    BY <1>2 DEF IdentityInv, vars, process, RightsWereHeld, ActsAsAdmin, ActsAsLocalUser
  <2>7. QED
    BY <2>1, <2>2, <2>5, <2>6 DEF IdentityInv, Knows
<1>3. QED
  BY <1>1, <1>2

\* Whatever the requests interleave, the tables, the labels and what requests
\* know of the tables agree.
THEOREM IdentityInductive == Spec => []IdentityInv
BY Initially, InvariantStep, PTL DEF Spec

\* No session without its user, no OIDC login without its pool.
THEOREM RowsAlwaysOwned == Spec => []RowsOwned
<1>1. IdentityInv => RowsOwned
  BY DEF IdentityInv
<1>2. QED
  BY <1>1, IdentityInductive, PTL

\* Usernames are unique, and name, slug and issuer of the identity pools,
\* whatever creates and renames run between the check and the write.
THEOREM KeysAlwaysUnique == Spec => []KeysUnique
<1>1. IdentityInv => KeysUnique
  BY DEF IdentityInv, KeysUnique
<1>2. QED
  BY <1>1, IdentityInductive, PTL

\* Nobody acts with rights that were gone before the request arrived.
THEOREM RightsAlwaysHeld == Spec => []RightsWereHeld
<1>1. IdentityInv => RightsWereHeld
  BY DEF IdentityInv
<1>2. QED
  BY <1>1, IdentityInductive, PTL

\* Only overlapping requests take the last enabled administrator away.
THEOREM LastAdminGoesByRace == Spec => LastAdminOnlyByRace
<1> DEFINE Takes(r) ==
      /\ pc[r] \in {"userWrite", "userDelete"} /\ pc'[r] # pc[r]
      /\ EnabledAdmins # {} /\ EnabledAdmins' = {}
<1>1. ASSUME IdentityInv, Next, NEW r \in Req, Takes(r)
      PROVE  NotSole \in seen[r]
  <2> USE DEF IdentityInv, Knows
  <2> SUFFICES ASSUME NotSole \notin seen[r] PROVE FALSE
    OBVIOUS
  <2>1. PICK a \in User : EnabledAdmins = {a}
    BY <1>1, Sole
  <2>2. StepOf(r)
    BY <1>1, Untouched
  <2>3. UpdateUserRow(r) \/ DeleteUserRow(r) \/ Fail(r)
    <3>1. ~SessionStep(r)
      BY <1>1 DEF SessionStep, CountForBootstrap, CheckPassword, InsertSession, Logout,
         CountUsers, CountPools, LookupSession, DropExpired, LoadPrincipal,
         AuthenticateOIDCBearer
    <3>2. ~PoolStep(r) /\ ~OidcStep(r)
      BY <1>1 DEF PoolStep, PreparePool, EnsureSlugUnique, EnsureIssuerUnique,
         EnsureNameUnique, EnsureUnique, WritePoolRow, DeletePool, OidcStep, FindPool,
         Discover, InsertLoginState, SelectLoginState, TakeLoginState, CheckPool, Exchange
    <3>3. UserStep(r) => UpdateUserRow(r) \/ DeleteUserRow(r)
      BY <1>1 DEF UserStep, CheckUsername, InsertUser, ReadUser, CheckRename,
         ReadForDelete, EnsureNotLastAdmin, ReadForPassword
    <3>4. ~Receive(r)
      BY <1>1 DEF Receive
    <3>5. QED
      BY <2>2, <3>1, <3>2, <3>3, <3>4 DEF StepOf, Step
  <2>4. ~UNCHANGED tables
    BY <1>1 DEF tables, EnabledAdmins
  <2>5. \/ WriteUser(loc[r].owner, loc[r].row) /\ pc[r] = "userWrite"
        \/ RemoveUser(loc[r].owner) /\ pc[r] = "userDelete"
    BY <2>3, <2>4 DEF UpdateUserRow, DeleteUserRow, Fail, Refuse
  <2>6. loc[r].owner \in User
    BY <1>1, AtRequest DEF ControlAt
  <2>7. loc[r].owner = a
    BY <1>1, <2>1, <2>5, <2>6 DEF WriteUser, RemoveUser, EnabledAdmins, TypeOK, StoreTypeOK
  <2>8. Demotes(r)
    <3>1. CASE WriteUser(loc[r].owner, loc[r].row) /\ pc[r] = "userWrite"
      <4>1. users'[a] = loc[r].row
        BY <1>1, <2>6, <2>7, <3>1 DEF WriteUser, TypeOK, StoreTypeOK
      <4>2. ~IsEnabledAdmin(users'[a])
        BY <1>1 DEF EnabledAdmins
      <4>3. QED
        BY <3>1, <4>1, <4>2 DEF Demotes
    <3>2. QED
      BY <2>5, <3>1 DEF Demotes
  <2>9. QED
    BY <1>1, <2>1, <2>7, <2>8 DEF DemotionAt
<1>2. IdentityInv /\ [Next]_vars => [\A r \in Req : Takes(r) => NotSole \in seen[r]]_vars
  BY <1>1
<1>3. QED
  BY <1>2, IdentityInductive, PTL DEF Spec, LastAdminOnlyByRace

-----------------------------------------------------------------------------
(* The login states as tickets, where one transaction holds the write lock  *)
(* of the whole database.                                                  *)

OpenStates == {t \in State : loginStates[t] # Nil}

\* A statement issues a ticket, withdraws some, or is about something else.
LEMMA StatementTickets ==
    ASSUME StoreTypeOK, Statement, claims' = claims
    PROVE  \/ \E t \in State : Tickets!Issue(t)
           \/ \E S \in SUBSET OpenStates : Tickets!Withdraw(S)
<1> USE DEF StoreTypeOK
<1>0. ASSUME loginStates' = loginStates, (used \cap State)' = used \cap State
      PROVE  Tickets!Withdraw({})
  BY <1>0 DEF Tickets!Withdraw
<1>1. ASSUME NEW x \in User \cup Session \cup Pool, used' = used \cup {x}
      PROVE  (used \cap State)' = used \cap State
  BY <1>1, IdAssumption
<1>2. CASE \/ \E u \in User, row \in UserRow : WriteUser(u, row)
           \/ \E p \in Pool, row \in PoolRow : WritePool(p, row)
           \/ \E s \in Session \ used, x \in User \cup Pool :
                AddSession(s, IF x \in User THEN "local_user" ELSE "oidc", x)
  <2>1. /\ loginStates' = loginStates
        /\ \E x \in User \cup Session \cup Pool : used' = used \cup {x}
    BY <1>2 DEF WriteUser, WritePool, AddSession
  <2>2. QED
    BY <1>0, <1>1, <2>1
<1>3. CASE (\E u \in User : RemoveUser(u)) \/ (\E s \in Session : RemoveSession(s))
  BY <1>0, <1>3 DEF RemoveUser, RemoveSession
<1>4. ASSUME NEW p \in Pool, RemovePool(p)
      PROVE  \E S \in SUBSET OpenStates : Tickets!Withdraw(S)
  <2> DEFINE S == {t \in OpenStates : loginStates[t].pool = p}
  <2>1. OpenStates' = OpenStates \ S /\ used' = used
    BY <1>4 DEF RemovePool, OpenStates
  <2>2. Tickets!Withdraw(S) /\ S \in SUBSET OpenStates
    BY <2>1 DEF Tickets!Withdraw, OpenStates
  <2> HIDE DEF S
  <2>3. QED
    BY <2>2 DEF Tickets!Withdraw
<1>5. ASSUME NEW t \in State \ used, NEW p \in Pool, AddLoginState(t, p)
      PROVE  Tickets!Issue(t)
  <2>1. [pool |-> p] # Nil
    BY NilAssumption DEF LoginStateRow
  <2>2. OpenStates' = OpenStates \cup {t}
    BY <1>5, <2>1 DEF AddLoginState, OpenStates
  <2>3. QED
    BY <1>5, <2>2 DEF AddLoginState, Tickets!Issue, OpenStates
<1>6. ASSUME NEW t \in State, RemoveLoginState(t)
      PROVE  \E S \in SUBSET OpenStates : Tickets!Withdraw(S)
  <2> DEFINE S == {t} \cap OpenStates
  <2>1. OpenStates' = OpenStates \ S /\ used' = used
    BY <1>6 DEF RemoveLoginState, OpenStates
  <2>2. Tickets!Withdraw(S) /\ S \in SUBSET OpenStates
    BY <2>1 DEF Tickets!Withdraw, OpenStates
  <2> HIDE DEF S
  <2>3. QED
    BY <2>2 DEF Tickets!Withdraw
<1>7. QED
  BY <1>2, <1>3, <1>4, <1>5, <1>6 DEF Statement

\* Taking a state redeems its ticket: SELECT and DELETE are one step here.
LEMMA TakeRedeems ==
    ASSUME IdentityInv, Dialect = "sqlite", NEW r \in Req, TakeLoginState(r)
    PROVE  \E t \in State : Tickets!Redeem(t)
<1> DEFINE t == arg[r].token
<1>1. pc[r] = "take" /\ t \in State /\ loginStates[t] # Nil
  <2>1. pc[r] \in {"take", "takeDelete"}
    BY DEF TakeLoginState
  <2>2. arg[r] \in Requests /\ ControlAt(pc[r], arg[r], loc[r])
    BY <2>1, AtRequest DEF IdentityInv
  <2>3. pc[r] = "take" /\ arg[r].op = "Callback"
    BY <2>1, <2>2 DEF ControlAt
  <2>4. QED
    BY <2>2, <2>3, RequestsAssumption DEF TakeLoginState
<1>2. /\ loginStates' = [loginStates EXCEPT ![t] = Nil] /\ used' = used
      /\ claims' = [claims EXCEPT ![t] = @ + 1]
  BY DEF TakeLoginState, RemoveLoginState
<1> HIDE DEF t
<1>3. OpenStates' = OpenStates \ {t} /\ t \in OpenStates
  BY <1>1, <1>2 DEF OpenStates, IdentityInv, TypeOK, StoreTypeOK
<1>4. QED
  BY <1>1, <1>2, <1>3 DEF Tickets!Redeem, OpenStates

LEMMA TicketStep ==
    ASSUME IdentityInv, Dialect = "sqlite", Next
    PROVE  \/ Tickets!TicketNext
           \/ UNCHANGED <<used \cap State, OpenStates, claims>>
<1>1. ASSUME claims' = claims, UNCHANGED tables \/ Statement
      PROVE  \/ Tickets!TicketNext
             \/ UNCHANGED <<used \cap State, OpenStates, claims>>
  <2>1. CASE UNCHANGED tables
    BY <1>1, <2>1 DEF tables, OpenStates
  <2>2. CASE Statement
    BY <1>1, <2>2, StatementTickets DEF IdentityInv, TypeOK, Tickets!TicketNext, OpenStates
  <2>3. QED
    BY <1>1, <2>1, <2>2
<1>2. ASSUME NEW x \in Session \cup State, Expire(x)
      PROVE  claims' = claims /\ UNCHANGED tables
  BY <1>2 DEF Expire
<1>3. ASSUME NEW r \in Req, StepOf(r), ~TakeLoginState(r)
      PROVE  claims' = claims /\ (UNCHANGED tables \/ Statement)
  <2>1. claims' = claims
    BY <1>3 DEF StepOf, Step, OidcStep, FindPool, Discover, InsertLoginState,
       SelectLoginState, CheckPool, Exchange
  <2>2. QED
    BY <1>3, <2>1, TableEffect DEF IdentityInv
<1>4. QED
  BY <1>1, <1>2, <1>3, TakeRedeems, SystemSteps DEF Tickets!TicketNext

\* On SQLite the login states implement one-shot tickets (session_repository.go,
\* Take in one write transaction).
THEOREM LoginStatesAreTickets ==
    ASSUME Dialect = "sqlite"
    PROVE  Spec => ImplementsTickets
<1>1. Init => Tickets!TicketInit
  BY DEF Init, InitFrom, Tickets!TicketInit
<1>2. IdentityInv /\ [Next]_vars =>
        [Tickets!TicketNext]_(<<used \cap State, {t \in State : loginStates[t] # Nil}, claims>>)
  <2>1. UNCHANGED vars => UNCHANGED <<used \cap State, OpenStates, claims>>
    BY DEF vars, tables, OpenStates
  <2>2. QED
    BY <2>1, TicketStep DEF OpenStates
<1>3. QED
  BY <1>1, <1>2, IdentityInductive, PTL DEF Spec, ImplementsTickets, Tickets!TicketSpec

\* A ticket that has been redeemed was issued and is closed for good.
Redeemed ==
    \A t \in State :
        /\ t \in OpenStates => t \in used
        /\ claims[t] \in {0, 1}
        /\ claims[t] = 1 => t \in used /\ t \notin OpenStates

\* So no login state serves a second callback.
THEOREM StateServesOneCallback ==
    ASSUME Dialect = "sqlite"
    PROVE  Spec => []Tickets!RedeemedOnce
<1>1. Init => Redeemed
  BY DEF Init, InitFrom, Redeemed, OpenStates
<1>2. Redeemed /\ IdentityInv /\ [Next]_vars => Redeemed'
  <2>1. ASSUME Redeemed, UNCHANGED <<used \cap State, OpenStates, claims>>
        PROVE  Redeemed'
    BY <2>1 DEF Redeemed
  <2>2. ASSUME Redeemed, NEW t \in State, Tickets!Issue(t)
        PROVE  Redeemed'
    <3>1. /\ t \notin used /\ (used \cap State)' = (used \cap State) \cup {t}
          /\ OpenStates' = OpenStates \cup {t} /\ claims' = claims
      BY <2>2 DEF Tickets!Issue, OpenStates
    <3>2. QED
      BY <2>2, <3>1 DEF Redeemed
  <2>3. ASSUME Redeemed, IdentityInv, NEW t \in State, Tickets!Redeem(t)
        PROVE  Redeemed'
    <3>1. /\ t \in OpenStates /\ OpenStates' = OpenStates \ {t}
          /\ (used \cap State)' = used \cap State
          /\ claims' = [claims EXCEPT ![t] = @ + 1]
      BY <2>3 DEF Tickets!Redeem, OpenStates
    <3>2. claims[t] = 0
      BY <2>3, <3>1 DEF Redeemed
    <3>3. claims'[t] = 1 /\ \A s \in State \ {t} : claims'[s] = claims[s]
      BY <2>3, <3>1, <3>2 DEF IdentityInv, TypeOK
    <3>4. QED
      BY <2>3, <3>1, <3>3 DEF Redeemed
  <2>4. ASSUME Redeemed, NEW S \in SUBSET OpenStates, Tickets!Withdraw(S)
        PROVE  Redeemed'
    <3>1. /\ OpenStates' = OpenStates \ S /\ (used \cap State)' = used \cap State
          /\ claims' = claims
      BY <2>4 DEF Tickets!Withdraw, OpenStates
    <3>2. QED
      BY <2>4, <3>1 DEF Redeemed
  <2>5. UNCHANGED vars => UNCHANGED <<used \cap State, OpenStates, claims>>
    BY DEF vars, tables, OpenStates
  <2>6. ASSUME Redeemed, IdentityInv, Tickets!TicketNext
        PROVE  Redeemed'
    <3>1. CASE \E t \in State : Tickets!Issue(t)
      BY <2>2, <2>6, <3>1
    <3>2. CASE \E t \in State : Tickets!Redeem(t)
      BY <2>3, <2>6, <3>2
    <3>3. CASE \E S \in SUBSET OpenStates : Tickets!Withdraw(S)
      BY <2>4, <2>6, <3>3
    <3>4. QED
      BY <2>6, <3>1, <3>2, <3>3 DEF Tickets!TicketNext, OpenStates
  <2>7. QED
    BY <2>1, <2>5, <2>6, TicketStep
<1>3. Redeemed => Tickets!RedeemedOnce
  BY DEF Redeemed, Tickets!RedeemedOnce
<1>4. QED
  BY <1>1, <1>2, <1>3, IdentityInductive, PTL DEF Spec

-----------------------------------------------------------------------------
(* What is left of it on PostgreSQL.                                       *)

CallbackPC == {"take", "takeDelete", "poolCheck", "discover", "exchange", "sessionInsert"}

\* A callback goes through these labels, with a state that was given out once it
\* has found its row.
CallbackAt(r) ==
    arg[r] # Nil /\ arg[r].op = "Callback" =>
        pc[r] \in CallbackPC /\ (pc[r] # "take" => arg[r].token \in used)

StateInv ==
    /\ OpenStates \subseteq used
    /\ \A r \in Req : CallbackAt(r)
    /\ OneStateOnePool

\* A row is inserted under a state not yet given out, never changed.
LEMMA RowsOfStates ==
    ASSUME StoreTypeOK, UNCHANGED tables \/ Statement
    PROVE  /\ used \subseteq used' /\ (OpenStates \subseteq used => OpenStates' \subseteq used')
           /\ \A t \in State : loginStates'[t] \in {loginStates[t], Nil} \/ t \notin used
<1>1. \/ loginStates' = loginStates /\ used \subseteq used'
      \/ /\ used' = used
         /\ \A t \in State : loginStates'[t] \in {loginStates[t], Nil}
      \/ \E t \in State \ used, p \in Pool : AddLoginState(t, p)
  <2>1. CASE UNCHANGED tables
    BY <2>1 DEF tables
  <2>2. CASE Statement
    BY <2>2 DEF Statement, WriteUser, RemoveUser, AddSession, RemoveSession, WritePool, RemovePool,
       RemoveLoginState, StoreTypeOK
  <2>3. QED
    BY <2>1, <2>2
<1>2. CASE loginStates' = loginStates /\ used \subseteq used'
  BY <1>2 DEF OpenStates
<1>3. CASE used' = used /\ \A t \in State : loginStates'[t] \in {loginStates[t], Nil}
  BY <1>3 DEF OpenStates
<1>4. ASSUME NEW t \in State \ used, NEW p \in Pool, AddLoginState(t, p)
      PROVE  /\ used \subseteq used' /\ (OpenStates \subseteq used => OpenStates' \subseteq used')
             /\ \A s \in State : loginStates'[s] \in {loginStates[s], Nil} \/ s \notin used
  BY <1>4 DEF AddLoginState, OpenStates, StoreTypeOK
<1>5. QED
  BY <1>1, <1>2, <1>3, <1>4

\* The pool a callback goes on with is the one it had, or that of the row.
LEMMA CallbackStep ==
    ASSUME TypeOK, ControlInv, NEW r \in Req, StepOf(r),
           arg[r] # Nil, arg[r].op = "Callback", pc[r] \in CallbackPC
    PROVE  \/ pc'[r] = "idle" /\ arg'[r] = Nil
           \/ /\ arg'[r] = arg[r] /\ pc'[r] \in CallbackPC \ {"take"}
              /\ IF pc[r] = "take"
                 THEN LET row == loginStates[arg[r].token]
                      IN  row # Nil /\ loc'[r].owner = row.pool
                 ELSE loc'[r].owner = loc[r].owner
<1> USE DEF CallbackPC, TypeOK, ApiTypeOK
<1>1. ~UserStep(r) /\ ~PoolStep(r) /\ ~Receive(r)
  BY DEF UserStep, CheckUsername, InsertUser, ReadUser, CheckRename, ReadForDelete,
     EnsureNotLastAdmin, UpdateUserRow, DeleteUserRow, ReadForPassword,
     PoolStep, PreparePool, EnsureUnique, EnsureSlugUnique, EnsureIssuerUnique, EnsureNameUnique,
     WritePoolRow, DeletePool, Receive
<1>2. CASE \E status : Answer(r, status)
  BY <1>2 DEF Answer
<1>3. CASE SessionStep(r)
  BY <1>2, <1>3 DEF SessionStep, CountForBootstrap, CheckPassword, InsertSession, Logout, CountUsers,
     CountPools, LookupSession, DropExpired, LoadPrincipal, AuthenticateOIDCBearer, Refuse
<1>4. CASE Fail(r)
  BY <1>2, <1>4 DEF Fail, Refuse
<1>5. loc[r] \in Locals
  OBVIOUS
<1>6. CASE SelectLoginState(r) \/ TakeLoginState(r)
  BY <1>2, <1>5, <1>6 DEF SelectLoginState, TakeLoginState, Refuse, Proceed, Goto, Locals
<1>7. CASE CheckPool(r) \/ Discover(r) \/ Exchange(r)
  BY <1>2, <1>5, <1>7 DEF CheckPool, Discover, Exchange, Refuse, Proceed, Goto
<1>8. ~FindPool(r) /\ ~InsertLoginState(r)
  BY DEF FindPool, InsertLoginState
<1>9. QED
  BY <1>1, <1>3, <1>4, <1>6, <1>7, <1>8 DEF StepOf, Step, OidcStep

LEMMA StateStart == Init => StateInv
BY DEF Init, InitFrom, StateInv, OpenStates, CallbackAt, OneStateOnePool, HoldsState

\* What a step of the server does to one callback: nothing, an end, a move, or
\* its arrival.
LEMMA CallbackMoves ==
    ASSUME IdentityInv, StateInv, Next, NEW r \in Req
    PROVE  \/ arg'[r] = Nil
           \/ pc'[r] = pc[r] /\ arg'[r] = arg[r] /\ loc'[r] = loc[r]
           \/ arg'[r] # Nil /\ (arg'[r].op = "Callback" => pc'[r] = "take")
           \/ /\ arg[r] # Nil /\ arg'[r] = arg[r] /\ arg[r].op = "Callback"
              /\ pc[r] \in CallbackPC /\ pc'[r] \in CallbackPC \ {"take"}
              /\ IF pc[r] = "take"
                 THEN LET row == loginStates[arg[r].token]
                      IN  row # Nil /\ loc'[r].owner = row.pool
                 ELSE loc'[r].owner = loc[r].owner
<1> USE DEF IdentityInv
<1>1. CASE pc'[r] = pc[r] /\ arg'[r] = arg[r] /\ loc'[r] = loc[r]
  BY <1>1
<1>2. CASE StepOf(r)
  <2>1. CASE Receive(r)
    BY <2>1 DEF Receive, EntryPoint, TypeOK, ApiTypeOK
  <2>2. CASE arg[r] # Nil /\ arg[r].op = "Callback"
    BY <1>2, <2>2, CallbackStep DEF StateInv, CallbackAt
  <2>3. CASE ~Receive(r) /\ ~(arg[r] # Nil /\ arg[r].op = "Callback")
    <3>1. Answered(r) \/ Moved(r)
      BY <1>2, <2>3, ProcessEffect
    <3>2. arg'[r] = Nil \/ arg'[r] = arg[r]
      BY <3>1 DEF Answered, Answer, Moved, Goto, TypeOK, ApiTypeOK
    <3>3. QED
      BY <2>3, <3>2
  <2>4. QED
    BY <2>1, <2>2, <2>3
<1>3. QED
  BY <1>1, <1>2, Untouched

\* A callback that has a state in hand after a step had it before, or has found
\* its row now.
LEMMA HandComesFrom ==
    ASSUME IdentityInv, StateInv, Next, NEW r \in Req, HoldsState(r)'
    PROVE  LET t == arg[r].token
           IN  /\ arg'[r] = arg[r] /\ t \in State /\ t \in used
               /\ \/ HoldsState(r) /\ loc'[r].owner = loc[r].owner
                  \/ loginStates[t] # Nil /\ loc'[r].owner = loginStates[t].pool
<1>1. /\ arg'[r] = arg[r] /\ arg[r] # Nil /\ arg[r].op = "Callback"
      /\ \/ HoldsState(r) /\ loc'[r].owner = loc[r].owner
         \/ loginStates[arg[r].token] # Nil /\ loc'[r].owner = loginStates[arg[r].token].pool
  BY CallbackMoves DEF HoldsState
<1>2. arg[r].token \in State
  <2>1. arg[r] \in Requests
    BY <1>1 DEF IdentityInv, TypeOK, ApiTypeOK
  <2>2. QED
    BY <1>1, <2>1, RequestsAssumption
<1>3. arg[r].token \in used
  BY <1>1, <1>2 DEF HoldsState, StateInv, CallbackAt, OpenStates
<1>4. QED
  BY <1>1, <1>2, <1>3

LEMMA StateStep ==
    ASSUME IdentityInv, StateInv, [Next]_vars
    PROVE  StateInv'
<1>1. CASE UNCHANGED vars
  BY <1>1 DEF vars, tables, process, StateInv, OpenStates, CallbackAt, OneStateOnePool, HoldsState
<1>2. CASE Next
  <2>1. UNCHANGED tables \/ Statement
    BY <1>2, SystemSteps, TableEffect DEF IdentityInv, Expire
  <2>2. /\ used \subseteq used' /\ OpenStates' \subseteq used'
        /\ \A t \in State \cap used : loginStates'[t] \in {loginStates[t], Nil}
    BY <2>1, RowsOfStates DEF IdentityInv, TypeOK, StateInv
  <2>3. ASSUME NEW r \in Req
        PROVE  CallbackAt(r)'
    <3>1. CASE HoldsState(r)'
      <4>1. arg'[r].token \in used'
        BY <1>2, <2>2, <3>1, HandComesFrom
      <4>2. pc'[r] \in CallbackPC
        BY <1>2, <3>1, CallbackMoves DEF HoldsState, StateInv, CallbackAt
      <4>3. QED
        BY <4>1, <4>2 DEF CallbackAt
    <3>2. CASE ~HoldsState(r)'
      BY <3>2 DEF HoldsState, CallbackAt, CallbackPC
    <3>3. QED
      BY <3>1, <3>2
  <2>4. OneStateOnePool'
    <3>1. SUFFICES ASSUME NEW r \in Req, NEW q \in Req, HoldsState(r)'
                   PROVE  /\ loginStates'[arg'[r].token] # Nil
                               => loginStates'[arg'[r].token].pool = loc'[r].owner
                          /\ HoldsState(q)' /\ arg'[q].token = arg'[r].token
                               => loc'[q].owner = loc'[r].owner
      BY DEF OneStateOnePool
    <3> DEFINE t == arg[r].token
    <3>2. /\ arg'[r].token = t /\ t \in State \cap used
          /\ \/ HoldsState(r) /\ loc'[r].owner = loc[r].owner
             \/ loginStates[t] # Nil /\ loc'[r].owner = loginStates[t].pool
      BY <1>2, <3>1, HandComesFrom
    <3>3. loginStates[t] # Nil => loginStates[t].pool = loc'[r].owner
      BY <3>2 DEF StateInv, OneStateOnePool
    <3>4. loginStates'[t] # Nil => loginStates'[t].pool = loc'[r].owner
      BY <2>2, <3>2, <3>3
    <3>5. ASSUME HoldsState(q)', arg'[q].token = t
          PROVE  loc'[q].owner = loc'[r].owner
      <4>1. /\ arg[q].token = t
            /\ \/ HoldsState(q) /\ loc'[q].owner = loc[q].owner
               \/ loginStates[t] # Nil /\ loc'[q].owner = loginStates[t].pool
        BY <1>2, <3>5, HandComesFrom
      <4>2. QED
        BY <3>2, <3>3, <4>1 DEF StateInv, OneStateOnePool
    <3>6. QED
      BY <3>2, <3>4, <3>5
  <2>5. QED
    BY <2>2, <2>3, <2>4 DEF StateInv
<1>3. QED
  BY <1>1, <1>2

\* On both dialects all callbacks with one state go on with the pool it was stored
\* for (auth.go:361-431, session_repository.go:131).
THEOREM StateServesOnePool == Spec => []OneStateOnePool
<1>1. StateInv /\ IdentityInv /\ [Next]_vars => StateInv'
  BY StateStep
<1>2. StateInv => OneStateOnePool
  BY DEF StateInv
<1>3. QED
  BY <1>1, <1>2, StateStart, IdentityInductive, PTL DEF Spec
=============================================================================
