----------------------------- MODULE IdentityApi ----------------------------
(***************************************************************************)
(* Requests on the identity routes (internal/handler auth.go,              *)
(* auth_routes.go, user.go, identity_pool.go).  A request arrives with its *)
(* decoded arguments; a protected one is authenticated first; then the     *)
(* service method runs one database interaction per step, and the answer   *)
(* is the HTTP status the write...Error functions give its error.          *)
(***************************************************************************)
EXTENDS IdentityStore

CONSTANT Requests   \* the decoded HTTP requests clients may send

AuthOps  == {"Bootstrap", "Login", "Logout", "StartLogin", "Callback"}
UserOps  == {"CreateUser", "UpdateUser", "DeleteUser"}
PoolOps  == {"CreatePool", "UpdatePool", "DeletePool"}
AdminOps == UserOps \cup PoolOps
Ops      == AuthOps \cup AdminOps \cup {"Me", "ChangePassword"}

\* token: the session token in the Authorization header (of a logout, the one it
\* ends), or the login state of a callback; cookie: that in the session cookie;
\* jwt: the issuer of a JWT in the Authorization header instead of token; pw is the password, old the current one; a field of an update
\* that the body leaves out is Nil.  valid: the bootstrap token matches.
Args == [op : Ops, token : Session \cup State \cup {Nil},
         cookie : Session \cup {Nil}, jwt : Name \cup {Nil},
         id : User \cup Pool \cup {Nil},
         name : Name \cup {Nil}, slug : Name \cup {Nil}, issuer : Name \cup {Nil},
         pw : Password \cup {Nil}, old : Password \cup {Nil},
         role : Role \cup {Nil}, enabled : BOOLEAN \cup {Nil},
         valid : BOOLEAN]

\* What decoding guarantees: ids of the right kind, the fields a create needs.
ASSUME RequestsAssumption ==
    /\ Requests \subseteq Args /\ Nil \notin Requests
    /\ \A q \in Requests :
        /\ q.op = "Callback" <=> q.token \in State
        /\ q.op \in {"UpdateUser", "DeleteUser"} => q.id \in User
        /\ q.op \in {"UpdatePool", "DeletePool"} => q.id \in Pool
        /\ q.op \in {"Bootstrap", "Login", "CreateUser"} =>
              q.name \in Name /\ q.pw \in Password
        /\ q.op = "CreateUser" => q.role \in Role /\ q.enabled \in BOOLEAN
        /\ q.op = "CreatePool" =>
              q.name \in Name /\ q.slug \in Name /\ q.issuer \in Name
              /\ q.enabled \in BOOLEAN
        /\ q.op = "StartLogin" => q.slug \in Name
        /\ q.op = "ChangePassword" => q.pw \in Password

VARIABLES
    pc,         \* [Req -> where the request is]
    arg,        \* [Req -> its arguments, or Nil]
    loc,        \* [Req -> the locals of its handler]
    reply       \* [Req -> HTTP status of the answer sent in the last step, or 0]

process == <<pc, arg, loc, reply>>

\* session: the session token that is being tried; principal: the local user in
\* the request's context; owner: the user or pool
\* at hand; row: the row read and changed in memory; flag: a condition on an
\* earlier read that a later step acts on.
Locals == [session : Session \cup {Nil}, principal : User \cup {Nil},
           owner : User \cup Pool \cup {Nil},
           row : UserRow \cup PoolRow \cup {Nil}, flag : BOOLEAN]

NoLocals == [session |-> Nil, principal |-> Nil, owner |-> Nil, row |-> Nil, flag |-> FALSE]

NoReply == [r \in Req |-> 0]

AuthPC == {"status", "poolCount", "session", "principal", "dropSession", "bearer"}
UserPC == {"userName", "userInsert", "userRead", "userRename", "userDelRead",
           "adminCount", "userWrite", "userDelete", "pwRead"}
LoginPC == {"bootCount", "login", "sessionInsert", "logout"}
PoolPC == {"poolRead", "poolSlug", "poolIssuer", "poolNames", "poolWrite",
           "poolDelete"}
OidcPC == {"poolBySlug", "discover", "stateInsert", "take", "takeDelete",
           "poolCheck", "exchange"}

ApiTypeOK ==
    /\ pc \in [Req -> {"idle"} \cup AuthPC \cup UserPC \cup LoginPC \cup PoolPC
                        \cup OidcPC]
    /\ arg \in [Req -> Requests \cup {Nil}]
    /\ loc \in [Req -> Locals]
    /\ reply \in [Req -> {0, 200, 201, 400, 401, 403, 404, 409, 500}]
    /\ \A r \in Req : pc[r] = "idle" <=> arg[r] = Nil

-----------------------------------------------------------------------------
\* The public routes go straight to their service method, the others through
\* authMiddleware (for GET /auth/me the handler does the same).
EntryPoint(q) ==
    CASE q.op = "Bootstrap" -> "bootCount"
      [] q.op = "Login" -> "login"
      [] q.op = "Logout" -> "logout"
      [] q.op = "StartLogin" -> "poolBySlug"
      [] q.op = "Callback" -> "take"
      [] OTHER -> "status"

\* The ids a request may give out.
Gives(op) ==
    CASE op = "Bootstrap" -> {User, Session}
      [] op \in {"Login", "Callback"} -> {Session}
      [] op = "CreateUser" -> {User}
      [] op = "CreatePool" -> {Pool}
      [] op = "StartLogin" -> {State}
      [] OTHER -> {}

\* Bound: ids are finite here, so a request is accepted only while a fresh id
\* is left for it and for the requests in flight.
IdLeft(q) ==
    \A K \in Gives(q.op) :
        Cardinality({p \in Req : pc[p] # "idle" /\ K \in Gives(arg[p].op)})
          < Cardinality(K \ used)

Receive(r) ==
    /\ pc[r] = "idle"
    /\ \E q \in Requests :
        /\ IdLeft(q)
        /\ arg' = [arg EXCEPT ![r] = q]
        /\ pc' = [pc EXCEPT ![r] = EntryPoint(q)]
    /\ reply' = NoReply
    /\ UNCHANGED <<tables, loc>>

Goto(r, l) ==
    /\ pc' = [pc EXCEPT ![r] = l]
    /\ reply' = NoReply
    /\ UNCHANGED arg

Answer(r, status) ==
    /\ pc' = [pc EXCEPT ![r] = "idle"]
    /\ arg' = [arg EXCEPT ![r] = Nil]
    /\ loc' = [loc EXCEPT ![r] = NoLocals]
    /\ reply' = [NoReply EXCEPT ![r] = status]

Refuse(r, status) == Answer(r, status) /\ UNCHANGED tables

\* A read that lets the request go on at l, with its locals changed to new.
Proceed(r, l, new) ==
    /\ Goto(r, l)
    /\ loc' = [loc EXCEPT ![r] = new]
    /\ UNCHANGED tables

\* The status when a statement fails: a 500, but authLogoutHandler drops the
\* error of Logout.
FailStatus(l) == IF l = "logout" THEN 200 ELSE 500

\* A statement fails or the context is cancelled: nothing is written.
Fail(r) ==
    /\ pc[r] \notin {"idle", "dropSession", "discover", "exchange"}
    /\ Refuse(r, FailStatus(pc[r]))

\* A field the body leaves out keeps its value.
Or(x, y) == IF x = Nil THEN y ELSE x
=============================================================================
