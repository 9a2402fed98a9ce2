------------------------------- MODULE Sessions -----------------------------
(***************************************************************************)
(* The local half of AuthService (internal/service/auth.go): bootstrap,    *)
(* login, logout, and the authentication of every protected request, in    *)
(* the order of the queries.  The deployment API key and the machine       *)
(* credentials are authenticated elsewhere (module MachineAuth); Configured *)
(* says that one of them alone makes the server configured.                *)
(***************************************************************************)
EXTENDS Users

CONSTANT Configured     \* an API key is set or a machine pool is enabled

\* Bootstrap: the count of users, then the bootstrap token.
CountForBootstrap(r) ==
    /\ pc[r] = "bootCount"
    /\ IF LiveUsers # {} THEN Refuse(r, 409)
       ELSE IF ~arg[r].valid THEN Refuse(r, 403)
       ELSE Proceed(r, "userName", loc[r])

\* LoginLocal: a missing, a disabled user and a wrong password look the same.
CheckPassword(r) ==
    LET matching == {u \in UsersNamed(arg[r].name) :
                        users[u].enabled /\ users[u].pw = arg[r].pw}
    IN  /\ pc[r] = "login"
        /\ IF matching = {} THEN Refuse(r, 401)
           ELSE \E u \in matching :
                  Proceed(r, "sessionInsert", [loc[r] EXCEPT !.owner = u])

\* createLocalSession and createOIDCSession: the INSERT fails on the foreign
\* key when the user or the pool is gone.
InsertSession(r) ==
    LET x == loc[r].owner
        kind == IF x \in User THEN "local_user" ELSE "oidc"
    IN  /\ pc[r] = "sessionInsert"
        /\ IF ~OwnerExists(x) THEN Refuse(r, 500)
           ELSE /\ \E s \in Session \ used : AddSession(s, kind, x)
                /\ Answer(r, IF arg[r].op = "Bootstrap" THEN 201 ELSE 200)

\* DELETE by token hash; an unknown token is not an error.
Logout(r) ==
    /\ pc[r] = "logout"
    /\ Answer(r, 200)
    /\ IF arg[r].token = Nil THEN UNCHANGED tables ELSE RemoveSession(arg[r].token)

-----------------------------------------------------------------------------
(* AuthenticateRequest.                                                    *)

\* The session token to try after s: the bearer token is tried first, then the
\* cookie; Nil when both have been.
NextCandidate(q, s) ==
    IF s = Nil /\ q.token # Nil THEN q.token
    ELSE IF s # q.cookie THEN q.cookie ELSE Nil

\* A JWT is the last of the credentials.
TryAfter(r, s) ==
    LET next == NextCandidate(arg[r], s)
    IN  IF next # Nil
        THEN Goto(r, "session") /\ loc' = [loc EXCEPT ![r] = [NoLocals EXCEPT !.session = next]]
        ELSE IF arg[r].jwt # Nil THEN Goto(r, "bearer") /\ loc' = [loc EXCEPT ![r] = NoLocals]
        ELSE Answer(r, 401)

\* Status counts the users, then the enabled identity pools.
CountUsers(r) ==
    /\ pc[r] = "status"
    /\ Proceed(r, "poolCount", [loc[r] EXCEPT !.flag = LiveUsers # {} \/ Configured])

CountPools(r) ==
    /\ pc[r] = "poolCount"
    /\ IF ~loc[r].flag /\ EnabledPools = {} THEN Refuse(r, 403)
       ELSE TryAfter(r, Nil) /\ UNCHANGED tables

\* Where an authenticated request goes on; admin: the principal is a local
\* user whose row, as read, has the role and is enabled (requireAdmin).
Dispatch(op) ==
    CASE op = "CreateUser" -> "userName"
      [] op = "UpdateUser" -> "userRead"
      [] op = "DeleteUser" -> "userDelRead"
      [] op \in {"CreatePool", "UpdatePool"} -> "poolRead"
      [] op = "DeletePool" -> "poolDelete"
      [] op = "ChangePassword" -> "pwRead"

\* The handler behind the middleware, for the principal's user row or for a
\* principal that is not a local user (Nil).
Enter(r, row) ==
    IF arg[r].op = "Me" THEN Refuse(r, 200)
    ELSE IF arg[r].op \in AdminOps /\ ~IsEnabledAdmin(row) THEN Refuse(r, 403)
    ELSE IF arg[r].op = "ChangePassword" /\ row = Nil THEN Refuse(r, 403)
    ELSE Proceed(r, Dispatch(arg[r].op), loc[r])

\* authenticateSession, the session row: missing, past expires_at, of an OIDC
\* user, or of a local user whose row is read next.
LookupSession(r) ==
    LET s == loc[r].session
    IN  /\ pc[r] = "session"
        /\ IF sessions[s] = Nil THEN TryAfter(r, s) /\ UNCHANGED tables
           ELSE IF s \in expired THEN Proceed(r, "dropSession", loc[r])
           ELSE IF sessions[s].kind = "oidc" THEN Enter(r, Nil)
           ELSE Proceed(r, "principal", [loc[r] EXCEPT !.principal = sessions[s].owner])

\* The error of the clean-up is dropped, and the next credential tried.
DropExpired(r) ==
    LET s == loc[r].session
    IN  /\ pc[r] = "dropSession"
        /\ RemoveSession(s) \/ UNCHANGED tables
        /\ TryAfter(r, s)

\* Mutant: the account's enabled flag is not looked at.
LoadPrincipal_anyUser(r) ==
    LET row == users[loc[r].principal]
    IN  /\ pc[r] = "principal"
        /\ IF row = Nil THEN Refuse(r, 500) ELSE Enter(r, [row EXCEPT !.enabled = TRUE])

\* authenticateSession, the user row: ErrUserNotFound is not among the errors
\* writeAuthError knows, hence the 500.
LoadPrincipal(r) ==
    LET row == users[loc[r].principal]
    IN  /\ pc[r] = "principal"
        /\ IF row = Nil THEN Refuse(r, 500)
           ELSE IF ~row.enabled THEN Refuse(r, 401)
           ELSE Enter(r, row)

\* authenticateOIDCBearer: a JWT of an issuer that an enabled pool trusts;
\* whether its signature and audience verify is the caller's luck.
AuthenticateOIDCBearer(r) ==
    /\ pc[r] = "bearer"
    /\ \/ Refuse(r, 401)
       \/ /\ EnabledPools \cap PoolsWith("issuer", arg[r].jwt) # {}
          /\ Enter(r, Nil)

SessionStep(r) ==
    \/ CountForBootstrap(r) \/ CheckPassword(r) \/ InsertSession(r) \/ Logout(r)
    \/ CountUsers(r) \/ CountPools(r) \/ LookupSession(r) \/ DropExpired(r)
    \/ LoadPrincipal(r) \/ AuthenticateOIDCBearer(r)
=============================================================================
