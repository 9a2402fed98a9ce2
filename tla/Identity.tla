------------------------------ MODULE Identity ------------------------------
(***************************************************************************)
(* Human identity: accounts, sessions, identity pools and OIDC logins      *)
(* under any number of concurrent requests.                                *)
(***************************************************************************)
EXTENDS OidcLogin

CONSTANT Seeds      \* what the tables may hold at the start

\* gone: ids that were given out and whose rows have been deleted since.
SeedRow == [users : [User -> UserRow \cup {Nil}],
            sessions : [Session -> SessionRow \cup {Nil}],
            pools : [Pool -> PoolRow \cup {Nil}],
            gone : SUBSET Id]

ASSUME SeedAssumption ==
    /\ Seeds \subseteq SeedRow
    /\ \A d \in Seeds :
        /\ \A u, v \in User : u # v /\ d.users[u] # Nil /\ d.users[v] # Nil =>
             d.users[u].name # d.users[v].name
        /\ \A p, o \in Pool : p # o /\ d.pools[p] # Nil /\ d.pools[o] # Nil =>
             \A f \in {"name", "slug", "issuer"} : d.pools[p][f] # d.pools[o][f]
        /\ \A s \in Session : d.sessions[s] # Nil =>
             /\ d.sessions[s].kind = "local_user"
             /\ d.sessions[s].owner \in User /\ d.users[d.sessions[s].owner] # Nil

\* History: to whom a session was issued, and what has been true at some
\* instant since a request in flight arrived.
VARIABLES issuedTo, seen

vars == <<tables, expired, process, claims, issuedTo, seen>>

InitFrom(d) ==
    /\ users = d.users /\ sessions = d.sessions /\ pools = d.pools
    /\ loginStates = [t \in State |-> Nil]
    /\ used = LiveUsers \cup LivePools \cup {s \in Session : sessions[s] # Nil} \cup d.gone
    /\ expired = {}
    /\ pc = [r \in Req |-> "idle"]
    /\ arg = [r \in Req |-> Nil]
    /\ loc = [r \in Req |-> NoLocals]
    /\ reply = NoReply
    /\ claims = [t \in State |-> 0]
    /\ issuedTo = [s \in Session |-> IF sessions[s] = Nil THEN Nil ELSE sessions[s].owner]
    /\ seen = [r \in Req |-> {}]

Init == \E d \in Seeds : InitFrom(d)

\* time.Now() passes the expires_at of a session or of a login state.
Expire(x) ==
    /\ IF x \in Session THEN sessions[x] # Nil ELSE loginStates[x] # Nil
    /\ expired' = expired \cup {x}
    /\ reply' = NoReply
    /\ UNCHANGED <<tables, pc, arg, loc, claims>>

Step(r) ==
    \/ UserStep(r) /\ UNCHANGED claims
    \/ SessionStep(r) /\ UNCHANGED claims
    \/ PoolStep(r) /\ UNCHANGED claims
    \/ OidcStep(r)

System ==
    \/ \E r \in Req : Step(r) /\ UNCHANGED expired
    \/ \E r \in Req : (Receive(r) \/ Fail(r)) /\ UNCHANGED <<expired, claims>>
    \/ \E x \in Session \cup State : Expire(x)

\* The session tokens a request carries.
Carried(q) == IF q = Nil THEN {} ELSE {q.token, q.cookie} \cap Session

\* What may be true of a session s: it is live, the account behind it may
\* authenticate, is an administrator's.
Holds(f, s) ==
    LET u == issuedTo[s]
    IN  CASE f = "live" -> s \notin expired /\ sessions[s] # Nil
          [] f = "enabled" -> u \in LiveUsers /\ users[u].enabled
          [] f = "admin" -> u \in User /\ IsEnabledAdmin(users[u])

\* The number of enabled administrators is not one.
NotSole == <<"notSole", Nil>>

\* What is true now and concerns request r.
Facts(r) ==
    {f \in {"live", "enabled", "admin"} \X Carried(arg[r]) : Holds(f[1], f[2])}
        \cup {f \in {NotSole} : \A a \in User : EnabledAdmins # {a}}

Fact == {"live", "enabled", "admin"} \X Session \cup {NotSole}

Observe ==
    /\ issuedTo' = [s \in Session |->
                      IF sessions[s] = Nil /\ sessions'[s] # Nil
                      THEN sessions'[s].owner ELSE issuedTo[s]]
    /\ seen' = [r \in Req |->
                  IF pc'[r] = "idle" THEN {}
                  ELSE (IF pc[r] = "idle" THEN {} ELSE seen[r]) \cup Facts(r)']

Next == System /\ Observe

Spec == Init /\ [][Next]_vars

-----------------------------------------------------------------------------
TypeOK ==
    /\ StoreTypeOK
    /\ ApiTypeOK
    /\ claims \in [State -> Nat]
    /\ issuedTo \in [Session -> User \cup Pool \cup {Nil}]
    /\ seen \in [Req -> SUBSET Fact]

\* A local session never outlives its user and an OIDC login never outlives
\* its pool, whatever deletes run between the check and the INSERT: the rows a
\* foreign key refers to exist (auth.go:202-218 against user.go:233-250).
RowsOwned ==
    /\ \A s \in Session : sessions[s] # Nil =>
         IF sessions[s].kind = "local_user" THEN sessions[s].owner \in LiveUsers
         ELSE sessions[s].owner \in LivePools \cup {Nil}
    /\ \A t \in State : loginStates[t] # Nil => loginStates[t].pool \in LivePools

\* Usernames stay unique although creates and renames check them before their
\* transaction (user.go:133, :181).
UsernamesUnique ==
    \A u, v \in LiveUsers : u # v => users[u].name # users[v].name

\* So do name, slug and issuer of the identity pools (identity_pool.go:206-224);
\* two pools of one issuer would make a bearer token's pool a matter of luck.
PoolKeysUnique ==
    \A p, o \in LivePools : p # o =>
        \A f \in {"name", "slug", "issuer"} : pools[p][f] # pools[o][f]

\* The keys that are looked up outside the transaction that writes them.
KeysUnique == UsernamesUnique /\ PoolKeysUnique

\* The steps of a request that stand behind requireAdmin, or behind the check
\* for a local user.
ActsAsAdmin(r) == arg[r] # Nil /\ arg[r].op \in AdminOps /\ pc[r] \notin AuthPC
ActsAsLocalUser(r) == arg[r] # Nil /\ arg[r].op = "ChangePassword" /\ pc[r] \notin AuthPC

\* A request never acts with rights that were gone before it arrived: one session
\* it carries was live, and the user of the same session an enabled administrator
\* (or an enabled user), at some instant since then, although it tries several
\* credentials, reads session and user in two queries and does not look at the
\* rights again (auth.go:232-297, :488-516).
RightsWereHeld ==
    \A r \in Req :
        /\ ActsAsAdmin(r) =>
             \E s \in Carried(arg[r]) : {<<"live", s>>, <<"admin", s>>} \subseteq seen[r]
        /\ ActsAsLocalUser(r) =>
             \E s \in Carried(arg[r]) : {<<"live", s>>, <<"enabled", s>>} \subseteq seen[r]

\* The request that takes the last enabled administrator away was not alone: at
\* some instant since it arrived their number was not one, so that a check made
\* at the moment of the write would have refused it and ensureNotLastAdmin, in
\* an earlier query, did not.  Without overlapping requests the rule of
\* FUNCTIONAL.md:240 therefore holds (user.go:221, :241, :277).
LastAdminOnlyByRace ==
    [][\A r \in Req :
         /\ pc[r] \in {"userWrite", "userDelete"} /\ pc'[r] # pc[r]
         /\ EnabledAdmins # {} /\ EnabledAdmins' = {}
         => NotSole \in seen[r]]_vars

\* The login states are the tickets of module LoginTicket: on SQLite a state
\* serves one callback, never a second, and none after its pool is deleted.
Tickets == INSTANCE LoginTicket WITH
    Ticket   <- State,
    issued   <- used \cap State,
    open     <- {t \in State : loginStates[t] # Nil},
    redeemed <- claims

ImplementsTickets == Tickets!TicketSpec

\* A callback past the SELECT of Take, with the pool of its state in loc.owner.
HoldsState(r) == arg[r] # Nil /\ arg[r].op = "Callback" /\ pc[r] # "take"

\* What is left of the tickets on PostgreSQL, where two callbacks may take one
\* state: all that do hold the same pool, the one in the row as long as it is
\* there, so no state ever gives sessions of two pools (auth.go:361-431).
OneStateOnePool ==
    \A r, q \in Req :
        HoldsState(r) =>
            LET t == arg[r].token
            IN  /\ loginStates[t] # Nil => loginStates[t].pool = loc[r].owner
                /\ HoldsState(q) /\ arg[q].token = t => loc[q].owner = loc[r].owner

-----------------------------------------------------------------------------
(* Statements of the documentation that concurrent requests break.         *)

\* "An administrator must not be able to delete or disable the last remaining
\* enabled admin local user" (FUNCTIONAL.md:240): once there is an enabled
\* administrator there always is one.
AdminKept == [][EnabledAdmins # {} => EnabledAdmins' # {}]_vars

\* Rule 3 of the bootstrap (FUNCTIONAL.md:225, TECHNICAL.md:530): a bootstrap
\* creates a user only while there is none.
BootstrapCreatesFirst ==
    [][\A r \in Req :
         arg[r] # Nil /\ arg[r].op = "Bootstrap" /\ used \cap User # used' \cap User
           /\ pc[r] = "userInsert" /\ pc'[r] # pc[r]
         => LiveUsers = {}]_vars

\* "Change another user's password or role: admin only" (FUNCTIONAL.md:238):
\* a change of the own password leaves role and enabled as they are.
PasswordChangeKeepsRole ==
    [][\A r \in Req :
         ActsAsLocalUser(r) /\ pc[r] = "userWrite" /\ pc'[r] = "idle"
         => LET u == loc[r].owner
            IN  u \in LiveUsers => users'[u] = [users[u] EXCEPT !.pw = users'[u].pw]]_vars

\* "Logout ends the kilhog session" (FUNCTIONAL.md:330): a logout answered with
\* success leaves no session behind.
LogoutEndsSession ==
    [][\A r \in Req :
         pc[r] = "logout" /\ pc'[r] = "idle" /\ reply'[r] = 200 /\ arg[r].token # Nil
         => sessions'[arg[r].token] = Nil]_vars

\* "Deleting or disabling a pool immediately stops new authentications through
\* that pool" (FUNCTIONAL.md:288): no session of a disabled pool is created.
DisabledPoolAuthenticatesNobody ==
    [][\A s \in Session :
         sessions[s] = Nil /\ sessions'[s] # Nil /\ sessions'[s].kind = "oidc"
         => sessions'[s].owner \in EnabledPools]_vars
=============================================================================
