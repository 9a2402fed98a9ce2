---------------------------- MODULE IdentityStore ---------------------------
(***************************************************************************)
(* The tables of local users, sessions, identity pools and OIDC login      *)
(* states as UserRepository, SessionRepository, IdentityPoolRepository and *)
(* OIDCLoginStateRepository (internal/repository) see them: one write      *)
(* transaction of one statement each, so a write is one step, together     *)
(* with the unique indexes and the foreign keys of the schema.             *)
(***************************************************************************)
EXTENDS Naturals, FiniteSets

CONSTANTS
    Dialect,        \* "sqlite" or "postgres"
    Req,            \* the request goroutines of the server(s)
    User, Session, Pool, State, \* uuids, session tokens, login states
    Name,           \* user and pool names, slugs and issuers; "" is invalid
    Password,
    Nil             \* no row, no value

ASSUME DialectAssumption == Dialect \in {"sqlite", "postgres"}
ASSUME IdAssumption ==
    /\ User \cap (Session \cup Pool \cup State) = {}
    /\ Session \cap (Pool \cup State) = {} /\ Pool \cap State = {}

Id   == User \cup Session \cup Pool \cup State
Role == {"admin", "user"}

UserRow == [name : Name, pw : Password, role : Role, enabled : BOOLEAN]
PoolRow == [name : Name, slug : Name, issuer : Name, enabled : BOOLEAN]

\* Sessions: kind is principal_kind, owner the user or pool the row refers to.
SessionRow == [kind : {"local_user", "oidc"}, owner : User \cup Pool \cup {Nil}]
LoginStateRow == [pool : Pool]

ASSUME NilAssumption ==
    /\ Nil \notin Id /\ Nil \notin Name /\ Nil \notin Password
    /\ Nil \notin UserRow /\ Nil \notin PoolRow
    /\ Nil \notin SessionRow /\ Nil \notin LoginStateRow

VARIABLES
    users, sessions, pools, loginStates,    \* the tables: rows or Nil
    used,           \* ids ever given out: uuid.New and the tokens never repeat
    expired         \* tokens and login states whose expires_at has passed

rows   == <<users, sessions, pools, loginStates>>
tables == <<users, sessions, pools, loginStates, used>>

StoreTypeOK ==
    /\ users \in [User -> UserRow \cup {Nil}]
    /\ sessions \in [Session -> SessionRow \cup {Nil}]
    /\ pools \in [Pool -> PoolRow \cup {Nil}]
    /\ loginStates \in [State -> LoginStateRow \cup {Nil}]
    /\ used \in SUBSET Id
    /\ expired \in SUBSET (Session \cup State)

-----------------------------------------------------------------------------
(* Queries.                                                                *)

LiveUsers == {u \in User : users[u] # Nil}
LivePools == {p \in Pool : pools[p] # Nil}

\* WHERE lower(username) = lower(...): names are lower case in this model.
UsersNamed(name) == {u \in LiveUsers : users[u].name = name}

IsEnabledAdmin(row) == row # Nil /\ row.role = "admin" /\ row.enabled

EnabledAdmins == {u \in User : IsEnabledAdmin(users[u])}

EnabledPools == {p \in LivePools : pools[p].enabled}

PoolsWith(field, value) == {p \in LivePools : pools[p][field] = value}

-----------------------------------------------------------------------------
(* Writes.  Each is enabled exactly when the statement succeeds.           *)

\* Mutant: username declared NOT NULL without UNIQUE.
UsernameFree_noIndex(u, name) == TRUE

\* The unique index on the username admits name for row u.
UsernameFree(u, name) == UsersNamed(name) \subseteq {u}

\* The UNIQUE columns of oidc_identity_pools.
PoolKeysFree(p, row) ==
    \A f \in {"name", "slug", "issuer"} : PoolsWith(f, row[f]) \subseteq {p}

WriteUser(u, row) ==
    /\ UsernameFree(u, row.name)
    /\ users' = [users EXCEPT ![u] = row]
    /\ used' = used \cup {u}
    /\ UNCHANGED <<sessions, pools, loginStates>>

\* Mutant: sessions.local_user_uuid without ON DELETE CASCADE.
RemoveUser_noCascade(u) ==
    /\ users' = [users EXCEPT ![u] = Nil]
    /\ UNCHANGED <<sessions, pools, loginStates, used>>

\* sessions.local_user_uuid is ON DELETE CASCADE.
RemoveUser(u) ==
    /\ users' = [users EXCEPT ![u] = Nil]
    /\ sessions' = [s \in Session |->
           IF sessions[s] # Nil /\ sessions[s].owner = u THEN Nil ELSE sessions[s]]
    /\ UNCHANGED <<pools, loginStates, used>>

\* The foreign key: the owner still has a row.
OwnerExists(x) == IF x \in User THEN users[x] # Nil ELSE pools[x] # Nil

AddSession(s, kind, x) ==
    /\ OwnerExists(x)
    /\ sessions' = [sessions EXCEPT ![s] = [kind |-> kind, owner |-> x]]
    /\ used' = used \cup {s}
    /\ UNCHANGED <<users, pools, loginStates>>

RemoveSession(s) ==
    /\ sessions' = [sessions EXCEPT ![s] = Nil]
    /\ UNCHANGED <<users, pools, loginStates, used>>

WritePool(p, row) ==
    /\ PoolKeysFree(p, row)
    /\ pools' = [pools EXCEPT ![p] = row]
    /\ used' = used \cup {p}
    /\ UNCHANGED <<users, sessions, loginStates>>

\* sessions.identity_pool_uuid is ON DELETE SET NULL, oidc_login_states.pool_uuid
\* ON DELETE CASCADE.
RemovePool(p) ==
    /\ pools' = [pools EXCEPT ![p] = Nil]
    /\ sessions' = [s \in Session |->
           IF sessions[s] # Nil /\ sessions[s].owner = p
           THEN [sessions[s] EXCEPT !.owner = Nil] ELSE sessions[s]]
    /\ loginStates' = [t \in State |->
           IF loginStates[t] # Nil /\ loginStates[t].pool = p THEN Nil
           ELSE loginStates[t]]
    /\ UNCHANGED <<users, used>>

AddLoginState(t, p) ==
    /\ pools[p] # Nil
    /\ loginStates' = [loginStates EXCEPT ![t] = [pool |-> p]]
    /\ used' = used \cup {t}
    /\ UNCHANGED <<users, sessions, pools>>

RemoveLoginState(t) ==
    /\ loginStates' = [loginStates EXCEPT ![t] = Nil]
    /\ UNCHANGED <<users, sessions, pools, used>>
=============================================================================
