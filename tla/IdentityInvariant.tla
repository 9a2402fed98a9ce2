-------------------------- MODULE IdentityInvariant -------------------------
(***************************************************************************)
(* The inductive invariant of Identity, in named parts.  The run checks it *)
(* on a small instance; IdentityProofs proves it.                          *)
(***************************************************************************)
EXTENDS Identity

Label == {"idle"} \cup AuthPC \cup UserPC \cup LoginPC \cup PoolPC \cup OidcPC

Status == {200, 201, 400, 401, 403, 404, 409, 500}

\* What the label l of a request says of its arguments q and its locals x.
ControlAt(l, q, x) ==
    /\ l \in AuthPC => q.op \in AdminOps \cup {"Me", "ChangePassword"}
    /\ l \in {"session", "principal", "dropSession"} => x.session \in Carried(q)
    /\ l \in {"principal", "pwRead"} => x.principal \in User
    /\ l = "bootCount" => q.op = "Bootstrap"
    /\ l \in {"userName", "userInsert"} => q.op \in {"Bootstrap", "CreateUser"}
    /\ l \in {"userRead", "userRename"} => q.op = "UpdateUser"
    /\ l \in {"userDelRead", "userDelete"} => q.op = "DeleteUser"
    /\ l = "adminCount" => q.op \in {"UpdateUser", "DeleteUser"}
    /\ l \in {"userRename", "adminCount", "userWrite", "userDelete"} => x.owner \in User
    /\ l \in {"userRename", "userWrite"} \/ (l = "adminCount" /\ q.op = "UpdateUser")
         => x.row \in UserRow
    /\ l = "pwRead" => q.op = "ChangePassword"
    /\ l = "logout" => q.op = "Logout"
    /\ l = "sessionInsert" => x.owner \in User \cup Pool
    /\ l \in {"poolRead", "poolSlug", "poolIssuer", "poolNames", "poolWrite"}
         => q.op \in {"CreatePool", "UpdatePool"}
    /\ l \in {"poolSlug", "poolIssuer", "poolNames", "poolWrite"}
         => x.row \in PoolRow /\ x.owner \in Pool \cup {Nil}
    /\ l = "poolDelete" => q.op = "DeletePool"
    /\ l \in {"take", "takeDelete"} => q.op = "Callback"
    /\ l \in {"discover", "stateInsert", "takeDelete", "poolCheck", "exchange"}
         => x.owner \in Pool
    /\ l = "takeDelete" => Dialect = "postgres"

ControlInv == \A r \in Req : ControlAt(pc[r], arg[r], loc[r])

\* A token with a session has been given out, and a local user's session has
\* the user it was issued to.
SessionsIssued ==
    \A s \in Session : sessions[s] # Nil =>
        /\ s \in used
        /\ sessions[s].kind = "local_user" => issuedTo[s] = sessions[s].owner

\* What holds now has been seen.
SeenAt(r) ==
    /\ pc[r] = "idle" => seen[r] = {}
    /\ pc[r] # "idle" => Facts(r) \subseteq seen[r]

\* Between session and user row: the session was live, and the principal is
\* the user it was issued to, for good.
PrincipalAt(r) ==
    pc[r] = "principal" =>
        /\ <<"live", loc[r].session>> \in seen[r]
        /\ loc[r].session \in used
        /\ issuedTo[loc[r].session] = loc[r].principal

\* The requests that are about to take a right of administrator away, or to
\* write a row that has none.
Demotes(r) ==
    \/ pc[r] = "userDelete"
    \/ pc[r] = "userWrite" /\ ~IsEnabledAdmin(loc[r].row)
    \/ pc[r] = "userRename" /\ ~loc[r].flag /\ ~IsEnabledAdmin(loc[r].row)

\* Unless the number of enabled administrators has been other than one, the
\* one that there is is not the user such a request is about.
DemotionAt(r) ==
    Demotes(r) => NotSole \in seen[r] \/ EnabledAdmins # {loc[r].owner}

Knows(r) == SeenAt(r) /\ PrincipalAt(r) /\ DemotionAt(r)

\* Every part, with the properties it is there for.
IdentityInv ==
    /\ TypeOK /\ ControlInv
    /\ RowsOwned /\ UsernamesUnique /\ PoolKeysUnique
    /\ SessionsIssued
    /\ \A r \in Req : Knows(r)
    /\ RightsWereHeld
=============================================================================
