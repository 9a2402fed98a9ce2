------------------------------ MODULE OidcLogin -----------------------------
(***************************************************************************)
(* The interactive OIDC flow of AuthService: StartOIDCLogin stores a login *)
(* state and sends the browser to the issuer; the callback takes the state *)
(* out of the table, checks the pool again, exchanges the code and creates *)
(* a session.  Discovery and exchange are calls to the issuer: they        *)
(* succeed or fail.  KILHOG_PUBLIC_URL is set.                             *)
(***************************************************************************)
EXTENDS IdentityPools

VARIABLE claims     \* history: [State -> how many callbacks Take has served]

FindPool(r) ==
    LET matching == PoolsWith("slug", arg[r].slug)
    IN  /\ pc[r] = "poolBySlug"
        /\ UNCHANGED claims
        /\ IF matching = {} THEN Refuse(r, 404)
           ELSE \E p \in matching :
                  IF ~pools[p].enabled THEN Refuse(r, 401)
                  ELSE Proceed(r, "discover", [loc[r] EXCEPT !.owner = p])

\* providerFor: the cached provider, or discovery at the issuer.
Discover(r) ==
    /\ pc[r] = "discover"
    /\ UNCHANGED claims
    /\ \/ Refuse(r, 401)
       \/ Proceed(r, IF arg[r].op = "StartLogin" THEN "stateInsert" ELSE "exchange",
                  loc[r])

InsertLoginState(r) ==
    /\ pc[r] = "stateInsert"
    /\ UNCHANGED claims
    /\ IF pools[loc[r].owner] = Nil THEN Refuse(r, 500)
       ELSE /\ \E t \in State \ used : AddLoginState(t, loc[r].owner)
            /\ Answer(r, 200)

\* Take's SELECT.  In one transaction under writeMu on SQLite nothing comes
\* between it and the DELETE; on PostgreSQL it takes no row lock.
SelectLoginState(r) ==
    LET row == loginStates[arg[r].token]
    IN  /\ pc[r] = "take"
        /\ UNCHANGED claims
        /\ \/ Dialect = "postgres" \/ row = Nil
        /\ IF row = Nil THEN Refuse(r, 401)
           ELSE Proceed(r, "takeDelete", [loc[r] EXCEPT !.owner = row.pool])

\* Mutant: the state is left in the table for a retry of the callback.
TakeLoginState_kept(r) ==
    LET t == arg[r].token
        row == loginStates[t]
    IN  /\ pc[r] \in {"take", "takeDelete"}
        /\ pc[r] = "take" => Dialect = "sqlite" /\ row # Nil
        /\ UNCHANGED tables
        /\ claims' = [claims EXCEPT ![t] = @ + 1]
        /\ IF t \in expired THEN Answer(r, 401)
           ELSE /\ Goto(r, "poolCheck")
                /\ loc' = [loc EXCEPT ![r].owner = row.pool]

\* Take's DELETE, with the SELECT in the same step on SQLite; the number of
\* rows it deletes is not looked at.  Then the expiry of the row in hand.
TakeLoginState(r) ==
    LET t == arg[r].token
        p == IF pc[r] = "take" THEN loginStates[t].pool ELSE loc[r].owner
    IN  /\ pc[r] \in {"take", "takeDelete"}
        /\ pc[r] = "take" => Dialect = "sqlite" /\ loginStates[t] # Nil
        /\ RemoveLoginState(t)
        /\ claims' = [claims EXCEPT ![t] = @ + 1]
        /\ IF t \in expired THEN Answer(r, 401)
           ELSE /\ Goto(r, "poolCheck")
                /\ loc' = [loc EXCEPT ![r].owner = p]

CheckPool(r) ==
    LET p == loc[r].owner
    IN  /\ pc[r] = "poolCheck"
        /\ UNCHANGED claims
        /\ IF pools[p] = Nil THEN Refuse(r, 404)
           ELSE IF ~pools[p].enabled THEN Refuse(r, 401)
           ELSE Proceed(r, "discover", loc[r])

\* The code exchange and the checks of the id_token and its nonce.
Exchange(r) ==
    /\ pc[r] = "exchange"
    /\ UNCHANGED claims
    /\ Refuse(r, 401) \/ Proceed(r, "sessionInsert", loc[r])

OidcStep(r) ==
    \/ FindPool(r) \/ Discover(r) \/ InsertLoginState(r)
    \/ SelectLoginState(r) \/ TakeLoginState(r) \/ CheckPool(r) \/ Exchange(r)
=============================================================================
