----------------------------- MODULE MachineAuth -----------------------------
(***************************************************************************)
(* The authentication of machines (internal/service/machine_auth.go): an   *)
(* API key is looked up, then its machine, then the pool; a JWT is tried   *)
(* against every provider of its issuer, and exactly one machine must      *)
(* match.  Nothing holds these reads together.                             *)
(***************************************************************************)
EXTENDS Machines

CONSTANT Accepts    \* [Constraint -> the tokens that satisfy it]; a token is
                    \* named by the constraint of its AuthJwt request

ASSUME AcceptsAssumption ==
    /\ Accepts \in [Constraint -> SUBSET Constraint]
    /\ Accepts[Anything] = Constraint

ValidKeys == {k \in LiveKeys : ~keys[k].revoked} \ expired

LookupKey(r) ==
    LET k == arg[r].key
    IN  /\ pc[r] = "keyLookup"
        /\ IF k \notin ValidKeys THEN Refuse(r, 401)
           ELSE Proceed(r, "keyMachine", [loc[r] EXCEPT !.id = keys[k].machine])

LoadMachine(r) ==
    LET row == machines[loc[r].id]
    IN  /\ pc[r] = "keyMachine"
        /\ IF row = Nil THEN Refuse(r, 401)
           ELSE IF ~row.enabled THEN Refuse(r, 401)
           ELSE Proceed(r, "keyPool", [loc[r] EXCEPT !.row = row])

\* Mutant: a disabled pool is no obstacle.
LoadPool_anyPool(r) ==
    /\ pc[r] = "keyPool"
    /\ IF loc[r].row.pool \notin LivePools THEN Refuse(r, 401)
       ELSE Proceed(r, "keyTouch", loc[r])

LoadPool(r) ==
    LET row == pools[loc[r].row.pool]
    IN  /\ pc[r] = "keyPool"
        /\ IF row = Nil THEN Refuse(r, 401)
           ELSE IF ~row.enabled THEN Refuse(r, 401)
           ELSE Proceed(r, "keyTouch", loc[r])

\* Mutant: the key is written back as it was read.
TouchKey_wholeRow(r) ==
    LET k == arg[r].key
    IN  /\ pc[r] = "keyTouch"
        /\ keys' = [keys EXCEPT ![k] = IF @ = Nil THEN Nil ELSE [@ EXCEPT !.revoked = FALSE]]
        /\ UNCHANGED <<pools, providers, machines, used>>
        /\ Answer(r, loc[r].id)

\* TouchLastUsed writes one column, which nothing depends on.
TouchKey(r) ==
    /\ pc[r] = "keyTouch"
    /\ Refuse(r, loc[r].id)

-----------------------------------------------------------------------------
\* ListEnabledByIssuer.
TrustedProviders(issuer) ==
    {v \in LiveProviders : /\ providers[v].issuer = issuer /\ providers[v].enabled
                           /\ pools[providers[v].pool].enabled}

\* ListEnabledByProvider.
MachinesOf(v) ==
    {m \in LiveMachines : /\ machines[m].provider = v /\ machines[m].enabled
                          /\ pools[machines[m].pool].enabled}

\* machineMatchesJWT.
Matching(v, token) == {m \in MachinesOf(v) : token \in Accepts[machines[m].constraint]}

ListProviders(r) ==
    LET found == TrustedProviders(arg[r].issuer)
    IN  /\ pc[r] = "jwtProviders"
        /\ IF found = {} THEN Refuse(r, 401)
           ELSE Proceed(r, "jwtVerify", [loc[r] EXCEPT !.rest = found])

\* After the loop: exactly one machine.
Decide(r, matches) ==
    IF Cardinality(matches) = 1 THEN \E m \in matches : Refuse(r, m)
    ELSE Refuse(r, 401)

\* The token verifies with the keys of provider v (module Jwks) or it does not.
\* The providers come in the order of their names, which is any order.
VerifyToken(r) ==
    /\ pc[r] = "jwtVerify"
    /\ \E v \in loc[r].rest :
         LET rest == loc[r].rest \ {v}
         IN  \/ IF rest = {} THEN Decide(r, loc[r].matches)
                ELSE Proceed(r, "jwtVerify", [loc[r] EXCEPT !.rest = rest])
             \/ Proceed(r, "jwtMachines", [loc[r] EXCEPT !.rest = rest, !.id = v])

ListMachines(r) ==
    LET matches == loc[r].matches \cup Matching(loc[r].id, arg[r].constraint)
    IN  /\ pc[r] = "jwtMachines"
        /\ IF loc[r].rest = {} THEN Decide(r, matches)
           ELSE Proceed(r, "jwtVerify", [loc[r] EXCEPT !.matches = matches])

AuthStep(r) ==
    \/ LookupKey(r) \/ LoadMachine(r) \/ LoadPool(r) \/ TouchKey(r)
    \/ ListProviders(r) \/ VerifyToken(r) \/ ListMachines(r)
=============================================================================
