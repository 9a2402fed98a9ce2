------------------------------ MODULE MCMachine ------------------------------
(* MachineIdentity for TLC: the requests of each run and the first tables. *)
EXTENDS MachineInvariant, TLC

CONSTANTS p1, p2, v1, v2, m1, m2, k1

Blank(op) == [op |-> op, pool |-> p1, provider |-> Nil, machine |-> Nil, key |-> Nil,
              name |-> Nil, slug |-> Nil, issuer |-> Nil, enabled |-> Nil,
              constraint |-> Nil]

OfPool(p, q) == [q EXCEPT !.pool = p]
NewPool(n) == [Blank("CreatePool") EXCEPT !.pool = Nil, !.name = n, !.slug = "b", !.enabled = TRUE]
EnablePool(p, e) == [Blank("UpdatePool") EXCEPT !.pool = p, !.enabled = e]
RenamePool(p, n) == [Blank("UpdatePool") EXCEPT !.pool = p, !.name = n]
DropPool(p) == [Blank("DeletePool") EXCEPT !.pool = p]
NewProvider(n) == [Blank("CreateProvider") EXCEPT !.name = n, !.issuer = "iss", !.enabled = TRUE]
EditProvider(v) == [Blank("UpdateProvider") EXCEPT !.provider = v, !.name = "b"]
DropProvider(v) == [Blank("DeleteProvider") EXCEPT !.provider = v]
NewMachine(v, c) == [Blank("CreateMachine") EXCEPT !.name = "b", !.provider = v,
                                                   !.constraint = c, !.enabled = TRUE]
EditMachine(m) == [Blank("UpdateMachine") EXCEPT !.machine = m]
Attach(m, v, c) == [EditMachine(m) EXCEPT !.provider = v, !.constraint = c]
EnableMachine(m, e) == [EditMachine(m) EXCEPT !.enabled = e]
DropMachine(m) == [Blank("DeleteMachine") EXCEPT !.machine = m]
NewKey(m) == [Blank("CreateKey") EXCEPT !.machine = m]
Revoke(m, k) == [Blank("RevokeKey") EXCEPT !.machine = m, !.key = k]
WithKey(k) == [Blank("AuthKey") EXCEPT !.pool = Nil, !.key = k]
WithToken(c) == [Blank("AuthJwt") EXCEPT !.pool = Nil, !.issuer = "iss", !.constraint = c]

ARow(n) == [name |-> n, slug |-> n, enabled |-> TRUE]
ProviderOf(p) == [pool |-> p, name |-> "a", issuer |-> "iss", enabled |-> TRUE]
MachineOf(p, v, e) == [pool |-> p, name |-> "a", enabled |-> e, provider |-> v,
                       constraint |-> "sub"]

\* A function on S that is f on its domain and Nil elsewhere.
Filled(S, f) == [x \in S |-> IF x \in DOMAIN f THEN f[x] ELSE Nil]

\* The tables with these rows, and fresh the only uuids still to be given out.
Tables(ps, vs, ms, ks, fresh) ==
    [pools |-> Filled(Pool, ps), providers |-> Filled(Provider, vs),
     machines |-> Filled(Machine, ms), keys |-> Filled(Key, ks),
     gone |-> (Pool \cup Provider \cup Machine \cup Key) \ fresh]

OnePool     == p1 :> ARow("a")
TwoPools    == p1 :> ARow("a") @@ p2 :> ARow("b")
OneProvider == v1 :> ProviderOf(p1)
OneMachine  == m1 :> MachineOf(p1, v1, TRUE)
OneKey      == k1 :> [machine |-> m1, revoked |-> FALSE]

FreshProviders == Provider \ {v1}

\* A token of subject "sub" meets "sub" and no constraint at all.
AcceptsExactly == [c \in Constraint |-> IF c = Anything THEN Constraint ELSE {c}]

-----------------------------------------------------------------------------
(* Scenarios: what is in the tables, and what the clients send.            *)

\* Two administrators at work below the same pools.
AdminScenario ==
    [seed |-> Tables(TwoPools, OneProvider, OneMachine, OneKey,
                     FreshProviders \cup (Machine \ {m1})),
     traffic |-> {NewProvider("a"), NewProvider("b"), EditProvider(v1), DropProvider(v1),
                  DropPool(p1), NewMachine(v1, "sub"), OfPool(p2, NewMachine(v1, "sub")),
                  Attach(m1, "clear", Nil), Attach(m1, v1, Anything)}]

\* The pools themselves, and the keys of a machine.
PoolScenario ==
    [seed |-> Tables(OnePool, OneProvider, OneMachine, OneKey,
                     (Pool \ {p1}) \cup (Key \ {k1})),
     traffic |-> {NewPool("b"), NewPool("c"), NewPool(""), RenamePool(p1, "b"),
                  RenamePool(p1, ""), EnablePool(p1, FALSE), DropPool(p1), NewKey(m1),
                  Revoke(m1, k1), DropMachine(m1)}]

\* One administrator's changes under running authentications.
AuthScenario ==
    [seed |-> Tables(OnePool, OneProvider, OneMachine, OneKey, {}),
     traffic |-> {EnablePool(p1, FALSE), EnablePool(p1, TRUE), EnableMachine(m1, FALSE),
                  Revoke(m1, k1), DropMachine(m1), WithKey(k1), WithToken("sub"),
                  WithToken("other")}]

\* Two machines of two pools whose constraints meet the same tokens.
TwinScenario ==
    [seed |-> Tables(TwoPools, OneProvider @@ v2 :> ProviderOf(p2),
                     m1 :> MachineOf(p1, v1, FALSE) @@ m2 :> MachineOf(p2, v2, FALSE),
                     <<>>, {}),
     traffic |-> {EnableMachine(m1, TRUE), OfPool(p2, EnableMachine(m2, TRUE)),
                  WithToken("sub")}]

Scenario == [admin |-> AdminScenario, pools |-> PoolScenario,
             auth |-> AuthScenario, twins |-> TwinScenario]

ScenarioSeeds == {Scenario[x].seed : x \in DOMAIN Scenario}
ScenarioRequests == UNION {Scenario[x].traffic : x \in DOMAIN Scenario}

VARIABLE scenario   \* the scenario that this behaviour follows

MCInit == \E x \in DOMAIN Scenario : InitFrom(Scenario[x].seed) /\ scenario = x
MCNext == /\ Next
          /\ \A r \in Req : pc[r] = "idle" /\ pc'[r] # "idle" =>
               arg'[r] \in Scenario[scenario].traffic
          /\ UNCHANGED scenario
MCSpec == MCInit /\ [][MCNext]_<<vars, scenario>>

Symmetry == Permutations(Req)
=============================================================================
