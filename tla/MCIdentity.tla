----------------------------- MODULE MCIdentity -----------------------------
(* Identity for TLC: tables at the start and requests, scenario by scenario. *)
EXTENDS IdentityInvariant, TLC

CONSTANTS u1, u2, s1, s2, p1, Scenarios

Blank(op) == [op |-> op, token |-> Nil, cookie |-> Nil, jwt |-> Nil,
              id |-> Nil, name |-> Nil, slug |-> Nil,
              issuer |-> Nil, pw |-> Nil, old |-> Nil, role |-> Nil,
              enabled |-> Nil, valid |-> TRUE]

As(s, q) == [q EXCEPT !.token = s]

Bootstraps == {[Blank("Bootstrap") EXCEPT !.name = n, !.pw = "old", !.valid = v] :
                 n \in {"a", "b"}, v \in BOOLEAN}
LoginReq(n, pw) == [Blank("Login") EXCEPT !.name = n, !.pw = pw]
LogoutReq(s) == As(s, Blank("Logout"))
Me(s) == As(s, Blank("Me"))
CreateUser(n) == [Blank("CreateUser") EXCEPT !.name = n, !.pw = "old",
                                             !.role = "user", !.enabled = TRUE]
UpdateUser(u) == [Blank("UpdateUser") EXCEPT !.id = u]
Demote(u)  == [UpdateUser(u) EXCEPT !.role = "user"]
Enable(u, e) == [UpdateUser(u) EXCEPT !.enabled = e]
Rename(u, n) == [UpdateUser(u) EXCEPT !.name = n]
DeleteUserReq(u) == [Blank("DeleteUser") EXCEPT !.id = u]
NewPassword == [Blank("ChangePassword") EXCEPT !.old = "old", !.pw = "new"]
CreatePoolReq(n) == [Blank("CreatePool") EXCEPT !.name = n, !.slug = "b",
                                             !.issuer = "b", !.enabled = TRUE]
UpdatePool(p) == [Blank("UpdatePool") EXCEPT !.id = p]
DisablePool(p) == [UpdatePool(p) EXCEPT !.enabled = FALSE]
DeletePoolReq(p) == [Blank("DeletePool") EXCEPT !.id = p]
StartReq(slug) == [Blank("StartLogin") EXCEPT !.slug = slug]
CallbackReq(t) == As(t, Blank("Callback"))
BearerReq(issuer) == [Blank("Me") EXCEPT !.jwt = issuer]

\* The same request with a session cookie besides its Authorization header.
WithCookie(s, q) == [q EXCEPT !.cookie = s]

\* u1 is an administrator, u2 has the given role; one enabled pool.
UserOf(name, role) == [name |-> name, pw |-> "old", role |-> role, enabled |-> TRUE]
PoolA == [name |-> "a", slug |-> "a", issuer |-> "a", enabled |-> TRUE]
LocalSession(u) == [kind |-> "local_user", owner |-> u]

\* A function on S that is f on its domain and Nil elsewhere.
Filled(S, f) == [x \in S |-> IF x \in DOMAIN f THEN f[x] ELSE Nil]

\* The tables with these rows, and fresh the only ids still to be given out.
Tables(us, ss, ps, fresh) ==
    [users |-> Filled(User, us), sessions |-> Filled(Session, ss),
     pools |-> Filled(Pool, ps), gone |-> Id \ fresh]

AdminAndUser == u1 :> UserOf("a", "admin") @@ u2 :> UserOf("b", "user")
TwoAdmins    == u1 :> UserOf("a", "admin") @@ u2 :> UserOf("b", "admin")
OneAdmin     == u1 :> UserOf("a", "admin")
TwoSessions  == s1 :> LocalSession(u1) @@ s2 :> LocalSession(u2)
OneSession   == s1 :> LocalSession(u1)
OnePool      == p1 :> PoolA

FreshUsers    == User \ {u1, u2}
FreshSessions == Session \ {s1, s2}
FreshPools    == Pool \ {p1}

FoldCase == [n \in Name |-> IF n = "B" THEN "b" ELSE n]

-----------------------------------------------------------------------------
(* Scenarios: what is in the tables, and what the clients send.            *)

\* An administrator and a user at work on the same accounts; the only
\* administrator tries to delete the own one.
AccountScenario ==
    [seed |-> Tables(AdminAndUser, TwoSessions, <<>>, FreshUsers),
     traffic |-> {As(s1, q) : q \in {CreateUser("c"), DeleteUserReq(u1), DeleteUserReq(u2),
                                     Rename(u1, "c")}}
                 \cup {As(s2, NewPassword)}]

\* Two administrators who change each other.
AdminScenario ==
    [seed |-> Tables(TwoAdmins, TwoSessions, <<>>, {}),
     traffic |-> {As(s1, Demote(u2)), WithCookie(s1, As(s2, Enable(u1, FALSE))),
                  As(s2, NewPassword)}]

\* The empty server.
BootstrapScenario ==
    [seed |-> Tables(<<>>, <<>>, <<>>, {u1, u2} \cup FreshSessions),
     traffic |-> Bootstraps \cup {LoginReq("a", "old")}
                 \cup {As(s, q) : s \in FreshSessions, q \in {CreateUser(""), Demote(u1)}}]

\* Logins of a user who is being disabled and deleted.
LoginScenario ==
    [seed |-> Tables(TwoAdmins, OneSession, <<>>, FreshSessions),
     traffic |-> {As(s1, DeleteUserReq(u2)), As(s1, Enable(u2, FALSE)),
                  LoginReq("b", "old")}
                 \cup {LogoutReq(s) : s \in FreshSessions}]

\* The administration of the pools, on two connections.
PoolScenario ==
    [seed |-> Tables(OneAdmin, OneSession, OnePool, FreshPools),
     traffic |-> {As(s1, q) : q \in {CreatePoolReq("B"), CreatePoolReq("b"), DeletePoolReq(p1),
                                     [UpdatePool(p1) EXCEPT !.name = "b"],
                                     [UpdatePool(p1) EXCEPT !.issuer = "b"]}}
                 \cup {WithCookie(s1, BearerReq("a")), Me(s1)}]

\* Logins through one pool while it is disabled and deleted.
OidcScenario ==
    [seed |-> Tables(OneAdmin, OneSession, OnePool, FreshSessions \cup State),
     traffic |-> {As(s1, DisablePool(p1)), As(s1, DeletePoolReq(p1)), StartReq("a")}
                 \cup {CallbackReq(t) : t \in State}]

\* Scenarios in the cfg names those a run goes through.
Scenario ==
    [accounts |-> AccountScenario, admins |-> AdminScenario,
     bootstrap |-> BootstrapScenario, logins |-> LoginScenario,
     pools |-> PoolScenario, oidc |-> OidcScenario]

ScenarioSeeds == {Scenario[x].seed : x \in Scenarios}
ScenarioRequests == UNION {Scenario[x].traffic : x \in Scenarios}

VARIABLE scenario   \* the scenario that this behaviour follows

MCInit == \E x \in Scenarios : InitFrom(Scenario[x].seed) /\ scenario = x
MCNext == /\ Next
          /\ \A r \in Req : pc[r] = "idle" /\ pc'[r] # "idle" =>
               arg'[r] \in Scenario[scenario].traffic
          /\ UNCHANGED scenario
MCSpec == MCInit /\ [][MCNext]_<<vars, scenario>>

Symmetry == Permutations(Req) \cup Permutations(FreshSessions) \cup Permutations(State)
=============================================================================
