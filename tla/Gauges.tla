-------------------------------- MODULE Gauges ------------------------------
(***************************************************************************)
(* The gauges kilhog.networks and kilhog.subnets (internal/metrics): every *)
(* server process keeps the two totals of the shared database in memory,   *)
(* seeds them at startup, adds or subtracts one after each create or       *)
(* delete it has committed itself, and, when the background loop is on,    *)
(* overwrites them from row-count queries from time to time.               *)
(***************************************************************************)
EXTENDS Integers

CONSTANTS
    Server,         \* server processes
    Deployments     \* [servers, loop, maxOps]: the processes on the database,
                    \* KILHOG_METRICS_REFRESH_INTERVAL is neither "0" nor "off",
                    \* bound: commits and crashes

ASSUME GaugesAssumption ==
    Deployments \subseteq [servers : SUBSET Server, loop : BOOLEAN, maxOps : Nat]

Kind == {"network", "subnet"}
None == [k \in Kind |-> 0]

VARIABLES
    deployment,     \* one of Deployments, for good
    rows,           \* [Kind -> the committed rows]
    gauge,          \* [Server -> [Kind -> the tracker's value]]
    created,        \* [Server -> [Kind -> creates committed, not yet tracked]]
    deleted,        \* [Server -> [Kind -> deletes committed, not yet tracked]]
    serving,        \* the servers that have started
    phase, counts,  \* [Server -> where Refresh is, and what it has counted]
    ops             \* commits and crashes so far

hooks      == <<created, deleted>>
refreshes  == <<phase, counts>>
system     == <<rows, gauge, hooks, serving, refreshes, ops>>
gaugesVars == <<deployment, system>>

Waits == IF deployment.loop THEN "waiting" ELSE "off"

GaugesInit ==
    /\ deployment \in Deployments
    /\ rows \in {[k \in Kind |-> IF k = "network" THEN n ELSE m] :
                   n \in 0..1, m \in 0..1}
    /\ rows["network"] = 0 => rows["subnet"] = 0
    /\ gauge = [s \in Server |-> None]
    /\ created = [s \in Server |-> None]
    /\ deleted = [s \in Server |-> None]
    /\ serving = {}
    /\ phase = [s \in Server |->
                IF s \in deployment.servers THEN "countNetworks" ELSE "off"]
    /\ counts = [s \in Server |-> None]
    /\ ops = 0

-----------------------------------------------------------------------------
(* Handlers.                                                               *)

Add(f, s, k, n) == [f EXCEPT ![s][k] = @ + n]

Spend(s) == s \in serving /\ ops < deployment.maxOps /\ ops' = ops + 1

\* NetworkService.Create or SubnetService.Create: the commit.
CommitCreate(s, k) ==
    /\ Spend(s)
    /\ k = "subnet" => rows["network"] > 0
    /\ rows' = [rows EXCEPT ![k] = @ + 1]
    /\ created' = Add(created, s, k, 1)
    /\ UNCHANGED <<gauge, deleted, serving, refreshes>>

\* The commit of a delete.  A network takes along the subnets that were
\* created between the check for children and the DELETE (see Networks).
CommitDelete(s, k, cascaded) ==
    /\ Spend(s)
    /\ rows[k] > 0 /\ cascaded \in 0..rows["subnet"]
    /\ k = "subnet" => cascaded = 0
    /\ rows' = [x \in Kind |-> IF x = k THEN rows[k] - 1
                               ELSE IF x = "subnet" THEN rows[x] - cascaded
                               ELSE rows[x]]
    /\ rows'["network"] = 0 => rows'["subnet"] = 0
    /\ deleted' = Add(deleted, s, k, 1)
    /\ UNCHANGED <<gauge, created, serving, refreshes>>

\* NetworkCreated, SubnetCreated.
TrackCreated(s, k) ==
    /\ created[s][k] > 0
    /\ created' = Add(created, s, k, -1)
    /\ gauge' = Add(gauge, s, k, 1)
    /\ UNCHANGED <<rows, deleted, serving, refreshes, ops>>

\* Mutant: the hook counts the operation and leaves the gauge alone.
TrackDeleted_opsOnly(s, k) ==
    /\ deleted[s][k] > 0
    /\ deleted' = Add(deleted, s, k, -1)
    /\ UNCHANGED <<rows, gauge, created, serving, refreshes, ops>>

\* NetworkDeleted, SubnetDeleted.
TrackDeleted(s, k) ==
    /\ deleted[s][k] > 0
    /\ deleted' = Add(deleted, s, k, -1)
    /\ gauge' = Add(gauge, s, k, -1)
    /\ UNCHANGED <<rows, created, serving, refreshes, ops>>

-----------------------------------------------------------------------------
(* Refresh, at startup and on every tick of the loop.                      *)

Goto(s, l) == phase' = [phase EXCEPT ![s] = l]

TickerFires(s) ==
    /\ phase[s] = "waiting"
    /\ Goto(s, "countNetworks")
    /\ UNCHANGED <<rows, gauge, hooks, serving, counts, ops>>

CountStep(s, here, k, next) ==
    /\ phase[s] = here
    /\ counts' = [counts EXCEPT ![s][k] = rows[k]]
    /\ Goto(s, next)
    /\ UNCHANGED <<rows, gauge, hooks, serving, ops>>

CountNetworks(s) == CountStep(s, "countNetworks", "network", "countSubnets")
CountSubnets(s)  == CountStep(s, "countSubnets", "subnet", "seedNetworks")

\* Mutant: main drops the error and serves with what it has.
CountFails_dropped(s) ==
    /\ phase[s] \in {"countNetworks", "countSubnets"}
    /\ Goto(s, "seedNetworks")
    /\ UNCHANGED <<rows, gauge, hooks, serving, counts, ops>>

\* A query fails: the loop logs and goes on, main exits and is started again.
CountFails(s) ==
    /\ phase[s] \in {"countNetworks", "countSubnets"}
    /\ Goto(s, IF s \in serving THEN "waiting" ELSE "countNetworks")
    /\ counts' = [counts EXCEPT ![s] = None]
    /\ UNCHANGED <<rows, gauge, hooks, serving, ops>>

\* Seed is two atomic stores; what the handlers did meanwhile is overwritten.
SeedNetworks(s) ==
    /\ phase[s] = "seedNetworks"
    /\ gauge' = [gauge EXCEPT ![s]["network"] = counts[s]["network"]]
    /\ Goto(s, "seedSubnets")
    /\ UNCHANGED <<rows, hooks, serving, counts, ops>>

\* Mutant: Seed is called with its arguments swapped.
SeedSubnets_swapped(s) ==
    /\ phase[s] = "seedSubnets"
    /\ gauge' = [gauge EXCEPT ![s]["subnet"] = counts[s]["network"]]
    /\ counts' = [counts EXCEPT ![s] = None]
    /\ serving' = serving \cup {s}
    /\ Goto(s, Waits)
    /\ UNCHANGED <<rows, hooks, ops>>

SeedSubnets(s) ==
    /\ phase[s] = "seedSubnets"
    /\ gauge' = [gauge EXCEPT ![s]["subnet"] = counts[s]["subnet"]]
    /\ counts' = [counts EXCEPT ![s] = None]
    /\ serving' = serving \cup {s}
    /\ Goto(s, Waits)
    /\ UNCHANGED <<rows, hooks, ops>>

\* The process dies and starts again; nothing of the tracker survives.
Crash(s) ==
    /\ Spend(s)
    /\ serving' = serving \ {s}
    /\ gauge' = [gauge EXCEPT ![s] = None]
    /\ created' = [created EXCEPT ![s] = None]
    /\ deleted' = [deleted EXCEPT ![s] = None]
    /\ counts' = [counts EXCEPT ![s] = None]
    /\ Goto(s, "countNetworks")
    /\ UNCHANGED rows

Operate(s) ==
    \E k \in Kind :
        \/ CommitCreate(s, k)
        \/ \E c \in 0..rows["subnet"] : CommitDelete(s, k, c)
        \/ TrackCreated(s, k)
        \/ TrackDeleted(s, k)

Refreshes(s) ==
    \/ TickerFires(s) \/ CountNetworks(s) \/ CountSubnets(s) \/ CountFails(s)
    \/ SeedNetworks(s) \/ SeedSubnets(s)

GaugesNext ==
    /\ \E s \in Server : Operate(s) \/ Crash(s) \/ Refreshes(s)
    /\ UNCHANGED deployment

\* Goroutines run, the ticker ticks, and the database answers again and again
\* however often it fails in between.
GaugesFairness ==
    \A s \in Server :
        /\ \A k \in Kind : WF_system(TrackCreated(s, k)) /\ WF_system(TrackDeleted(s, k))
        /\ WF_system(TickerFires(s)) /\ WF_system(SeedNetworks(s)) /\ WF_system(SeedSubnets(s))
        /\ SF_system(CountNetworks(s)) /\ SF_system(CountSubnets(s))

GaugesSpec == GaugesInit /\ [][GaugesNext]_gaugesVars
GaugesFairSpec == GaugesSpec /\ GaugesFairness

-----------------------------------------------------------------------------
\* "so replicas converge" (refresh.go:46): once the database stops changing,
\* the gauges of every replica reach its totals for good, whatever the races of
\* counts, stores and increments have left in them, and however often queries
\* failed (metrics/refresh.go:48-90).
Converges ==
    deployment.loop =>
        <>[](/\ serving = deployment.servers
             /\ \A s \in deployment.servers : gauge[s] = rows)

\* What the gauge is once the hooks of what is committed have run.
Tracked(s, k) == gauge[s][k] + created[s][k] - deleted[s][k]

SingleInstance(s) == ~deployment.loop /\ deployment.servers = {s}

\* Without the loop the one server of the database never miscounts networks:
\* its gauge differs from the table by the operations whose handlers are
\* between the commit and the hook, also after restarts (metrics.go:157-195).
NetworkGaugeExact ==
    \A s \in serving : SingleInstance(s) => Tracked(s, "network") = rows["network"]

\* Nor does it ever count a subnet too few: what it gets wrong are the subnets
\* that went with their network (network.go:181), too many until a restart.
SubnetGaugeNeverShort ==
    \A s \in serving : SingleInstance(s) => Tracked(s, "subnet") >= rows["subnet"]

-----------------------------------------------------------------------------
(* The inductive invariant.                                                *)

Idle == {"off", "waiting"}

GaugesTyped ==
    /\ deployment \in Deployments
    /\ rows \in [Kind -> Nat]
    /\ gauge \in [Server -> [Kind -> Int]]
    /\ created \in [Server -> [Kind -> Nat]] /\ deleted \in [Server -> [Kind -> Nat]]
    /\ serving \subseteq deployment.servers
    /\ phase \in [Server -> Idle \cup {"countNetworks", "countSubnets", "seedNetworks",
                                       "seedSubnets"}]
    /\ counts \in [Server -> [Kind -> Nat]]
    /\ ops \in Nat

\* A process that does not serve yet has seeded or counted; nothing is tracked.
PhaseAt(s) ==
    /\ s \notin deployment.servers => phase[s] = "off"
    /\ s \notin serving => created[s] = None /\ deleted[s] = None
    /\ s \in deployment.servers \ serving => phase[s] \notin Idle
    /\ s \in serving /\ ~deployment.loop => phase[s] = "off"

\* Until the one server of a database serves, what it has counted is still true.
CountedAt(s) ==
    SingleInstance(s) /\ s \notin serving =>
        /\ phase[s] # "countNetworks" => counts[s]["network"] = rows["network"]
        /\ phase[s] \in {"seedNetworks", "seedSubnets"} => counts[s]["subnet"] = rows["subnet"]
        /\ phase[s] = "seedSubnets" => gauge[s]["network"] = rows["network"]

GaugesInv ==
    /\ GaugesTyped /\ \A s \in Server : PhaseAt(s) /\ CountedAt(s)
    /\ NetworkGaugeExact /\ SubnetGaugeNeverShort

-----------------------------------------------------------------------------
(* Statements of the documentation that do not hold.                       *)

\* The same of subnets: "disables the loop (single-instance)"
\* (TECHNICAL.md:987).
SubnetGaugeExact ==
    \A s \in serving : SingleInstance(s) => Tracked(s, "subnet") = rows["subnet"]

\* kilhog.networks is the "Number of networks currently stored"
\* (metrics.go:133), which no race may drive below zero.
GaugeNonNegative == \A s \in Server, k \in Kind : gauge[s][k] >= 0
=============================================================================
