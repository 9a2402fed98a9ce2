---------------------------- MODULE AddressPlan -----------------------------
(***************************************************************************)
(* What the address management promises its clients, without requests,     *)
(* locks or transactions: a plan of subnets in which every allocation is   *)
(* decided and made in ONE step against the plan as it is.  Ipam           *)
(* implements this specification.                                          *)
(***************************************************************************)
EXTENDS IPv4

CONSTANTS Net, Subnet, Name, Nil

VARIABLES
    plan,       \* [Subnet -> entry or Nil]
    spent       \* the subnets that exist or existed

planVars == <<plan, spent>>

Entry == [network : Net, name : Name, cidr : Prefix, parent : Net \cup Subnet]

InPlan == {s \in Subnet : plan[s] # Nil}

PlanInit ==
    /\ plan = [s \in Subnet |-> Nil]
    /\ spent = {}

\* The entry fits in the plan: under an existing parent, inside its block, in
\* its network, clear of its siblings, with a name of its own.
Fits(e) ==
    /\ \/ e.parent \in Net /\ e.network = e.parent
       \/ /\ e.parent \in InPlan
          /\ e.network = plan[e.parent].network
          /\ PrefixContains(plan[e.parent].cidr, e.cidr)
    /\ \A t \in InPlan :
        /\ plan[t].parent = e.parent => ~Overlaps(e.cidr, plan[t].cidr)
        /\ plan[t].network = e.network => plan[t].name # e.name

\* Any entry that fits may be the one allocated.
Allocate(s) ==
    /\ s \notin spent
    /\ spent' = spent \cup {s}
    /\ plan' = [plan EXCEPT ![s] = plan'[s]]
    /\ plan'[s] \in Entry
    /\ Fits(plan'[s])

Withdraw(s) ==
    /\ s \in InPlan
    /\ plan' = [plan EXCEPT ![s] = Nil]
    /\ UNCHANGED spent

\* A network goes, with every subnet in it.
WithdrawNetwork(n) ==
    /\ plan' = [s \in Subnet |->
                  IF s \in InPlan /\ plan[s].network = n THEN Nil ELSE plan[s]]
    /\ UNCHANGED spent

PlanNext ==
    \/ \E s \in Subnet : Allocate(s) \/ Withdraw(s)
    \/ \E n \in Net : WithdrawNetwork(n)

PlanSpec == PlanInit /\ [][PlanNext]_planVars
=============================================================================
