------------------------------- MODULE MCMigrate ----------------------------
(* Migrate for TLC: processes that upgrade, or that also downgrade. *)
EXTENDS Migrate, TLC

CONSTANTS a, b

On(dialect, procs, jobs) == [dialect |-> dialect, procs |-> procs, jobs |-> jobs]
AnyJob == {0, 1, 2, UpgradeJob}

\* Replicas that start together, isolates that do, and downgrades.
AllDeployments ==
    {On("postgres", Proc, {UpgradeJob}), On("d1", {a, b}, {UpgradeJob}),
     On("postgres", {a, b}, AnyJob), On("sqlite", {a}, AnyJob),
     On("d1", {a}, AnyJob)}
=============================================================================
