CONSTANTS
    Req = {r1, r2, r3}
    Grace = 20
    FlushTimeout = 4
    MetricsTimeout = 2
    Overhead = 1
    Main = Main
    Nil = Nil

SPECIFICATION Spec
SYMMETRY Handlers

INVARIANTS
    ShutdownInv
    ClosedBetweenWrites
    TimelyDrainExits
    SyncedAtExit
CHECK_DEADLOCK FALSE
