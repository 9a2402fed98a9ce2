---------------------------- MODULE ServerProofs ----------------------------
(***************************************************************************)
(* Proofs about what one server process keeps in memory and about its end: *)
(* Shutdown, for every number of handlers, every grace period, every flush *)
(* timeout within it, every timeout of the metrics shutdown and every time *)
(* main needs itself; Gauges, for every number of processes; Jwks,         *)
(* for every number of processes and requests, every lifetime of an entry  *)
(* and every timeout.                                                      *)
(***************************************************************************)
EXTENDS Shutdown, Gauges, Jwks, TLAPS

-----------------------------------------------------------------------------
(* The end of the process.                                                 *)

LEMMA BudgetFits ==
    /\ HttpTimeout \in Nat /\ HttpTimeout + Overhead < Grace
    /\ Grace \in Nat /\ FlushTimeout \in Nat /\ MetricsTimeout \in Nat /\ Overhead \in Nat
BY ShutdownAssumption DEF HttpTimeout

\* Handlers run before the drain has ended, and after it those that outlived it.
LEMMA HandlersLeft ==
    ASSUME ShutdownInv, NEW r \in Req, pc[r] # "idle"
    PROVE  severed \/ main \notin ToFlush \cup ToClose \cup ToExit
BY DEF ShutdownInv, BudgetInv, Handling

\* A handler's step.  No other part of the state moves than its own place, the
\* mutex and the write-ahead log.
LEMMA HandlerKeeps ==
    ASSUME ShutdownInv, NEW r \in Req, Accept(r) \/ Handle(r)
    PROVE  ShutdownInv'
<1>0. /\ UNCHANGED <<main, now, deadline, until, spent, severed, db, flushErr, refresh>>
      /\ Running /\ pc' = [pc EXCEPT ![r] = pc'[r]]
      /\ TypeOK
  BY DEF Accept, Handle, Read, EndRead, Lock, EndTx, Cancel, Go, Return, clock, store,
     handlers, Running, Gone, ShutdownInv, TypeOK
<1>1. TypeOK'
  BY DEF ShutdownInv, TypeOK, Accept, Handle, Read, EndRead, Lock, EndTx, Cancel, Go,
     Return, clock, store, handlers, Handling
<1>2. MutexInv' /\ (pc'[r] = "tx" => db = "open")
  <2>1. CASE Lock(r)
    BY <2>1, ShutdownAssumption DEF ShutdownInv, TypeOK, MutexInv, Lock, Go, Return, clock
  <2>2. CASE EndTx(r)
    BY <2>2, ShutdownAssumption
       DEF ShutdownInv, TypeOK, MutexInv, EndTx, Go, Return, clock
  <2>3. CASE Cancel(r)
    BY <2>3 DEF ShutdownInv, TypeOK, MutexInv, ClosedBetweenWrites, Cancel, clock, store
  <2>4. CASE Accept(r) \/ Read(r) \/ EndRead(r)
    BY <2>4 DEF ShutdownInv, TypeOK, MutexInv, Accept, Read, EndRead, Go, Return, clock,
       store
  <2>5. QED
    BY <2>1, <2>2, <2>3, <2>4 DEF Handle
<1>3. BudgetInv'
  <2>1. main = "serving" \/ pc[r] # "idle"
    BY DEF Accept, Handle, Read, EndRead, Lock, EndTx, Cancel, Handling
  <2>2. severed \/ main \notin ToFlush \cup ToClose \cup ToExit
    BY <2>1, HandlersLeft DEF ToFlush, ToClose, ToExit
  <2>3. QED
    BY <1>0, <2>2 DEF ShutdownInv, BudgetInv
<1>4. ClosedBetweenWrites'
  BY <1>0, <1>2 DEF ShutdownInv, ClosedBetweenWrites, TypeOK
<1>5. TimelyDrainExits'
  BY <1>0 DEF TimelyDrainExits, Running, Gone
<1>6. ClosingInv'
  <2>1. ASSUME main \in ToExit, Connected' = {}
        PROVE  ~wal'
    <3>1. db = "nil" /\ \A q \in Req : pc[q] # "tx"
      BY <2>1 DEF ShutdownInv, ClosingInv, ClosedBetweenWrites
    <3>2. pc[r] # "reading" => Connected = {}
      BY <1>0, <2>1, <3>1 DEF Connected, TypeOK
    <3>3. CASE EndRead(r)
      <4>1. Connected = {r}
        BY <1>0, <2>1, <3>3 DEF Connected, TypeOK, EndRead
      <4>2. QED
        BY <2>1, <3>3, <4>1 DEF EndRead, ToExit
    <3>4. CASE ~EndRead(r)
      <4>1. pc[r] # "reading" /\ wal' = wal
        <5>1. ~EndTx(r)
          BY <3>1 DEF EndTx
        <5>2. wal' = wal
          BY <3>4, <5>1 DEF Accept, Handle, Read, Lock, Cancel, store
        <5>3. pc[r] = "reading" => Cancel(r)
          BY <3>4 DEF Accept, Handle, Read, Lock, EndTx
        <5>4. pc[r] # "reading"
          BY <1>0, <2>1, <5>3 DEF Cancel, Connected, TypeOK
        <5>5. QED
          BY <5>2, <5>4
      <4>2. QED
        BY <2>1, <3>2, <4>1 DEF ShutdownInv, ClosingInv
    <3>5. QED
      BY <3>3, <3>4
  <2>2. QED
    BY <1>0, <2>1 DEF ShutdownInv, ClosingInv, Running, Gone
<1>7. QED
  BY <1>1, <1>2, <1>3, <1>4, <1>5, <1>6 DEF ShutdownInv

\* The metrics loop: its panic ends the process, on a closed database only.
LEMMA RefreshKeeps ==
    ASSUME ShutdownInv, RefreshTick \/ RefreshCount
    PROVE  ShutdownInv'
<1>0. UNCHANGED <<now, deadline, until, spent, pc, cancelled, severed, writeMu, db, wal, flushErr>>
  BY DEF RefreshTick, RefreshCount, clock, handlers, store
<1>1. TypeOK'
  BY <1>0 DEF ShutdownInv, TypeOK, RefreshTick, RefreshCount, Gone
<1>2. main' = main \/ (main' = "crashed" /\ db = "nil" /\ Running)
  BY DEF RefreshTick, RefreshCount
<1>3. CASE main' = main
  <2>1. BudgetInv'
    BY <1>0, <1>3 DEF ShutdownInv, BudgetInv, Handling
  <2>2. QED
    BY <1>0, <1>1, <1>3, <2>1 DEF ShutdownInv, MutexInv, ClosingInv,
       ClosedBetweenWrites, TimelyDrainExits, Connected
<1>4. CASE main' = "crashed" /\ db = "nil" /\ Running
  <2>1. main # "checkpoint" /\ main # "killed"
    BY <1>4 DEF ShutdownInv, ClosingInv, ToExit, Running, Gone
  <2>2. MutexInv'
    BY <1>0, <1>4, <2>1 DEF ShutdownInv, MutexInv
  <2>3. BudgetInv'
    BY <1>0, <1>4 DEF BudgetInv, ToFlush, ToClose, ToExit
  <2>4. ClosingInv' /\ ClosedBetweenWrites' /\ TimelyDrainExits'
    BY <1>0, <1>4 DEF ShutdownInv, ClosingInv, ToExit, ClosedBetweenWrites, TimelyDrainExits
  <2>5. QED
    BY <1>1, <2>2, <2>3, <2>4 DEF ShutdownInv
<1>5. QED
  BY <1>2, <1>3, <1>4

\* main from the signal to its exit, and the clock.
LEMMA MainKeeps ==
    ASSUME ShutdownInv, Signal \/ MainStep \/ Tick \/ Kill
    PROVE  ShutdownInv'
<1> USE ShutdownAssumption DEF ToFlush, ToClose, ToExit
<1>1. CASE Signal
  <2>1. UNCHANGED <<now, deadline, until, spent, pc, cancelled, severed, writeMu, db, wal, flushErr, refresh>>
    BY <1>1 DEF Signal, clock, handlers, store
  <2>2. main = "serving" /\ main' = "draining"
    BY <1>1 DEF Signal
  <2>3. BudgetInv'
    BY <2>1, <2>2, BudgetFits DEF ShutdownInv, BudgetInv
  <2>4. QED
    BY <2>1, <2>2, <2>3 DEF ShutdownInv, TypeOK, MutexInv, ClosingInv,
       ClosedBetweenWrites, TimelyDrainExits
<1>2. CASE Drained
  <2>1. UNCHANGED <<now, until, spent, pc, cancelled, writeMu, db, wal, flushErr, refresh>>
    BY <1>2 DEF Drained, handlers, store
  <2>2. /\ main = "draining" /\ main' = "flush" /\ deadline' = now + FlushTimeout
        /\ severed' = (Handling # {})
    BY <1>2 DEF Drained
  <2>3. now \in Nat /\ spent \in Nat
    BY DEF ShutdownInv, TypeOK
  <2>4. deadline' \in Nat /\ now' + FlushTimeout <= deadline' + spent'
    BY <2>1, <2>2, <2>3, BudgetFits
  <2>5. BudgetInv'
    BY <2>1, <2>2, <2>4 DEF BudgetInv, Handling
  <2>6. QED
    BY <2>1, <2>2, <2>4, <2>5 DEF ShutdownInv, TypeOK, MutexInv, ClosingInv,
       ClosedBetweenWrites, TimelyDrainExits
<1>3. CASE LockForFlush
  <2>1. UNCHANGED <<now, deadline, until, spent, pc, cancelled, severed, db, wal, flushErr, refresh>>
    BY <1>3 DEF LockForFlush, clock, handlers
  <2>2. main = "flush" /\ writeMu = Nil /\ writeMu' = Main /\ main' = "checkpoint"
    BY <1>3 DEF LockForFlush
  <2>3. MutexInv'
    BY <2>1, <2>2 DEF ShutdownInv, MutexInv
  <2>4. BudgetInv'
    BY <2>1, <2>2, BudgetFits DEF ShutdownInv, TypeOK, BudgetInv, Handling
  <2>5. QED
    BY <2>1, <2>2, <2>3, <2>4 DEF ShutdownInv, TypeOK, ClosingInv,
       ClosedBetweenWrites, TimelyDrainExits
<1>4. CASE Checkpoint
  <2>1. UNCHANGED <<now, deadline, until, spent, pc, cancelled, severed, db, refresh>>
    BY <1>4 DEF Checkpoint, clock, handlers
  <2>2. /\ main = "checkpoint" /\ writeMu' = Nil /\ main' = "clear"
        /\ wal' \in BOOLEAN /\ flushErr' \in BOOLEAN
    BY <1>4 DEF Checkpoint, ShutdownInv, TypeOK
  <2>3. MutexInv'
    BY <2>1, <2>2 DEF ShutdownInv, MutexInv
  <2>4. BudgetInv'
    BY <2>1, <2>2 DEF ShutdownInv, BudgetInv, Handling
  <2>5. QED
    BY <2>1, <2>2, <2>3, <2>4 DEF ShutdownInv, TypeOK, ClosingInv,
       ClosedBetweenWrites, TimelyDrainExits
<1>5. CASE Clear
  <2>1. UNCHANGED <<now, deadline, until, spent, pc, cancelled, severed, writeMu, wal, flushErr, refresh>>
    BY <1>5 DEF Clear, clock, handlers
  <2>2. main = "clear" /\ writeMu = Nil /\ db' = "nil" /\ main' = "close"
    BY <1>5 DEF Clear
  <2>3. \A r \in Req : pc[r] # "tx"
    BY <2>2 DEF ShutdownInv, MutexInv
  <2>4. ClosedBetweenWrites' /\ MutexInv'
    BY <2>1, <2>2, <2>3 DEF ShutdownInv, MutexInv, ClosedBetweenWrites
  <2>5. BudgetInv'
    BY <2>1, <2>2 DEF ShutdownInv, BudgetInv, Handling
  <2>6. QED
    BY <2>1, <2>2, <2>4, <2>5 DEF ShutdownInv, TypeOK, ClosingInv, TimelyDrainExits
<1>6. CASE CloseDB
  <2>1. UNCHANGED <<now, deadline, spent, pc, cancelled, severed, writeMu, db, flushErr, refresh>>
    BY <1>6 DEF CloseDB, handlers
  <2>2. /\ main = "close" /\ main' = "metrics" /\ wal' = (wal /\ Connected # {})
        /\ until' = now + MetricsTimeout
    BY <1>6 DEF CloseDB
  <2>3. Connected' = Connected /\ wal' \in BOOLEAN /\ (Connected = {} => ~wal')
    BY <2>1, <2>2 DEF Connected
  <2>4. ClosingInv'
    BY <2>1, <2>2, <2>3 DEF ShutdownInv, ClosingInv
  <2>5. until' \in Nat /\ BudgetInv'
    BY <2>1, <2>2, BudgetFits DEF ShutdownInv, TypeOK, BudgetInv, Handling
  <2>6. QED
    BY <2>1, <2>2, <2>3, <2>4, <2>5 DEF ShutdownInv, TypeOK, MutexInv,
       ClosedBetweenWrites, TimelyDrainExits
<1>7. CASE ShutdownMetrics \/ Defers
  <2>1. UNCHANGED <<now, deadline, until, spent, pc, cancelled, severed, writeMu, db, wal,
                    flushErr, refresh>>
    BY <1>7 DEF ShutdownMetrics, Defers, clock, handlers, store
  <2>2. \/ main = "metrics" /\ main' = "defers"
        \/ main = "defers" /\ main' = "exited"
    BY <1>7 DEF ShutdownMetrics, Defers
  <2>3. ClosingInv'
    BY <2>1, <2>2 DEF ShutdownInv, ClosingInv, Connected
  <2>4. BudgetInv'
    BY <2>1, <2>2 DEF ShutdownInv, BudgetInv, Handling
  <2>5. QED
    BY <2>1, <2>2, <2>3, <2>4 DEF ShutdownInv, TypeOK, MutexInv, Gone,
       ClosedBetweenWrites, TimelyDrainExits
<1>8. CASE Tick
  <2>1. UNCHANGED <<main, deadline, until, pc, cancelled, severed, writeMu, db, wal,
                    flushErr, refresh>>
    BY <1>8 DEF Tick, handlers, store
  <2>2. /\ now' = now + 1 /\ main # "serving"
        /\ \/ MainWaits /\ spent' = spent
           \/ spent < Overhead /\ spent' = spent + 1
    BY <1>8 DEF Tick, Stopping
  <2>3. /\ now \in Nat /\ deadline \in Nat /\ until \in Nat
        /\ spent \in Nat /\ spent' \in 0..Overhead /\ now' \in Nat
    BY <2>2, BudgetFits DEF ShutdownInv, TypeOK
  <2>4. BudgetInv'
    <3>1. CASE spent' = spent + 1
      BY <2>1, <2>2, <2>3, <3>1, BudgetFits DEF ShutdownInv, BudgetInv, Handling
    <3>2. CASE MainWaits /\ spent' = spent
      <4>1. CASE writeMu # Nil /\ main \in {"flush", "clear", "defers"}
        <5>1. \E r \in Req : pc[r] # "idle"
          BY <4>1 DEF ShutdownInv, TypeOK, MutexInv
        <5>2. severed
          BY <4>1, <5>1, HandlersLeft
        <5>3. QED
          BY <2>1, <2>2, <4>1, <5>2 DEF BudgetInv
      <4>2. CASE \/ main = "draining" /\ now < HttpTimeout
                 \/ main = "checkpoint" /\ now < deadline
                 \/ main = "metrics" /\ now < until
        BY <2>1, <2>2, <2>3, <3>2, <4>2, BudgetFits DEF ShutdownInv, BudgetInv, Handling
      <4>3. QED
        BY <3>2, <4>1, <4>2 DEF MainWaits
    <3>3. QED
      BY <2>2, <3>1, <3>2
  <2>5. ClosingInv'
    BY <2>1 DEF ShutdownInv, ClosingInv, Connected
  <2>6. QED
    BY <2>1, <2>2, <2>3, <2>4, <2>5 DEF ShutdownInv, TypeOK, MutexInv, ClosedBetweenWrites,
       TimelyDrainExits
<1>9. CASE Kill
  <2>1. UNCHANGED <<now, deadline, until, spent, pc, cancelled, severed, writeMu, db, wal,
                    flushErr, refresh>>
    BY <1>9 DEF Kill, clock, handlers, store
  <2>2. main' = "killed" /\ main \notin Gone \cup {"serving"} /\ now = Grace
    BY <1>9 DEF Kill, Running, Stopping
  <2>3. TypeOK
    BY DEF ShutdownInv
  <2>4. TimelyDrainExits'
    <3>1. main # "draining"
      BY <2>2, <2>3, BudgetFits DEF ShutdownInv, BudgetInv, TypeOK
    <3>2. severed \/ now <= deadline + MetricsTimeout + spent
      BY <2>2, <2>3, <3>1, BudgetFits DEF ShutdownInv, BudgetInv, TypeOK
    <3>3. QED
      BY <2>1, <2>2, <2>3, <3>2, BudgetFits DEF TimelyDrainExits, TypeOK
  <2>5. MutexInv' /\ BudgetInv' /\ ClosingInv'
    BY <2>1, <2>2 DEF ShutdownInv, MutexInv, BudgetInv, ClosingInv
  <2>6. QED
    BY <2>1, <2>2, <2>3, <2>4, <2>5 DEF ShutdownInv, TypeOK, Gone, ClosedBetweenWrites
<1>10. QED
  BY <1>1, <1>2, <1>3, <1>4, <1>5, <1>6, <1>7, <1>8, <1>9 DEF MainStep

\* The inductive invariant: who holds the mutex, what the deadlines leave of the
\* grace period and how far the database is closed.
THEOREM ShutdownInductive == Spec => []ShutdownInv
<1>1. Init => ShutdownInv
  <2> SUFFICES ASSUME Init PROVE ShutdownInv
    OBVIOUS
  <2>1. TypeOK
    <3>1. now \in Nat /\ deadline \in Nat /\ until \in Nat /\ spent \in 0..Overhead
      BY BudgetFits DEF Init
    <3>2. QED
      BY <3>1 DEF Init, TypeOK
  <2>2. MutexInv
    BY ShutdownAssumption DEF Init, MutexInv
  <2>3. BudgetInv /\ ClosingInv /\ ClosedBetweenWrites /\ TimelyDrainExits
    BY BudgetFits DEF Init, BudgetInv, ToFlush, ToClose, ToExit, ClosingInv,
       ClosedBetweenWrites, TimelyDrainExits
  <2>4. QED
    BY <2>1, <2>2, <2>3 DEF ShutdownInv
<1>2. ShutdownInv /\ [Next]_vars => ShutdownInv'
  <2>1. ASSUME ShutdownInv, Next
        PROVE  ShutdownInv'
    BY <2>1, HandlerKeeps, RefreshKeeps, MainKeeps DEF Next
  <2>2. ASSUME ShutdownInv, UNCHANGED vars
        PROVE  ShutdownInv'
    BY <2>2 DEF vars, clock, handlers, store, ShutdownInv, TypeOK, MutexInv, BudgetInv,
       ClosingInv, ClosedBetweenWrites, TimelyDrainExits, Connected, Handling
  <2>3. QED
    BY <2>1, <2>2
<1>3. QED
  BY <1>1, <1>2, PTL DEF Spec

\* The database is closed between write transactions, never under one
\* (repository/db/store.go:110-117).
THEOREM NeverClosedUnderWrite == Spec => []ClosedBetweenWrites
<1>1. ShutdownInv => ClosedBetweenWrites
  BY DEF ShutdownInv
<1>2. QED
  BY <1>1, ShutdownInductive, PTL

\* Whatever the timeouts are: a drain that ends without a handler left, early
\* enough for the timeouts behind it, is followed by an exit before SIGKILL
\* (cmd/kilhog/shutdown.go:26-58, main.go:55-61).
THEOREM TimelyDrainsExit == Spec => []TimelyDrainExits
<1>1. ShutdownInv => TimelyDrainExits
  BY DEF ShutdownInv
<1>2. QED
  BY <1>1, ShutdownInductive, PTL

\* After an exit without readers the database file holds everything that was
\* committed (repository/db/store.go:74-134).
THEOREM ExitIsSynced == Spec => []SyncedAtExit
<1>1. ShutdownInv => SyncedAtExit
  BY DEF ShutdownInv, ClosingInv, SyncedAtExit
<1>2. QED
  BY <1>1, ShutdownInductive, PTL

-----------------------------------------------------------------------------
(* The gauges of networks and subnets.                                     *)

\* Between the counters f and g, the one of server s and kind k moves by n.
Moves(f, g, s, k, n) ==
    /\ \A x \in Kind : g[s][x] = IF x = k THEN f[s][x] + n ELSE f[s][x]
    /\ \A t \in Server : t # s => g[t] = f[t]

LEMMA AddedInt ==
    ASSUME NEW f \in [Server -> [Kind -> Int]], NEW s \in Server, NEW k \in Kind, NEW n \in Int
    PROVE  Add(f, s, k, n) \in [Server -> [Kind -> Int]] /\ Moves(f, Add(f, s, k, n), s, k, n)
<1>1. f[s] \in [Kind -> Int] /\ f[s][k] + n \in Int
  OBVIOUS
<1>2. Add(f, s, k, n) = [f EXCEPT ![s] = [f[s] EXCEPT ![k] = f[s][k] + n]]
  BY DEF Add
<1>3. QED
  BY <1>1, <1>2 DEF Moves

LEMMA AddedNat ==
    ASSUME NEW f \in [Server -> [Kind -> Nat]], NEW s \in Server, NEW k \in Kind, NEW n \in Int,
           f[s][k] + n >= 0
    PROVE  Add(f, s, k, n) \in [Server -> [Kind -> Nat]] /\ Moves(f, Add(f, s, k, n), s, k, n)
<1>1. f[s] \in [Kind -> Nat] /\ f[s][k] + n \in Nat
  OBVIOUS
<1>2. Add(f, s, k, n) = [f EXCEPT ![s] = [f[s] EXCEPT ![k] = f[s][k] + n]]
  BY DEF Add
<1>3. QED
  BY <1>1, <1>2 DEF Moves

LEMMA GaugesStart == GaugesInit => GaugesInv
<1> SUFFICES ASSUME GaugesInit PROVE GaugesInv
  OBVIOUS
<1>1. GaugesTyped
  <2>1. deployment \in Deployments /\ rows \in [Kind -> Nat] /\ ops \in Nat
    BY DEF GaugesInit
  <2>2. None \in [Kind -> Nat] /\ None \in [Kind -> Int]
    BY DEF None
  <2>3. gauge \in [Server -> [Kind -> Int]] /\ created \in [Server -> [Kind -> Nat]]
        /\ deleted \in [Server -> [Kind -> Nat]] /\ counts \in [Server -> [Kind -> Nat]]
    BY <2>2 DEF GaugesInit
  <2>4. QED
    BY <2>1, <2>3 DEF GaugesInit, GaugesTyped, Idle
<1>2. ASSUME NEW s \in Server
      PROVE  PhaseAt(s) /\ CountedAt(s)
  <2>1. phase[s] = IF s \in deployment.servers THEN "countNetworks" ELSE "off"
    BY DEF GaugesInit
  <2>2. serving = {} /\ created[s] = None /\ deleted[s] = None
    BY DEF GaugesInit
  <2>3. SingleInstance(s) => s \in deployment.servers
    BY DEF SingleInstance
  <2>4. QED
    BY <2>1, <2>2, <2>3 DEF PhaseAt, CountedAt, Idle
<1>3. serving = {}
  BY DEF GaugesInit
<1>4. QED
  BY <1>1, <1>2, <1>3 DEF GaugesInv, NetworkGaugeExact, SubnetGaugeNeverShort

\* Who serves, where only one does.
LEMMA OnlyServer ==
    ASSUME GaugesInv, NEW s \in serving, NEW t, SingleInstance(t)
    PROVE  s = t /\ s \in Server
BY GaugesAssumption DEF GaugesInv, GaugesTyped, SingleInstance

\* What a server that serves does to rows and to its own hooks and gauge keeps
\* the invariant, if its gauge stays as far from the rows as it was, or gets
\* ahead of the subnets.
LEMMA ServingKeeps ==
    ASSUME GaugesInv, GaugesTyped', NEW s \in serving,
           UNCHANGED <<deployment, serving, refreshes>>,
           \A t \in Server \ {s} : UNCHANGED <<gauge[t], created[t], deleted[t]>>,
           Tracked(s, "network")' - rows'["network"] = Tracked(s, "network") - rows["network"],
           Tracked(s, "subnet")' - rows'["subnet"] >= Tracked(s, "subnet") - rows["subnet"]
    PROVE  GaugesInv'
<1>1. ASSUME NEW t \in Server
      PROVE  PhaseAt(t)' /\ CountedAt(t)'
  <2>1. PhaseAt(t) /\ phase' = phase
    BY DEF GaugesInv, refreshes
  <2>2. PhaseAt(t)'
    BY <2>1 DEF PhaseAt
  <2>3. CountedAt(t)'
    BY OnlyServer DEF CountedAt, SingleInstance
  <2>4. QED
    BY <2>2, <2>3
<1>2. ASSUME NEW t \in serving, SingleInstance(t), NEW k \in Kind
      PROVE  /\ t = s
             /\ {Tracked(t, k), Tracked(t, k)', rows[k], rows'[k]} \subseteq Int
  <2>1. t = s /\ s \in Server
    BY <1>2, OnlyServer
  <2>2. /\ gauge[s][k] \in Int /\ created[s][k] \in Int /\ deleted[s][k] \in Int
        /\ rows[k] \in Int
    BY <2>1 DEF GaugesInv, GaugesTyped
  <2>3. /\ gauge'[s][k] \in Int /\ created'[s][k] \in Int /\ deleted'[s][k] \in Int
        /\ rows'[k] \in Int
    BY <2>1 DEF GaugesTyped
  <2>4. QED
    BY <2>1, <2>2, <2>3 DEF Tracked
<1>3. {"network", "subnet"} = Kind
  BY DEF Kind
<1>4. NetworkGaugeExact'
  BY <1>2, <1>3 DEF NetworkGaugeExact, SingleInstance, GaugesInv
<1>5. SubnetGaugeNeverShort'
  BY <1>2, <1>3 DEF SubnetGaugeNeverShort, SingleInstance, GaugesInv
<1>6. QED
  BY <1>1, <1>4, <1>5 DEF GaugesInv

LEMMA CommitCreateKeeps ==
    ASSUME GaugesInv, NEW s \in Server, NEW k \in Kind, CommitCreate(s, k),
           UNCHANGED deployment
    PROVE  GaugesInv'
<1>1. s \in serving /\ ops' \in Nat
  BY DEF CommitCreate, Spend, GaugesInv, GaugesTyped
<1>2. created' \in [Server -> [Kind -> Nat]] /\ Moves(created, created', s, k, 1)
  <2>1. created \in [Server -> [Kind -> Nat]] /\ created[s][k] + 1 >= 0
    BY DEF GaugesInv, GaugesTyped
  <2>2. QED
    BY <2>1, AddedNat DEF CommitCreate
<1>3. /\ rows' \in [Kind -> Nat]
      /\ \A x \in Kind : rows'[x] = IF x = k THEN rows[x] + 1 ELSE rows[x]
  BY DEF CommitCreate, GaugesInv, GaugesTyped
<1>4. GaugesTyped'
  BY <1>1, <1>2, <1>3 DEF CommitCreate, refreshes, GaugesInv, GaugesTyped
<1>5. ASSUME NEW x \in Kind
      PROVE  Tracked(s, x)' - rows'[x] = Tracked(s, x) - rows[x]
  <2>1. /\ gauge[s][x] \in Int /\ created[s][x] \in Int /\ deleted[s][x] \in Int
        /\ rows[x] \in Int
    BY DEF GaugesInv, GaugesTyped
  <2>2. QED
    BY <1>2, <1>3, <2>1 DEF CommitCreate, Tracked, Moves
<1>6. /\ {"network", "subnet"} = Kind
      /\ \A x \in Kind : Tracked(s, x) - rows[x] \in Int
  BY DEF Kind, Tracked, GaugesInv, GaugesTyped
<1>7. QED
  BY <1>1, <1>2, <1>4, <1>5, <1>6, ServingKeeps DEF CommitCreate, Moves

LEMMA CommitDeleteKeeps ==
    ASSUME GaugesInv, NEW s \in Server, NEW k \in Kind, NEW c \in 0..rows["subnet"],
           CommitDelete(s, k, c), UNCHANGED deployment
    PROVE  GaugesInv'
<1>1. s \in serving /\ ops' \in Nat
  BY DEF CommitDelete, Spend, GaugesInv, GaugesTyped
<1>2. deleted' \in [Server -> [Kind -> Nat]] /\ Moves(deleted, deleted', s, k, 1)
  <2>1. deleted \in [Server -> [Kind -> Nat]] /\ deleted[s][k] + 1 >= 0
    BY DEF GaugesInv, GaugesTyped
  <2>2. QED
    BY <2>1, AddedNat DEF CommitDelete
<1>3. {"network", "subnet"} = Kind /\ rows \in [Kind -> Nat] /\ c \in 0..rows["subnet"]
  BY DEF Kind, GaugesInv, GaugesTyped
<1>4. /\ rows' \in [Kind -> Nat]
      /\ rows'["network"] = IF k = "network" THEN rows["network"] - 1 ELSE rows["network"]
      /\ rows'["subnet"] = IF k = "subnet" THEN rows["subnet"] - 1 ELSE rows["subnet"] - c
  BY <1>3 DEF CommitDelete
<1>5. GaugesTyped'
  BY <1>1, <1>2, <1>4 DEF CommitDelete, refreshes, GaugesInv, GaugesTyped
<1>6. \A x \in Kind : /\ gauge[s][x] \in Int /\ created[s][x] \in Int /\ deleted[s][x] \in Int
                      /\ rows[x] \in Int
  BY DEF GaugesInv, GaugesTyped
<1>7. Tracked(s, "network")' - rows'["network"] = Tracked(s, "network") - rows["network"]
  BY <1>2, <1>3, <1>4, <1>6 DEF CommitDelete, Tracked, Moves
<1>8. Tracked(s, "subnet")' - rows'["subnet"] >= Tracked(s, "subnet") - rows["subnet"]
  BY <1>2, <1>3, <1>4, <1>6 DEF CommitDelete, Tracked, Moves
<1>9. QED
  BY <1>1, <1>2, <1>5, <1>7, <1>8, ServingKeeps DEF CommitDelete, Moves

\* A hook moves one from what is to be tracked into the gauge.
LEMMA TrackKeeps ==
    ASSUME GaugesInv, NEW s \in Server, NEW k \in Kind,
           TrackCreated(s, k) \/ TrackDeleted(s, k), UNCHANGED deployment
    PROVE  GaugesInv'
<1>1. s \in serving
  <2>1. s \notin serving => created[s][k] = 0 /\ deleted[s][k] = 0
    BY DEF GaugesInv, PhaseAt, None
  <2>2. QED
    BY <2>1 DEF TrackCreated, TrackDeleted
<1>2. /\ gauge \in [Server -> [Kind -> Int]] /\ created \in [Server -> [Kind -> Nat]]
      /\ deleted \in [Server -> [Kind -> Nat]] /\ rows \in [Kind -> Nat]
  BY DEF GaugesInv, GaugesTyped
<1>3. {"network", "subnet"} = Kind
  BY DEF Kind
<1>4. 1 \in Int /\ -1 \in Int
  OBVIOUS
<1>5. CASE TrackCreated(s, k)
  <2>1. /\ created' \in [Server -> [Kind -> Nat]] /\ Moves(created, created', s, k, -1)
        /\ gauge' \in [Server -> [Kind -> Int]] /\ Moves(gauge, gauge', s, k, 1)
    <3>1. created[s][k] + (-1) >= 0
      BY <1>2, <1>5 DEF TrackCreated
    <3>2. created' = Add(created, s, k, -1) /\ gauge' = Add(gauge, s, k, 1)
      BY <1>5 DEF TrackCreated
    <3>3. /\ Add(created, s, k, -1) \in [Server -> [Kind -> Nat]]
          /\ Moves(created, Add(created, s, k, -1), s, k, -1)
      BY <1>2, <1>4, <3>1, AddedNat, Zenon
    <3>4. /\ Add(gauge, s, k, 1) \in [Server -> [Kind -> Int]]
          /\ Moves(gauge, Add(gauge, s, k, 1), s, k, 1)
      BY <1>2, <1>4, AddedInt, Zenon
    <3>5. QED
      BY <3>2, <3>3, <3>4
  <2>2. GaugesTyped'
    BY <1>5, <2>1 DEF TrackCreated, refreshes, GaugesInv, GaugesTyped
  <2>3. \A x \in Kind : Tracked(s, x)' = Tracked(s, x) /\ Tracked(s, x) - rows[x] \in Int
    BY <1>2, <1>5, <2>1 DEF TrackCreated, Tracked, Moves
  <2>4. /\ UNCHANGED <<serving, refreshes, rows>>
        /\ \A t \in Server \ {s} : UNCHANGED <<gauge[t], created[t], deleted[t]>>
    BY <1>5, <2>1 DEF TrackCreated, Moves
  <2>5. QED
    BY <1>1, <1>3, <2>2, <2>3, <2>4, ServingKeeps
<1>6. CASE TrackDeleted(s, k)
  <2>1. /\ deleted' \in [Server -> [Kind -> Nat]] /\ Moves(deleted, deleted', s, k, -1)
        /\ gauge' \in [Server -> [Kind -> Int]] /\ Moves(gauge, gauge', s, k, -1)
    <3>1. deleted[s][k] + (-1) >= 0
      BY <1>2, <1>6 DEF TrackDeleted
    <3>2. deleted' = Add(deleted, s, k, -1) /\ gauge' = Add(gauge, s, k, -1)
      BY <1>6 DEF TrackDeleted
    <3>3. /\ Add(deleted, s, k, -1) \in [Server -> [Kind -> Nat]]
          /\ Moves(deleted, Add(deleted, s, k, -1), s, k, -1)
      BY <1>2, <1>4, <3>1, AddedNat, Zenon
    <3>4. /\ Add(gauge, s, k, -1) \in [Server -> [Kind -> Int]]
          /\ Moves(gauge, Add(gauge, s, k, -1), s, k, -1)
      BY <1>2, <1>4, AddedInt, Zenon
    <3>5. QED
      BY <3>2, <3>3, <3>4
  <2>2. GaugesTyped'
    BY <1>6, <2>1 DEF TrackDeleted, refreshes, GaugesInv, GaugesTyped
  <2>3. \A x \in Kind : Tracked(s, x)' = Tracked(s, x) /\ Tracked(s, x) - rows[x] \in Int
    BY <1>2, <1>6, <2>1 DEF TrackDeleted, Tracked, Moves
  <2>4. /\ UNCHANGED <<serving, refreshes, rows>>
        /\ \A t \in Server \ {s} : UNCHANGED <<gauge[t], created[t], deleted[t]>>
    BY <1>6, <2>1 DEF TrackDeleted, Moves
  <2>5. QED
    BY <1>1, <1>3, <2>2, <2>3, <2>4, ServingKeeps
<1>7. QED
  BY <1>5, <1>6

\* The process starts again with nothing counted.
LEMMA CrashKeeps ==
    ASSUME GaugesInv, NEW s \in Server, Crash(s), UNCHANGED deployment
    PROVE  GaugesInv'
<1>1. s \in serving /\ s \in deployment.servers /\ ops' \in Nat
  BY DEF Crash, Spend, GaugesInv, GaugesTyped
<1>2. None \in [Kind -> Nat] /\ None \in [Kind -> Int]
  BY DEF None
<1>3. GaugesTyped'
  BY <1>1, <1>2 DEF Crash, Goto, GaugesInv, GaugesTyped
<1>4. ASSUME NEW t \in Server, t # s
      PROVE  PhaseAt(t)' /\ ~SingleInstance(t)
  BY <1>1, <1>4 DEF Crash, Goto, GaugesInv, GaugesTyped, PhaseAt, SingleInstance
<1>5. PhaseAt(s)' /\ CountedAt(s)'
  BY <1>1 DEF Crash, Goto, GaugesInv, GaugesTyped, PhaseAt, CountedAt, Idle
<1>6. ASSUME NEW t \in serving', SingleInstance(t)'
      PROVE  FALSE
  BY <1>4, <1>6, GaugesAssumption DEF Crash, SingleInstance, GaugesInv, GaugesTyped
<1>7. QED
  BY <1>3, <1>4, <1>5, <1>6
     DEF GaugesInv, CountedAt, SingleInstance, NetworkGaugeExact, SubnetGaugeNeverShort

\* Refresh moves one server, and where there is a single one without the loop
\* that one does not serve yet.
LEMMA RefreshAlone ==
    ASSUME GaugesInv, NEW s \in Server, phase[s] # "off", NEW t \in Server, SingleInstance(t)
    PROVE  t = s /\ s \in deployment.servers \ serving
BY DEF GaugesInv, GaugesTyped, PhaseAt, SingleInstance

\* A step of Refresh that does not end it keeps the invariant, if it keeps what
\* is said of its server.
LEMMA RefreshingKeeps ==
    ASSUME GaugesInv, GaugesTyped', NEW s \in Server, phase[s] # "off",
           UNCHANGED <<deployment, rows, created, deleted, serving>>,
           \A t \in Server \ {s} : UNCHANGED phase[t],
           PhaseAt(s)', SingleInstance(s) => CountedAt(s)'
    PROVE  GaugesInv'
<1>1. ASSUME NEW t \in Server
      PROVE  PhaseAt(t)'
  <2>1. PhaseAt(t)
    BY DEF GaugesInv
  <2>2. CASE t # s
    BY <2>1, <2>2 DEF PhaseAt
  <2>3. QED
    BY <2>2
<1>2. ASSUME NEW t \in Server
      PROVE  CountedAt(t)'
  <2>1. SingleInstance(t)' <=> SingleInstance(t)
    BY DEF SingleInstance
  <2>2. CASE SingleInstance(t)
    BY <2>2, RefreshAlone
  <2>3. CASE ~SingleInstance(t)
    BY <2>1, <2>3 DEF CountedAt
  <2>4. QED
    BY <2>2, <2>3
<1>3. ASSUME NEW t \in serving', SingleInstance(t)'
      PROVE  FALSE
  <2>1. t \in Server /\ SingleInstance(t) /\ t \in serving
    BY <1>3, GaugesAssumption DEF GaugesInv, GaugesTyped, SingleInstance
  <2>2. QED
    BY <2>1, RefreshAlone
<1>4. QED
  BY <1>1, <1>2, <1>3 DEF GaugesInv, NetworkGaugeExact, SubnetGaugeNeverShort

LEMMA RefreshGaugesKeeps ==
    ASSUME GaugesInv, NEW s \in Server, Refreshes(s), UNCHANGED deployment
    PROVE  GaugesInv'
<1>1. /\ GaugesTyped /\ PhaseAt(s) /\ CountedAt(s)
      /\ {"network", "subnet"} = Kind /\ None \in [Kind -> Nat]
  BY DEF GaugesInv, Kind, None
<1>2. CASE TickerFires(s)
  <2>1. GaugesTyped' /\ PhaseAt(s)' /\ CountedAt(s)'
    BY <1>1, <1>2
       DEF TickerFires, Goto, hooks, GaugesTyped, PhaseAt, CountedAt, SingleInstance, Idle
  <2>2. QED
    BY <1>1, <1>2, <2>1, RefreshingKeeps DEF TickerFires, Goto, hooks, GaugesTyped
<1>3. CASE CountNetworks(s)
  <2>1. counts' \in [Server -> [Kind -> Nat]] /\ counts'[s]["network"] = rows["network"]
    BY <1>1, <1>3 DEF CountNetworks, CountStep, GaugesTyped
  <2>2. phase' = [phase EXCEPT ![s] = "countSubnets"]
        /\ UNCHANGED <<rows, gauge, created, deleted, serving, ops>>
    BY <1>3 DEF CountNetworks, CountStep, Goto, hooks
  <2>3. GaugesTyped' /\ PhaseAt(s)' /\ CountedAt(s)'
    BY <1>1, <1>3, <2>1, <2>2
       DEF CountNetworks, CountStep, GaugesTyped, PhaseAt, CountedAt, SingleInstance, Idle
  <2>4. QED
    BY <1>1, <1>3, <2>2, <2>3, RefreshingKeeps DEF CountNetworks, CountStep, GaugesTyped
<1>4. CASE CountSubnets(s)
  <2>1. /\ counts' \in [Server -> [Kind -> Nat]] /\ counts'[s]["subnet"] = rows["subnet"]
        /\ counts'[s]["network"] = counts[s]["network"]
    BY <1>1, <1>4 DEF CountSubnets, CountStep, GaugesTyped
  <2>2. phase' = [phase EXCEPT ![s] = "seedNetworks"]
        /\ UNCHANGED <<rows, gauge, created, deleted, serving, ops>>
    BY <1>4 DEF CountSubnets, CountStep, Goto, hooks
  <2>3. GaugesTyped' /\ PhaseAt(s)' /\ CountedAt(s)'
    BY <1>1, <1>4, <2>1, <2>2
       DEF CountSubnets, CountStep, GaugesTyped, PhaseAt, CountedAt, SingleInstance, Idle
  <2>4. QED
    BY <1>1, <1>4, <2>2, <2>3, RefreshingKeeps DEF CountSubnets, CountStep, GaugesTyped
<1>5. CASE CountFails(s)
  <2>1. /\ counts' = [counts EXCEPT ![s] = None]
        /\ phase' = [phase EXCEPT ![s] = IF s \in serving THEN "waiting" ELSE "countNetworks"]
        /\ UNCHANGED <<rows, gauge, created, deleted, serving, ops>>
    BY <1>5 DEF CountFails, Goto, hooks
  <2>2. GaugesTyped' /\ PhaseAt(s)' /\ CountedAt(s)'
    BY <1>1, <1>5, <2>1
       DEF CountFails, GaugesTyped, PhaseAt, CountedAt, SingleInstance, Idle
  <2>3. QED
    BY <1>1, <1>5, <2>1, <2>2, RefreshingKeeps DEF CountFails, GaugesTyped
<1>6. CASE SeedNetworks(s)
  <2>1. /\ gauge' \in [Server -> [Kind -> Int]]
        /\ gauge'[s]["network"] = counts[s]["network"]
    BY <1>1, <1>6 DEF SeedNetworks, GaugesTyped
  <2>2. phase' = [phase EXCEPT ![s] = "seedSubnets"]
        /\ UNCHANGED <<rows, created, deleted, serving, counts, ops>>
    BY <1>6 DEF SeedNetworks, Goto, hooks
  <2>3. GaugesTyped' /\ PhaseAt(s)' /\ CountedAt(s)'
    BY <1>1, <1>6, <2>1, <2>2
       DEF SeedNetworks, GaugesTyped, PhaseAt, CountedAt, SingleInstance, Idle
  <2>4. QED
    BY <1>1, <1>6, <2>2, <2>3, RefreshingKeeps DEF SeedNetworks, GaugesTyped
<1>7. CASE SeedSubnets(s)
  <2>1. /\ gauge' \in [Server -> [Kind -> Int]]
        /\ gauge'[s]["network"] = gauge[s]["network"]
        /\ gauge'[s]["subnet"] = counts[s]["subnet"]
    BY <1>1, <1>7 DEF SeedSubnets, GaugesTyped
  <2>2. /\ phase' = [phase EXCEPT ![s] = Waits] /\ serving' = serving \cup {s}
        /\ counts' = [counts EXCEPT ![s] = None] /\ phase[s] = "seedSubnets"
        /\ UNCHANGED <<rows, created, deleted, ops>>
    BY <1>7 DEF SeedSubnets, Goto, hooks
  <2>3. s \in deployment.servers /\ phase[s] # "off"
    BY <1>1, <2>2 DEF PhaseAt
  <2>4. GaugesTyped'
    BY <1>1, <2>1, <2>2, <2>3 DEF GaugesTyped, Idle, Waits
  <2>5. PhaseAt(s)'
    BY <1>1, <2>2, <2>3 DEF PhaseAt, Waits, GaugesTyped
  <2>6. ASSUME NEW t \in Server
        PROVE  PhaseAt(t)' /\ CountedAt(t)'
    <3>1. PhaseAt(t)'
      <4>1. PhaseAt(t)
        BY DEF GaugesInv
      <4>2. CASE t # s
        BY <2>2, <4>1, <4>2 DEF PhaseAt
      <4>3. QED
        BY <2>5, <4>2
    <3>2. SingleInstance(t)' => t \in serving'
      <4>1. SingleInstance(t)' => SingleInstance(t)
        BY DEF SingleInstance
      <4>2. QED
        BY <2>2, <2>3, <4>1, RefreshAlone
    <3>3. QED
      BY <3>1, <3>2 DEF CountedAt
  <2>7. ASSUME NEW t \in serving', SingleInstance(t)'
        PROVE  /\ Tracked(t, "network")' = rows'["network"]
               /\ Tracked(t, "subnet")' >= rows'["subnet"]
    <3>1. SingleInstance(t) /\ t \in deployment.servers /\ t \in Server
      BY <2>7, GaugesAssumption DEF SingleInstance, GaugesInv, GaugesTyped
    <3>2. t = s /\ s \notin serving
      BY <2>3, <3>1, RefreshAlone
    <3>3. /\ gauge'[s]["network"] = rows["network"] /\ gauge'[s]["subnet"] = rows["subnet"]
          /\ created[s] = None /\ deleted[s] = None
      BY <1>1, <2>1, <2>2, <3>1, <3>2 DEF CountedAt, PhaseAt
    <3>4. QED
      BY <1>1, <2>2, <3>2, <3>3 DEF Tracked, None, GaugesTyped
  <2>8. QED
    BY <2>4, <2>6, <2>7 DEF GaugesInv, NetworkGaugeExact, SubnetGaugeNeverShort
<1>8. QED
  BY <1>2, <1>3, <1>4, <1>5, <1>6, <1>7 DEF Refreshes

\* The gauges of a server process and what it has counted, committed and not
\* yet tracked, for every number of servers and any deployment.
THEOREM GaugesInductive == GaugesSpec => []GaugesInv
<1>1. GaugesInv /\ [GaugesNext]_gaugesVars => GaugesInv'
  <2> SUFFICES ASSUME GaugesInv, [GaugesNext]_gaugesVars PROVE GaugesInv'
    OBVIOUS
  <2>1. CASE UNCHANGED gaugesVars
    BY <2>1 DEF gaugesVars, system, hooks, refreshes, GaugesInv, GaugesTyped, PhaseAt,
       CountedAt, SingleInstance, NetworkGaugeExact, SubnetGaugeNeverShort, Tracked
  <2>2. CASE GaugesNext
    <3>1. PICK s \in Server : Operate(s) \/ Crash(s) \/ Refreshes(s)
      BY <2>2 DEF GaugesNext
    <3>2. UNCHANGED deployment
      BY <2>2 DEF GaugesNext
    <3>3. QED
      BY <3>1, <3>2, CommitCreateKeeps, CommitDeleteKeeps, TrackKeeps, CrashKeeps,
         RefreshGaugesKeeps DEF Operate
  <2>3. QED
    BY <2>1, <2>2
<1>2. QED
  BY <1>1, GaugesStart, PTL DEF GaugesSpec

\* Without the loop the one server of a database never miscounts networks
\* (metrics.go:157-195).
THEOREM NetworksNeverMiscounted == GaugesSpec => []NetworkGaugeExact
<1>1. GaugesInv => NetworkGaugeExact
  BY DEF GaugesInv
<1>2. QED
  BY <1>1, GaugesInductive, PTL

\* Nor does it count a subnet too few (subnet.go, network.go:181).
THEOREM SubnetsNeverShort == GaugesSpec => []SubnetGaugeNeverShort
<1>1. GaugesInv => SubnetGaugeNeverShort
  BY DEF GaugesInv
<1>2. QED
  BY <1>1, GaugesInductive, PTL

-----------------------------------------------------------------------------
(* The cache of signing keys.                                              *)

LEMMA LocalsTyped ==
    /\ NoLocals \in Locals
    /\ \A x \in Row \cup {Absent} : published \in Kid => KeysOf(x) \subseteq Kid
BY JwksAssumption, AbsentAssumption DEF NoLocals, Locals, KeysOf, Row, Kid

LEMMA JwksStart == JwksInit => JwksInv
<1> SUFFICES ASSUME JwksInit PROVE JwksInv
  OBVIOUS
<1>1. 0 \in Kid /\ 0 \in 0..Horizon
  BY JwksAssumption DEF Kid
<1>2. JwksTyped
  BY <1>1, LocalsTyped DEF JwksInit, JwksTyped, Row, Stage
<1>3. ASSUME NEW r \in Call
      PROVE  CallAt(r) /\ FetchedAt(r)
  BY DEF JwksInit, CallAt, FetchedAt, NoLocals, Calling
<1>4. QED
  BY <1>1, <1>2, <1>3 DEF JwksInit, JwksInv, CacheInv

\* The last instant at which a key was in force only moves on; for the keys that
\* somebody may use it is now.
LEMMA HistoryGrows ==
    ASSUME JwksInv, Observe, time' \in 0..Horizon, time <= time'
    PROVE  /\ inForce' \in [Kid -> 0..Horizon] /\ always' \in [Call -> BOOLEAN]
           /\ \A k \in Kid : inForce[k] <= inForce'[k] /\ inForce'[k] <= time'
           /\ \A k \in Kid \cap CurrentInFlight : inForce'[k] = time'
<1>1. inForce \in [Kid -> 0..Horizon] /\ \A k \in Kid : inForce[k] <= time
  BY DEF JwksInv, JwksTyped
<1>2. time \in 0..Horizon
  BY DEF JwksInv, JwksTyped
<1>3. ASSUME NEW k \in Kid
      PROVE  inForce'[k] \in {time', inForce[k]} /\ (k \in CurrentInFlight => inForce'[k] = time')
  BY DEF Observe
<1>4. inForce' \in [Kid -> 0..Horizon]
  BY <1>1, <1>3 DEF Observe
<1>5. always' \in [Call -> BOOLEAN]
  BY DEF Observe
<1>6. QED
  BY <1>1, <1>2, <1>3, <1>4, <1>5, JwksAssumption

\* A key that has been in force all the time now is one of the row's.
LEMMA AlwaysSince ==
    ASSUME Observe, NEW r \in Call, always'[r]
    PROVE  /\ stage'[r] # "idle" /\ (stage[r] = "idle" \/ always[r])
           /\ loc'[r].kid \in KeysOf(loc[r].row)'
BY DEF Observe

\* A step of request r: the others stay where they are.
CallMoves(r) ==
    /\ stage' \in [Call -> Stage] /\ loc' \in [Call -> Locals]
    /\ \A q \in Call \ {r} : UNCHANGED <<stage[q], loc[q]>>

LEMMA ProceedMoves ==
    ASSUME JwksTyped, NEW r \in Call, NEW l \in Stage, NEW new \in Locals, Proceed(r, l, new)
    PROVE  CallMoves(r) /\ stage'[r] = l /\ loc'[r] = new
BY DEF JwksTyped, Proceed, CallMoves

LEMMA FinishMoves ==
    ASSUME JwksTyped, NEW r \in Call, NEW v, Finish(r, v)
    PROVE  CallMoves(r) /\ stage'[r] = "idle" /\ loc'[r] = NoLocals
BY LocalsTyped DEF JwksTyped, Finish, CallMoves, Stage

\* What a step of r has to do for the invariant: its own part, its part of the
\* cache, and the types.
LEMMA CallKeeps ==
    ASSUME JwksInv, Observe, NEW r \in Call, CallMoves(r), UNCHANGED <<time, published>>,
           row' \in Row \cup {Absent}, cache' \in [Process -> Entry \cup {Absent}],
           CallAt(r)', FetchedAt(r)',
           \A s \in Process : cache'[s] # Absent =>
              \/ cache'[s] = cache[s]
              \/ cache'[s].set \in Kid /\ cache'[s].fetchedAt <= inForce[cache'[s].set] + Timeout
    PROVE  JwksInv'
<1>1. time \in 0..Horizon /\ time \in Nat /\ Timeout \in Nat
  BY JwksAssumption DEF JwksInv, JwksTyped
<1>2. /\ inForce' \in [Kid -> 0..Horizon] /\ always' \in [Call -> BOOLEAN]
      /\ \A k \in Kid : inForce[k] <= inForce'[k] /\ inForce'[k] <= time'
  BY <1>1, HistoryGrows
<1>3. JwksTyped'
  BY <1>1, <1>2 DEF JwksInv, JwksTyped, CallMoves
<1>4. inForce \in [Kid -> Nat] /\ inForce' \in [Kid -> Nat]
  BY <1>2, JwksAssumption DEF JwksInv, JwksTyped
<1>5. CacheInv'
  <2> SUFFICES ASSUME NEW s \in Process, cache'[s] # Absent
               PROVE  cache'[s].fetchedAt <= inForce'[cache'[s].set] + Timeout
    BY DEF CacheInv
  <2>1. cache'[s].set \in Kid /\ cache'[s].fetchedAt \in Nat
    BY JwksAssumption DEF Entry
  <2>2. cache'[s].fetchedAt <= inForce[cache'[s].set] + Timeout
    BY DEF JwksInv, CacheInv
  <2>3. QED
    BY <1>1, <1>2, <1>4, <2>1, <2>2
<1>6. ASSUME NEW q \in Call
      PROVE  CallAt(q)' /\ FetchedAt(q)'
  <2>1. CASE q # r
    <3>1. UNCHANGED <<stage[q], loc[q], time>> /\ CallAt(q) /\ FetchedAt(q)
      BY <2>1 DEF CallMoves, JwksInv
    <3>2. CallAt(q)'
      BY <3>1 DEF CallAt
    <3>3. FetchedAt(q)'
      <4>1. SUFFICES ASSUME stage[q] = "store"
                     PROVE  /\ loc[q].set \in Kid /\ loc[q].since <= inForce'[loc[q].set]
                            /\ always'[q] => loc[q].set = loc[q].kid
        BY <3>1 DEF FetchedAt
      <4>2. loc[q].set \in Kid /\ loc[q].since <= inForce[loc[q].set] /\ loc[q].since \in Nat
        BY <3>1, <4>1, JwksAssumption DEF FetchedAt, JwksInv, JwksTyped, Locals
      <4>3. loc[q].since <= inForce'[loc[q].set]
        BY <1>2, <1>4, <4>2
      <4>4. always'[q] => loc[q].set = loc[q].kid
        BY <3>1, <4>1, AlwaysSince DEF FetchedAt
      <4>5. QED
        BY <4>2, <4>3, <4>4
    <3>4. QED
      BY <3>2, <3>3
  <2>2. QED
    BY <2>1
<1>7. QED
  BY <1>2, <1>3, <1>5, <1>6 DEF JwksInv

\* One update of the locals at a time.
LEMMA LocalsMove ==
    ASSUME JwksInv, NEW r \in Call
    PROVE  /\ time \in Nat /\ time \in 0..Horizon /\ Timeout \in Nat /\ stage[r] \in Stage
           /\ loc[r] \in Locals /\ loc[r].since \in Nat /\ CallAt(r) /\ FetchedAt(r)
           /\ [loc[r] EXCEPT !.since = time] \in Locals
           /\ \A k \in Kid : [loc[r] EXCEPT !.set = k] \in Locals
<1>1. time \in 0..Horizon /\ loc[r] \in Locals /\ stage[r] \in Stage /\ CallAt(r) /\ FetchedAt(r)
  BY DEF JwksInv, JwksTyped
<1>2. time \in Nat /\ Timeout \in Nat /\ loc[r].since \in Nat
  BY <1>1, JwksAssumption DEF Locals
<1>3. /\ [loc[r] EXCEPT !.since = time] \in Locals
      /\ \A k \in Kid : [loc[r] EXCEPT !.set = k] \in Locals
  BY <1>1 DEF Locals
<1>4. QED
  BY <1>1, <1>2, <1>3

\* Where a step may leave its request: at rest, at the database, or with the clock
\* of its HTTP call started anew; but not on its way into the cache.
LEMMA CallAtMoves ==
    ASSUME JwksInv, NEW r \in Call, time' = time,
           \/ stage'[r] = "idle" /\ loc'[r].since <= time
           \/ /\ stage'[r] \in {"write", "invalidate"} /\ loc'[r].row \in Row
              /\ loc'[r].since <= time
           \/ /\ stage'[r] \in {"discover", "fetch"} /\ loc'[r].row \in Row
              /\ loc'[r].since = time
    PROVE  CallAt(r)' /\ FetchedAt(r)'
<1>1. time \in Nat /\ Timeout \in Nat
  BY LocalsMove
<1>2. loc'[r].since <= time /\ (stage'[r] # "idle" => loc'[r].row \in Row)
  BY <1>1
<1>3. stage'[r] \in Calling => time <= loc'[r].since + Timeout
  BY <1>1 DEF Calling
<1>4. QED
  BY <1>2, <1>3 DEF CallAt, FetchedAt

LEMMA RestAt ==
    ASSUME JwksInv, NEW r \in Call, UNCHANGED time, stage'[r] = "idle", loc'[r] = NoLocals
    PROVE  CallAt(r)' /\ FetchedAt(r)'
<1>1. NoLocals.since <= time
  <2>1. time \in Nat
    BY LocalsMove
  <2>2. QED
    BY <2>1 DEF NoLocals
<1>2. QED
  BY <1>1, CallAtMoves

\* The first of the HTTP calls, with a clock of its own.
LEMMA StartFetchKeeps ==
    ASSUME JwksInv, NEW r \in Call, NEW f \in BOOLEAN, stage[r] # "idle", UNCHANGED time,
           StartFetch(r, f)
    PROVE  CallMoves(r) /\ CallAt(r)' /\ FetchedAt(r)'
<1> DEFINE new == [loc[r] EXCEPT !.forced = f, !.since = time]
           next == IF loc[r].row.mode = "discovery" THEN "discover" ELSE "fetch"
<1>1. JwksTyped /\ loc[r] \in Locals /\ loc[r].row \in Row /\ time \in 0..Horizon
  BY LocalsMove DEF JwksInv, CallAt
<1>2. new \in Locals /\ new.row = loc[r].row /\ new.since = time
  BY <1>1 DEF Locals
<1>3. next \in {"discover", "fetch"} /\ next \in Stage
  BY DEF Stage, Calling
<1>4. Proceed(r, next, new)
  BY DEF StartFetch
<1> HIDE DEF new, next
<1>5. CallMoves(r) /\ stage'[r] = next /\ loc'[r] = new
  BY <1>1, <1>2, <1>3, <1>4, ProceedMoves
<1>6. QED
  BY <1>1, <1>2, <1>3, <1>5, CallAtMoves

LEMMA JudgeKeeps ==
    ASSUME JwksInv, NEW r \in Call, NEW set, stage[r] # "idle", UNCHANGED time, Judge(r, set)
    PROVE  CallMoves(r) /\ CallAt(r)' /\ FetchedAt(r)'
<1>1. JwksTyped
  BY DEF JwksInv
<1>2. CASE StartFetch(r, TRUE)
  BY <1>2, StartFetchKeeps
<1>3. ASSUME NEW v, Finish(r, v)
      PROVE  CallMoves(r) /\ CallAt(r)' /\ FetchedAt(r)'
  BY <1>1, <1>3, FinishMoves, RestAt
<1>4. QED
  BY <1>2, <1>3 DEF Judge

LEMMA ReceiveKeeps == ASSUME JwksInv, Observe, NEW r \in Call, Receive(r) PROVE JwksInv'
<1>1. JwksTyped /\ row' \in Row \cup {Absent} /\ cache' = cache
      /\ cache' \in [Process -> Entry \cup {Absent}] /\ UNCHANGED <<time, published>>
  BY DEF Receive, env, JwksInv, JwksTyped
<1>2. CallMoves(r) /\ CallAt(r)' /\ FetchedAt(r)'
  <2>1. PICK op \in {"verify", "update", "refresh"}, k \in Kid :
            IF row = Absent THEN Finish(r, "notFound")
            ELSE Proceed(r, CASE op = "verify" -> "lookup" [] op = "update" -> "write"
                             [] op = "refresh" -> "invalidate",
                        [NoLocals EXCEPT !.op = op, !.kid = k, !.row = row])
    BY DEF Receive
  <2>2. CASE row = Absent
    <3>1. CallMoves(r) /\ stage'[r] = "idle" /\ loc'[r] = NoLocals
      BY <1>1, <2>1, <2>2, FinishMoves
    <3>2. QED
      BY <1>1, <3>1, RestAt
  <2>3. CASE row # Absent
    <3> DEFINE new == [NoLocals EXCEPT !.op = op, !.kid = k, !.row = row]
               next == CASE op = "verify" -> "lookup" [] op = "update" -> "write"
                         [] op = "refresh" -> "invalidate"
    <3>1. next \in {"lookup", "write", "invalidate"}
      OBVIOUS
    <3>2. row \in Row /\ new \in Locals /\ new.row = row /\ new.since = 0 /\ ~new.forced
      <4>1. row \in Row /\ time \in 0..Horizon
        BY <1>1, <2>3, LocalsMove DEF JwksTyped
      <4>2. QED
        BY <4>1, LocalsTyped DEF Locals, NoLocals
    <3>3. CallMoves(r) /\ stage'[r] = next /\ loc'[r] = new
      <4>1. Proceed(r, next, new) /\ next \in Stage
        BY <2>1, <2>3, <3>1 DEF Stage
      <4> HIDE DEF next, new
      <4>2. QED
        BY <1>1, <3>2, <4>1, ProceedMoves
    <3> HIDE DEF next, new
    <3>4. time \in Nat
      BY LocalsMove
    <3>5. QED
      BY <1>1, <3>1, <3>2, <3>3, <3>4 DEF CallAt, FetchedAt, Calling
  <2>4. QED
    BY <2>2, <2>3
<1>3. QED
  BY <1>1, <1>2, CallKeeps

LEMMA LookupKeeps == ASSUME JwksInv, Observe, NEW r \in Call, Lookup(r) PROVE JwksInv'
<1>1. JwksTyped /\ row' \in Row \cup {Absent} /\ cache' = cache
      /\ cache' \in [Process -> Entry \cup {Absent}] /\ UNCHANGED <<time, published>>
  BY DEF Lookup, env, JwksInv, JwksTyped
<1>2. stage[r] = "lookup" /\ CallAt(r) /\ loc[r] \in Locals
  BY LocalsMove DEF Lookup
<1>3. CallMoves(r) /\ CallAt(r)' /\ FetchedAt(r)'
  <2>1. CASE Fresh(ProcessOf[r])
    BY <1>1, <1>2, <2>1, JudgeKeeps DEF Lookup
  <2>2. CASE ~Fresh(ProcessOf[r])
    <3>1. StartFetch(r, FALSE)
      BY <2>2 DEF Lookup
    <3>2. QED
      BY <1>1, <1>2, <3>1, StartFetchKeeps
  <2>3. QED
    BY <2>1, <2>2
<1>4. QED
  BY <1>1, <1>3, CallKeeps

LEMMA DiscoverKeeps == ASSUME JwksInv, Observe, NEW r \in Call, Discover(r) PROVE JwksInv'
<1> DEFINE new == [loc[r] EXCEPT !.since = time]
<1>1. JwksTyped /\ row' \in Row \cup {Absent} /\ cache' = cache
      /\ cache' \in [Process -> Entry \cup {Absent}] /\ UNCHANGED <<time, published>>
  BY DEF Discover, env, JwksInv, JwksTyped
<1>2. stage[r] = "discover" /\ loc[r] \in Locals /\ loc[r].row \in Row /\ time \in Nat
  BY LocalsMove DEF Discover, CallAt
<1>3. new \in Locals /\ new.row = loc[r].row /\ new.since = time
  BY <1>2, LocalsMove DEF Locals
<1>4. Proceed(r, "fetch", new) /\ "fetch" \in Stage
  BY DEF Discover, Stage, Calling
<1> HIDE DEF new
<1>5. CallMoves(r) /\ stage'[r] = "fetch" /\ loc'[r] = new
  BY <1>1, <1>3, <1>4, ProceedMoves
<1>6. CallAt(r)' /\ FetchedAt(r)'
  BY <1>1, <1>2, <1>3, <1>5, CallAtMoves
<1>7. QED
  BY <1>1, <1>5, <1>6, CallKeeps

\* The set that is fetched is in force now by the row of the request: the only
\* key of that row, and thus the one of the request, if that was always in force.
LEMMA FetchKeeps == ASSUME JwksInv, Observe, NEW r \in Call, Fetch(r) PROVE JwksInv'
<1> DEFINE set == IF loc[r].row.mode = "static" THEN loc[r].row.keys ELSE published
           new == [loc[r] EXCEPT !.set = set]
<1>1. JwksTyped /\ row' \in Row \cup {Absent} /\ cache' = cache
      /\ cache' \in [Process -> Entry \cup {Absent}] /\ UNCHANGED <<time, published>>
  BY DEF Fetch, env, JwksInv, JwksTyped
<1>2. /\ stage[r] = "fetch" /\ CallAt(r) /\ loc[r] \in Locals /\ loc[r].row \in Row
      /\ time \in Nat /\ time \in 0..Horizon
  BY LocalsMove DEF Fetch, CallAt
<1>3. set \in Kid /\ KeysOf(loc[r].row) = {set}
  BY <1>1, <1>2, AbsentAssumption DEF Row, JwksTyped, KeysOf
<1>4. new \in Locals /\ new = [loc[r] EXCEPT !.set = set]
  BY <1>2, <1>3 DEF Locals
<1>5. new.row = loc[r].row /\ new.since = loc[r].since /\ new.kid = loc[r].kid /\ new.set = set
  BY <1>2 DEF Locals
<1>6. Proceed(r, "store", new)
  BY DEF Fetch
<1> HIDE DEF new
<1>7. CallMoves(r) /\ stage'[r] = "store" /\ loc'[r] = new
  BY <1>1, <1>4, <1>6, ProceedMoves DEF Stage, Calling
<1>8. set \in Kid \cap CurrentInFlight
  BY <1>3 DEF CurrentInFlight
<1>9. KeysOf(loc[r].row)' = {set}
  <2>1. KeysOf(loc[r].row)' = KeysOf(loc[r].row)
    BY <1>1, <1>5, <1>7 DEF KeysOf
  <2>2. QED
    BY <1>3, <2>1
<1> HIDE DEF set
<1>10. inForce'[set] = time /\ time' = time
  <2>1. time <= time' /\ time' \in 0..Horizon /\ time' = time
    BY <1>1, <1>2
  <2>2. QED
    BY <1>8, <2>1, HistoryGrows
<1>11. CallAt(r)'
  BY <1>1, <1>2, <1>5, <1>7 DEF CallAt, Calling
<1>12. FetchedAt(r)'
  <2>1. loc'[r].since <= inForce'[set]
    BY <1>2, <1>5, <1>7, <1>10 DEF CallAt
  <2>2. always'[r] => loc'[r].set = loc'[r].kid
    BY <1>5, <1>7, <1>9, AlwaysSince
  <2>3. QED
    BY <1>3, <1>5, <1>7, <2>1, <2>2 DEF FetchedAt
<1>13. QED
  BY <1>1, <1>7, <1>11, <1>12, CallKeeps

LEMMA FetchFailsKeeps == ASSUME JwksInv, Observe, NEW r \in Call, FetchFails(r) PROVE JwksInv'
<1>1. JwksTyped /\ row' \in Row \cup {Absent} /\ cache' = cache
      /\ cache' \in [Process -> Entry \cup {Absent}] /\ UNCHANGED <<time, published>>
  BY DEF FetchFails, env, JwksInv, JwksTyped
<1>2. CallMoves(r) /\ CallAt(r)' /\ FetchedAt(r)'
  BY <1>1, FinishMoves, RestAt DEF FetchFails
<1>3. QED
  BY <1>1, <1>2, CallKeeps

\* A set enters the cache at most a timeout after it has been in force.
LEMMA StoreKeysKeeps == ASSUME JwksInv, Observe, NEW r \in Call, StoreKeys(r) PROVE JwksInv'
<1> DEFINE entry == [set |-> loc[r].set, fetchedAt |-> time]
<1>1. JwksTyped /\ row' \in Row \cup {Absent} /\ UNCHANGED <<time, published>>
  BY DEF StoreKeys, env, JwksInv, JwksTyped
<1>2. stage[r] = "store" /\ Judge(r, loc[r].set) /\ cache' = [cache EXCEPT ![ProcessOf[r]] = entry]
  BY DEF StoreKeys
<1>3. /\ loc[r].set \in Kid /\ loc[r].since <= inForce[loc[r].set]
      /\ time <= loc[r].since + Timeout
  BY <1>2, LocalsMove DEF FetchedAt, CallAt, Calling
<1>4. /\ time \in Nat /\ time \in 0..Horizon /\ Timeout \in Nat /\ loc[r].since \in Nat
      /\ inForce[loc[r].set] \in Nat
  <2>1. inForce[loc[r].set] \in 0..Horizon
    BY <1>1, <1>3 DEF JwksTyped
  <2>2. inForce[loc[r].set] \in Nat
    BY <2>1, JwksAssumption
  <2>3. QED
    BY <2>2, LocalsMove
<1>5. entry \in Entry /\ entry.set \in Kid
      /\ entry.fetchedAt <= inForce[entry.set] + Timeout
  BY <1>3, <1>4 DEF Entry
<1>6. cache' \in [Process -> Entry \cup {Absent}]
  BY <1>1, <1>2, <1>5 DEF JwksTyped
<1>7. \A s \in Process : cache'[s] = cache[s] \/ cache'[s] = entry
  BY <1>1, <1>2 DEF JwksTyped
<1> HIDE DEF entry
<1>8. CallMoves(r) /\ CallAt(r)' /\ FetchedAt(r)'
  BY <1>1, <1>2, JudgeKeeps
<1>9. QED
  BY <1>1, <1>5, <1>6, <1>7, <1>8, CallKeeps

LEMMA WriteRowKeeps == ASSUME JwksInv, Observe, NEW r \in Call, WriteRow(r) PROVE JwksInv'
<1>1. JwksTyped /\ cache' = cache /\ cache' \in [Process -> Entry \cup {Absent}]
      /\ UNCHANGED <<time, published>>
  BY DEF WriteRow, JwksInv, JwksTyped
<1>2. stage[r] = "write" /\ CallAt(r) /\ loc[r] \in Locals
  BY LocalsMove DEF WriteRow
<1>3. row' \in Row \cup {Absent} /\ CallMoves(r) /\ CallAt(r)' /\ FetchedAt(r)'
  <2>1. CASE row = Absent
    BY <1>1, <2>1, FinishMoves, RestAt DEF WriteRow
  <2>2. CASE row # Absent
    <3>1. row' \in Row \cup {Absent}
      <4>1. loc[r].kid \in Kid
        BY <1>2 DEF Locals
      <4>2. QED
        BY <2>2, <4>1 DEF WriteRow, Row
    <3>2. CallMoves(r) /\ stage'[r] = "invalidate" /\ loc'[r] = loc[r]
      <4>1. Proceed(r, "invalidate", loc[r])
        BY <2>2 DEF WriteRow
      <4>2. QED
        BY <1>1, <1>2, <4>1, ProceedMoves DEF Stage
    <3>3. QED
      BY <1>1, <1>2, <3>1, <3>2, CallAtMoves DEF CallAt
  <2>3. QED
    BY <2>1, <2>2
<1>4. QED
  BY <1>1, <1>3, CallKeeps

LEMMA InvalidateKeysKeeps ==
    ASSUME JwksInv, Observe, NEW r \in Call, InvalidateKeys(r) PROVE JwksInv'
<1>1. JwksTyped /\ row' \in Row \cup {Absent} /\ UNCHANGED <<time, published>>
  BY DEF InvalidateKeys, env, JwksInv, JwksTyped
<1>2. stage[r] = "invalidate" /\ CallAt(r) /\ loc[r] \in Locals
  BY LocalsMove DEF InvalidateKeys
<1>3. /\ cache' \in [Process -> Entry \cup {Absent}]
      /\ \A s \in Process : cache'[s] # Absent => cache'[s] = cache[s]
  BY <1>1 DEF InvalidateKeys, JwksTyped
<1>4. CallMoves(r) /\ CallAt(r)' /\ FetchedAt(r)'
  <2>1. CASE loc[r].op = "refresh"
    <3>1. StartFetch(r, FALSE)
      BY <2>1 DEF InvalidateKeys
    <3>2. QED
      BY <1>1, <1>2, <3>1, StartFetchKeeps
  <2>2. CASE loc[r].op # "refresh"
    BY <1>1, <2>2, FinishMoves, RestAt DEF InvalidateKeys
  <2>3. QED
    BY <2>1, <2>2
<1>5. QED
  BY <1>1, <1>3, <1>4, CallKeeps

\* Nobody moves: the issuer rotates its key, or time passes.
LEMMA EnvironmentKeeps ==
    ASSUME JwksInv, Observe, UNCHANGED <<row, cache, stage, loc>>,
           time' \in 0..Horizon, time <= time', published' \in Kid,
           \A r \in Call : stage[r] \in Calling => time' <= loc[r].since + Timeout
    PROVE  JwksInv'
<1>1. JwksTyped /\ time \in Nat /\ time' \in Nat /\ Timeout \in Nat
  BY JwksAssumption DEF JwksInv, JwksTyped
<1>2. /\ inForce' \in [Kid -> 0..Horizon] /\ always' \in [Call -> BOOLEAN]
      /\ \A k \in Kid : inForce[k] <= inForce'[k] /\ inForce'[k] <= time'
  BY HistoryGrows
<1>3. JwksTyped'
  BY <1>1, <1>2 DEF JwksTyped
<1>4. inForce \in [Kid -> Nat] /\ inForce' \in [Kid -> Nat]
  BY <1>1, <1>2, JwksAssumption DEF JwksTyped
<1>5. CacheInv'
  <2> SUFFICES ASSUME NEW s \in Process, cache[s] # Absent
               PROVE  cache[s].fetchedAt <= inForce'[cache[s].set] + Timeout
    BY DEF CacheInv
  <2>1. cache[s].set \in Kid /\ cache[s].fetchedAt \in Nat
    BY <1>1, JwksAssumption DEF JwksTyped, Entry
  <2>2. cache[s].fetchedAt <= inForce[cache[s].set] + Timeout
    BY DEF JwksInv, CacheInv
  <2>3. QED
    BY <1>1, <1>2, <1>4, <2>1, <2>2
<1>6. ASSUME NEW r \in Call
      PROVE  CallAt(r)' /\ FetchedAt(r)'
  <2>1. loc[r].since \in Nat /\ CallAt(r) /\ FetchedAt(r)
    BY LocalsMove
  <2>2. CallAt(r)'
    BY <1>1, <2>1 DEF CallAt
  <2>3. FetchedAt(r)'
    <3>1. SUFFICES ASSUME stage[r] = "store"
                   PROVE  /\ loc[r].set \in Kid /\ loc[r].since <= inForce'[loc[r].set]
                          /\ always'[r] => loc[r].set = loc[r].kid
      BY DEF FetchedAt
    <3>2. loc[r].set \in Kid /\ loc[r].since <= inForce[loc[r].set]
      BY <2>1, <3>1 DEF FetchedAt
    <3>3. loc[r].since <= inForce'[loc[r].set]
      BY <1>2, <1>4, <2>1, <3>2
    <3>4. always'[r] => loc[r].set = loc[r].kid
      BY <2>1, <3>1, AlwaysSince DEF FetchedAt
    <3>5. QED
      BY <3>2, <3>3, <3>4
  <2>4. QED
    BY <2>2, <2>3
<1>7. QED
  BY <1>2, <1>3, <1>5, <1>6 DEF JwksInv

LEMMA JwksKeeps == ASSUME JwksInv, [JwksNext]_jwksVars PROVE JwksInv'
<1>0. time \in Nat /\ time \in 0..Horizon /\ Horizon \in Nat /\ Timeout \in Nat
  BY JwksAssumption DEF JwksInv, JwksTyped
<1>1. CASE \E r \in Call : Serve(r) /\ Observe
  BY <1>1, ReceiveKeeps, LookupKeeps, DiscoverKeeps, FetchKeeps, FetchFailsKeeps,
     StoreKeysKeeps, WriteRowKeeps, InvalidateKeysKeeps DEF Serve
<1>2. ASSUME NEW r \in Call, stage[r] \in Calling
      PROVE  /\ time <= loc[r].since + Timeout
             /\ time - loc[r].since < Timeout => time + 1 <= loc[r].since + Timeout
  <2>1. time <= loc[r].since + Timeout /\ loc[r].since \in Nat
    BY <1>2, LocalsMove DEF CallAt
  <2>2. QED
    BY <1>0, <2>1
<1>3. CASE Rotate /\ Observe
  <2>1. published' \in Kid
    BY <1>3, JwksAssumption DEF Rotate, JwksInv, JwksTyped, Kid
  <2>2. QED
    BY <1>0, <1>2, <1>3, <2>1, EnvironmentKeeps DEF Rotate
<1>4. CASE Elapse /\ Observe
  <2>1. time' = time + 1 /\ time' \in 0..Horizon /\ time <= time'
    BY <1>0, <1>4 DEF Elapse
  <2>2. published' \in Kid
    BY <1>4 DEF Elapse, JwksInv, JwksTyped
  <2>3. QED
    BY <1>2, <1>4, <2>1, <2>2, EnvironmentKeeps DEF Elapse
<1>5. CASE UNCHANGED jwksVars
  BY <1>5 DEF jwksVars, env, process, history, JwksInv, JwksTyped, CacheInv, CallAt, FetchedAt
<1>6. QED
  BY <1>1, <1>3, <1>4, <1>5 DEF JwksNext

\* What is known of a fetch in progress and of a cached set, for every number of
\* requests and processes, every lifetime of an entry and every timeout.
THEOREM JwksInductive == JwksSpec => []JwksInv
<1>1. JwksInv /\ [JwksNext]_jwksVars => JwksInv'
  BY JwksKeeps
<1>2. QED
  BY <1>1, JwksStart, PTL DEF JwksSpec

\* What Judge decides.
LEMMA JudgeDecides ==
    ASSUME NEW r \in Call, NEW q \in Call, NEW set, Judge(r, set)
    PROVE  /\ verdict'[q] = "accepted" => q = r /\ set = loc[r].kid
           /\ verdict'[q] = "unknown" => q = r /\ set # loc[r].kid /\ loc[r].forced
BY DEF Judge, StartFetch, Proceed, Finish, NoVerdict

\* Any other step neither accepts a key nor calls one unknown.
LEMMA OthersDecideNothing ==
    ASSUME JwksNext, NEW q \in Call, verdict'[q] \in {"accepted", "unknown"}
    PROVE  \E r \in Call : (Lookup(r) /\ Fresh(ProcessOf[r])) \/ StoreKeys(r)
BY DEF JwksNext, Serve, Receive, Lookup, Discover, Fetch, FetchFails, WriteRow, InvalidateKeys,
       Rotate, Elapse, StartFetch, Proceed, Finish, NoVerdict

LEMMA StaleKeysExpireStep ==
    ASSUME JwksInv, JwksNext, NEW q \in Call, Decides(q, "accepted")
    PROVE  time - inForce[loc[q].kid] < TTL + Timeout
<1>1. PICK r \in Call : (Lookup(r) /\ Fresh(ProcessOf[r])) \/ StoreKeys(r)
  BY OthersDecideNothing DEF Decides
<1>2. time \in Nat /\ Timeout \in Nat /\ TTL \in Nat /\ TTL >= 1 /\ inForce \in [Kid -> Nat]
  BY JwksAssumption DEF JwksInv, JwksTyped
<1>3. CASE Lookup(r) /\ Fresh(ProcessOf[r])
  <2> DEFINE entry == cache[ProcessOf[r]]
  <2>1. entry \in Entry /\ time - entry.fetchedAt < TTL
        /\ entry.fetchedAt <= inForce[entry.set] + Timeout
    BY <1>3, JwksAssumption DEF Fresh, JwksInv, JwksTyped, CacheInv
  <2>2. entry.set \in Kid /\ entry.fetchedAt \in Nat
    BY <2>1, JwksAssumption DEF Entry
  <2>3. q = r /\ entry.set = loc[r].kid
    BY <1>3, JudgeDecides DEF Lookup, Decides
  <2> HIDE DEF entry
  <2>4. time - inForce[entry.set] < TTL + Timeout
    BY <1>2, <2>1, <2>2
  <2>5. QED
    BY <2>3, <2>4
<1>4. CASE StoreKeys(r)
  <2>1. q = r /\ loc[r].set = loc[r].kid
    BY <1>4, JudgeDecides DEF StoreKeys, Decides
  <2>2. /\ loc[r].set \in Kid /\ loc[r].since <= inForce[loc[r].set] /\ loc[r].since \in Nat
        /\ time <= loc[r].since + Timeout
    BY <1>4, LocalsMove DEF StoreKeys, FetchedAt, CallAt, Calling
  <2>3. time - inForce[loc[r].set] < TTL + Timeout
    BY <1>2, <2>2
  <2>4. QED
    BY <2>1, <2>3
<1>5. QED
  BY <1>1, <1>3, <1>4

LEMMA CurrentKeysAcceptedStep ==
    ASSUME JwksInv, JwksNext, NEW q \in Call, Decides(q, "unknown")
    PROVE  ~always[q]
<1>1. PICK r \in Call : (Lookup(r) /\ Fresh(ProcessOf[r])) \/ StoreKeys(r)
  BY OthersDecideNothing DEF Decides
<1>2. CASE Lookup(r) /\ Fresh(ProcessOf[r])
  <2>1. loc[r].forced
    BY <1>2, JudgeDecides DEF Lookup, Decides
  <2>2. ~loc[r].forced
    BY <1>2, LocalsMove DEF Lookup, CallAt
  <2>3. QED
    BY <2>1, <2>2
<1>3. CASE StoreKeys(r)
  <2>1. q = r /\ loc[r].set # loc[r].kid
    BY <1>3, JudgeDecides DEF StoreKeys, Decides
  <2>2. QED
    BY <1>3, <2>1, LocalsMove DEF StoreKeys, FetchedAt
<1>4. QED
  BY <1>1, <1>2, <1>3

\* A withdrawn key is accepted for less than the lifetime of an entry and one
\* timeout (machine_auth.go:251-287).
THEOREM StaleKeysExpire == JwksSpec => StalenessBounded
<1>1. JwksInv /\ [JwksNext]_jwksVars =>
        [\A r \in Call : Decides(r, "accepted") =>
           time - inForce[loc[r].kid] < TTL + Timeout]_jwksVars
  BY StaleKeysExpireStep
<1>2. QED
  BY <1>1, JwksInductive, PTL DEF JwksSpec, StalenessBounded

\* A token whose key has been in force since it arrived is not turned away for
\* its kid (machine_auth.go:137-150).
THEOREM CurrentKeysAccepted == JwksSpec => CurrentKeyAccepted
<1>1. JwksInv /\ [JwksNext]_jwksVars =>
        [\A r \in Call : Decides(r, "unknown") => ~always[r]]_jwksVars
  BY CurrentKeysAcceptedStep
<1>2. QED
  BY <1>1, JwksInductive, PTL DEF JwksSpec, CurrentKeyAccepted
=============================================================================
