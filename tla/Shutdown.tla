------------------------------- MODULE Shutdown -----------------------------
(***************************************************************************)
(* SIGTERM on the native server with SQLite (cmd/kilhog/shutdown.go,       *)
(* main.go:37-61, 133-149, repository/db/store.go:48-134): main drains HTTP, *)
(* server, checkpoints the WAL, closes the database and shuts down the     *)
(* metrics provider before the platform kills it, while handlers and the   *)
(* metrics loop may still be running.  Time is counted since the signal.   *)
(***************************************************************************)
EXTENDS Naturals

CONSTANTS
    Req,            \* handler goroutines
    Grace,          \* cloudRunTerminationGrace
    FlushTimeout,   \* DefaultSQLiteFlushTimeout
    MetricsTimeout, \* of the deferred metricsProvider.Shutdown
    Overhead,       \* bound: the time main needs for its own steps altogether
    Main, Nil

ASSUME ShutdownAssumption ==
    /\ Grace \in Nat /\ FlushTimeout \in 1..Grace-1
    /\ MetricsTimeout \in Nat /\ Overhead \in 0..FlushTimeout-1
    /\ Main \notin Req /\ Nil \notin Req \cup {Main}

\* Mutant: the drain may take the whole grace period.
HttpTimeout_wholeGrace == Grace

HttpTimeout == IF Grace - FlushTimeout < 1 THEN 1 ELSE Grace - FlushTimeout

VARIABLES
    main,           \* where main is; "killed" and "crashed" end the process
    now,            \* time
    deadline,       \* when flushCtx expires
    until,          \* when the context of the metrics shutdown expires
    spent,          \* the time main's own steps have taken
    pc,             \* [Req -> where the handler is]
    severed,        \* server.Close has closed the connections
    cancelled,      \* the handlers that have seen their context cancelled
    writeMu,        \* Store.writeMu: a handler, Main or Nil
    db,             \* Store.DB: "open" or "nil"
    wal,            \* committed pages are in the -wal file only
    flushErr,       \* what Flush returned was an error
    refresh         \* where the goroutine of StartRefresh is

clock    == <<now, deadline, until, spent>>
handlers == <<pc, cancelled>>
store    == <<writeMu, db, wal, flushErr>>
vars     == <<main, clock, handlers, severed, store, refresh>>

Gone == {"exited", "killed", "crashed"}
Running == main \notin Gone
Stopping == main # "serving"

Init ==
    /\ main = "serving"
    /\ now = 0 /\ deadline = 0 /\ until = 0 /\ spent = 0
    /\ pc = [r \in Req |-> "idle"]
    /\ severed = FALSE /\ cancelled = {}
    /\ writeMu = Nil /\ db = "open" /\ wal \in BOOLEAN /\ flushErr = FALSE
    /\ refresh = "select"

Handling == {r \in Req : pc[r] # "idle"}
Connected == {r \in Req : pc[r] \in {"reading", "tx"}}

-----------------------------------------------------------------------------
(* Handlers: pool queries and write transactions.                          *)

Go(r, l) == pc' = [pc EXCEPT ![r] = l]

\* The handler returns, or panics and net/http recovers.
Return(r) == Go(r, "idle") /\ cancelled' = cancelled \ {r}

Accept(r) ==
    /\ main = "serving" /\ pc[r] = "idle"
    /\ \E l \in {"read", "write"} : Go(r, l)
    /\ UNCHANGED <<main, clock, severed, cancelled, store, refresh>>

\* A query takes a connection; a closed or nil database is an error or a panic.
Read(r) ==
    /\ Running /\ pc[r] = "read"
    /\ IF db = "open" /\ r \notin cancelled /\ main # "checkpoint"
       THEN Go(r, "reading") /\ UNCHANGED cancelled
       ELSE (db # "open" \/ r \in cancelled) /\ Return(r)
    /\ UNCHANGED <<main, clock, severed, store, refresh>>

\* SQLite checkpoints by itself when the last connection of a closed pool ends.
EndRead(r) ==
    /\ Running /\ pc[r] = "reading"
    /\ \/ Return(r)
       \/ r \notin cancelled /\ Go(r, "write") /\ UNCHANGED cancelled
    /\ wal' = (wal /\ ~(main \in {"metrics", "defers"} /\ Connected = {r}))
    /\ UNCHANGED <<main, clock, severed, writeMu, db, flushErr, refresh>>

\* WithWriteTx: the mutex, then BeginTx, whose failure or panic on a nil
\* database unlocks it again.
Lock(r) ==
    /\ Running /\ pc[r] = "write" /\ writeMu = Nil
    /\ IF db = "open" /\ r \notin cancelled
       THEN writeMu' = r /\ Go(r, "tx") /\ UNCHANGED cancelled
       ELSE Return(r) /\ UNCHANGED writeMu
    /\ UNCHANGED <<main, clock, severed, db, wal, flushErr, refresh>>

\* The transaction ends: a commit goes to the WAL, a failed statement or a
\* cancelled context rolls back.
EndTx(r) ==
    /\ Running /\ pc[r] = "tx"
    /\ wal' \in (IF r \in cancelled THEN {wal} ELSE {wal, TRUE})
    /\ writeMu' = Nil
    /\ Return(r)
    /\ UNCHANGED <<main, clock, severed, db, flushErr, refresh>>

\* The read in the background notices the closed connection, some time.
Cancel(r) ==
    /\ Running /\ severed /\ r \in Handling \ cancelled
    /\ cancelled' = cancelled \cup {r}
    /\ UNCHANGED <<main, clock, pc, severed, store, refresh>>

-----------------------------------------------------------------------------
(* The metrics loop: two counts per tick, none once it sees ctx.Done.      *)

\* A tick that is ready together with ctx.Done may be chosen as well.
RefreshTick ==
    /\ Running /\ refresh = "select"
    /\ refresh' \in ({"count"} \cup (IF Stopping THEN {"stopped"} ELSE {}))
    /\ UNCHANGED <<main, clock, handlers, severed, store>>

\* Count on a nil database panics, in a goroutine that nobody recovers.
RefreshCount ==
    /\ Running /\ refresh \in {"count", "countSubnets"}
    /\ IF db = "nil"
       THEN main' = "crashed" /\ UNCHANGED refresh
       ELSE /\ refresh' = IF refresh = "count" /\ ~Stopping /\ db = "open"
                          THEN "countSubnets" ELSE "select"
            /\ UNCHANGED main
    /\ UNCHANGED <<clock, handlers, severed, store>>

-----------------------------------------------------------------------------
(* main after the signal.                                                  *)

\* stopRefresh and the start of server.Shutdown.
Signal ==
    /\ main = "serving"
    /\ main' = "draining"
    /\ UNCHANGED <<clock, handlers, severed, store, refresh>>

\* Shutdown returns when no handler runs; after httpTimeout Close severs the
\* connections of those that do.
Drained ==
    /\ main = "draining"
    /\ Handling = {} \/ now >= HttpTimeout
    /\ severed' = (Handling # {})
    /\ main' = "flush" /\ deadline' = now + FlushTimeout
    /\ UNCHANGED <<now, until, spent, handlers, store, refresh>>

\* Flush locks the mutex, whatever the deadline of its context.
LockForFlush ==
    /\ main = "flush" /\ writeMu = Nil
    /\ writeMu' = Main /\ main' = "checkpoint"
    /\ UNCHANGED <<clock, handlers, severed, db, wal, flushErr, refresh>>

\* The checkpoint gets the one connection of the pool once no reader holds one,
\* and ends, with an error at the latest when the context expires.
Checkpoint ==
    /\ main = "checkpoint"
    /\ \/ Connected = {} /\ now <= deadline /\ wal' = FALSE /\ flushErr' = FALSE
       \/ now >= deadline /\ flushErr' = TRUE /\ UNCHANGED wal
    /\ writeMu' = Nil /\ main' = "clear"
    /\ UNCHANGED <<clock, handlers, severed, db, refresh>>

\* Mutant: DB is set to nil without the mutex.
Clear_noLock ==
    /\ main = "clear"
    /\ db' = "nil" /\ main' = "close"
    /\ UNCHANGED <<clock, handlers, severed, writeMu, wal, flushErr, refresh>>

\* CloseContext takes the mutex a second time to set DB to nil.
Clear ==
    /\ main = "clear" /\ writeMu = Nil
    /\ db' = "nil" /\ main' = "close"
    /\ UNCHANGED <<clock, handlers, severed, writeMu, wal, flushErr, refresh>>

\* Mutant: the handle is dropped and never closed.
CloseDB_dropped ==
    /\ main = "close"
    /\ main' = "metrics" /\ until' = now + MetricsTimeout
    /\ UNCHANGED <<now, deadline, spent, handlers, severed, store, refresh>>

\* sql.DB.Close: idle connections at once, the others when they are released.
CloseDB ==
    /\ main = "close"
    /\ wal' = (wal /\ Connected # {})
    /\ main' = "metrics" /\ until' = now + MetricsTimeout
    /\ UNCHANGED <<now, deadline, spent, handlers, severed, writeMu, db, flushErr, refresh>>

\* The defers of main, the last one first: the metrics provider flushes what it
\* has and stops, or its context expires.
ShutdownMetrics ==
    /\ main = "metrics"
    /\ main' = "defers"
    /\ UNCHANGED <<clock, handlers, severed, store, refresh>>

\* repos.Close locks the mutex and finds no database.
Defers ==
    /\ main = "defers" /\ writeMu = Nil
    /\ main' = "exited"
    /\ UNCHANGED <<clock, handlers, severed, store, refresh>>

MainStep ==
    \/ Drained \/ LockForFlush \/ Checkpoint \/ Clear \/ CloseDB
    \/ ShutdownMetrics \/ Defers

\* What main waits for: handlers, the mutex, the database, the exporter.
MainWaits ==
    \/ main = "draining" /\ Handling # {} /\ now < HttpTimeout
    \/ main \in {"flush", "clear", "defers"} /\ writeMu # Nil
    \/ main = "checkpoint" /\ now < deadline
    \/ main = "metrics" /\ now < until

\* Time passes while main waits; else it is what main's own steps take.
Tick ==
    /\ Running /\ Stopping /\ now < Grace
    /\ now' = now + 1
    /\ IF MainWaits THEN UNCHANGED spent ELSE spent < Overhead /\ spent' = spent + 1
    /\ UNCHANGED <<main, deadline, until, handlers, severed, store, refresh>>

\* SIGKILL, wherever main is.
Kill ==
    /\ Running /\ Stopping /\ now = Grace
    /\ main' = "killed"
    /\ UNCHANGED <<clock, handlers, severed, store, refresh>>

Handle(r) == Read(r) \/ EndRead(r) \/ Lock(r) \/ EndTx(r) \/ Cancel(r)

Next ==
    \/ \E r \in Req : Accept(r) \/ Handle(r)
    \/ RefreshTick \/ RefreshCount
    \/ Signal \/ MainStep \/ Tick \/ Kill

Spec == Init /\ [][Next]_vars

-----------------------------------------------------------------------------
\* No transaction is in flight when the handle is taken away, so that no commit
\* is cut off by the close, although handlers outlive the drain and may win the
\* mutex between the flush and the close (store.go:110-117).
ClosedBetweenWrites == db = "nil" => \A r \in Req : pc[r] # "tx"

\* SIGKILL finds main still at work only if a handler outlived the drain, or the
\* drain ended so late that the flush may still run and the metrics shutdown and
\* main's own work after it no longer fit (shutdown.go:26-58, main.go:55-61): no
\* mutex, panic or late transaction holds up the exit after a timely drain.
TimelyDrainExits ==
    main = "killed" => severed \/ deadline + MetricsTimeout + Overhead >= Grace

\* "After a clean shutdown the durable state is in kilhog.db, not a leftover
\* -wal sidecar" (TECHNICAL.md:175): also when handlers committed after the
\* checkpoint or kept it from ending, unless one still reads at the exit.
SyncedAtExit == main = "exited" /\ Connected = {} => ~wal

-----------------------------------------------------------------------------
(* The inductive invariant.                                                *)

TypeOK ==
    /\ main \in {"serving", "draining", "flush", "checkpoint", "clear", "close", "metrics",
                 "defers"} \cup Gone
    /\ now \in Nat /\ deadline \in Nat /\ until \in Nat /\ spent \in 0..Overhead
    /\ pc \in [Req -> {"idle", "read", "reading", "write", "tx"}]
    /\ severed \in BOOLEAN /\ cancelled \subseteq Req
    /\ writeMu \in Req \cup {Main, Nil}
    /\ db \in {"open", "nil"} /\ wal \in BOOLEAN /\ flushErr \in BOOLEAN
    /\ refresh \in {"select", "count", "countSubnets", "stopped"}

\* The mutex is held by the transaction in flight, or by the checkpoint.
MutexInv ==
    /\ \A r \in Req : pc[r] = "tx" <=> writeMu = r
    /\ main # "killed" => (main = "checkpoint" <=> writeMu = Main)

\* After the drain has ended, before the database is taken away, after that.
ToFlush   == {"flush"}
ToClose   == {"checkpoint", "clear", "close"}
ToExit    == {"metrics", "defers"}

\* Unless handlers outlive the drain, nothing holds up main but the contexts it
\* made and its own steps.
BudgetInv ==
    /\ main = "serving" => now = 0
    /\ main \in {"serving", "draining"} => ~severed /\ now <= HttpTimeout + spent
    /\ ~severed /\ main \in ToFlush \cup ToClose \cup ToExit => Handling = {}
    /\ ~severed /\ main \in ToFlush => now + FlushTimeout <= deadline + spent
    /\ ~severed /\ main \in ToClose => now <= deadline + spent
    /\ ~severed /\ main \in ToExit =>
         /\ until <= deadline + MetricsTimeout + spent
         /\ now <= deadline + MetricsTimeout + spent

\* How far the closing of the database has come.
ClosingInv ==
    /\ db = "nil" => main \in {"close", "exited", "crashed", "killed"} \cup ToExit
    /\ main \in {"close", "exited", "crashed"} \cup ToExit => db = "nil"
    /\ main \in {"exited"} \cup ToExit /\ Connected = {} => ~wal

\* With ClosingInv, ClosedBetweenWrites and SyncedAtExit; with BudgetInv,
\* TimelyDrainExits.
ShutdownInv ==
    /\ TypeOK /\ MutexInv /\ BudgetInv /\ ClosingInv
    /\ ClosedBetweenWrites /\ TimelyDrainExits

-----------------------------------------------------------------------------
(* Statements of the documentation that do not hold.                       *)

\* "It drains HTTP (8s), checkpoints the SQLite WAL [...], closes the file, and
\* exits before the 10s SIGKILL" (TECHNICAL.md:1206).
ExitsBeforeKill == main # "killed"

\* "Return from main so remaining defers run" (TECHNICAL.md:169): the process
\* does not die of a panic while it shuts down.
NeverCrashes == main # "crashed"
=============================================================================
