----------------------------- MODULE Lifecycle -----------------------------
(***************************************************************************)
(* Start and stop of the process (cmd/gophermart): main, App.Run with      *)
(* initialize, Server.Start, AccrualWorkerPool.Run with its workers, the   *)
(* handlers of net/http and the pool of database connections.  The start   *)
(* reads the configuration (Config), migrates the database (Migration) and *)
(* connects to it; an error on the way ends the process at once.  A signal *)
(* cancels ctx; then                                                       *)
(*                                                                         *)
(*   the pool's Run returns at once, its workers stop when they see it     *)
(*   Start shuts the HTTP server down, for 10 seconds at most              *)
(*   Run waits for these two and returns                                   *)
(*   gracefulShutdown shuts down again, then closes the database           *)
(*   main returns, and with it every goroutine ends                        *)
(*                                                                         *)
(* A process that has ended, or was killed, is started again, up to        *)
(* MaxStarts times.                                                        *)
(*                                                                         *)
(* A worker or a handler holds a connection while it is at "query".  The   *)
(* connection pool and net/http are external: Close refuses new queries    *)
(* and waits for the others, Shutdown closes the listener and waits until  *)
(* no request is served.                                                   *)
(*                                                                         *)
(* A definition marked "Variant" is a faulty form of the one after it, to  *)
(* show that a property notices the difference.  Nothing uses it.          *)
(***************************************************************************)
EXTENDS Config, Migration

CONSTANTS Workers, Handlers,
          Environments,   \* what the four sources may hold
          MaxStarts

ASSUME LifecycleAssumption ==
  /\ Environments \subseteq [Sources -> [Keys -> Contents]]
  /\ MaxStarts \in Nat

VARIABLES
  starts,       \* of the process, so far
  ctx,          \* "live" or "cancelled"
  given, cfg,   \* the sources and the configuration; empty unless loaded
  listener,     \* "none", "open", "failed" or "closed"
  poolRun,      \* AccrualWorkerPool.Run: "none", "running" or "done"
  start,        \* Server.Start: "none", "running", "shutdown" or "done"
  main,         \* where main is; see TypeOK
  db,           \* the pool of connections: "none", "open", "closing", "closed"
  worker, handler,
  timedOut      \* a Shutdown gave up

config   == <<given, cfg>>
migrator == <<version, dirty, schema, stage, attempts>>
stopping == <<poolRun, start, main, db, timedOut>>
serving  == <<listener, worker, handler>>

vars == <<starts, ctx, config, migrator, stopping, serving>>

Ended == main \in {"exited", "failed", "killed"}

Idle == \A h \in Handlers : handler[h] = "idle"

\* The goroutines end with the process.
WorkerAt(w, l)  == ~Ended /\ worker'  = [worker  EXCEPT ![w] = l]
HandlerAt(h, l) == ~Ended /\ handler' = [handler EXCEPT ![h] = l]

\* main goes on from l to m.
MainFrom(l, m) == main = l /\ main' = m

-----------------------------------------------------------------------------
\* signal.NotifyContext: also while the process starts.
Signal ==
  /\ ctx = "live" /\ ~Ended
  /\ ctx' = "cancelled"
  /\ UNCHANGED <<starts, config, migrator, stopping, serving>>

\* Load: a source that cannot be read or parsed ends main.
LoadConfig ==
  /\ \/ MainFrom("load", "failed") /\ UNCHANGED config
     \/ /\ MainFrom("load", "logger")
        /\ given' \in Environments
        /\ cfg' = Load(given')
  /\ UNCHANGED <<starts, ctx, migrator, poolRun, start, db, timedOut, serving>>

\* The rest of initialize reads its values out of the configuration; which
\* they are makes no difference here, and the model forgets them.
NewLogger ==
  /\ \/ MainFrom("logger", "failed") /\ UNCHANGED <<stage, attempts>>
     \/ MainFrom("logger", "migrate") /\ StartMigrating
  /\ given' = << >> /\ cfg' = << >>
  /\ UNCHANGED <<starts, ctx, tables, poolRun, start, db, timedOut, serving>>

\* It does not look at ctx, however long the database is away.
MigrateSteps ==
  /\ main = "migrate" /\ Migrate
  /\ UNCHANGED <<starts, ctx, config, stopping, serving>>

Migrated ==
  /\ \/ stage = "failed" /\ MainFrom("migrate", "failed")
     \/ stage = "done"   /\ MainFrom("migrate", "connect")
  /\ UNCHANGED <<starts, ctx, config, migrator, poolRun, start, db, timedOut, serving>>

\* The ping needs a live ctx and a database; a bad auth.ttl or
\* accrual.poll_interval is only noticed after it.  Otherwise Run starts the
\* pool and the server.
Connect ==
  /\ \/ MainFrom("connect", "failed") /\ UNCHANGED <<poolRun, start, db>>
     \/ /\ MainFrom("connect", "run")
        /\ ctx = "live"
        /\ db' = "open" /\ poolRun' = "running" /\ start' = "running"
  /\ UNCHANGED <<starts, ctx, config, migrator, timedOut, serving>>

StartUp == LoadConfig \/ NewLogger \/ MigrateSteps \/ Migrated \/ Connect

\* ListenAndServe listens, unless Shutdown has been called; or it fails, now
\* or later, which is logged, and the process goes on without HTTP.
Listen ==
  /\ \/ listener = "none" /\ start = "running" /\ listener' = "open"
     \/ listener \in {"none", "open"} /\ start = "running" /\ listener' = "failed"
  /\ UNCHANGED <<starts, ctx, config, migrator, stopping, worker, handler>>

\* The process dies.
Kill ==
  /\ ~Ended
  /\ main' = "killed"
  /\ given' = << >> /\ cfg' = << >>
  /\ UNCHANGED <<starts, ctx, migrator, poolRun, start, db, timedOut, serving>>

\* Another process is started when this one has ended.
Begin ==
  /\ Ended /\ starts < MaxStarts
  /\ starts' = starts + 1
  /\ ctx' = "live" /\ main' = "load" /\ db' = "none"
  /\ given' = << >> /\ cfg' = << >>
  /\ listener' = "none" /\ poolRun' = "none" /\ start' = "none"
  /\ worker'  = [w \in Workers  |-> "idle"]
  /\ handler' = [h \in Handlers |-> "idle"]
  /\ timedOut' = FALSE
  /\ stage' = "none" /\ attempts' = 0
  /\ UNCHANGED tables

-----------------------------------------------------------------------------
\* A worker's loop, once Run has started it.  With ctx cancelled and a job in
\* the channel, select may still choose the job.
TakeJob(w) ==
  /\ worker[w] = "idle" /\ poolRun # "none"
  /\ WorkerAt(w, "busy")
  /\ UNCHANGED <<starts, ctx, config, migrator, stopping, listener, handler>>

WorkerStops(w) ==
  /\ worker[w] = "idle" /\ poolRun # "none" /\ ctx = "cancelled"
  /\ WorkerAt(w, "stopped")
  /\ UNCHANGED <<starts, ctx, config, migrator, stopping, listener, handler>>

WorkerQueries(w) ==
  /\ worker[w] = "busy" /\ ctx = "live" /\ db = "open"
  /\ WorkerAt(w, "query")
  /\ UNCHANGED <<starts, ctx, config, migrator, stopping, listener, handler>>

WorkerReturns(w) ==
  /\ \/ worker[w] = "query" /\ WorkerAt(w, "busy")
     \/ worker[w] = "busy"  /\ WorkerAt(w, "idle")
  /\ UNCHANGED <<starts, ctx, config, migrator, stopping, listener, handler>>

-----------------------------------------------------------------------------
\* HTTP requests; their contexts are not derived from ctx.
Accept(h) ==
  /\ handler[h] = "idle" /\ listener = "open"
  /\ HandlerAt(h, "busy")
  /\ UNCHANGED <<starts, ctx, config, migrator, stopping, listener, worker>>

HandlerQueries(h) ==
  /\ handler[h] = "busy" /\ db = "open"
  /\ HandlerAt(h, "query")
  /\ UNCHANGED <<starts, ctx, config, migrator, stopping, listener, worker>>

QueryReturns(h) ==
  /\ handler[h] = "query"
  /\ HandlerAt(h, "busy")
  /\ UNCHANGED <<starts, ctx, config, migrator, stopping, listener, worker>>

Respond(h) ==
  /\ handler[h] = "busy"
  /\ HandlerAt(h, "idle")
  /\ UNCHANGED <<starts, ctx, config, migrator, stopping, listener, worker>>

-----------------------------------------------------------------------------
PoolReturns ==
  /\ ~Ended /\ poolRun = "running" /\ ctx = "cancelled"
  /\ poolRun' = "done"
  /\ UNCHANGED <<starts, ctx, config, migrator, start, main, db, timedOut, serving>>

\* Variant: requests are accepted during the shutdown.
BeginShutdownListening ==
  /\ ~Ended /\ start = "running" /\ ctx = "cancelled"
  /\ start' = "shutdown"
  /\ UNCHANGED <<starts, ctx, config, migrator, poolRun, main, db, timedOut, serving>>

BeginShutdown ==
  /\ ~Ended /\ start = "running" /\ ctx = "cancelled"
  /\ start' = "shutdown"
  /\ listener' = "closed"
  /\ UNCHANGED <<starts, ctx, config, migrator, poolRun, main, db, timedOut, worker, handler>>

\* Variant: Shutdown without a deadline.
EndShutdownPatient ==
  /\ ~Ended /\ start = "shutdown" /\ Idle
  /\ start' = "done"
  /\ UNCHANGED <<starts, ctx, config, migrator, poolRun, main, db, timedOut, serving>>

EndShutdown ==
  /\ ~Ended /\ start = "shutdown"
  /\ start' = "done"
  /\ timedOut' = (timedOut \/ ~Idle)
  /\ UNCHANGED <<starts, ctx, config, migrator, poolRun, main, db, serving>>

-----------------------------------------------------------------------------
\* Variant: Run does not wait for Start.
RunReturnsEarly ==
  /\ MainFrom("run", "shutdown")
  /\ ctx = "cancelled" /\ poolRun = "done"
  /\ UNCHANGED <<starts, ctx, config, migrator, poolRun, start, db, timedOut, serving>>

\* The WaitGroup of Run counts the pool's Run and Start.
RunReturns ==
  /\ MainFrom("run", "shutdown")
  /\ ctx = "cancelled" /\ poolRun = "done" /\ start = "done"
  /\ UNCHANGED <<starts, ctx, config, migrator, poolRun, start, db, timedOut, serving>>

\* gracefulShutdown: another 10 seconds, then the database.
ShutdownAgain ==
  /\ MainFrom("shutdown", "close")
  /\ listener' = "closed"
  /\ timedOut' = (timedOut \/ ~Idle)
  /\ UNCHANGED <<starts, ctx, config, migrator, poolRun, start, db, worker, handler>>

CloseDatabase ==
  /\ MainFrom("close", "closing")
  /\ db' = "closing"
  /\ UNCHANGED <<starts, ctx, config, migrator, poolRun, start, timedOut, serving>>

\* Variant: Close does not wait for the connections in use.
ExitUnwaited ==
  /\ MainFrom("closing", "exited")
  /\ db' = "closed"
  /\ UNCHANGED <<starts, ctx, config, migrator, poolRun, start, timedOut, serving>>

Exit ==
  /\ MainFrom("closing", "exited")
  /\ \A w \in Workers  : worker[w] # "query"
  /\ \A h \in Handlers : handler[h] # "query"
  /\ db' = "closed"
  /\ UNCHANGED <<starts, ctx, config, migrator, poolRun, start, timedOut, serving>>

Init ==
  /\ starts = 1 /\ ctx = "live" /\ main = "load" /\ db = "none"
  /\ given = << >> /\ cfg = << >>
  /\ version = 0 /\ dirty = FALSE /\ schema = 0
  /\ stage = "none" /\ attempts = 0
  /\ listener = "none" /\ poolRun = "none" /\ start = "none"
  /\ worker  = [w \in Workers  |-> "idle"]
  /\ handler = [h \in Handlers |-> "idle"]
  /\ timedOut = FALSE

Serve(h) == Accept(h) \/ HandlerQueries(h) \/ Respond(h)

Stop ==
  PoolReturns \/ BeginShutdown \/ EndShutdown
    \/ RunReturns \/ ShutdownAgain \/ CloseDatabase \/ Exit

Next ==
  \/ Begin \/ StartUp \/ Listen \/ Signal \/ Kill \/ Stop
  \/ \E w \in Workers : TakeJob(w) \/ WorkerStops(w) \/ WorkerQueries(w) \/ WorkerReturns(w)
  \/ \E h \in Handlers : Serve(h) \/ QueryReturns(h)

Spec == Init /\ [][Next]_vars

\* The goroutines of the start and of the shutdown are scheduled and a query
\* ends; a handler may take for ever all the same.
Fairness ==
  /\ WF_vars(StartUp)
  /\ WF_vars(Stop)
  /\ \A w \in Workers  : WF_vars(WorkerReturns(w))
  /\ \A h \in Handlers : WF_vars(QueryReturns(h))

FairSpec == Spec /\ Fairness

-----------------------------------------------------------------------------
\* Every variable has its type, and the listener is open only before Shutdown.
TypeOK ==
  /\ starts   \in Nat
  /\ ctx      \in {"live", "cancelled"}
  /\ \/ given = << >> /\ cfg = << >>
     \/ given \in Environments /\ cfg \in Config
  /\ version \in 0 .. Migrations /\ schema \in 0 .. Migrations
  /\ dirty    \in BOOLEAN
  /\ stage    \in {"none", "open", "up", "marked", "ran", "done", "failed"}
  /\ attempts \in 0 .. Attempts
  /\ listener \in {"none", "open", "failed", "closed"}
  /\ poolRun  \in {"none", "running", "done"}
  /\ start    \in {"none", "running", "shutdown", "done"}
  /\ main     \in {"load", "logger", "migrate", "connect", "run", "shutdown",
                   "close", "closing", "exited", "failed", "killed"}
  /\ db       \in {"none", "open", "closing", "closed"}
  /\ worker   \in [Workers  -> {"idle", "busy", "query", "stopped"}]
  /\ handler  \in [Handlers -> {"idle", "busy", "query"}]
  /\ timedOut \in BOOLEAN
  /\ start # "running" => listener # "open"

\* "Priority: CLI flags > environment variables > YAML > default values"
\* (internal/config/config.go:10): what initialize works with comes, key by
\* key, from the highest source that sets the key.
PriorityKept == cfg # << >> => Prioritised(given, cfg)

\* HTTP requests are accepted only when the schema is complete and no
\* migration is left half done, by this process or one killed before it.
ServesMigrated == listener = "open" => ~dirty /\ schema = Migrations

\* "Run waits for two events ... without wg.Wait it would return while Start
\* is still in Shutdown" (cmd/gophermart/di/app.go:155-159): when Run has
\* returned no request is being served, unless a Shutdown gave up on it.
RunWaitsForRequests ==
  main \in {"shutdown", "close", "closing", "exited"} /\ ~timedOut => Idle

\* Unless it is killed, the process never ends in the middle of a query, and
\* with it of a transaction of a worker or a handler.
NoQueryIsCut ==
  main \in {"exited", "failed"} =>
    /\ \A w \in Workers  : worker[w] # "query"
    /\ \A h \in Handlers : handler[h] # "query"

\* The process ends after a signal, also when a request hangs, when it was
\* still starting or when the server never listened.
Terminates == ctx = "cancelled" ~> Ended

\* "Wait for the HTTP server and the workers to stop"
\* (cmd/gophermart/di/app.go:176).
WorkersHaveStopped ==
  main \in {"shutdown", "close", "closing", "exited"} =>
    \A w \in Workers : worker[w] = "stopped"
=============================================================================
