-------------------------- MODULE LifecycleProofs --------------------------
(***************************************************************************)
(* For any sources of the configuration, any number of migrations, workers *)
(* and handlers, and any number of starts: the configuration respects the  *)
(* priority of its sources, requests are accepted only on a complete       *)
(* schema, and unless it is killed the process ends between queries.       *)
(***************************************************************************)
EXTENDS Lifecycle, TLAPS

-----------------------------------------------------------------------------
\* Of the sources S read so far, the highest that sets a key has set it.
PrioritisedIn(S, g, c) ==
  \A k \in Keys :
    /\ \A s \in S : Sets(g, s, k) => Rank(s) <= Rank(c[k].by)
    /\ c[k].by \in S \cup {"default"}
    /\ c[k].by # "default" => /\ Sets(g, c[k].by, k)
                              /\ c[k].empty <=> g[c[k].by][k] = "empty"

\* Reading one more source keeps that, if it stands above the others.
LEMMA OverKeeps ==
  ASSUME NEW g \in [Sources -> [Keys -> Contents]], NEW c \in Config,
         NEW S \in SUBSET Sources, NEW s \in Sources,
         NEW T, S \subseteq T, s \in T, \A r \in T : r \in S \/ r = s,
         \A r \in S : Rank(r) < Rank(s),
         PrioritisedIn(S, g, c)
  PROVE  Over(g, s, c) \in Config /\ PrioritisedIn(T, g, Over(g, s, c))
<1> DEFINE o == Over(g, s, c)
<1>1. ASSUME NEW k \in Keys, Sets(g, s, k)
      PROVE  o[k] = [by |-> s, empty |-> g[s][k] = "empty"]
  BY <1>1 DEF Over
<1>2. ASSUME NEW k \in Keys, ~Sets(g, s, k)
      PROVE  o[k] = c[k]
  BY <1>2 DEF Over
<1>3. \A r \in Sources \cup {"default"} : Rank(r) \in 0 .. 4
  BY DEF Rank
<1>4. o \in Config
  <2>1. \A k \in Keys : c[k] \in [by : Sources \cup {"default"}, empty : BOOLEAN]
    BY DEF Config
  <2>2. \A k \in Keys : o[k] \in [by : Sources \cup {"default"}, empty : BOOLEAN]
    <3> HIDE DEF o
    <3> SUFFICES ASSUME NEW k \in Keys
                 PROVE  o[k] \in [by : Sources \cup {"default"}, empty : BOOLEAN]
      OBVIOUS
    <3>1. CASE Sets(g, s, k)
      <4>1. o[k] = [by |-> s, empty |-> g[s][k] = "empty"]
        BY <1>1, <3>1
      <4>2. s \in Sources \cup {"default"} /\ (g[s][k] = "empty") \in BOOLEAN
        OBVIOUS
      <4> HIDE <3>1
      <4> QED BY <4>1, <4>2
    <3>2. CASE ~Sets(g, s, k)
      BY <1>2, <2>1, <3>2
    <3> QED BY <3>1, <3>2
  <2> QED BY <2>2 DEF Over, Config
<1>5. ASSUME NEW k \in Keys
      PROVE  /\ \A r \in T : Sets(g, r, k) => Rank(r) <= Rank(o[k].by)
             /\ o[k].by \in T \cup {"default"}
             /\ o[k].by # "default" => /\ Sets(g, o[k].by, k)
                                       /\ o[k].empty <=> g[o[k].by][k] = "empty"
  <2> HIDE DEF o
  <2>1. CASE Sets(g, s, k)
    <3>1. o[k].by = s /\ (o[k].empty <=> g[s][k] = "empty")
      <4>1. o[k] = [by |-> s, empty |-> g[s][k] = "empty"]
        BY <1>1, <2>1
      <4>2. o[k].by = s
        BY <4>1
      <4>3. o[k].empty = (g[s][k] = "empty")
        <5>1. PICK b \in BOOLEAN : b = (g[s][k] = "empty")
          OBVIOUS
        <5>2. o[k] = [by |-> s, empty |-> b]
          BY <4>1, <5>1, Zenon
        <5>3. o[k].empty = b
          BY <5>2
        <5> QED BY <5>1, <5>3, Zenon
      <4> QED BY <4>2, <4>3, Zenon
    <3>2. \A r \in S : Rank(r) <= Rank(s)
      BY <1>3
    <3>3. Rank(s) <= Rank(s)
      BY <1>3
    <3>4. \A r \in T : Rank(r) <= Rank(o[k].by)
      BY <3>1, <3>2, <3>3
    <3> QED BY <2>1, <3>1, <3>4
  <2>2. CASE ~Sets(g, s, k)
    <3>1. o[k] = c[k]
      BY <1>2, <2>2
    <3> QED BY <2>2, <3>1 DEF PrioritisedIn
  <2> QED BY <2>1, <2>2
<1> QED BY <1>4, <1>5 DEF PrioritisedIn

\* Load yields a configuration that respects the priority.
LEMMA LoadPrioritises ==
  ASSUME NEW g \in [Sources -> [Keys -> Contents]]
  PROVE  Load(g) \in Config /\ Prioritised(g, Load(g))
<1> DEFINE c1 == Over(g, "yaml", DefaultConfig)
           c2 == Over(g, "prefixedEnv", c1)
           c3 == Over(g, "standardEnv", c2)
           c4 == Over(g, "flags", c3)
<1>1. DefaultConfig \in Config /\ PrioritisedIn({}, g, DefaultConfig)
  BY DEF DefaultConfig, Config, PrioritisedIn
<1>2. c1 \in Config /\ PrioritisedIn({"yaml"}, g, c1)
  <2>1. /\ {} \subseteq {"yaml"}
        /\ \A r \in {"yaml"} : r \in {} \/ r = "yaml"
    OBVIOUS
  <2>2. /\ {} \in SUBSET Sources /\ "yaml" \in Sources
        /\ "yaml" \in {"yaml"}
    BY DEF Sources
  <2>3. \A r \in {} : Rank(r) < Rank("yaml")
    BY DEF Rank
  <2> QED BY <1>1, <2>1, <2>2, <2>3, OverKeeps
<1>3. c2 \in Config /\ PrioritisedIn({"yaml", "prefixedEnv"}, g, c2)
  <2> HIDE DEF c1
  <2>1. /\ {"yaml"} \subseteq {"yaml", "prefixedEnv"}
        /\ \A r \in {"yaml", "prefixedEnv"} : r \in {"yaml"} \/ r = "prefixedEnv"
    OBVIOUS
  <2>2. /\ {"yaml"} \in SUBSET Sources /\ "prefixedEnv" \in Sources
        /\ "prefixedEnv" \in {"yaml", "prefixedEnv"}
    BY DEF Sources
  <2>3. \A r \in {"yaml"} : Rank(r) < Rank("prefixedEnv")
    BY DEF Rank
  <2> QED BY <1>2, <2>1, <2>2, <2>3, OverKeeps
<1>4. c3 \in Config /\ PrioritisedIn({"yaml", "prefixedEnv", "standardEnv"}, g, c3)
  <2> HIDE DEF c2
  <2>1. /\ {"yaml", "prefixedEnv"} \subseteq {"yaml", "prefixedEnv", "standardEnv"}
        /\ \A r \in {"yaml", "prefixedEnv", "standardEnv"} : r \in {"yaml", "prefixedEnv"} \/ r = "standardEnv"
    OBVIOUS
  <2>2. /\ {"yaml", "prefixedEnv"} \in SUBSET Sources /\ "standardEnv" \in Sources
        /\ "standardEnv" \in {"yaml", "prefixedEnv", "standardEnv"}
    BY DEF Sources
  <2>3. \A r \in {"yaml", "prefixedEnv"} : Rank(r) < Rank("standardEnv")
    BY DEF Rank
  <2> QED BY <1>3, <2>1, <2>2, <2>3, OverKeeps
<1>5. c4 \in Config /\ PrioritisedIn({"yaml", "prefixedEnv", "standardEnv", "flags"}, g, c4)
  <2> HIDE DEF c3
  <2>1. /\ {"yaml", "prefixedEnv", "standardEnv"} \subseteq {"yaml", "prefixedEnv", "standardEnv", "flags"}
        /\ \A r \in {"yaml", "prefixedEnv", "standardEnv", "flags"} : r \in {"yaml", "prefixedEnv", "standardEnv"} \/ r = "flags"
    OBVIOUS
  <2>2. /\ {"yaml", "prefixedEnv", "standardEnv"} \in SUBSET Sources /\ "flags" \in Sources
        /\ "flags" \in {"yaml", "prefixedEnv", "standardEnv", "flags"}
    BY DEF Sources
  <2>3. \A r \in {"yaml", "prefixedEnv", "standardEnv"} : Rank(r) < Rank("flags")
    BY DEF Rank
  <2> QED BY <1>4, <2>1, <2>2, <2>3, OverKeeps
<1>6. Prioritised(g, c4)
  <2> HIDE DEF c4
  <2> QED BY <1>5 DEF Prioritised, PrioritisedIn, Sources
<1> QED BY <1>5, <1>6 DEF Load

-----------------------------------------------------------------------------
\* The table of versions tells how far the schema is, unless its flag is set.
TableIsTrue ==
  /\ ~dirty => schema = version
  /\ stage \in {"marked", "ran"} => dirty
  /\ stage = "ran"  => schema = version
  /\ stage = "done" => ~dirty /\ version = Migrations

\* Nothing runs before main has connected to a migrated database.
StartsInOrder ==
  /\ main \in {"load", "logger", "migrate", "connect", "failed"} =>
       /\ start = "none" /\ poolRun = "none"
       /\ \A w \in Workers : worker[w] = "idle"
       /\ Idle
  /\ main = "connect" \/ start # "none" => stage = "done"

\* main goes on when Start has ended, and that leaves no request behind.
StopsInOrder ==
  /\ main \in {"shutdown", "close", "closing", "exited"} => start = "done"
  /\ start = "done" /\ ~timedOut => Idle

IInv == TypeOK /\ PriorityKept /\ TableIsTrue /\ StartsInOrder /\ StopsInOrder /\ NoQueryIsCut

LEMMA InitIInv == Init => IInv
<1> SUFFICES ASSUME Init PROVE IInv
  OBVIOUS
<1>1. TypeOK
  <2>1. /\ starts \in Nat /\ version \in 0 .. Migrations /\ schema \in 0 .. Migrations
        /\ attempts \in 0 .. Attempts
    BY MigrationAssumption DEF Init
  <2>2. /\ worker  \in [Workers  -> {"idle", "busy", "query", "stopped"}]
        /\ handler \in [Handlers -> {"idle", "busy", "query"}]
    BY DEF Init
  <2> QED BY <2>1, <2>2 DEF Init, TypeOK
<1>2. PriorityKept /\ TableIsTrue /\ StartsInOrder /\ StopsInOrder /\ NoQueryIsCut
  BY DEF Init, PriorityKept, TableIsTrue, StartsInOrder, StopsInOrder, NoQueryIsCut, Idle
<1> QED BY <1>1, <1>2 DEF IInv

\* The steps that start a process.
LEMMA StartUpStep ==
  ASSUME IInv, StartUp
  PROVE  IInv'
<1> USE DEF IInv
<1>1. CASE LoadConfig
  <2> USE <1>1 DEF LoadConfig, MainFrom, migrator, tables, serving, config
  <2>1. main = "load" /\ main' \in {"failed", "logger"}
    OBVIOUS
  <2>2. UNCHANGED <<starts, ctx, version, dirty, schema, stage, attempts>>
    OBVIOUS
  <2>3. UNCHANGED <<poolRun, start, db, timedOut, listener, worker, handler>>
    OBVIOUS
  <2>4. PriorityKept' /\ \/ given' = << >> /\ cfg' = << >>
                         \/ given' \in Environments /\ cfg' \in Config
    <3>1. CASE UNCHANGED config
      BY <3>1 DEF TypeOK, PriorityKept
    <3>2. CASE given' \in Environments /\ cfg' = Load(given')
      <4>1. given' \in [Sources -> [Keys -> Contents]]
        BY <3>2, LifecycleAssumption
      <4>2. cfg' \in Config /\ Prioritised(given', cfg')
        BY <3>2, <4>1, LoadPrioritises
      <4> QED BY <3>2, <4>2 DEF PriorityKept
    <3> QED BY <3>1, <3>2
  <2>5. TypeOK'
    BY <2>1, <2>2, <2>3, <2>4 DEF TypeOK
  <2>6. TableIsTrue' /\ StartsInOrder' /\ StopsInOrder' /\ NoQueryIsCut'
    BY <2>1, <2>2, <2>3 DEF TableIsTrue, StartsInOrder, StopsInOrder, NoQueryIsCut, Idle
  <2> QED BY <2>4, <2>5, <2>6
<1>2. CASE NewLogger
  <2> USE <1>2 DEF NewLogger, MainFrom, StartMigrating, tables, serving
  <2>1. main = "logger" /\ main' \in {"failed", "migrate"} /\ start = "none"
    BY DEF StartsInOrder
  <2>2. UNCHANGED <<starts, ctx, version, dirty, schema, poolRun, start, db, timedOut>>
    OBVIOUS
  <2>3. UNCHANGED <<listener, worker, handler>> /\ given' = << >> /\ cfg' = << >>
    OBVIOUS
  <2>4. \/ UNCHANGED <<stage, attempts>>
        \/ stage' = "open" /\ attempts' = Attempts
    OBVIOUS
  <2>5. TypeOK'
    BY <2>1, <2>2, <2>3, <2>4, MigrationAssumption DEF TypeOK
  <2>6. TableIsTrue' /\ PriorityKept'
    BY <2>2, <2>3, <2>4 DEF TableIsTrue, PriorityKept
  <2>7. StartsInOrder' /\ StopsInOrder' /\ NoQueryIsCut'
    BY <2>1, <2>2, <2>3 DEF StartsInOrder, StopsInOrder, NoQueryIsCut, Idle
  <2> QED BY <2>5, <2>6, <2>7
<1>3. CASE MigrateSteps
  <2>1. main = "migrate" /\ start = "none" /\ Migrate
    BY <1>3 DEF MigrateSteps, StartsInOrder
  <2>2. UNCHANGED <<starts, ctx, given, cfg, poolRun, start, main, db, timedOut>>
    BY <1>3 DEF MigrateSteps, config, stopping
  <2>3. UNCHANGED <<listener, worker, handler>>
    BY <1>3 DEF MigrateSteps, serving
  <2>4. /\ version' \in 0 .. Migrations /\ schema' \in 0 .. Migrations
        /\ dirty' \in BOOLEAN /\ attempts' \in 0 .. Attempts
        /\ stage' \in {"none", "open", "up", "marked", "ran", "done", "failed"}
        /\ TableIsTrue'
    <3>1. /\ version \in 0 .. Migrations /\ schema \in 0 .. Migrations
          /\ dirty \in BOOLEAN /\ attempts \in 0 .. Attempts
          /\ TableIsTrue
      BY DEF TypeOK
    <3>2. CASE NotOpened
      BY <3>1, <3>2, MigrationAssumption DEF NotOpened, tables, TableIsTrue
    <3>3. CASE Opened
      BY <3>1, <3>3 DEF Opened, tables, TableIsTrue
    <3>4. CASE Mark
      BY <3>1, <3>4, MigrationAssumption DEF Mark, TableIsTrue
    <3>5. CASE RunStatements
      BY <3>1, <3>5 DEF RunStatements, TableIsTrue
    <3>6. CASE Unmark
      BY <3>1, <3>6 DEF Unmark, TableIsTrue
    <3>7. CASE UpToDate
      BY <3>1, <3>7 DEF UpToDate, tables, TableIsTrue
    <3>8. CASE UpFails
      BY <3>1, <3>8 DEF UpFails, tables, TableIsTrue
    <3> QED BY <2>1, <3>2, <3>3, <3>4, <3>5, <3>6, <3>7, <3>8 DEF Migrate, Up
  <2>5. TypeOK'
    BY <2>2, <2>3, <2>4 DEF TypeOK
  <2>6. PriorityKept'
    BY <2>2 DEF PriorityKept
  <2>7. StartsInOrder' /\ StopsInOrder' /\ NoQueryIsCut'
    BY <2>1, <2>2, <2>3 DEF StartsInOrder, StopsInOrder, NoQueryIsCut, Idle
  <2> QED BY <2>4, <2>5, <2>6, <2>7
<1>4. CASE Migrated
  <2> USE <1>4 DEF Migrated, MainFrom, migrator, tables, serving, config
  <2>1. /\ main = "migrate"
        /\ \/ main' = "failed"
           \/ main' = "connect" /\ stage = "done"
    OBVIOUS
  <2>2. UNCHANGED <<starts, ctx, given, cfg, version, dirty, schema, stage, attempts>>
    OBVIOUS
  <2>3. UNCHANGED <<poolRun, start, db, timedOut, listener, worker, handler>>
    OBVIOUS
  <2>4. TypeOK'
    BY <2>1, <2>2, <2>3 DEF TypeOK
  <2>5. PriorityKept' /\ TableIsTrue'
    BY <2>2 DEF PriorityKept, TableIsTrue
  <2>6. StartsInOrder' /\ StopsInOrder' /\ NoQueryIsCut'
    BY <2>1, <2>2, <2>3 DEF StartsInOrder, StopsInOrder, NoQueryIsCut, Idle
  <2> QED BY <2>4, <2>5, <2>6
<1>5. CASE Connect
  <2> USE <1>5 DEF Connect, MainFrom, migrator, tables, serving, config
  <2>1. /\ main = "connect" /\ stage = "done"
        /\ \/ main' = "failed" /\ UNCHANGED <<poolRun, start, db>>
           \/ main' = "run" /\ db' = "open" /\ poolRun' = "running" /\ start' = "running"
    BY DEF StartsInOrder
  <2>2. UNCHANGED <<starts, ctx, given, cfg, version, dirty, schema, stage, attempts>>
    OBVIOUS
  <2>3. UNCHANGED <<timedOut, listener, worker, handler>>
    OBVIOUS
  <2>4. TypeOK'
    BY <2>1, <2>2, <2>3 DEF TypeOK
  <2>5. PriorityKept' /\ TableIsTrue'
    BY <2>2 DEF PriorityKept, TableIsTrue
  <2>6. StartsInOrder' /\ StopsInOrder' /\ NoQueryIsCut'
    BY <2>1, <2>2, <2>3 DEF StartsInOrder, StopsInOrder, NoQueryIsCut, Idle
  <2> QED BY <2>4, <2>5, <2>6
<1> QED BY <1>1, <1>2, <1>3, <1>4, <1>5 DEF StartUp

\* A step that leaves the start alone keeps what the start has established.
LEMMA KeepsStart ==
  ASSUME IInv, UNCHANGED <<given, cfg, version, dirty, schema, stage>>,
         start' # "none" => start # "none",
         main' # "connect"
  PROVE  /\ PriorityKept' /\ TableIsTrue'
         /\ main' = "connect" \/ start' # "none" => stage' = "done"
  BY DEF IInv, PriorityKept, TableIsTrue, StartsInOrder

\* A worker or a handler goes on, of a process that has started.
LEMMA GoroutineStep ==
  ASSUME IInv, ~Ended,
         main \notin {"load", "logger", "migrate", "connect", "failed"},
         UNCHANGED <<starts, ctx, config, migrator, stopping, listener>>,
         worker'  \in [Workers  -> {"idle", "busy", "query", "stopped"}],
         handler' \in [Handlers -> {"idle", "busy", "query"}],
         listener # "open" =>
           \A h \in Handlers : handler[h] = "idle" => handler'[h] = "idle"
  PROVE  IInv'
<1>1. UNCHANGED <<given, cfg, version, dirty, schema, stage, attempts, poolRun, start, main, db, timedOut>>
  BY DEF config, migrator, stopping
<1>2. /\ PriorityKept' /\ TableIsTrue'
      /\ main' = "connect" \/ start' # "none" => stage' = "done"
  BY <1>1, KeepsStart
<1>3. TypeOK'
  BY <1>1 DEF IInv, TypeOK
<1>4. start = "done" => listener # "open"
  BY DEF IInv, TypeOK
<1>5. StartsInOrder'
  BY <1>1, <1>2 DEF StartsInOrder
<1>6. StopsInOrder'
  BY <1>1, <1>4 DEF IInv, StopsInOrder, Idle
<1>7. NoQueryIsCut'
  BY <1>1 DEF Ended, NoQueryIsCut
<1> QED BY <1>2, <1>3, <1>5, <1>6, <1>7 DEF IInv

LEMMA WorkerStep ==
  ASSUME IInv, NEW w \in Workers,
         TakeJob(w) \/ WorkerStops(w) \/ WorkerQueries(w) \/ WorkerReturns(w)
  PROVE  IInv'
<1>1. worker \in [Workers -> {"idle", "busy", "query", "stopped"}]
  BY DEF IInv, TypeOK
<1>2. /\ ~Ended /\ UNCHANGED handler
      /\ UNCHANGED <<starts, ctx, config, migrator, stopping, listener>>
      /\ \E l \in {"idle", "busy", "query", "stopped"} : worker' = [worker EXCEPT ![w] = l]
  BY DEF TakeJob, WorkerStops, WorkerQueries, WorkerReturns, WorkerAt
<1>3. poolRun # "none" \/ worker[w] # "idle"
  BY DEF TakeJob, WorkerStops, WorkerQueries, WorkerReturns
<1>4. main \notin {"load", "logger", "migrate", "connect", "failed"}
  BY <1>3 DEF IInv, StartsInOrder
<1>5. worker' \in [Workers -> {"idle", "busy", "query", "stopped"}]
  BY <1>1, <1>2
<1>6. /\ handler' \in [Handlers -> {"idle", "busy", "query"}]
      /\ \A h \in Handlers : handler[h] = "idle" => handler'[h] = "idle"
  BY <1>2 DEF IInv, TypeOK
<1> QED BY <1>2, <1>4, <1>5, <1>6, GoroutineStep

LEMMA HandlerStep ==
  ASSUME IInv, NEW h \in Handlers, Serve(h) \/ QueryReturns(h)
  PROVE  IInv'
<1>1. handler \in [Handlers -> {"idle", "busy", "query"}]
  BY DEF IInv, TypeOK
<1>2. /\ ~Ended /\ UNCHANGED worker
      /\ UNCHANGED <<starts, ctx, config, migrator, stopping, listener>>
      /\ \E l \in {"idle", "busy", "query"} : handler' = [handler EXCEPT ![h] = l]
  BY DEF Serve, Accept, HandlerQueries, QueryReturns, Respond, HandlerAt
<1>3. listener = "open" \/ handler[h] # "idle"
  BY DEF Serve, Accept, HandlerQueries, QueryReturns, Respond
<1>4. main \notin {"load", "logger", "migrate", "connect", "failed"}
  BY <1>3 DEF IInv, TypeOK, StartsInOrder, Idle
<1>5. handler' \in [Handlers -> {"idle", "busy", "query"}]
  BY <1>1, <1>2
<1>6. worker' \in [Workers -> {"idle", "busy", "query", "stopped"}]
  BY <1>2 DEF IInv, TypeOK
<1>7. listener # "open" => \A g \in Handlers : handler[g] = "idle" => handler'[g] = "idle"
  BY <1>1, <1>2, <1>3
<1> QED BY <1>2, <1>4, <1>5, <1>6, <1>7, GoroutineStep

\* main, Run or Start goes on, of a process that has started.
LEMMA MainStep ==
  ASSUME IInv, UNCHANGED <<starts, given, cfg, migrator, worker, handler>>,
         ctx'      \in {"live", "cancelled"},
         listener' \in {"none", "open", "failed", "closed"},
         poolRun'  \in {"none", "running", "done"},
         start'    \in {"none", "running", "shutdown", "done"},
         main'     \in {"run", "shutdown", "close", "closing", "exited", "killed"},
         db'       \in {"none", "open", "closing", "closed"},
         timedOut' \in BOOLEAN,
         start' # "running" => listener' # "open",
         start' # "none" => start # "none",
         main' \in {"shutdown", "close", "closing", "exited"} => start' = "done",
         start' = "done" /\ ~timedOut' => Idle,
         main' = "exited" => /\ \A w \in Workers  : worker[w] # "query"
                             /\ \A h \in Handlers : handler[h] # "query"
  PROVE  IInv'
<1>1. UNCHANGED <<version, dirty, schema, stage, attempts>>
  BY DEF migrator
<1>2. /\ PriorityKept' /\ TableIsTrue'
      /\ main' = "connect" \/ start' # "none" => stage' = "done"
  BY <1>1, KeepsStart
<1>3. TypeOK'
  BY <1>1 DEF IInv, TypeOK
<1>4. StartsInOrder' /\ NoQueryIsCut'
  BY <1>2 DEF StartsInOrder, NoQueryIsCut
<1>5. StopsInOrder'
  BY DEF StopsInOrder, Idle
<1> QED BY <1>2, <1>3, <1>4, <1>5 DEF IInv

LEMMA StopStep ==
  ASSUME IInv, Stop
  PROVE  IInv'
<1> USE DEF IInv, TypeOK, StartsInOrder, StopsInOrder, MainFrom, config, serving, Ended
<1>1. CASE PoolReturns
  BY <1>1, MainStep DEF PoolReturns
<1>2. CASE BeginShutdown
  BY <1>2, MainStep DEF BeginShutdown
<1>3. CASE EndShutdown
  BY <1>3, MainStep DEF EndShutdown
<1>4. CASE RunReturns
  BY <1>4, MainStep DEF RunReturns
<1>5. CASE ShutdownAgain
  BY <1>5, MainStep DEF ShutdownAgain
<1>6. CASE CloseDatabase
  BY <1>6, MainStep DEF CloseDatabase
<1>7. CASE Exit
  BY <1>7, MainStep DEF Exit
<1> QED BY <1>1, <1>2, <1>3, <1>4, <1>5, <1>6, <1>7 DEF Stop

\* The environment: a signal, the network, the end of a process and the start
\* of the next one.
LEMMA OutsideStep ==
  ASSUME IInv, Signal \/ Listen \/ Kill \/ Begin
  PROVE  IInv'
<1>1. CASE Signal
  <2>1. UNCHANGED <<starts, given, cfg, version, dirty, schema, stage, attempts, poolRun, start, main, db, timedOut>>
    BY <1>1 DEF Signal, config, migrator, stopping
  <2>2. UNCHANGED <<listener, worker, handler>> /\ ctx' = "cancelled"
    BY <1>1 DEF Signal, serving
  <2>3. TypeOK'
    BY <2>1, <2>2 DEF IInv, TypeOK
  <2>4. PriorityKept' /\ TableIsTrue'
    BY <2>1 DEF IInv, PriorityKept, TableIsTrue
  <2>5. StartsInOrder' /\ StopsInOrder' /\ NoQueryIsCut'
    BY <2>1, <2>2 DEF IInv, StartsInOrder, StopsInOrder, NoQueryIsCut, Idle
  <2> QED BY <2>3, <2>4, <2>5 DEF IInv
<1>2. CASE Listen
  <2>1. UNCHANGED <<starts, ctx, given, cfg, version, dirty, schema, stage, attempts, poolRun, start, main, db, timedOut>>
    BY <1>2 DEF Listen, config, migrator, stopping
  <2>2. UNCHANGED <<worker, handler>> /\ start = "running" /\ listener' \in {"open", "failed"}
    BY <1>2 DEF Listen
  <2>3. TypeOK'
    BY <2>1, <2>2 DEF IInv, TypeOK
  <2>4. PriorityKept' /\ TableIsTrue'
    BY <2>1 DEF IInv, PriorityKept, TableIsTrue
  <2>5. StartsInOrder' /\ StopsInOrder' /\ NoQueryIsCut'
    BY <2>1, <2>2 DEF IInv, StartsInOrder, StopsInOrder, NoQueryIsCut, Idle
  <2> QED BY <2>3, <2>4, <2>5 DEF IInv
<1>3. CASE Kill
  <2>1. UNCHANGED <<starts, ctx, version, dirty, schema, stage, attempts, poolRun, start, db, timedOut>>
    BY <1>3 DEF Kill, migrator
  <2>2. /\ UNCHANGED <<listener, worker, handler>>
        /\ main' = "killed" /\ given' = << >> /\ cfg' = << >>
    BY <1>3 DEF Kill, serving
  <2>3. TypeOK'
    BY <2>1, <2>2 DEF IInv, TypeOK
  <2>4. PriorityKept' /\ TableIsTrue'
    BY <2>1, <2>2 DEF IInv, PriorityKept, TableIsTrue
  <2>5. StartsInOrder' /\ StopsInOrder' /\ NoQueryIsCut'
    BY <2>1, <2>2 DEF IInv, StartsInOrder, StopsInOrder, NoQueryIsCut, Idle
  <2> QED BY <2>3, <2>4, <2>5 DEF IInv
<1>4. CASE Begin
  <2>1. /\ starts' = starts + 1 /\ ctx' = "live" /\ main' = "load" /\ db' = "none"
        /\ given' = << >> /\ cfg' = << >>
        /\ listener' = "none" /\ poolRun' = "none" /\ start' = "none"
        /\ timedOut' = FALSE /\ stage' = "none" /\ attempts' = 0
    BY <1>4 DEF Begin
  <2>2. UNCHANGED <<version, dirty, schema>>
    BY <1>4 DEF Begin, tables
  <2>3. /\ worker'  = [w \in Workers  |-> "idle"]
        /\ handler' = [h \in Handlers |-> "idle"]
    BY <1>4 DEF Begin
  <2>4. /\ worker'  \in [Workers  -> {"idle", "busy", "query", "stopped"}]
        /\ handler' \in [Handlers -> {"idle", "busy", "query"}]
    BY <2>3
  <2>5. starts' \in Nat /\ attempts' \in 0 .. Attempts
    BY <2>1, MigrationAssumption DEF IInv, TypeOK
  <2>6. TypeOK'
    BY <2>1, <2>2, <2>4, <2>5 DEF IInv, TypeOK
  <2>7. PriorityKept' /\ TableIsTrue'
    BY <2>1, <2>2 DEF IInv, PriorityKept, TableIsTrue
  <2>8. StartsInOrder' /\ StopsInOrder' /\ NoQueryIsCut'
    BY <2>1, <2>3 DEF StartsInOrder, StopsInOrder, NoQueryIsCut, Idle
  <2> QED BY <2>6, <2>7, <2>8 DEF IInv
<1> QED BY <1>1, <1>2, <1>3, <1>4

LEMMA StepIInv == IInv /\ [Next]_vars => IInv'
<1> SUFFICES ASSUME IInv, [Next]_vars PROVE IInv'
  OBVIOUS
<1>1. CASE StartUp
  BY <1>1, StartUpStep
<1>2. CASE Stop
  BY <1>2, StopStep
<1>3. CASE Begin \/ Listen \/ Signal \/ Kill
  BY <1>3, OutsideStep
<1>4. ASSUME NEW w \in Workers,
             TakeJob(w) \/ WorkerStops(w) \/ WorkerQueries(w) \/ WorkerReturns(w)
      PROVE  IInv'
  BY <1>4, WorkerStep
<1>5. ASSUME NEW h \in Handlers, Serve(h) \/ QueryReturns(h)
      PROVE  IInv'
  BY <1>5, HandlerStep
<1>6. CASE UNCHANGED vars
  <2>1. UNCHANGED <<starts, ctx, given, cfg, version, dirty, schema, stage, attempts>>
    BY <1>6 DEF vars, config, migrator
  <2>2. UNCHANGED <<poolRun, start, main, db, timedOut, listener, worker, handler>>
    BY <1>6 DEF vars, stopping, serving
  <2>3. TypeOK'
    BY <2>1, <2>2 DEF IInv, TypeOK
  <2>4. PriorityKept' /\ TableIsTrue'
    BY <2>1 DEF IInv, PriorityKept, TableIsTrue
  <2>5. StartsInOrder' /\ StopsInOrder' /\ NoQueryIsCut'
    BY <2>1, <2>2 DEF IInv, StartsInOrder, StopsInOrder, NoQueryIsCut, Idle
  <2> QED BY <2>3, <2>4, <2>5 DEF IInv
<1> QED BY <1>1, <1>2, <1>3, <1>4, <1>5, <1>6 DEF Next

\* The inductive invariant holds.
THEOREM Invariance == Spec => []IInv
  BY InitIInv, StepIInv, PTL DEF Spec

\* The variables keep their types, and the listener is closed by Shutdown.
THEOREM TypeCorrect == Spec => []TypeOK
<1>1. IInv => TypeOK
  BY DEF IInv
<1> QED BY <1>1, Invariance, PTL

\* Whatever the file, the environment and the flags hold, every key has the
\* value of its highest source (internal/config/loader.go).
THEOREM ConfigPriority == Spec => []PriorityKept
<1>1. IInv => PriorityKept
  BY DEF IInv
<1> QED BY <1>1, Invariance, PTL

\* Nothing is served on a schema that is behind or half migrated, for any
\* number of migrations and of processes killed on the way.
THEOREM ServedSchema == Spec => []ServesMigrated
<1>1. IInv => ServesMigrated
  BY DEF IInv, TypeOK, TableIsTrue, StartsInOrder, ServesMigrated
<1> QED BY <1>1, Invariance, PTL

\* Run returns when no request is served, unless a Shutdown timed out.
THEOREM RequestsAwaited == Spec => []RunWaitsForRequests
<1>1. IInv => RunWaitsForRequests
  BY DEF IInv, StopsInOrder, RunWaitsForRequests
<1> QED BY <1>1, Invariance, PTL

\* A process that is not killed ends between queries.
THEOREM QueriesEnd == Spec => []NoQueryIsCut
<1>1. IInv => NoQueryIsCut
  BY DEF IInv
<1> QED BY <1>1, Invariance, PTL
=============================================================================
