------------------------------- MODULE Config -------------------------------
(***************************************************************************)
(* The configuration of the process (internal/config).  Load reads four    *)
(* sources over the defaults, each writing the keys it gives over the      *)
(* keys of the sources before it.                                          *)
(*                                                                         *)
(* given[s][k] says what source s holds for key k: nothing, an empty       *)
(* string or a value.  A configuration says of every key which source its  *)
(* value comes from and whether it is empty.                               *)
(*                                                                         *)
(* A definition marked "Variant" is a faulty form of the one after it, to  *)
(* show that a property notices the difference.  Nothing uses it.          *)
(***************************************************************************)
EXTENDS Naturals

Keys == {"server.run_address",
         "storage.uri", "storage.host", "storage.port",
         "storage.database", "storage.user", "storage.password",
         "accrual.address", "accrual.workers", "accrual.poll_interval",
         "auth.secret", "auth.ttl"}

\* An environment variable LOYALTY_SYSTEM_A_B names the key a.b: a key with
\* an underscore has no name.
Reads ==
  [yaml        |-> Keys,
   prefixedEnv |-> Keys \ {"server.run_address", "accrual.poll_interval"},
   standardEnv |-> {"server.run_address", "storage.uri", "accrual.address",
                    "auth.secret", "auth.ttl"},
   flags       |-> {"server.run_address", "storage.uri", "accrual.address",
                    "storage.host", "storage.port", "storage.database",
                    "storage.user", "storage.password"}]

Sources == {"yaml", "prefixedEnv", "standardEnv", "flags"}

Contents == {"absent", "empty", "value"}

Config == [Keys -> [by : Sources \cup {"default"}, empty : BOOLEAN]]

\* Only a standard environment variable that is empty counts as not set.
Sets(given, s, k) ==
  /\ k \in Reads[s]
  /\ given[s][k] # "absent"
  /\ s = "standardEnv" => given[s][k] # "empty"

Over(given, s, cfg) ==
  [k \in Keys |-> IF Sets(given, s, k)
                  THEN [by |-> s, empty |-> given[s][k] = "empty"]
                  ELSE cfg[k]]

DefaultConfig == [k \in Keys |-> [by |-> "default", empty |-> k = "storage.uri"]]

\* Variant: the environment is read before the file.
LoadEnvFirst(given) ==
  Over(given, "flags", Over(given, "standardEnv",
    Over(given, "yaml", Over(given, "prefixedEnv", DefaultConfig))))

Load(given) ==
  Over(given, "flags", Over(given, "standardEnv",
    Over(given, "prefixedEnv", Over(given, "yaml", DefaultConfig))))

-----------------------------------------------------------------------------
\* CLI flags > environment variables > YAML > default values.
Rank(s) ==
  IF s = "default" THEN 0 ELSE
  IF s = "yaml" THEN 1 ELSE
  IF s = "prefixedEnv" THEN 2 ELSE
  IF s = "standardEnv" THEN 3 ELSE 4

\* No source that sets k stands above the one its value comes from.
Prioritised(given, cfg) ==
  \A k \in Keys :
    /\ \A s \in Sources : Sets(given, s, k) => Rank(s) <= Rank(cfg[k].by)
    /\ cfg[k].by # "default" => /\ Sets(given, cfg[k].by, k)
                                /\ cfg[k].empty <=> given[cfg[k].by][k] = "empty"
=============================================================================
