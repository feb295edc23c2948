---------------------------- MODULE MCLifecycle ----------------------------
(* Instances of Lifecycle for TLC. *)
EXTENDS Lifecycle

CONSTANTS w1, w2, h1, h2

\* The sources hold something for one key; the others have their defaults.
\* Of the keys that the same sources can set, one stands for the others.
OneKey ==
  {[s \in Sources |-> [k \in Keys |-> IF k = key THEN held[s] ELSE "absent"]] :
     key \in {"server.run_address", "storage.uri", "storage.host",
              "accrual.workers", "accrual.poll_interval", "auth.ttl"},
     held \in [Sources -> Contents]}

\* The sources hold nothing.
Bare == {[s \in Sources |-> [k \in Keys |-> "absent"]]}
=============================================================================
