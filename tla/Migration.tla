----------------------------- MODULE Migration -----------------------------
(***************************************************************************)
(* MigrateFromEmbeddedFS (pkg/pgmigrator): open the database, in Attempts  *)
(* tries with a pause after each, then bring the schema up to date.        *)
(*                                                                         *)
(* golang-migrate is external.  Its table of versions holds the number of  *)
(* the last migration begun and a flag: Up refuses to work when the flag   *)
(* is set; otherwise it takes one migration after the other: record its    *)
(* number with the flag set, run its statements (in one transaction),      *)
(* clear the flag.  An error at any point ends Up, and what the table then *)
(* says stays, as it does when the process dies.                           *)
(*                                                                         *)
(* A definition marked "Variant" is a faulty form of the one after it, to  *)
(* show that a property notices the difference.  Nothing uses it.          *)
(***************************************************************************)
EXTENDS Naturals

CONSTANTS Migrations,   \* how many there are
          Attempts      \* 20

ASSUME MigrationAssumption == Migrations \in Nat /\ Attempts \in Nat

VARIABLES
  version, dirty,   \* the table of versions
  schema,           \* how many migrations have run
  stage, attempts   \* of the call

tables == <<version, dirty, schema>>

StartMigrating == stage' = "open" /\ attempts' = Attempts

NotOpened ==
  /\ stage = "open"
  /\ IF attempts > 0 THEN attempts' = attempts - 1 /\ stage' = stage
                     ELSE attempts' = attempts     /\ stage' = "failed"
  /\ UNCHANGED tables

Opened ==
  /\ stage = "open" /\ attempts > 0
  /\ stage' = "up"
  /\ UNCHANGED <<tables, attempts>>

\* SetVersion(n, true)
Mark ==
  /\ stage = "up" /\ ~dirty /\ version < Migrations
  /\ version' = version + 1 /\ dirty' = TRUE
  /\ stage' = "marked"
  /\ UNCHANGED <<schema, attempts>>

RunStatements ==
  /\ stage = "marked"
  /\ schema' = version
  /\ stage' = "ran"
  /\ UNCHANGED <<version, dirty, attempts>>

\* SetVersion(n, false)
Unmark ==
  /\ stage = "ran"
  /\ dirty' = FALSE
  /\ stage' = "up"
  /\ UNCHANGED <<version, schema, attempts>>

\* "no change", or the last migration has run; then Close.
UpToDate ==
  /\ stage = "up" /\ ~dirty /\ version = Migrations
  /\ stage' \in {"done", "failed"}
  /\ UNCHANGED <<tables, attempts>>

\* Variant: the error of Up is not returned.
UpFailsUnnoticed ==
  /\ stage \in {"up", "marked", "ran"}
  /\ stage' = "done"
  /\ UNCHANGED <<tables, attempts>>

\* The flag was set, or the database answers with an error.
UpFails ==
  /\ stage \in {"up", "marked", "ran"}
  /\ stage' = "failed"
  /\ UNCHANGED <<tables, attempts>>

Up == Mark \/ RunStatements \/ Unmark \/ UpToDate \/ UpFails

Migrate == NotOpened \/ Opened \/ Up
=============================================================================
