---------------------------- MODULE Migration049 ----------------------------
(***************************************************************************)
(* Migration 049_add_instances_progress (src/nova/db/sqlalchemy/           *)
(* migrate_repo/versions/049_add_instances_progress.py) as sqlalchemy-    *)
(* migrate runs it: the script's upgrade() or downgrade() changes the      *)
(* schema, then the migrate_version row is updated in a separate step.    *)
(* ALTER TABLE commits on its own, so the process may stop between the   *)
(* two.  upgrade() adds instances.progress and re-raises any failure after *)
(* logging it; downgrade() drops the column.                               *)
(***************************************************************************)
EXTENDS Naturals

VARIABLES
    version,        \* the migrate_version row: 48 or 49
    progress,       \* instances has a progress column
    pending,        \* a script ran and its version update is still to come: "none", "up", "down"
    raised          \* the last call raised

vars == <<version, progress, pending, raised>>

Init ==
    /\ version = 48
    /\ progress = FALSE
    /\ pending = "none"
    /\ raised = FALSE

\* upgrade(): instances.create_column(progress); on any exception log
\* "progress column not added to instances table" and re-raise.
upgrade ==
    /\ version = 48 /\ pending = "none"
    /\ IF progress
         THEN /\ raised' = TRUE
              /\ UNCHANGED <<progress, pending>>
         ELSE /\ progress' = TRUE
              /\ pending' = "up"
              /\ raised' = FALSE
    /\ UNCHANGED version

\* downgrade(): instances.drop_column(progress), exceptions propagate.
downgrade ==
    /\ version = 49 /\ pending = "none"
    /\ IF ~progress
         THEN /\ raised' = TRUE
              /\ UNCHANGED <<progress, pending>>
         ELSE /\ progress' = FALSE
              /\ pending' = "down"
              /\ raised' = FALSE
    /\ UNCHANGED version

\* sqlalchemy-migrate records the new version after the script returns.
RecordVersion ==
    /\ pending # "none"
    /\ version' = IF pending = "up" THEN 49 ELSE 48
    /\ pending' = "none"
    /\ UNCHANGED <<progress, raised>>

\* The process stops after the script's DDL committed, before the
\* version row was written.
Interrupted ==
    /\ pending # "none"
    /\ pending' = "none"
    /\ UNCHANGED <<version, progress, raised>>

Next == upgrade \/ downgrade \/ RecordVersion \/ Interrupted

Spec == Init /\ [][Next]_vars

-----------------------------------------------------------------------------

\* The schema a version promises: at 48 there is no progress column, so the
\* migration to 49 can run, and at 49 there is one to drop.  A migration
\* whose run was interrupted should leave a schema the next run accepts.
SchemaMatchesVersion ==
    pending = "none" => (progress <=> version = 49)

=============================================================================
