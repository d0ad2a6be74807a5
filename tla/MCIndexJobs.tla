----------------------------- MODULE MCIndexJobs -----------------------------
(* Small instances of IndexJobs for TLC. *)
EXTENDS IndexJobs, TLC

CONSTANTS j1, j2

\* The setting differs between deployments that share the table: j1 is
\* dispatched by a task in the cloud, j2 by a process on a developer's machine.
Runner == (j1 :> "ecs" @@ j2 :> "inline")
=============================================================================
