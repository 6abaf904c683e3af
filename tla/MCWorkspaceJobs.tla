-------------------------- MODULE MCWorkspaceJobs --------------------------
(* TLC instances of WorkspaceJobs. *)
EXTENDS WorkspaceJobs

CONSTANTS run, worker, shell, server, o1, o2

\* A worker's token below that of its parent; the worker owns the job book.
MCTokens == {run, worker}
MCParentOf == [t \in MCTokens |-> run]

\* The run owns the job book itself.
MCOneToken == {run}
MCOneParent == [t \in MCOneToken |-> run]
=============================================================================
