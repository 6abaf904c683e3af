---------------------------- MODULE MCScriptRun ----------------------------
(* TLC instances of ScriptRun. *)
EXTENDS ScriptRun

CONSTANTS read1, read2, command1, t1, t2

\* Two reads that may share the lane, and a command that runs alone.
MCCalls == {read1, read2, command1}
MCShared == {read1, read2}
MCMutating == {command1}
MCCommands == {command1}
MCThreads == {t1, t2}
=============================================================================
