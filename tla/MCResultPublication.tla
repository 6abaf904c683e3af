------------------------- MODULE MCResultPublication -------------------------
(* Instances of ResultPublication for TLC.                                 *)
EXTENDS ResultPublication, TLC

CONSTANTS edit, read, script, step1, step2

(* One message with a mutating call and a read, then a script that runs a  *)
(* call of its own.                                                        *)
MixedBatches == <<<<edit, read>>, <<script>>>>
MixedParent == edit :> NoCall @@ read :> NoCall @@ script :> NoCall @@ step1 :> script

(* One message with a call and a script, for the branches of a session.    *)
BranchBatches == <<<<read, script>>>>
BranchParent == read :> NoCall @@ script :> NoCall @@ step1 :> script

(* A script with as many calls as one read of the outbox returns.          *)
ScriptBatches == <<<<script>>>>
ScriptParent == script :> NoCall @@ step1 :> script @@ step2 :> script
=============================================================================
