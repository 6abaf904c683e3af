------------------------- MODULE MCOperationJournal --------------------------
(* Instances of OperationJournal for TLC.                                  *)
EXTENDS OperationBarrier, TLC

CONSTANTS batch, child, rival, launch, again, w1, w2, root1, root2,
          k1, k2, k3, x1, x2, fileA, star, noOp, noWire, t1, t2

Call1(r, k, x, parent, class, res) ==
  [root |-> r, key |-> k, wire |-> x, parent |-> parent,
   class |-> class, resources |-> res]

(* A batch that claims everything, a child edit inside it and a rival edit *)
(* from another session of the workspace.                                  *)
ConflictPlan ==
  [o \in {batch, child, rival} |->
     CASE o = batch -> Call1(root1, k1, x1, noOp, "opaque", {})
       [] o = child -> Call1(root1, k2, noWire, batch, "scoped", {fileA})
       [] o = rival -> Call1(root2, k3, x1, noOp, "scoped", {fileA})]

(* One child launch delivered twice under one caller key; a launch claims  *)
(* no resource, so that only the journal stands against a second one.      *)
LaunchPlan ==
  [o \in {launch, again} |->
     Call1(root1, k1, IF o = launch THEN x1 ELSE x2, noOp, "read_only", {})]

OneGeneration == [w \in {w1} |-> 1]
TwoGenerations == [w \in {w1, w2} |-> IF w = w1 THEN 1 ELSE 2]

ThreadSymmetry == Permutations(Threads)
=============================================================================
