---------------------------- MODULE EffectBarrier ----------------------------
(***************************************************************************)
(* What the operation journal promises its workspace, with no attempts,    *)
(* owners, threads or transactions: of the operations that share a caller  *)
(* key at most one is ever begun, and only once; an operation that is      *)
(* begun stands in the way of every conflicting one until its effect is    *)
(* settled; an outcome is recorded once, and only for an operation that    *)
(* was begun.                                                              *)
(***************************************************************************)
EXTENDS Naturals

CONSTANTS
  Ops,            \* operations
  KeyOf(_),       \* the caller key of an operation
  ParentOf(_),    \* the operation it runs under
  Excludes(_, _)  \* the two operations name a common resource

VARIABLES
  begun,          \* operations whose effect may have started
  invoked,        \* operations whose action was called
  barrier,        \* begun operations whose effect is not settled
  outcome         \* what is recorded of each operation

vars == <<begun, invoked, barrier, outcome>>

Init ==
  /\ begun = {}
  /\ invoked = {}
  /\ barrier = {}
  /\ outcome = [o \in Ops |-> "none"]

Begin(o) ==
  /\ \A p \in begun : KeyOf(p) # KeyOf(o)
  /\ \A p \in barrier : Excludes(o, p) => p = ParentOf(o)
  /\ begun' = begun \cup {o}
  /\ barrier' = IF Excludes(o, o) THEN barrier \cup {o} ELSE barrier
  /\ UNCHANGED <<invoked, outcome>>

Invoke(o) ==
  /\ o \in begun \ invoked
  /\ outcome[o] = "none"
  /\ Excludes(o, o) => o \in barrier
  /\ invoked' = invoked \cup {o}
  /\ UNCHANGED <<begun, barrier, outcome>>

(* A failure may leave the effect unsettled, a success never does.         *)
Record(o, out) ==
  /\ o \in begun
  /\ outcome[o] = "none"
  /\ outcome' = [outcome EXCEPT ![o] = out]
  /\ \/ barrier' = barrier \ {o}
     \/ out = "failure" /\ UNCHANGED barrier
  /\ UNCHANGED <<begun, invoked>>

Next ==
  \E o \in Ops :
    \/ Begin(o) \/ Invoke(o)
    \/ \E out \in {"result", "failure"} : Record(o, out)

Spec == Init /\ [][Next]_vars
=============================================================================
