--------------------------- MODULE OperationBarrier ---------------------------
(***************************************************************************)
(* The operation journal implements the effect barrier.  An operation is   *)
(* begun when the effect-start latch of one of its attempts is durable; it *)
(* is a barrier while the claim of that attempt is unresolved; its outcome *)
(* is that of its latest attempt.                                          *)
(***************************************************************************)
EXTENDS OperationJournal

BegunOps == {o \in Ops : \E n \in AttemptNumbers : dispatch[o][n] = "started"}

BarrierOps ==
  {o \in Ops : \E n \in AttemptNumbers : dispatch[o][n] = "started" /\ held[o][n] # {}}

InvokedOps == {o \in Ops : effects[o] > 0}

RecordedOutcome ==
  [o \in Ops |-> IF latest[o] = 0 THEN "none" ELSE attempts[o][latest[o]].outcome]

KeyOf(o) == Plan[o].key
ParentOf(o) == Plan[o].parent
Excludes(o, p) == Overlap(ClaimKeys(o), ClaimKeys(p))

Barrier == INSTANCE EffectBarrier
             WITH begun <- BegunOps, invoked <- InvokedOps, barrier <- BarrierOps,
                  outcome <- RecordedOutcome

(* Every step of the journal is a step of the effect barrier or changes    *)
(* nothing it can see: over crashes, fences, retries and recovery, no two  *)
(* deliveries of a key are begun, no conflicting effect begins beside an   *)
(* unsettled one, and no outcome is invented or replaced (claim_dispatch,  *)
(* latch_effect_start, complete_for_session, the recovery transitions).    *)
ImplementsBarrier == Barrier!Spec
=============================================================================
