------------------------ MODULE OperationBarrierProofs ------------------------
(***************************************************************************)
(* The operation journal implements the effect barrier, for every set of   *)
(* operations, threads and owners, every plan and every number of attempts.*)
(***************************************************************************)
EXTENDS OperationBarrier, OperationJournalProofs

(* A latch belongs to the latest attempt: those before it prove that       *)
(* nothing was started, those after it are not stored.                     *)
LEMMA LatchIsLatest ==
  ASSUME IInv, NEW o \in Ops, NEW n \in AttemptNumbers, dispatch[o][n] = "started"
  PROVE  n = latest[o]
  <1>1. ~(n > latest[o])
    BY DEF IInv, RowsInv, Unstored
  <1>2. ~(n < latest[o])
    BY DEF IInv, RowsInv, Closed, RowsAreSound, RowFacts
  <1> QED  BY <1>1, <1>2, TypeParts DEF IInv, JournalOK, TablesOK, AttemptNumbers

(* The sets of the barrier, read off the latest attempts.                  *)
LEMMA BarrierView ==
  ASSUME IInv, NEW o \in Ops, NEW n \in AttemptNumbers, n = latest[o]
  PROVE  /\ o \in BegunOps <=> dispatch[o][n] = "started"
         /\ o \in BarrierOps <=> dispatch[o][n] = "started" /\ held[o][n] # {}
         /\ RecordedOutcome[o] = attempts[o][n].outcome
  <1>1. o \in BegunOps <=> dispatch[o][n] = "started"
    BY LatchIsLatest DEF BegunOps
  <1>2. o \in BarrierOps <=> dispatch[o][n] = "started" /\ held[o][n] # {}
    BY LatchIsLatest DEF BarrierOps
  <1>3. n # 0
    BY DEF AttemptNumbers
  <1> QED  BY <1>1, <1>2, <1>3 DEF RecordedOutcome

(* An operation excludes itself when it claims anything at all.            *)
LEMMA SelfExclusion ==
  ASSUME NEW o \in Ops
  PROVE  Excludes(o, o) <=> ClaimKeys(o) # {}
  BY DEF Excludes, Overlap

-----------------------------------------------------------------------------
(* Steps that write one row of the journal.                                *)

(* The barrier sees of a row whether it is latched, whether it holds its   *)
(* claim and what its outcome is.                                          *)
LEMMA RowStepBegun ==
  ASSUME JournalOK, NEW o \in Ops, NEW n \in AttemptNumbers, NEW b, NEW d, NEW h,
         RowStep(o, n, b, d, h), dispatch[o][n] = "started" => d = "started"
  PROVE  BegunOps' = IF d = "started" THEN BegunOps \cup {o} ELSE BegunOps
  <1>1. \A p \in Ops, m \in AttemptNumbers :
          dispatch'[p][m] = IF p = o /\ m = n THEN d ELSE dispatch[p][m]
    BY RowStepRows
  <1>2. CASE d = "started"
    BY <1>1, <1>2 DEF BegunOps
  <1>3. CASE d # "started"
    BY <1>1, <1>3 DEF BegunOps
  <1> QED  BY <1>2, <1>3

(* The same for the barriers, when the row is that of the latest attempt.  *)
LEMMA RowStepBarrier ==
  ASSUME IInv, NEW o \in Ops, NEW n \in AttemptNumbers, n = latest[o],
         NEW b, NEW d, NEW h, RowStep(o, n, b, d, h)
  PROVE  BarrierOps' = IF d = "started" /\ h # {} THEN BarrierOps \cup {o}
                                                  ELSE BarrierOps \ {o}
  <1>1. \A p \in Ops, m \in AttemptNumbers :
          /\ dispatch'[p][m] = IF p = o /\ m = n THEN d ELSE dispatch[p][m]
          /\ held'[p][m] = IF p = o /\ m = n THEN h ELSE held[p][m]
    BY RowStepRows, TypeParts DEF IInv
  <1>2. \A m \in AttemptNumbers : m # n => dispatch[o][m] # "started"
    BY LatchIsLatest
  <1>3. CASE d = "started" /\ h # {}
    BY <1>1, <1>2, <1>3 DEF BarrierOps
  <1>4. CASE ~(d = "started" /\ h # {})
    BY <1>1, <1>2, <1>4 DEF BarrierOps
  <1> QED  BY <1>3, <1>4

(* And for the outcomes.                                                   *)
LEMMA RowStepOutcome ==
  ASSUME IInv, NEW o \in Ops, NEW n \in AttemptNumbers, n = latest[o],
         NEW b, NEW d, NEW h, RowStep(o, n, b, d, h)
  PROVE  RecordedOutcome' = [RecordedOutcome EXCEPT ![o] = b.outcome]
  <1>1. \A p \in Ops, m \in AttemptNumbers :
          attempts'[p][m] = IF p = o /\ m = n THEN b ELSE attempts[p][m]
    BY RowStepRows, TypeParts DEF IInv
  <1>5. latest' = latest
    BY DEF RowStep
  <1>2. \A p \in Ops : latest[p] = 0 \/ latest[p] \in AttemptNumbers
    BY TypeParts DEF IInv, JournalOK, TablesOK, AttemptNumbers
  <1>3. n # 0
    BY DEF AttemptNumbers
  <1>4. \A p \in Ops :
          (IF latest'[p] = 0 THEN "none" ELSE attempts'[p][latest'[p]].outcome)
            = IF p = o THEN b.outcome ELSE RecordedOutcome[p]
    BY <1>1, <1>2, <1>3, <1>5 DEF RecordedOutcome
  <1> QED  BY <1>4 DEF RecordedOutcome

(* A row step that changes neither of the three is invisible.              *)
LEMMA QuietRow ==
  ASSUME IInv, NEW o \in Ops, NEW n \in AttemptNumbers, n = latest[o],
         NEW b, NEW d, NEW h, RowStep(o, n, b, d, h),
         d = "started" <=> dispatch[o][n] = "started",
         d = "started" => (h = {} <=> held[o][n] = {}),
         b.outcome = attempts[o][n].outcome,
         UNCHANGED effects
  PROVE  UNCHANGED Barrier!vars
  <1>1. BegunOps' = BegunOps
    <2>1. d = "started" => o \in BegunOps
      BY BarrierView
    <2> QED  BY <2>1, RowStepBegun, TypeParts DEF IInv
  <1>2. BarrierOps' = BarrierOps
    <2>1. BarrierOps' = IF d = "started" /\ h # {} THEN BarrierOps \cup {o}
                                                   ELSE BarrierOps \ {o}
      BY RowStepBarrier
    <2>2. o \in BarrierOps <=> d = "started" /\ h # {}
      BY BarrierView
    <2> QED  BY <2>1, <2>2
  <1>3. RecordedOutcome' = RecordedOutcome
    <2>1. RecordedOutcome' = [RecordedOutcome EXCEPT ![o] = RecordedOutcome[o]]
      <3>1. RecordedOutcome' = [RecordedOutcome EXCEPT ![o] = b.outcome]
        BY RowStepOutcome
      <3>2. RecordedOutcome[o] = b.outcome
        BY BarrierView
      <3> QED  BY <3>1, <3>2
    <2> QED  BY <2>1 DEF RecordedOutcome
  <1>4. InvokedOps' = InvokedOps
    BY DEF InvokedOps
  <1> QED  BY <1>1, <1>2, <1>3, <1>4 DEF Barrier!vars

(* So is a step that leaves the attempts, the latches and the claims alone.*)
LEMMA QuietTables ==
  ASSUME UNCHANGED <<attempts, latest, dispatch, held, effects>>
  PROVE  UNCHANGED Barrier!vars
  BY DEF BegunOps, BarrierOps, RecordedOutcome, InvokedOps, Barrier!vars

(* A transition that moves the latest row to another state.                *)
LEMMA QuietMove ==
  ASSUME IInv, NEW o \in Ops, NEW n \in AttemptNumbers, n <= latest[o], Owned(o, n),
         NEW s \in OperationState, Store(o, n, Moved(attempts[o][n], s)),
         UNCHANGED <<latest, activeOwner, dispatch, held, effects>>
  PROVE  UNCHANGED Barrier!vars
  <1>1. n = latest[o] /\ JournalOK /\ attempts[o][n] \in Attempt
    BY OwnedRow
  <1>2. RowStep(o, n, Moved(attempts[o][n], s), dispatch[o][n], held[o][n])
    BY <1>1, SameTables DEF RowStep, Store
  <1> QED  BY <1>1, <1>2, MovedFields, QuietRow

(* Cancelling an attempt that has not started resolves a claim that no     *)
(* latch stands behind.                                                    *)
LEMMA QuietCancel ==
  ASSUME IInv, NEW o \in Ops, NEW n \in AttemptNumbers, CanCancel(o, n),
         Store(o, n, Moved(attempts[o][n], "Cancelled")), Resolve(o, n),
         UNCHANGED <<latest, activeOwner, dispatch, effects>>
  PROVE  UNCHANGED Barrier!vars
  <1> DEFINE b == Moved(attempts[o][n], "Cancelled")
  <1> DEFINE h == {}
  <1> DEFINE d == dispatch[o][n]
  <1>1. n <= latest[o] /\ Owned(o, n) /\ attempts[o][n].state \in Unstarted
    BY DEF CanCancel, Stored
  <1>2. /\ n = latest[o] /\ JournalOK /\ attempts[o][n] \in Attempt
        /\ dispatch[o][n] # "started"
    BY <1>1, OwnedRow DEF RowFacts
  <1>3. "Cancelled" \in OperationState
    BY DEF OperationState
  <1>4. b.outcome = attempts[o][n].outcome
    BY <1>2, <1>3, MovedFields
  <1>5. RowStep(o, n, b, d, h)
    BY <1>2, SameTables DEF RowStep, Store, Resolve
  <1> HIDE DEF b, h
  <1> QED  BY <1>2, <1>4, <1>5, QuietRow

(* A request to cancel is only a mark.                                     *)
LEMMA QuietRequest ==
  ASSUME IInv, NEW o \in Ops, NEW n \in AttemptNumbers, RequestCancellation(o, n)
  PROVE  UNCHANGED Barrier!vars
  <1> DEFINE a == attempts[o][n]
  <1> DEFINE r == a.rev + 1
  <1> DEFINE b == [a EXCEPT !.cancel = TRUE, !.rev = r]
  <1> DEFINE d == dispatch[o][n]
  <1> DEFINE h == held[o][n]
  <1>1. /\ n <= latest[o] /\ Owned(o, n) /\ Store(o, n, b)
        /\ UNCHANGED <<latest, activeOwner, dispatch, held, effects>>
    BY DEF RequestCancellation, Stored, Store
  <1>2. n = latest[o] /\ JournalOK /\ a \in Attempt
    BY <1>1, OwnedRow
  <1> HIDE DEF r
  <1>3. b.outcome = a.outcome
    BY <1>2 DEF Attempt
  <1>4. RowStep(o, n, b, d, h)
    BY <1>1, <1>2, SameTables DEF RowStep, Store
  <1> HIDE DEF b
  <1> QED  BY <1>1, <1>2, <1>3, <1>4, QuietRow

(* Recovery of a dispatch that never started resolves its claim.           *)
LEMMA QuietRecover ==
  ASSUME IInv, NEW o \in Ops, RecoverUnstartedDispatch(o)
  PROVE  UNCHANGED Barrier!vars
  <1> DEFINE n == latest[o]
  <1> DEFINE a == attempts[o][n]
  <1> DEFINE c == Moved(a, "RecoveryRequired")
  <1> DEFINE b == [c EXCEPT !.evidence = TRUE]
  <1> DEFINE d == dispatch[o][n]
  <1> DEFINE h == {}
  <1>1. JournalOK /\ n \in AttemptNumbers
    BY TypeParts DEF IInv, RecoverUnstartedDispatch, Admitted, JournalOK, TablesOK,
                     AttemptNumbers
  <1>2. /\ Store(o, n, b) /\ held' = [held EXCEPT ![o][n] = h] /\ d # "started"
        /\ UNCHANGED <<latest, activeOwner, dispatch, effects>>
    BY DEF RecoverUnstartedDispatch, Resolve
  <1>3. a \in Attempt /\ "RecoveryRequired" \in OperationState
    BY <1>1, RowOK DEF IInv, OperationState
  <1>4. c \in Attempt /\ c.outcome = a.outcome
    BY <1>3, MovedFields
  <1> HIDE DEF c
  <1>5. b.outcome = a.outcome
    BY <1>4 DEF Attempt
  <1>6. RowStep(o, n, b, d, h)
    BY <1>1, <1>2, SameTables DEF RowStep, Store
  <1> HIDE DEF b, h, n
  <1>7. n = latest[o]
    BY DEF n
  <1> QED  BY <1>1, <1>2, <1>5, <1>6, <1>7, QuietRow

(* admit and admit_retry insert a row without latch, claim or outcome.     *)
LEMMA QuietInsert ==
  ASSUME IInv, NEW o, NEW n, NEW b, Inserts(o, n, b), UNCHANGED effects,
         latest[o] # 0 => attempts[o][latest[o]].outcome = "none"
  PROVE  UNCHANGED Barrier!vars
  <1>1. /\ o \in Ops /\ n \in AttemptNumbers /\ n = latest[o] + 1 /\ b.outcome = "none"
        /\ UNCHANGED <<dispatch, held>> /\ JournalOK
    BY TypeParts DEF Inserts, IInv
  <1>2. \A p \in Ops : latest[p] = 0 \/ latest[p] \in AttemptNumbers
    BY <1>1 DEF JournalOK, TablesOK, AttemptNumbers
  <1>3. \A p \in Ops \ {o} :
          /\ latest'[p] = latest[p]
          /\ latest[p] # 0 => attempts'[p][latest[p]] = attempts[p][latest[p]]
    BY <1>1, <1>2, InsertRows
  <1>4. latest'[o] = n /\ attempts'[o][n] = b /\ n # 0
    BY <1>1, InsertRows DEF AttemptNumbers
  <1>5. RecordedOutcome' = RecordedOutcome
    BY <1>1, <1>3, <1>4 DEF RecordedOutcome
  <1>6. BegunOps' = BegunOps /\ BarrierOps' = BarrierOps /\ InvokedOps' = InvokedOps
    BY <1>1 DEF BegunOps, BarrierOps, InvokedOps
  <1> QED  BY <1>5, <1>6 DEF Barrier!vars

(* The end of a latched attempt records an outcome once; only a failure    *)
(* may leave the claim where it is.                                        *)
LEMMA RowStepRecords ==
  ASSUME IInv, NEW o \in Ops, NEW n \in AttemptNumbers, n = latest[o],
         NEW b, NEW h, RowStep(o, n, b, dispatch[o][n], h),
         dispatch[o][n] = "started", attempts[o][n].outcome = "none",
         h = {} \/ (h = held[o][n] /\ b.outcome = "failure"),
         UNCHANGED effects
  PROVE  Barrier!Record(o, b.outcome)
  <1>1. o \in BegunOps /\ RecordedOutcome[o] = "none"
    BY BarrierView
  <1>2. BegunOps' = BegunOps
    BY <1>1, RowStepBegun, TypeParts DEF IInv
  <1>3. BarrierOps' = IF h # {} THEN BarrierOps \cup {o} ELSE BarrierOps \ {o}
    BY RowStepBarrier
  <1>4. \/ BarrierOps' = BarrierOps \ {o}
        \/ b.outcome = "failure" /\ BarrierOps' = BarrierOps
    <2>1. CASE h = {}
      BY <1>3, <2>1
    <2>2. CASE h # {}
      <3>1. o \in BarrierOps
        BY <2>2, BarrierView
      <3> QED  BY <1>3, <2>2, <3>1
    <2> QED  BY <2>1, <2>2
  <1>5. RecordedOutcome' = [RecordedOutcome EXCEPT ![o] = b.outcome]
    BY RowStepOutcome
  <1>6. InvokedOps' = InvokedOps
    BY DEF InvokedOps
  <1> QED  BY <1>1, <1>2, <1>4, <1>5, <1>6 DEF Barrier!Record

-----------------------------------------------------------------------------
(* The steps the barrier sees.                                             *)

(* latch_effect_start begins the operation: its key was admitted once and  *)
(* the claim it holds excludes every unsettled effect but its parent's.    *)
LEMMA LatchBegins ==
  ASSUME IInv, NEW t \in Threads, LatchEffectStart(t)
  PROVE  Barrier!Begin(call[t].op)
  <1> DEFINE o == call[t].op
  <1> DEFINE n == call[t].n
  <1> DEFINE b == LatchedRow(Att(t))
  <1>1. /\ o \in Ops /\ n \in AttemptNumbers /\ n <= latest[o] /\ Owned(o, n)
        /\ attempts[o][n].state = "Queued" /\ dispatch[o][n] = "claimed"
    BY CallRow DEF LatchEffectStart, CanLatch, Mine, Att
  <1>2. RowStep(o, n, b, "started", held[o][n]) /\ n = latest[o]
    BY LatchRow DEF Rewrites, Legit
  <1>3. held[o][n] = ClaimKeys(o) /\ attempts[o][n].outcome = "none"
    BY <1>1, OwnedRow DEF RowFacts, Valid
  <1>4. b.outcome = "none"
    <2>1. Att(t) = attempts[o][n] /\ Att(t) \in Attempt
      BY CalleeOK DEF Att, IInv
    <2> QED  BY <1>3, <2>1, LatchedFields
  <1> HIDE DEF b, o, n
  <1>5. o \notin BegunOps
    BY <1>1, <1>2, BarrierView
  <1>6. \A p \in BegunOps : KeyOf(p) # KeyOf(o)
    <2> SUFFICES ASSUME NEW p \in BegunOps, KeyOf(p) = KeyOf(o)  PROVE FALSE
      OBVIOUS
    <2>1. p \in Admitted /\ o \in Admitted
      <3>1. latest[o] \in AttemptNumbers
        BY <1>1, <1>2
      <3>2. p \in Ops /\ latest[p] \in AttemptNumbers
        BY LatchIsLatest DEF BegunOps
      <3> QED  BY <1>1, <3>1, <3>2 DEF Admitted, AttemptNumbers
    <2>2. p = o
      BY <2>1 DEF KeyOf, IInv, CallsInv, KeysAreUnique
    <2> QED  BY <1>5, <2>2
  <1>7. \A p \in BarrierOps : Excludes(o, p) => p = ParentOf(o)
    <2> SUFFICES ASSUME NEW p \in BarrierOps, Excludes(o, p)  PROVE p = ParentOf(o)
      OBVIOUS
    <2>1. PICK m \in AttemptNumbers : dispatch[p][m] = "started" /\ held[p][m] # {}
      BY DEF BarrierOps
    <2>2. p \in Ops /\ p \in BegunOps
      BY <2>1 DEF BarrierOps, BegunOps
    <2>3. held[p][m] = ClaimKeys(p)
      BY <2>1, <2>2 DEF IInv, RowsInv, RowsAreSound, RowFacts
    <2>4. o # p /\ Overlap(held[o][n], held[p][m])
      BY <1>3, <1>5, <2>2, <2>3 DEF Excludes
    <2>5. Under(o, p, m) \/ Under(p, o, n)
      BY <1>1, <2>2, <2>4 DEF IInv, ClaimsExclude
    <2> QED  BY <1>1, <2>5 DEF Under, ParentOf
  <1>8. BegunOps' = BegunOps \cup {o}
    BY <1>1, <1>2, RowStepBegun, TypeParts DEF IInv
  <1>9. BarrierOps' = IF Excludes(o, o) THEN BarrierOps \cup {o} ELSE BarrierOps
    <2>1. BarrierOps' = IF held[o][n] # {} THEN BarrierOps \cup {o} ELSE BarrierOps \ {o}
      BY <1>1, <1>2, RowStepBarrier
    <2>2. o \notin BarrierOps
      BY <1>1, <1>2, BarrierView
    <2> QED  BY <1>1, <1>3, <2>1, <2>2, SelfExclusion
  <1>10. RecordedOutcome' = RecordedOutcome
    <2>1. RecordedOutcome' = [RecordedOutcome EXCEPT ![o] = b.outcome]
      BY <1>1, <1>2, RowStepOutcome
    <2>2. RecordedOutcome[o] = b.outcome
      BY <1>1, <1>2, <1>3, <1>4, BarrierView
    <2> QED  BY <2>1, <2>2 DEF RecordedOutcome
  <1>11. InvokedOps' = InvokedOps
    BY DEF LatchEffectStart, InvokedOps
  <1>12. Barrier!Begin(o)
    BY <1>6, <1>7, <1>8, <1>9, <1>10, <1>11 DEF Barrier!Begin
  <1> QED  BY <1>12 DEF o

(* EffectPermit::dispatch invokes the action of a begun operation, the     *)
(* first time and while it stands in the way of its conflicts.             *)
LEMMA ActionInvokes ==
  ASSUME IInv, NEW t \in Threads, InvokeAction(t)
  PROVE  Barrier!Invoke(call[t].op)
  <1> DEFINE o == call[t].op
  <1> DEFINE n == call[t].n
  <1>1. /\ o \in Ops /\ n \in AttemptNumbers /\ n <= latest[o] /\ Owned(o, n)
        /\ attempts[o][n].state = "EffectPossible" /\ dispatch[o][n] = "started"
        /\ effects' = [effects EXCEPT ![o] = @ + 1]
        /\ UNCHANGED <<attempts, latest, dispatch, held>>
    BY CallRow DEF InvokeAction, CanConsume, Mine, Att, journal
  <1>2. n = latest[o]
    BY <1>1, OwnedRow
  <1>3. attempts[o][n].outcome = "none" /\ held[o][n] = ClaimKeys(o)
    BY <1>1, OwnedRow DEF RowFacts, Valid
  <1>4. effects[o] = 0
    BY DEF InvokeAction, IInv, CallsInv, PermitsAreBacked, Backed
  <1> HIDE DEF o, n
  <1>5. o \in BegunOps \ InvokedOps
    BY <1>1, <1>2, <1>4, BarrierView DEF InvokedOps
  <1>6. RecordedOutcome[o] = "none"
    BY <1>1, <1>2, <1>3, BarrierView
  <1>7. Excludes(o, o) => o \in BarrierOps
    BY <1>1, <1>2, <1>3, BarrierView, SelfExclusion
  <1>8. InvokedOps' = InvokedOps \cup {o}
    <2>1. effects \in [Ops -> Nat]
      BY DEF IInv, CoreOK
    <2>2. \A p \in Ops : effects'[p] = IF p = o THEN 1 ELSE effects[p]
      BY <1>1, <1>4, <2>1
    <2> QED  BY <1>1, <2>1, <2>2 DEF InvokedOps
  <1>9. BegunOps' = BegunOps /\ BarrierOps' = BarrierOps /\ RecordedOutcome' = RecordedOutcome
    BY <1>1 DEF BegunOps, BarrierOps, RecordedOutcome
  <1>10. Barrier!Invoke(o)
    BY <1>5, <1>6, <1>7, <1>8, <1>9 DEF Barrier!Invoke
  <1> QED  BY <1>10 DEF o

(* complete_for_session records what the adapter answered and settles the  *)
(* claim.                                                                  *)
LEMMA CompleteRecords ==
  ASSUME IInv, NEW t \in Threads, NEW ok \in BOOLEAN, Complete(t, ok)
  PROVE  \E out \in {"result", "failure"} : Barrier!Record(call[t].op, out)
  <1> DEFINE o == call[t].op
  <1> DEFINE n == call[t].n
  <1> DEFINE e == IF Plan[o].class = "read_only" THEN "KnownNoEffect" ELSE "Possible"
  <1> DEFINE b == IF ok THEN Finished(Att(t), "Succeeded", e, "result")
                        ELSE Finished(Att(t), "Failed", "Possible", "failure")
  <1>1. /\ o \in Ops /\ n \in AttemptNumbers /\ n <= latest[o] /\ Owned(o, n)
        /\ attempts[o][n].state = "EffectPossible" /\ Store(o, n, b)
        /\ held' = [held EXCEPT ![o][n] = {}]
        /\ UNCHANGED <<latest, activeOwner, dispatch, effects>>
    BY CallRow DEF Complete, CanComplete, Mine, Att, Resolve
  <1>2. /\ n = latest[o] /\ dispatch[o][n] = "started"
        /\ attempts[o][n].outcome = "none" /\ JournalOK
    BY <1>1, OwnedRow DEF RowFacts, Valid
  <1>3. b.outcome \in {"result", "failure"}
    <2>1. Att(t) \in Attempt /\ e \in CompletedEffect /\ "Possible" \in CompletedEffect
      BY CalleeOK DEF CompletedEffect, IInv
    <2>2. {"Succeeded", "Failed"} \subseteq OperationState
      BY DEF OperationState
    <2>3. CASE ok
      BY <2>1, <2>2, <2>3, FinishedFields
    <2>4. CASE ~ok
      BY <2>1, <2>2, <2>4, FinishedFields
    <2> QED  BY <2>3, <2>4
  <1> HIDE DEF b, o, n
  <1>4. RowStep(o, n, b, dispatch[o][n], {})
    BY <1>1, <1>2, SameTables DEF RowStep, Store
  <1>5. Barrier!Record(o, b.outcome)
    BY <1>1, <1>2, <1>4, RowStepRecords
  <1> QED  BY <1>3, <1>5 DEF o

(* Recovery records the outcome it has evidence of; the claim stays when   *)
(* the effect of a failure is not known.                                   *)
LEMMA FinalizeRecords ==
  ASSUME IInv, NEW o \in Ops, NEW n \in AttemptNumbers, NEW e \in CompletedEffect,
         FinalizeRecoveredSuccess(o, n, e) \/ FinalizeRecoveredFailure(o, n, e)
  PROVE  \E out \in {"result", "failure"} : Barrier!Record(o, out)
  <1> DEFINE a == attempts[o][n]
  <1> DEFINE good == FinalizeRecoveredSuccess(o, n, e)
  <1> DEFINE c == IF good THEN Finished(a, "Succeeded", e, "result")
                          ELSE Finished(a, "Failed", e, "failure")
  <1> DEFINE b == [c EXCEPT !.evidence = TRUE]
  <1> DEFINE h == IF good \/ e = "KnownNoEffect" THEN {} ELSE held[o][n]
  <1>1. /\ CanFinalize(o, n) /\ Store(o, n, b)
        /\ held' = [held EXCEPT ![o][n] = h]
        /\ UNCHANGED <<latest, activeOwner, dispatch, effects>>
    BY DEF FinalizeRecoveredSuccess, FinalizeRecoveredFailure, Resolve
  <1>2. n = latest[o] /\ JournalOK /\ a \in Attempt /\ a.outcome = "none"
    BY <1>1, OwnedRow DEF CanFinalize, Stored, Valid
  <1>3. dispatch[o][n] = "started"
    BY <1>1, <1>2, OwnedRow DEF CanFinalize, Stored, RowFacts
  <1>4. /\ c \in Attempt
        /\ c.outcome \in {"result", "failure"}
        /\ ~good => c.outcome = "failure"
    <2>1. {"Succeeded", "Failed"} \subseteq OperationState
      BY DEF OperationState
    <2> QED  BY <1>2, <2>1, FinishedFields
  <1>5. b.outcome = c.outcome
    BY <1>4 DEF Attempt
  <1>6. h = {} \/ (h = held[o][n] /\ b.outcome = "failure")
    BY <1>4, <1>5
  <1> HIDE DEF b, c, h, a
  <1>7. RowStep(o, n, b, dispatch[o][n], h)
    BY <1>1, <1>2, SameTables DEF RowStep, Store
  <1>8. Barrier!Record(o, b.outcome)
    BY <1>2, <1>3, <1>6, <1>7, <1>1, RowStepRecords DEF a
  <1> QED  BY <1>4, <1>5, <1>8
-----------------------------------------------------------------------------
(* The steps the barrier does not see.                                     *)

(* What a thread does besides: it moves the latest row on, claims, or asks *)
(* the journal.                                                            *)
LEMMA ThreadImplements ==
  ASSUME IInv, NEW t \in Threads, ThreadStep(t) \/ ResponseLost(t) \/ DenyDispatch(t)
  PROVE  [Barrier!Next]_(Barrier!vars)
  <1> DEFINE o == call[t].op
  <1> DEFINE n == call[t].n
  <1>1. ASSUME NEW s \in OperationState, call[t].pc # "idle", Mine(t),
               Store(o, n, Moved(Att(t), s)),
               UNCHANGED <<latest, activeOwner, dispatch, held, effects>>
        PROVE  UNCHANGED Barrier!vars
    BY <1>1, CallRow, QuietMove DEF Mine, Att
  <1>2. {"Authorized", "Queued", "Interrupted", "RecoveryRequired", "Cancelled"}
          \subseteq OperationState
    BY DEF OperationState
  <1>3. CASE AuthorizeIntent(t) \/ QueueIntent(t) \/ ResponseLost(t)
    BY <1>1, <1>2, <1>3 DEF AuthorizeIntent, CanAuthorize, QueueIntent, CanQueue,
                            ResponseLost, CanComplete
  <1>4. CASE ReportLoss(t)
    <2>1. CASE UNCHANGED attempts
      BY <1>4, <2>1, QuietTables DEF ReportLoss
    <2>2. CASE Mine(t) /\ Store(o, n, Moved(Att(t), "RecoveryRequired"))
      BY <1>1, <1>2, <1>4, <2>2 DEF ReportLoss
    <2> QED  BY <1>4, <2>1, <2>2 DEF ReportLoss
  <1>5. CASE DenyDispatch(t)
    <2>1. /\ CanCancel(o, n) /\ o \in Ops /\ n \in AttemptNumbers
          /\ Store(o, n, Moved(attempts[o][n], "Cancelled")) /\ Resolve(o, n)
          /\ UNCHANGED <<latest, activeOwner, dispatch, effects>>
      BY <1>5, CalleeOK DEF DenyDispatch, Att, IInv
    <2> QED  BY <2>1, QuietCancel
  <1>6. CASE ClaimDispatch(t)
    <2> DEFINE b == Att(t)
    <2>1. RowStep(o, n, b, "claimed", ClaimKeys(o)) /\ n = latest[o] /\ dispatch[o][n] = "none"
      BY <1>6, ClaimRow DEF Rewrites, Legit, ClaimDispatch, CanClaim
    <2>2. o \in Ops /\ n \in AttemptNumbers /\ b.outcome = attempts[o][n].outcome
      BY CalleeOK DEF Att, IInv
    <2>3. UNCHANGED effects
      BY <1>6 DEF ClaimDispatch
    <2> HIDE DEF b, o, n
    <2> QED  BY <2>1, <2>2, <2>3, QuietRow
  <1>7. CASE LatchEffectStart(t)
    BY <1>7, LatchBegins, CalleeOK DEF IInv, Barrier!Next
  <1>8. CASE InvokeAction(t)
    BY <1>8, ActionInvokes, CalleeOK DEF IInv, Barrier!Next
  <1>9. CASE \E ok \in BOOLEAN : Complete(t, ok)
    BY <1>9, CompleteRecords, CalleeOK DEF IInv, Barrier!Next
  <1>10. CASE ActionReturns(t) \/ Refuse(t) \/ ReportDenied(t)
    BY <1>10, QuietTables DEF ActionReturns, Refuse, ReportDenied, journal
  <1> QED  BY <1>3, <1>4, <1>5, <1>6, <1>7, <1>8, <1>9, <1>10 DEF ThreadStep

(* Recovery and cancellation of an attempt.                                *)
LEMMA AttemptImplements ==
  ASSUME IInv, NEW o \in Ops, NEW n \in AttemptNumbers, AttemptStep(o, n)
  PROVE  [Barrier!Next]_(Barrier!vars)
  <1>1. {"Interrupted", "RecoveryRequired", "Blocked", "Superseded"} \subseteq OperationState
    BY DEF OperationState
  <1>2. CASE CancelBeforeStart(o, n)
    BY <1>2, QuietCancel DEF CancelBeforeStart
  <1>3. CASE RequestCancellation(o, n)
    BY <1>3, QuietRequest
  <1>4. CASE Interrupt(o, n) \/ RequireRecovery(o, n)
    BY <1>1, <1>4, QuietMove DEF Interrupt, RequireRecovery, Stored
  <1>5. CASE BlockRecovery(o, n)
    BY <1>1, <1>5, QuietMove DEF BlockRecovery, CanFinalize, Stored
  <1>6. CASE Supersede(o, n)
    BY <1>1, <1>6, QuietMove DEF Supersede, Stored
  <1>7. CASE \E e \in CompletedEffect :
               FinalizeRecoveredSuccess(o, n, e) \/ FinalizeRecoveredFailure(o, n, e)
    BY <1>7, FinalizeRecords DEF Barrier!Next
  <1> QED  BY <1>2, <1>3, <1>4, <1>5, <1>6, <1>7 DEF AttemptStep

(* Every step of the journal and its host is a step of the effect barrier  *)
(* or invisible to it.                                                     *)
LEMMA StepImplements ==
  ASSUME IInv, [Next]_vars
  PROVE  [Barrier!Next]_(Barrier!vars)
  <1>1. CASE UNCHANGED vars
    BY <1>1, QuietTables DEF vars
  <1>2. ASSUME NEW t \in Threads, NEW o \in Ops,
               \/ \E w \in Owners : PersistIntent(t, o, w)
               \/ AdmitRetry(t, o) \/ ScheduleRecovered(t, o)
        PROVE  UNCHANGED Barrier!vars
    <2>1. ASSUME NEW w \in Owners, PersistIntent(t, o, w)  PROVE UNCHANGED Barrier!vars
      <3>1. latest[o] = 0 /\ UNCHANGED effects /\ \E b : Inserts(o, 1, b)
        BY <2>1, PersistRow DEF PersistIntent
      <3> QED  BY <3>1, QuietInsert
    <2>2. CASE AdmitRetry(t, o)
      <3>1. UNCHANGED effects /\ \E b : Inserts(o, latest[o] + 1, b)
        BY <2>2, RetryRow DEF AdmitRetry
      <3>2. latest[o] \in AttemptNumbers /\ CanRetry(o)
        BY <2>2, RetryRow
      <3>3. attempts[o][latest[o]].outcome = "none"
        BY <3>2, RowOK DEF IInv, CanRetry, Valid
      <3> QED  BY <3>1, <3>3, QuietInsert
    <2>3. CASE ScheduleRecovered(t, o)
      BY <2>3, QuietTables DEF ScheduleRecovered, journal
    <2> QED  BY <1>2, <2>1, <2>2, <2>3
  <1>3. ASSUME NEW o \in Ops, NEW w \in Owners, FenceOwner(o, w)
        PROVE  UNCHANGED Barrier!vars
    BY <1>3, QuietTables DEF FenceOwner
  <1>4. ASSUME NEW o \in Ops, RecoverUnstartedDispatch(o)  PROVE UNCHANGED Barrier!vars
    BY <1>4, QuietRecover
  <1>5. ASSUME NEW r \in Roots, Crash(r)  PROVE UNCHANGED Barrier!vars
    BY <1>5, QuietTables DEF Crash, journal
  <1>6. ASSUME NEW o \in Ops, QuiesceOwner(o)  PROVE UNCHANGED Barrier!vars
    BY <1>6, QuietTables DEF QuiesceOwner, journal
  <1> QED  BY <1>1, <1>2, <1>3, <1>4, <1>5, <1>6, ThreadImplements, AttemptImplements DEF Next

(* An empty journal is an effect barrier with nothing begun.               *)
LEMMA InitImplements == Init => Barrier!Init
  <1> SUFFICES ASSUME Init  PROVE Barrier!Init
    OBVIOUS
  <1>1. \A o \in Ops, n \in AttemptNumbers : dispatch[o][n] = "none"
    BY DEF Init
  <1>2. \A o \in Ops : latest[o] = 0 /\ effects[o] = 0
    BY DEF Init
  <1>3. BegunOps = {} /\ BarrierOps = {} /\ InvokedOps = {}
    BY <1>1, <1>2 DEF BegunOps, BarrierOps, InvokedOps
  <1>4. RecordedOutcome = [o \in Ops |-> "none"]
    BY <1>2 DEF RecordedOutcome
  <1> QED  BY <1>3, <1>4 DEF Barrier!Init

(* The journal keeps the promise of EffectBarrier: over crashes, fences,   *)
(* retries and recovery, no two deliveries of a key are begun, no          *)
(* conflicting effect begins beside an unsettled one, and no outcome is    *)
(* invented or replaced.                                                   *)
THEOREM JournalIsBarrier == Spec => ImplementsBarrier
  <1>1. IInv /\ [Next]_vars => [Barrier!Next]_(Barrier!vars)
    BY StepImplements
  <1> QED  BY <1>1, InitImplements, Invariance, PTL DEF Spec, ImplementsBarrier, Barrier!Spec
=============================================================================
