------------------------ MODULE OperationJournalProofs ------------------------
(***************************************************************************)
(* Theorems about the operation journal, for every set of operations,      *)
(* threads and owners, every plan and every number of attempts.            *)
(***************************************************************************)
EXTENDS OperationJournal, TLAPS

(* What one row of the journal says about an attempt: its record a, its    *)
(* dispatch claim d, its unresolved claim keys h, the keys its operation   *)
(* claims and whether its owner was fenced.                                *)
RowFacts(a, d, h, keys, outdated) ==
  /\ d = "started" <=> a.effect # "NotStarted"
  /\ a.state \in Unstarted \cup {"Created", "Cancelled"} => a.effect = "NotStarted"
  /\ a.state \in {"Created", "Persisted", "Authorized"} => d = "none"
  /\ a.state \in {"EffectPossible", "Interrupted", "Blocked"} => a.effect # "NotStarted"
  /\ a.outcome # "none" => a.effect # "NotStarted"
  /\ a.state = "RecoveryRequired" /\ a.effect = "NotStarted" => outdated /\ h = {}
  /\ d = "started" /\ a.outcome = "none" => h = keys
  /\ h = {} \/ h = keys
  /\ h # {} => d # "none"
  /\ a.state = "Queued" /\ d = "claimed" => h = keys

RowsAreSound ==
  \A o \in Ops, n \in AttemptNumbers :
    RowFacts(attempts[o][n], dispatch[o][n], held[o][n], ClaimKeys(o), Outdated(o, n))

(* Rows that were never inserted.                                          *)
Unstored ==
  \A o \in Ops, n \in AttemptNumbers :
    n > latest[o] => /\ attempts[o][n].state = "Created"
                     /\ dispatch[o][n] = "none"

(* The attempts before the latest are closed: fenced, proved unstarted and *)
(* overtaken by an attempt of a younger owner.                             *)
Closed ==
  \A o \in Ops, n \in AttemptNumbers :
    n < latest[o] => /\ attempts[o][n].state = "RecoveryRequired"
                     /\ attempts[o][n].effect = "NotStarted"
                     /\ Outdated(o, n)
                     /\ Generation[attempts[o][n].owner]
                          < Generation[attempts[o][n + 1].owner]

(* The owner of an attempt is in force or was fenced by a later one.       *)
OwnersAge ==
  \A o \in Ops, n \in AttemptNumbers :
    n <= latest[o] => Owned(o, n) \/ Outdated(o, n)

(* Conflicting claims are held together only by a parent that was latched  *)
(* and the operation that runs under it.                                   *)
Under(o, p, m) == Plan[o].parent = p /\ dispatch[p][m] = "started"

ClaimsExclude ==
  \A o, p \in Ops, n, m \in AttemptNumbers :
    o # p /\ Overlap(held[o][n], held[p][m]) => Under(o, p, m) \/ Under(p, o, n)

(* A thread works on a stored attempt, as its owner.                       *)
CallsAreStored ==
  \A t \in Threads :
    call[t].pc # "idle" =>
      call[t].n <= latest[call[t].op] /\ call[t].owner = Att(t).owner

(* What a thread that holds a permit knows of the journal.                 *)
Holding == {"permit", "latched", "running", "returned"}

Backed(t) ==
  LET d == dispatch[call[t].op][call[t].n] IN
  /\ call[t].pc = "permit" => d = "claimed"
  /\ call[t].pc \in {"latched", "running", "returned"} => d = "started"
  /\ call[t].pc = "latched" => effects[call[t].op] = 0
  /\ call[t].pc = "running" => Att(t).state = "EffectPossible"

PermitsAreBacked == \A t \in Threads : Backed(t)

PermitsAreUnique ==
  \A t, u \in Threads :
    t # u /\ call[t].pc \in Holding /\ call[u].pc \in Holding =>
      call[t].op # call[u].op \/ call[t].n # call[u].n

(* The action of an operation was invoked under its latest attempt.        *)
EffectsAreLatched ==
  \A o \in Ops :
    /\ effects[o] \in {0, 1}
    /\ effects[o] = 1 =>
         \E n \in AttemptNumbers : n = latest[o] /\ dispatch[o][n] = "started"

KeysAreUnique ==
  \A o, p \in Admitted : Plan[o].key = Plan[p].key => o = p

(* The part of the invariant that is about the database alone, and the     *)
(* part that relates it to the threads and to what they did.               *)
RowsInv == RowsAreSound /\ Unstored /\ Closed /\ OwnersAge

CallsInv ==
  /\ CallsAreStored /\ PermitsAreBacked /\ PermitsAreUnique
  /\ EffectsAreLatched /\ KeysAreUnique

(* TypeOK but for the answers of the host, which no other part needs.      *)
CoreOK ==
  /\ attempts \in [Ops -> [AttemptNumbers -> Attempt]]
  /\ \A o \in Ops, n \in AttemptNumbers : Valid(attempts[o][n])
  /\ latest \in [Ops -> 0..MaxAttempts]
  /\ activeOwner \in [Ops -> Owners]
  /\ dispatch \in [Ops -> [AttemptNumbers -> {"none", "claimed", "started"}]]
  /\ held \in [Ops -> [AttemptNumbers -> SUBSET Claimed]]
  /\ call \in [Threads -> Call]
  /\ effects \in [Ops -> Nat]

IInv == CoreOK /\ RowsInv /\ ClaimsExclude /\ CallsInv
-----------------------------------------------------------------------------
(* Type correctness.                                                       *)

RecordsOK ==
  /\ attempts \in [Ops -> [AttemptNumbers -> Attempt]]
  /\ \A o \in Ops, n \in AttemptNumbers : Valid(attempts[o][n])

(* CHOOSE finds an operation and an owner, since there are some.           *)
LEMMA Defaults == SomeOp \in Ops /\ SomeOwner \in Owners
  BY JournalAssumption DEF SomeOp, SomeOwner

(* admit stores the first attempt of an operation under number 1.          *)
LEMMA FirstAttempt == 1 \in AttemptNumbers
  BY JournalAssumption DEF AttemptNumbers

(* A record the reducer accepts keeps the table well formed.               *)
LEMMA StoreOK ==
  ASSUME RecordsOK, NEW o \in Ops, NEW n \in AttemptNumbers,
         NEW a \in Attempt, Valid(a), Store(o, n, a)
  PROVE  RecordsOK'
  <1>1. attempts' = [attempts EXCEPT ![o] = [attempts[o] EXCEPT ![n] = a]]
    BY DEF Store, RecordsOK
  <1>2. attempts' \in [Ops -> [AttemptNumbers -> Attempt]]
    BY <1>1 DEF RecordsOK
  <1>3. ASSUME NEW p \in Ops, NEW m \in AttemptNumbers
        PROVE  Valid(attempts'[p][m])
    <2>1. attempts'[p][m] = IF p = o /\ m = n THEN a ELSE attempts[p][m]
      BY <1>1 DEF RecordsOK
    <2> QED  BY <2>1 DEF RecordsOK
  <1> QED  BY <1>2, <1>3 DEF RecordsOK, Valid

(* The events of the reducer, on a record of the table.                    *)
LEMMA MovedFields ==
  ASSUME NEW a \in Attempt, NEW s \in OperationState
  PROVE  /\ Moved(a, s) \in Attempt
         /\ Moved(a, s).state = s
         /\ Moved(a, s).effect = a.effect
         /\ Moved(a, s).owner = a.owner
         /\ Moved(a, s).outcome = a.outcome
         /\ Moved(a, s).evidence = a.evidence
  <1> DEFINE r == a.rev + 1
  <1>1. r \in Nat
    BY DEF Attempt
  <1> HIDE DEF r
  <1>2. [a EXCEPT !.state = s, !.rev = r] \in Attempt
    BY <1>1 DEF Attempt
  <1>3. Moved(a, s) = [a EXCEPT !.state = s, !.rev = r]
    BY DEF Moved, r
  <1> QED  BY <1>2, <1>3 DEF Attempt

(* A transition of a row without an outcome to a state that needs none     *)
(* passes validate.                                                        *)
LEMMA MovedOK ==
  ASSUME NEW a \in Attempt, NEW s \in OperationState,
         a.outcome = "none", s \notin {"Succeeded", "Failed", "EffectPossible"}
  PROVE  Valid(Moved(a, s))
  BY MovedFields DEF Valid

(* What a completion writes (CompleteSuccess, CompleteFailure and the      *)
(* Finalize commands).                                                     *)
LEMMA FinishedFields ==
  ASSUME NEW a \in Attempt, NEW s \in OperationState, NEW e \in CompletedEffect,
         NEW out \in {"result", "failure"}
  PROVE  LET b == Finished(a, s, e, out) IN
         /\ b \in Attempt
         /\ b.state = s /\ b.effect = e /\ b.outcome = out /\ b.owner = a.owner
  <1> DEFINE r == a.rev + 1
  <1>1. r \in Nat
    BY DEF Attempt
  <1> HIDE DEF r
  <1>2. [a EXCEPT !.state = s, !.rev = r, !.effect = e, !.outcome = out] \in Attempt
    BY <1>1 DEF Attempt, EffectStatus
  <1>3. Finished(a, s, e, out)
          = [a EXCEPT !.state = s, !.rev = r, !.effect = e, !.outcome = out]
    BY DEF Finished, r
  <1> QED  BY <1>2, <1>3 DEF Attempt

(* A completed row passes validate.                                        *)
LEMMA FinishedOK ==
  ASSUME NEW a \in Attempt, NEW e \in CompletedEffect
  PROVE  /\ Valid(Finished(a, "Succeeded", e, "result"))
         /\ Valid(Finished(a, "Failed", e, "failure"))
  <1>1. {"Succeeded", "Failed"} \subseteq OperationState /\ e # "NotStarted"
    BY DEF OperationState, CompletedEffect
  <1> QED  BY <1>1, FinishedFields DEF Valid

(* The row admit builds passes validate.                                   *)
LEMMA NewAttemptOK ==
  ASSUME NEW w \in Owners
  PROVE  NewAttempt(w) \in Attempt /\ Valid(NewAttempt(w))
  BY DEF NewAttempt, Attempt, Valid, EffectStatus, OperationState
(* What a thread is doing stays well formed.                               *)
CallsOK == call \in [Threads -> Call]

(* An idle thread is a well-formed call.                                   *)
LEMMA IdleOK == Idle \in Call
  BY Defaults, FirstAttempt DEF Idle, Call, PC

(* A thread that goes on to its next program counter stays well formed.    *)
LEMMA GotoOK ==
  ASSUME CallsOK, NEW t \in Threads, NEW s \in PC, Goto(t, s)
  PROVE  CallsOK'
  BY DEF CallsOK, Goto, Call

(* A thread that returns from its call stays well formed.                  *)
LEMMA LeaveOK ==
  ASSUME CallsOK, NEW t \in Threads, Leave(t)
  PROVE  CallsOK'
  BY IdleOK DEF CallsOK, Leave

(* A thread that remembers the revision it read stays well formed.         *)
LEMMA GotoRevOK ==
  ASSUME CallsOK, NEW t \in Threads, NEW s \in PC, NEW r \in Nat,
         call' = [call EXCEPT ![t].pc = s, ![t].rev = r]
  PROVE  CallsOK'
  BY DEF CallsOK, Call

(* The row a call works on is a well-formed attempt.                       *)
LEMMA CalleeOK ==
  ASSUME CoreOK, NEW t \in Threads
  PROVE  /\ call[t] \in Call /\ call[t].op \in Ops /\ call[t].n \in AttemptNumbers
         /\ Att(t) \in Attempt /\ Valid(Att(t)) /\ Att(t).rev \in Nat
  BY DEF CoreOK, Call, Att, Attempt

(* Every row of the table is a well-formed attempt.                        *)
LEMMA RowOK ==
  ASSUME CoreOK, NEW o \in Ops, NEW n \in AttemptNumbers
  PROVE  attempts[o][n] \in Attempt /\ Valid(attempts[o][n])
  BY DEF CoreOK
-----------------------------------------------------------------------------
(* Steps that rewrite one row.                                             *)

TablesOK ==
  /\ latest \in [Ops -> 0..MaxAttempts]
  /\ activeOwner \in [Ops -> Owners]
  /\ dispatch \in [Ops -> [AttemptNumbers -> {"none", "claimed", "started"}]]
  /\ held \in [Ops -> [AttemptNumbers -> SUBSET Claimed]]

JournalOK == RecordsOK /\ TablesOK

(* CoreOK, split into the journal's tables, the threads' calls and the     *)
(* effects.                                                                *)
LEMMA TypeParts ==
  CoreOK <=> JournalOK /\ CallsOK /\ effects \in [Ops -> Nat]
  BY DEF CoreOK, RecordsOK, CallsOK, TablesOK, JournalOK

(* The same split for the state after a step.                              *)
LEMMA TypePartsNext ==
  JournalOK' /\ CallsOK' /\ effects' \in [Ops -> Nat] => CoreOK'
  BY DEF CoreOK, RecordsOK, CallsOK, TablesOK, JournalOK

(* The resource claims of an operation are the keys of                     *)
(* resource_claim_keys.                                                    *)
LEMMA ClaimKeysOK ==
  ASSUME NEW o \in Ops PROVE ClaimKeys(o) \in SUBSET Claimed
  BY DEF ClaimKeys, Claimed

RowStep(o, n, b, d, h) ==
  /\ attempts' = [attempts EXCEPT ![o][n] = b]
  /\ dispatch' = [dispatch EXCEPT ![o][n] = d]
  /\ held' = [held EXCEPT ![o][n] = h]
  /\ UNCHANGED <<latest, activeOwner>>

(* What a row step leaves behind, row by row.                              *)
LEMMA RowStepRows ==
  ASSUME JournalOK, NEW o \in Ops, NEW n \in AttemptNumbers, NEW b, NEW d, NEW h,
         RowStep(o, n, b, d, h), NEW p \in Ops, NEW m \in AttemptNumbers
  PROVE  /\ attempts'[p][m] = IF p = o /\ m = n THEN b ELSE attempts[p][m]
         /\ dispatch'[p][m] = IF p = o /\ m = n THEN d ELSE dispatch[p][m]
         /\ held'[p][m] = IF p = o /\ m = n THEN h ELSE held[p][m]
  BY DEF JournalOK, RecordsOK, TablesOK, RowStep

(* A step that writes one valid row keeps the journal's tables well typed. *)
LEMMA RowStepOK ==
  ASSUME JournalOK, NEW o \in Ops, NEW n \in AttemptNumbers,
         NEW b \in Attempt, Valid(b), NEW d \in {"none", "claimed", "started"},
         NEW h \in SUBSET Claimed, RowStep(o, n, b, d, h)
  PROVE  JournalOK'
  <1>1. RecordsOK'
    BY StoreOK DEF RowStep, Store, JournalOK
  <1>2. TablesOK'
    BY DEF RowStep, JournalOK, TablesOK
  <1> QED  BY <1>1, <1>2 DEF JournalOK

(* A step on the latest row keeps the journal sound if it leaves that row  *)
(* sound and does not change its owner.                                    *)
LEMMA RowStepSound ==
  ASSUME JournalOK, RowsInv, NEW o \in Ops, NEW n \in AttemptNumbers, n = latest[o],
         NEW b \in Attempt, NEW d, NEW h, RowStep(o, n, b, d, h),
         b.owner = attempts[o][n].owner,
         RowFacts(b, d, h, ClaimKeys(o), Outdated(o, n))
  PROVE  RowsInv'
  <1>1. \A p \in Ops, m \in AttemptNumbers :
          /\ attempts'[p][m].owner = attempts[p][m].owner
          /\ Outdated(p, m)' = Outdated(p, m)
          /\ Owned(p, m)' = Owned(p, m)
    BY RowStepRows DEF RowStep, Outdated, Owned
  <1>2. RowsAreSound'
    <2> SUFFICES ASSUME NEW p \in Ops, NEW m \in AttemptNumbers
                 PROVE  RowFacts(attempts'[p][m], dispatch'[p][m], held'[p][m],
                                 ClaimKeys(p), Outdated(p, m)')
      BY DEF RowsAreSound, ClaimKeys
    <2>1. CASE p = o /\ m = n
      BY <1>1, <2>1, RowStepRows
    <2>2. CASE ~(p = o /\ m = n)
      BY <1>1, <2>2, RowStepRows DEF RowsInv, RowsAreSound
    <2> QED  BY <2>1, <2>2
  <1>3. Unstored'
    BY RowStepRows DEF RowsInv, Unstored, RowStep, JournalOK, TablesOK, AttemptNumbers
  <1>4. Closed'
    <2> SUFFICES ASSUME NEW p \in Ops, NEW m \in AttemptNumbers, m < latest[p]
                 PROVE  /\ attempts'[p][m].state = "RecoveryRequired"
                        /\ attempts'[p][m].effect = "NotStarted"
                        /\ Outdated(p, m)'
                        /\ Generation[attempts'[p][m].owner]
                             < Generation[attempts'[p][m + 1].owner]
      BY DEF Closed, RowStep
    <2>1. m + 1 \in AttemptNumbers /\ ~(p = o /\ m = n)
      BY JournalAssumption DEF JournalOK, TablesOK, AttemptNumbers
    <2> QED  BY <1>1, <2>1, RowStepRows DEF RowsInv, Closed
  <1>5. OwnersAge'
    BY <1>1 DEF RowsInv, OwnersAge, RowStep
  <1> QED  BY <1>2, <1>3, <1>4, <1>5 DEF RowsInv

(* An attempt of the owner in force is the latest of its operation.        *)
LEMMA OwnedIsLatest ==
  ASSUME JournalOK, RowsInv, NEW o \in Ops, NEW n \in AttemptNumbers,
         n <= latest[o], Owned(o, n)
  PROVE  n = latest[o] /\ ~Outdated(o, n)
  <1>1. ~Outdated(o, n)
    BY JournalAssumption DEF Owned, Outdated, JournalOK, TablesOK
  <1>2. ~(n < latest[o])
    BY <1>1 DEF RowsInv, Closed
  <1> QED  BY <1>1, <1>2 DEF JournalOK, TablesOK, AttemptNumbers

(* The rows a step may write: the latest one, for its owner, never undoing *)
(* a latch.                                                                *)
Legit(o, n, b, d, h) ==
  /\ o \in Ops /\ n \in AttemptNumbers /\ n = latest[o]
  /\ b \in Attempt /\ Valid(b) /\ b.owner = attempts[o][n].owner
  /\ d \in {"none", "claimed", "started"}
  /\ dispatch[o][n] = "started" => d = "started"
  /\ RowFacts(b, d, h, ClaimKeys(o), Outdated(o, n))

Rewrites(o, n, b, d, h) == RowStep(o, n, b, d, h) /\ Legit(o, n, b, d, h)

(* Whatever writes a legitimate row keeps the journal sound: the store's   *)
(* transition.                                                             *)
LEMMA RewritesSound ==
  ASSUME JournalOK, RowsInv, NEW o, NEW n, NEW b, NEW d, NEW h,
         Rewrites(o, n, b, d, h)
  PROVE  JournalOK' /\ RowsInv'
  <1>1. h \in SUBSET Claimed
    BY ClaimKeysOK DEF Rewrites, Legit, RowFacts
  <1> QED  BY <1>1, RowStepOK, RowStepSound DEF Rewrites, Legit

(* Writing back the dispatch mark and the claim a row has changes nothing. *)
LEMMA SameTables ==
  ASSUME JournalOK, NEW o \in Ops, NEW n \in AttemptNumbers
  PROVE  /\ dispatch = [dispatch EXCEPT ![o][n] = dispatch[o][n]]
         /\ held = [held EXCEPT ![o][n] = held[o][n]]
  BY DEF JournalOK, TablesOK

(* The row of a thread that is not idle.                                   *)
LEMMA CallRow ==
  ASSUME IInv, NEW t \in Threads, call[t].pc # "idle"
  PROVE  /\ JournalOK /\ RowsInv
         /\ call[t].op \in Ops /\ call[t].n \in AttemptNumbers
         /\ call[t].n <= latest[call[t].op]
         /\ Att(t) \in Attempt /\ Valid(Att(t))
         /\ RowFacts(Att(t), dispatch[call[t].op][call[t].n], held[call[t].op][call[t].n],
                     ClaimKeys(call[t].op), Outdated(call[t].op, call[t].n))
  BY CalleeOK, TypeParts DEF IInv, CallsInv, CallsAreStored, RowsInv, RowsAreSound, Att

(* A row the current owner may write is the latest one, and its facts      *)
(* hold.                                                                   *)
LEMMA OwnedRow ==
  ASSUME IInv, NEW o \in Ops, NEW n \in AttemptNumbers, n <= latest[o], Owned(o, n)
  PROVE  /\ JournalOK /\ RowsInv
         /\ n = latest[o] /\ ~Outdated(o, n)
         /\ attempts[o][n] \in Attempt /\ Valid(attempts[o][n])
         /\ dispatch[o][n] \in {"none", "claimed", "started"}
         /\ RowFacts(attempts[o][n], dispatch[o][n], held[o][n], ClaimKeys(o), FALSE)
  <1>1. JournalOK /\ RowsInv
    BY TypeParts DEF IInv
  <1>2. n = latest[o] /\ ~Outdated(o, n)
    BY <1>1, OwnedIsLatest
  <1>3. RowFacts(attempts[o][n], dispatch[o][n], held[o][n], ClaimKeys(o), Outdated(o, n))
    BY <1>1 DEF RowsInv, RowsAreSound
  <1> QED  BY <1>1, <1>2, <1>3, RowOK DEF IInv, RowFacts, JournalOK, TablesOK

(* Steps that leave the dispatch claim alone and set the resource claim of *)
(* the row to h.                                                           *)
LEMMA RewriteRow ==
  ASSUME JournalOK, NEW o \in Ops, NEW n \in AttemptNumbers, n = latest[o],
         NEW b \in Attempt, Valid(b), b.owner = attempts[o][n].owner, Store(o, n, b),
         NEW h, held' = [held EXCEPT ![o][n] = h],
         RowFacts(b, dispatch[o][n], h, ClaimKeys(o), Outdated(o, n)),
         UNCHANGED <<latest, activeOwner, dispatch>>
  PROVE  Rewrites(o, n, b, dispatch[o][n], h)
  <1>1. RowStep(o, n, b, dispatch[o][n], h)
    BY SameTables DEF RowStep, Store
  <1>2. Legit(o, n, b, dispatch[o][n], h)
    BY DEF Legit, JournalOK, TablesOK
  <1> QED  BY <1>1, <1>2 DEF Rewrites

(* An owned row without an outcome moves to a state s.                     *)
Quiet == OperationState \ {"Succeeded", "Failed", "EffectPossible"}

(* A transition that only changes the state of an owned row is legitimate. *)
LEMMA MoveRow ==
  ASSUME IInv, NEW o \in Ops, NEW n \in AttemptNumbers, n <= latest[o], Owned(o, n),
         NEW s \in Quiet, Store(o, n, Moved(attempts[o][n], s)),
         attempts[o][n].outcome = "none",
         NEW h, held' = [held EXCEPT ![o][n] = h],
         RowFacts([attempts[o][n] EXCEPT !.state = s], dispatch[o][n], h, ClaimKeys(o), FALSE),
         UNCHANGED <<latest, activeOwner, dispatch>>
  PROVE  Rewrites(o, n, Moved(attempts[o][n], s), dispatch[o][n], h)
  <1> DEFINE a == attempts[o][n]
  <1> DEFINE b == Moved(a, s)
  <1>1. a \in Attempt /\ s \in OperationState /\ JournalOK
    BY OwnedRow DEF Quiet
  <1>2. /\ b \in Attempt /\ b.state = s /\ b.effect = a.effect
        /\ b.owner = a.owner /\ b.outcome = a.outcome
    BY <1>1, MovedFields
  <1>3. Valid(b)
    BY <1>1, MovedOK DEF Quiet
  <1>4. n = latest[o] /\ ~Outdated(o, n)
    BY OwnedRow
  <1>5. RowFacts(b, dispatch[o][n], h, ClaimKeys(o), Outdated(o, n))
    BY <1>1, <1>2, <1>4 DEF RowFacts, Attempt
  <1> HIDE DEF b
  <1>6. b.owner = attempts[o][n].owner /\ Store(o, n, b)
    BY <1>2 DEF b
  <1>7. Rewrites(o, n, b, dispatch[o][n], h)
    BY <1>1, <1>2, <1>3, <1>4, <1>5, <1>6, RewriteRow
  <1> QED  BY <1>7 DEF b

(* An owned row gets its outcome.                                          *)
LEMMA FinishRow ==
  ASSUME IInv, NEW o \in Ops, NEW n \in AttemptNumbers, n <= latest[o], Owned(o, n),
         NEW b \in Attempt, Valid(b), b.owner = attempts[o][n].owner, Store(o, n, b),
         b.state \in {"Succeeded", "Failed"}, b.effect # "NotStarted", b.outcome # "none",
         dispatch[o][n] = "started",
         NEW h, h = {} \/ h = held[o][n], held' = [held EXCEPT ![o][n] = h],
         UNCHANGED <<latest, activeOwner, dispatch>>
  PROVE  Rewrites(o, n, b, dispatch[o][n], h)
  <1>1. JournalOK /\ n = latest[o] /\ ~Outdated(o, n)
    BY OwnedRow
  <1>2. RowFacts(attempts[o][n], dispatch[o][n], held[o][n], ClaimKeys(o), FALSE)
    BY OwnedRow
  <1>3. RowFacts(b, dispatch[o][n], h, ClaimKeys(o), Outdated(o, n))
    BY <1>2 DEF RowFacts, Unstarted
  <1> QED  BY <1>1, <1>3, RewriteRow
(* The moves that leave the claims alone.                                  *)
Moves == {<<"Persisted", "Authorized">>, <<"Authorized", "Queued">>,
          <<"EffectPossible", "Interrupted">>, <<"Interrupted", "RecoveryRequired">>,
          <<"RecoveryRequired", "Blocked">>}

(* The plain transitions (Authorize, Queue, Interrupt, RequireRecovery,    *)
(* BlockRecovery) write a legitimate row.                                  *)
LEMMA StateRow ==
  ASSUME IInv, NEW o \in Ops, NEW n \in AttemptNumbers, n <= latest[o], Owned(o, n),
         NEW s, <<attempts[o][n].state, s>> \in Moves,
         Store(o, n, Moved(attempts[o][n], s)),
         UNCHANGED <<latest, activeOwner, dispatch, held>>
  PROVE  Rewrites(o, n, Moved(attempts[o][n], s), dispatch[o][n], held[o][n])
  <1> DEFINE a == attempts[o][n]
  <1>1. held' = [held EXCEPT ![o][n] = held[o][n]]
    BY OwnedRow, SameTables
  <1>2. s \in Quiet
    BY DEF Moves, Quiet, OperationState
  <1>3. a \in Attempt /\ a.outcome = "none"
    BY OwnedRow DEF Valid, Moves
  <1>4. RowFacts(a, dispatch[o][n], held[o][n], ClaimKeys(o), FALSE)
    BY OwnedRow
  <1>5. RowFacts([a EXCEPT !.state = s], dispatch[o][n], held[o][n], ClaimKeys(o), FALSE)
    <2>1. [a EXCEPT !.state = s].state = s
      BY <1>3 DEF Attempt
    <2>2. /\ [a EXCEPT !.state = s].effect = a.effect
          /\ [a EXCEPT !.state = s].outcome = a.outcome
      BY <1>3 DEF Attempt
    <2> QED  BY <1>4, <2>1, <2>2 DEF RowFacts, Moves, Unstarted
  <1> QED  BY <1>1, <1>2, <1>3, <1>5, MoveRow

(* CancelBeforeStart writes a legitimate row and releases the claim.       *)
LEMMA CancelRow ==
  ASSUME IInv, NEW o \in Ops, NEW n \in AttemptNumbers, CanCancel(o, n),
         Store(o, n, Moved(attempts[o][n], "Cancelled")), Resolve(o, n),
         UNCHANGED <<latest, activeOwner, dispatch>>
  PROVE  Rewrites(o, n, Moved(attempts[o][n], "Cancelled"), dispatch[o][n], {})
  <1> DEFINE a == attempts[o][n]
  <1>1. n <= latest[o] /\ Owned(o, n) /\ a.state \in Unstarted
    BY DEF CanCancel, Stored
  <1>2. "Cancelled" \in Quiet
    BY DEF Quiet, OperationState
  <1>3. a \in Attempt /\ a.outcome = "none"
    BY <1>1, OwnedRow DEF Valid, Unstarted
  <1>4. RowFacts(a, dispatch[o][n], held[o][n], ClaimKeys(o), FALSE)
    BY <1>1, OwnedRow
  <1>5. RowFacts([a EXCEPT !.state = "Cancelled"], dispatch[o][n], {}, ClaimKeys(o), FALSE)
    <2>1. /\ [a EXCEPT !.state = "Cancelled"].state = "Cancelled"
          /\ [a EXCEPT !.state = "Cancelled"].effect = a.effect
          /\ [a EXCEPT !.state = "Cancelled"].outcome = a.outcome
      BY <1>3 DEF Attempt
    <2> QED  BY <1>1, <1>3, <1>4, <2>1 DEF RowFacts, Unstarted
  <1>6. held' = [held EXCEPT ![o][n] = {}]
    BY DEF Resolve
  <1> QED  BY <1>1, <1>2, <1>3, <1>5, <1>6, MoveRow
-----------------------------------------------------------------------------
(* The rows each action writes.                                            *)

(* The same for a transition a thread makes on its own attempt.            *)
LEMMA ThreadMoveRow ==
  ASSUME IInv, NEW t \in Threads, call[t].pc # "idle", Mine(t),
         NEW s, <<Att(t).state, s>> \in Moves,
         Store(call[t].op, call[t].n, Moved(Att(t), s)),
         UNCHANGED <<latest, activeOwner, dispatch, held>>
  PROVE  LET o == call[t].op  n == call[t].n IN
         Rewrites(o, n, Moved(Att(t), s), dispatch[o][n], held[o][n])
  BY CallRow, StateRow DEF Att, Mine

(* claim_dispatch writes a legitimate row: its dispatch mark and its       *)
(* claims.                                                                 *)
LEMMA ClaimRow ==
  ASSUME IInv, NEW t \in Threads, ClaimDispatch(t)
  PROVE  LET o == call[t].op  n == call[t].n IN
         Rewrites(o, n, Att(t), "claimed", ClaimKeys(o))
  <1> DEFINE o == call[t].op
  <1> DEFINE n == call[t].n
  <1>1. /\ o \in Ops /\ n \in AttemptNumbers /\ n <= latest[o] /\ Owned(o, n)
        /\ attempts[o][n].state = "Queued" /\ dispatch[o][n] = "none"
        /\ dispatch' = [dispatch EXCEPT ![o][n] = "claimed"]
        /\ held' = [held EXCEPT ![o][n] = ClaimKeys(o)]
        /\ UNCHANGED <<attempts, latest, activeOwner>>
    BY CallRow DEF ClaimDispatch, CanClaim, Mine, Att
  <1>2. Att(t) = attempts[o][n]
    BY DEF Att
  <1> HIDE DEF o, n
  <1>3. /\ n = latest[o] /\ ~Outdated(o, n)
        /\ attempts[o][n] \in Attempt /\ Valid(attempts[o][n])
        /\ JournalOK
    BY <1>1, OwnedRow
  <1>4. attempts' = [attempts EXCEPT ![o][n] = attempts[o][n]]
    BY <1>1, <1>3 DEF JournalOK, RecordsOK
  <1>5. RowFacts(attempts[o][n], "claimed", ClaimKeys(o), ClaimKeys(o), Outdated(o, n))
    BY <1>1, <1>3, OwnedRow DEF RowFacts, Unstarted
  <1>6. Rewrites(o, n, attempts[o][n], "claimed", ClaimKeys(o))
    BY <1>1, <1>3, <1>4, <1>5 DEF Rewrites, RowStep, Legit
  <1> QED  BY <1>2, <1>6 DEF o, n

LatchedRow(a) ==
  [a EXCEPT !.state = "EffectPossible", !.effect = "Possible", !.rev = @ + 2]

(* What latch_effect_start writes: Start and MarkEffectPossible together.  *)
LEMMA LatchedFields ==
  ASSUME NEW a \in Attempt, a.outcome = "none"
  PROVE  /\ LatchedRow(a) \in Attempt /\ Valid(LatchedRow(a))
         /\ LatchedRow(a).state = "EffectPossible" /\ LatchedRow(a).effect = "Possible"
         /\ LatchedRow(a).owner = a.owner /\ LatchedRow(a).outcome = "none"
  <1> DEFINE r == a.rev + 2
  <1>1. r \in Nat
    BY DEF Attempt
  <1> HIDE DEF r
  <1> DEFINE b == [a EXCEPT !.state = "EffectPossible", !.effect = "Possible", !.rev = r]
  <1>2. b \in Attempt
    BY <1>1 DEF Attempt, OperationState, EffectStatus, CompletedEffect
  <1>3. LatchedRow(a) = b
    BY DEF LatchedRow, r
  <1>4. /\ b.state = "EffectPossible" /\ b.effect = "Possible" /\ b.owner = a.owner
        /\ b.outcome = "none"
    BY DEF Attempt
  <1> HIDE DEF b
  <1>5. Valid(b)
    BY <1>4 DEF Valid
  <1> QED  BY <1>2, <1>3, <1>4, <1>5

(* latch_effect_start writes a legitimate row.                             *)
LEMMA LatchRow ==
  ASSUME IInv, NEW t \in Threads, LatchEffectStart(t)
  PROVE  LET o == call[t].op  n == call[t].n IN
         Rewrites(o, n, LatchedRow(Att(t)), "started", held[o][n])
  <1> DEFINE o == call[t].op
  <1> DEFINE n == call[t].n
  <1>1. /\ o \in Ops /\ n \in AttemptNumbers /\ n <= latest[o] /\ Owned(o, n)
        /\ attempts[o][n].state = "Queued" /\ dispatch[o][n] = "claimed"
        /\ attempts' = [attempts EXCEPT ![o][n] = LatchedRow(attempts[o][n])]
        /\ dispatch' = [dispatch EXCEPT ![o][n] = "started"]
        /\ UNCHANGED <<latest, activeOwner, held>>
    BY CallRow DEF LatchEffectStart, CanLatch, Mine, Att, Store, LatchedRow
  <1>2. Att(t) = attempts[o][n]
    BY DEF Att
  <1> HIDE DEF o, n
  <1>3. /\ n = latest[o] /\ ~Outdated(o, n) /\ JournalOK
        /\ attempts[o][n] \in Attempt /\ attempts[o][n].outcome = "none"
        /\ held[o][n] = ClaimKeys(o)
    BY <1>1, OwnedRow DEF Valid, RowFacts
  <1> DEFINE b == LatchedRow(attempts[o][n])
  <1>4. /\ b \in Attempt /\ Valid(b) /\ b.state = "EffectPossible" /\ b.effect = "Possible"
        /\ b.owner = attempts[o][n].owner /\ b.outcome = "none"
    BY <1>3, LatchedFields
  <1>5. held' = [held EXCEPT ![o][n] = held[o][n]]
    BY <1>1, <1>3, SameTables
  <1>6. attempts' = [attempts EXCEPT ![o][n] = b]
    BY <1>1
  <1> HIDE DEF b
  <1>7. RowFacts(b, "started", held[o][n], ClaimKeys(o), Outdated(o, n))
    BY <1>3, <1>4 DEF RowFacts, Unstarted
  <1>8. Rewrites(o, n, b, "started", held[o][n])
    BY <1>1, <1>3, <1>4, <1>5, <1>6, <1>7 DEF Rewrites, RowStep, Legit
  <1> QED  BY <1>2, <1>8 DEF o, n, b

(* complete_for_session writes a legitimate row and releases the claim.    *)
LEMMA CompleteRow ==
  ASSUME IInv, NEW t \in Threads, NEW ok \in BOOLEAN, Complete(t, ok)
  PROVE  \E b : Rewrites(call[t].op, call[t].n, b, dispatch[call[t].op][call[t].n], {})
  <1> DEFINE o == call[t].op
  <1> DEFINE n == call[t].n
  <1> DEFINE e == IF Plan[o].class = "read_only" THEN "KnownNoEffect" ELSE "Possible"
  <1> DEFINE b == IF ok THEN Finished(Att(t), "Succeeded", e, "result")
                        ELSE Finished(Att(t), "Failed", "Possible", "failure")
  <1>1. /\ o \in Ops /\ n \in AttemptNumbers /\ n <= latest[o] /\ Owned(o, n)
        /\ attempts[o][n].state = "EffectPossible" /\ Store(o, n, b)
        /\ held' = [held EXCEPT ![o][n] = {}]
        /\ UNCHANGED <<latest, activeOwner, dispatch>>
    BY CallRow DEF Complete, CanComplete, Mine, Att, Resolve
  <1>2. Att(t) = attempts[o][n]
    BY DEF Att
  <1>3. e \in CompletedEffect /\ "Possible" \in CompletedEffect
        /\ {"Succeeded", "Failed"} \subseteq OperationState
    BY DEF CompletedEffect, OperationState
  <1> HIDE DEF o, n, e
  <1>4. attempts[o][n] \in Attempt /\ dispatch[o][n] = "started"
    BY <1>1, OwnedRow DEF RowFacts
  <1>5. /\ b \in Attempt /\ b.state \in {"Succeeded", "Failed"}
        /\ b.effect \in CompletedEffect
        /\ b.outcome # "none" /\ b.owner = attempts[o][n].owner /\ Valid(b)
    <2> DEFINE a == Att(t)
    <2> DEFINE good(c) == /\ c \in Attempt /\ c.state \in {"Succeeded", "Failed"}
                          /\ c.effect \in CompletedEffect /\ c.outcome # "none"
                          /\ c.owner = a.owner /\ Valid(c)
    <2>1. a \in Attempt
      BY <1>2, <1>4
    <2> HIDE DEF a
    <2>2. good(Finished(a, "Succeeded", e, "result"))
      <3> DEFINE c == Finished(a, "Succeeded", e, "result")
      <3>1. c \in Attempt /\ c.state = "Succeeded" /\ c.effect = e /\ c.outcome = "result"
            /\ c.owner = a.owner
        BY <1>3, <2>1, FinishedFields
      <3>2. Valid(c)
        BY <1>3, <2>1, FinishedOK
      <3> QED  BY <1>3, <3>1, <3>2
    <2>3. good(Finished(a, "Failed", "Possible", "failure"))
      <3> DEFINE c == Finished(a, "Failed", "Possible", "failure")
      <3>1. c \in Attempt /\ c.state = "Failed" /\ c.effect = "Possible"
            /\ c.outcome = "failure" /\ c.owner = a.owner
        BY <1>3, <2>1, FinishedFields
      <3>2. Valid(c)
        BY <1>3, <2>1, FinishedOK
      <3> QED  BY <1>3, <3>1, <3>2
    <2>4. good(b)
      BY <2>2, <2>3 DEF a
    <2> QED  BY <1>2, <2>4 DEF a
  <1> HIDE DEF b
  <1>6. b.effect # "NotStarted"
    BY <1>5 DEF CompletedEffect
  <1>7. Rewrites(o, n, b, dispatch[o][n], {})
    BY <1>1, <1>4, <1>5, <1>6, FinishRow
  <1> QED  BY <1>7 DEF o, n

(* Evidence and a cancellation request are annotations: nothing in a row's *)
(* soundness depends on them.                                              *)
LEMMA EvidenceField ==
  ASSUME NEW a \in Attempt, Valid(a)
  PROVE  LET b == [a EXCEPT !.evidence = TRUE] IN
         /\ b \in Attempt /\ Valid(b)
         /\ b.state = a.state /\ b.effect = a.effect /\ b.owner = a.owner
         /\ b.outcome = a.outcome
  BY DEF Attempt, Valid

(* A recovered outcome is a legitimate row; the claim goes only with a     *)
(* known effect.                                                           *)
LEMMA FinalizeRow ==
  ASSUME IInv, NEW o \in Ops, NEW n \in AttemptNumbers, NEW e \in CompletedEffect,
         FinalizeRecoveredSuccess(o, n, e) \/ FinalizeRecoveredFailure(o, n, e)
  PROVE  \E b, h : /\ h \in {{}, held[o][n]}
                  /\ Rewrites(o, n, b, dispatch[o][n], h)
  <1> DEFINE a == attempts[o][n]
  <1> DEFINE h == IF FinalizeRecoveredSuccess(o, n, e) \/ e = "KnownNoEffect"
                  THEN {} ELSE held[o][n]
  <1> DEFINE c == IF FinalizeRecoveredSuccess(o, n, e)
                  THEN Finished(a, "Succeeded", e, "result")
                  ELSE Finished(a, "Failed", e, "failure")
  <1> DEFINE b == [c EXCEPT !.evidence = TRUE]
  <1>1. /\ n <= latest[o] /\ Owned(o, n) /\ a.state = "RecoveryRequired"
        /\ UNCHANGED <<latest, activeOwner, dispatch>>
    BY DEF FinalizeRecoveredSuccess, FinalizeRecoveredFailure, CanFinalize, Stored
  <1>2. Store(o, n, b) /\ held' = [held EXCEPT ![o][n] = h]
    BY DEF FinalizeRecoveredSuccess, FinalizeRecoveredFailure, Resolve, Store
  <1>3. /\ a \in Attempt /\ dispatch[o][n] = "started"
        /\ RowFacts(a, dispatch[o][n], held[o][n], ClaimKeys(o), FALSE)
    BY <1>1, OwnedRow DEF RowFacts
  <1>4. /\ c \in Attempt /\ Valid(c) /\ c.state \in {"Succeeded", "Failed"}
        /\ c.effect = e /\ c.outcome # "none" /\ c.owner = a.owner
    <2>1. {"Succeeded", "Failed"} \subseteq OperationState
      BY DEF OperationState
    <2>2. CASE FinalizeRecoveredSuccess(o, n, e)
      BY <1>3, <2>1, <2>2, FinishedFields, FinishedOK
    <2>3. CASE ~FinalizeRecoveredSuccess(o, n, e)
      BY <1>3, <2>1, <2>3, FinishedFields, FinishedOK
    <2> QED  BY <2>2, <2>3
  <1>5. h \in {{}, held[o][n]}
    OBVIOUS
  <1> HIDE DEF c, h
  <1>6. /\ b \in Attempt /\ Valid(b) /\ b.state \in {"Succeeded", "Failed"}
        /\ b.effect = e /\ b.outcome # "none" /\ b.owner = attempts[o][n].owner
    BY <1>4, EvidenceField
  <1>7. e # "NotStarted"
    BY DEF CompletedEffect
  <1> HIDE DEF b
  <1>8. Rewrites(o, n, b, dispatch[o][n], h)
    BY <1>1, <1>2, <1>3, <1>5, <1>6, <1>7, FinishRow
  <1> QED  BY <1>5, <1>8

(* recover_unstarted_dispatch writes a legitimate row and releases the     *)
(* claim.                                                                  *)
LEMMA RecoverRow ==
  ASSUME IInv, NEW o \in Ops, RecoverUnstartedDispatch(o)
  PROVE  \E b : Rewrites(o, latest[o], b, dispatch[o][latest[o]], {})
  <1> DEFINE n == latest[o]
  <1> DEFINE a == attempts[o][n]
  <1> DEFINE c == Moved(a, "RecoveryRequired")
  <1> DEFINE b == [c EXCEPT !.evidence = TRUE]
  <1>1. JournalOK /\ RowsInv
    BY TypeParts DEF IInv
  <1>2. n \in AttemptNumbers
    BY <1>1 DEF RecoverUnstartedDispatch, Admitted, JournalOK, TablesOK, AttemptNumbers
  <1>3. /\ a.state = "Queued" /\ a.effect = "NotStarted" /\ dispatch[o][n] = "claimed"
        /\ Outdated(o, n) /\ Store(o, n, b) /\ held' = [held EXCEPT ![o][n] = {}]
        /\ UNCHANGED <<latest, activeOwner, dispatch>>
    BY DEF RecoverUnstartedDispatch, Resolve
  <1>4. a \in Attempt /\ Valid(a) /\ a.outcome = "none"
    BY <1>2, <1>3, RowOK DEF IInv, Valid
  <1>5. "RecoveryRequired" \in OperationState
    BY DEF OperationState
  <1>6. /\ c \in Attempt /\ Valid(c) /\ c.state = "RecoveryRequired"
        /\ c.effect = "NotStarted" /\ c.owner = a.owner /\ c.outcome = "none"
    BY <1>3, <1>4, <1>5, MovedFields, MovedOK
  <1> HIDE DEF c
  <1>7. /\ b \in Attempt /\ Valid(b) /\ b.state = "RecoveryRequired"
        /\ b.effect = "NotStarted" /\ b.owner = attempts[o][n].owner /\ b.outcome = "none"
    BY <1>6, EvidenceField
  <1> HIDE DEF b
  <1>8. RowFacts(b, dispatch[o][n], {}, ClaimKeys(o), Outdated(o, n))
    BY <1>3, <1>7 DEF RowFacts, Unstarted
  <1>9. n = latest[o]
    OBVIOUS
  <1> HIDE DEF n
  <1>10. Rewrites(o, n, b, dispatch[o][n], {})
    BY <1>1, <1>2, <1>3, <1>7, <1>8, <1>9, RewriteRow
  <1> QED  BY <1>10 DEF n

(* RequestCancellation writes a legitimate row in the same state.          *)
LEMMA RequestRow ==
  ASSUME IInv, NEW o \in Ops, NEW n \in AttemptNumbers, RequestCancellation(o, n)
  PROVE  \E b : /\ b.state = attempts[o][n].state
               /\ Rewrites(o, n, b, dispatch[o][n], held[o][n])
  <1> DEFINE a == attempts[o][n]
  <1> DEFINE r == a.rev + 1
  <1> DEFINE b == [a EXCEPT !.cancel = TRUE, !.rev = r]
  <1>1. /\ n <= latest[o] /\ Owned(o, n) /\ Store(o, n, b)
        /\ UNCHANGED <<latest, activeOwner, dispatch, held>>
    BY DEF RequestCancellation, Stored, Store
  <1>2. /\ a \in Attempt /\ Valid(a) /\ JournalOK /\ n = latest[o] /\ ~Outdated(o, n)
        /\ RowFacts(a, dispatch[o][n], held[o][n], ClaimKeys(o), FALSE)
    BY <1>1, OwnedRow
  <1>3. r \in Nat
    BY <1>2 DEF Attempt
  <1> HIDE DEF r
  <1>4. /\ b \in Attempt /\ b.state = a.state /\ b.effect = a.effect
        /\ b.owner = a.owner /\ b.outcome = a.outcome
    BY <1>2, <1>3 DEF Attempt
  <1>5. held' = [held EXCEPT ![o][n] = held[o][n]]
    BY <1>1, <1>2, SameTables
  <1> HIDE DEF b
  <1>6. Valid(b) /\ RowFacts(b, dispatch[o][n], held[o][n], ClaimKeys(o), Outdated(o, n))
    BY <1>2, <1>4 DEF Valid, RowFacts
  <1>7. Rewrites(o, n, b, dispatch[o][n], held[o][n])
    BY <1>1, <1>2, <1>4, <1>5, <1>6, RewriteRow
  <1> QED  BY <1>4, <1>7

(* Supersede writes a legitimate row.                                      *)
LEMMA SupersedeRow ==
  ASSUME IInv, NEW o \in Ops, NEW n \in AttemptNumbers, Supersede(o, n)
  PROVE  \E b : Rewrites(o, n, b, dispatch[o][n], held[o][n])
  <1> DEFINE a == attempts[o][n]
  <1> DEFINE b == Moved(a, "Superseded")
  <1>1. /\ n <= latest[o] /\ Owned(o, n) /\ Store(o, n, b) /\ a.state \in Terminal
        /\ UNCHANGED <<latest, activeOwner, dispatch, held>>
    BY DEF Supersede, Stored
  <1>2. /\ a \in Attempt /\ JournalOK /\ n = latest[o] /\ ~Outdated(o, n)
        /\ RowFacts(a, dispatch[o][n], held[o][n], ClaimKeys(o), FALSE)
    BY <1>1, OwnedRow
  <1>3. "Superseded" \in OperationState
    BY DEF OperationState
  <1>4. /\ b \in Attempt /\ b.state = "Superseded" /\ b.effect = a.effect
        /\ b.owner = a.owner /\ b.outcome = a.outcome
    BY <1>2, <1>3, MovedFields
  <1>5. held' = [held EXCEPT ![o][n] = held[o][n]]
    BY <1>1, <1>2, SameTables
  <1> HIDE DEF b
  <1>6. Valid(b) /\ RowFacts(b, dispatch[o][n], held[o][n], ClaimKeys(o), Outdated(o, n))
    BY <1>2, <1>4 DEF Valid, RowFacts, Unstarted
  <1>7. Rewrites(o, n, b, dispatch[o][n], held[o][n])
    BY <1>1, <1>2, <1>4, <1>5, <1>6, RewriteRow
  <1> QED  BY <1>7
-----------------------------------------------------------------------------
(* Steps that are not a rewritten row: an inserted attempt, a new owner.   *)

(* The first or the next attempt of an operation, as it is stored.         *)
Inserts(o, n, b) ==
  /\ o \in Ops /\ n \in AttemptNumbers /\ n = latest[o] + 1
  /\ b \in Attempt /\ Valid(b)
  /\ b.state = "Persisted" /\ b.effect = "NotStarted" /\ b.outcome = "none"
  /\ Store(o, n, b)
  /\ latest' = [latest EXCEPT ![o] = n]
  /\ UNCHANGED <<dispatch, held>>

(* What admit stores: a Persisted attempt of the owner that asked.         *)
LEMMA PersistedFields ==
  ASSUME NEW w \in Owners
  PROVE  LET b == Moved(NewAttempt(w), "Persisted") IN
         /\ b \in Attempt /\ Valid(b) /\ b.owner = w
         /\ b.state = "Persisted" /\ b.effect = "NotStarted" /\ b.outcome = "none"
  <1>1. NewAttempt(w) \in Attempt
    BY NewAttemptOK
  <1>2. /\ NewAttempt(w).owner = w /\ NewAttempt(w).effect = "NotStarted"
        /\ NewAttempt(w).outcome = "none"
    BY DEF NewAttempt
  <1>3. "Persisted" \in OperationState
    BY DEF OperationState
  <1> QED  BY <1>1, <1>2, <1>3, MovedFields, MovedOK

(* admit answers New only if no admitted operation has the same key.       *)
LEMMA AdmissionIsFresh ==
  ASSUME NEW o \in Ops, Admission(o) = "New"
  PROVE  \A p \in Admitted : Plan[p].key # Plan[o].key
  BY DEF Admission

(* admit inserts attempt 1 of an operation the journal did not have.       *)
LEMMA PersistRow ==
  ASSUME IInv, NEW t \in Threads, NEW o \in Ops, NEW w \in Owners, PersistIntent(t, o, w)
  PROVE  /\ latest[o] = 0
         /\ \E b : Inserts(o, 1, b) /\ b.owner = w
         /\ activeOwner' = [activeOwner EXCEPT ![o] = w]
  <1> DEFINE b == Moved(NewAttempt(w), "Persisted")
  <1>1. latest[o] = 0
    <2>1. o \notin Admitted
      BY AdmissionIsFresh DEF PersistIntent
    <2> QED  BY <2>1, TypeParts DEF IInv, Admitted, JournalOK, TablesOK
  <1>2. 1 = latest[o] + 1
    BY <1>1
  <1>3. Inserts(o, 1, b) /\ b.owner = w
    <2>1. /\ Store(o, 1, b) /\ latest' = [latest EXCEPT ![o] = 1]
          /\ UNCHANGED <<dispatch, held>>
      BY DEF PersistIntent
    <2> QED  BY <1>2, <2>1, FirstAttempt, PersistedFields DEF Inserts
  <1> QED  BY <1>1, <1>3 DEF PersistIntent

(* admit_retry inserts the next attempt, under the owner that is active    *)
(* now.                                                                    *)
LEMMA RetryRow ==
  ASSUME IInv, NEW t \in Threads, NEW o \in Ops, AdmitRetry(t, o)
  PROVE  /\ latest[o] \in AttemptNumbers /\ CanRetry(o)
         /\ \E b : Inserts(o, latest[o] + 1, b) /\ b.owner = activeOwner[o]
         /\ UNCHANGED activeOwner
  <1> DEFINE n == latest[o] + 1
  <1> DEFINE c == Moved(NewAttempt(activeOwner[o]), "Persisted")
  <1> DEFINE b == [c EXCEPT !.evidence = TRUE]
  <1>1. JournalOK
    BY TypeParts DEF IInv
  <1>2. latest[o] \in AttemptNumbers /\ n \in AttemptNumbers /\ activeOwner[o] \in Owners
    BY <1>1 DEF AdmitRetry, CanRetry, Admitted, JournalOK, TablesOK, AttemptNumbers
  <1>3. /\ Store(o, n, b) /\ latest' = [latest EXCEPT ![o] = n] /\ CanRetry(o)
        /\ UNCHANGED <<activeOwner, dispatch, held>>
    BY DEF AdmitRetry
  <1>4. /\ c \in Attempt /\ Valid(c) /\ c.owner = activeOwner[o]
        /\ c.state = "Persisted" /\ c.effect = "NotStarted" /\ c.outcome = "none"
    BY <1>2, PersistedFields
  <1> HIDE DEF c
  <1>5. /\ b \in Attempt /\ Valid(b) /\ b.owner = activeOwner[o]
        /\ b.state = "Persisted" /\ b.effect = "NotStarted" /\ b.outcome = "none"
    BY <1>4, EvidenceField
  <1> HIDE DEF b
  <1>6. Inserts(o, n, b)
    BY <1>2, <1>3, <1>5 DEF Inserts
  <1> QED  BY <1>2, <1>3, <1>5, <1>6

(* An insertion, row by row.                                               *)
LEMMA InsertRows ==
  ASSUME JournalOK, NEW o, NEW n, NEW b, Inserts(o, n, b),
         NEW p \in Ops, NEW m \in AttemptNumbers
  PROVE  /\ attempts'[p][m] = IF p = o /\ m = n THEN b ELSE attempts[p][m]
         /\ latest'[p] = IF p = o THEN n ELSE latest[p]
         /\ latest[p] \in Nat /\ m \in Nat /\ n \in Nat
  <1>1. attempts'[p][m] = IF p = o /\ m = n THEN b ELSE attempts[p][m]
    BY DEF JournalOK, RecordsOK, Inserts, Store
  <1>2. latest'[p] = IF p = o THEN n ELSE latest[p]
    BY DEF JournalOK, TablesOK, Inserts
  <1>3. latest[p] \in Nat
    BY DEF JournalOK, TablesOK
  <1>4. m \in Nat /\ n \in Nat
    BY DEF Inserts, AttemptNumbers
  <1> QED  BY <1>1, <1>2, <1>3, <1>4

(* An insertion keeps the journal's tables well typed.                     *)
LEMMA InsertOK ==
  ASSUME JournalOK, NEW o, NEW n, NEW b, Inserts(o, n, b),
         activeOwner' \in [Ops -> Owners]
  PROVE  JournalOK'
  <1>1. RecordsOK'
    BY StoreOK DEF Inserts, JournalOK
  <1>2. latest' \in [Ops -> 0..MaxAttempts]
    BY JournalAssumption DEF Inserts, JournalOK, TablesOK, AttemptNumbers
  <1>3. TablesOK'
    BY <1>2 DEF Inserts, JournalOK, TablesOK
  <1> QED  BY <1>1, <1>3 DEF JournalOK

(* The inserted row has neither a dispatch nor a claim.                    *)
LEMMA InsertFresh ==
  ASSUME JournalOK, RowsInv, NEW o, NEW n, NEW b, Inserts(o, n, b)
  PROVE  /\ dispatch[o][n] = "none" /\ held[o][n] = {}
         /\ \A outdated \in BOOLEAN :
              RowFacts(b, dispatch[o][n], held[o][n], ClaimKeys(o), outdated)
  <1>1. n > latest[o]
    BY DEF Inserts, JournalOK, TablesOK
  <1>2. dispatch[o][n] = "none"
    BY <1>1 DEF RowsInv, Unstored, Inserts
  <1>3. held[o][n] = {}
    BY <1>2 DEF RowsInv, RowsAreSound, RowFacts, Inserts
  <1> QED  BY <1>2, <1>3 DEF RowFacts, Inserts, Unstarted

(* Rows that are not yet stored stay sound whoever owns the operation.     *)
LEMMA CreatedIsSound ==
  ASSUME NEW a, NEW d, NEW h, NEW keys, NEW x \in BOOLEAN, NEW y \in BOOLEAN,
         RowFacts(a, d, h, keys, x), a.state # "RecoveryRequired" \/ (x => y)
  PROVE  RowFacts(a, d, h, keys, y)
  BY DEF RowFacts

(* admit keeps the journal sound.                                          *)
LEMMA PersistSound ==
  ASSUME JournalOK, RowsInv, NEW o \in Ops, NEW w \in Owners, NEW b,
         latest[o] = 0, Inserts(o, 1, b), b.owner = w,
         activeOwner' = [activeOwner EXCEPT ![o] = w]
  PROVE  JournalOK' /\ RowsInv'
  <1>1. activeOwner' \in [Ops -> Owners]
    BY DEF JournalOK, TablesOK
  <1>2. JournalOK'
    BY <1>1, InsertOK
  <1>3. \A p \in Ops, m \in AttemptNumbers :
          p # o => Outdated(p, m)' = Outdated(p, m) /\ Owned(p, m)' = Owned(p, m)
    BY InsertRows DEF Outdated, Owned, JournalOK, TablesOK
  <1>4. Owned(o, 1)'
    BY InsertRows, FirstAttempt DEF Owned, JournalOK, TablesOK
  <1>5. \A m \in AttemptNumbers : attempts[o][m].state = "Created"
    BY DEF RowsInv, Unstored, AttemptNumbers
  <1>6. UNCHANGED <<dispatch, held>>
    BY DEF Inserts
  <1>7. RowsAreSound'
    <2> SUFFICES ASSUME NEW p \in Ops, NEW m \in AttemptNumbers
                 PROVE  RowFacts(attempts'[p][m], dispatch[p][m], held[p][m],
                                 ClaimKeys(p), Outdated(p, m)')
      BY <1>6 DEF RowsAreSound, ClaimKeys
    <2>1. Outdated(p, m)' \in BOOLEAN /\ Outdated(p, m) \in BOOLEAN
      BY DEF Outdated
    <2>2. RowFacts(attempts[p][m], dispatch[p][m], held[p][m], ClaimKeys(p), Outdated(p, m))
      BY DEF RowsInv, RowsAreSound
    <2>3. CASE p = o /\ m = 1
      BY <2>1, <2>3, InsertRows, InsertFresh
    <2>4. CASE p = o /\ m # 1
      BY <1>5, <2>1, <2>2, <2>4, InsertRows, CreatedIsSound
    <2>5. CASE p # o
      BY <1>3, <2>2, <2>5, InsertRows
    <2> QED  BY <2>3, <2>4, <2>5
  <1>8. Unstored'
    <2> SUFFICES ASSUME NEW p \in Ops, NEW m \in AttemptNumbers, m > latest'[p]
                 PROVE  attempts'[p][m].state = "Created" /\ dispatch[p][m] = "none"
      BY <1>6 DEF Unstored
    <2>1. latest'[p] = IF p = o THEN 1 ELSE latest[p]
      BY InsertRows
    <2>2. m \in Nat /\ latest[p] \in Nat
      BY InsertRows
    <2>3. m > latest[p] /\ ~(p = o /\ m = 1)
      BY <2>1, <2>2
    <2>4. attempts'[p][m] = attempts[p][m]
      BY <2>3, InsertRows
    <2> QED  BY <2>3, <2>4 DEF RowsInv, Unstored
  <1>9. Closed'
    <2> SUFFICES ASSUME NEW p \in Ops, NEW m \in AttemptNumbers, m < latest'[p]
                 PROVE  /\ attempts'[p][m].state = "RecoveryRequired"
                        /\ attempts'[p][m].effect = "NotStarted"
                        /\ Outdated(p, m)'
                        /\ Generation[attempts'[p][m].owner]
                             < Generation[attempts'[p][m + 1].owner]
      BY DEF Closed
    <2>1. p # o
      BY InsertRows DEF AttemptNumbers
    <2>2. m < latest[p]
      BY <2>1, InsertRows
    <2>3. m + 1 \in AttemptNumbers
      BY <2>2, JournalAssumption DEF JournalOK, TablesOK, AttemptNumbers
    <2> QED  BY <1>3, <2>1, <2>2, <2>3, InsertRows DEF RowsInv, Closed
  <1>10. OwnersAge'
    BY <1>3, <1>4, InsertRows DEF RowsInv, OwnersAge, AttemptNumbers
  <1> QED  BY <1>2, <1>7, <1>8, <1>9, <1>10 DEF RowsInv

(* admit_retry keeps the journal sound: the attempt before it ended        *)
(* without an effect.                                                      *)
LEMMA RetrySound ==
  ASSUME JournalOK, RowsInv, NEW o \in Ops, NEW n, NEW b, CanRetry(o),
         latest[o] \in AttemptNumbers, n = latest[o] + 1, Inserts(o, n, b),
         b.owner = activeOwner[o], UNCHANGED activeOwner
  PROVE  JournalOK' /\ RowsInv'
  <1>1. JournalOK'
    BY InsertOK DEF JournalOK, TablesOK
  <1>2. \A p \in Ops, m \in AttemptNumbers :
          ~(p = o /\ m = n) => Outdated(p, m)' = Outdated(p, m) /\ Owned(p, m)' = Owned(p, m)
    BY InsertRows DEF Outdated, Owned
  <1>3. n \in AttemptNumbers /\ Owned(o, n)'
    <2>1. n \in AttemptNumbers
      BY DEF Inserts
    <2>2. attempts'[o][n] = b
      BY <2>1, InsertRows
    <2> QED  BY <2>1, <2>2 DEF Owned
  <1>4. UNCHANGED <<dispatch, held>>
    BY DEF Inserts
  <1>5. RowsAreSound'
    <2> SUFFICES ASSUME NEW p \in Ops, NEW m \in AttemptNumbers
                 PROVE  RowFacts(attempts'[p][m], dispatch[p][m], held[p][m],
                                 ClaimKeys(p), Outdated(p, m)')
      BY <1>4 DEF RowsAreSound, ClaimKeys
    <2>1. Outdated(p, m)' \in BOOLEAN
      BY DEF Outdated
    <2>2. CASE p = o /\ m = n
      BY <2>1, <2>2, InsertRows, InsertFresh
    <2>3. CASE ~(p = o /\ m = n)
      BY <1>2, <2>3, InsertRows DEF RowsInv, RowsAreSound
    <2> QED  BY <2>2, <2>3
  <1>6. Unstored'
    <2> SUFFICES ASSUME NEW p \in Ops, NEW m \in AttemptNumbers, m > latest'[p]
                 PROVE  attempts'[p][m].state = "Created" /\ dispatch[p][m] = "none"
      BY <1>4 DEF Unstored
    <2>1. latest'[p] = IF p = o THEN n ELSE latest[p]
      BY InsertRows
    <2>2. m \in Nat /\ latest[p] \in Nat
      BY InsertRows
    <2>3. m > latest[p] /\ ~(p = o /\ m = n)
      BY <2>1, <2>2
    <2>4. attempts'[p][m] = attempts[p][m]
      BY <2>3, InsertRows
    <2> QED  BY <2>3, <2>4 DEF RowsInv, Unstored
  <1>7. Closed'
    <2> SUFFICES ASSUME NEW p \in Ops, NEW m \in AttemptNumbers, m < latest'[p]
                 PROVE  /\ attempts'[p][m].state = "RecoveryRequired"
                        /\ attempts'[p][m].effect = "NotStarted"
                        /\ Outdated(p, m)'
                        /\ Generation[attempts'[p][m].owner]
                             < Generation[attempts'[p][m + 1].owner]
      BY DEF Closed
    <2>1. CASE p = o /\ m = latest[o]
      <3>1. /\ attempts[o][m].state = "RecoveryRequired"
            /\ attempts[o][m].effect = "NotStarted" /\ Outdated(o, m)
        BY <2>1 DEF CanRetry
      <3>2. attempts'[o][m] = attempts[o][m] /\ attempts'[o][m + 1] = b
        BY <1>3, <2>1, InsertRows
      <3> QED  BY <1>2, <2>1, <3>1, <3>2, InsertRows DEF Outdated
    <2>2. CASE ~(p = o /\ m = latest[o])
      <3>1. m < latest[p] /\ (m + 1 # n \/ p # o)
        BY <2>2, InsertRows
      <3>2. m < latest[p]
        BY <2>2, InsertRows
      <3>3. m + 1 \in AttemptNumbers
        BY <3>2, JournalAssumption DEF JournalOK, TablesOK, AttemptNumbers
      <3>4. /\ attempts'[p][m] = attempts[p][m] /\ attempts'[p][m + 1] = attempts[p][m + 1]
            /\ Outdated(p, m)' = Outdated(p, m)
        BY <1>2, <3>2, <3>3, InsertRows
      <3> QED  BY <3>2, <3>4 DEF RowsInv, Closed
    <2> QED  BY <2>1, <2>2
  <1>8. OwnersAge'
    <2> SUFFICES ASSUME NEW p \in Ops, NEW m \in AttemptNumbers, m <= latest'[p]
                 PROVE  Owned(p, m)' \/ Outdated(p, m)'
      BY DEF OwnersAge
    <2>1. CASE p = o /\ m = n
      BY <1>3, <2>1
    <2>2. CASE ~(p = o /\ m = n)
      <3>1. latest'[p] = IF p = o THEN n ELSE latest[p]
        BY InsertRows
      <3>2. m \in Nat /\ latest[p] \in Nat
        BY InsertRows
      <3>3. m <= latest[p]
        BY <2>2, <3>1, <3>2
      <3> QED  BY <1>2, <2>2, <3>3 DEF RowsInv, OwnersAge
    <2> QED  BY <2>1, <2>2
  <1> QED  BY <1>1, <1>5, <1>6, <1>7, <1>8 DEF RowsInv

(* fence_owner keeps the journal sound: the rows of older owners become    *)
(* outdated.                                                               *)
LEMMA FenceSound ==
  ASSUME JournalOK, RowsInv, NEW o \in Ops, NEW w \in Owners, FenceOwner(o, w)
  PROVE  JournalOK' /\ RowsInv'
  <1>1. /\ Generation[w] > Generation[activeOwner[o]]
        /\ activeOwner' = [activeOwner EXCEPT ![o] = w]
        /\ UNCHANGED <<attempts, latest, dispatch, held>>
    BY DEF FenceOwner, Replaceable
  <1>2. JournalOK'
    BY <1>1 DEF JournalOK, RecordsOK, TablesOK
  <1>3. \A p \in Ops, m \in AttemptNumbers :
          /\ p # o => Outdated(p, m)' = Outdated(p, m) /\ Owned(p, m)' = Owned(p, m)
          /\ Outdated(p, m) \/ (Owned(p, m) /\ p = o) => Outdated(p, m)'
    <2> SUFFICES ASSUME NEW p \in Ops, NEW m \in AttemptNumbers
                 PROVE /\ p # o => Outdated(p, m)' = Outdated(p, m) /\ Owned(p, m)' = Owned(p, m)
                       /\ Outdated(p, m) \/ (Owned(p, m) /\ p = o) => Outdated(p, m)'
      OBVIOUS
    <2>1. attempts[p][m].owner \in Owners /\ activeOwner[p] \in Owners
      BY DEF JournalOK, RecordsOK, TablesOK, Attempt
    <2>2. \A v \in Owners : Generation[v] \in Nat
      BY JournalAssumption
    <2>3. activeOwner'[p] = IF p = o THEN w ELSE activeOwner[p]
      BY <1>1 DEF JournalOK, TablesOK
    <2> QED  BY <1>1, <2>1, <2>2, <2>3 DEF Outdated, Owned
  <1>4. RowsAreSound'
    <2> SUFFICES ASSUME NEW p \in Ops, NEW m \in AttemptNumbers
                 PROVE  RowFacts(attempts[p][m], dispatch[p][m], held[p][m],
                                 ClaimKeys(p), Outdated(p, m)')
      BY <1>1 DEF RowsAreSound, ClaimKeys
    <2>1. Outdated(p, m)' \in BOOLEAN /\ Outdated(p, m) \in BOOLEAN
      BY DEF Outdated
    <2>2. RowFacts(attempts[p][m], dispatch[p][m], held[p][m], ClaimKeys(p), Outdated(p, m))
      BY DEF RowsInv, RowsAreSound
    <2> QED  BY <1>3, <2>1, <2>2, CreatedIsSound
  <1>5. Unstored'
    BY <1>1 DEF RowsInv, Unstored
  <1>6. Closed'
    BY <1>1, <1>3 DEF RowsInv, Closed
  <1>7. OwnersAge'
    BY <1>1, <1>3 DEF RowsInv, OwnersAge
  <1> QED  BY <1>2, <1>4, <1>5, <1>6, <1>7 DEF RowsInv
-----------------------------------------------------------------------------
(* What a step does to the threads.  A bystander keeps its call; whoever   *)
(* moves is idle afterwards, works on a stored attempt without a permit,   *)
(* or had a permit before.                                                 *)
OnStored(u) ==
  call[u].n <= latest[call[u].op] /\ call[u].owner = Att(u).owner

SameAttempt(u) ==
  /\ call'[u].op = call[u].op /\ call'[u].n = call[u].n
  /\ call'[u].owner = call[u].owner

Follows(u) ==
  \/ call'[u].pc = "idle"
  \/ call'[u].pc \notin Holding /\ OnStored(u)'
  \/ call[u].pc \in Holding /\ SameAttempt(u) /\ OnStored(u)'

Behaves(u) == Follows(u) /\ Backed(u)'

(* No stored attempt is lost or handed to another owner.                   *)
HistoryKept ==
  \A p \in Ops, m \in AttemptNumbers :
    m <= latest[p] => m <= latest'[p] /\ attempts'[p][m].owner = attempts[p][m].owner

(* A thread that keeps its attempt in a step that keeps history is still   *)
(* on a stored row.                                                        *)
LEMMA KeptAttempt ==
  ASSUME IInv, HistoryKept, NEW u \in Threads, call[u].pc # "idle", SameAttempt(u)
  PROVE  OnStored(u)'
  <1>1. OnStored(u)
    BY DEF IInv, CallsInv, CallsAreStored, OnStored
  <1>2. call[u].op \in Ops /\ call[u].n \in AttemptNumbers
    BY CallRow
  <1> QED  BY <1>1, <1>2 DEF OnStored, HistoryKept, SameAttempt, Att

(* A thread that does not act still follows a stored row.                  *)
LEMMA BystanderFollows ==
  ASSUME IInv, HistoryKept, NEW u \in Threads, call'[u] = call[u]
  PROVE  Follows(u)
  <1>1. CASE call[u].pc = "idle"
    BY <1>1 DEF Follows
  <1>2. CASE call[u].pc # "idle"
    <2>1. SameAttempt(u)
      BY DEF SameAttempt
    <2>2. OnStored(u)'
      BY <1>2, <2>1, KeptAttempt
    <2> QED  BY <2>1, <2>2 DEF Follows
  <1> QED  BY <1>1, <1>2

(* If every thread behaves, what the invariant says of threads survives    *)
(* the step.                                                               *)
LEMMA CallsFollow ==
  ASSUME IInv, \A u \in Threads : Behaves(u)
  PROVE  CallsAreStored' /\ PermitsAreBacked' /\ PermitsAreUnique'
  <1>1. CallsAreStored'
    BY DEF Behaves, Follows, CallsAreStored, OnStored, Att
  <1>2. PermitsAreBacked'
    BY DEF Behaves, PermitsAreBacked
  <1>3. PermitsAreUnique'
    <2> SUFFICES ASSUME NEW t \in Threads, NEW u \in Threads, t # u,
                        call'[t].pc \in Holding, call'[u].pc \in Holding
                 PROVE  call'[t].op # call'[u].op \/ call'[t].n # call'[u].n
      BY DEF PermitsAreUnique
    <2>1. call[t].pc \in Holding /\ SameAttempt(t)
      BY DEF Behaves, Follows, Holding
    <2>2. call[u].pc \in Holding /\ SameAttempt(u)
      BY DEF Behaves, Follows, Holding
    <2> QED  BY <2>1, <2>2 DEF SameAttempt, IInv, CallsInv, PermitsAreUnique
  <1> QED  BY <1>1, <1>2, <1>3

(* A latch is durable: no step takes it back.                              *)
LatchesKept ==
  \A p \in Ops, m \in AttemptNumbers :
    dispatch[p][m] = "started" => dispatch'[p][m] = "started"

(* Effects stay latched, and keys unique, in a step that undoes no latch.  *)
LEMMA EffectsKept ==
  ASSUME IInv, UNCHANGED <<latest, effects>>, LatchesKept
  PROVE  EffectsAreLatched' /\ KeysAreUnique'
  BY DEF IInv, CallsInv, EffectsAreLatched, KeysAreUnique, LatchesKept, Admitted

(* A step that adds no claim keeps claims exclusive.                       *)
LEMMA ClaimsShrink ==
  ASSUME IInv, LatchesKept,
         \A p \in Ops, m \in AttemptNumbers : held'[p][m] \subseteq held[p][m]
  PROVE  ClaimsExclude'
  BY DEF IInv, ClaimsExclude, Overlap, Under, LatchesKept

(* Steps that rewrite a row without extending its claim.                   *)
LEMMA RewriteKeeps ==
  ASSUME IInv, NEW o, NEW n, NEW b, NEW d, NEW h, Rewrites(o, n, b, d, h)
  PROVE  /\ JournalOK /\ HistoryKept /\ LatchesKept
         /\ \A p \in Ops, m \in AttemptNumbers :
              /\ attempts'[p][m] = IF p = o /\ m = n THEN b ELSE attempts[p][m]
              /\ dispatch'[p][m] = IF p = o /\ m = n THEN d ELSE dispatch[p][m]
              /\ held'[p][m] = IF p = o /\ m = n THEN h ELSE held[p][m]
  <1>1. JournalOK
    BY TypeParts DEF IInv
  <1>2. o \in Ops /\ n \in AttemptNumbers /\ RowStep(o, n, b, d, h)
    BY DEF Rewrites, Legit
  <1>3. \A p \in Ops, m \in AttemptNumbers :
              /\ attempts'[p][m] = IF p = o /\ m = n THEN b ELSE attempts[p][m]
              /\ dispatch'[p][m] = IF p = o /\ m = n THEN d ELSE dispatch[p][m]
              /\ held'[p][m] = IF p = o /\ m = n THEN h ELSE held[p][m]
    BY <1>1, <1>2, RowStepRows
  <1>4. HistoryKept
    BY <1>2, <1>3 DEF HistoryKept, RowStep, Rewrites, Legit
  <1>5. LatchesKept
    BY <1>3 DEF LatchesKept, Rewrites, Legit
  <1> QED  BY <1>1, <1>3, <1>4, <1>5

(* A rewrite changes one row and leaves the owners and the others alone.   *)
LEMMA RewriteParts ==
  ASSUME IInv, NEW o, NEW n, NEW b, NEW d, NEW h, Rewrites(o, n, b, d, h),
         UNCHANGED effects, CallsOK'
  PROVE  CoreOK' /\ RowsInv' /\ EffectsAreLatched' /\ KeysAreUnique'
  <1>1. RowsInv /\ JournalOK /\ effects \in [Ops -> Nat]
    BY TypeParts DEF IInv
  <1>2. JournalOK' /\ RowsInv'
    BY <1>1, RewritesSound
  <1>3. CoreOK'
    BY <1>1, <1>2, TypePartsNext
  <1>4. EffectsAreLatched' /\ KeysAreUnique'
    BY RewriteKeeps, EffectsKept DEF Rewrites, RowStep
  <1> QED  BY <1>2, <1>3, <1>4

(* A rewrite of one row that the calls follow preserves the invariant.     *)
LEMMA RewriteStep ==
  ASSUME IInv, NEW o, NEW n, NEW b, NEW d, NEW h, Rewrites(o, n, b, d, h),
         h \subseteq held[o][n], UNCHANGED effects, CallsOK',
         \A u \in Threads : Behaves(u)
  PROVE  IInv'
  <1>1. CoreOK' /\ RowsInv' /\ EffectsAreLatched' /\ KeysAreUnique'
    BY RewriteParts
  <1>2. ClaimsExclude'
    BY RewriteKeeps, ClaimsShrink
  <1>3. CallsAreStored' /\ PermitsAreBacked' /\ PermitsAreUnique'
    BY CallsFollow
  <1> QED  BY <1>1, <1>2, <1>3 DEF IInv, CallsInv

(* Steps that change nothing in the database.                              *)
LEMMA QuietParts ==
  ASSUME IInv, UNCHANGED journal
  PROVE  JournalOK' /\ RowsInv' /\ ClaimsExclude' /\ KeysAreUnique'
  <1>1. RowsInv /\ JournalOK
    BY TypeParts DEF IInv
  <1>2. JournalOK' /\ RowsInv'
    BY <1>1 DEF journal, JournalOK, RecordsOK, TablesOK, RowsInv, RowsAreSound,
                Unstored, Closed, OwnersAge, Outdated, Owned
  <1>3. LatchesKept /\ UNCHANGED <<latest, held>>
    BY DEF journal, LatchesKept
  <1>4. ClaimsExclude'
    BY <1>3, ClaimsShrink
  <1>5. KeysAreUnique'
    BY <1>3 DEF IInv, CallsInv, KeysAreUnique, Admitted
  <1> QED  BY <1>2, <1>4, <1>5

(* A step that leaves the journal alone preserves the invariant when every *)
(* thread behaves.                                                         *)
LEMMA QuietStep ==
  ASSUME IInv, UNCHANGED <<journal, effects>>, CallsOK', \A u \in Threads : Behaves(u)
  PROVE  IInv'
  <1>1. JournalOK' /\ RowsInv' /\ ClaimsExclude' /\ KeysAreUnique'
    BY QuietParts
  <1>2. CoreOK'
    BY <1>1, TypeParts, TypePartsNext DEF IInv
  <1>3. EffectsAreLatched'
    BY EffectsKept DEF journal, LatchesKept
  <1>4. CallsAreStored' /\ PermitsAreBacked' /\ PermitsAreUnique'
    BY CallsFollow
  <1> QED  BY <1>1, <1>2, <1>3, <1>4 DEF IInv, CallsInv
-----------------------------------------------------------------------------
(* Bystanders.                                                             *)

(* The rewritten row leaves thread u what its permit promises.             *)
Spares(u, o, n, b, d) ==
  call[u].op = o /\ call[u].n = n =>
    /\ call[u].pc = "permit" => d = "claimed"
    /\ call[u].pc = "running" => b.state = "EffectPossible"

(* A thread that does not act behaves in a rewrite that spares its row.    *)
LEMMA BystanderRow ==
  ASSUME IInv, NEW o, NEW n, NEW b, NEW d, NEW h, Rewrites(o, n, b, d, h),
         UNCHANGED effects, NEW u \in Threads, call'[u] = call[u], Spares(u, o, n, b, d)
  PROVE  Behaves(u)
  <1>1. Follows(u)
    BY RewriteKeeps, BystanderFollows
  <1>2. Backed(u)
    BY DEF IInv, CallsInv, PermitsAreBacked
  <1>3. call[u].op \in Ops /\ call[u].n \in AttemptNumbers
    BY CalleeOK DEF IInv
  <1> DEFINE p == call[u].op
  <1> DEFINE m == call[u].n
  <1>4. /\ attempts'[p][m] = IF p = o /\ m = n THEN b ELSE attempts[p][m]
        /\ dispatch'[p][m] = IF p = o /\ m = n THEN d ELSE dispatch[p][m]
    BY <1>3, RewriteKeeps
  <1>5. /\ b.owner = attempts[o][n].owner /\ UNCHANGED activeOwner
        /\ dispatch[o][n] = "started" => d = "started"
    BY DEF Rewrites, Legit, RowStep
  <1>6. Backed(u)'
    BY <1>2, <1>4, <1>5 DEF Backed, Owned, Att, Spares
  <1> QED  BY <1>1, <1>6 DEF Behaves

(* A thread that does not act behaves in a step that leaves the journal    *)
(* alone.                                                                  *)
LEMMA BystanderQuiet ==
  ASSUME IInv, UNCHANGED journal, NEW u \in Threads, call'[u] = call[u],
         call[u].pc = "latched" => effects'[call[u].op] = effects[call[u].op]
  PROVE  Behaves(u)
  <1>1. HistoryKept
    BY DEF journal, HistoryKept
  <1>2. Follows(u)
    BY <1>1, BystanderFollows
  <1>3. Backed(u)
    BY DEF IInv, CallsInv, PermitsAreBacked
  <1>4. Backed(u)'
    BY <1>3 DEF Backed, journal, Owned, Att
  <1> QED  BY <1>2, <1>4 DEF Behaves

(* No permit depends on a row whose effect is not in progress.             *)
LEMMA Unrelated ==
  ASSUME IInv, NEW o, NEW n, NEW b, NEW d, d = dispatch[o][n],
         attempts[o][n].state # "EffectPossible" \/ b.state = attempts[o][n].state,
         NEW u \in Threads
  PROVE  Spares(u, o, n, b, d)
  <1>1. Backed(u)
    BY DEF IInv, CallsInv, PermitsAreBacked
  <1> QED  BY <1>1 DEF Spares, Backed, Att

(* Only one thread holds a permit of an attempt.                           *)
LEMMA OnlyHolder ==
  ASSUME IInv, NEW t \in Threads, call[t].pc \in Holding, NEW b, NEW d,
         NEW u \in Threads, u # t
  PROVE  Spares(u, call[t].op, call[t].n, b, d)
  BY DEF IInv, CallsInv, PermitsAreUnique, Spares, Holding

(* A rewrite by the host or by recovery preserves the invariant when it    *)
(* spares every thread.                                                    *)
LEMMA RecoveryStep ==
  ASSUME IInv, NEW o, NEW n, NEW b, NEW d, NEW h, Rewrites(o, n, b, d, h),
         h \subseteq held[o][n], UNCHANGED <<call, effects>>,
         \A u \in Threads : Spares(u, o, n, b, d)
  PROVE  IInv'
  <1>1. CallsOK'
    BY TypeParts DEF IInv, CallsOK
  <1>2. \A u \in Threads : Behaves(u)
    BY BystanderRow
  <1> QED  BY <1>1, <1>2, RewriteStep

(* Thread t moves while it rewrites a row, or without a transaction.       *)
MovesAlone(t) == \A u \in Threads \ {t} : call'[u] = call[u]

(* A thread that rewrites one row and spares the others' rows preserves    *)
(* the invariant.                                                          *)
LEMMA ActorStep ==
  ASSUME IInv, NEW t \in Threads, NEW o, NEW n, NEW b, NEW d, NEW h,
         Rewrites(o, n, b, d, h), h \subseteq held[o][n], UNCHANGED effects,
         CallsOK', MovesAlone(t), Behaves(t),
         \A u \in Threads \ {t} : Spares(u, o, n, b, d)
  PROVE  IInv'
  <1>1. ASSUME NEW u \in Threads PROVE Behaves(u)
    <2>1. CASE u = t
      BY <2>1
    <2>2. CASE u # t
      BY <2>2, BystanderRow DEF MovesAlone
    <2> QED  BY <2>1, <2>2
  <1> QED  BY <1>1, RewriteStep

(* A thread that only moves on, without a write, preserves the invariant.  *)
LEMMA HostStep ==
  ASSUME IInv, NEW t \in Threads, UNCHANGED <<journal, effects>>, CallsOK',
         MovesAlone(t), Behaves(t)
  PROVE  IInv'
  <1>1. ASSUME NEW u \in Threads PROVE Behaves(u)
    <2>1. CASE u = t
      BY <2>1
    <2>2. CASE u # t
      BY <2>2, BystanderQuiet DEF MovesAlone
    <2> QED  BY <2>1, <2>2
  <1> QED  BY <1>1, QuietStep

(* Goto moves one thread and keeps its attempt.                            *)
LEMMA GotoMoves ==
  ASSUME IInv, NEW t \in Threads, NEW s \in PC, Goto(t, s)
  PROVE  CallsOK' /\ MovesAlone(t) /\ call'[t].pc = s /\ SameAttempt(t)
  <1>1. CallsOK
    BY TypeParts DEF IInv
  <1>2. CallsOK'
    BY <1>1, GotoOK
  <1>3. MovesAlone(t) /\ call'[t].pc = s /\ SameAttempt(t)
    BY <1>1 DEF CallsOK, Call, Goto, MovesAlone, SameAttempt
  <1> QED  BY <1>2, <1>3

(* Leave makes one thread idle.                                            *)
LEMMA LeaveMoves ==
  ASSUME IInv, NEW t \in Threads, Leave(t)
  PROVE  CallsOK' /\ MovesAlone(t) /\ Behaves(t)
  <1>1. CallsOK
    BY TypeParts DEF IInv
  <1>2. CallsOK'
    BY <1>1, LeaveOK
  <1>3. MovesAlone(t) /\ call'[t].pc = "idle"
    BY <1>1 DEF CallsOK, Leave, MovesAlone, Idle
  <1>4. Behaves(t)
    BY <1>3 DEF Behaves, Follows, Backed
  <1> QED  BY <1>2, <1>3, <1>4

(* A thread goes on without a permit.                                      *)
LEMMA Proceeds ==
  ASSUME IInv, HistoryKept, NEW t \in Threads, call[t].pc # "idle",
         SameAttempt(t), call'[t].pc \notin Holding
  PROVE  Behaves(t)
  <1>1. Follows(t)
    BY KeptAttempt DEF Follows
  <1>2. Backed(t)'
    BY DEF Backed, Holding
  <1> QED  BY <1>1, <1>2 DEF Behaves
-----------------------------------------------------------------------------
(* Every action keeps the invariant: the steps of a thread.                *)

(* authorize preserves the invariant.                                      *)
LEMMA AuthorizeStep ==
  ASSUME IInv, NEW t \in Threads, AuthorizeIntent(t)
  PROVE  IInv'
  <1> DEFINE o == call[t].op
  <1> DEFINE n == call[t].n
  <1> DEFINE b == Moved(Att(t), "Authorized")
  <1>1. /\ call[t].pc # "idle" /\ Mine(t) /\ Att(t).state = "Persisted"
        /\ UNCHANGED <<latest, activeOwner, dispatch, held, effects>>
        /\ Store(o, n, b) /\ Goto(t, "authorizing")
    BY DEF AuthorizeIntent, CanAuthorize
  <1>2. Rewrites(o, n, b, dispatch[o][n], held[o][n])
    BY <1>1, ThreadMoveRow DEF Moves
  <1>3. CallsOK' /\ MovesAlone(t) /\ call'[t].pc = "authorizing" /\ SameAttempt(t)
    BY <1>1, GotoMoves DEF PC
  <1>4. Behaves(t)
    BY <1>1, <1>2, <1>3, RewriteKeeps, Proceeds DEF Holding
  <1>5. attempts[o][n].state # "EffectPossible"
    BY <1>1 DEF Att
  <1> HIDE DEF o, n, b
  <1>6. \A u \in Threads : Spares(u, o, n, b, dispatch[o][n])
    BY <1>5, Unrelated
  <1> QED  BY <1>1, <1>2, <1>3, <1>4, <1>6, ActorStep

(* queue preserves the invariant.                                          *)
LEMMA QueueStep ==
  ASSUME IInv, NEW t \in Threads, QueueIntent(t)
  PROVE  IInv'
  <1> DEFINE o == call[t].op
  <1> DEFINE n == call[t].n
  <1> DEFINE b == Moved(Att(t), "Queued")
  <1>1. /\ call[t].pc # "idle" /\ Mine(t) /\ Att(t).state = "Authorized"
        /\ UNCHANGED <<latest, activeOwner, dispatch, held, effects>>
        /\ Store(o, n, b)
        /\ call' = [call EXCEPT ![t].pc = "queued", ![t].rev = Att(t).rev + 1]
    BY DEF QueueIntent, CanQueue
  <1>2. Rewrites(o, n, b, dispatch[o][n], held[o][n])
    BY <1>1, ThreadMoveRow DEF Moves
  <1>3. CallsOK'
    <2>1. CallsOK /\ Att(t).rev + 1 \in Nat
      BY TypeParts, CalleeOK DEF IInv
    <2>2. "queued" \in PC
      BY DEF PC
    <2> QED  BY <1>1, <2>1, <2>2, GotoRevOK
  <1>4. MovesAlone(t) /\ call'[t].pc = "queued" /\ SameAttempt(t)
    <2>1. CallsOK
      BY TypeParts DEF IInv
    <2> QED  BY <1>1, <2>1 DEF CallsOK, Call, MovesAlone, SameAttempt
  <1>5. Behaves(t)
    BY <1>1, <1>2, <1>4, RewriteKeeps, Proceeds DEF Holding
  <1>6. attempts[o][n].state # "EffectPossible"
    BY <1>1 DEF Att
  <1> HIDE DEF o, n, b
  <1>7. \A u \in Threads : Spares(u, o, n, b, dispatch[o][n])
    BY <1>6, Unrelated
  <1> QED  BY <1>1, <1>2, <1>3, <1>4, <1>5, <1>7, ActorStep

(* A denied dispatch that cancels its attempt preserves the invariant.     *)
LEMMA DenyStep ==
  ASSUME IInv, NEW t \in Threads, DenyDispatch(t)
  PROVE  IInv'
  <1> DEFINE o == call[t].op
  <1> DEFINE n == call[t].n
  <1> DEFINE b == Moved(attempts[o][n], "Cancelled")
  <1>1. /\ call[t].pc # "idle" /\ CanCancel(o, n) /\ Resolve(o, n)
        /\ UNCHANGED <<latest, activeOwner, dispatch, effects>>
        /\ Store(o, n, b) /\ Goto(t, "denied")
    BY DEF DenyDispatch, Att
  <1>2. o \in Ops /\ n \in AttemptNumbers
    BY CalleeOK DEF IInv
  <1>3. Rewrites(o, n, b, dispatch[o][n], {})
    BY <1>1, <1>2, CancelRow
  <1>4. CallsOK' /\ MovesAlone(t) /\ call'[t].pc = "denied" /\ SameAttempt(t)
    BY <1>1, GotoMoves DEF PC
  <1>5. Behaves(t)
    BY <1>1, <1>3, <1>4, RewriteKeeps, Proceeds DEF Holding
  <1>6. attempts[o][n].state # "EffectPossible"
    BY <1>1 DEF CanCancel, Unstarted
  <1> HIDE DEF o, n, b
  <1>7. \A u \in Threads : Spares(u, o, n, b, dispatch[o][n])
    BY <1>6, Unrelated
  <1> QED  BY <1>1, <1>3, <1>4, <1>5, <1>7, ActorStep

(* latch_effect_start preserves the invariant: the permit is backed by the *)
(* latch.                                                                  *)
LEMMA LatchStep ==
  ASSUME IInv, NEW t \in Threads, LatchEffectStart(t)
  PROVE  IInv'
  <1> DEFINE o == call[t].op
  <1> DEFINE n == call[t].n
  <1> DEFINE b == LatchedRow(Att(t))
  <1>1. /\ call[t].pc = "permit" /\ Mine(t) /\ dispatch[o][n] = "claimed"
        /\ UNCHANGED effects /\ Goto(t, "latched")
    BY DEF LatchEffectStart, CanLatch
  <1>2. Rewrites(o, n, b, "started", held[o][n])
    BY LatchRow
  <1>3. /\ o \in Ops /\ n \in AttemptNumbers /\ n <= latest[o] /\ Owned(o, n)
    BY <1>1, CallRow DEF Mine
  <1>4. CallsOK' /\ MovesAlone(t) /\ call'[t].pc = "latched" /\ SameAttempt(t)
    BY <1>1, GotoMoves DEF PC
  <1>5. Behaves(t)
    <2>1. Follows(t)
      BY <1>1, <1>2, <1>4, RewriteKeeps, KeptAttempt DEF Follows, Holding
    <2>2. dispatch'[o][n] = "started"
      BY <1>2, <1>3, RewriteKeeps
    <2>3. effects[o] = 0
      BY <1>1, <1>3, OwnedRow DEF IInv, CallsInv, EffectsAreLatched
    <2>4. Backed(t)'
      BY <1>1, <1>4, <2>2, <2>3 DEF Backed, SameAttempt
    <2> QED  BY <2>1, <2>4 DEF Behaves
  <1>6. \A u \in Threads \ {t} : Spares(u, o, n, b, "started")
    BY <1>1, OnlyHolder DEF Holding
  <1> HIDE DEF o, n, b
  <1> QED  BY <1>1, <1>2, <1>4, <1>5, <1>6, ActorStep

(* complete_for_session preserves the invariant.                           *)
LEMMA CompleteStep ==
  ASSUME IInv, NEW t \in Threads, NEW ok \in BOOLEAN, Complete(t, ok)
  PROVE  IInv'
  <1> DEFINE o == call[t].op
  <1> DEFINE n == call[t].n
  <1>1. call[t].pc = "returned" /\ UNCHANGED effects /\ Leave(t)
    BY DEF Complete
  <1>2. PICK b : Rewrites(o, n, b, dispatch[o][n], {})
    BY CompleteRow
  <1>3. CallsOK' /\ MovesAlone(t) /\ Behaves(t)
    BY <1>1, LeaveMoves
  <1>4. \A u \in Threads \ {t} : Spares(u, o, n, b, dispatch[o][n])
    BY <1>1, OnlyHolder DEF Holding
  <1> HIDE DEF o, n
  <1> QED  BY <1>1, <1>2, <1>3, <1>4, ActorStep

(* The Interrupt of a lost response preserves the invariant.               *)
LEMMA ResponseLostStep ==
  ASSUME IInv, NEW t \in Threads, ResponseLost(t)
  PROVE  IInv'
  <1> DEFINE o == call[t].op
  <1> DEFINE n == call[t].n
  <1> DEFINE b == Moved(Att(t), "Interrupted")
  <1>1. /\ call[t].pc = "returned" /\ Mine(t) /\ Att(t).state = "EffectPossible"
        /\ UNCHANGED <<latest, activeOwner, dispatch, held, effects>>
        /\ Store(o, n, b) /\ Goto(t, "lost")
    BY DEF ResponseLost, CanComplete
  <1>2. Rewrites(o, n, b, dispatch[o][n], held[o][n])
    BY <1>1, ThreadMoveRow DEF Moves
  <1>3. CallsOK' /\ MovesAlone(t) /\ call'[t].pc = "lost" /\ SameAttempt(t)
    BY <1>1, GotoMoves DEF PC
  <1>4. Behaves(t)
    BY <1>1, <1>2, <1>3, RewriteKeeps, Proceeds DEF Holding
  <1>5. \A u \in Threads \ {t} : Spares(u, o, n, b, dispatch[o][n])
    BY <1>1, OnlyHolder DEF Holding
  <1> HIDE DEF o, n, b
  <1> QED  BY <1>1, <1>2, <1>3, <1>4, <1>5, ActorStep

(* The RequireRecovery that follows it preserves the invariant.            *)
LEMMA ReportLossStep ==
  ASSUME IInv, NEW t \in Threads, ReportLoss(t)
  PROVE  IInv'
  <1> DEFINE o == call[t].op
  <1> DEFINE n == call[t].n
  <1> DEFINE b == Moved(Att(t), "RecoveryRequired")
  <1>1. /\ call[t].pc # "idle" /\ Leave(t)
        /\ UNCHANGED <<latest, activeOwner, dispatch, held, effects>>
    BY DEF ReportLoss
  <1>2. CallsOK' /\ MovesAlone(t) /\ Behaves(t)
    BY <1>1, LeaveMoves
  <1>3. CASE Mine(t) /\ Att(t).state = "Interrupted" /\ Store(o, n, b)
    <2>1. Rewrites(o, n, b, dispatch[o][n], held[o][n])
      BY <1>1, <1>3, ThreadMoveRow DEF Moves
    <2>2. attempts[o][n].state # "EffectPossible"
      BY <1>3 DEF Att
    <2> HIDE DEF o, n, b
    <2>3. \A u \in Threads : Spares(u, o, n, b, dispatch[o][n])
      BY <2>2, Unrelated
    <2> QED  BY <1>1, <1>2, <2>1, <2>3, ActorStep
  <1>4. CASE UNCHANGED attempts
    BY <1>1, <1>2, <1>4, HostStep DEF journal
  <1> QED  BY <1>3, <1>4 DEF ReportLoss

(* The return of the tool's action preserves the invariant.                *)
LEMMA ActionReturnsStep ==
  ASSUME IInv, NEW t \in Threads, ActionReturns(t)
  PROVE  IInv'
  <1>1. /\ call[t].pc = "running" /\ UNCHANGED <<journal, effects>>
        /\ call' = [call EXCEPT ![t].pc = "returned", ![t].rev = Att(t).rev]
    BY DEF ActionReturns
  <1>2. CallsOK /\ Att(t).rev \in Nat
    BY TypeParts, CalleeOK DEF IInv
  <1>3. CallsOK'
    <2>1. "returned" \in PC
      BY DEF PC
    <2> QED  BY <1>1, <1>2, <2>1, GotoRevOK
  <1>4. MovesAlone(t) /\ call'[t].pc = "returned" /\ SameAttempt(t)
    BY <1>1, <1>2 DEF CallsOK, Call, MovesAlone, SameAttempt
  <1>5. Behaves(t)
    <2>1. HistoryKept
      BY <1>1 DEF journal, HistoryKept
    <2>2. Follows(t)
      BY <1>1, <1>4, <2>1, KeptAttempt DEF Follows, Holding
    <2>3. Backed(t)
      BY DEF IInv, CallsInv, PermitsAreBacked
    <2>4. Backed(t)'
      BY <1>1, <1>4, <2>3 DEF Backed, SameAttempt, journal
    <2> QED  BY <2>2, <2>4 DEF Behaves
  <1> QED  BY <1>1, <1>3, <1>4, <1>5, HostStep

(* A call the journal refuses, or that reports denied, preserves the       *)
(* invariant.                                                              *)
LEMMA RefuseStep ==
  ASSUME IInv, NEW t \in Threads, Refuse(t) \/ ReportDenied(t)
  PROVE  IInv'
  <1>1. UNCHANGED <<journal, effects>> /\ call[t].pc # "idle"
    BY DEF Refuse, ReportDenied
  <1>2. CASE Leave(t)
    BY <1>1, <1>2, LeaveMoves, HostStep
  <1>3. CASE Goto(t, "denied")
    <2>1. CallsOK' /\ MovesAlone(t) /\ call'[t].pc = "denied" /\ SameAttempt(t)
      BY <1>3, GotoMoves DEF PC
    <2>2. HistoryKept
      BY <1>1 DEF journal, HistoryKept
    <2>3. Behaves(t)
      BY <1>1, <2>1, <2>2, Proceeds DEF Holding
    <2> QED  BY <1>1, <2>1, <2>3, HostStep
  <1> QED  BY <1>2, <1>3 DEF Refuse, ReportDenied

(* A latched attempt is the latest of its operation.                       *)
LEMMA StartedIsLatest ==
  ASSUME IInv, NEW o \in Ops, NEW n \in AttemptNumbers, dispatch[o][n] = "started"
  PROVE  n = latest[o]
  <1>1. ~(n > latest[o])
    BY DEF IInv, RowsInv, Unstored
  <1>2. ~(n < latest[o])
    BY DEF IInv, RowsInv, Closed, RowsAreSound, RowFacts
  <1> QED  BY <1>1, <1>2 DEF IInv, CoreOK, AttemptNumbers

(* consume_effect_permit and the action: the one step that adds an effect, *)
(* and it spends the permit.                                               *)
LEMMA InvokeStep ==
  ASSUME IInv, NEW t \in Threads, InvokeAction(t)
  PROVE  IInv'
  <1> DEFINE o == call[t].op
  <1> DEFINE n == call[t].n
  <1>1. /\ call[t].pc = "latched" /\ Mine(t) /\ Att(t).state = "EffectPossible"
        /\ dispatch[o][n] = "started" /\ UNCHANGED journal
        /\ effects' = [effects EXCEPT ![o] = @ + 1] /\ Goto(t, "running")
    BY DEF InvokeAction, CanConsume
  <1>2. o \in Ops /\ n \in AttemptNumbers
    BY CalleeOK DEF IInv
  <1>3. CallsOK' /\ MovesAlone(t) /\ call'[t].pc = "running" /\ SameAttempt(t)
    BY <1>1, GotoMoves DEF PC
  <1>4. effects[o] = 0 /\ effects \in [Ops -> Nat]
    BY <1>1 DEF IInv, CallsInv, PermitsAreBacked, Backed, CoreOK
  <1>5. n = latest[o]
    BY <1>1, <1>2, StartedIsLatest
  <1>6. JournalOK' /\ RowsInv' /\ ClaimsExclude' /\ KeysAreUnique'
    BY <1>1, QuietParts
  <1>7. CoreOK'
    <2>1. effects' \in [Ops -> Nat]
      BY <1>1, <1>2, <1>4
    <2> QED  BY <1>3, <1>6, <2>1, TypePartsNext
  <1>8. Behaves(t)
    <2>1. HistoryKept
      BY <1>1 DEF journal, HistoryKept
    <2>2. Follows(t)
      BY <1>1, <1>3, <2>1, KeptAttempt DEF Follows, Holding
    <2>3. Backed(t)'
      BY <1>1, <1>3 DEF Backed, SameAttempt, journal, Mine, Owned, Att
    <2> QED  BY <2>2, <2>3 DEF Behaves
  <1>9. ASSUME NEW u \in Threads, u # t PROVE Behaves(u)
    <2>1. call'[u] = call[u]
      BY <1>3, <1>9 DEF MovesAlone
    <2>2. call[u].op \in Ops /\ call[u].n \in AttemptNumbers
      BY CalleeOK DEF IInv
    <2>3. ASSUME call[u].pc = "latched" PROVE call[u].op # o
      <3>1. dispatch[call[u].op][call[u].n] = "started"
        BY <2>3 DEF IInv, CallsInv, PermitsAreBacked, Backed
      <3>2. call[u].n = latest[call[u].op]
        BY <2>2, <3>1, StartedIsLatest
      <3>3. call[u].op # o \/ call[u].n # n
        BY <1>1, <1>9, <2>3 DEF IInv, CallsInv, PermitsAreUnique, Holding
      <3> QED  BY <1>5, <3>2, <3>3
    <2>4. call[u].pc = "latched" => effects'[call[u].op] = effects[call[u].op]
      BY <1>1, <1>4, <2>2, <2>3
    <2> QED  BY <1>1, <2>1, <2>4, BystanderQuiet
  <1>10. CallsAreStored' /\ PermitsAreBacked' /\ PermitsAreUnique'
    BY <1>8, <1>9, CallsFollow
  <1>11. EffectsAreLatched'
    <2>1. \A p \in Ops : effects'[p] = IF p = o THEN 1 ELSE effects[p]
      BY <1>1, <1>4
    <2>2. UNCHANGED <<latest, dispatch>>
      BY <1>1 DEF journal
    <2> HIDE DEF o, n
    <2> QED  BY <1>1, <1>2, <1>5, <2>1, <2>2 DEF IInv, CallsInv, EffectsAreLatched
  <1> QED  BY <1>6, <1>7, <1>10, <1>11 DEF IInv, CallsInv

(* The claim a thread takes is in conflict with none that is held, except  *)
(* those of the latched parent it runs under.                              *)
LEMMA ClaimIsExclusive ==
  ASSUME IInv, NEW o \in Ops, NEW w, NoConflict(o, w),
         NEW p \in Ops, p # o, NEW m \in AttemptNumbers,
         Overlap(ClaimKeys(o), held[p][m])
  PROVE  Under(o, p, m)
  <1>1. p \in EligibleParent(o, w)
    BY DEF NoConflict
  <1>2. /\ Plan[o].parent = p /\ latest[p] > 0
        /\ attempts[p][latest[p]].state = "EffectPossible"
    BY <1>1 DEF EligibleParent, Admitted
  <1>3. latest[p] \in AttemptNumbers
    BY <1>2 DEF IInv, CoreOK, AttemptNumbers
  <1>4. dispatch[p][latest[p]] = "started"
    BY <1>2, <1>3 DEF IInv, RowsInv, RowsAreSound, RowFacts
  <1>5. held[p][m] # {}
    BY DEF Overlap
  <1>6. ~(m > latest[p])
    BY <1>5 DEF IInv, RowsInv, Unstored, RowsAreSound, RowFacts
  <1>7. ~(m < latest[p])
    BY <1>5 DEF IInv, RowsInv, Closed, RowsAreSound, RowFacts
  <1>8. m = latest[p]
    BY <1>3, <1>6, <1>7 DEF AttemptNumbers
  <1> QED  BY <1>2, <1>4, <1>8 DEF Under

(* claim_dispatch preserves the invariant: no conflicting key is held, so  *)
(* claims stay exclusive.                                                  *)
LEMMA ClaimStep ==
  ASSUME IInv, NEW t \in Threads, ClaimDispatch(t)
  PROVE  IInv'
  <1> DEFINE o == call[t].op
  <1> DEFINE n == call[t].n
  <1> DEFINE w == call[t].owner
  <1>1. /\ call[t].pc = "queued" /\ dispatch[o][n] = "none" /\ NoConflict(o, w)
        /\ UNCHANGED effects /\ Goto(t, "permit")
    BY DEF ClaimDispatch, CanClaim
  <1>2. Rewrites(o, n, Att(t), "claimed", ClaimKeys(o))
    BY ClaimRow
  <1>3. o \in Ops /\ n \in AttemptNumbers
    BY CalleeOK DEF IInv
  <1>4. CallsOK' /\ MovesAlone(t) /\ call'[t].pc = "permit" /\ SameAttempt(t)
    BY <1>1, GotoMoves DEF PC
  <1>5. CoreOK' /\ RowsInv' /\ EffectsAreLatched' /\ KeysAreUnique'
    BY <1>1, <1>2, <1>4, RewriteParts
  <1>6. \A p \in Ops, m \in AttemptNumbers :
          /\ dispatch'[p][m] = IF p = o /\ m = n THEN "claimed" ELSE dispatch[p][m]
          /\ held'[p][m] = IF p = o /\ m = n THEN ClaimKeys(o) ELSE held[p][m]
    BY <1>2, RewriteKeeps
  <1>7. HistoryKept
    BY <1>2, RewriteKeeps
  <1>8. OnStored(t)'
    BY <1>1, <1>4, <1>7, KeptAttempt
  <1>9. Backed(t)'
    BY <1>3, <1>4, <1>6 DEF Backed, SameAttempt
  <1>10. ASSUME NEW u \in Threads, u # t PROVE Behaves(u)
    <2>1. call'[u] = call[u]
      BY <1>4, <1>10 DEF MovesAlone
    <2>2. Backed(u)
      BY DEF IInv, CallsInv, PermitsAreBacked
    <2>3. Spares(u, o, n, Att(t), "claimed")
      BY <1>1, <2>2 DEF Spares, Backed, Att
    <2> HIDE DEF o, n
    <2> QED  BY <1>1, <1>2, <2>1, <2>3, BystanderRow
  <1>11. CallsAreStored'
    BY <1>8, <1>10 DEF CallsAreStored, Behaves, Follows, OnStored, Att
  <1>12. PermitsAreBacked'
    BY <1>9, <1>10 DEF PermitsAreBacked, Behaves
  <1>13. PermitsAreUnique'
    <2>1. ASSUME NEW u \in Threads, u # t, call'[u].pc \in Holding
          PROVE  /\ call[u].pc \in Holding /\ SameAttempt(u)
                 /\ call[u].op # o \/ call[u].n # n
      <3>1. call'[u] = call[u]
        BY <1>4, <2>1 DEF MovesAlone
      <3>2. Backed(u)
        BY DEF IInv, CallsInv, PermitsAreBacked
      <3> QED  BY <1>1, <2>1, <3>1, <3>2 DEF Backed, Holding, SameAttempt
    <2> SUFFICES ASSUME NEW u \in Threads, NEW v \in Threads, u # v,
                        call'[u].pc \in Holding, call'[v].pc \in Holding
                 PROVE  call'[u].op # call'[v].op \/ call'[u].n # call'[v].n
      BY DEF PermitsAreUnique
    <2>2. CASE u = t
      BY <1>4, <2>1, <2>2 DEF SameAttempt
    <2>3. CASE v = t
      BY <1>4, <2>1, <2>3 DEF SameAttempt
    <2>4. CASE u # t /\ v # t
      BY <2>1, <2>4 DEF SameAttempt, IInv, CallsInv, PermitsAreUnique
    <2> QED  BY <2>2, <2>3, <2>4
  <1>14. ClaimsExclude'
    <2>1. ASSUME NEW p \in Ops, NEW m \in AttemptNumbers, p # o,
                 Overlap(ClaimKeys(o), held[p][m])
          PROVE  Under(o, p, m)
      BY <1>1, <1>3, <2>1, ClaimIsExclusive
    <2>2. \A p \in Ops, m \in AttemptNumbers : \A q :
            Under(q, p, m) => Plan[q].parent = p /\ dispatch'[p][m] = "started"
      BY <1>1, <1>6 DEF Under
    <2>3. \A x, y : Overlap(x, y) => Overlap(y, x)
      BY DEF Overlap
    <2> SUFFICES ASSUME NEW p \in Ops, NEW q \in Ops, NEW m \in AttemptNumbers,
                        NEW k \in AttemptNumbers, p # q,
                        Overlap(held'[p][m], held'[q][k])
                 PROVE  \/ Plan[p].parent = q /\ dispatch'[q][k] = "started"
                        \/ Plan[q].parent = p /\ dispatch'[p][m] = "started"
      BY DEF ClaimsExclude, Under, Overlap
    <2>4. CASE p = o /\ m = n
      BY <1>6, <2>1, <2>2, <2>4
    <2>5. CASE q = o /\ k = n
      BY <1>6, <2>1, <2>2, <2>3, <2>5
    <2>6. CASE ~(p = o /\ m = n) /\ ~(q = o /\ k = n)
      BY <1>6, <2>6 DEF IInv, ClaimsExclude, Under
    <2> QED  BY <2>4, <2>5, <2>6
  <1> QED  BY <1>5, <1>11, <1>12, <1>13, <1>14 DEF IInv, CallsInv
-----------------------------------------------------------------------------
(* Steps that take up an attempt, fence an owner or end a process.         *)

(* A thread that does not act behaves in an insertion or a change of       *)
(* owner.                                                                  *)
LEMMA BystanderKept ==
  ASSUME IInv, HistoryKept, NEW u \in Threads, call'[u] = call[u],
         UNCHANGED <<dispatch, effects>>,
         call[u].pc # "idle" => Att(u)' = Att(u)
  PROVE  Behaves(u)
  <1>1. Follows(u)
    BY BystanderFollows
  <1>2. Backed(u)
    BY DEF IInv, CallsInv, PermitsAreBacked
  <1>3. Backed(u)'
    BY <1>2 DEF Backed, Owned, Att
  <1> QED  BY <1>1, <1>3 DEF Behaves

(* A thread that takes up a stored attempt of its owner behaves.           *)
LEMMA TakesUp ==
  ASSUME IInv, NEW t \in Threads, NEW s \in {"intent", "authorizing"}, NEW o \in Ops,
         NEW n \in AttemptNumbers, NEW r \in Nat, NEW w \in Owners,
         call' = [call EXCEPT ![t] = [pc |-> s, op |-> o, n |-> n, rev |-> r, owner |-> w]],
         n <= latest'[o], attempts'[o][n].owner = w
  PROVE  CallsOK' /\ MovesAlone(t) /\ Behaves(t)
  <1> DEFINE c == [pc |-> s, op |-> o, n |-> n, rev |-> r, owner |-> w]
  <1>1. CallsOK
    BY TypeParts DEF IInv
  <1>2. c \in Call
    BY DEF Call, PC
  <1>3. CallsOK' /\ MovesAlone(t) /\ call'[t] = c
    BY <1>1, <1>2 DEF CallsOK, MovesAlone
  <1>4. Follows(t)
    BY <1>3 DEF Follows, OnStored, Att, Holding
  <1>5. Backed(t)'
    BY <1>3 DEF Backed
  <1> QED  BY <1>3, <1>4, <1>5 DEF Behaves

(* What inserting an attempt leaves as it was.                             *)
LEMMA InsertKeeps ==
  ASSUME IInv, NEW o, NEW n, NEW b, Inserts(o, n, b)
  PROVE  /\ JournalOK /\ HistoryKept /\ LatchesKept
         /\ \A u \in Threads : call[u].pc # "idle" /\ call'[u] = call[u] => Att(u)' = Att(u)
  <1>1. JournalOK
    BY TypeParts DEF IInv
  <1>2. ASSUME NEW p \in Ops, NEW m \in AttemptNumbers, m <= latest[p]
        PROVE  m <= latest'[p] /\ attempts'[p][m] = attempts[p][m]
    <2>1. latest'[p] = IF p = o THEN n ELSE latest[p]
      BY <1>1, InsertRows
    <2>2. latest[p] \in Nat /\ m \in Nat
      BY <1>1, InsertRows
    <2>3. p = o => n = latest[p] + 1
      BY DEF Inserts
    <2>4. m <= latest'[p] /\ ~(p = o /\ m = n)
      BY <1>2, <2>1, <2>2, <2>3
    <2> QED  BY <1>1, <2>4, InsertRows
  <1>3. HistoryKept
    BY <1>2 DEF HistoryKept
  <1>4. LatchesKept
    BY DEF Inserts, LatchesKept
  <1>5. ASSUME NEW u \in Threads, call[u].pc # "idle", call'[u] = call[u]
        PROVE  Att(u)' = Att(u)
    BY <1>2, <1>5, CallRow DEF Att
  <1> QED  BY <1>1, <1>3, <1>4, <1>5

(* admit of a new operation preserves the invariant.                       *)
LEMMA PersistStep ==
  ASSUME IInv, NEW t \in Threads, NEW o \in Ops, NEW w \in Owners, PersistIntent(t, o, w)
  PROVE  IInv'
  <1>1. /\ latest[o] = 0 /\ activeOwner' = [activeOwner EXCEPT ![o] = w]
        /\ UNCHANGED <<dispatch, held, effects>> /\ Admission(o) = "New"
        /\ call' = [call EXCEPT ![t] =
                      [pc |-> "intent", op |-> o, n |-> 1, rev |-> 1, owner |-> w]]
    BY PersistRow DEF PersistIntent
  <1>2. PICK b : Inserts(o, 1, b) /\ b.owner = w
    BY PersistRow
  <1>3. JournalOK /\ RowsInv
    BY TypeParts DEF IInv
  <1>4. JournalOK' /\ RowsInv'
    BY <1>1, <1>2, <1>3, PersistSound
  <1>5. /\ attempts'[o][1] = b /\ latest' = [latest EXCEPT ![o] = 1]
    <2>1. attempts'[o][1] = b
      BY <1>2, <1>3, FirstAttempt, InsertRows
    <2> QED  BY <1>2, <2>1 DEF Inserts
  <1>6. CallsOK' /\ MovesAlone(t) /\ Behaves(t)
    <2>1. 1 <= latest'[o]
      BY <1>3, <1>5 DEF JournalOK, TablesOK
    <2> QED  BY <1>1, <1>2, <1>5, <2>1, FirstAttempt, TakesUp
  <1>7. HistoryKept /\ LatchesKept
    BY <1>2, InsertKeeps
  <1>8. ASSUME NEW u \in Threads, u # t PROVE Behaves(u)
    <2>1. call'[u] = call[u]
      BY <1>6, <1>8 DEF MovesAlone
    <2>2. call[u].pc # "idle" => Att(u)' = Att(u)
      BY <1>2, <2>1, InsertKeeps
    <2> QED  BY <1>1, <1>7, <2>1, <2>2, BystanderKept
  <1>9. CallsAreStored' /\ PermitsAreBacked' /\ PermitsAreUnique'
    BY <1>6, <1>8, CallsFollow
  <1>10. ClaimsExclude'
    BY <1>1, <1>7, ClaimsShrink
  <1>11. CoreOK'
    BY <1>1, <1>4, <1>6, TypeParts, TypePartsNext DEF IInv
  <1>12. EffectsAreLatched'
    <2>1. effects[o] # 1
      BY <1>1 DEF IInv, CallsInv, EffectsAreLatched, AttemptNumbers
    <2>2. \A p \in Ops : p # o => latest'[p] = latest[p]
      BY <1>3, <1>5 DEF JournalOK, TablesOK
    <2> QED  BY <1>1, <2>1, <2>2 DEF IInv, CallsInv, EffectsAreLatched
  <1>13. KeysAreUnique'
    <2>1. \A p \in Ops : p \in Admitted' => p = o \/ p \in Admitted
      BY <1>3, <1>5 DEF Admitted, JournalOK, TablesOK
    <2>2. \A p \in Admitted : Plan[p].key # Plan[o].key
      BY <1>1, AdmissionIsFresh
    <2>3. Admitted' \subseteq Ops
      BY DEF Admitted
    <2> QED  BY <2>1, <2>2, <2>3 DEF IInv, CallsInv, KeysAreUnique
  <1> QED  BY <1>4, <1>9, <1>10, <1>11, <1>12, <1>13 DEF IInv, CallsInv

(* admit_retry preserves the invariant.                                    *)
LEMMA RetryStep ==
  ASSUME IInv, NEW t \in Threads, NEW o \in Ops, AdmitRetry(t, o)
  PROVE  IInv'
  <1>1. PICK n : n = latest[o] + 1
    OBVIOUS
  <1>2. PICK w : w = activeOwner[o]
    OBVIOUS
  <1>3. /\ latest[o] \in AttemptNumbers /\ CanRetry(o)
        /\ UNCHANGED <<activeOwner, dispatch, held, effects>>
        /\ call' = [call EXCEPT ![t] =
                      [pc |-> "intent", op |-> o, n |-> n, rev |-> 1, owner |-> w]]
    BY <1>1, <1>2, RetryRow DEF AdmitRetry
  <1>4. PICK b : Inserts(o, n, b) /\ b.owner = w
    BY <1>1, <1>2, RetryRow
  <1>5. JournalOK /\ RowsInv
    BY TypeParts DEF IInv
  <1>6. JournalOK' /\ RowsInv'
    BY <1>1, <1>2, <1>3, <1>4, <1>5, RetrySound
  <1>7. n \in AttemptNumbers /\ latest' = [latest EXCEPT ![o] = n]
    BY <1>4 DEF Inserts
  <1>8. attempts'[o][n] = b
    BY <1>4, <1>5, <1>7, InsertRows
  <1>9. CallsOK' /\ MovesAlone(t) /\ Behaves(t)
    <2>1. n <= latest'[o]
      BY <1>5, <1>7 DEF JournalOK, TablesOK, AttemptNumbers
    <2>2. w \in Owners
      BY <1>2, <1>5 DEF JournalOK, TablesOK
    <2> QED  BY <1>3, <1>4, <1>7, <1>8, <2>1, <2>2, TakesUp
  <1>10. HistoryKept /\ LatchesKept
    BY <1>4, InsertKeeps
  <1>11. ASSUME NEW u \in Threads, u # t PROVE Behaves(u)
    <2>1. call'[u] = call[u]
      BY <1>9, <1>11 DEF MovesAlone
    <2>2. call[u].pc # "idle" => Att(u)' = Att(u)
      BY <1>4, <2>1, InsertKeeps
    <2> QED  BY <1>3, <1>10, <2>1, <2>2, BystanderKept
  <1>12. CallsAreStored' /\ PermitsAreBacked' /\ PermitsAreUnique'
    BY <1>9, <1>11, CallsFollow
  <1>13. ClaimsExclude'
    BY <1>3, <1>10, ClaimsShrink
  <1>14. CoreOK'
    BY <1>3, <1>6, <1>9, TypeParts, TypePartsNext DEF IInv
  <1>15. EffectsAreLatched'
    <2>1. effects[o] # 1
      BY <1>3 DEF IInv, CallsInv, EffectsAreLatched, CanRetry
    <2>2. \A p \in Ops : p # o => latest'[p] = latest[p]
      BY <1>5, <1>7 DEF JournalOK, TablesOK
    <2> QED  BY <1>3, <2>1, <2>2 DEF IInv, CallsInv, EffectsAreLatched
  <1>16. KeysAreUnique'
    <2>1. \A p \in Ops : p \in Admitted' => p \in Admitted
      <3>1. \A p \in Ops : p # o => latest'[p] = latest[p]
        BY <1>5, <1>7 DEF JournalOK, TablesOK
      <3>2. o \in Admitted
        BY <1>3 DEF CanRetry
      <3> QED  BY <3>1, <3>2 DEF Admitted
    <2>2. Admitted' \subseteq Ops
      BY DEF Admitted
    <2> QED  BY <2>1, <2>2 DEF IInv, CallsInv, KeysAreUnique
  <1> QED  BY <1>6, <1>12, <1>13, <1>14, <1>15, <1>16 DEF IInv, CallsInv

(* fence_owner_after_quiescence preserves the invariant, whatever the old  *)
(* owner started since it was said to be quiescent.                        *)
LEMMA FenceStep ==
  ASSUME IInv, NEW o \in Ops, NEW w \in Owners, FenceOwner(o, w)
  PROVE  IInv'
  <1>1. /\ activeOwner' = [activeOwner EXCEPT ![o] = w]
        /\ UNCHANGED <<attempts, latest, dispatch, held, call, effects>>
    BY DEF FenceOwner
  <1>2. JournalOK /\ RowsInv
    BY TypeParts DEF IInv
  <1>3. JournalOK' /\ RowsInv'
    BY <1>2, FenceSound
  <1>4. HistoryKept /\ LatchesKept
    BY <1>1 DEF HistoryKept, LatchesKept
  <1>5. ASSUME NEW u \in Threads PROVE Behaves(u)
    <2>1. call'[u] = call[u] /\ Att(u)' = Att(u)
      BY <1>1 DEF Att
    <2> QED  BY <1>1, <1>4, <2>1, BystanderKept
  <1>6. CallsAreStored' /\ PermitsAreBacked' /\ PermitsAreUnique'
    BY <1>5, CallsFollow
  <1>7. ClaimsExclude'
    BY <1>1, <1>4, ClaimsShrink
  <1>8. CallsOK'
    BY <1>1, TypeParts DEF IInv, CallsOK
  <1>9. CoreOK'
    BY <1>1, <1>3, <1>8, TypeParts, TypePartsNext DEF IInv
  <1>10. EffectsAreLatched' /\ KeysAreUnique'
    BY <1>1, <1>4, EffectsKept
  <1> QED  BY <1>3, <1>6, <1>7, <1>9, <1>10 DEF IInv, CallsInv

(* A step that leaves the journal and every call alone.                    *)
LEMMA NoStep ==
  ASSUME IInv, UNCHANGED <<journal, effects, call>>
  PROVE  IInv'
  <1>1. \A u \in Threads : Behaves(u)
    BY BystanderQuiet
  <1>2. CallsOK'
    BY TypeParts DEF IInv, CallsOK
  <1> QED  BY <1>1, <1>2, QuietStep

(* The callback that confirms quiescence writes nothing.                   *)
LEMMA QuiesceStep ==
  ASSUME IInv, NEW o \in Ops, QuiesceOwner(o)
  PROVE  IInv'
  BY NoStep DEF QuiesceOwner

(* A recoverer that takes up an attempt that never reached its dispatch    *)
(* preserves the invariant.                                                *)
LEMMA ScheduleStep ==
  ASSUME IInv, NEW t \in Threads, NEW o \in Ops, ScheduleRecovered(t, o)
  PROVE  IInv'
  <1>1. PICK n : n = latest[o]
    OBVIOUS
  <1>2. PICK a : a = attempts[o][n]
    OBVIOUS
  <1>3. n \in AttemptNumbers /\ latest[o] \in Nat
    BY <1>1 DEF ScheduleRecovered, Admitted, IInv, CoreOK, AttemptNumbers
  <1>4. a \in Attempt
    BY <1>2, <1>3, RowOK DEF IInv
  <1>5. UNCHANGED <<journal, effects>>
    BY DEF ScheduleRecovered
  <1>6. PICK s \in {"intent", "authorizing"} :
          call' = [call EXCEPT ![t] = [pc |-> s, op |-> o, n |-> n,
                                       rev |-> a.rev, owner |-> a.owner]]
    <2>1. PICK s \in {<<"Persisted", "intent">>, <<"Authorized", "authorizing">>} :
            call' = [call EXCEPT ![t] = [pc |-> s[2], op |-> o, n |-> n,
                                         rev |-> a.rev, owner |-> a.owner]]
      BY <1>1, <1>2 DEF ScheduleRecovered
    <2>2. s[2] \in {"intent", "authorizing"}
      OBVIOUS
    <2> QED  BY <2>1, <2>2
  <1>7. a.rev \in Nat /\ a.owner \in Owners
    BY <1>4 DEF Attempt
  <1>8. n <= latest'[o] /\ attempts'[o][n].owner = a.owner
    BY <1>1, <1>2, <1>3, <1>5 DEF journal
  <1>9. CallsOK' /\ MovesAlone(t) /\ Behaves(t)
    BY <1>3, <1>6, <1>7, <1>8, TakesUp
  <1> QED  BY <1>5, <1>9, HostStep

(* A crash forgets every call and keeps the journal.                       *)
LEMMA CrashStep ==
  ASSUME IInv, NEW r \in Roots, Crash(r)
  PROVE  IInv'
  <1>1. /\ UNCHANGED <<journal, effects>>
        /\ call' = [t \in Threads |-> IF Plan[call[t].op].root = r THEN Idle ELSE call[t]]
    BY DEF Crash
  <1>2. CallsOK'
    BY <1>1, IdleOK, TypeParts DEF IInv, CallsOK
  <1>3. ASSUME NEW u \in Threads PROVE Behaves(u)
    <2>1. CASE call'[u] = Idle
      BY <2>1 DEF Idle, Behaves, Follows, Backed
    <2>2. CASE call'[u] = call[u]
      BY <1>1, <2>2, BystanderQuiet
    <2> QED  BY <1>1, <2>1, <2>2
  <1> QED  BY <1>1, <1>2, <1>3, QuietStep
-----------------------------------------------------------------------------
(* Cancellation and recovery of one attempt.                               *)

(* A row whose effect is not in progress changes its state.                *)
LEMMA StateStep ==
  ASSUME IInv, NEW o \in Ops, NEW n \in AttemptNumbers, n <= latest[o], Owned(o, n),
         NEW s, <<attempts[o][n].state, s>> \in Moves,
         attempts[o][n].state # "EffectPossible" \/ Quiescent(o),
         Store(o, n, Moved(attempts[o][n], s)),
         UNCHANGED <<latest, activeOwner, dispatch, held, call, effects>>
  PROVE  IInv'
  <1> DEFINE b == Moved(attempts[o][n], s)
  <1>1. Rewrites(o, n, b, dispatch[o][n], held[o][n])
    BY StateRow
  <1>2. ASSUME NEW u \in Threads PROVE Spares(u, o, n, b, dispatch[o][n])
    <2>1. Backed(u)
      BY DEF IInv, CallsInv, PermitsAreBacked
    <2> QED  BY <2>1 DEF Spares, Backed, Att, Quiescent
  <1> HIDE DEF b
  <1> QED  BY <1>1, <1>2, RecoveryStep

(* cancel_before_start by the host preserves the invariant.                *)
LEMMA CancelStep ==
  ASSUME IInv, NEW o \in Ops, NEW n \in AttemptNumbers, CancelBeforeStart(o, n)
  PROVE  IInv'
  <1> DEFINE b == Moved(attempts[o][n], "Cancelled")
  <1>1. UNCHANGED <<call, effects>> /\ attempts[o][n].state # "EffectPossible"
    BY DEF CancelBeforeStart, CanCancel, Unstarted
  <1>2. Rewrites(o, n, b, dispatch[o][n], {})
    BY CancelRow DEF CancelBeforeStart
  <1> HIDE DEF b
  <1>3. \A u \in Threads : Spares(u, o, n, b, dispatch[o][n])
    BY <1>1, Unrelated
  <1> QED  BY <1>1, <1>2, <1>3, RecoveryStep

(* RequestCancellation preserves the invariant.                            *)
LEMMA RequestStep ==
  ASSUME IInv, NEW o \in Ops, NEW n \in AttemptNumbers, RequestCancellation(o, n)
  PROVE  IInv'
  <1>1. UNCHANGED <<call, effects>>
    BY DEF RequestCancellation
  <1>2. PICK b : /\ b.state = attempts[o][n].state
                 /\ Rewrites(o, n, b, dispatch[o][n], held[o][n])
    BY RequestRow
  <1>3. \A u \in Threads : Spares(u, o, n, b, dispatch[o][n])
    BY <1>2, Unrelated
  <1> QED  BY <1>1, <1>2, <1>3, RecoveryStep

(* The Finalize commands of recovery preserve the invariant.               *)
LEMMA FinalizeStep ==
  ASSUME IInv, NEW o \in Ops, NEW n \in AttemptNumbers, NEW e \in CompletedEffect,
         FinalizeRecoveredSuccess(o, n, e) \/ FinalizeRecoveredFailure(o, n, e)
  PROVE  IInv'
  <1>1. UNCHANGED <<call, effects>> /\ attempts[o][n].state = "RecoveryRequired"
    BY DEF FinalizeRecoveredSuccess, FinalizeRecoveredFailure, CanFinalize
  <1>2. PICK b, h : h \in {{}, held[o][n]} /\ Rewrites(o, n, b, dispatch[o][n], h)
    BY FinalizeRow
  <1>3. \A u \in Threads : Spares(u, o, n, b, dispatch[o][n])
    BY <1>1, Unrelated
  <1> QED  BY <1>1, <1>2, <1>3, RecoveryStep

(* Supersede preserves the invariant.                                      *)
LEMMA SupersedeStep ==
  ASSUME IInv, NEW o \in Ops, NEW n \in AttemptNumbers, Supersede(o, n)
  PROVE  IInv'
  <1>1. UNCHANGED <<call, effects>> /\ attempts[o][n].state # "EffectPossible"
    BY DEF Supersede, Terminal
  <1>2. PICK b : Rewrites(o, n, b, dispatch[o][n], held[o][n])
    BY SupersedeRow
  <1>3. \A u \in Threads : Spares(u, o, n, b, dispatch[o][n])
    BY <1>1, Unrelated
  <1> QED  BY <1>1, <1>2, <1>3, RecoveryStep

(* recover_unstarted_dispatch preserves the invariant.                     *)
LEMMA RecoverStep ==
  ASSUME IInv, NEW o \in Ops, RecoverUnstartedDispatch(o)
  PROVE  IInv'
  <1>1. PICK n : n = latest[o]
    OBVIOUS
  <1>2. UNCHANGED <<call, effects>> /\ attempts[o][n].state = "Queued"
    BY <1>1 DEF RecoverUnstartedDispatch
  <1>3. PICK b : Rewrites(o, n, b, dispatch[o][n], {})
    BY <1>1, RecoverRow
  <1>4. \A u \in Threads : Spares(u, o, n, b, dispatch[o][n])
    BY <1>2, Unrelated
  <1> QED  BY <1>2, <1>3, <1>4, RecoveryStep

(* All commands on an attempt.                                             *)
LEMMA AttemptSteps ==
  ASSUME IInv, NEW o \in Ops, NEW n \in AttemptNumbers, AttemptStep(o, n)
  PROVE  IInv'
  <1>1. CASE CancelBeforeStart(o, n)
    BY <1>1, CancelStep
  <1>2. CASE RequestCancellation(o, n)
    BY <1>2, RequestStep
  <1>3. CASE Interrupt(o, n)
    BY <1>3, StateStep DEF Interrupt, Stored, Moves
  <1>4. CASE RequireRecovery(o, n)
    BY <1>4, StateStep DEF RequireRecovery, Stored, Moves
  <1>5. CASE \E e \in CompletedEffect : FinalizeRecoveredSuccess(o, n, e)
    BY <1>5, FinalizeStep
  <1>6. CASE \E e \in CompletedEffect : FinalizeRecoveredFailure(o, n, e)
    BY <1>6, FinalizeStep
  <1>7. CASE BlockRecovery(o, n)
    BY <1>7, StateStep DEF BlockRecovery, CanFinalize, Stored, Moves
  <1>8. CASE Supersede(o, n)
    BY <1>8, SupersedeStep
  <1> QED  BY <1>1, <1>2, <1>3, <1>4, <1>5, <1>6, <1>7, <1>8 DEF AttemptStep

(* All steps of a thread.                                                  *)
LEMMA ThreadSteps ==
  ASSUME IInv, NEW t \in Threads, ThreadStep(t) \/ ResponseLost(t) \/ DenyDispatch(t)
  PROVE  IInv'
  <1>1. CASE AuthorizeIntent(t)
    BY <1>1, AuthorizeStep
  <1>2. CASE QueueIntent(t)
    BY <1>2, QueueStep
  <1>3. CASE ClaimDispatch(t)
    BY <1>3, ClaimStep
  <1>4. CASE LatchEffectStart(t)
    BY <1>4, LatchStep
  <1>5. CASE InvokeAction(t)
    BY <1>5, InvokeStep
  <1>6. CASE ActionReturns(t)
    BY <1>6, ActionReturnsStep
  <1>7. CASE \E ok \in BOOLEAN : Complete(t, ok)
    BY <1>7, CompleteStep
  <1>8. CASE ReportLoss(t)
    BY <1>8, ReportLossStep
  <1>9. CASE Refuse(t) \/ ReportDenied(t)
    BY <1>9, RefuseStep
  <1>10. CASE ResponseLost(t)
    BY <1>10, ResponseLostStep
  <1>11. CASE DenyDispatch(t)
    BY <1>11, DenyStep
  <1> QED  BY <1>1, <1>2, <1>3, <1>4, <1>5, <1>6, <1>7, <1>8, <1>9, <1>10, <1>11 DEF ThreadStep

-----------------------------------------------------------------------------
(* The inductive invariant.                                                *)

(* The empty journal satisfies the inductive invariant.                    *)
LEMMA InitIInv == Init => IInv
  <1> SUFFICES ASSUME Init PROVE IInv
    OBVIOUS
  <1>1. /\ NewAttempt(SomeOwner) \in Attempt /\ Valid(NewAttempt(SomeOwner))
        /\ SomeOwner \in Owners /\ Idle \in Call
    BY Defaults, NewAttemptOK, IdleOK
  <1>2. /\ NewAttempt(SomeOwner).state = "Created" /\ NewAttempt(SomeOwner).effect = "NotStarted"
        /\ NewAttempt(SomeOwner).outcome = "none" /\ NewAttempt(SomeOwner).owner = SomeOwner
    BY DEF NewAttempt
  <1>3. 0 \in 0..MaxAttempts
    BY JournalAssumption
  <1>4. CoreOK
    BY <1>1, <1>3 DEF Init, CoreOK
  <1>5. \A o \in Ops, n \in AttemptNumbers :
          /\ attempts[o][n].state = "Created" /\ attempts[o][n].effect = "NotStarted"
          /\ attempts[o][n].outcome = "none" /\ attempts[o][n].owner = SomeOwner
          /\ dispatch[o][n] = "none" /\ held[o][n] = {} /\ activeOwner[o] = SomeOwner
          /\ latest[o] = 0 /\ ~(n < latest[o])
    BY <1>2 DEF Init, AttemptNumbers
  <1>6. RowsAreSound
    BY <1>5 DEF RowsAreSound, RowFacts
  <1>7. Unstored /\ Closed /\ OwnersAge
    BY <1>5 DEF Unstored, Closed, OwnersAge, Owned
  <1>8. ClaimsExclude
    BY <1>5 DEF ClaimsExclude, Overlap
  <1>9. \A t \in Threads : call[t].pc = "idle"
    BY DEF Init, Idle
  <1>10. CallsAreStored /\ PermitsAreBacked /\ PermitsAreUnique
    BY <1>9 DEF CallsAreStored, PermitsAreBacked, Backed, PermitsAreUnique, Holding
  <1>11. EffectsAreLatched
    <2>1. \A o \in Ops : effects[o] = 0
      BY DEF Init
    <2>2. 0 \in {0, 1} /\ 0 # 1
      OBVIOUS
    <2> QED  BY <2>1, <2>2, Zenon DEF EffectsAreLatched
  <1>12. KeysAreUnique
    BY DEF Init, KeysAreUnique, Admitted
  <1> QED  BY <1>4, <1>6, <1>7, <1>8, <1>10, <1>11, <1>12 DEF IInv, RowsInv, CallsInv

(* Every step of the runtime and its host preserves the inductive          *)
(* invariant.                                                              *)
LEMMA NextIInv == IInv /\ [Next]_vars => IInv'
  <1> SUFFICES ASSUME IInv, [Next]_vars PROVE IInv'
    OBVIOUS
  <1>1. CASE UNCHANGED vars
    BY <1>1, NoStep DEF vars, journal
  <1>2. ASSUME NEW t \in Threads, ThreadStep(t) \/ ResponseLost(t) \/ DenyDispatch(t)
        PROVE  IInv'
    BY <1>2, ThreadSteps
  <1>3. ASSUME NEW t \in Threads, NEW o \in Ops,
               \/ \E w \in Owners : PersistIntent(t, o, w)
               \/ AdmitRetry(t, o)
               \/ ScheduleRecovered(t, o)
        PROVE  IInv'
    BY <1>3, PersistStep, RetryStep, ScheduleStep
  <1>4. ASSUME NEW o \in Ops, NEW n \in AttemptNumbers, AttemptStep(o, n)
        PROVE  IInv'
    BY <1>4, AttemptSteps
  <1>5. ASSUME NEW o \in Ops,
               \/ \E w \in Owners : FenceOwner(o, w)
               \/ QuiesceOwner(o) \/ RecoverUnstartedDispatch(o)
        PROVE  IInv'
    BY <1>5, FenceStep, QuiesceStep, RecoverStep
  <1>6. ASSUME NEW r \in Roots, Crash(r)
        PROVE  IInv'
    BY <1>6, CrashStep
  <1> QED  BY <1>1, <1>2, <1>3, <1>4, <1>5, <1>6 DEF Next

(* The inductive invariant holds of the journal and the threads that use   *)
(* it, through every interleaving, cancellation, fence, retry and crash.   *)
THEOREM Invariance == Spec => []IInv
  BY InitIInv, NextIInv, PTL DEF Spec

(* The rows and the handles keep their shape, and every stored attempt is  *)
(* one that OperationAttempt::validate accepts.                            *)
THEOREM TypeCorrect == Spec => []TypeOK
  <1> DEFINE Answers == quiesced \in [Ops -> BOOLEAN]
  <1>1. IInv /\ Answers => TypeOK
    BY DEF IInv, CoreOK, TypeOK
  <1>2. Init => Answers
    BY DEF Init
  <1>3. Answers /\ [Next]_vars => Answers'
    <2> SUFFICES ASSUME Answers, [Next]_vars PROVE Answers'
      OBVIOUS
    <2>1. CASE UNCHANGED quiesced
      BY <2>1
    <2>2. ASSUME NEW o \in Ops, (\E w \in Owners : FenceOwner(o, w)) \/ QuiesceOwner(o)
          PROVE  Answers'
      BY <2>2 DEF FenceOwner, QuiesceOwner
    <2>3. ASSUME NEW r \in Roots, Crash(r)
          PROVE  Answers'
      BY <2>3 DEF Crash
    <2>4. ASSUME NEW t \in Threads, ThreadStep(t) \/ ResponseLost(t) \/ DenyDispatch(t)
          PROVE  UNCHANGED quiesced
      BY <2>4 DEF ThreadStep, AuthorizeIntent, QueueIntent, ClaimDispatch, LatchEffectStart,
            InvokeAction, ActionReturns, Complete, ReportLoss, Refuse, ReportDenied,
            ResponseLost, DenyDispatch
    <2>5. ASSUME NEW t \in Threads, NEW o \in Ops,
                 \/ \E w \in Owners : PersistIntent(t, o, w)
                 \/ AdmitRetry(t, o) \/ ScheduleRecovered(t, o)
          PROVE  UNCHANGED quiesced
      BY <2>5 DEF PersistIntent, AdmitRetry, ScheduleRecovered
    <2>6. ASSUME NEW o \in Ops, NEW n \in AttemptNumbers, AttemptStep(o, n)
          PROVE  UNCHANGED quiesced
      BY <2>6 DEF AttemptStep, CancelBeforeStart, RequestCancellation, Interrupt,
            RequireRecovery, FinalizeRecoveredSuccess, FinalizeRecoveredFailure,
            BlockRecovery, Supersede
    <2>7. \A o \in Ops : RecoverUnstartedDispatch(o) => UNCHANGED quiesced
      BY DEF RecoverUnstartedDispatch
    <2> HIDE DEF Answers
    <2> QED  BY <2>1, <2>2, <2>3, <2>4, <2>5, <2>6, <2>7 DEF Next, vars
  <1> HIDE DEF Answers
  <1> QED  BY <1>1, <1>2, <1>3, Invariance, PTL DEF Spec

(* The adapter's action is invoked at most once for a caller key, whatever *)
(* is delivered twice, crashes, is fenced or is retried.                   *)
THEOREM NoDuplicateEffect == Spec => []AtMostOneEffect
  <1>1. IInv => AtMostOneEffect
    <2> SUFFICES ASSUME IInv, NEW o \in Ops, NEW p \in Ops, effects[o] > 0, effects[p] > 0,
                        Plan[o].key = Plan[p].key
                 PROVE  o = p /\ effects[o] = 1
      BY DEF AtMostOneEffect
    <2>1. effects[o] = 1 /\ effects[p] = 1
      BY DEF IInv, CallsInv, EffectsAreLatched
    <2>2. latest[o] \in AttemptNumbers /\ latest[p] \in AttemptNumbers
      BY <2>1 DEF IInv, CallsInv, EffectsAreLatched
    <2>3. o \in Admitted /\ p \in Admitted
      BY <2>2 DEF Admitted, AttemptNumbers
    <2> QED  BY <2>1, <2>3 DEF IInv, CallsInv, KeysAreUnique
  <1> QED  BY <1>1, Invariance, PTL

(* Two actions in progress conflict on a resource only if one runs under   *)
(* the other (claim_dispatch and the parent's exemption).                  *)
THEOREM NoConflictingActions == Spec => []ExclusiveActions
  <1>1. IInv => ExclusiveActions
    <2> SUFFICES ASSUME IInv, NEW t \in Threads, NEW u \in Threads, t # u,
                        call[t].pc = "running", call[u].pc = "running",
                        Overlap(ClaimKeys(call[t].op), ClaimKeys(call[u].op))
                 PROVE  \/ Plan[call[t].op].parent = call[u].op
                        \/ Plan[call[u].op].parent = call[t].op
      BY DEF ExclusiveActions
    <2>1. ASSUME NEW x \in Threads, call[x].pc = "running"
          PROVE  /\ call[x].op \in Ops /\ call[x].n \in AttemptNumbers
                 /\ call[x].n = latest[call[x].op]
                 /\ held[call[x].op][call[x].n] = ClaimKeys(call[x].op)
      <3>1. Backed(x)
        BY DEF IInv, CallsInv, PermitsAreBacked
      <3>2. /\ dispatch[call[x].op][call[x].n] = "started"
            /\ Att(x).state = "EffectPossible"
        BY <2>1, <3>1 DEF Backed
      <3>3. /\ call[x].op \in Ops /\ call[x].n \in AttemptNumbers /\ Valid(Att(x))
            /\ RowFacts(Att(x), dispatch[call[x].op][call[x].n],
                        held[call[x].op][call[x].n], ClaimKeys(call[x].op),
                        Outdated(call[x].op, call[x].n))
        BY <2>1, CallRow
      <3>4. Att(x).outcome = "none"
        BY <3>2, <3>3 DEF Valid
      <3> QED  BY <3>2, <3>3, <3>4, StartedIsLatest DEF RowFacts
    <2>2. call[t].op # call[u].op
      BY <2>1 DEF IInv, CallsInv, PermitsAreUnique, Holding
    <2> QED  BY <2>1, <2>2 DEF IInv, ClaimsExclude, Under
  <1> QED  BY <1>1, Invariance, PTL

(* A claim outlives its thread as long as the outcome of the effect is not *)
(* recorded: nothing but a recorded outcome gives the resource back.       *)
THEOREM ClaimsSurvive == Spec => []UncertainKeepsClaim
  <1>1. IInv => UncertainKeepsClaim
    BY DEF IInv, RowsInv, RowsAreSound, RowFacts, UncertainKeepsClaim
  <1> QED  BY <1>1, Invariance, PTL

(* No stored result without a durable effect latch before it.              *)
THEOREM NoInventedSuccess == Spec => []SuccessWasDispatched
  <1>1. IInv => SuccessWasDispatched
    BY DEF IInv, RowsInv, RowsAreSound, RowFacts, SuccessWasDispatched
  <1> QED  BY <1>1, Invariance, PTL

(* The attempts before the latest prove that nothing was started, and the  *)
(* generations of their owners increase.                                   *)
THEOREM RetriesAreProved == Spec => []RetryLineage
  <1>1. IInv => RetryLineage
    BY DEF IInv, RowsInv, Closed, RowsAreSound, RowFacts, RetryLineage
  <1> QED  BY <1>1, Invariance, PTL
-----------------------------------------------------------------------------
(* Terminal records.                                                       *)

KeepsFinal ==
  \A o \in Ops, n \in AttemptNumbers :
    attempts[o][n].state \in Terminal /\ attempts'[o][n] # attempts[o][n] =>
      /\ attempts[o][n].state # "Superseded"
      /\ attempts'[o][n].state = "Superseded"
      /\ attempts'[o][n].outcome = attempts[o][n].outcome

(* A store of one row leaves every other row as it was.                    *)
LEMMA StoreOnly ==
  ASSUME IInv, NEW o \in Ops, NEW n \in AttemptNumbers, NEW a, Store(o, n, a),
         NEW p \in Ops, NEW m \in AttemptNumbers
  PROVE  attempts'[p][m] = IF p = o /\ m = n THEN a ELSE attempts[p][m]
  BY DEF IInv, CoreOK, Store

(* A transition of an attempt that is not terminal.                        *)
LEMMA LiveStore ==
  ASSUME IInv, NEW o \in Ops, NEW n \in AttemptNumbers, NEW a, Store(o, n, a),
         attempts[o][n].state \notin Terminal
  PROVE  KeepsFinal
  BY StoreOnly DEF KeepsFinal

(* A step that leaves the attempts alone keeps every outcome.              *)
LEMMA SameAttempts ==
  ASSUME UNCHANGED attempts
  PROVE  KeepsFinal
  BY DEF KeepsFinal

(* No step of a thread changes an outcome that is recorded.                *)
LEMMA ThreadKeepsFinal ==
  ASSUME IInv, NEW t \in Threads, ThreadStep(t) \/ ResponseLost(t) \/ DenyDispatch(t)
  PROVE  KeepsFinal
  <1> DEFINE o == call[t].op
  <1> DEFINE n == call[t].n
  <1>1. o \in Ops /\ n \in AttemptNumbers
    BY CalleeOK DEF IInv
  <1>2. CASE UNCHANGED attempts
    BY <1>2, SameAttempts
  <1>3. CASE /\ attempts[o][n].state \notin Terminal
             /\ \E a : Store(o, n, a)
    BY <1>1, <1>3, LiveStore
  <1>4. CASE AuthorizeIntent(t)
    BY <1>3, <1>4 DEF AuthorizeIntent, CanAuthorize, Att, Terminal
  <1>5. CASE QueueIntent(t)
    BY <1>3, <1>5 DEF QueueIntent, CanQueue, Att, Terminal
  <1>6. CASE LatchEffectStart(t)
    BY <1>3, <1>6 DEF LatchEffectStart, CanLatch, Att, Terminal
  <1>7. CASE \E ok \in BOOLEAN : Complete(t, ok)
    BY <1>3, <1>7 DEF Complete, CanComplete, Att, Terminal
  <1>8. CASE ResponseLost(t)
    BY <1>3, <1>8 DEF ResponseLost, CanComplete, Att, Terminal
  <1>9. CASE ReportLoss(t)
    BY <1>2, <1>3, <1>9 DEF ReportLoss, Att, Terminal
  <1>10. CASE DenyDispatch(t)
    BY <1>3, <1>10 DEF DenyDispatch, CanCancel, Att, Terminal, Unstarted
  <1>11. CASE ClaimDispatch(t)
    BY <1>2, <1>11 DEF ClaimDispatch
  <1>12. CASE InvokeAction(t) \/ ActionReturns(t) \/ Refuse(t) \/ ReportDenied(t)
    BY <1>2, <1>12 DEF InvokeAction, ActionReturns, Refuse, ReportDenied, journal
  <1> QED  BY <1>4, <1>5, <1>6, <1>7, <1>8, <1>9, <1>10, <1>11, <1>12 DEF ThreadStep

(* No command on an attempt changes an outcome that is recorded.           *)
LEMMA AttemptKeepsFinal ==
  ASSUME IInv, NEW o \in Ops, NEW n \in AttemptNumbers, AttemptStep(o, n)
  PROVE  KeepsFinal
  <1>1. CASE /\ attempts[o][n].state \notin Terminal
             /\ \E a : Store(o, n, a)
    BY <1>1, LiveStore
  <1>2. CASE CancelBeforeStart(o, n)
    BY <1>1, <1>2 DEF CancelBeforeStart, CanCancel, Terminal, Unstarted
  <1>3. CASE RequestCancellation(o, n)
    BY <1>1, <1>3 DEF RequestCancellation, Terminal
  <1>4. CASE Interrupt(o, n) \/ RequireRecovery(o, n)
    BY <1>1, <1>4 DEF Interrupt, RequireRecovery, Terminal
  <1>5. CASE \E e \in CompletedEffect :
               FinalizeRecoveredSuccess(o, n, e) \/ FinalizeRecoveredFailure(o, n, e)
    BY <1>1, <1>5 DEF FinalizeRecoveredSuccess, FinalizeRecoveredFailure, CanFinalize, Terminal
  <1>6. CASE BlockRecovery(o, n)
    BY <1>1, <1>6 DEF BlockRecovery, CanFinalize, Terminal
  <1>7. CASE Supersede(o, n)
    <2> DEFINE b == Moved(attempts[o][n], "Superseded")
    <2>1. Store(o, n, b) /\ attempts[o][n].state # "Superseded"
      BY <1>7 DEF Supersede
    <2>2. "Superseded" \in OperationState
      BY DEF OperationState
    <2>3. b.state = "Superseded" /\ b.outcome = attempts[o][n].outcome
      BY <2>2, RowOK, MovedFields DEF IInv
    <2> HIDE DEF b
    <2> QED  BY <2>1, <2>3, StoreOnly DEF KeepsFinal
  <1> QED  BY <1>2, <1>3, <1>4, <1>5, <1>6, <1>7 DEF AttemptStep

(* Admission, retry, fencing and a crash change no recorded outcome.       *)
LEMMA OtherKeepsFinal ==
  ASSUME IInv, NEW o \in Ops
  PROVE  /\ \A t \in Threads :
              /\ \A w \in Owners : PersistIntent(t, o, w) => KeepsFinal
              /\ AdmitRetry(t, o) => KeepsFinal
              /\ ScheduleRecovered(t, o) => KeepsFinal
         /\ \A w \in Owners : FenceOwner(o, w) => KeepsFinal
         /\ QuiesceOwner(o) \/ RecoverUnstartedDispatch(o) => KeepsFinal
  <1>1. \A n \in AttemptNumbers : n > latest[o] => attempts[o][n].state \notin Terminal
    BY DEF IInv, RowsInv, Unstored, Terminal
  <1>2. ASSUME NEW t \in Threads, NEW w \in Owners, PersistIntent(t, o, w)
        PROVE  KeepsFinal
    <2>1. latest[o] = 0 /\ \E b : Store(o, 1, b)
      BY <1>2, PersistRow DEF Inserts
    <2> QED  BY <1>1, <2>1, FirstAttempt, LiveStore
  <1>3. ASSUME NEW t \in Threads, AdmitRetry(t, o)
        PROVE  KeepsFinal
    <2>1. PICK n \in AttemptNumbers : n = latest[o] + 1 /\ \E b : Store(o, n, b)
      BY <1>3, RetryRow DEF Inserts
    <2>2. n > latest[o]
      BY <2>1 DEF IInv, CoreOK
    <2> QED  BY <1>1, <2>1, <2>2, LiveStore
  <1>4. ASSUME NEW t \in Threads, ScheduleRecovered(t, o)
        PROVE  KeepsFinal
    BY <1>4, SameAttempts DEF ScheduleRecovered, journal
  <1>5. ASSUME NEW w \in Owners, FenceOwner(o, w)
        PROVE  KeepsFinal
    BY <1>5, SameAttempts DEF FenceOwner
  <1>6. ASSUME RecoverUnstartedDispatch(o)
        PROVE  KeepsFinal
    <2>1. latest[o] \in AttemptNumbers
      BY <1>6 DEF RecoverUnstartedDispatch, Admitted, IInv, CoreOK, AttemptNumbers
    <2>2. /\ attempts[o][latest[o]].state \notin Terminal
          /\ \E b : Store(o, latest[o], b)
      BY <1>6 DEF RecoverUnstartedDispatch, Terminal
    <2> QED  BY <2>1, <2>2, LiveStore
  <1>7. ASSUME QuiesceOwner(o)
        PROVE  KeepsFinal
    BY <1>7, SameAttempts DEF QuiesceOwner, journal
  <1> QED  BY <1>2, <1>3, <1>4, <1>5, <1>6, <1>7

(* A terminal record is never rewritten but by Supersede, which keeps its  *)
(* outcome: no late completion and no recovery decides it again.           *)
THEOREM OutcomesAreFinal == Spec => TerminalIsFinal
  <1>1. IInv /\ [Next]_vars => [KeepsFinal]_vars
    <2> SUFFICES ASSUME IInv, Next PROVE KeepsFinal
      OBVIOUS
    <2>1. ASSUME NEW r \in Roots, Crash(r)
          PROVE  KeepsFinal
      BY <2>1, SameAttempts DEF Crash, journal
    <2> QED  BY <2>1, ThreadKeepsFinal, AttemptKeepsFinal, OtherKeepsFinal DEF Next
  <1>2. [][KeepsFinal]_vars => TerminalIsFinal
    BY PTL DEF TerminalIsFinal, KeepsFinal
  <1> QED  BY <1>1, <1>2, Invariance, PTL DEF Spec
-----------------------------------------------------------------------------
(* Attempts of a fenced owner.                                             *)

KeepsFenced ==
  \A o \in Ops, n \in AttemptNumbers :
    LET a == attempts[o][n]  b == attempts'[o][n] IN
    Stored(o, n) /\ ~Owned(o, n) =>
      /\ dispatch'[o][n] = dispatch[o][n]
      /\ b # a \/ held'[o][n] # held[o][n] =>
           /\ a.state = "Queued" /\ dispatch[o][n] = "claimed"
           /\ b.state = "RecoveryRequired" /\ b.effect = "NotStarted"

(* A step that leaves the rows alone changes no fenced attempt.            *)
LEMMA SameRows ==
  ASSUME UNCHANGED <<attempts, dispatch, held>>
  PROVE  KeepsFenced
  BY DEF KeepsFenced

(* A step that writes the row of one attempt only.                         *)
WritesRow(o, n) ==
  /\ UNCHANGED attempts \/ \E a : Store(o, n, a)
  /\ UNCHANGED dispatch \/ \E d : dispatch' = [dispatch EXCEPT ![o][n] = d]
  /\ UNCHANGED held \/ \E h : held' = [held EXCEPT ![o][n] = h]

(* It changes no fenced attempt when its own is not fenced, or new.        *)
LEMMA WritesOwnRow ==
  ASSUME IInv, NEW o \in Ops, NEW n \in AttemptNumbers, WritesRow(o, n),
         Owned(o, n) \/ ~Stored(o, n)
  PROVE  KeepsFenced
  <1>1. ASSUME NEW p \in Ops, NEW m \in AttemptNumbers, ~(p = o /\ m = n)
        PROVE  /\ attempts'[p][m] = attempts[p][m] /\ dispatch'[p][m] = dispatch[p][m]
               /\ held'[p][m] = held[p][m]
    <2>1. attempts'[p][m] = attempts[p][m]
      BY <1>1, StoreOnly DEF WritesRow
    <2>2. dispatch'[p][m] = dispatch[p][m]
      BY <1>1 DEF WritesRow, IInv, CoreOK
    <2>3. held'[p][m] = held[p][m]
      BY <1>1 DEF WritesRow, IInv, CoreOK
    <2> QED  BY <2>1, <2>2, <2>3
  <1> QED  BY <1>1 DEF KeepsFenced

(* No step of a thread touches an attempt of a fenced owner: authorize,    *)
(* queue, claim, latch and complete all compare the owner in force.        *)
LEMMA ThreadKeepsFenced ==
  ASSUME IInv, NEW t \in Threads, ThreadStep(t) \/ ResponseLost(t) \/ DenyDispatch(t)
  PROVE  KeepsFenced
  <1> DEFINE o == call[t].op
  <1> DEFINE n == call[t].n
  <1>1. o \in Ops /\ n \in AttemptNumbers
    BY CalleeOK DEF IInv
  <1>2. CASE UNCHANGED <<attempts, dispatch, held>>
    BY <1>2, SameRows
  <1>3. CASE Mine(t) /\ WritesRow(o, n)
    BY <1>1, <1>3, WritesOwnRow DEF Mine
  <1>4. CASE AuthorizeIntent(t) \/ QueueIntent(t)
    BY <1>3, <1>4 DEF AuthorizeIntent, CanAuthorize, QueueIntent, CanQueue, WritesRow
  <1>5. CASE ClaimDispatch(t) \/ LatchEffectStart(t)
    BY <1>3, <1>5 DEF ClaimDispatch, CanClaim, LatchEffectStart, CanLatch, WritesRow
  <1>6. CASE \E ok \in BOOLEAN : Complete(t, ok)
    BY <1>3, <1>6 DEF Complete, CanComplete, Resolve, WritesRow
  <1>7. CASE ResponseLost(t)
    BY <1>3, <1>7 DEF ResponseLost, CanComplete, WritesRow
  <1>8. CASE ReportLoss(t)
    BY <1>2, <1>3, <1>8 DEF ReportLoss, WritesRow
  <1>9. CASE DenyDispatch(t)
    BY <1>3, <1>9 DEF DenyDispatch, Resolve, WritesRow
  <1>10. CASE InvokeAction(t) \/ ActionReturns(t) \/ Refuse(t) \/ ReportDenied(t)
    BY <1>2, <1>10 DEF InvokeAction, ActionReturns, Refuse, ReportDenied, journal
  <1> QED  BY <1>4, <1>5, <1>6, <1>7, <1>8, <1>9, <1>10 DEF ThreadStep

(* No command on an attempt touches one of a fenced owner.                 *)
LEMMA AttemptKeepsFenced ==
  ASSUME IInv, NEW o \in Ops, NEW n \in AttemptNumbers, AttemptStep(o, n)
  PROVE  KeepsFenced
  <1>1. CASE Owned(o, n) /\ WritesRow(o, n)
    BY <1>1, WritesOwnRow
  <1>2. CASE CancelBeforeStart(o, n)
    BY <1>1, <1>2 DEF CancelBeforeStart, CanCancel, Resolve, WritesRow
  <1>3. CASE RequestCancellation(o, n)
    BY <1>1, <1>3 DEF RequestCancellation, WritesRow
  <1>4. CASE Interrupt(o, n) \/ RequireRecovery(o, n)
    BY <1>1, <1>4 DEF Interrupt, RequireRecovery, WritesRow
  <1>5. CASE \E e \in CompletedEffect :
               FinalizeRecoveredSuccess(o, n, e) \/ FinalizeRecoveredFailure(o, n, e)
    BY <1>1, <1>5 DEF FinalizeRecoveredSuccess, FinalizeRecoveredFailure, CanFinalize,
          Resolve, WritesRow
  <1>6. CASE BlockRecovery(o, n) \/ Supersede(o, n)
    BY <1>1, <1>6 DEF BlockRecovery, CanFinalize, Supersede, WritesRow
  <1> QED  BY <1>2, <1>3, <1>4, <1>5, <1>6 DEF AttemptStep

(* Admission and retry write a new row; recovery of an unstarted dispatch  *)
(* is the one write to a fenced attempt.                                   *)
LEMMA OtherKeepsFenced ==
  ASSUME IInv, NEW o \in Ops
  PROVE  /\ \A t \in Threads :
              /\ \A w \in Owners : PersistIntent(t, o, w) => KeepsFenced
              /\ AdmitRetry(t, o) => KeepsFenced
              /\ ScheduleRecovered(t, o) => KeepsFenced
         /\ \A w \in Owners : FenceOwner(o, w) => KeepsFenced
         /\ QuiesceOwner(o) \/ RecoverUnstartedDispatch(o) => KeepsFenced
  <1>1. ASSUME NEW t \in Threads, NEW w \in Owners, PersistIntent(t, o, w)
        PROVE  KeepsFenced
    <2>1. latest[o] = 0 /\ UNCHANGED <<dispatch, held>> /\ \E b : Store(o, 1, b)
      BY <1>1, PersistRow DEF PersistIntent
    <2>2. ~Stored(o, 1)
      BY <2>1 DEF Stored
    <2>3. WritesRow(o, 1)
      BY <2>1 DEF WritesRow
    <2> QED  BY <2>2, <2>3, FirstAttempt, WritesOwnRow
  <1>2. ASSUME NEW t \in Threads, AdmitRetry(t, o)
        PROVE  KeepsFenced
    <2>1. PICK n \in AttemptNumbers : n = latest[o] + 1 /\ \E b : Store(o, n, b)
      BY <1>2, RetryRow DEF Inserts
    <2>2. ~Stored(o, n)
      BY <2>1 DEF IInv, CoreOK, Stored
    <2>3. WritesRow(o, n)
      BY <1>2, <2>1 DEF AdmitRetry, WritesRow
    <2> QED  BY <2>2, <2>3, WritesOwnRow
  <1>3. ASSUME \/ \E t \in Threads : ScheduleRecovered(t, o)
               \/ \E w \in Owners : FenceOwner(o, w)
               \/ QuiesceOwner(o)
        PROVE  KeepsFenced
    BY <1>3, SameRows DEF ScheduleRecovered, FenceOwner, QuiesceOwner, journal
  <1>4. ASSUME RecoverUnstartedDispatch(o)
        PROVE  KeepsFenced
    <2>1. PICK n \in AttemptNumbers : n = latest[o]
      BY <1>4 DEF RecoverUnstartedDispatch, Admitted, IInv, CoreOK, AttemptNumbers
    <2>2. PICK b : b = [Moved(attempts[o][n], "RecoveryRequired") EXCEPT !.evidence = TRUE]
      OBVIOUS
    <2>3. /\ attempts[o][n].state = "Queued" /\ attempts[o][n].effect = "NotStarted"
          /\ dispatch[o][n] = "claimed" /\ Store(o, n, b)
          /\ held' = [held EXCEPT ![o][n] = {}] /\ UNCHANGED dispatch
      BY <1>4, <2>1, <2>2 DEF RecoverUnstartedDispatch, Resolve
    <2>4. b.state = "RecoveryRequired" /\ b.effect = "NotStarted"
      <3>1. attempts[o][n] \in Attempt
        BY RowOK DEF IInv
      <3> QED  BY <2>2, <2>3, <3>1 DEF Moved, Attempt
    <2>5. ASSUME NEW p \in Ops, NEW m \in AttemptNumbers
          PROVE  /\ attempts'[p][m] = IF p = o /\ m = n THEN b ELSE attempts[p][m]
                 /\ ~(p = o /\ m = n) => held'[p][m] = held[p][m]
      <3>1. attempts'[p][m] = IF p = o /\ m = n THEN b ELSE attempts[p][m]
        BY <2>3, StoreOnly
      <3>2. ~(p = o /\ m = n) => held'[p][m] = held[p][m]
        BY <2>3 DEF IInv, CoreOK
      <3> QED  BY <3>1, <3>2
    <2> QED  BY <2>3, <2>4, <2>5 DEF KeepsFenced
  <1> QED  BY <1>1, <1>2, <1>3, <1>4

(* Whatever a fenced owner still does, its attempt stays as the fence found*)
(* it: the owner in force finds either the proof that nothing was started, *)
(* or an effect that may have happened, with its claim.                    *)
THEOREM FencingFreezes == Spec => FencedAttemptIsFrozen
  <1>1. IInv /\ [Next]_vars => [KeepsFenced]_vars
    <2> SUFFICES ASSUME IInv, Next PROVE KeepsFenced
      OBVIOUS
    <2>1. ASSUME NEW r \in Roots, Crash(r)
          PROVE  KeepsFenced
      BY <2>1, SameRows DEF Crash, journal
    <2> QED  BY <2>1, ThreadKeepsFenced, AttemptKeepsFenced, OtherKeepsFenced DEF Next
  <1>2. [][KeepsFenced]_vars => FencedAttemptIsFrozen
    BY PTL DEF FencedAttemptIsFrozen, KeepsFenced
  <1> QED  BY <1>1, <1>2, Invariance, PTL DEF Spec
=============================================================================
