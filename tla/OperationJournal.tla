--------------------------- MODULE OperationJournal ---------------------------
(***************************************************************************)
(* The durable operation journal of davinci-agent: one SQLite database per *)
(* workspace in which every tool call, child launch and external request   *)
(* is recorded before it may touch the world.                              *)
(*                                                                         *)
(* A host thread carries one call through                                  *)
(*                                                                         *)
(*   persist_intent -> authorize_and_queue -> claim_dispatch               *)
(*     -> latch_effect_start -> (the adapter's action) -> complete         *)
(*                                                                         *)
(* and each arrow is a SQLite transaction of its own, so other threads,    *)
(* other sessions of the workspace, cancellations, recovery and a crash of *)
(* the process may come between any two of them.  Every action below is    *)
(* one transaction of the journal (BEGIN IMMEDIATE serialises them) or one *)
(* step of the host between two transactions.                              *)
(*                                                                         *)
(* A refused transaction changes nothing and is not an action, except      *)
(* where the refusal moves the calling thread (Refuse).  A commit whose    *)
(* answer is lost poisons the handle (store.rs:846-880): the process can   *)
(* do nothing more with the journal until it is reopened, which is the     *)
(* state Crash leads to.                                                   *)
(***************************************************************************)
EXTENDS Naturals

CONSTANTS
  Ops,          \* the operation ids callers may propose
  Plan,         \* Plan[o]: the immutable specification of operation o
  Threads,      \* host threads that carry calls
  Owners,       \* execution owners (id and generation)
  Generation,   \* Generation[w]: the generation number of owner w
  Roots,        \* root namespaces (one process holds the lease of each)
  Keys,         \* caller keys: (root, scope, key) of an idempotency key
  Wires,        \* wire tool-call ids of a session
  Resources,    \* canonical resource keys of the workspace
  Wildcard,     \* the claim key "*", in conflict with every key
  NoOp,         \* an operation without a parent
  NoWire,       \* a call without a wire id
  MaxAttempts,  \* bound on the attempts of one operation
  Steered       \* bound: operations whose cancellation is requested or that
                \*   are superseded

AttemptNumbers == 1..MaxAttempts

Plans == [root : Roots, key : Keys, wire : Wires \cup {NoWire}, parent : Ops \cup {NoOp},
          class : {"read_only", "scoped", "opaque"}, resources : SUBSET Resources]

ASSUME JournalAssumption ==
  /\ Plan \in [Ops -> Plans]
  /\ Generation \in [Owners -> Nat \ {0}]
  /\ MaxAttempts \in Nat \ {0}
  /\ NoOp \notin Ops
  /\ NoWire \notin Wires
  /\ Wildcard \notin Resources
  /\ Ops # {} /\ Owners # {}
  /\ Steered \subseteq Ops

-----------------------------------------------------------------------------
(* The attempt record and the classifications the code makes of it.        *)

OperationState ==
  {"Created", "Persisted", "Authorized", "Queued", "EffectPossible",
   "Succeeded", "Failed", "Cancelled", "Interrupted", "RecoveryRequired",
   "Blocked", "Superseded"}

Terminal == {"Succeeded", "Failed", "Cancelled", "Blocked", "Superseded"}

Unstarted == {"Persisted", "Authorized", "Queued"}

(* What an effect may be recorded as once it may have started; "NotStarted"*)
(* is refused (MissingEffectCertainty).  The code tells EffectsObserved and*)
(* Unknown apart from Possible nowhere, nor Compensated from KnownNoEffect.*)
(* Mutant: the certainty of a completed effect is not asked for.           *)
CompletedEffectUnchecked == {"NotStarted", "Possible", "KnownNoEffect"}

CompletedEffect == {"Possible", "KnownNoEffect"}

EffectStatus == {"NotStarted"} \cup CompletedEffect

Attempt == [state : OperationState, effect : EffectStatus, rev : Nat,
            owner : Owners, outcome : {"none", "result", "failure"},
            cancel : BOOLEAN, evidence : BOOLEAN]

SomeOwner == CHOOSE w \in Owners : TRUE
SomeOp == CHOOSE o \in Ops : TRUE

(* OperationAttempt::new; the Created record itself is never stored.       *)
NewAttempt(w) ==
  [state |-> "Created", effect |-> "NotStarted", rev |-> 0, owner |-> w,
   outcome |-> "none", cancel |-> FALSE, evidence |-> FALSE]

(* OperationAttempt::validate, which every stored record has passed.       *)
Valid(a) ==
  /\ a.state = "Succeeded" => a.outcome = "result" /\ a.effect # "NotStarted"
  /\ a.state = "Failed" => a.outcome = "failure"
  /\ a.state = "EffectPossible" => a.effect # "NotStarted"
  /\ a.state \notin {"Succeeded", "Failed", "Superseded"} => a.outcome = "none"

(* Every event of the reducer adds one to the revision.                    *)
Moved(a, s) == [a EXCEPT !.state = s, !.rev = @ + 1]

Finished(a, s, e, out) ==
  [a EXCEPT !.state = s, !.rev = @ + 1, !.effect = e, !.outcome = out]

(* The keys a call claims: none for a read, "*" for an opaque effect or a  *)
(* scoped one that names no resource, else the resources it names.         *)
ClaimKeys(o) ==
  {k \in Resources : Plan[o].class = "scoped" /\ k \in Plan[o].resources}
    \cup {k \in {Wildcard} : \/ Plan[o].class = "opaque"
                             \/ Plan[o].class = "scoped" /\ Plan[o].resources = {}}

Claimed == Resources \cup {Wildcard}

Overlap(keys, claimed) ==
  \E k \in keys, l \in claimed : k = l \/ k = Wildcard \/ l = Wildcard
-----------------------------------------------------------------------------
VARIABLES
  attempts,     \* attempts[o][n]: the stored attempt record
  latest,       \* latest[o]: number of attempts stored, 0 before admission
  activeOwner,  \* operation_owners: the owner in force
  dispatch,     \* dispatch_claims: "none", "claimed" or "started" (latched)
  held,         \* operation_effect_claims: unresolved claim keys of the attempt
  call,         \* what each host thread is doing (memory, lost in a crash)
  effects,      \* effects[o]: how often the action of o was invoked
  quiesced      \* quiesced[o]: a recoverer was told that the owner in force
                \*   is quiescent (memory, true when it was said)

journal == <<attempts, latest, activeOwner, dispatch, held>>
vars == <<attempts, latest, activeOwner, dispatch, held, call, effects, quiesced>>

PC == {"idle", "intent", "authorizing", "queued", "permit", "latched",
       "running", "returned", "lost", "denied"}

Call == [pc : PC, op : Ops, n : AttemptNumbers, rev : Nat, owner : Owners]

Idle == [pc |-> "idle", op |-> SomeOp, n |-> 1, rev |-> 0, owner |-> SomeOwner]

Init ==
  /\ attempts = [o \in Ops |-> [n \in AttemptNumbers |-> NewAttempt(SomeOwner)]]
  /\ latest = [o \in Ops |-> 0]
  /\ activeOwner = [o \in Ops |-> SomeOwner]
  /\ dispatch = [o \in Ops |-> [n \in AttemptNumbers |-> "none"]]
  /\ held = [o \in Ops |-> [n \in AttemptNumbers |-> {}]]
  /\ call = [t \in Threads |-> Idle]
  /\ effects = [o \in Ops |-> 0]
  /\ quiesced = [o \in Ops |-> FALSE]

Admitted == {o \in Ops : latest[o] > 0}

Stored(o, n) == n \in AttemptNumbers /\ n <= latest[o]

Att(t) == attempts[call[t].op][call[t].n]

(* transition, claim and latch all demand that the presented owner is the  *)
(* owner in force and the owner of the attempt.                            *)
Owned(o, n) == attempts[o][n].owner = activeOwner[o]
Mine(t) == Owned(call[t].op, call[t].n) /\ call[t].owner = activeOwner[call[t].op]

(* ensure_no_resource_claim_conflict with the exemption of                 *)
(* eligible_parent_claim: a parent in EffectPossible under the same owner. *)
EligibleParent(o, w) ==
  {p \in {Plan[o].parent} \cap Admitted :
     /\ attempts[p][latest[p]].state = "EffectPossible"
     /\ attempts[p][latest[p]].owner = w}

(* Mutant: the claims are looked up by root like most rows of the journal. *)
NoConflictInRoot(o, w) ==
  \A p \in Ops \ EligibleParent(o, w), n \in AttemptNumbers :
    Plan[p].root = Plan[o].root => ~Overlap(ClaimKeys(o), held[p][n])

NoConflict(o, w) ==
  \A p \in Ops \ EligibleParent(o, w), n \in AttemptNumbers :
    ~Overlap(ClaimKeys(o), held[p][n])

(* A parent that is not stored under the child's root is NotFound.         *)
ParentKnown(o) ==
  \/ Plan[o].parent = NoOp
  \/ \E p \in Admitted : p = Plan[o].parent /\ Plan[p].root = Plan[o].root

Store(o, n, a) == attempts' = [attempts EXCEPT ![o][n] = a]
Goto(t, s) == call' = [call EXCEPT ![t].pc = s]
Leave(t) == call' = [call EXCEPT ![t] = Idle]
Resolve(o, n) == held' = [held EXCEPT ![o][n] = {}]
-----------------------------------------------------------------------------
(* Admission.  A known caller key is answered from the stored operation    *)
(* and a mapped wire id is a Collision; only "New" changes anything.       *)
(* Deliveries of one key carry one payload here: another is a Collision.   *)

(* Mutant: a caller key is remembered only while its operation is open.    *)
AdmissionOfOpenKeys(o) ==
  IF \E p \in Admitted : /\ Plan[p].key = Plan[o].key
                         /\ attempts[p][latest[p]].state \notin Terminal
  THEN "ExistingInFlight" ELSE "New"

Admission(o) ==
  LET known == {p \in Admitted : Plan[p].key = Plan[o].key}
      mapped == {p \in Admitted : Plan[p].wire # NoWire
                   /\ <<Plan[p].root, Plan[p].wire>> = <<Plan[o].root, Plan[o].wire>>}
      final == {p \in known : attempts[p][latest[p]].state \in Terminal}
  IN CASE final # {} -> "ExistingResult"
       [] known # {} /\ final = {} -> "ExistingInFlight"
       [] known = {} /\ mapped # {} -> "Collision"
       [] OTHER -> "New"

PersistIntent(t, o, w) ==
  /\ call[t] = Idle
  /\ Admission(o) = "New"
  /\ ParentKnown(o)
  /\ NoConflict(o, w)
  /\ Store(o, 1, Moved(NewAttempt(w), "Persisted"))
  /\ latest' = [latest EXCEPT ![o] = 1]
  /\ activeOwner' = [activeOwner EXCEPT ![o] = w]
  /\ call' = [call EXCEPT ![t] =
                [pc |-> "intent", op |-> o, n |-> 1, rev |-> 1, owner |-> w]]
  /\ UNCHANGED <<dispatch, held, effects, quiesced>>

(* The two transactions of authorize_and_queue.  The queued thread keeps   *)
(* the revision it read; it claims with that revision much later.          *)
CanAuthorize(t) == Mine(t) /\ Att(t).state = "Persisted"

AuthorizeIntent(t) ==
  /\ call[t].pc = "intent"
  /\ CanAuthorize(t)
  /\ Store(call[t].op, call[t].n, Moved(Att(t), "Authorized"))
  /\ Goto(t, "authorizing")
  /\ UNCHANGED <<latest, activeOwner, dispatch, held, effects, quiesced>>

CanQueue(t) == Mine(t) /\ Att(t).state = "Authorized"

QueueIntent(t) ==
  /\ call[t].pc = "authorizing"
  /\ CanQueue(t)
  /\ Store(call[t].op, call[t].n, Moved(Att(t), "Queued"))
  /\ call' = [call EXCEPT ![t].pc = "queued", ![t].rev = Att(t).rev + 1]
  /\ UNCHANGED <<latest, activeOwner, dispatch, held, effects, quiesced>>

(* begin_dispatch, after its in-memory checks: claim, then latch.          *)
(* Mutant: claims are checked at admission only, long before the dispatch. *)
CanClaimUnchecked(t) ==
  /\ Mine(t)
  /\ Att(t).rev = call[t].rev
  /\ Att(t).state = "Queued"
  /\ ParentKnown(call[t].op)
  /\ dispatch[call[t].op][call[t].n] = "none"

CanClaim(t) ==
  LET o == call[t].op IN
  /\ Mine(t)
  /\ Att(t).rev = call[t].rev
  /\ Att(t).state = "Queued"
  /\ ParentKnown(o)
  /\ dispatch[o][call[t].n] = "none"
  /\ NoConflict(o, call[t].owner)

ClaimDispatch(t) ==
  LET o == call[t].op  n == call[t].n IN
  /\ call[t].pc = "queued"
  /\ CanClaim(t)
  /\ dispatch' = [dispatch EXCEPT ![o][n] = "claimed"]
  /\ held' = [held EXCEPT ![o][n] = ClaimKeys(o)]
  /\ Goto(t, "permit")
  /\ UNCHANGED <<attempts, latest, activeOwner, effects, quiesced>>

CanLatch(t) ==
  /\ Mine(t)
  /\ Att(t).rev = call[t].rev
  /\ Att(t).state = "Queued"
  /\ dispatch[call[t].op][call[t].n] = "claimed"

(* Start and MarkEffectPossible are committed together: no stored attempt  *)
(* is ever Running.                                                        *)
LatchEffectStart(t) ==
  LET o == call[t].op  n == call[t].n IN
  /\ call[t].pc = "permit"
  /\ CanLatch(t)
  /\ Store(o, n, [Att(t) EXCEPT !.state = "EffectPossible", !.effect = "Possible",
                                !.rev = @ + 2])
  /\ dispatch' = [dispatch EXCEPT ![o][n] = "started"]
  /\ Goto(t, "latched")
  /\ UNCHANGED <<latest, activeOwner, held, effects, quiesced>>

(* EffectPermit::dispatch: a last look at the journal, then the action.    *)
CanConsume(t) ==
  /\ Mine(t)
  /\ Att(t).state = "EffectPossible"
  /\ Att(t).effect # "NotStarted"
  /\ dispatch[call[t].op][call[t].n] = "started"

InvokeAction(t) ==
  /\ call[t].pc = "latched"
  /\ CanConsume(t)
  /\ effects' = [effects EXCEPT ![call[t].op] = @ + 1]
  /\ Goto(t, "running")
  /\ UNCHANGED <<journal, quiesced>>

(* The action is over, or its response is lost; the thread reads the       *)
(* attempt and will record the outcome against the revision it read.       *)
ActionReturns(t) ==
  /\ call[t].pc = "running"
  /\ call' = [call EXCEPT ![t].pc = "returned", ![t].rev = Att(t).rev]
  /\ UNCHANGED <<journal, effects, quiesced>>

(* Mutant: the last writer of an outcome wins.                             *)
CanCompleteLate(t) == Mine(t)

(* Mutant: the outcome is recorded against the revision alone.             *)
CanCompleteFenced(t) == Att(t).rev = call[t].rev /\ Att(t).state = "EffectPossible"

CanComplete(t) ==
  Mine(t) /\ Att(t).rev = call[t].rev /\ Att(t).state = "EffectPossible"

(* complete_for_session.  CompleteFailure settles the claim although the   *)
(* effect is unknown: the adapter answered, so the effect is over.         *)
Complete(t, ok) ==
  LET o == call[t].op  n == call[t].n
      effect == IF Plan[o].class = "read_only" THEN "KnownNoEffect" ELSE "Possible"
  IN
  /\ call[t].pc = "returned"
  /\ CanComplete(t)
  /\ \/ ok /\ Store(o, n, Finished(Att(t), "Succeeded", effect, "result"))
     \/ ~ok /\ Store(o, n, Finished(Att(t), "Failed", "Possible", "failure"))
  /\ Resolve(o, n)
  /\ Leave(t)
  /\ UNCHANGED <<latest, activeOwner, dispatch, effects, quiesced>>

(* ExternalOperationHandle::response_lost: two transactions.               *)
ResponseLost(t) ==
  /\ call[t].pc = "returned"
  /\ CanComplete(t)
  /\ Store(call[t].op, call[t].n, Moved(Att(t), "Interrupted"))
  /\ Goto(t, "lost")
  /\ UNCHANGED <<latest, activeOwner, dispatch, held, effects, quiesced>>

ReportLoss(t) ==
  /\ call[t].pc = "lost"
  /\ \/ /\ Mine(t)
        /\ Att(t).state = "Interrupted"
        /\ Store(call[t].op, call[t].n, Moved(Att(t), "RecoveryRequired"))
     \/ /\ ~(Mine(t) /\ Att(t).state = "Interrupted")
        /\ UNCHANGED attempts
  /\ Leave(t)
  /\ UNCHANGED <<latest, activeOwner, dispatch, held, effects, quiesced>>

(* The journal refuses the thread's next transaction.  Before the dispatch *)
(* the call ends; from the dispatch on the tool result says "denied" and   *)
(* the pending-operation guard is disarmed: nothing cancels the attempt.   *)
Refuse(t) ==
  /\ \/ call[t].pc = "intent" /\ ~CanAuthorize(t) /\ Leave(t)
     \/ call[t].pc = "authorizing" /\ ~CanQueue(t) /\ Leave(t)
     \/ call[t].pc = "queued" /\ ~CanClaim(t) /\ Goto(t, "denied")
     \/ call[t].pc = "permit" /\ ~CanLatch(t) /\ Goto(t, "denied")
     \/ call[t].pc = "latched" /\ ~CanConsume(t) /\ Goto(t, "denied")
     \/ call[t].pc = "returned" /\ ~CanComplete(t) /\ Leave(t)
  /\ UNCHANGED <<journal, effects, quiesced>>

ReportDenied(t) ==
  /\ call[t].pc = "denied"
  /\ Leave(t)
  /\ UNCHANGED <<journal, effects, quiesced>>
-----------------------------------------------------------------------------
(* Cancellation.  Any holder of the operation may ask for it: the caller's *)
(* own denial, the scheduler, the guard dropped on an early return.        *)

CanCancel(o, n) ==
  Stored(o, n) /\ Owned(o, n) /\ attempts[o][n].state \in Unstarted

CancelBeforeStart(o, n) ==
  /\ CanCancel(o, n)
  /\ Store(o, n, Moved(attempts[o][n], "Cancelled"))
  /\ Resolve(o, n)
  /\ UNCHANGED <<latest, activeOwner, dispatch, call, effects, quiesced>>

(* A denial inside begin_dispatch cancels first, then answers.             *)
DenyDispatch(t) ==
  /\ call[t].pc = "queued"
  /\ Mine(t)
  /\ CanCancel(call[t].op, call[t].n)
  /\ Store(call[t].op, call[t].n, Moved(Att(t), "Cancelled"))
  /\ Resolve(call[t].op, call[t].n)
  /\ Goto(t, "denied")
  /\ UNCHANGED <<latest, activeOwner, dispatch, effects, quiesced>>

RequestCancellation(o, n) ==
  /\ o \in Steered
  /\ Stored(o, n) /\ Owned(o, n)
  /\ attempts[o][n].state \in {"Queued", "EffectPossible"}
  /\ ~attempts[o][n].cancel
  /\ Store(o, n, [attempts[o][n] EXCEPT !.cancel = TRUE, !.rev = @ + 1])
  /\ UNCHANGED <<latest, activeOwner, dispatch, held, call, effects, quiesced>>
-----------------------------------------------------------------------------
(* Crash, fencing and recovery.                                            *)

(* The process that leases root r dies: its threads and their permits are  *)
(* gone, the database is as the last commit left it.                       *)
Crash(r) ==
  /\ \E t \in Threads : call[t].pc # "idle" /\ Plan[call[t].op].root = r
  /\ call' = [t \in Threads |-> IF Plan[call[t].op].root = r THEN Idle ELSE call[t]]
  /\ quiesced' = [o \in Ops |-> quiesced[o] /\ Plan[o].root # r]
  /\ UNCHANGED <<journal, effects>>

(* What the host's quiesce callback promises: no action of o is executing. *)
(* A thread may still hold a permit; fencing has to make it useless.       *)
Quiescent(o) == \A t \in Threads : call[t].op = o => call[t].pc # "running"

Replaceable(o, w) == o \in Admitted /\ Generation[w] > Generation[activeOwner[o]]

(* fence_owner_after_quiescence calls back before it opens its transaction:*)
(* a permit may be latched and used between the two steps.  The answer is  *)
(* about the owner in force, which only grows, so an older answer never    *)
(* fits the transaction of a later fence (OwnerFenced).                    *)
QuiesceOwner(o) ==
  /\ \E w \in Owners : Replaceable(o, w)
  /\ ~quiesced[o]
  /\ Quiescent(o)
  /\ quiesced' = [quiesced EXCEPT ![o] = TRUE]
  /\ UNCHANGED <<journal, call, effects>>

FenceOwner(o, w) ==
  /\ Replaceable(o, w)
  /\ quiesced[o]
  /\ activeOwner' = [activeOwner EXCEPT ![o] = w]
  /\ quiesced' = [quiesced EXCEPT ![o] = FALSE]
  /\ UNCHANGED <<attempts, latest, dispatch, held, call, effects>>

Outdated(o, n) == Generation[attempts[o][n].owner] < Generation[activeOwner[o]]

RecoverUnstartedDispatch(o) ==
  LET n == latest[o] IN
  /\ o \in Admitted
  /\ Outdated(o, n)
  /\ attempts[o][n].state = "Queued"
  /\ attempts[o][n].effect = "NotStarted"
  /\ dispatch[o][n] = "claimed"
  /\ Store(o, n, [Moved(attempts[o][n], "RecoveryRequired") EXCEPT !.evidence = TRUE])
  /\ Resolve(o, n)
  /\ UNCHANGED <<latest, activeOwner, dispatch, call, effects, quiesced>>

(* Mutant: any attempt in recovery may be retried.                         *)
CanRetryUncertain(o) ==
  /\ o \in Admitted
  /\ Outdated(o, latest[o])
  /\ attempts[o][latest[o]].state = "RecoveryRequired"

CanRetry(o) ==
  LET n == latest[o] IN
  /\ o \in Admitted
  /\ Outdated(o, n)
  /\ attempts[o][n].state = "RecoveryRequired"
  /\ attempts[o][n].effect = "NotStarted"
  /\ attempts[o][n].evidence
  /\ dispatch[o][n] = "claimed"

AdmitRetry(t, o) ==
  LET n == latest[o] + 1  w == activeOwner[o] IN
  /\ call[t] = Idle
  /\ CanRetry(o)
  /\ n <= MaxAttempts
  /\ Store(o, n, [Moved(NewAttempt(w), "Persisted") EXCEPT !.evidence = TRUE])
  /\ latest' = [latest EXCEPT ![o] = n]
  /\ call' = [call EXCEPT ![t] =
                [pc |-> "intent", op |-> o, n |-> n, rev |-> 1, owner |-> w]]
  /\ UNCHANGED <<activeOwner, dispatch, held, effects, quiesced>>

(* run_authorized schedules an attempt that never reached the dispatch     *)
(* (decisions Authorize and ClaimDispatch); two recoverers may pick the    *)
(* same attempt.                                                           *)
ScheduleRecovered(t, o) ==
  LET a == attempts[o][latest[o]] IN
  /\ call[t] = Idle
  /\ o \in Admitted
  /\ Owned(o, latest[o])
  /\ \E s \in {<<"Persisted", "intent">>, <<"Authorized", "authorizing">>} :
       /\ a.state = s[1]
       /\ call' = [call EXCEPT ![t] = [pc |-> s[2], op |-> o, n |-> latest[o],
                                       rev |-> a.rev, owner |-> a.owner]]
  /\ UNCHANGED <<journal, effects, quiesced>>

(* Recovery of an attempt whose effect may have happened.                  *)
Interrupt(o, n) ==
  /\ Stored(o, n) /\ Owned(o, n)
  /\ Quiescent(o)
  /\ attempts[o][n].state = "EffectPossible"
  /\ Store(o, n, Moved(attempts[o][n], "Interrupted"))
  /\ UNCHANGED <<latest, activeOwner, dispatch, held, call, effects, quiesced>>

RequireRecovery(o, n) ==
  /\ Stored(o, n) /\ Owned(o, n)
  /\ attempts[o][n].state = "Interrupted"
  /\ Store(o, n, Moved(attempts[o][n], "RecoveryRequired"))
  /\ UNCHANGED <<latest, activeOwner, dispatch, held, call, effects, quiesced>>

(* Mutant: recovery finalizes an attempt of a fenced owner.                *)
CanFinalizeFenced(o, n) ==
  Stored(o, n) /\ attempts[o][n].state = "RecoveryRequired"

CanFinalize(o, n) ==
  Stored(o, n) /\ Owned(o, n) /\ attempts[o][n].state = "RecoveryRequired"

FinalizeRecoveredSuccess(o, n, e) ==
  /\ CanFinalize(o, n)
  /\ Store(o, n, [Finished(attempts[o][n], "Succeeded", e, "result")
                    EXCEPT !.evidence = TRUE])
  /\ Resolve(o, n)
  /\ UNCHANGED <<latest, activeOwner, dispatch, call, effects, quiesced>>

(* Only a failure known to have left no effect gives the claim back.       *)
FinalizeRecoveredFailure(o, n, e) ==
  /\ CanFinalize(o, n)
  /\ Store(o, n, [Finished(attempts[o][n], "Failed", e, "failure")
                    EXCEPT !.evidence = TRUE])
  /\ held' = [held EXCEPT ![o][n] = IF e = "KnownNoEffect" THEN {} ELSE @]
  /\ UNCHANGED <<latest, activeOwner, dispatch, call, effects, quiesced>>

(* Mutant: blocking gives the resources back like every other end.         *)
BlockRecoveryReleases(o, n) ==
  /\ CanFinalize(o, n)
  /\ Store(o, n, Moved(attempts[o][n], "Blocked"))
  /\ Resolve(o, n)
  /\ UNCHANGED <<latest, activeOwner, dispatch, call, effects, quiesced>>

BlockRecovery(o, n) ==
  /\ CanFinalize(o, n)
  /\ Store(o, n, Moved(attempts[o][n], "Blocked"))
  /\ UNCHANGED <<latest, activeOwner, dispatch, held, call, effects, quiesced>>

Supersede(o, n) ==
  /\ o \in Steered
  /\ Stored(o, n) /\ Owned(o, n)
  /\ attempts[o][n].state \in Terminal \ {"Superseded"}
  /\ Store(o, n, Moved(attempts[o][n], "Superseded"))
  /\ UNCHANGED <<latest, activeOwner, dispatch, held, call, effects, quiesced>>
-----------------------------------------------------------------------------
ThreadStep(t) ==
  \/ AuthorizeIntent(t) \/ QueueIntent(t)
  \/ ClaimDispatch(t) \/ LatchEffectStart(t) \/ InvokeAction(t)
  \/ ActionReturns(t) \/ \E ok \in BOOLEAN : Complete(t, ok)
  \/ ReportLoss(t) \/ Refuse(t) \/ ReportDenied(t)

AttemptStep(o, n) ==
  \/ CancelBeforeStart(o, n) \/ RequestCancellation(o, n)
  \/ Interrupt(o, n) \/ RequireRecovery(o, n)
  \/ \E e \in CompletedEffect : FinalizeRecoveredSuccess(o, n, e)
  \/ \E e \in CompletedEffect : FinalizeRecoveredFailure(o, n, e)
  \/ BlockRecovery(o, n) \/ Supersede(o, n)

Next ==
  \/ \E t \in Threads :
       \/ ThreadStep(t) \/ ResponseLost(t) \/ DenyDispatch(t)
       \/ \E o \in Ops : \/ \E w \in Owners : PersistIntent(t, o, w)
                         \/ AdmitRetry(t, o) \/ ScheduleRecovered(t, o)
  \/ \E o \in Ops :
       \/ \E n \in AttemptNumbers : AttemptStep(o, n)
       \/ \E w \in Owners : FenceOwner(o, w)
       \/ QuiesceOwner(o) \/ RecoverUnstartedDispatch(o)
  \/ \E r \in Roots : Crash(r)

Spec == Init /\ [][Next]_vars
-----------------------------------------------------------------------------
(* Properties.                                                             *)

(* Every variable has the shape of the rows and handles it stands for, and *)
(* every stored attempt is one that OperationAttempt::validate accepts.    *)
TypeOK ==
  /\ attempts \in [Ops -> [AttemptNumbers -> Attempt]]
  /\ \A o \in Ops, n \in AttemptNumbers : Valid(attempts[o][n])
  /\ latest \in [Ops -> 0..MaxAttempts]
  /\ activeOwner \in [Ops -> Owners]
  /\ dispatch \in [Ops -> [AttemptNumbers -> {"none", "claimed", "started"}]]
  /\ held \in [Ops -> [AttemptNumbers -> SUBSET Claimed]]
  /\ call \in [Threads -> Call]
  /\ effects \in [Ops -> Nat]
  /\ quiesced \in [Ops -> BOOLEAN]

(* An irreversible effect is not replayed: over duplicate deliveries of a  *)
(* caller key, crashes, fencing and retries, the adapter's action is       *)
(* invoked at most once for the key (admit, claim_dispatch,                *)
(* admit_retry_after_owner_fence).                                         *)
AtMostOneEffect ==
  \A o, p \in Ops :
    effects[o] > 0 /\ effects[p] > 0 /\ Plan[o].key = Plan[p].key =>
      o = p /\ effects[o] = 1

(* Two actions in progress never conflict on a resource, unless one is the *)
(* parent the other runs under; admission checks the claims but only       *)
(* claim_dispatch takes them.                                              *)
ExclusiveActions ==
  \A t, u \in Threads :
    LET o == call[t].op  p == call[u].op IN
    /\ t # u
    /\ call[t].pc = "running" /\ call[u].pc = "running"
    /\ Overlap(ClaimKeys(o), ClaimKeys(p))
    => Plan[o].parent = p \/ Plan[p].parent = o

(* An effect that may have happened and has no recorded outcome keeps its  *)
(* resource claim, through crash, interruption, recovery and blocking.     *)
UncertainKeepsClaim ==
  \A o \in Ops, n \in AttemptNumbers :
    dispatch[o][n] = "started" /\ attempts[o][n].outcome = "none" =>
      held[o][n] = ClaimKeys(o)

(* Recovery never invents a success: a stored result belongs to an attempt *)
(* whose effect latch was durable before (finalization, completion).       *)
SuccessWasDispatched ==
  \A o \in Ops, n \in AttemptNumbers :
    attempts[o][n].outcome = "result" => dispatch[o][n] = "started"

(* A retry keeps history: each attempt before the latest stays the proof   *)
(* that nothing was started, and every retry runs under a newer            *)
(* generation.                                                             *)
RetryLineage ==
  \A o \in Ops, n \in AttemptNumbers :
    n < latest[o] =>
      /\ attempts[o][n].state = "RecoveryRequired"
      /\ attempts[o][n].effect = "NotStarted"
      /\ held[o][n] = {}
      /\ Generation[attempts[o][n].owner] < Generation[attempts[o][n + 1].owner]

(* A fence stops writes, not threads: an action that was started while the *)
(* host confirmed quiescence may go on under the new owner, but nothing the*)
(* fenced owner does after that reaches its attempt, neither the outcome   *)
(* nor the claim.  Only a claimed dispatch that was never latched moves, to*)
(* RecoveryRequired (fence_owner_after_quiescence, complete_for_session).  *)
FencedAttemptIsFrozen ==
  [][\A o \in Ops, n \in AttemptNumbers :
       LET a == attempts[o][n]  b == attempts'[o][n] IN
       Stored(o, n) /\ ~Owned(o, n) =>
         /\ dispatch'[o][n] = dispatch[o][n]
         /\ b # a \/ held'[o][n] # held[o][n] =>
              /\ a.state = "Queued" /\ dispatch[o][n] = "claimed"
              /\ b.state = "RecoveryRequired" /\ b.effect = "NotStarted"]_vars

(* A terminal record is never rewritten, by a late completion or by        *)
(* recovery: it can only be superseded, and keeps its outcome.             *)
TerminalIsFinal ==
  [][\A o \in Ops, n \in AttemptNumbers :
       attempts[o][n].state \in Terminal /\ attempts'[o][n] # attempts[o][n] =>
         /\ attempts[o][n].state # "Superseded"
         /\ attempts'[o][n].state = "Superseded"
         /\ attempts'[o][n].outcome = attempts[o][n].outcome]_vars
=============================================================================
