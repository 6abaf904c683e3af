-------------------------- MODULE TransactionalEdit ---------------------------
(***************************************************************************)
(* Transactional edits of davinci-agent: an edit of several files that is  *)
(* previewed, applied and rolled back by way of a durable record, with a   *)
(* marker (active.json) for the one transaction that is under way.  The    *)
(* files of a workspace cannot be written in one step, so an apply stages  *)
(* private copies, records their identities and then renames them over     *)
(* the sources one by one; a rollback does the same with the old contents. *)
(* Identities, not contents, tell the transaction's own files from the     *)
(* work of somebody else.                                                  *)
(*                                                                         *)
(* Apply and rollback run under a lease, one at a time; beside them the    *)
(* user edits files at any moment and the process may die.  Each action is *)
(* one read of a file, one rename or one durable write.  The last check    *)
(* and the rename that follows it are one action: the documentation leaves *)
(* that race to the user.  The model is that of the Unix build, where no   *)
(* alias of a file is pending.                                             *)
(***************************************************************************)
EXTENDS Naturals, Sequences, FiniteSets, SequencesExt, SequenceFilter

CONSTANTS
  Files,
  Txns,        \* transactions
  NoTxn,
  Order,       \* Order[t]: the files of t, in the order of its changes
  Deletes,     \* Deletes[t]: those it deletes; it writes the others
  Existing,    \* files that exist at the start
  Deletable,   \* files the user may delete; every file may be written
  MaxEdits     \* bound on the edits of the user

Touched(t) == ToSet(Order[t])

ASSUME EditAssumption ==
  /\ Order \in [Txns -> Seq(Files)]
  /\ \A t \in Txns : Order[t] # <<>> /\ IsInjective(Order[t])
  /\ \A t \in Txns : Deletes[t] \subseteq Touched(t)
  /\ NoTxn \notin Txns
  /\ Existing \subseteq Files
  /\ Deletable \subseteq Files
  /\ MaxEdits \in Nat

-----------------------------------------------------------------------------
(* What a file holds, and the image of a file: its content and, for a      *)
(* restored one, the rollback that put it there.                           *)

Contents == [kind : {"none", "base"}, txn : {NoTxn}, n : {0}]
              \cup [kind : {"proposed"}, txn : Txns, n : {0}]
              \cup [kind : {"user"}, txn : {NoTxn}, n : 1..MaxEdits]

Nothing == [kind |-> "none", txn |-> NoTxn, n |-> 0]
Base == [kind |-> "base", txn |-> NoTxn, n |-> 0]
Proposal(t, f) ==
  IF f \in Deletes[t] THEN Nothing ELSE [kind |-> "proposed", txn |-> t, n |-> 0]
UserContents ==
  {Nothing} \cup [kind : {"user"}, txn : {NoTxn}, n : 1..MaxEdits]

Image == [content : Contents, by : Txns \cup {NoTxn}]

Plain(c) == [content |-> c, by |-> NoTxn]
Missing == Plain(Nothing)

TransactionState ==
  {"Previewed", "Applying", "Applied", "RollingBack", "RolledBack", "Conflicted"}

VARIABLES
  disk,      \* the files of the workspace
  state,     \* state of each record, "none" while there is none
  before,    \* before[t]: the images the captured files of t had
  staged,    \* records that hold the identities of their staged files
  restored,  \* restored[t]: files for which the record holds a restored identity
  marker,    \* active.json
  writer,    \* the operation that holds the lease
  edits,     \* edits of the user so far (bound)
  newer,     \* history: newer[t]: files the user has edited since t captured them
  gone       \* history: files that are missing because the user deleted them

records == <<state, before, staged, restored>>
user == <<edits, newer, gone>>
vars == <<disk, state, before, staged, restored, marker, writer, user>>

Idle == [op |-> "idle", txn |-> NoTxn, pc |-> "check", todo |-> <<>>, restore |-> {}]

Writer == [op : {"idle", "apply", "rollback"}, txn : Txns \cup {NoTxn},
           pc : {"check", "begun", "replace", "recheck", "finish"},
           todo : Seq(Files), restore : SUBSET Files]

Init ==
  /\ disk = [f \in Files |-> IF f \in Existing THEN Plain(Base) ELSE Missing]
  /\ state = [t \in Txns |-> "none"]
  /\ before = [t \in Txns |-> <<>>]
  /\ staged = {}
  /\ restored = [t \in Txns |-> {}]
  /\ marker = NoTxn
  /\ writer = Idle
  /\ edits = 0
  /\ newer = [t \in Txns |-> {}]
  /\ gone = {}

Proposed(t, f) == Plain(Proposal(t, f))

Restored(t, f) ==
  IF before[t][f] = Missing THEN Missing ELSE [before[t][f] EXCEPT !.by = t]

At(op, pc) == writer.op = op /\ writer.pc = pc
Working(op, pc) == At(op, pc) /\ writer.todo # <<>>
Done(op, pc) == At(op, pc) /\ writer.todo = <<>>
File == Head(writer.todo)
Step == writer' = [writer EXCEPT !.todo = Tail(@)]
Goto(pc, todo) == writer' = [writer EXCEPT !.pc = pc, !.todo = todo]
SetState(t, s) == state' = [state EXCEPT ![t] = s]

(* conflict: the record says so, the marker stays as it is.                *)
Conflict ==
  /\ SetState(writer.txn, "Conflicted")
  /\ writer' = Idle
  /\ UNCHANGED <<disk, before, staged, restored, marker, user>>
-----------------------------------------------------------------------------
(* preview reads each file at a moment of its own, without the lease.      *)
Captured(t) == DOMAIN before[t]

Capture(t) ==
  /\ state[t] = "none"
  /\ Captured(t) # Touched(t)
  /\ LET f == Order[t][Cardinality(Captured(t)) + 1] IN
       /\ before' = [before EXCEPT ![t] = [g \in Captured(t) \cup {f} |->
                                             IF g = f THEN disk[f] ELSE @[g]]]
       /\ newer' = [newer EXCEPT ![t] = @ \ {f}]
  /\ UNCHANGED <<disk, state, staged, restored, marker, writer, edits, gone>>

SavePreview(t) ==
  /\ writer = Idle
  /\ state[t] = "none"
  /\ Captured(t) = Touched(t)
  /\ SetState(t, "Previewed")
  /\ UNCHANGED <<disk, before, staged, restored, marker, writer, user>>
-----------------------------------------------------------------------------
(* apply.                                                                  *)

Started(op, t) == writer' = [op |-> op, txn |-> t, pc |-> "check",
                             todo |-> Order[t], restore |-> {}]

StartApply(t) ==
  /\ writer = Idle
  /\ marker = NoTxn
  /\ state[t] = "Previewed"
  /\ Started("apply", t)
  /\ UNCHANGED <<disk, records, marker, user>>

CheckSource ==
  /\ Working("apply", "check")
  /\ \/ /\ disk[File] = before[writer.txn][File]
        /\ Step
        /\ UNCHANGED <<disk, records, marker, user>>
     \/ /\ disk[File] # before[writer.txn][File]
        /\ Conflict

(* The private copies are staged, then the marker is published.            *)
BeginApply ==
  /\ Done("apply", "check")
  /\ marker' = writer.txn
  /\ Goto("begun", <<>>)
  /\ UNCHANGED <<disk, records, user>>

SaveApplying ==
  /\ At("apply", "begun")
  /\ SetState(writer.txn, "Applying")
  /\ staged' = staged \cup {writer.txn}
  /\ Goto("replace", Order[writer.txn])
  /\ UNCHANGED <<disk, before, restored, marker, user>>

(* Mutant: the source is renamed over without another look.                *)
ReplaceUnchecked ==
  /\ Working("apply", "replace")
  /\ disk' = [disk EXCEPT ![File] = Proposed(writer.txn, File)]
  /\ gone' = gone \ {File}
  /\ Step
  /\ UNCHANGED <<records, marker, edits, newer>>

Replace ==
  /\ Working("apply", "replace")
  /\ disk[File] = before[writer.txn][File]
  /\ disk' = [disk EXCEPT ![File] = Proposed(writer.txn, File)]
  /\ gone' = gone \ {File}
  /\ Step
  /\ UNCHANGED <<records, marker, edits, newer>>

(* The file has changed, permission was withdrawn or the user cancelled:   *)
(* what was replaced is rolled back at once.                               *)
ReplaceFails ==
  /\ Working("apply", "replace")
  /\ Started("rollback", writer.txn)
  /\ UNCHANGED <<disk, records, marker, user>>

Recheck ==
  /\ Done("apply", "replace")
  /\ Goto("recheck", Order[writer.txn])
  /\ UNCHANGED <<disk, records, marker, user>>

RecheckSource ==
  /\ Working("apply", "recheck")
  /\ \/ /\ disk[File] = Proposed(writer.txn, File)
        /\ Step
        /\ UNCHANGED <<disk, records, marker, user>>
     \/ /\ disk[File] # Proposed(writer.txn, File)
        /\ Conflict

SaveApplied ==
  /\ Done("apply", "recheck")
  /\ SetState(writer.txn, "Applied")
  /\ Goto("finish", <<>>)
  /\ UNCHANGED <<disk, before, staged, restored, marker, user>>

Finish ==
  /\ writer.pc = "finish"
  /\ marker' = IF marker = writer.txn THEN NoTxn ELSE marker
  /\ writer' = Idle
  /\ UNCHANGED <<disk, records, user>>
-----------------------------------------------------------------------------
(* rollback, of what was applied or of what a crash interrupted.           *)

Recoverable == {"Previewed", "Applying", "Applied", "RollingBack", "Conflicted"}

(* Mutant: a rollback goes ahead beside another transaction's marker.      *)
StartRollbackBeside(t) ==
  /\ writer = Idle
  /\ state[t] \in Recoverable
  /\ Started("rollback", t)
  /\ UNCHANGED <<disk, records, marker, user>>

StartRollback(t) ==
  /\ writer = Idle
  /\ marker \in {NoTxn, t}
  /\ state[t] \in Recoverable
  /\ Started("rollback", t)
  /\ UNCHANGED <<disk, records, marker, user>>

IsRestored(t, f) == f \in restored[t] /\ disk[f] = Restored(t, f)

(* A write that was never staged owns no image; a deletion owns absence.   *)
IsOwned(t, f) ==
  disk[f] = Proposed(t, f) /\ (f \in Deletes[t] \/ t \in staged)

Inspect ==
  /\ Working("rollback", "check")
  /\ LET t == writer.txn  f == File
         untouched == disk[f] = before[t][f] \/ IsRestored(t, f)
     IN \/ /\ untouched \/ IsOwned(t, f)
           /\ writer' = [writer EXCEPT !.todo = Tail(@),
                           !.restore = IF untouched THEN @ ELSE @ \cup {f}]
           /\ UNCHANGED <<disk, records, marker, user>>
        \/ /\ ~untouched /\ ~IsOwned(t, f)
           /\ Conflict

(* Mutant: the rollback of an applied transaction publishes no marker.     *)
BeginRollbackUnmarked ==
  /\ Done("rollback", "check")
  /\ Goto("begun", <<>>)
  /\ UNCHANGED <<disk, records, marker, user>>

BeginRollback ==
  /\ Done("rollback", "check")
  /\ marker' = IF marker = NoTxn THEN writer.txn ELSE marker
  /\ Goto("begun", <<>>)
  /\ UNCHANGED <<disk, records, user>>

SaveRollingBack ==
  /\ At("rollback", "begun")
  /\ SetState(writer.txn, "RollingBack")
  /\ restored' = [restored EXCEPT ![writer.txn] = @ \cup writer.restore]
  /\ Goto("replace", Keep(Reverse(Order[writer.txn]), writer.restore))
  /\ UNCHANGED <<disk, before, staged, marker, user>>

Restore ==
  /\ Working("rollback", "replace")
  /\ disk[File] = Proposed(writer.txn, File)
  /\ disk' = [disk EXCEPT ![File] = Restored(writer.txn, File)]
  /\ gone' = gone \ {File}
  /\ Step
  /\ UNCHANGED <<records, marker, edits, newer>>

RestoreFails ==
  /\ Working("rollback", "replace")
  /\ Conflict

RecheckRollback ==
  /\ Done("rollback", "replace")
  /\ Goto("recheck", Order[writer.txn])
  /\ UNCHANGED <<disk, records, marker, user>>

RecheckRestored ==
  /\ Working("rollback", "recheck")
  /\ LET back == disk[File] = before[writer.txn][File] \/ IsRestored(writer.txn, File)
     IN \/ back /\ Step /\ UNCHANGED <<disk, records, marker, user>>
        \/ ~back /\ Conflict

SaveRolledBack ==
  /\ Done("rollback", "recheck")
  /\ SetState(writer.txn, "RolledBack")
  /\ Goto("finish", <<>>)
  /\ UNCHANGED <<disk, before, staged, restored, marker, user>>
-----------------------------------------------------------------------------
(* The process dies, or a check or a durable write fails where the code    *)
(* returns the error: the lease is released and only what is durable stays.*)
Crash ==
  /\ writer # Idle
  /\ writer' = Idle
  /\ UNCHANGED <<disk, records, marker, user>>

(* Whoever edits the file with another program.                            *)
UserEdits(f) ==
  /\ edits < MaxEdits
  /\ edits' = edits + 1
  /\ newer' = [t \in Txns |-> newer[t] \cup {f}]
  /\ \/ /\ disk' = [disk EXCEPT ![f] = Plain([kind |-> "user", txn |-> NoTxn, n |-> edits'])]
        /\ gone' = gone \ {f}
     \/ /\ f \in Deletable /\ disk[f] # Missing
        /\ disk' = [disk EXCEPT ![f] = Missing]
        /\ gone' = gone \cup {f}
  /\ UNCHANGED <<records, marker, writer>>

ApplyStep ==
  \/ CheckSource \/ BeginApply \/ SaveApplying \/ Replace \/ ReplaceFails
  \/ Recheck \/ RecheckSource \/ SaveApplied

RollbackStep ==
  \/ Inspect \/ BeginRollback \/ SaveRollingBack \/ Restore \/ RestoreFails
  \/ RecheckRollback \/ RecheckRestored \/ SaveRolledBack

Next ==
  \/ \E t \in Txns : Capture(t) \/ SavePreview(t) \/ StartApply(t) \/ StartRollback(t)
  \/ ApplyStep \/ RollbackStep \/ Finish \/ Crash
  \/ \E f \in Files : UserEdits(f)

Spec == Init /\ [][Next]_vars
-----------------------------------------------------------------------------
(* Properties.                                                             *)

TypeOK ==
  /\ disk \in [Files -> Image]
  /\ state \in [Txns -> TransactionState \cup {"none"}]
  /\ \A t \in Txns :
       /\ Captured(t) \subseteq Touched(t)
       /\ state[t] # "none" => Captured(t) = Touched(t)
       /\ \A f \in Captured(t) : before[t][f] \in Image /\ before[t][f].by # t
  /\ staged \subseteq Txns
  /\ restored \in [Txns -> SUBSET Files]
  /\ marker \in Txns \cup {NoTxn}
  /\ writer \in Writer
  /\ edits \in 0..MaxEdits
  /\ newer \in [Txns -> SUBSET Files]
  /\ gone \subseteq Files

(* What lies half-way between two contents is marked: no crash leaves a    *)
(* record in Applying or RollingBack that the next apply would not notice. *)
HalfDoneIsMarked ==
  \A t \in Txns : state[t] \in {"Applying", "RollingBack"} => marker = t

(* Conflicts preserve newer external changes: a step other than the user's *)
(* replaces what the user wrote only where the transaction was previewed   *)
(* from just that.                                                         *)
UserEditsSurvive ==
  [][\A f \in Files :
       /\ disk[f].content.kind = "user"
       /\ disk'[f] # disk[f]
       /\ edits' = edits
       => /\ writer.op = "apply"
          /\ before[writer.txn][f] = disk[f]]_vars

(* The marker goes away with the transaction it marks: whoever holds it    *)
(* while nothing runs can be rolled back (tests expect no active marker    *)
(* after a recovery; nothing else removes active.json).                    *)
MarkerIsRecoverable ==
  writer = Idle /\ marker # NoTxn => state[marker] \in Recoverable
-----------------------------------------------------------------------------
(* The edit as the owner of the files sees it.  While the transaction that *)
(* holds the marker is half done, a file it has replaced counts with the   *)
(* content that its rollback restores.  A file that the user deleted counts*)
(* as deleted, also where the transaction would have deleted it.           *)

HalfDone(t) == t # NoTxn /\ state[t] \in {"Applying", "RollingBack", "Conflicted"}

Tree ==
  [f \in Files |->
     IF /\ HalfDone(marker)
        /\ f \in Touched(marker)
        /\ disk[f] = Proposed(marker, f) /\ f \notin gone
     THEN before[marker][f].content ELSE disk[f].content]

BaseOf ==
  [t \in Txns |-> [f \in Files |->
     IF f \in Captured(t) THEN before[t][f].content ELSE Nothing]]

Atomic == INSTANCE AtomicEdit WITH tree <- Tree, base <- BaseOf

(* Over crashes, failed writes, cancellation and edits by the user, the    *)
(* steps of apply and rollback amount to one atomic Put and one Undo.      *)
ImplementsAtomicEdit == Atomic!Spec
=============================================================================
