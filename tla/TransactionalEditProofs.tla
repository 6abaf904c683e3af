----------------------- MODULE TransactionalEditProofs -----------------------
(***************************************************************************)
(* Theorems about transactional edits, for every set of files and          *)
(* transactions and every number of edits by the user: the marker, the     *)
(* survival of the user's edits, and that apply and rollback implement the *)
(* atomic edit of AtomicEdit over crashes and failures.                    *)
(***************************************************************************)
EXTENDS TransactionalEdit, SequenceProofs, FiniteSetTheorems

(* The lists of files a writer works through; the proofs below know of     *)
(* them only what ListsAreSound says.                                      *)
Lists == Seq(Files)

Partial == UNION {[S -> Image] : S \in SUBSET Files}

Fields ==
  [op : {"idle", "apply", "rollback"}, txn : Txns \cup {NoTxn},
   pc : {"check", "begun", "replace", "recheck", "finish"},
   todo : Lists, restore : SUBSET Files]

FieldTypes ==
  /\ disk \in [Files -> Image]
  /\ state \in [Txns -> TransactionState \cup {"none"}]
  /\ before \in [Txns -> Partial]
  /\ staged \subseteq Txns
  /\ restored \in [Txns -> SUBSET Files]
  /\ marker \in Txns \cup {NoTxn}
  /\ writer \in Fields
  /\ edits \in 0..MaxEdits
  /\ newer \in [Txns -> SUBSET Files]
  /\ gone \subseteq Files

(* A record is there only when every file of its transaction was captured. *)
CaptureIsWhole ==
  \A t \in Txns : /\ Captured(t) \subseteq Touched(t)
                  /\ state[t] # "none" => Captured(t) = Touched(t)

Types == FieldTypes /\ CaptureIsWhole

(* Where a writer is, its record and the marker.                           *)
ApplyIsMarked ==
  writer.op = "apply" =>
    /\ writer.pc = "check" => marker = NoTxn
    /\ writer.pc # "check" => marker = writer.txn
    /\ writer.pc \in {"check", "begun"} => state[writer.txn] = "Previewed"
    /\ writer.pc \in {"replace", "recheck"} => state[writer.txn] = "Applying"
    /\ writer.pc = "finish" => state[writer.txn] = "Applied"

RollbackIsMarked ==
  writer.op = "rollback" =>
    /\ writer.pc = "check" => marker \in {NoTxn, writer.txn}
    /\ writer.pc # "check" => marker = writer.txn
    /\ writer.pc \in {"check", "begun"} => state[writer.txn] \in Recoverable
    /\ writer.pc \in {"replace", "recheck"} => state[writer.txn] = "RollingBack"
    /\ writer.pc = "finish" => state[writer.txn] = "RolledBack"

WriterIsMarked ==
  /\ writer.op = "idle" => writer = Idle
  /\ writer.op # "idle" => /\ writer.txn \in Txns
                           /\ Elements(writer.todo) \subseteq Touched(writer.txn)
  /\ ApplyIsMarked /\ RollbackIsMarked
  /\ marker # NoTxn => state[marker] # "none"
  /\ HalfDoneIsMarked

(* What may be found in a file of a marked transaction: one of its own     *)
(* images, or what the user has put there since.                           *)
Own(t, f) == f \in newer[t] /\ (f \in gone \/ disk[f].content.kind = "user")

Known(t, f) ==
  disk[f] \in {before[t][f], Proposed(t, f), Restored(t, f)} \/ Own(t, f)

Passed(f) == f \in Touched(writer.txn) \ Elements(writer.todo)

FilesAreKnown ==
  /\ marker # NoTxn => \A f \in Touched(marker) : Known(marker, f)
  /\ writer.op # "idle" /\ writer.pc = "check" =>
       \A f \in Files : Passed(f) => Known(writer.txn, f)
  /\ At("apply", "recheck") =>
       \A f \in Files : Passed(f) =>
         disk[f] = Proposed(writer.txn, f) \/ Own(writer.txn, f)
  /\ At("rollback", "recheck") =>
       \A f \in Files : Passed(f) =>
         \/ disk[f] \in {before[writer.txn][f], Restored(writer.txn, f)}
         \/ Own(writer.txn, f)

(* A file the user deleted is missing, and was when a transaction that the *)
(* user has not overtaken captured it.                                     *)
GoneIsMissing ==
  \A f \in gone : /\ disk[f] = Missing
                  /\ \A t \in Txns : f \in Captured(t) \ newer[t] => before[t][f] = Missing

(* A file that a rollback of t has put back is seen by no preview of t.    *)
OwnersAreRecorded ==
  \A t \in Txns : /\ \A f \in Files : disk[f].by = t => state[t] # "none"
                  /\ \A f \in Captured(t) : before[t][f].by # t

IInv == Types /\ WriterIsMarked /\ FilesAreKnown /\ GoneIsMissing /\ OwnersAreRecorded

-----------------------------------------------------------------------------
(* The order of a transaction lists the files it touches.                  *)
LEMMA OrderIsList ==
  ASSUME NEW t \in Txns
  PROVE  /\ Order[t] \in Lists
         /\ Elements(Order[t]) = Touched(t)
         /\ Touched(t) \subseteq Files
  <1>1. Order[t] \in Seq(Files)
    BY EditAssumption
  <1>2. DOMAIN Order[t] = 1..Len(Order[t])
    BY <1>1
  <1>3. Elements(Order[t]) = Touched(t)
    BY <1>2 DEF Elements, Touched, ToSet
  <1>4. Elements(Order[t]) \subseteq Files
    BY <1>1 DEF Elements
  <1> QED  BY <1>1, <1>3, <1>4 DEF Lists

(* A list turned around has the same files.                                *)
LEMMA ReversedList ==
  ASSUME NEW s \in Lists
  PROVE  Reverse(s) \in Lists /\ Elements(Reverse(s)) = Elements(s)
  <1> DEFINE n == Len(s)
  <1>1. n \in Nat /\ s \in [1..n -> Files]
    BY DEF Lists
  <1>2. \A i \in 1..n : n - i + 1 \in 1..n /\ n - (n - i + 1) + 1 = i
    BY <1>1
  <1>3. Reverse(s) = [i \in 1..n |-> s[n - i + 1]]
    BY DEF Reverse
  <1> HIDE DEF n
  <1>4. Reverse(s) \in [1..n -> Files]
    BY <1>1, <1>2, <1>3
  <1>5. Reverse(s) \in Seq(Files) /\ Len(Reverse(s)) = n
    BY <1>1, <1>4
  <1>6. Elements(Reverse(s)) = {Reverse(s)[i] : i \in 1..n}
    BY <1>5 DEF Elements
  <1>7. Elements(s) = {s[i] : i \in 1..n}
    BY DEF Elements, n
  <1>8. \A i \in 1..n : Reverse(s)[i] = s[n - i + 1]
    BY <1>3
  <1>9. \A i \in 1..n : s[i] \in {Reverse(s)[j] : j \in 1..n}
    BY <1>2, <1>8
  <1>10. \A i \in 1..n : Reverse(s)[i] \in {s[j] : j \in 1..n}
    BY <1>2, <1>8
  <1> QED  BY <1>5, <1>6, <1>7, <1>9, <1>10 DEF Lists

(* What the proofs use of the lists: the empty one, the order of a         *)
(* transaction, the part a rollback restores, and the rest of a list.      *)
LEMMA ListsAreSound ==
  ASSUME writer \in Fields
  PROVE  /\ <<>> \in Lists /\ Elements(<<>>) = {}
         /\ \A t \in Txns : /\ Order[t] \in Lists
                            /\ Elements(Order[t]) = Touched(t)
                            /\ Touched(t) \subseteq Files
         /\ \A t \in Txns : /\ Keep(Reverse(Order[t]), writer.restore) \in Lists
                            /\ Elements(Keep(Reverse(Order[t]), writer.restore)) \subseteq Touched(t)
         /\ writer.todo # <<>> =>
              /\ File \in Files
              /\ Tail(writer.todo) \in Lists
              /\ Elements(writer.todo) = {File} \cup Elements(Tail(writer.todo))
  <1>1. <<>> \in Lists /\ Elements(<<>>) = {}
    BY EmptyQueue DEF Lists
  <1>2. ASSUME NEW t \in Txns
        PROVE  /\ Keep(Reverse(Order[t]), writer.restore) \in Lists
               /\ Elements(Keep(Reverse(Order[t]), writer.restore)) \subseteq Touched(t)
    <2>1. Reverse(Order[t]) \in Lists /\ Elements(Reverse(Order[t])) = Touched(t)
      BY OrderIsList, ReversedList
    <2>2. Keep(Reverse(Order[t]), writer.restore) \in Seq(Files)
      BY <2>1, KeepSifts DEF Lists
    <2>3. Elements(Keep(Reverse(Order[t]), writer.restore)) = Touched(t) \cap writer.restore
      BY <2>1, KeepElements DEF Lists
    <2> QED  BY <2>2, <2>3 DEF Lists
  <1>3. writer.todo \in Seq(Files)
    BY DEF Fields, Lists
  <1>4. writer.todo # <<>> =>
          /\ File \in Files
          /\ Tail(writer.todo) \in Lists
          /\ Elements(writer.todo) = {File} \cup Elements(Tail(writer.todo))
    BY <1>3, TakenQueue DEF File, Lists
  <1> QED  BY <1>1, <1>2, <1>4, OrderIsList

(* preview captures a file of the transaction next.                        *)
LEMMA CapturedNext ==
  ASSUME NEW t \in Txns, NEW S \in SUBSET Touched(t), S # Touched(t)
  PROVE  Order[t][Cardinality(S) + 1] \in Touched(t)
  <1> DEFINE n == Len(Order[t])
             T == Touched(t)
  <1>1. n \in Nat /\ Order[t] \in [1..n -> Files] /\ T = {Order[t][i] : i \in 1..n}
    <2>1. Order[t] \in Seq(Files)
      BY EditAssumption
    <2> QED  BY <2>1 DEF Touched, ToSet
  <1> DEFINE g == [i \in 1..n |-> Order[t][i]]
  <1> HIDE DEF n, T
  <1>2. g \in Surjection(1..n, T)
    BY <1>1 DEF Surjection
  <1>3. IsFiniteSet(1..n) /\ Cardinality(1..n) = n
    BY <1>1, FS_Interval
  <1>4. IsFiniteSet(T) /\ Cardinality(T) <= n
    BY <1>2, <1>3, FS_Surjection
  <1>5. Cardinality(S) \in Nat /\ Cardinality(S) < Cardinality(T) /\ Cardinality(T) \in Nat
    BY <1>4, FS_Subset, FS_CardinalityType DEF T
  <1>6. Cardinality(S) + 1 \in 1..n
    BY <1>1, <1>4, <1>5
  <1> QED  BY <1>1, <1>6 DEF T

(* The images a transaction puts into a file.                              *)
LEMMA ImagesAreSound ==
  ASSUME Types, NEW t \in Txns, NEW f \in Files
  PROVE  /\ Missing \in Image
         /\ Proposed(t, f) \in Image
         /\ Proposed(t, f).content = Proposal(t, f)
         /\ Proposed(t, f).content.kind # "user"
         /\ Proposed(t, f).content = Nothing => Proposed(t, f) = Missing
         /\ f \in Captured(t) =>
              /\ before[t][f] \in Image
              /\ Restored(t, f) \in Image
              /\ Restored(t, f).content = before[t][f].content
  <1>1. Nothing \in Contents /\ Proposal(t, f) \in Contents /\ Proposal(t, f).kind # "user"
    BY DEF Nothing, Proposal, Contents
  <1>2. /\ Missing \in Image /\ Proposed(t, f) \in Image /\ Missing.content = Nothing
        /\ Proposed(t, f).content = Proposal(t, f)
        /\ Proposed(t, f).content = Nothing => Proposed(t, f) = Missing
    BY <1>1 DEF Missing, Plain, Proposed, Image
  <1>3. ASSUME f \in Captured(t)
        PROVE  /\ before[t][f] \in Image
               /\ Restored(t, f) \in Image
               /\ Restored(t, f).content = before[t][f].content
    <2>1. before[t][f] \in Image
      BY <1>3 DEF Types, FieldTypes, CaptureIsWhole, Partial, Captured
    <2> QED  BY <1>2, <2>1 DEF Restored, Image
  <1> QED  BY <1>1, <1>2, <1>3

(* What a step of the writer does to its own progress.                     *)
LEMMA StepFields ==
  ASSUME writer \in Fields, writer.todo # <<>>, Step
  PROVE  /\ writer' \in Fields
         /\ writer'.op = writer.op /\ writer'.txn = writer.txn /\ writer'.pc = writer.pc
         /\ writer'.todo = Tail(writer.todo) /\ writer'.restore = writer.restore
  <1>1. Tail(writer.todo) \in Lists
    BY ListsAreSound
  <1> QED  BY <1>1 DEF Step, Fields

(* The writer moves to another phase with another list.                    *)
LEMMA GotoFields ==
  ASSUME writer \in Fields, NEW pc \in {"begun", "replace", "recheck", "finish"},
         NEW todo \in Lists, Goto(pc, todo)
  PROVE  /\ writer' \in Fields
         /\ writer'.op = writer.op /\ writer'.txn = writer.txn /\ writer'.pc = pc
         /\ writer'.todo = todo /\ writer'.restore = writer.restore
  BY DEF Goto, Fields

(* A writer that starts has the whole transaction before it.               *)
LEMMA StartedFields ==
  ASSUME writer \in Fields, NEW op \in {"apply", "rollback"}, NEW t \in Txns, Started(op, t)
  PROVE  /\ writer' \in Fields
         /\ writer'.op = op /\ writer'.txn = t /\ writer'.pc = "check"
         /\ writer'.todo = Order[t] /\ writer'.restore = {}
  BY OrderIsList DEF Started, Fields

(* The idle writer holds nothing.                                          *)
LEMMA IdleFields ==
  ASSUME writer \in Fields
  PROVE  /\ Idle \in Fields
         /\ Idle.op = "idle" /\ Idle.txn = NoTxn /\ Idle.pc = "check" /\ Idle.todo = <<>>
  BY ListsAreSound DEF Idle, Fields

(* An inspected file is either set aside to be restored or passed.         *)
LEMMA InspectFields ==
  ASSUME writer \in Fields, Inspect, ~Conflict
  PROVE  /\ writer' \in Fields
         /\ writer'.op = writer.op /\ writer'.txn = writer.txn /\ writer'.pc = writer.pc
         /\ writer'.todo = Tail(writer.todo)
  <1>1. PICK r \in SUBSET Files :
          writer' = [writer EXCEPT !.todo = Tail(writer.todo), !.restore = r]
    <2> DEFINE t == writer.txn
               u == disk[File] = before[t][File] \/ IsRestored(t, File)
               r == IF u THEN writer.restore ELSE writer.restore \cup {File}
    <2>1. File \in Files
      BY ListsAreSound DEF Inspect, Working
    <2>2. writer.restore \in SUBSET Files /\ writer.restore \cup {File} \in SUBSET Files
      BY <2>1 DEF Fields
    <2>3. r \in SUBSET Files
      BY <2>2
    <2>4. writer' = [writer EXCEPT !.todo = Tail(writer.todo), !.restore = r]
      BY DEF Inspect
    <2> HIDE DEF r
    <2> QED  BY <2>3, <2>4
  <1>2. Tail(writer.todo) \in Lists
    BY ListsAreSound DEF Inspect, Working
  <1> QED  BY <1>1, <1>2 DEF Fields

(* What a writer works for was captured whole.                             *)
LEMMA WriterIsWhole ==
  ASSUME IInv, writer.op # "idle"
  PROVE  writer.txn \in Txns /\ Captured(writer.txn) = Touched(writer.txn)
  <1>1. writer.txn \in Txns /\ writer.op \in {"apply", "rollback"}
        /\ writer.pc \in {"check", "begun", "replace", "recheck", "finish"}
    BY DEF IInv, Types, FieldTypes, Fields, WriterIsMarked
  <1>2. state[writer.txn] # "none"
    BY <1>1 DEF IInv, WriterIsMarked, ApplyIsMarked, RollbackIsMarked, Recoverable
  <1> QED  BY <1>1, <1>2 DEF IInv, Types, CaptureIsWhole

(* A conflict is recorded, the marker and the files stay.                  *)
LEMMA ConflictKept ==
  ASSUME IInv, writer.op # "idle", Conflict
  PROVE  IInv'
  <1>1. writer.txn \in Txns /\ writer \in Fields
    BY DEF IInv, Types, FieldTypes, CaptureIsWhole, WriterIsMarked
  <1>2. /\ writer' \in Fields /\ writer' = Idle
        /\ writer'.op = "idle" /\ writer'.todo = <<>>
    BY <1>1, IdleFields DEF Conflict
  <1>3. /\ state' = [state EXCEPT ![writer.txn] = "Conflicted"]
        /\ UNCHANGED <<disk, before, staged, restored, marker, edits, newer, gone>>
    BY DEF Conflict, SetState, user
  <1>4. Types'
    <2>1. FieldTypes'
      BY <1>1, <1>2, <1>3 DEF IInv, Types, FieldTypes, TransactionState
    <2>2. state[writer.txn] # "none"
      BY <1>1 DEF IInv, Types, FieldTypes, Fields, WriterIsMarked, ApplyIsMarked,
         RollbackIsMarked, Recoverable
    <2>3. CaptureIsWhole'
      BY <1>1, <1>3, <2>2 DEF IInv, Types, FieldTypes, CaptureIsWhole, Captured
    <2> QED  BY <2>1, <2>3 DEF Types, FieldTypes, CaptureIsWhole
  <1>5. WriterIsMarked'
    BY <1>1, <1>2, <1>3, EditAssumption DEF IInv, Types, FieldTypes, CaptureIsWhole,
       WriterIsMarked, ApplyIsMarked, RollbackIsMarked, HalfDoneIsMarked
  <1>6. FilesAreKnown'
    BY <1>2, <1>3 DEF IInv, FilesAreKnown, Known, Own, Restored, At
  <1>7. GoneIsMissing'
    BY <1>3 DEF IInv, GoneIsMissing, Captured
  <1>8. OwnersAreRecorded'
    BY <1>1, <1>3 DEF IInv, Types, FieldTypes, OwnersAreRecorded, Captured
  <1> QED  BY <1>4, <1>5, <1>6, <1>7, <1>8 DEF IInv

(* Every step keeps the variables of their kind. *)
LEMMA TypesKept ==
  ASSUME IInv, [Next]_vars
  PROVE  Types'
  <1> USE EditAssumption
  <1>a. Types /\ writer \in Fields
    BY DEF IInv, Types, FieldTypes, CaptureIsWhole
  <1>b. /\ <<>> \in Lists /\ Elements(<<>>) = {}
        /\ \A t \in Txns : /\ Order[t] \in Lists
                           /\ Elements(Order[t]) = Touched(t)
                           /\ Touched(t) \subseteq Files
        /\ \A t \in Txns : /\ Keep(Reverse(Order[t]), writer.restore) \in Lists
                           /\ Elements(Keep(Reverse(Order[t]), writer.restore)) \subseteq Touched(t)
        /\ writer.todo # <<>> =>
             /\ File \in Files
             /\ Tail(writer.todo) \in Lists
             /\ Elements(writer.todo) = {File} \cup Elements(Tail(writer.todo))
    BY <1>a, ListsAreSound
  <1>c. /\ Idle \in Fields
        /\ Idle.op = "idle" /\ Idle.txn = NoTxn /\ Idle.pc = "check" /\ Idle.todo = <<>>
    BY <1>a, IdleFields
  <1>d. writer.txn \in Txns \cup {NoTxn} /\ writer.restore \in SUBSET Files
    BY <1>a DEF Fields
  <1>1. ASSUME NEW t \in Txns, Capture(t)  PROVE Types'
    <2> DEFINE f == Order[t][Cardinality(Captured(t)) + 1]
               b == [g \in Captured(t) \cup {f} |-> IF g = f THEN disk[f] ELSE before[t][g]]
    <2>1. f \in Touched(t) /\ f \in Files
      BY <1>a, <1>b, <1>1, CapturedNext DEF Capture, Types, CaptureIsWhole
    <2>2. /\ before' = [before EXCEPT ![t] = b]
          /\ newer' = [newer EXCEPT ![t] = @ \ {f}]
          /\ UNCHANGED <<disk, state, staged, restored, marker, writer, edits, gone>>
          /\ state[t] = "none"
      BY <1>1 DEF Capture
    <2>3. b \in Partial /\ DOMAIN b = Captured(t) \cup {f}
      <3>1. PICK S \in SUBSET Files : before[t] \in [S -> Image]
        BY <1>a, <1>1 DEF Types, FieldTypes, Partial
      <3>2. Captured(t) = S /\ S \cup {f} \in SUBSET Files
        BY <2>1, <3>1 DEF Captured
      <3>3. b \in [S \cup {f} -> Image]
        BY <1>a, <2>1, <3>1, <3>2 DEF Types, FieldTypes
      <3>4. b \in Partial
        BY <3>2, <3>3 DEF Partial
      <3> QED  BY <3>4
    <2> HIDE DEF b, f
    <2>4. FieldTypes'
      BY <1>a, <2>2, <2>3 DEF Types, FieldTypes
    <2>5. CaptureIsWhole'
      BY <1>a, <1>b, <2>1, <2>2, <2>3 DEF Types, FieldTypes, CaptureIsWhole, Captured
    <2> QED  BY <2>4, <2>5 DEF Types, FieldTypes, CaptureIsWhole
  <1>2. ASSUME NEW t \in Txns, SavePreview(t)  PROVE Types'
    BY <1>a, <1>b, <1>c, <1>2 DEF IInv, Types, FieldTypes, CaptureIsWhole, Captured,
       TransactionState, Recoverable, SavePreview, SetState, user
  <1>3. ASSUME NEW t \in Txns, StartApply(t)  PROVE Types'
    <2>1. /\ writer' \in Fields
          /\ writer'.op = "apply" /\ writer'.txn = t /\ writer'.pc = "check"
          /\ writer'.todo = Order[t]
      BY <1>a, <1>b, <1>c, <1>3, StartedFields DEF StartApply, IInv
    <2> QED  BY <1>a, <1>b, <1>c, <1>3, <2>1 DEF IInv, Types, FieldTypes,
       CaptureIsWhole, Captured, TransactionState, Recoverable, StartApply, records,
       user
  <1>4. CASE CheckSource
    <2>1. CASE Conflict
      BY <2>1, <1>4, ConflictKept DEF CheckSource, Working, At, IInv
    <2>2. CASE ~Conflict
      <3>1. /\ writer' \in Fields
            /\ writer'.op = writer.op /\ writer'.txn = writer.txn /\ writer'.pc = writer.pc
            /\ writer'.todo = Tail(writer.todo)
        BY <1>a, <1>b, <1>4, <2>2, StepFields DEF CheckSource, Working, At
      <3> QED  BY <1>a, <1>b, <1>c, <1>4, <2>2, <3>1 DEF IInv, Types, FieldTypes,
         CaptureIsWhole, Captured, TransactionState, Recoverable, CheckSource,
         Working, At, records, user
    <2> QED  BY <2>1, <2>2
  <1>5. CASE BeginApply
    <2>1. /\ writer' \in Fields
          /\ writer'.op = "apply" /\ writer'.txn = writer.txn /\ writer'.pc = "begun"
          /\ writer'.todo = <<>>
      BY <1>a, <1>b, <1>c, <1>5, GotoFields DEF BeginApply, Done, At, IInv
    <2>8. FieldTypes'
      BY <1>a, <1>b, <1>d, <1>5, <2>1, ImagesAreSound DEF IInv, Types, FieldTypes,
         CaptureIsWhole, TransactionState, Recoverable, BeginApply, Done, At, records,
         user
    <2>9. CaptureIsWhole'
      BY <1>a, <1>b, <1>5, <2>1, SMT DEF IInv, Types, FieldTypes, CaptureIsWhole,
         Captured, WriterIsMarked, ApplyIsMarked, RollbackIsMarked, Recoverable,
         Fields, BeginApply, Done, At, records, user
    <2> QED  BY <2>8, <2>9 DEF Types, FieldTypes, CaptureIsWhole
  <1>6. CASE SaveApplying
    <2>1. /\ writer' \in Fields
          /\ writer'.op = "apply" /\ writer'.txn = writer.txn /\ writer'.pc = "replace"
          /\ writer'.todo = Order[writer.txn]
      BY <1>a, <1>b, <1>c, <1>6, GotoFields DEF SaveApplying, At, WriterIsMarked, IInv
    <2>8. FieldTypes'
      BY <1>a, <1>b, <1>d, <1>6, <2>1, ImagesAreSound DEF IInv, Types, FieldTypes,
         CaptureIsWhole, TransactionState, Recoverable, SaveApplying, At, SetState,
         user, WriterIsMarked
    <2>9. CaptureIsWhole'
      BY <1>a, <1>b, <1>6, <2>1, SMT DEF IInv, Types, FieldTypes, CaptureIsWhole,
         Captured, WriterIsMarked, ApplyIsMarked, RollbackIsMarked, Recoverable,
         Fields, SaveApplying, At, SetState, user
    <2> QED  BY <2>8, <2>9 DEF Types, FieldTypes, CaptureIsWhole
  <1>7. CASE Replace
    <2>1. /\ writer' \in Fields
          /\ writer'.op = writer.op /\ writer'.txn = writer.txn /\ writer'.pc = writer.pc
          /\ writer'.todo = Tail(writer.todo)
      BY <1>a, <1>b, <1>c, <1>7, StepFields DEF Replace, Working, IInv
    <2> QED  BY <1>a, <1>b, <1>c, <1>7, <2>1, ImagesAreSound DEF IInv, Types,
       FieldTypes, CaptureIsWhole, Captured, TransactionState, Recoverable,
       WriterIsMarked, Replace, Working, At, records
  <1>8. CASE ReplaceFails
    <2>1. /\ writer' \in Fields
          /\ writer'.op = "rollback" /\ writer'.txn = writer.txn /\ writer'.pc = "check"
          /\ writer'.todo = Order[writer.txn]
      BY <1>a, <1>b, <1>c, <1>8, StartedFields DEF ReplaceFails, Working, At,
         WriterIsMarked, IInv
    <2> QED  BY <1>a, <1>b, <1>c, <1>8, <2>1 DEF IInv, Types, FieldTypes,
       CaptureIsWhole, Captured, TransactionState, Recoverable, ReplaceFails, Working,
       At, records, user
  <1>9. CASE Recheck
    <2>1. /\ writer' \in Fields
          /\ writer'.op = "apply" /\ writer'.txn = writer.txn /\ writer'.pc = "recheck"
          /\ writer'.todo = Order[writer.txn]
      BY <1>a, <1>b, <1>c, <1>9, GotoFields DEF Recheck, Done, At, WriterIsMarked,
         IInv
    <2> QED  BY <1>a, <1>b, <1>c, <1>9, <2>1 DEF IInv, Types, FieldTypes,
       CaptureIsWhole, Captured, TransactionState, Recoverable, Recheck, Done, At,
       records, user
  <1>10. CASE RecheckSource
    <2>1. CASE Conflict
      BY <2>1, <1>10, ConflictKept DEF RecheckSource, Working, At, IInv
    <2>2. CASE ~Conflict
      <3>1. /\ writer' \in Fields
            /\ writer'.op = writer.op /\ writer'.txn = writer.txn /\ writer'.pc = writer.pc
            /\ writer'.todo = Tail(writer.todo)
        BY <1>a, <1>b, <1>10, <2>2, StepFields DEF RecheckSource, Working, At
      <3> QED  BY <1>a, <1>b, <1>c, <1>10, <2>2, <3>1 DEF IInv, Types, FieldTypes,
         CaptureIsWhole, Captured, TransactionState, Recoverable, RecheckSource,
         Working, At, records, user
    <2> QED  BY <2>1, <2>2
  <1>11. CASE SaveApplied
    <2>1. /\ writer' \in Fields
          /\ writer'.op = "apply" /\ writer'.txn = writer.txn /\ writer'.pc = "finish"
          /\ writer'.todo = <<>>
      BY <1>a, <1>b, <1>c, <1>11, GotoFields DEF SaveApplied, Done, At, IInv
    <2>8. FieldTypes'
      BY <1>a, <1>b, <1>d, <1>11, <2>1, ImagesAreSound DEF IInv, Types, FieldTypes,
         CaptureIsWhole, TransactionState, Recoverable, SaveApplied, Done, At,
         SetState, user
    <2>9. CaptureIsWhole'
      BY <1>a, <1>b, <1>11, <2>1, SMT DEF IInv, Types, FieldTypes, CaptureIsWhole,
         Captured, WriterIsMarked, ApplyIsMarked, RollbackIsMarked, Recoverable,
         Fields, SaveApplied, Done, At, SetState, user
    <2> QED  BY <2>8, <2>9 DEF Types, FieldTypes, CaptureIsWhole
  <1>12. ASSUME NEW t \in Txns, StartRollback(t)  PROVE Types'
    <2>1. /\ writer' \in Fields
          /\ writer'.op = "rollback" /\ writer'.txn = t /\ writer'.pc = "check"
          /\ writer'.todo = Order[t]
      BY <1>a, <1>b, <1>c, <1>12, StartedFields DEF StartRollback, IInv
    <2> QED  BY <1>a, <1>b, <1>c, <1>12, <2>1 DEF IInv, Types, FieldTypes,
       CaptureIsWhole, Captured, TransactionState, Recoverable, StartRollback,
       records, user
  <1>13. CASE Inspect
    <2>1. CASE Conflict
      BY <2>1, <1>13, ConflictKept DEF Inspect, Working, At, IInv
    <2>2. CASE ~Conflict
      <3>1. /\ writer' \in Fields
            /\ writer'.op = writer.op /\ writer'.txn = writer.txn /\ writer'.pc = writer.pc
            /\ writer'.todo = Tail(writer.todo)
        BY <1>a, <1>13, <2>2, InspectFields
      <3> QED  BY <1>a, <1>b, <1>c, <1>13, <2>2, <3>1 DEF IInv, Types, FieldTypes,
         CaptureIsWhole, Captured, TransactionState, Recoverable, Inspect, IsRestored,
         Working, At, records, user
    <2> QED  BY <2>1, <2>2
  <1>14. CASE BeginRollback
    <2>1. /\ writer' \in Fields
          /\ writer'.op = "rollback" /\ writer'.txn = writer.txn /\ writer'.pc = "begun"
          /\ writer'.todo = <<>>
      BY <1>a, <1>b, <1>c, <1>14, GotoFields DEF BeginRollback, Done, At, IInv
    <2>8. FieldTypes'
      BY <1>a, <1>b, <1>d, <1>14, <2>1, ImagesAreSound DEF IInv, Types, FieldTypes,
         CaptureIsWhole, TransactionState, Recoverable, BeginRollback, Done, At,
         records, user
    <2>9. CaptureIsWhole'
      BY <1>a, <1>b, <1>14, <2>1, SMT DEF IInv, Types, FieldTypes, CaptureIsWhole,
         Captured, WriterIsMarked, ApplyIsMarked, RollbackIsMarked, Recoverable,
         Fields, BeginRollback, Done, At, records, user
    <2> QED  BY <2>8, <2>9 DEF Types, FieldTypes, CaptureIsWhole
  <1>15. CASE SaveRollingBack
    <2>1. /\ writer' \in Fields
          /\ writer'.op = "rollback" /\ writer'.txn = writer.txn /\ writer'.pc = "replace"
          /\ writer'.todo = Keep(Reverse(Order[writer.txn]), writer.restore)
      BY <1>a, <1>b, <1>c, <1>15, GotoFields DEF SaveRollingBack, At, WriterIsMarked,
         IInv
    <2>8. FieldTypes'
      BY <1>a, <1>b, <1>d, <1>15, <2>1, ImagesAreSound DEF IInv, Types, FieldTypes,
         CaptureIsWhole, TransactionState, Recoverable, SaveRollingBack, At, SetState,
         user
    <2>9. CaptureIsWhole'
      BY <1>a, <1>b, <1>15, <2>1, SMT DEF IInv, Types, FieldTypes, CaptureIsWhole,
         Captured, WriterIsMarked, ApplyIsMarked, RollbackIsMarked, Recoverable,
         Fields, SaveRollingBack, At, SetState, user
    <2> QED  BY <2>8, <2>9 DEF Types, FieldTypes, CaptureIsWhole
  <1>16. CASE Restore
    <2>1. /\ writer' \in Fields
          /\ writer'.op = writer.op /\ writer'.txn = writer.txn /\ writer'.pc = writer.pc
          /\ writer'.todo = Tail(writer.todo)
      BY <1>a, <1>b, <1>c, <1>16, StepFields DEF Restore, Working, IInv
    <2> QED  BY <1>a, <1>b, <1>c, <1>16, <2>1, ImagesAreSound DEF IInv, Types,
       FieldTypes, CaptureIsWhole, Captured, TransactionState, Recoverable,
       WriterIsMarked, ApplyIsMarked, RollbackIsMarked, Restore, Working, At, records
  <1>17. CASE RestoreFails
    BY <1>17, ConflictKept DEF RestoreFails, Working, At, IInv
  <1>18. CASE RecheckRollback
    <2>1. /\ writer' \in Fields
          /\ writer'.op = "rollback" /\ writer'.txn = writer.txn /\ writer'.pc = "recheck"
          /\ writer'.todo = Order[writer.txn]
      BY <1>a, <1>b, <1>c, <1>18, GotoFields DEF RecheckRollback, Done, At,
         WriterIsMarked, IInv
    <2> QED  BY <1>a, <1>b, <1>c, <1>18, <2>1 DEF IInv, Types, FieldTypes,
       CaptureIsWhole, Captured, TransactionState, Recoverable, RecheckRollback, Done,
       At, records, user
  <1>19. CASE RecheckRestored
    <2>1. CASE Conflict
      BY <2>1, <1>19, ConflictKept DEF RecheckRestored, Working, At, IInv
    <2>2. CASE ~Conflict
      <3>1. /\ writer' \in Fields
            /\ writer'.op = writer.op /\ writer'.txn = writer.txn /\ writer'.pc = writer.pc
            /\ writer'.todo = Tail(writer.todo)
        BY <1>a, <1>b, <1>19, <2>2, StepFields DEF RecheckRestored, Working, At
      <3> QED  BY <1>a, <1>b, <1>c, <1>19, <2>2, <3>1 DEF IInv, Types, FieldTypes,
         CaptureIsWhole, Captured, TransactionState, Recoverable, RecheckRestored,
         IsRestored, Working, At, records, user
    <2> QED  BY <2>1, <2>2
  <1>20. CASE SaveRolledBack
    <2>1. /\ writer' \in Fields
          /\ writer'.op = "rollback" /\ writer'.txn = writer.txn /\ writer'.pc = "finish"
          /\ writer'.todo = <<>>
      BY <1>a, <1>b, <1>c, <1>20, GotoFields DEF SaveRolledBack, Done, At, IInv
    <2>8. FieldTypes'
      BY <1>a, <1>b, <1>d, <1>20, <2>1, ImagesAreSound DEF IInv, Types, FieldTypes,
         CaptureIsWhole, TransactionState, Recoverable, SaveRolledBack, Done, At,
         SetState, user
    <2>9. CaptureIsWhole'
      BY <1>a, <1>b, <1>20, <2>1, SMT DEF IInv, Types, FieldTypes, CaptureIsWhole,
         Captured, WriterIsMarked, ApplyIsMarked, RollbackIsMarked, Recoverable,
         Fields, SaveRolledBack, Done, At, SetState, user
    <2> QED  BY <2>8, <2>9 DEF Types, FieldTypes, CaptureIsWhole
  <1>21. CASE Finish
    <2>1. writer' \in Fields /\ writer' = Idle
      BY <1>a, <1>b, <1>c, <1>21, IdleFields DEF Finish, IInv
    <2> QED  BY <1>a, <1>b, <1>c, <1>21, <2>1 DEF IInv, Types, FieldTypes,
       CaptureIsWhole, Captured, TransactionState, Recoverable, Finish, records, user
  <1>22. CASE Crash
    <2>1. writer' \in Fields /\ writer' = Idle
      BY <1>a, <1>b, <1>c, <1>22, IdleFields DEF Crash, IInv
    <2> QED  BY <1>a, <1>b, <1>c, <1>22, <2>1 DEF IInv, Types, FieldTypes,
       CaptureIsWhole, Captured, TransactionState, Recoverable, Crash, records, user
  <1>23. ASSUME NEW f \in Files, UserEdits(f)  PROVE Types'
    <2>1. disk' \in [Files -> Image] /\ gone' \subseteq Files /\ edits' \in 0..MaxEdits
      <3> DEFINE c == [kind |-> "user", txn |-> NoTxn, n |-> edits']
      <3>1. edits' \in 1..MaxEdits
        BY <1>a, <1>23 DEF Types, FieldTypes, UserEdits
      <3>2. c \in Contents
        BY <3>1 DEF Contents
      <3>3. Plain(c) \in Image /\ Missing \in Image
        BY <3>2 DEF Plain, Image, Missing, Contents, Nothing
      <3>4. \/ disk' = [disk EXCEPT ![f] = Plain(c)] /\ gone' = gone \ {f}
            \/ disk' = [disk EXCEPT ![f] = Missing] /\ gone' = gone \cup {f}
        BY <1>23 DEF UserEdits
      <3>5. disk \in [Files -> Image] /\ gone \subseteq Files /\ edits' \in 0..MaxEdits
        BY <1>a, <3>1 DEF Types, FieldTypes
      <3> DEFINE p == Plain(c)
                 I == Image
                 m == Missing
      <3> HIDE DEF c, p, I, m
      <3>6. p \in I /\ m \in I /\ disk \in [Files -> I]
        BY <3>3, <3>5 DEF p, I, m
      <3>7. \/ disk' = [disk EXCEPT ![f] = p] /\ gone' = gone \ {f}
            \/ disk' = [disk EXCEPT ![f] = m] /\ gone' = gone \cup {f}
        BY <3>4 DEF p, m
      <3>8. disk' \in [Files -> I] /\ gone' \subseteq Files
        BY <1>23, <3>5, <3>6, <3>7
      <3> QED  BY <3>5, <3>8 DEF I
    <2>2. newer' \in [Txns -> SUBSET Files]
      BY <1>a, <1>23 DEF Types, FieldTypes, UserEdits
    <2>3. UNCHANGED <<state, before, staged, restored, marker, writer>>
      BY <1>23 DEF UserEdits, records
    <2>4. FieldTypes' /\ CaptureIsWhole'
      BY <1>a, <2>1, <2>2, <2>3 DEF Types, FieldTypes, CaptureIsWhole, Captured
    <2> QED  BY <2>4 DEF Types, FieldTypes, CaptureIsWhole
  <1>24. CASE UNCHANGED vars
    BY <1>a, <1>b, <1>c, <1>24 DEF IInv, Types, FieldTypes, CaptureIsWhole, Captured,
       TransactionState, Recoverable, vars, records, user
  <1> QED  BY <1>1, <1>2, <1>3, <1>4, <1>5, <1>6, <1>7, <1>8, <1>9, <1>10,
     <1>11, <1>12, <1>13, <1>14, <1>15, <1>16, <1>17, <1>18, <1>19, <1>20,
     <1>21, <1>22, <1>23, <1>24 DEF Next, ApplyStep, RollbackStep

(* The marker is published before the record says that files are replaced, and
   taken away after it says that they are no longer. *)
LEMMA WriterIsMarkedKept ==
  ASSUME IInv, [Next]_vars
  PROVE  WriterIsMarked'
  <1> USE EditAssumption
  <1>a. Types /\ writer \in Fields
    BY DEF IInv, Types, FieldTypes, CaptureIsWhole
  <1>b. /\ <<>> \in Lists /\ Elements(<<>>) = {}
        /\ \A t \in Txns : /\ Order[t] \in Lists
                           /\ Elements(Order[t]) = Touched(t)
                           /\ Touched(t) \subseteq Files
        /\ \A t \in Txns : /\ Keep(Reverse(Order[t]), writer.restore) \in Lists
                           /\ Elements(Keep(Reverse(Order[t]), writer.restore)) \subseteq Touched(t)
        /\ writer.todo # <<>> =>
             /\ File \in Files
             /\ Tail(writer.todo) \in Lists
             /\ Elements(writer.todo) = {File} \cup Elements(Tail(writer.todo))
    BY <1>a, ListsAreSound
  <1>c. /\ Idle \in Fields
        /\ Idle.op = "idle" /\ Idle.txn = NoTxn /\ Idle.pc = "check" /\ Idle.todo = <<>>
    BY <1>a, IdleFields
  <1>d. writer.txn \in Txns \cup {NoTxn} /\ writer.restore \in SUBSET Files
    BY <1>a DEF Fields
  <1>1. ASSUME NEW t \in Txns, Capture(t)  PROVE WriterIsMarked'
    BY <1>a, <1>b, <1>c, <1>1 DEF IInv, Types, FieldTypes, CaptureIsWhole,
       WriterIsMarked, ApplyIsMarked, RollbackIsMarked, HalfDoneIsMarked, Recoverable,
       Capture, Captured
  <1>2. ASSUME NEW t \in Txns, SavePreview(t)  PROVE WriterIsMarked'
    BY <1>a, <1>b, <1>c, <1>2 DEF IInv, Types, FieldTypes, CaptureIsWhole,
       WriterIsMarked, ApplyIsMarked, RollbackIsMarked, HalfDoneIsMarked, Recoverable,
       SavePreview, SetState, user
  <1>3. ASSUME NEW t \in Txns, StartApply(t)  PROVE WriterIsMarked'
    <2>1. /\ writer' \in Fields
          /\ writer'.op = "apply" /\ writer'.txn = t /\ writer'.pc = "check"
          /\ writer'.todo = Order[t]
      BY <1>a, <1>b, <1>c, <1>3, StartedFields DEF StartApply, IInv
    <2> QED  BY <1>a, <1>b, <1>c, <1>3, <2>1 DEF IInv, Types, FieldTypes,
       CaptureIsWhole, WriterIsMarked, ApplyIsMarked, RollbackIsMarked,
       HalfDoneIsMarked, Recoverable, StartApply, records, user
  <1>4. CASE CheckSource
    <2>1. CASE Conflict
      BY <2>1, <1>4, ConflictKept DEF CheckSource, Working, At, IInv
    <2>2. CASE ~Conflict
      <3>1. /\ writer' \in Fields
            /\ writer'.op = writer.op /\ writer'.txn = writer.txn /\ writer'.pc = writer.pc
            /\ writer'.todo = Tail(writer.todo)
        BY <1>a, <1>b, <1>4, <2>2, StepFields DEF CheckSource, Working, At
      <3> QED  BY <1>a, <1>b, <1>c, <1>4, <2>2, <3>1 DEF IInv, Types, FieldTypes,
         CaptureIsWhole, WriterIsMarked, ApplyIsMarked, RollbackIsMarked,
         HalfDoneIsMarked, Recoverable, CheckSource, Working, At, records, user
    <2> QED  BY <2>1, <2>2
  <1>5. CASE BeginApply
    <2>1. /\ writer' \in Fields
          /\ writer'.op = "apply" /\ writer'.txn = writer.txn /\ writer'.pc = "begun"
          /\ writer'.todo = <<>>
      BY <1>a, <1>b, <1>c, <1>5, GotoFields DEF BeginApply, Done, At, IInv
    <2> QED  BY <1>a, <1>b, <1>c, <1>5, <2>1 DEF IInv, Types, FieldTypes,
       CaptureIsWhole, WriterIsMarked, ApplyIsMarked, RollbackIsMarked,
       HalfDoneIsMarked, Recoverable, BeginApply, Done, At, records, user
  <1>6. CASE SaveApplying
    <2>1. /\ writer' \in Fields
          /\ writer'.op = "apply" /\ writer'.txn = writer.txn /\ writer'.pc = "replace"
          /\ writer'.todo = Order[writer.txn]
      BY <1>a, <1>b, <1>c, <1>6, GotoFields DEF SaveApplying, At, WriterIsMarked, IInv
    <2> QED  BY <1>a, <1>b, <1>c, <1>6, <2>1 DEF IInv, Types, FieldTypes,
       CaptureIsWhole, WriterIsMarked, ApplyIsMarked, RollbackIsMarked,
       HalfDoneIsMarked, Recoverable, SaveApplying, At, SetState, user
  <1>7. CASE Replace
    <2>1. /\ writer' \in Fields
          /\ writer'.op = writer.op /\ writer'.txn = writer.txn /\ writer'.pc = writer.pc
          /\ writer'.todo = Tail(writer.todo)
      BY <1>a, <1>b, <1>c, <1>7, StepFields DEF Replace, Working, IInv
    <2> QED  BY <1>a, <1>b, <1>c, <1>7, <2>1 DEF IInv, Types, FieldTypes,
       CaptureIsWhole, WriterIsMarked, ApplyIsMarked, RollbackIsMarked,
       HalfDoneIsMarked, Recoverable, Replace, Working, At, records
  <1>8. CASE ReplaceFails
    <2>1. /\ writer' \in Fields
          /\ writer'.op = "rollback" /\ writer'.txn = writer.txn /\ writer'.pc = "check"
          /\ writer'.todo = Order[writer.txn]
      BY <1>a, <1>b, <1>c, <1>8, StartedFields DEF ReplaceFails, Working, At,
         WriterIsMarked, IInv
    <2> QED  BY <1>a, <1>b, <1>c, <1>8, <2>1 DEF IInv, Types, FieldTypes,
       CaptureIsWhole, WriterIsMarked, ApplyIsMarked, RollbackIsMarked,
       HalfDoneIsMarked, Recoverable, ReplaceFails, Working, At, records, user
  <1>9. CASE Recheck
    <2>1. /\ writer' \in Fields
          /\ writer'.op = "apply" /\ writer'.txn = writer.txn /\ writer'.pc = "recheck"
          /\ writer'.todo = Order[writer.txn]
      BY <1>a, <1>b, <1>c, <1>9, GotoFields DEF Recheck, Done, At, WriterIsMarked,
         IInv
    <2> QED  BY <1>a, <1>b, <1>c, <1>9, <2>1 DEF IInv, Types, FieldTypes,
       CaptureIsWhole, WriterIsMarked, ApplyIsMarked, RollbackIsMarked,
       HalfDoneIsMarked, Recoverable, Recheck, Done, At, records, user
  <1>10. CASE RecheckSource
    <2>1. CASE Conflict
      BY <2>1, <1>10, ConflictKept DEF RecheckSource, Working, At, IInv
    <2>2. CASE ~Conflict
      <3>1. /\ writer' \in Fields
            /\ writer'.op = writer.op /\ writer'.txn = writer.txn /\ writer'.pc = writer.pc
            /\ writer'.todo = Tail(writer.todo)
        BY <1>a, <1>b, <1>10, <2>2, StepFields DEF RecheckSource, Working, At
      <3> QED  BY <1>a, <1>b, <1>c, <1>10, <2>2, <3>1 DEF IInv, Types, FieldTypes,
         CaptureIsWhole, WriterIsMarked, ApplyIsMarked, RollbackIsMarked,
         HalfDoneIsMarked, Recoverable, RecheckSource, Working, At, records, user
    <2> QED  BY <2>1, <2>2
  <1>11. CASE SaveApplied
    <2>1. /\ writer' \in Fields
          /\ writer'.op = "apply" /\ writer'.txn = writer.txn /\ writer'.pc = "finish"
          /\ writer'.todo = <<>>
      BY <1>a, <1>b, <1>c, <1>11, GotoFields DEF SaveApplied, Done, At, IInv
    <2> QED  BY <1>a, <1>b, <1>c, <1>11, <2>1 DEF IInv, Types, FieldTypes,
       CaptureIsWhole, WriterIsMarked, ApplyIsMarked, RollbackIsMarked,
       HalfDoneIsMarked, Recoverable, SaveApplied, Done, At, SetState, user
  <1>12. ASSUME NEW t \in Txns, StartRollback(t)  PROVE WriterIsMarked'
    <2>1. /\ writer' \in Fields
          /\ writer'.op = "rollback" /\ writer'.txn = t /\ writer'.pc = "check"
          /\ writer'.todo = Order[t]
      BY <1>a, <1>b, <1>c, <1>12, StartedFields DEF StartRollback, IInv
    <2> QED  BY <1>a, <1>b, <1>c, <1>12, <2>1 DEF IInv, Types, FieldTypes,
       CaptureIsWhole, WriterIsMarked, ApplyIsMarked, RollbackIsMarked,
       HalfDoneIsMarked, Recoverable, StartRollback, records, user
  <1>13. CASE Inspect
    <2>1. CASE Conflict
      BY <2>1, <1>13, ConflictKept DEF Inspect, Working, At, IInv
    <2>2. CASE ~Conflict
      <3>1. /\ writer' \in Fields
            /\ writer'.op = writer.op /\ writer'.txn = writer.txn /\ writer'.pc = writer.pc
            /\ writer'.todo = Tail(writer.todo)
        BY <1>a, <1>13, <2>2, InspectFields
      <3> QED  BY <1>a, <1>b, <1>c, <1>13, <2>2, <3>1 DEF IInv, Types, FieldTypes,
         CaptureIsWhole, WriterIsMarked, ApplyIsMarked, RollbackIsMarked,
         HalfDoneIsMarked, Recoverable, Inspect, IsRestored, Working, At, records,
         user
    <2> QED  BY <2>1, <2>2
  <1>14. CASE BeginRollback
    <2>1. /\ writer' \in Fields
          /\ writer'.op = "rollback" /\ writer'.txn = writer.txn /\ writer'.pc = "begun"
          /\ writer'.todo = <<>>
      BY <1>a, <1>b, <1>c, <1>14, GotoFields DEF BeginRollback, Done, At, IInv
    <2> QED  BY <1>a, <1>b, <1>c, <1>14, <2>1 DEF IInv, Types, FieldTypes,
       CaptureIsWhole, WriterIsMarked, ApplyIsMarked, RollbackIsMarked,
       HalfDoneIsMarked, Recoverable, BeginRollback, Done, At, records, user
  <1>15. CASE SaveRollingBack
    <2>1. /\ writer' \in Fields
          /\ writer'.op = "rollback" /\ writer'.txn = writer.txn /\ writer'.pc = "replace"
          /\ writer'.todo = Keep(Reverse(Order[writer.txn]), writer.restore)
      BY <1>a, <1>b, <1>c, <1>15, GotoFields DEF SaveRollingBack, At, WriterIsMarked,
         IInv
    <2> QED  BY <1>a, <1>b, <1>c, <1>15, <2>1 DEF IInv, Types, FieldTypes,
       CaptureIsWhole, WriterIsMarked, ApplyIsMarked, RollbackIsMarked,
       HalfDoneIsMarked, Recoverable, SaveRollingBack, At, SetState, user
  <1>16. CASE Restore
    <2>1. /\ writer' \in Fields
          /\ writer'.op = writer.op /\ writer'.txn = writer.txn /\ writer'.pc = writer.pc
          /\ writer'.todo = Tail(writer.todo)
      BY <1>a, <1>b, <1>c, <1>16, StepFields DEF Restore, Working, IInv
    <2> QED  BY <1>a, <1>b, <1>c, <1>16, <2>1 DEF IInv, Types, FieldTypes,
       CaptureIsWhole, WriterIsMarked, ApplyIsMarked, RollbackIsMarked,
       HalfDoneIsMarked, Recoverable, Restore, Working, At, records
  <1>17. CASE RestoreFails
    BY <1>17, ConflictKept DEF RestoreFails, Working, At, IInv
  <1>18. CASE RecheckRollback
    <2>1. /\ writer' \in Fields
          /\ writer'.op = "rollback" /\ writer'.txn = writer.txn /\ writer'.pc = "recheck"
          /\ writer'.todo = Order[writer.txn]
      BY <1>a, <1>b, <1>c, <1>18, GotoFields DEF RecheckRollback, Done, At,
         WriterIsMarked, IInv
    <2> QED  BY <1>a, <1>b, <1>c, <1>18, <2>1 DEF IInv, Types, FieldTypes,
       CaptureIsWhole, WriterIsMarked, ApplyIsMarked, RollbackIsMarked,
       HalfDoneIsMarked, Recoverable, RecheckRollback, Done, At, records, user
  <1>19. CASE RecheckRestored
    <2>1. CASE Conflict
      BY <2>1, <1>19, ConflictKept DEF RecheckRestored, Working, At, IInv
    <2>2. CASE ~Conflict
      <3>1. /\ writer' \in Fields
            /\ writer'.op = writer.op /\ writer'.txn = writer.txn /\ writer'.pc = writer.pc
            /\ writer'.todo = Tail(writer.todo)
        BY <1>a, <1>b, <1>19, <2>2, StepFields DEF RecheckRestored, Working, At
      <3> QED  BY <1>a, <1>b, <1>c, <1>19, <2>2, <3>1 DEF IInv, Types, FieldTypes,
         CaptureIsWhole, WriterIsMarked, ApplyIsMarked, RollbackIsMarked,
         HalfDoneIsMarked, Recoverable, RecheckRestored, IsRestored, Working, At,
         records, user
    <2> QED  BY <2>1, <2>2
  <1>20. CASE SaveRolledBack
    <2>1. /\ writer' \in Fields
          /\ writer'.op = "rollback" /\ writer'.txn = writer.txn /\ writer'.pc = "finish"
          /\ writer'.todo = <<>>
      BY <1>a, <1>b, <1>c, <1>20, GotoFields DEF SaveRolledBack, Done, At, IInv
    <2> QED  BY <1>a, <1>b, <1>c, <1>20, <2>1 DEF IInv, Types, FieldTypes,
       CaptureIsWhole, WriterIsMarked, ApplyIsMarked, RollbackIsMarked,
       HalfDoneIsMarked, Recoverable, SaveRolledBack, Done, At, SetState, user
  <1>21. CASE Finish
    <2>1. writer' = Idle /\ writer.pc = "finish" /\ state' = state
          /\ marker' = IF marker = writer.txn THEN NoTxn ELSE marker
      BY <1>21 DEF Finish, records
    <2>2. writer.op \in {"apply", "rollback"}
      BY <1>a, <1>c, <2>1 DEF IInv, WriterIsMarked, Fields
    <2>3. marker = writer.txn /\ writer.txn \in Txns /\ state[writer.txn] \in {"Applied", "RolledBack"}
      BY <2>1, <2>2 DEF IInv, WriterIsMarked, ApplyIsMarked, RollbackIsMarked
    <2>4. marker' = NoTxn
      BY <2>1, <2>3
    <2>5. \A t \in Txns : state[t] \notin {"Applying", "RollingBack"}
      BY <2>3 DEF IInv, WriterIsMarked, HalfDoneIsMarked
    <2> QED  BY <1>c, <2>1, <2>4, <2>5 DEF WriterIsMarked, ApplyIsMarked,
       RollbackIsMarked, HalfDoneIsMarked
  <1>22. CASE Crash
    <2>1. writer' \in Fields /\ writer' = Idle
      BY <1>a, <1>b, <1>c, <1>22, IdleFields DEF Crash, IInv
    <2> QED  BY <1>a, <1>b, <1>c, <1>22, <2>1 DEF IInv, Types, FieldTypes,
       CaptureIsWhole, WriterIsMarked, ApplyIsMarked, RollbackIsMarked,
       HalfDoneIsMarked, Recoverable, Crash, records, user
  <1>23. ASSUME NEW f \in Files, UserEdits(f)  PROVE WriterIsMarked'
    BY <1>a, <1>b, <1>c, <1>23 DEF IInv, Types, FieldTypes, CaptureIsWhole,
       WriterIsMarked, ApplyIsMarked, RollbackIsMarked, HalfDoneIsMarked, Recoverable,
       UserEdits, records
  <1>24. CASE UNCHANGED vars
    BY <1>a, <1>b, <1>c, <1>24 DEF IInv, Types, FieldTypes, CaptureIsWhole,
       WriterIsMarked, ApplyIsMarked, RollbackIsMarked, HalfDoneIsMarked, Recoverable,
       vars, records, user
  <1> QED  BY <1>1, <1>2, <1>3, <1>4, <1>5, <1>6, <1>7, <1>8, <1>9, <1>10,
     <1>11, <1>12, <1>13, <1>14, <1>15, <1>16, <1>17, <1>18, <1>19, <1>20,
     <1>21, <1>22, <1>23, <1>24 DEF Next, ApplyStep, RollbackStep

(* Between the check of its files and the end of its transaction only the
   writer and the user change them. *)
LEMMA FilesAreKnownKept ==
  ASSUME IInv, [Next]_vars
  PROVE  FilesAreKnown'
  <1> USE EditAssumption
  <1>a. Types /\ writer \in Fields
    BY DEF IInv, Types, FieldTypes, CaptureIsWhole
  <1>b. /\ <<>> \in Lists /\ Elements(<<>>) = {}
        /\ \A t \in Txns : /\ Order[t] \in Lists
                           /\ Elements(Order[t]) = Touched(t)
                           /\ Touched(t) \subseteq Files
        /\ \A t \in Txns : /\ Keep(Reverse(Order[t]), writer.restore) \in Lists
                           /\ Elements(Keep(Reverse(Order[t]), writer.restore)) \subseteq Touched(t)
        /\ writer.todo # <<>> =>
             /\ File \in Files
             /\ Tail(writer.todo) \in Lists
             /\ Elements(writer.todo) = {File} \cup Elements(Tail(writer.todo))
    BY <1>a, ListsAreSound
  <1>c. /\ Idle \in Fields
        /\ Idle.op = "idle" /\ Idle.txn = NoTxn /\ Idle.pc = "check" /\ Idle.todo = <<>>
    BY <1>a, IdleFields
  <1>d. writer.txn \in Txns \cup {NoTxn} /\ writer.restore \in SUBSET Files
    BY <1>a DEF Fields
  <1>1. ASSUME NEW t \in Txns, Capture(t)  PROVE FilesAreKnown'
    <2>1. state[t] = "none" /\ UNCHANGED <<disk, state, marker, writer, gone>>
      BY <1>1 DEF Capture
    <2>2. \A u \in Txns : u # t => before'[u] = before[u] /\ newer'[u] = newer[u]
      BY <1>a, <1>1 DEF Capture, Types, FieldTypes
    <2>3. marker # t /\ (writer.op # "idle" => writer.txn # t /\ writer.txn \in Txns)
      BY <1>a, <2>1 DEF IInv, Types, FieldTypes, Fields, WriterIsMarked,
         ApplyIsMarked, RollbackIsMarked, Recoverable
    <2>4. marker \in Txns \cup {NoTxn}
      BY <1>a DEF Types, FieldTypes
    <2>5. \A u \in Txns, f \in Files : u # t /\ Known(u, f) => Known(u, f)'
      BY <2>1, <2>2 DEF Known, Own, Restored
    <2>6. \A u \in Txns, f \in Files : u # t => Restored(u, f)' = Restored(u, f)
      BY <2>2 DEF Restored
    <2>7. \A u \in Txns, f \in Files : u # t => Own(u, f)' = Own(u, f)
      BY <2>1, <2>2 DEF Own
    <2> QED  BY <1>b, <2>1, <2>2, <2>3, <2>4, <2>5, <2>6, <2>7 DEF IInv,
       FilesAreKnown, Passed, At, Proposed
  <1>2. ASSUME NEW t \in Txns, SavePreview(t)  PROVE FilesAreKnown'
    BY <1>a, <1>b, <1>c, <1>2 DEF IInv, Types, FieldTypes, CaptureIsWhole,
       FilesAreKnown, Known, Own, Passed, At, Restored, Proposed, WriterIsMarked,
       ApplyIsMarked, RollbackIsMarked, SavePreview, SetState, user
  <1>3. ASSUME NEW t \in Txns, StartApply(t)  PROVE FilesAreKnown'
    <2>1. /\ writer' \in Fields
          /\ writer'.op = "apply" /\ writer'.txn = t /\ writer'.pc = "check"
          /\ writer'.todo = Order[t]
      BY <1>a, <1>b, <1>c, <1>3, StartedFields DEF StartApply, IInv
    <2> QED  BY <1>a, <1>b, <1>c, <1>3, <2>1 DEF IInv, Types, FieldTypes,
       CaptureIsWhole, FilesAreKnown, Known, Own, Passed, At, Restored, Proposed,
       WriterIsMarked, ApplyIsMarked, RollbackIsMarked, StartApply, records, user
  <1>4. CASE CheckSource
    <2>1. CASE Conflict
      BY <2>1, <1>4, ConflictKept DEF CheckSource, Working, At, IInv
    <2>2. CASE ~Conflict
      <3>1. /\ writer' \in Fields
            /\ writer'.op = writer.op /\ writer'.txn = writer.txn /\ writer'.pc = writer.pc
            /\ writer'.todo = Tail(writer.todo)
        BY <1>a, <1>b, <1>4, <2>2, StepFields DEF CheckSource, Working, At
      <3> QED  BY <1>a, <1>b, <1>c, <1>4, <2>2, <3>1 DEF IInv, Types, FieldTypes,
         CaptureIsWhole, FilesAreKnown, Known, Own, Passed, At, Restored, Proposed,
         WriterIsMarked, ApplyIsMarked, RollbackIsMarked, CheckSource, Working,
         records, user
    <2> QED  BY <2>1, <2>2
  <1>5. CASE BeginApply
    <2>1. /\ writer' \in Fields
          /\ writer'.op = "apply" /\ writer'.txn = writer.txn /\ writer'.pc = "begun"
          /\ writer'.todo = <<>>
      BY <1>a, <1>b, <1>c, <1>5, GotoFields DEF BeginApply, Done, At, IInv
    <2> QED  BY <1>a, <1>b, <1>c, <1>5, <2>1 DEF IInv, Types, FieldTypes,
       CaptureIsWhole, FilesAreKnown, Known, Own, Passed, At, Restored, Proposed,
       WriterIsMarked, ApplyIsMarked, RollbackIsMarked, BeginApply, Done, records,
       user
  <1>6. CASE SaveApplying
    <2>1. /\ writer' \in Fields
          /\ writer'.op = "apply" /\ writer'.txn = writer.txn /\ writer'.pc = "replace"
          /\ writer'.todo = Order[writer.txn]
      BY <1>a, <1>b, <1>c, <1>6, GotoFields DEF SaveApplying, At, WriterIsMarked, IInv
    <2> QED  BY <1>a, <1>b, <1>c, <1>6, <2>1 DEF IInv, Types, FieldTypes,
       CaptureIsWhole, FilesAreKnown, Known, Own, Passed, At, Restored, Proposed,
       WriterIsMarked, ApplyIsMarked, RollbackIsMarked, SaveApplying, SetState, user
  <1>7. CASE Replace
    <2>1. /\ writer' \in Fields
          /\ writer'.op = writer.op /\ writer'.txn = writer.txn /\ writer'.pc = writer.pc
          /\ writer'.todo = Tail(writer.todo)
      BY <1>a, <1>b, <1>c, <1>7, StepFields DEF Replace, Working, IInv
    <2> QED  BY <1>a, <1>b, <1>c, <1>7, <2>1 DEF IInv, Types, FieldTypes,
       CaptureIsWhole, FilesAreKnown, Known, Own, Passed, At, Restored, Proposed,
       WriterIsMarked, ApplyIsMarked, RollbackIsMarked, Replace, Working, records
  <1>8. CASE ReplaceFails
    <2>1. /\ writer' \in Fields
          /\ writer'.op = "rollback" /\ writer'.txn = writer.txn /\ writer'.pc = "check"
          /\ writer'.todo = Order[writer.txn]
      BY <1>a, <1>b, <1>c, <1>8, StartedFields DEF ReplaceFails, Working, At,
         WriterIsMarked, IInv
    <2> QED  BY <1>a, <1>b, <1>c, <1>8, <2>1 DEF IInv, Types, FieldTypes,
       CaptureIsWhole, FilesAreKnown, Known, Own, Passed, At, Restored, Proposed,
       WriterIsMarked, ApplyIsMarked, RollbackIsMarked, ReplaceFails, Working,
       records, user
  <1>9. CASE Recheck
    <2>1. /\ writer' \in Fields
          /\ writer'.op = "apply" /\ writer'.txn = writer.txn /\ writer'.pc = "recheck"
          /\ writer'.todo = Order[writer.txn]
      BY <1>a, <1>b, <1>c, <1>9, GotoFields DEF Recheck, Done, At, WriterIsMarked,
         IInv
    <2> QED  BY <1>a, <1>b, <1>c, <1>9, <2>1 DEF IInv, Types, FieldTypes,
       CaptureIsWhole, FilesAreKnown, Known, Own, Passed, At, Restored, Proposed,
       WriterIsMarked, ApplyIsMarked, RollbackIsMarked, Recheck, Done, records, user
  <1>10. CASE RecheckSource
    <2>1. CASE Conflict
      BY <2>1, <1>10, ConflictKept DEF RecheckSource, Working, At, IInv
    <2>2. CASE ~Conflict
      <3>1. /\ writer' \in Fields
            /\ writer'.op = writer.op /\ writer'.txn = writer.txn /\ writer'.pc = writer.pc
            /\ writer'.todo = Tail(writer.todo)
        BY <1>a, <1>b, <1>10, <2>2, StepFields DEF RecheckSource, Working, At
      <3> QED  BY <1>a, <1>b, <1>c, <1>10, <2>2, <3>1 DEF IInv, Types, FieldTypes,
         CaptureIsWhole, FilesAreKnown, Known, Own, Passed, At, Restored, Proposed,
         WriterIsMarked, ApplyIsMarked, RollbackIsMarked, RecheckSource, Working,
         records, user
    <2> QED  BY <2>1, <2>2
  <1>11. CASE SaveApplied
    <2>1. /\ writer' \in Fields
          /\ writer'.op = "apply" /\ writer'.txn = writer.txn /\ writer'.pc = "finish"
          /\ writer'.todo = <<>>
      BY <1>a, <1>b, <1>c, <1>11, GotoFields DEF SaveApplied, Done, At, IInv
    <2> QED  BY <1>a, <1>b, <1>c, <1>11, <2>1 DEF IInv, Types, FieldTypes,
       CaptureIsWhole, FilesAreKnown, Known, Own, Passed, At, Restored, Proposed,
       WriterIsMarked, ApplyIsMarked, RollbackIsMarked, SaveApplied, Done, SetState,
       user
  <1>12. ASSUME NEW t \in Txns, StartRollback(t)  PROVE FilesAreKnown'
    <2>1. /\ writer' \in Fields
          /\ writer'.op = "rollback" /\ writer'.txn = t /\ writer'.pc = "check"
          /\ writer'.todo = Order[t]
      BY <1>a, <1>b, <1>c, <1>12, StartedFields DEF StartRollback, IInv
    <2> QED  BY <1>a, <1>b, <1>c, <1>12, <2>1 DEF IInv, Types, FieldTypes,
       CaptureIsWhole, FilesAreKnown, Known, Own, Passed, At, Restored, Proposed,
       WriterIsMarked, ApplyIsMarked, RollbackIsMarked, StartRollback, records, user
  <1>13. CASE Inspect
    <2>1. CASE Conflict
      BY <2>1, <1>13, ConflictKept DEF Inspect, Working, At, IInv
    <2>2. CASE ~Conflict
      <3>1. /\ writer'.op = writer.op /\ writer'.txn = writer.txn /\ writer'.pc = writer.pc
            /\ writer'.todo = Tail(writer.todo)
        BY <1>a, <1>13, <2>2, InspectFields
      <3>2. writer.op = "rollback" /\ writer.pc = "check" /\ writer.todo # <<>>
            /\ UNCHANGED <<disk, before, marker, newer, gone>>
        BY <1>13, <2>2 DEF Inspect, Working, At, records, user
      <3>3. Known(writer.txn, File)
        BY <1>13, <2>2 DEF Inspect, IsRestored, IsOwned, Known
      <3>4. \A u \in Txns, f \in Files : Known(u, f)' = Known(u, f)
        BY <3>2 DEF Known, Own, Restored
      <3>5. writer.txn \in Txns
        BY <3>2 DEF IInv, WriterIsMarked
      <3>6. \A f \in Files : Passed(f)' => Passed(f) \/ f = File
        BY <1>b, <3>1, <3>2 DEF Passed
      <3>7. ASSUME marker' # NoTxn, NEW f \in Touched(marker')  PROVE Known(marker, f)'
        BY <1>a, <1>b, <3>2, <3>4, <3>7 DEF IInv, FilesAreKnown, Types, FieldTypes
      <3>8. \A f \in Files : Passed(f)' => Known(writer.txn, f)'
        BY <3>1, <3>2, <3>3, <3>4, <3>5, <3>6 DEF IInv, FilesAreKnown
      <3> QED  BY <3>1, <3>2, <3>7, <3>8 DEF FilesAreKnown, At
    <2> QED  BY <2>1, <2>2
  <1>14. CASE BeginRollback
    <2>1. /\ writer' \in Fields
          /\ writer'.op = "rollback" /\ writer'.txn = writer.txn /\ writer'.pc = "begun"
          /\ writer'.todo = <<>>
      BY <1>a, <1>b, <1>c, <1>14, GotoFields DEF BeginRollback, Done, At, IInv
    <2> QED  BY <1>a, <1>b, <1>c, <1>14, <2>1 DEF IInv, Types, FieldTypes,
       CaptureIsWhole, FilesAreKnown, Known, Own, Passed, At, Restored, Proposed,
       WriterIsMarked, ApplyIsMarked, RollbackIsMarked, BeginRollback, Done, records,
       user
  <1>15. CASE SaveRollingBack
    <2>1. /\ writer' \in Fields
          /\ writer'.op = "rollback" /\ writer'.txn = writer.txn /\ writer'.pc = "replace"
          /\ writer'.todo = Keep(Reverse(Order[writer.txn]), writer.restore)
      BY <1>a, <1>b, <1>c, <1>15, GotoFields DEF SaveRollingBack, At, WriterIsMarked,
         IInv
    <2> QED  BY <1>a, <1>b, <1>c, <1>15, <2>1 DEF IInv, Types, FieldTypes,
       CaptureIsWhole, FilesAreKnown, Known, Own, Passed, At, Restored, Proposed,
       WriterIsMarked, ApplyIsMarked, RollbackIsMarked, SaveRollingBack, SetState,
       user
  <1>16. CASE Restore
    <2>1. /\ writer' \in Fields
          /\ writer'.op = writer.op /\ writer'.txn = writer.txn /\ writer'.pc = writer.pc
          /\ writer'.todo = Tail(writer.todo)
      BY <1>a, <1>b, <1>c, <1>16, StepFields DEF Restore, Working, IInv
    <2> QED  BY <1>a, <1>b, <1>c, <1>16, <2>1 DEF IInv, Types, FieldTypes,
       CaptureIsWhole, FilesAreKnown, Known, Own, Passed, At, Restored, Proposed,
       WriterIsMarked, ApplyIsMarked, RollbackIsMarked, Restore, Working, records
  <1>17. CASE RestoreFails
    BY <1>17, ConflictKept DEF RestoreFails, Working, At, IInv
  <1>18. CASE RecheckRollback
    <2>1. /\ writer' \in Fields
          /\ writer'.op = "rollback" /\ writer'.txn = writer.txn /\ writer'.pc = "recheck"
          /\ writer'.todo = Order[writer.txn]
      BY <1>a, <1>b, <1>c, <1>18, GotoFields DEF RecheckRollback, Done, At,
         WriterIsMarked, IInv
    <2> QED  BY <1>a, <1>b, <1>c, <1>18, <2>1 DEF IInv, Types, FieldTypes,
       CaptureIsWhole, FilesAreKnown, Known, Own, Passed, At, Restored, Proposed,
       WriterIsMarked, ApplyIsMarked, RollbackIsMarked, RecheckRollback, Done,
       records, user
  <1>19. CASE RecheckRestored
    <2>1. CASE Conflict
      BY <2>1, <1>19, ConflictKept DEF RecheckRestored, Working, At, IInv
    <2>2. CASE ~Conflict
      <3>1. /\ writer' \in Fields
            /\ writer'.op = writer.op /\ writer'.txn = writer.txn /\ writer'.pc = writer.pc
            /\ writer'.todo = Tail(writer.todo)
        BY <1>a, <1>b, <1>19, <2>2, StepFields DEF RecheckRestored, Working, At
      <3> QED  BY <1>a, <1>b, <1>c, <1>19, <2>2, <3>1 DEF IInv, Types, FieldTypes,
         CaptureIsWhole, FilesAreKnown, Known, Own, Passed, At, Restored, Proposed,
         WriterIsMarked, ApplyIsMarked, RollbackIsMarked, RecheckRestored, IsRestored,
         Working, records, user
    <2> QED  BY <2>1, <2>2
  <1>20. CASE SaveRolledBack
    <2>1. /\ writer' \in Fields
          /\ writer'.op = "rollback" /\ writer'.txn = writer.txn /\ writer'.pc = "finish"
          /\ writer'.todo = <<>>
      BY <1>a, <1>b, <1>c, <1>20, GotoFields DEF SaveRolledBack, Done, At, IInv
    <2> QED  BY <1>a, <1>b, <1>c, <1>20, <2>1 DEF IInv, Types, FieldTypes,
       CaptureIsWhole, FilesAreKnown, Known, Own, Passed, At, Restored, Proposed,
       WriterIsMarked, ApplyIsMarked, RollbackIsMarked, SaveRolledBack, Done,
       SetState, user
  <1>21. CASE Finish
    <2>1. writer' \in Fields /\ writer' = Idle
      BY <1>a, <1>b, <1>c, <1>21, IdleFields DEF Finish, IInv
    <2> QED  BY <1>a, <1>b, <1>c, <1>21, <2>1 DEF IInv, Types, FieldTypes,
       CaptureIsWhole, FilesAreKnown, Known, Own, Passed, At, Restored, Proposed,
       WriterIsMarked, ApplyIsMarked, RollbackIsMarked, Finish, records, user
  <1>22. CASE Crash
    <2>1. writer' \in Fields /\ writer' = Idle
      BY <1>a, <1>b, <1>c, <1>22, IdleFields DEF Crash, IInv
    <2> QED  BY <1>a, <1>b, <1>c, <1>22, <2>1 DEF IInv, Types, FieldTypes,
       CaptureIsWhole, FilesAreKnown, Known, Own, Passed, At, Restored, Proposed,
       WriterIsMarked, ApplyIsMarked, RollbackIsMarked, Crash, records, user
  <1>23. ASSUME NEW f \in Files, UserEdits(f)  PROVE FilesAreKnown'
    <2>1. /\ newer' = [u \in Txns |-> newer[u] \cup {f}]
          /\ UNCHANGED <<before, marker, writer>>
          /\ \/ disk' = [disk EXCEPT ![f] = Plain([kind |-> "user", txn |-> NoTxn, n |-> edits'])]
                /\ gone' = gone \ {f}
             \/ disk' = [disk EXCEPT ![f] = Missing] /\ gone' = gone \cup {f}
      BY <1>23 DEF UserEdits, records
    <2>2. \A u \in Txns : f \in newer'[u] /\ newer[u] \subseteq newer'[u]
      BY <2>1
    <2>3. f \in gone' \/ disk'[f].content.kind = "user"
      BY <1>a, <2>1 DEF Types, FieldTypes, Plain
    <2>4. \A g \in Files : g # f => disk'[g] = disk[g] /\ (g \in gone' <=> g \in gone)
      BY <1>a, <2>1 DEF Types, FieldTypes
    <2>5. \A u \in Txns : Own(u, f)'
      BY <2>2, <2>3 DEF Own
    <2>6. \A u \in Txns, g \in Files : g # f =>
             /\ Own(u, g) => Own(u, g)'
             /\ Known(u, g) => Known(u, g)'
             /\ Restored(u, g)' = Restored(u, g)
      BY <2>1, <2>2, <2>4 DEF Own, Known, Restored
    <2>7. \A u \in Txns, g \in Files : Known(u, g) => Known(u, g)'
      BY <2>5, <2>6 DEF Known
    <2>8. marker \in Txns \cup {NoTxn} /\ (writer.op # "idle" => writer.txn \in Txns)
      BY <1>a DEF IInv, Types, FieldTypes, WriterIsMarked
    <2>9. (marker # NoTxn => \A g \in Touched(marker) : Known(marker, g))'
      BY <1>b, <2>1, <2>7, <2>8 DEF IInv, FilesAreKnown
    <2>10. (writer.op # "idle" /\ writer.pc = "check" =>
              \A g \in Files : Passed(g) => Known(writer.txn, g))'
      BY <2>1, <2>7, <2>8 DEF IInv, FilesAreKnown, Passed
    <2>11. (At("apply", "recheck") =>
              \A g \in Files : Passed(g) =>
                disk[g] = Proposed(writer.txn, g) \/ Own(writer.txn, g))'
      BY <2>1, <2>4, <2>5, <2>6, <2>8 DEF IInv, FilesAreKnown, Passed, At, Proposed
    <2>12. (At("rollback", "recheck") =>
              \A g \in Files : Passed(g) =>
                \/ disk[g] \in {before[writer.txn][g], Restored(writer.txn, g)}
                \/ Own(writer.txn, g))'
      BY <2>1, <2>4, <2>5, <2>6, <2>8 DEF IInv, FilesAreKnown, Passed, At
    <2> QED  BY <2>9, <2>10, <2>11, <2>12 DEF FilesAreKnown
  <1>24. CASE UNCHANGED vars
    BY <1>a, <1>b, <1>c, <1>24 DEF IInv, Types, FieldTypes, CaptureIsWhole,
       FilesAreKnown, Known, Own, Passed, At, Restored, Proposed, WriterIsMarked,
       ApplyIsMarked, RollbackIsMarked, vars, records, user
  <1> QED  BY <1>1, <1>2, <1>3, <1>4, <1>5, <1>6, <1>7, <1>8, <1>9, <1>10,
     <1>11, <1>12, <1>13, <1>14, <1>15, <1>16, <1>17, <1>18, <1>19, <1>20,
     <1>21, <1>22, <1>23, <1>24 DEF Next, ApplyStep, RollbackStep

(* Four actions touch the files or what is captured of them.               *)
LEMMA FilesChange ==
  ASSUME [Next]_vars
  PROVE  \/ Replace \/ Restore
         \/ \E t \in Txns : Capture(t)
         \/ \E f \in Files : UserEdits(f)
         \/ UNCHANGED <<disk, before, newer, gone>>
  <1>1. Conflict => UNCHANGED <<disk, before, newer, gone>>
    BY DEF Conflict, user
  <1>2. \/ CheckSource \/ RecheckSource \/ Inspect \/ RecheckRestored \/ RestoreFails
        \/ SaveApplying \/ SaveApplied \/ SaveRollingBack \/ SaveRolledBack
        \/ BeginApply \/ BeginRollback \/ ReplaceFails \/ Recheck \/ RecheckRollback
        \/ Finish \/ Crash \/ UNCHANGED vars
        \/ \E t \in Txns : SavePreview(t) \/ StartApply(t) \/ StartRollback(t)
        => UNCHANGED <<disk, before, newer, gone>>
    BY <1>1 DEF CheckSource, RecheckSource, Inspect, RecheckRestored, RestoreFails,
       SaveApplying, SaveApplied, SaveRollingBack, SaveRolledBack, BeginApply,
       BeginRollback, ReplaceFails, Recheck, RecheckRollback, Finish, Crash,
       SavePreview, StartApply, StartRollback, vars, records, user
  <1> QED  BY <1>2 DEF Next, ApplyStep, RollbackStep

(* Whoever puts a file back is not the user.                               *)
LEMMA GoneIsMissingKept ==
  ASSUME IInv, [Next]_vars
  PROVE  GoneIsMissing'
  <1>a. Types /\ disk \in [Files -> Image] /\ before \in [Txns -> Partial] /\ gone \subseteq Files
    BY DEF IInv, Types, FieldTypes
  <1>1. ASSUME NEW t \in Txns, Capture(t)  PROVE GoneIsMissing'
    BY <1>a, <1>1 DEF IInv, Types, FieldTypes, GoneIsMissing, Captured, Capture
  <1>2. CASE Replace
    BY <1>a, <1>2 DEF IInv, GoneIsMissing, Captured, Replace, records
  <1>3. CASE Restore
    BY <1>a, <1>3 DEF IInv, GoneIsMissing, Captured, Restore, records
  <1>4. ASSUME NEW f \in Files, UserEdits(f)  PROVE GoneIsMissing'
    BY <1>a, <1>4 DEF IInv, GoneIsMissing, Captured, UserEdits, records
  <1>5. CASE UNCHANGED <<disk, before, newer, gone>>
    BY <1>5 DEF IInv, GoneIsMissing, Captured
  <1> QED  BY <1>1, <1>2, <1>3, <1>4, <1>5, FilesChange

(* Files are put back only by the rollback of a record.                    *)
LEMMA OwnersAreRecordedKept ==
  ASSUME IInv, [Next]_vars
  PROVE  OwnersAreRecorded'
  <1>a. Types /\ disk \in [Files -> Image] /\ before \in [Txns -> Partial]
        /\ state \in [Txns -> TransactionState \cup {"none"}]
    BY DEF IInv, Types, FieldTypes
  <1>b. Missing.by = NoTxn /\ \A t \in Txns, f \in Files : Proposed(t, f).by = NoTxn
    BY DEF Missing, Plain, Proposed
  <1>1. ASSUME NEW t \in Txns, Capture(t)  PROVE OwnersAreRecorded'
    <2> DEFINE f == Order[t][Cardinality(Captured(t)) + 1]
               b == [g \in Captured(t) \cup {f} |-> IF g = f THEN disk[f] ELSE before[t][g]]
    <2>1. f \in Files
      BY <1>a, <1>1, CapturedNext, OrderIsList DEF Capture, Types, CaptureIsWhole
    <2>2. /\ before' = [before EXCEPT ![t] = b]
          /\ UNCHANGED <<disk, state>> /\ state[t] = "none"
      BY <1>1 DEF Capture
    <2>3. DOMAIN b = Captured(t) \cup {f} /\ b[f] = disk[f]
          /\ \A g \in Captured(t) : g # f => b[g] = before[t][g]
      OBVIOUS
    <2> HIDE DEF b, f
    <2>4. \A g \in DOMAIN b : b[g].by # t
      BY <2>1, <2>2, <2>3 DEF IInv, OwnersAreRecorded
    <2> QED  BY <1>a, <2>2, <2>4 DEF IInv, OwnersAreRecorded, Captured
  <1>2. CASE Replace
    <2>1. /\ disk' = [disk EXCEPT ![File] = Proposed(writer.txn, File)]
          /\ UNCHANGED <<state, before>>
          /\ writer.op = "apply" /\ writer.todo # <<>>
      BY <1>2 DEF Replace, records, Working, At
    <2>2. File \in Files /\ writer.txn \in Txns
      BY <1>a, <2>1, ListsAreSound DEF IInv, Types, FieldTypes, WriterIsMarked
    <2>3. \A f \in Files : disk'[f].by \in {NoTxn, disk[f].by}
      BY <1>a, <1>b, <2>1, <2>2
    <2> QED  BY <2>1, <2>3, EditAssumption DEF IInv, OwnersAreRecorded, Captured
  <1>3. CASE Restore
    <2>1. /\ disk' = [disk EXCEPT ![File] = Restored(writer.txn, File)]
          /\ UNCHANGED <<state, before>>
          /\ writer.op = "rollback" /\ writer.todo # <<>> /\ writer.pc = "replace"
      BY <1>3 DEF Restore, records, Working, At
    <2>2. File \in Files /\ File \in Touched(writer.txn) /\ state[writer.txn] = "RollingBack"
      BY <1>a, <2>1, ListsAreSound DEF IInv, Types, FieldTypes, WriterIsMarked,
         RollbackIsMarked
    <2>3. writer.txn \in Txns /\ before[writer.txn][File] \in Image
      <3>1. writer.txn \in Txns /\ Captured(writer.txn) = Touched(writer.txn)
        BY <2>1, WriterIsWhole
      <3> QED  BY <1>a, <2>2, <3>1, ImagesAreSound
    <2>4. Restored(writer.txn, File).by \in {NoTxn, writer.txn}
      BY <1>b, <2>3 DEF Restored, Image
    <2>5. \A f \in Files : disk'[f].by \in {NoTxn, writer.txn, disk[f].by}
      BY <1>a, <2>1, <2>2, <2>4
    <2> QED  BY <2>1, <2>2, <2>5, EditAssumption DEF IInv, OwnersAreRecorded, Captured
  <1>4. ASSUME NEW f \in Files, UserEdits(f)  PROVE OwnersAreRecorded'
    <2>1. UNCHANGED <<state, before>>
      BY <1>4 DEF UserEdits, records
    <2>2. \A g \in Files : disk'[g].by \in {NoTxn, disk[g].by}
      BY <1>a, <1>b, <1>4 DEF UserEdits, Plain
    <2> QED  BY <2>1, <2>2, EditAssumption DEF IInv, OwnersAreRecorded, Captured
  <1>5. CASE /\ UNCHANGED <<disk, before>>
             /\ \A t \in Txns : state[t] # "none" => state'[t] # "none"
    BY <1>5 DEF IInv, OwnersAreRecorded, Captured
  <1>6. \/ Replace \/ Restore
        \/ \E t \in Txns : Capture(t)
        \/ \E f \in Files : UserEdits(f)
        \/ /\ UNCHANGED <<disk, before>>
           /\ state' = state \/ \E t \in Txns, s \in TransactionState : SetState(t, s)
    <2>1. Conflict /\ writer.op # "idle" =>
            /\ UNCHANGED <<disk, before>>
            /\ \E t \in Txns, s \in TransactionState : SetState(t, s)
      BY WriterIsWhole DEF Conflict, TransactionState
    <2>2. SaveApplying \/ SaveApplied \/ SaveRollingBack \/ SaveRolledBack =>
            /\ UNCHANGED <<disk, before>>
            /\ \E t \in Txns, s \in TransactionState : SetState(t, s)
      BY WriterIsWhole DEF SaveApplying, SaveApplied, SaveRollingBack, SaveRolledBack,
         TransactionState, Done, At
    <2>3. \A t \in Txns : SavePreview(t) =>
            /\ UNCHANGED <<disk, before>>
            /\ SetState(t, "Previewed") /\ "Previewed" \in TransactionState
      BY DEF SavePreview, TransactionState
    <2>4. CheckSource \/ RecheckSource \/ Inspect \/ RecheckRestored \/ RestoreFails =>
            writer.op # "idle" /\ (Conflict \/ UNCHANGED <<disk, records, marker, user>>)
      BY DEF CheckSource, RecheckSource, Inspect, RecheckRestored, RestoreFails,
         Working, At
    <2>5. BeginApply \/ BeginRollback \/ ReplaceFails \/ Recheck \/ RecheckRollback \/ Finish
          \/ Crash \/ (\E t \in Txns : StartApply(t) \/ StartRollback(t)) \/ UNCHANGED vars =>
            UNCHANGED <<disk, records>>
      BY DEF BeginApply, BeginRollback, ReplaceFails, Recheck, RecheckRollback,
         Finish, Crash, StartApply, StartRollback, vars, records
    <2> QED  BY <2>1, <2>2, <2>3, <2>4, <2>5 DEF Next, ApplyStep, RollbackStep,
       records
  <1> QED
    <2>1. CASE /\ UNCHANGED <<disk, before>>
               /\ state' = state \/ \E t \in Txns, s \in TransactionState : SetState(t, s)
      <3>1. ASSUME NEW t \in Txns, NEW s \in TransactionState, SetState(t, s),
                   NEW u \in Txns, state[u] # "none"
            PROVE  state'[u] # "none"
        BY <1>a, <3>1 DEF SetState, TransactionState
      <3>2. \A t \in Txns : state[t] # "none" => state'[t] # "none"
        BY <2>1, <3>1
      <3> QED  BY <1>5, <2>1, <3>2
    <2> QED  BY <1>1, <1>2, <1>3, <1>4, <1>6, <2>1

(* Before anything was captured the invariant holds.                       *)
LEMMA InitSound == Init => IInv
  <1> SUFFICES ASSUME Init  PROVE IInv
    OBVIOUS
  <1> USE EditAssumption DEF Init
  <1>1. Plain(Base) \in Image /\ Missing \in Image
    BY DEF Plain, Base, Missing, Nothing, Image, Contents
  <1>2. disk \in [Files -> Image]
    BY <1>1
  <1>3. before \in [Txns -> Partial]
    <2>1. <<>> \in [{} -> Image]
      OBVIOUS
    <2>2. <<>> \in Partial
      BY <2>1 DEF Partial
    <2> QED  BY <2>2
  <1>4. Idle \in Fields /\ Idle.op = "idle" /\ Idle.pc = "check"
    BY EmptyQueue DEF Idle, Fields, Lists
  <1>5. FieldTypes
    BY <1>2, <1>3, <1>4 DEF FieldTypes
  <1>6. CaptureIsWhole
    <2>1. ASSUME NEW t \in Txns  PROVE Captured(t) = {} /\ state[t] = "none"
      BY DEF Captured
    <2> QED  BY <2>1 DEF CaptureIsWhole
  <1>7. WriterIsMarked
    BY <1>4 DEF WriterIsMarked, ApplyIsMarked, RollbackIsMarked, HalfDoneIsMarked
  <1>8. FilesAreKnown /\ GoneIsMissing
    BY <1>4 DEF FilesAreKnown, GoneIsMissing, At
  <1>9. OwnersAreRecorded
    <2>1. \A f \in Files : disk[f].by = NoTxn
      BY DEF Plain, Missing
    <2> QED  BY <2>1 DEF OwnersAreRecorded, Captured
  <1> QED  BY <1>5, <1>6, <1>7, <1>8, <1>9 DEF IInv, Types, FieldTypes, CaptureIsWhole

(* The invariant holds whatever the writers, the user and crashes do.      *)
THEOREM Invariance == Spec => []IInv
  <1>1. IInv /\ [Next]_vars => IInv'
    BY TypesKept, WriterIsMarkedKept, FilesAreKnownKept, GoneIsMissingKept,
       OwnersAreRecordedKept DEF IInv
  <1> QED  BY <1>1, InitSound, PTL DEF Spec

(* Every variable keeps its type, and a preview reads no file that a       *)
(* rollback of the same transaction has put back.                          *)
THEOREM TypeCorrect == Spec => []TypeOK
  <1>1. IInv => TypeOK
    <2> SUFFICES ASSUME IInv  PROVE TypeOK
      OBVIOUS
    <2>1. writer \in Writer
      BY DEF IInv, Types, FieldTypes, Fields, Lists, Writer
    <2>2. ASSUME NEW t \in Txns, NEW f \in Captured(t)  PROVE before[t][f] \in Image
      <3>1. f \in Files
        BY OrderIsList DEF IInv, Types, CaptureIsWhole
      <3> QED  BY <3>1, ImagesAreSound DEF IInv
    <2>3. \A t \in Txns : \A f \in Captured(t) : before[t][f].by # t
      BY DEF IInv, OwnersAreRecorded
    <2> QED  BY <2>1, <2>2, <2>3 DEF IInv, Types, FieldTypes, CaptureIsWhole, TypeOK
  <1> QED  BY <1>1, Invariance, PTL

(* No crash leaves a record half-way between two contents that the marker  *)
(* does not name: the next apply always notices (apply, rollback).         *)
THEOREM HalfDoneIsAlwaysMarked == Spec => []HalfDoneIsMarked
  <1>1. IInv => HalfDoneIsMarked
    BY DEF IInv, WriterIsMarked
  <1> QED  BY <1>1, Invariance, PTL

(* Only an apply replaces what the user wrote, and only where it was       *)
(* previewed from just that (replace, restore).                            *)
THEOREM UserEditsAlwaysSurvive == Spec => UserEditsSurvive
  <1> DEFINE Survive ==
        \A f \in Files :
          /\ disk[f].content.kind = "user"
          /\ disk'[f] # disk[f]
          /\ edits' = edits
          => /\ writer.op = "apply"
             /\ before[writer.txn][f] = disk[f]
  <1>1. ASSUME IInv, [Next]_vars  PROVE Survive
    <2> SUFFICES ASSUME NEW f \in Files, disk[f].content.kind = "user",
                        disk'[f] # disk[f], edits' = edits
                 PROVE  writer.op = "apply" /\ before[writer.txn][f] = disk[f]
      OBVIOUS
    <2>1. Types /\ disk \in [Files -> Image] /\ writer \in Fields
      BY <1>1 DEF IInv, Types, FieldTypes
    <2>2. CASE Replace
      BY <2>1, <2>2 DEF Replace, Working, At
    <2>3. CASE Restore
      <3>1. File \in Files /\ writer.txn \in Txns /\ disk[File] = Proposed(writer.txn, File)
        BY <1>1, <2>1, <2>3, ListsAreSound DEF IInv, WriterIsMarked, Restore, Working,
           At
      <3>2. f # File
        BY <2>1, <3>1, ImagesAreSound
      <3>3. disk'[f] = disk[f]
        BY <2>1, <2>3, <3>2 DEF Restore
      <3> QED  BY <3>3
    <2>4. ASSUME NEW g \in Files, UserEdits(g)  PROVE FALSE
      BY <2>1, <2>4, EditAssumption DEF UserEdits, Types, FieldTypes
    <2>5. ASSUME NEW t \in Txns, Capture(t)  PROVE FALSE
      BY <2>5 DEF Capture
    <2> QED  BY <1>1, <2>2, <2>3, <2>4, <2>5, FilesChange
  <1>2. ASSUME IInv, [Next]_vars  PROVE [Survive]_vars
    BY <1>1, <1>2
  <1> QED  BY <1>2, Invariance, PTL DEF Spec, UserEditsSurvive

-----------------------------------------------------------------------------
(* The refinement.  A file is hidden while its transaction is half done    *)
(* and the file holds what the transaction put there.                      *)
Hidden(f) ==
  /\ HalfDone(marker)
  /\ f \in Touched(marker)
  /\ disk[f] = Proposed(marker, f) /\ f \notin gone

Shown(f) == IF Hidden(f) THEN before[marker][f].content ELSE disk[f].content

BaseAt(t, f) == IF f \in Captured(t) THEN before[t][f].content ELSE Nothing

(* The mapped tree and the mapped bases, file by file.                     *)
LEMMA TreeOf ==
  /\ Tree = [f \in Files |-> Shown(f)] /\ Tree' = [f \in Files |-> Shown(f)']
  /\ BaseOf = [t \in Txns |-> [f \in Files |-> BaseAt(t, f)]]
  /\ BaseOf' = [t \in Txns |-> [f \in Files |-> BaseAt(t, f)']]
  BY DEF Tree, Shown, Hidden, BaseOf, BaseAt

(* Where the files stay and the same transaction is half done, the owner   *)
(* of the files sees nothing.                                              *)
LEMMA NothingIsSeen ==
  ASSUME UNCHANGED <<disk, before, newer, gone>>,
         HalfDone(marker)' = HalfDone(marker),
         HalfDone(marker) => marker' = marker
  PROVE  UNCHANGED Atomic!vars
  <1>1. ASSUME NEW f \in Files  PROVE Shown(f)' = Shown(f)
    BY <1>1 DEF Shown, Hidden, Proposed
  <1>2. ASSUME NEW t \in Txns, NEW f \in Files  PROVE BaseAt(t, f)' = BaseAt(t, f)
    BY DEF BaseAt, Captured
  <1>3. Tree' = Tree /\ BaseOf' = BaseOf
    BY <1>1, <1>2, TreeOf, Zenon
  <1> QED  BY <1>3 DEF Atomic!vars

(* A file of a transaction has the content it was captured with, or the    *)
(* proposed one, or else the user has put his own there since.             *)
LEMMA KnownContent ==
  ASSUME IInv, NEW t \in Txns, NEW f \in Touched(t), Known(t, f), Captured(t) = Touched(t)
  PROVE  /\ BaseAt(t, f) = before[t][f].content
         /\ \/ disk[f].content = before[t][f].content
            \/ disk[f] = Proposed(t, f) /\ f \notin gone
            \/ f \in newer[t] /\ disk[f].content \in UserContents
  <1>1. /\ Types /\ f \in Files /\ f \in Captured(t)
        /\ disk[f] \in Image /\ disk[f].content \in Contents
    BY OrderIsList DEF IInv, Types, FieldTypes, Image
  <1>2. Restored(t, f).content = before[t][f].content /\ Missing.content = Nothing
    BY <1>1, ImagesAreSound DEF Missing, Plain
  <1>3. f \in gone => disk[f] = Missing /\ (f \in newer[t] \/ before[t][f] = Missing)
    BY <1>1 DEF IInv, GoneIsMissing
  <1>4. Nothing \in UserContents
    BY DEF UserContents
  <1>5. disk[f].content.kind = "user" => disk[f].content \in UserContents
    BY <1>1 DEF Contents, UserContents
  <1> QED  BY <1>1, <1>2, <1>3, <1>4, <1>5 DEF Known, Own, BaseAt

(* What a record of a marked transaction was captured from is whole.       *)
LEMMA MarkedIsWhole ==
  ASSUME IInv, marker # NoTxn
  PROVE  /\ marker \in Txns /\ Captured(marker) = Touched(marker)
         /\ \A f \in Touched(marker) : Known(marker, f)
  BY DEF IInv, Types, FieldTypes, CaptureIsWhole, WriterIsMarked, FilesAreKnown

(* The moment a transaction becomes half done takes back, for the owner of *)
(* the files, whatever it has put there.                                   *)
LEMMA HalfDoneUndoes ==
  ASSUME IInv, NEW t \in Txns,
         UNCHANGED <<disk, before, newer, gone>>,
         ~HalfDone(marker), marker' = t, HalfDone(t)',
         Captured(t) = Touched(t), \A f \in Touched(t) : Known(t, f)
  PROVE  Atomic!Undo(t)
  <1> DEFINE kept == {f \in Touched(t) : /\ disk[f].content # before[t][f].content
                                         /\ ~(disk[f] = Proposed(t, f) /\ f \notin gone)}
  <1>1. Touched(t) \subseteq Files
    BY OrderIsList
  <1>2. \A f \in Files : Shown(f) = disk[f].content
    BY DEF Shown, Hidden
  <1>3. \A f \in Files : Shown(f)' =
          IF f \in Touched(t) /\ disk[f] = Proposed(t, f) /\ f \notin gone
          THEN before[t][f].content ELSE disk[f].content
    BY DEF Shown, Hidden, Proposed
  <1>4. \A f \in Touched(t) : /\ BaseAt(t, f) = before[t][f].content
                              /\ f \in kept => f \in newer[t] /\ disk[f].content \in UserContents
    BY KnownContent
  <1>5. \A f \in Files : Tree[f] = Shown(f)
    BY TreeOf
  <1>6. kept \in SUBSET Atomic!Kept(t)
    BY <1>1, <1>2, <1>4, <1>5 DEF Atomic!Kept
  <1>7. \A f \in Touched(t) : BaseOf[t][f] = BaseAt(t, f)
    BY <1>1, TreeOf
  <1>8. ASSUME NEW f \in Touched(t) \ kept
        PROVE  Tree[f] \in {BaseOf[t][f], Proposal(t, f)} /\ Shown(f)' = BaseOf[t][f]
    <2>1. Proposed(t, f).content = Proposal(t, f)
      BY <1>1, ImagesAreSound DEF IInv
    <2> QED  BY <1>1, <1>2, <1>3, <1>4, <1>5, <1>7, <2>1
  <1>9. ASSUME NEW f \in Files, f \notin Touched(t) \ kept
        PROVE  Shown(f)' = Tree[f]
    BY <1>2, <1>3, <1>5, <1>9
  <1> HIDE DEF kept
  <1>10. Tree' = [f \in Files |-> IF f \in Touched(t) \ kept THEN BaseOf[t][f] ELSE Tree[f]]
    BY <1>8, <1>9, TreeOf
  <1>11. UNCHANGED <<BaseOf, newer>>
    <2>1. ASSUME NEW u \in Txns, NEW f \in Files  PROVE BaseAt(u, f)' = BaseAt(u, f)
      BY DEF BaseAt, Captured
    <2> QED  BY <2>1, TreeOf, Zenon
  <1> QED  BY <1>6, <1>8, <1>10, <1>11 DEF Atomic!Undo

(* preview prepares the transaction from what it reads.                    *)
LEMMA CapturePrepares ==
  ASSUME IInv, NEW t \in Txns, Capture(t)
  PROVE  \E f \in Files, c \in Contents : Atomic!Prepare(t, f, c)
  <1>1. PICK f \in Files : f = Order[t][Cardinality(Captured(t)) + 1]
    BY CapturedNext, OrderIsList DEF Capture, IInv, Types, CaptureIsWhole
  <1> DEFINE b == [g \in Captured(t) \cup {f} |-> IF g = f THEN disk[f] ELSE before[t][g]]
  <1>2. disk[f].content \in Contents
    BY <1>1 DEF IInv, Types, FieldTypes, Image
  <1>3. /\ before' = [before EXCEPT ![t] = b]
        /\ newer' = [newer EXCEPT ![t] = @ \ {f}]
        /\ UNCHANGED <<disk, state, marker, gone>>
        /\ state[t] = "none"
    BY <1>1 DEF Capture
  <1>4. DOMAIN b = Captured(t) \cup {f} /\ b[f] = disk[f]
        /\ \A g \in Captured(t) : g # f => b[g] = before[t][g]
    OBVIOUS
  <1> HIDE DEF b
  <1>5. /\ before'[t] = b
        /\ \A u \in Txns : u # t => before'[u] = before[u]
    BY <1>3 DEF IInv, Types, FieldTypes
  <1>6. marker # t /\ marker \in Txns \cup {NoTxn}
    BY <1>3, EditAssumption DEF IInv, Types, FieldTypes, WriterIsMarked
  <1>7. ASSUME NEW g \in Files  PROVE Shown(g)' = Shown(g)
    BY <1>3, <1>5, <1>6 DEF Shown, Hidden, HalfDone, Proposed
  <1>8. Tree' = Tree
    BY <1>7, TreeOf, Zenon
  <1>9. BaseAt(t, f)' = disk[f].content
    BY <1>4, <1>5 DEF BaseAt, Captured
  <1>10. ASSUME NEW g \in Files, g # f  PROVE BaseAt(t, g)' = BaseAt(t, g)
    <2>1. Captured(t)' = Captured(t) \cup {f}
      BY <1>4, <1>5 DEF Captured
    <2>2. g \in Captured(t) => before'[t][g] = before[t][g]
      BY <1>4, <1>5, <1>10
    <2> QED  BY <1>10, <2>1, <2>2 DEF BaseAt
  <1>11. \A u \in Txns, g \in Files : u # t => BaseAt(u, g)' = BaseAt(u, g)
    BY <1>5 DEF BaseAt, Captured
  <1>12. BaseOf' = [BaseOf EXCEPT ![t][f] = disk[f].content]
    <2> DEFINE B == [BaseOf EXCEPT ![t][f] = disk[f].content]
    <2>1. \A u \in Txns, g \in Files : BaseOf[u][g] = BaseAt(u, g)
      BY TreeOf
    <2>2. B = [u \in Txns |-> [g \in Files |->
                 IF u = t /\ g = f THEN disk[f].content ELSE BaseAt(u, g)]]
      BY <1>1, TreeOf
    <2>3. \A u \in Txns, g \in Files :
            BaseAt(u, g)' = IF u = t /\ g = f THEN disk[f].content ELSE BaseAt(u, g)
      BY <1>9, <1>10, <1>11
    <2> HIDE DEF B
    <2>4. BaseOf' = B
      BY <2>2, <2>3, TreeOf
    <2> QED  BY <2>4 DEF B
  <1>13. Atomic!Prepare(t, f, disk[f].content)
    BY <1>3, <1>8, <1>12 DEF Atomic!Prepare
  <1> QED  BY <1>1, <1>2, <1>13

(* What the user writes or deletes is seen at once.                        *)
LEMMA UserEditsTheTree ==
  ASSUME IInv, NEW f \in Files, UserEdits(f)
  PROVE  \E c \in UserContents : Atomic!Edit(f, c)
  <1> DEFINE c == disk'[f].content
             written == [kind |-> "user", txn |-> NoTxn, n |-> edits']
  <1>1. disk \in [Files -> Image] /\ edits' \in 1..MaxEdits
    BY EditAssumption DEF IInv, Types, FieldTypes, UserEdits
  <1>2. written \in UserContents /\ Nothing \in UserContents
    BY <1>1 DEF UserContents
  <1>3. /\ newer' = [u \in Txns |-> newer[u] \cup {f}]
        /\ UNCHANGED <<state, before, marker>>
        /\ \/ disk' = [disk EXCEPT ![f] = Plain(written)] /\ gone' = gone \ {f}
           \/ disk' = [disk EXCEPT ![f] = Missing] /\ gone' = gone \cup {f}
    BY DEF UserEdits, records
  <1>4. \/ c = written
        \/ c = Nothing /\ f \in gone'
    BY <1>1, <1>3 DEF Plain, Missing
  <1>5. \A g \in Files : g # f => disk'[g] = disk[g] /\ (g \in gone' <=> g \in gone)
    BY <1>1, <1>3
  <1>6. marker \in Txns \cup {NoTxn}
    BY DEF IInv, Types, FieldTypes
  <1>7. HalfDone(marker) => marker \in Txns
    BY <1>6 DEF HalfDone
  <1>8. ~Hidden(f)'
    <2>1. c = written => c.kind = "user"
      OBVIOUS
    <2>2. ASSUME NEW t \in Txns  PROVE Proposed(t, f).content.kind # "user"
      BY <2>2, ImagesAreSound DEF IInv
    <2> HIDE DEF c, written
    <2>3. Hidden(f)' => f \notin gone' /\ \E t \in Txns : disk'[f] = Proposed(t, f)
      BY <1>3, <1>7 DEF Hidden, HalfDone, Proposed
    <2>4. Hidden(f)' => \E t \in Txns : c = Proposed(t, f).content
      BY <2>3 DEF c
    <2> QED  BY <1>4, <2>1, <2>2, <2>3, <2>4
  <1>9. Shown(f)' = c
    BY <1>8 DEF Shown
  <1>10. ASSUME NEW g \in Files, g # f  PROVE Shown(g)' = Shown(g)
    BY <1>3, <1>5, <1>10 DEF Shown, Hidden, HalfDone, Proposed
  <1>11. c \in UserContents
    BY <1>2, <1>4
  <1> HIDE DEF c, written
  <1>12. Tree' = [Tree EXCEPT ![f] = c]
    BY <1>9, <1>10, TreeOf
  <1>13. BaseOf' = BaseOf
    <2>1. ASSUME NEW u \in Txns, NEW g \in Files  PROVE BaseAt(u, g)' = BaseAt(u, g)
      BY <1>3 DEF BaseAt, Captured
    <2> QED  BY <2>1, TreeOf, Zenon
  <1> QED  BY <1>3, <1>11, <1>12, <1>13 DEF Atomic!Edit

(* A file that the apply renames over stays hidden.                        *)
LEMMA ReplaceIsNotSeen ==
  ASSUME IInv, Replace
  PROVE  UNCHANGED Atomic!vars
  <1> DEFINE t == writer.txn
  <1>1. /\ marker = t /\ t \in Txns /\ state[t] = "Applying"
        /\ File \in Files /\ File \in Touched(t)
    BY ListsAreSound DEF IInv, Types, FieldTypes, WriterIsMarked, ApplyIsMarked,
       Replace, Working, At
  <1>2. /\ disk[File] = before[t][File]
        /\ disk' = [disk EXCEPT ![File] = Proposed(t, File)]
        /\ gone' = gone \ {File}
        /\ UNCHANGED <<state, before, marker, newer>>
    BY DEF Replace, records
  <1>0. PICK h \in Files : h = File
    BY <1>1
  <1>3. disk \in [Files -> Image]
    BY DEF IInv, Types, FieldTypes
  <1>4. HalfDone(marker) /\ HalfDone(marker)'
    BY <1>1, <1>2, EditAssumption DEF HalfDone
  <1> HIDE DEF t
  <1>5. Shown(h) = before[t][h].content
    BY <1>0, <1>1, <1>2 DEF Shown
  <1>6. Shown(h)' = before[t][h].content
    BY <1>0, <1>1, <1>2, <1>3, <1>4 DEF Shown, Hidden, Proposed
  <1>7. ASSUME NEW g \in Files, g # h  PROVE Shown(g)' = Shown(g)
    BY <1>0, <1>2, <1>3, <1>4, <1>7 DEF Shown, Hidden, Proposed
  <1>8. \A g \in Files : Shown(g)' = Shown(g)
    BY <1>5, <1>6, <1>7
  <1>9. Tree' = Tree
    BY <1>8, TreeOf, Zenon
  <1>10. BaseOf' = BaseOf
    <2>1. ASSUME NEW u \in Txns, NEW g \in Files  PROVE BaseAt(u, g)' = BaseAt(u, g)
      BY <1>2 DEF BaseAt, Captured
    <2> QED  BY <2>1, TreeOf, Zenon
  <1> QED  BY <1>2, <1>9, <1>10 DEF Atomic!vars

(* A restored file was hidden, or the user had deleted what the            *)
(* transaction deletes and the restored content takes its place.           *)
LEMMA RestoreUndoes ==
  ASSUME IInv, Restore
  PROVE  Atomic!Undo(writer.txn) \/ UNCHANGED Atomic!vars
  <1> DEFINE t == writer.txn
  <1>1. /\ marker = t /\ t \in Txns /\ state[t] = "RollingBack"
        /\ File \in Files /\ File \in Touched(t)
    BY ListsAreSound DEF IInv, Types, FieldTypes, WriterIsMarked, RollbackIsMarked,
       Restore, Working, At
  <1>2. /\ disk[File] = Proposed(t, File)
        /\ disk' = [disk EXCEPT ![File] = Restored(t, File)]
        /\ gone' = gone \ {File}
        /\ UNCHANGED <<state, before, marker, newer>>
    BY DEF Restore, records
  <1>0. PICK h \in Files : h = File
    BY <1>1
  <1> DEFINE kept == {g \in Touched(t) \ {h} : Tree[g] # BaseOf[t][g]}
  <1>3. disk \in [Files -> Image] /\ Types
    BY DEF IInv, Types, FieldTypes
  <1>4. HalfDone(marker) /\ HalfDone(marker)'
    BY <1>0, <1>1, <1>2, EditAssumption DEF HalfDone
  <1>5. Captured(t) = Touched(t) /\ \A f \in Touched(t) : Known(t, f)
    BY <1>1, EditAssumption, MarkedIsWhole
  <1>6. Touched(t) \subseteq Files
    BY <1>1, OrderIsList
  <1>7. Restored(t, h).content = before[t][h].content
        /\ Proposed(t, h).content = Proposal(t, h)
    BY <1>0, <1>1, <1>3, <1>5, ImagesAreSound
  <1> HIDE DEF t
  <1>8. Shown(h)' = before[t][h].content
    BY <1>0, <1>1, <1>2, <1>3, <1>4, <1>7 DEF Shown
  <1>9. ASSUME NEW g \in Files, g # h  PROVE Shown(g)' = Shown(g)
    BY <1>0, <1>2, <1>3, <1>4, <1>9 DEF Shown, Hidden, Proposed
  <1>10. UNCHANGED <<BaseOf, newer>>
    <2>1. ASSUME NEW u \in Txns, NEW g \in Files  PROVE BaseAt(u, g)' = BaseAt(u, g)
      BY <1>2 DEF BaseAt, Captured
    <2> QED  BY <1>2, <2>1, TreeOf, Zenon
  <1>11. CASE h \notin gone
    <2>1. Shown(h) = before[t][h].content
      BY <1>0, <1>1, <1>2, <1>4, <1>11 DEF Shown, Hidden
    <2>2. \A g \in Files : Shown(g)' = Shown(g)
      BY <1>8, <1>9, <2>1
    <2>3. Tree' = Tree
      BY <2>2, TreeOf, Zenon
    <2> QED  BY <1>10, <2>3 DEF Atomic!vars
  <1>12. CASE h \in gone
    <2>1. /\ \A f \in Files : Tree[f] = Shown(f)
          /\ \A f \in Touched(t) : BaseOf[t][f] = before[t][f].content
      <3>1. \A f \in Touched(t) : BaseAt(t, f) = before[t][f].content
        BY <1>5 DEF BaseAt
      <3> QED  BY <1>1, <1>6, <3>1, TreeOf
    <2>2. Tree[h] = Proposal(t, h)
      BY <1>0, <1>1, <1>2, <1>7, <1>12, <2>1 DEF Shown, Hidden
    <2>3. ASSUME NEW f \in Touched(t), Tree[f] # BaseOf[t][f]
          PROVE  (f \in newer[t] /\ Tree[f] \in UserContents) \/ f = h
      <3>1. Shown(f) = disk[f].content /\ ~Hidden(f)
        BY <1>0, <1>1, <1>6, <2>1, <2>3 DEF Shown
      <3>2. ~(disk[f] = Proposed(t, f) /\ f \notin gone)
        BY <1>0, <1>1, <1>4, <3>1 DEF Hidden
      <3>3. \/ disk[f].content = before[t][f].content
            \/ f \in newer[t] /\ disk[f].content \in UserContents
        BY <1>1, <1>5, <3>2, KnownContent
      <3> QED  BY <1>6, <2>1, <2>3, <3>1, <3>3
    <2>4. kept \in SUBSET Atomic!Kept(t)
      BY <2>3 DEF Atomic!Kept
    <2>5. \A f \in Touched(t) \ kept : Tree[f] \in {BaseOf[t][f], Proposal(t, f)}
      BY <2>2
    <2>6. \A f \in Touched(t) \ kept : Shown(f)' = BaseOf[t][f]
      BY <1>0, <1>1, <1>6, <1>8, <1>9, <2>1
    <2>7. \A f \in Files : f \notin Touched(t) \ kept => Shown(f)' = Tree[f]
      BY <1>0, <1>1, <1>9, <2>1
    <2> HIDE DEF kept
    <2>8. Tree' = [f \in Files |-> IF f \in Touched(t) \ kept THEN BaseOf[t][f] ELSE Tree[f]]
      BY <1>6, <2>6, <2>7, TreeOf
    <2>9. Atomic!Undo(t)
      BY <1>10, <2>4, <2>5, <2>8 DEF Atomic!Undo
    <2> QED  BY <2>9 DEF t
  <1> QED  BY <1>11, <1>12

(* The moment the record says that the transaction is applied, all its     *)
(* proposals appear.                                                       *)
LEMMA SaveAppliedPuts ==
  ASSUME IInv, SaveApplied
  PROVE  Atomic!Put(writer.txn)
  <1> DEFINE t == writer.txn
             kept == {f \in Touched(t) \cap newer[t] :
                        ~(disk[f] = Proposed(t, f) /\ f \notin gone)}
  <1>1. /\ marker = t /\ t \in Txns /\ state[t] = "Applying"
        /\ At("apply", "recheck") /\ writer.todo = <<>>
    BY DEF IInv, WriterIsMarked, ApplyIsMarked, SaveApplied, Done, At
  <1>2. /\ state' = [state EXCEPT ![t] = "Applied"]
        /\ UNCHANGED <<disk, before, marker, newer, gone>>
    BY DEF SaveApplied, SetState, user
  <1>3. Types /\ disk \in [Files -> Image] /\ state \in [Txns -> TransactionState \cup {"none"}]
    BY DEF IInv, Types, FieldTypes
  <1>4. HalfDone(marker) /\ ~HalfDone(marker)'
    BY <1>1, <1>2, <1>3, EditAssumption DEF HalfDone
  <1>5. Captured(t) = Touched(t)
    BY <1>1, EditAssumption, MarkedIsWhole
  <1>6. Touched(t) \subseteq Files
    BY <1>1, OrderIsList
  <1>7. \A f \in Touched(t) : disk[f] = Proposed(t, f) \/ Own(t, f)
    <2>1. Elements(writer.todo) = {}
      BY <1>1, EmptyQueue
    <2> QED  BY <1>1, <1>6, <2>1 DEF IInv, FilesAreKnown, Passed
  <1> HIDE DEF t
  <1>8. \A f \in Files : Shown(f)' = disk[f].content /\ Tree[f] = Shown(f)
    BY <1>2, <1>4, TreeOf DEF Shown, Hidden
  <1>9. \A f \in Touched(t) : BaseOf[t][f] = before[t][f].content
    <2>1. \A f \in Touched(t) : BaseAt(t, f) = before[t][f].content
      BY <1>5 DEF BaseAt
    <2> QED  BY <1>1, <1>6, <2>1, TreeOf
  <1>10. ASSUME NEW f \in Touched(t)
         PROVE  /\ Proposed(t, f).content = Proposal(t, f)
                /\ Proposed(t, f).content.kind # "user"
                /\ f \in gone => disk[f].content = Nothing
                /\ f \in gone \ newer[t] => before[t][f].content = Nothing
                /\ disk[f].content.kind = "user" => disk[f].content \in UserContents
    <2>1. f \in gone => disk[f] = Missing /\ (f \in newer[t] \/ before[t][f] = Missing)
      BY <1>1, <1>5 DEF IInv, GoneIsMissing
    <2>2. Missing.content = Nothing
      BY DEF Missing, Plain
    <2>3. disk[f].content \in Contents
      BY <1>3, <1>6 DEF Image
    <2>4. disk[f].content.kind = "user" => disk[f].content \in UserContents
      BY <2>3 DEF Contents, UserContents
    <2> QED  BY <1>1, <1>3, <1>6, <2>1, <2>2, <2>4, ImagesAreSound
  <1>11. Nothing \in UserContents
    BY DEF UserContents
  <1>12. ASSUME NEW f \in kept
         PROVE  Tree[f] \in UserContents /\ Shown(f)' = Tree[f]
    <2>1. f \in Files /\ ~Hidden(f)
      BY <1>1, <1>6 DEF Hidden
    <2>2. Tree[f] = disk[f].content /\ Shown(f)' = disk[f].content
      BY <1>8, <2>1 DEF Shown
    <2>3. disk[f].content.kind = "user" \/ f \in gone
      BY <1>7 DEF Own
    <2> QED  BY <1>10, <1>11, <2>2, <2>3
  <1>13. ASSUME NEW f \in Touched(t) \ kept
         PROVE  Tree[f] = BaseOf[t][f] /\ Shown(f)' = Proposal(t, f)
    <2>1. disk[f] = Proposed(t, f) /\ (f \notin gone \/ f \notin newer[t])
      BY <1>7 DEF Own
    <2>2. CASE f \notin gone
      BY <1>1, <1>4, <1>6, <1>8, <1>9, <1>10, <2>1, <2>2 DEF Shown, Hidden
    <2>3. CASE f \in gone
      BY <1>1, <1>4, <1>6, <1>8, <1>9, <1>10, <2>1, <2>3 DEF Shown, Hidden
    <2> QED  BY <2>2, <2>3
  <1>14. ASSUME NEW f \in Files \ Touched(t)  PROVE Shown(f)' = Tree[f]
    BY <1>1, <1>8 DEF Shown, Hidden
  <1>15. kept \in SUBSET Atomic!Kept(t)
    BY <1>12 DEF Atomic!Kept
  <1>16. kept \subseteq Touched(t)
    OBVIOUS
  <1> HIDE DEF kept
  <1>17. Tree' = [f \in Files |-> IF f \in Touched(t) \ kept THEN Proposal(t, f) ELSE Tree[f]]
    BY <1>12, <1>13, <1>14, <1>16, TreeOf
  <1>18. UNCHANGED <<BaseOf, newer>>
    <2>1. ASSUME NEW u \in Txns, NEW g \in Files  PROVE BaseAt(u, g)' = BaseAt(u, g)
      BY <1>2 DEF BaseAt, Captured
    <2> QED  BY <1>2, <2>1, TreeOf, Zenon
  <1>19. Atomic!Put(t)
    BY <1>13, <1>15, <1>17, <1>18 DEF Atomic!Put
  <1> QED  BY <1>19 DEF t

(* The moment the record says that the transaction is rolled back nothing  *)
(* of it is left to hide.                                                  *)
LEMMA SaveRolledBackIsNotSeen ==
  ASSUME IInv, SaveRolledBack
  PROVE  UNCHANGED Atomic!vars
  <1> DEFINE t == writer.txn
  <1>1. /\ marker = t /\ t \in Txns /\ state[t] = "RollingBack"
        /\ At("rollback", "recheck") /\ writer.todo = <<>>
    BY DEF IInv, WriterIsMarked, RollbackIsMarked, SaveRolledBack, Done, At
  <1>2. /\ state' = [state EXCEPT ![t] = "RolledBack"]
        /\ UNCHANGED <<disk, before, marker, newer, gone>>
    BY DEF SaveRolledBack, SetState, user
  <1>3. Types /\ state \in [Txns -> TransactionState \cup {"none"}]
    BY DEF IInv, Types, FieldTypes
  <1>4. ~HalfDone(marker)'
    BY <1>1, <1>2, <1>3, EditAssumption DEF HalfDone
  <1>5. Touched(t) \subseteq Files /\ Captured(t) = Touched(t)
    BY <1>1, EditAssumption, OrderIsList, MarkedIsWhole
  <1>6. ASSUME NEW f \in Touched(t)
        PROVE  \/ disk[f] \in {before[t][f], Restored(t, f)}
               \/ Own(t, f)
    <2>1. Elements(writer.todo) = {}
      BY <1>1, EmptyQueue
    <2> QED  BY <1>1, <1>5, <2>1 DEF IInv, FilesAreKnown, Passed
  <1>7. ASSUME NEW f \in Touched(t)
        PROVE  /\ Restored(t, f).content = before[t][f].content
               /\ Proposed(t, f).content.kind # "user"
    BY <1>1, <1>3, <1>5, ImagesAreSound
  <1> HIDE DEF t
  <1>8. ASSUME NEW f \in Files, Hidden(f)  PROVE before[t][f].content = disk[f].content
    BY <1>1, <1>6, <1>7, <1>8 DEF Hidden, Own
  <1>9. \A f \in Files : Shown(f)' = disk[f].content
    BY <1>2, <1>4 DEF Shown, Hidden
  <1>10. \A f \in Files : Shown(f) = disk[f].content
    BY <1>1, <1>8 DEF Shown
  <1>11. Tree' = Tree
    BY <1>9, <1>10, TreeOf
  <1>12. BaseOf' = BaseOf
    <2>1. ASSUME NEW u \in Txns, NEW g \in Files  PROVE BaseAt(u, g)' = BaseAt(u, g)
      BY <1>2 DEF BaseAt, Captured
    <2> QED  BY <2>1, TreeOf, Zenon
  <1> QED  BY <1>2, <1>11, <1>12 DEF Atomic!vars

(* A conflict is seen only where it makes an applied transaction half done.*)
LEMMA ConflictUndoes ==
  ASSUME IInv, writer.op # "idle", Conflict
  PROVE  Atomic!Undo(writer.txn) \/ UNCHANGED Atomic!vars
  <1>0. PICK t \in Txns : t = writer.txn
    BY WriterIsWhole
  <1>1. t \in Txns /\ Captured(t) = Touched(t)
    BY <1>0, WriterIsWhole
  <1>2. /\ state' = [state EXCEPT ![t] = "Conflicted"]
        /\ UNCHANGED <<disk, before, marker, newer, gone>>
    BY <1>0 DEF Conflict, SetState, user
  <1>3. state \in [Txns -> TransactionState \cup {"none"}] /\ marker \in Txns \cup {NoTxn}
    BY DEF IInv, Types, FieldTypes
  <1>4. CASE marker = t /\ ~HalfDone(marker)
    <2>1. HalfDone(t)'
      BY <1>1, <1>2, <1>3, EditAssumption DEF HalfDone
    <2>2. \A f \in Touched(t) : Known(t, f)
      BY <1>1, <1>4, EditAssumption, MarkedIsWhole
    <2>3. Atomic!Undo(t)
      BY <1>1, <1>2, <1>4, <2>1, <2>2, HalfDoneUndoes
    <2> QED  BY <1>0, <2>3
  <1>5. CASE marker # t \/ HalfDone(marker)
    <2>1. HalfDone(marker)' = HalfDone(marker)
      BY <1>1, <1>2, <1>3, <1>5 DEF HalfDone
    <2> QED  BY <1>2, <2>1, NothingIsSeen
  <1> QED  BY <1>4, <1>5

(* The first tree holds what is in the files.                              *)
LEMMA InitImplements == IInv /\ Init => Atomic!Init
  <1> SUFFICES ASSUME IInv, Init  PROVE Atomic!Init
    OBVIOUS
  <1>1. \A f \in Files : Shown(f) = disk[f].content /\ disk[f].content \in Contents
    BY DEF Init, IInv, Types, FieldTypes, Image, Shown, Hidden, HalfDone
  <1>2. \A t \in Txns, f \in Files : BaseAt(t, f) \in Contents
    <2>1. \A t \in Txns : Captured(t) = {}
      BY DEF Init, Captured
    <2> QED  BY <2>1 DEF BaseAt, Contents, Nothing
  <1>3. Tree \in [Files -> Contents] /\ BaseOf \in [Txns -> [Files -> Contents]]
    BY <1>1, <1>2, TreeOf
  <1> QED  BY <1>3 DEF Atomic!Init, Init

(* A step of the writer that changes neither files nor records is not seen.*)
LEMMA QuietSteps ==
  ASSUME IInv, UNCHANGED <<disk, records, marker, user>>
  PROVE  UNCHANGED Atomic!vars
  <1>1. UNCHANGED <<disk, state, before, marker, newer, gone>>
    BY DEF records, user
  <1> QED  BY <1>1, NothingIsSeen DEF HalfDone

(* The marker is published; for a conflicted transaction the owner sees    *)
(* the files it has replaced taken back.                                   *)
LEMMA MarkerSteps ==
  ASSUME IInv, BeginApply \/ BeginRollback
  PROVE  Atomic!Undo(writer.txn) \/ UNCHANGED Atomic!vars
  <1>0. writer.op # "idle" /\ writer.todo = <<>>
    BY DEF BeginApply, BeginRollback, Done, At
  <1>1. PICK t \in Txns : t = writer.txn /\ Captured(t) = Touched(t)
    BY <1>0, WriterIsWhole
  <1>2. UNCHANGED <<disk, state, before, newer, gone>>
    BY DEF BeginApply, BeginRollback, records, user
  <1>3. writer.pc = "check" /\ marker \in {NoTxn, t} /\ marker' = t
    BY <1>1 DEF BeginApply, BeginRollback, Done, At, IInv, WriterIsMarked,
       ApplyIsMarked, RollbackIsMarked
  <1>4. \A f \in Touched(t) : Known(t, f)
    <2>1. Elements(writer.todo) = {} /\ Touched(t) \subseteq Files
      BY <1>0, EmptyQueue, OrderIsList
    <2> QED  BY <1>0, <1>1, <1>3, <2>1 DEF IInv, FilesAreKnown, Passed
  <1>5. CASE ~HalfDone(marker) /\ HalfDone(t)'
    BY <1>1, <1>2, <1>3, <1>4, <1>5, HalfDoneUndoes
  <1>6. CASE HalfDone(marker) \/ ~HalfDone(t)'
    <2>1. HalfDone(t)' = HalfDone(t)
      BY <1>2 DEF HalfDone
    <2>2. HalfDone(marker) => marker = t
      BY <1>3 DEF HalfDone
    <2>3. HalfDone(marker)' = HalfDone(t)'
      BY <1>3 DEF HalfDone
    <2>4. HalfDone(marker) \in BOOLEAN /\ HalfDone(marker)' \in BOOLEAN
      BY DEF HalfDone
    <2>5. HalfDone(marker) <=> HalfDone(marker)'
      BY <1>6, <2>1, <2>2, <2>3
    <2>6. HalfDone(marker)' = HalfDone(marker)
      BY <2>4, <2>5
    <2> QED  BY <1>2, <1>3, <2>2, <2>6, NothingIsSeen
  <1> QED  BY <1>5, <1>6

(* The record says that files are about to be replaced.                    *)
LEMMA RecordSteps ==
  ASSUME IInv, SaveApplying \/ SaveRollingBack
  PROVE  Atomic!Undo(writer.txn) \/ UNCHANGED Atomic!vars
  <1>1. writer.op # "idle" /\ writer.pc = "begun"
    BY DEF SaveApplying, SaveRollingBack, At
  <1>2. PICK t \in Txns : t = writer.txn /\ Captured(t) = Touched(t)
    BY <1>1, WriterIsWhole
  <1>3. marker = t
    BY <1>1, <1>2 DEF SaveApplying, SaveRollingBack, At, IInv, WriterIsMarked,
       ApplyIsMarked, RollbackIsMarked
  <1>4. /\ UNCHANGED <<disk, before, marker, newer, gone>>
        /\ \E s \in {"Applying", "RollingBack"} : state' = [state EXCEPT ![t] = s]
    BY <1>2 DEF SaveApplying, SaveRollingBack, SetState, user
  <1>5. HalfDone(t)'
    BY <1>4, EditAssumption DEF HalfDone, IInv, Types, FieldTypes
  <1>6. \A f \in Touched(t) : Known(t, f)
    BY <1>3, EditAssumption, MarkedIsWhole
  <1>7. CASE ~HalfDone(marker)
    BY <1>2, <1>3, <1>4, <1>5, <1>6, <1>7, HalfDoneUndoes
  <1>8. CASE HalfDone(marker)
    <2>1. HalfDone(marker)'
      BY <1>3, <1>4, <1>5 DEF HalfDone
    <2> QED  BY <1>4, <1>8, <2>1, NothingIsSeen
  <1> QED  BY <1>7, <1>8

(* A record that is first saved is not marked.                             *)
LEMMA PreviewIsNotSeen ==
  ASSUME IInv, NEW t \in Txns, SavePreview(t)
  PROVE  UNCHANGED Atomic!vars
  <1>1. /\ state[t] = "none" /\ state' = [state EXCEPT ![t] = "Previewed"]
        /\ UNCHANGED <<disk, before, marker, newer, gone>>
    BY DEF SavePreview, SetState, user
  <1>2. marker # t
    BY <1>1, EditAssumption DEF IInv, WriterIsMarked
  <1>3. HalfDone(marker)' = HalfDone(marker)
    BY <1>1, <1>2 DEF HalfDone, IInv, Types, FieldTypes
  <1> QED  BY <1>1, <1>3, NothingIsSeen

(* The marker goes away after the transaction is whole again.              *)
LEMMA FinishIsNotSeen ==
  ASSUME IInv, Finish
  PROVE  UNCHANGED Atomic!vars
  <1>1. /\ writer.pc = "finish" /\ marker' \in {NoTxn, marker}
        /\ UNCHANGED <<disk, state, before, newer, gone>>
    BY DEF Finish, records, user
  <1>2. writer.op \in {"apply", "rollback"}
    BY <1>1, IdleFields DEF IInv, Types, FieldTypes, Fields, WriterIsMarked
  <1>3. ~HalfDone(marker) /\ state[marker] \in {"Applied", "RolledBack"}
    BY <1>1, <1>2 DEF IInv, WriterIsMarked, ApplyIsMarked, RollbackIsMarked, HalfDone
  <1>4. HalfDone(marker) = FALSE /\ HalfDone(marker)' = FALSE
    BY <1>1, <1>3 DEF HalfDone
  <1> QED  BY <1>1, <1>3, <1>4, NothingIsSeen

(* Each step is a Prepare, an Edit, a Put, an Undo or not seen at all.     *)
LEMMA StepImplements ==
  ASSUME IInv, [Next]_vars
  PROVE  [Atomic!Next]_(Atomic!vars)
  <1>1. ASSUME NEW t \in Txns, Capture(t)  PROVE Atomic!Next
    BY <1>1, CapturePrepares DEF Atomic!Next
  <1>2. ASSUME NEW t \in Txns, SavePreview(t)  PROVE UNCHANGED Atomic!vars
    BY <1>2, PreviewIsNotSeen
  <1>3. ASSUME NEW t \in Txns, StartApply(t) \/ StartRollback(t)  PROVE UNCHANGED Atomic!vars
    BY <1>3, QuietSteps DEF StartApply, StartRollback
  <1>4. ASSUME Conflict, writer.op # "idle"  PROVE Atomic!Next \/ UNCHANGED Atomic!vars
    BY <1>4, ConflictUndoes, WriterIsWhole DEF Atomic!Next
  <1>5. CASE CheckSource \/ RecheckSource \/ Inspect \/ RecheckRestored \/ RestoreFails
    <2>1. writer.op # "idle" /\ (Conflict \/ UNCHANGED <<disk, records, marker, user>>)
      BY <1>5 DEF CheckSource, RecheckSource, Inspect, RecheckRestored, RestoreFails,
         Working, At
    <2> QED  BY <1>4, <2>1, QuietSteps
  <1>6. CASE BeginApply \/ BeginRollback
    <2>1. writer.txn \in Txns
      BY <1>6, WriterIsWhole DEF BeginApply, BeginRollback, Done, At
    <2> QED  BY <1>6, <2>1, MarkerSteps DEF Atomic!Next
  <1>7. CASE SaveApplying \/ SaveRollingBack
    <2>1. writer.txn \in Txns
      BY <1>7, WriterIsWhole DEF SaveApplying, SaveRollingBack, At
    <2> QED  BY <1>7, <2>1, RecordSteps DEF Atomic!Next
  <1>8. CASE Replace
    BY <1>8, ReplaceIsNotSeen
  <1>9. CASE ReplaceFails \/ Recheck \/ RecheckRollback \/ Crash
    BY <1>9, QuietSteps DEF ReplaceFails, Recheck, RecheckRollback, Crash
  <1>10. CASE SaveApplied
    <2>1. writer.txn \in Txns
      BY <1>10, WriterIsWhole DEF SaveApplied, Done, At
    <2> QED  BY <1>10, <2>1, SaveAppliedPuts DEF Atomic!Next
  <1>11. CASE Restore
    <2>1. writer.txn \in Txns
      BY <1>11, WriterIsWhole DEF Restore, Working, At
    <2> QED  BY <1>11, <2>1, RestoreUndoes DEF Atomic!Next
  <1>12. CASE SaveRolledBack
    BY <1>12, SaveRolledBackIsNotSeen
  <1>13. CASE Finish
    BY <1>13, FinishIsNotSeen
  <1>14. ASSUME NEW f \in Files, UserEdits(f)  PROVE Atomic!Next
    BY <1>14, UserEditsTheTree DEF Atomic!Next
  <1>15. CASE UNCHANGED vars
    BY <1>15, QuietSteps DEF vars, records, user
  <1> QED
    BY <1>1, <1>2, <1>3, <1>5, <1>6, <1>7, <1>8, <1>9, <1>10, <1>11, <1>12, <1>13,
       <1>14, <1>15 DEF Next, ApplyStep, RollbackStep

(* Over crashes, failed writes, cancellation and edits by the user, the    *)
(* steps of apply and rollback amount to one atomic Put and one Undo.      *)
THEOREM EditIsAtomic == Spec => ImplementsAtomicEdit
  <1>1. Init => Atomic!Init
    BY InitSound, InitImplements
  <1>2. IInv /\ [Next]_vars => [Atomic!Next]_(Atomic!vars)
    BY StepImplements
  <1> QED  BY <1>1, <1>2, Invariance, PTL DEF Spec, ImplementsAtomicEdit, Atomic!Spec
=============================================================================
