-------------------------- MODULE TeamRuntimeProofs --------------------------
(***************************************************************************)
(* Theorems about the mailbox in the hands of a team, for any number of    *)
(* teammates, messages, failed appends and restarts.                       *)
(***************************************************************************)
EXTENDS TeamRuntime, SequenceProofs, FiniteSetTheorems

Calls == [msg : Messages \cup {NoMessage}, wake : BOOLEAN]

Locks == [msg : Messages \cup {NoMessage}, step : LockStep]

JournalState == {"none", "queued", "delivered", "applied", "rejected", "wake_failed"}

PcState == {"absent", "turn", "send", "commit", "after", "wait", "check", "finish",
            "emit", "ended"}

(* Sequences of messages; the proofs below know of them only what the      *)
(* lemmas about queues say.                                                *)
Lines == Seq(Messages)

MailTypes ==
  /\ state \in [Agents -> AgentState \cup {"none"}]
  /\ queue \in [Agents -> Lines]
  /\ hand \in [Agents -> Lines]
  /\ seen \subseteq Messages
  /\ receipt \in [Messages -> ReceiptState \cup {"none"}]
  /\ call \in [Agents -> Calls]
  /\ lock \in Locks
  /\ journal \in [Messages -> JournalState]
  /\ order \in Lines
  /\ known \in [Agents -> Ended \cup {"none", "live"}]
  /\ logFailed \in BOOLEAN
  /\ faults \in 0..MaxFaults
  /\ given \in [Messages -> Nat]
  /\ denied \subseteq Messages

TeamTypes ==
  /\ pc \in [Workers -> PcState]
  /\ reports \in [Workers -> 0..MaxReports]
  /\ leaving \in [Workers -> BOOLEAN]
  /\ good \in [Workers -> BOOLEAN]
  /\ stopper \in [Workers -> {"none", "emit", "reject", "done"}]
  /\ recorded \subseteq Reports
  /\ kept \subseteq recorded
  /\ pending \subseteq kept
  /\ todo \subseteq Reports
  /\ noted \subseteq Notes
  /\ tries \in [Steers -> 0..MaxTries]
  /\ restarts \in 0..MaxRestarts

(* The lead runs or is gone; a teammate that is registered was spawned; a  *)
(* thread that sends sends its last report.                                *)
ThreadsAreSound ==
  /\ state[Lead] # "Idle"
  /\ \A w \in Workers :
       /\ state[w] # "none" \/ known[w] # "none" => pc[w] # "absent"
       /\ pc[w] = "send" => reports[w] > 0
       /\ pc[w] = "commit" => call[w].msg \in Reports

(* A message whose send is under way is reserved, by nobody else, and was  *)
(* accepted never before, by the queue or by the log, unless its sender    *)
(* has queued it and holds the lifecycle lock to wake the recipient.       *)
Unsent(m) ==
  /\ receipt[m] \in {"none", "rejected"} /\ journal[m] \in {"none", "wake_failed"}
  /\ receipt[m] = "rejected" => m \in denied

Held(m) == lock.step # "free" /\ lock.msg = m

CallsAreSound ==
  \A c \in Agents : call[c].msg # NoMessage =>
    /\ call[c].msg \in seen /\ call[c].msg \in Reports \cup noted
    /\ Unsent(call[c].msg) \/ Held(call[c].msg)
    /\ call[c].msg \in Reports => ~call[c].wake
    /\ \A d \in Agents : d # c => call[d].msg # call[c].msg

(* While a sender holds the lifecycle lock, its message is where it put    *)
(* it: in the queue and in the log.                                        *)
LockIsSound ==
  lock.step # "free" =>
    /\ lock.msg \in Notes \cup Steers
    /\ receipt[lock.msg] = "queued" /\ journal[lock.msg] = "queued"
    /\ lock.msg \notin denied
    /\ lock.msg \in Notes => call[Lead].msg = lock.msg

(* An id that is not reserved can be used.                                 *)
FreeIdsAreUnsent ==
  /\ \A m \in Messages \ (Steers \cup seen) :
       receipt[m] \in {"none", "rejected"} /\ journal[m] \in {"none", "wake_failed"}
  /\ \A m \in Notes \ noted : receipt[m] = "none" /\ journal[m] = "none"
  /\ \A m \in Reports : /\ journal[m] # "wake_failed"
                        /\ receipt[m] = "rejected" /\ m \notin seen => m \in denied

(* What memory and log say of a message agrees, until an append fails in   *)
(* an unknown way; no record is written after that.                        *)
LogAgrees ==
  \A m \in Messages :
    /\ receipt[m] = "delivered" => journal[m] = "delivered"
    /\ given[m] > 0 => /\ given[m] = 1
                       /\ receipt[m] \in {"applied", "unknown"}
                       /\ journal[m] \in {"delivered", "applied"}
    /\ ~logFailed => /\ receipt[m] = "queued" => journal[m] = "queued"
                     /\ receipt[m] \in {"none", "rejected"} =>
                          journal[m] \notin {"delivered", "applied"}

OrderIsSound ==
  /\ Distinct(order)
  /\ \A m \in Messages : journal[m] # "none" => m \in Elements(order)

QueuesAreSound ==
  \A a \in Agents :
    /\ Distinct(queue[a]) /\ Distinct(hand[a])
    /\ \A m \in Messages : m \in Elements(queue[a]) <=> receipt[m] = "queued" /\ To[m] = a
    /\ \A m \in Elements(hand[a]) : receipt[m] = "delivered" /\ To[m] = a

(* What lies before an agent, in hand or in the queue.                     *)
Line(a) == hand[a] \o queue[a]

LinesAreInOrder ==
  \A a \in Agents, x, y \in Messages :
    Precedes(Line(a), x, y) /\ y \notin Steers => Precedes(order, x, y)

(* A sender was told no: only a restart may bring the message back, for an *)
(* agent that is gone.                                                     *)
DeniedIsOut ==
  \A m \in denied :
    /\ given[m] = 0 /\ receipt[m] # "delivered"
    /\ receipt[m] = "queued" => /\ To[m] \in Workers
                                /\ state[To[m]] = "none" /\ pc[To[m]] = "ended"
    /\ journal[m] = "queued" => m \in Steers /\ pc[To[m]] # "absent"

MailIsSound ==
  /\ CallsAreSound /\ FreeIdsAreUnsent /\ LogAgrees /\ OrderIsSound
  /\ QueuesAreSound /\ LinesAreInOrder /\ DeniedIsOut /\ LockIsSound

IInv == MailTypes /\ TeamTypes /\ ThreadsAreSound /\ MailIsSound /\ ResultAccounted

-----------------------------------------------------------------------------
(***************************************************************************)
(* What the steps of a team do to the mailbox.                             *)
(***************************************************************************)

(* Nothing that the mailbox holds changes.                                 *)
Still == UNCHANGED <<mailboxVars, journal, order>>

(* Threads do not come back; notes are sent once; a teammate that is not   *)
(* registered and whose thread is gone is not registered again.            *)
Steady ==
  /\ noted \subseteq noted'
  /\ \A w \in Workers : /\ pc[w] = "ended" => pc'[w] = "ended"
                        /\ pc[w] # "absent" => pc'[w] # "absent"
                        /\ state[w] = "none" /\ pc[w] = "ended" => state'[w] = "none"

(* The log refuses everything after an append that failed in an unknown    *)
(* way.                                                                    *)
LogSteady == logFailed => logFailed'

(* The record of a message is written anew, at the end of the log.         *)
Rewritten(m, j) ==
  /\ journal' = [journal EXCEPT ![m] = j]
  /\ order' = Append(Without(order, m), m)

(* The three ends of a message that its sender publishes.                  *)
NotSent(m) ==
  /\ UNCHANGED receipt \/ receipt' = [receipt EXCEPT ![m] = "rejected"]
  /\ denied' = denied \cup {m}
  /\ UNCHANGED <<journal, order, queue>>

InDoubt(m) ==
  /\ receipt' = [receipt EXCEPT ![m] = "unknown"]
  /\ UNCHANGED <<journal, order>> \/ Rewritten(m, "queued")
  /\ denied' = denied \ {m}
  /\ UNCHANGED queue

Accepts(m) ==
  /\ receipt' = [receipt EXCEPT ![m] = "queued"]
  /\ ~logFailed
  /\ \/ Rewritten(m, "queued")
     \/ UNCHANGED <<journal, order>> /\ journal[m] \in {"queued", "delivered", "applied"}
  /\ queue' = [queue EXCEPT ![To[m]] = Append(@, m)]
  /\ denied' = denied \ {m}

(* An append, whatever becomes of it.                                      *)
LEMMA AppendKeeps ==
  ASSUME MailTypes, NEW o, Append1(o)
  PROVE  /\ logFailed' \in BOOLEAN /\ faults' \in 0..MaxFaults /\ LogSteady
         /\ o = "ok" => logFailed = FALSE /\ logFailed' = FALSE
         /\ o \in {"kept", "dropped"} => logFailed = FALSE /\ logFailed' = TRUE
         /\ o = "refused" => logFailed' = logFailed
         /\ o \in {"ok", "refused", "kept", "dropped"}
  <1>1. logFailed \in BOOLEAN /\ faults \in 0..MaxFaults /\ MaxFaults \in Nat
    BY MailboxAssumption DEF MailTypes
  <1>2. /\ o \in Outcomes
        /\ logFailed' = (logFailed \/ o \in {"kept", "dropped"})
        /\ faults' = IF o = "ok" \/ logFailed THEN faults ELSE faults + 1
    BY DEF Append1
  <1>3. CASE logFailed = TRUE
    <2>1. o = "refused"
      BY <1>2, <1>3 DEF Outcomes
    <2> QED  BY <1>1, <1>2, <1>3, <2>1 DEF LogSteady
  <1>4. CASE logFailed = FALSE
    <2>1. o \in {"ok"} \cup IF faults < MaxFaults THEN {"refused", "kept", "dropped"} ELSE {}
      BY <1>2, <1>4 DEF Outcomes
    <2>2. CASE o = "ok"
      BY <1>1, <1>2, <1>4, <2>2 DEF LogSteady
    <2>3. CASE faults < MaxFaults /\ o \in {"refused", "kept", "dropped"}
      <3>1. faults' \in 0..MaxFaults
        BY <1>1, <1>2, <1>4, <2>3
      <3>2. o = "refused" \/ o \in {"kept", "dropped"}
        BY <2>3
      <3> QED  BY <1>2, <1>4, <2>3, <3>1, <3>2 DEF LogSteady
    <2> QED  BY <2>1, <2>2, <2>3
  <1> QED  BY <1>1, <1>3, <1>4

(* The fold of the log over a queued record.                               *)
LEMMA LogQueuedCases ==
  ASSUME MailTypes, NEW m \in Messages, LogQueued(m)
  PROVE  \/ Rewritten(m, "queued")
         \/ UNCHANGED <<journal, order>> /\ journal[m] \in {"queued", "delivered", "applied"}
  <1>1. journal[m] \in JournalState
    BY DEF MailTypes
  <1>2. CASE journal[m] = "none" \/ Reopens(m)
    BY <1>2 DEF LogQueued, Rewritten
  <1>3. CASE ~ (journal[m] = "none" \/ Reopens(m))
    BY <1>1, <1>3 DEF LogQueued, Reopens, JournalState
  <1> QED  BY <1>2, <1>3

(* A message is published in one of three ways; only one that can be seen  *)
(* may keep the lock.                                                      *)
LEMMA PublishCases ==
  ASSUME MailTypes, NEW m \in Messages, NEW next \in LockStep, NEW o, Publish(m, next, o)
  PROVE  /\ logFailed' \in BOOLEAN /\ faults' \in 0..MaxFaults /\ LogSteady
         /\ lock = Free /\ UNCHANGED <<state, known, hand, given>>
         /\ LET answer == PublishAnswer(m, next, o) IN
            \/ NotSent(m) /\ answer \in {"full", "refused"} /\ lock' = Free
            \/ InDoubt(m) /\ answer = "unknown" /\ lock' = Free
            \/ Accepts(m) /\ answer = "ok" /\ lock' = Free
            \/ /\ Accepts(m) /\ answer = "waking" /\ next # "free"
               /\ lock' = [msg |-> m, step |-> next]
  <1>0. logFailed \in BOOLEAN /\ faults \in 0..MaxFaults
    BY DEF MailTypes
  <1> DEFINE answer == PublishAnswer(m, next, o)
  <1>1. /\ receipt' = [receipt EXCEPT ![m] = ReceiptOf(m, answer)]
        /\ queue' = IF Visible(answer) THEN [queue EXCEPT ![To[m]] = Append(@, m)] ELSE queue
        /\ lock = Free
        /\ lock' = IF answer = "waking" THEN [msg |-> m, step |-> next] ELSE Free
        /\ denied' = Denied(m, answer)
        /\ UNCHANGED <<state, known, hand, given>>
    BY DEF Publish
  <1>2. /\ IF Full(m) THEN o = "ok" /\ UNCHANGED <<logFailed, faults>> ELSE Append1(o)
        /\ IF Full(m) \/ ~Logged(o) THEN UNCHANGED <<journal, order>> ELSE LogQueued(m)
    BY DEF Publish
  <1>3. logFailed' \in BOOLEAN /\ faults' \in 0..MaxFaults /\ LogSteady
    BY <1>0, <1>2, AppendKeeps DEF LogSteady
  <1>4. receipt = [receipt EXCEPT ![m] = receipt[m]]
    BY DEF MailTypes
  <1>5. CASE Full(m)
    <2>1. answer = "full"
      BY <1>5 DEF PublishAnswer
    <2>2. NotSent(m) /\ lock' = Free
      BY <1>1, <1>2, <1>5, <2>1 DEF NotSent, ReceiptOf, Visible, Denied, Refusal
    <2> QED  BY <1>1, <1>3, <2>1, <2>2
  <1>6. CASE ~Full(m) /\ o = "refused"
    <2>1. answer = "refused"
      BY <1>6 DEF PublishAnswer
    <2>2. NotSent(m) /\ lock' = Free
      BY <1>1, <1>2, <1>4, <1>6, <2>1
      DEF NotSent, ReceiptOf, Logged, Visible, Denied, Refusal
    <2> QED  BY <1>1, <1>3, <2>1, <2>2
  <1>7. CASE ~Full(m) /\ o \in {"kept", "dropped"}
    <2>1. answer = "unknown"
      BY <1>7 DEF PublishAnswer
    <2>2. UNCHANGED <<journal, order>> \/ LogQueued(m)
      BY <1>2, <1>7
    <2>3. InDoubt(m) /\ lock' = Free
      BY <1>1, <2>1, <2>2, LogQueuedCases DEF InDoubt, ReceiptOf, Visible, Denied, Refusal
    <2> QED  BY <1>1, <1>3, <2>1, <2>3
  <1>8. CASE ~Full(m) /\ o \notin {"refused", "kept", "dropped"}
    <2>1. Append1(o)
      BY <1>2, <1>8
    <2>2. o = "ok" /\ ~logFailed
      BY <1>8, <2>1, AppendKeeps
    <2>3. answer = IF next = "free" THEN "ok" ELSE "waking"
      BY <1>8, <2>2 DEF PublishAnswer
    <2>4. LogQueued(m)
      BY <1>2, <1>8, <2>2 DEF Logged
    <2>5. Accepts(m)
      BY <1>1, <2>2, <2>3, <2>4, LogQueuedCases
      DEF Accepts, ReceiptOf, Visible, Denied, Refusal
    <2> QED  BY <1>1, <1>3, <2>3, <2>5
  <1> QED  BY <1>5, <1>6, <1>7, <1>8

-----------------------------------------------------------------------------
(***************************************************************************)
(* Lines and the order of the log.                                         *)
(***************************************************************************)

(* What a record that is written anew does to the order of the log.        *)
LEMMA Requeue ==
  ASSUME NEW s \in Lines, Distinct(s), NEW m \in Messages
  PROVE  LET t == Append(Without(s, m), m) IN
         /\ t \in Lines /\ Distinct(t)
         /\ Elements(t) = Elements(s) \cup {m}
         /\ \A x, y \in Messages : x # m /\ y # m /\ Precedes(s, x, y) => Precedes(t, x, y)
         /\ \A x \in Elements(s) : x # m => Precedes(t, x, m)
  <1> DEFINE rest == Messages \ {m}
             k == Keep(s, rest)
             t == Append(k, m)
  <1>1. Without(s, m) = k
    BY DEF Without
  <1>2. k \in Lines
    BY KeepSifts DEF Lines
  <1>3. Elements(k) = Elements(s) \cap rest /\ Elements(s) \subseteq Messages
    BY KeepElements, ElementsTyped DEF Lines
  <1>4. /\ Distinct(k)
        /\ \A x, y \in rest : Precedes(s, x, y) => Precedes(k, x, y)
    BY KeptQueue DEF Lines
  <1> HIDE DEF k
  <1>5. /\ t \in Lines
        /\ Elements(t) = Elements(k) \cup {m}
        /\ Distinct(k) /\ m \notin Elements(k) => Distinct(t)
    BY <1>2, AppendedQueue DEF Lines
  <1>6. \A x, y : Precedes(t, x, y) <=> Precedes(k, x, y) \/ (x \in Elements(k) /\ y = m)
    BY <1>2, AppendedLine DEF Lines
  <1> HIDE DEF t
  <1>7. m \notin Elements(k)
    BY <1>3
  <1>8. Elements(t) = Elements(s) \cup {m}
    BY <1>3, <1>5
  <1>9. \A x, y \in Messages : x # m /\ y # m /\ Precedes(s, x, y) => Precedes(t, x, y)
    BY <1>4, <1>6
  <1>10. \A x \in Elements(s) : x # m => Precedes(t, x, m)
    BY <1>3, <1>6
  <1>11. t \in Lines /\ Distinct(t)
    BY <1>4, <1>5, <1>7
  <1> QED  BY <1>1, <1>8, <1>9, <1>10, <1>11 DEF t

(* Who stands in the line of an agent is queued or delivered there.        *)
LEMMA LineMembers ==
  ASSUME MailTypes, QueuesAreSound, NEW a \in Agents
  PROVE  /\ hand[a] \in Lines /\ queue[a] \in Lines /\ Line(a) \in Lines
         /\ Elements(Line(a)) = Elements(hand[a]) \cup Elements(queue[a])
         /\ \A m \in Elements(Line(a)) :
              m \in Messages /\ To[m] = a /\ receipt[m] \in {"queued", "delivered"}
  <1>1. hand[a] \in Lines /\ queue[a] \in Lines
    BY DEF MailTypes
  <1>2. Line(a) \in Lines /\ Elements(Line(a)) = Elements(hand[a]) \cup Elements(queue[a])
    BY <1>1, JoinedLine DEF Line, Lines
  <1>3. Elements(Line(a)) \subseteq Messages
    BY <1>2, ElementsTyped DEF Lines
  <1>4. \A m \in Elements(Line(a)) : To[m] = a /\ receipt[m] \in {"queued", "delivered"}
    BY <1>2, <1>3 DEF QueuesAreSound
  <1> QED  BY <1>1, <1>2, <1>3, <1>4

(* A record that is written for a message in nobody's line moves no line.  *)
LEMMA LinesStay ==
  ASSUME MailTypes, QueuesAreSound, OrderIsSound, LinesAreInOrder,
         UNCHANGED <<hand, queue>>,
         \/ UNCHANGED order
         \/ \E m \in Messages : /\ receipt[m] \notin {"queued", "delivered"}
                                /\ order' = Append(Without(order, m), m)
  PROVE  LinesAreInOrder'
  <1> SUFFICES ASSUME NEW a \in Agents, NEW x \in Messages, NEW y \in Messages,
                      Precedes(Line(a)', x, y), y \notin Steers
               PROVE  Precedes(order', x, y)
    BY DEF LinesAreInOrder
  <1>1. Line(a)' = Line(a)
    BY DEF Line
  <1>2. Precedes(order, x, y)
    BY <1>1 DEF LinesAreInOrder
  <1>3. x \in Elements(Line(a)) /\ y \in Elements(Line(a))
    BY <1>1, PrecedesElements
  <1>4. receipt[x] \in {"queued", "delivered"} /\ receipt[y] \in {"queued", "delivered"}
    BY <1>3, LineMembers
  <1>5. CASE UNCHANGED order
    BY <1>2, <1>5
  <1>6. ASSUME NEW m \in Messages, receipt[m] \notin {"queued", "delivered"},
               order' = Append(Without(order, m), m)
        PROVE  Precedes(order', x, y)
    <2>1. order \in Lines /\ Distinct(order)
      BY DEF MailTypes, OrderIsSound
    <2>2. x # m /\ y # m
      BY <1>4, <1>6
    <2> QED  BY <1>2, <1>6, <2>1, <2>2, Requeue
  <1> QED  BY <1>5, <1>6

(* The order of the log after a record that is written anew, or none.      *)
LEMMA OrderStays ==
  ASSUME MailTypes, OrderIsSound, NEW m \in Messages, NEW j \in JournalState, j # "none",
         UNCHANGED <<journal, order>> \/ Rewritten(m, j)
  PROVE  OrderIsSound' /\ order' \in Lines /\ journal' \in [Messages -> JournalState]
  <1>1. order \in Lines /\ Distinct(order) /\ journal \in [Messages -> JournalState]
    BY DEF MailTypes, OrderIsSound
  <1>2. CASE UNCHANGED <<journal, order>>
    BY <1>1, <1>2 DEF OrderIsSound
  <1>3. CASE Rewritten(m, j)
    <2>1. /\ order' \in Lines /\ Distinct(order')
          /\ Elements(order') = Elements(order) \cup {m}
      BY <1>1, <1>3, Requeue DEF Rewritten
    <2>2. journal' \in [Messages -> JournalState]
      BY <1>1, <1>3 DEF Rewritten
    <2>3. \A x \in Messages : x # m => journal'[x] = journal[x]
      BY <1>1, <1>3 DEF Rewritten
    <2>4. \A x \in Messages : journal'[x] # "none" => x \in Elements(order')
      BY <2>1, <2>3 DEF OrderIsSound
    <2> QED  BY <2>1, <2>2, <2>4 DEF OrderIsSound
  <1> QED  BY <1>2, <1>3

-----------------------------------------------------------------------------
(***************************************************************************)
(* The mailbox stays sound, whatever is done to it.                        *)
(***************************************************************************)

(* Steps that leave the mailbox alone.                                     *)
LEMMA StillMail ==
  ASSUME MailTypes, MailIsSound, Still, Steady, LogSteady
  PROVE  MailIsSound'
  <1> USE DEF Still, mailboxVars
  <1>1. CallsAreSound'
    <2>1. \A m \in Messages : Unsent(m)' <=> Unsent(m)
      BY DEF Unsent
    <2> QED  BY <2>1, TeamAssumption DEF MailIsSound, CallsAreSound, Unsent, Held, Steady
  <1>2. FreeIdsAreUnsent'
    BY DEF MailIsSound, FreeIdsAreUnsent, Steady
  <1>3. LogAgrees'
    BY DEF MailIsSound, LogAgrees, LogSteady
  <1>4. OrderIsSound'
    BY DEF MailIsSound, OrderIsSound
  <1>5. QueuesAreSound'
    BY DEF MailIsSound, QueuesAreSound
  <1>6. LinesAreInOrder'
    BY LinesStay DEF MailIsSound
  <1>7. DeniedIsOut'
    <2> SUFFICES ASSUME NEW m \in denied
                 PROVE  /\ given[m] = 0 /\ receipt[m] # "delivered"
                        /\ receipt[m] = "queued" =>
                             /\ To[m] \in Workers
                             /\ state'[To[m]] = "none" /\ pc'[To[m]] = "ended"
                        /\ journal[m] = "queued" => m \in Steers /\ pc'[To[m]] # "absent"
      BY DEF DeniedIsOut
    <2>1. /\ given[m] = 0 /\ receipt[m] # "delivered"
          /\ receipt[m] = "queued" => /\ To[m] \in Workers
                                      /\ state[To[m]] = "none" /\ pc[To[m]] = "ended"
          /\ journal[m] = "queued" => m \in Steers /\ pc[To[m]] # "absent"
      BY DEF MailIsSound, DeniedIsOut
    <2>2. m \in Steers => To[m] \in Workers
      BY MailboxAssumption, TeamAssumption DEF Agents
    <2> QED  BY <2>1, <2>2 DEF Steady
  <1>8. LockIsSound'
    BY DEF MailIsSound, LockIsSound
  <1> QED  BY <1>1, <1>2, <1>3, <1>4, <1>5, <1>6, <1>7, <1>8 DEF MailIsSound

(* A message for an agent that has ended is refused.                       *)
Refuses(m) ==
  /\ ~Live(m) /\ state[To[m]] # "none"
  /\ m \in Steers \/ (m \in Reports /\ m \notin seen)
  /\ receipt' = [receipt EXCEPT ![m] = "rejected"]
  /\ denied' = denied \cup {m}
  /\ UNCHANGED <<state, queue, seen, call, lock, hand, given, journal, order, logFailed>>

(* A refused message leaves the mailbox sound: nothing of it is queued or  *)
(* logged as queued, and its sender knows.                                 *)
LEMMA RefusedMail ==
  ASSUME MailTypes, MailIsSound, ThreadsAreSound, Steady, NEW m \in Messages, Refuses(m)
  PROVE  /\ MailIsSound'
         /\ receipt' \in [Messages -> ReceiptState \cup {"none"}] /\ denied' \subseteq Messages
  <1>1. /\ receipt' \in [Messages -> ReceiptState \cup {"none"}]
        /\ receipt'[m] = "rejected"
        /\ \A x \in Messages : x # m => receipt'[x] = receipt[x]
    BY DEF MailTypes, Refuses, ReceiptState
  <1>2. receipt[m] \in {"none", "rejected"}
    BY DEF Refuses, Live
  <1>3. /\ denied' = denied \cup {m}
        /\ UNCHANGED <<state, queue, seen, call, lock, hand, given, journal, order, logFailed>>
    BY DEF Refuses
  <1>4. m \notin Steers => m \in Reports /\ m \notin seen
    BY DEF Refuses
  <1>5. Reports \cap (Notes \cup Steers) = {} /\ Notes \cap Steers = {}
    BY TeamAssumption
  <1>6. CallsAreSound'
    <2> SUFFICES ASSUME NEW c \in Agents, call[c].msg # NoMessage
                 PROVE  /\ call[c].msg \in seen /\ call[c].msg \in Reports \cup noted'
                        /\ Unsent(call[c].msg)' \/ Held(call[c].msg)
                        /\ call[c].msg \in Reports => ~call[c].wake
                        /\ \A d \in Agents : d # c => call[d].msg # call[c].msg
      BY <1>3 DEF CallsAreSound, Unsent, Held
    <2>1. call[c].msg \in Messages
      BY DEF MailTypes, Calls
    <2>2. /\ call[c].msg \in seen /\ call[c].msg \in Reports \cup noted
          /\ Unsent(call[c].msg) \/ Held(call[c].msg)
          /\ call[c].msg \in Reports => ~call[c].wake
          /\ \A d \in Agents : d # c => call[d].msg # call[c].msg
      BY DEF MailIsSound, CallsAreSound
    <2>3. Unsent(call[c].msg)' \/ Held(call[c].msg)
      BY <1>1, <1>3, <2>1, <2>2 DEF Unsent
    <2> QED  BY <2>2, <2>3 DEF Steady
  <1>7. FreeIdsAreUnsent'
    <2>1. \A x \in Messages \ (Steers \cup seen) :
            receipt'[x] \in {"none", "rejected"} /\ journal[x] \in {"none", "wake_failed"}
      BY <1>1 DEF MailIsSound, FreeIdsAreUnsent
    <2>2. \A x \in Notes \ noted' : receipt'[x] = "none" /\ journal[x] = "none"
      <3>1. \A x \in Notes : x \in Messages /\ x # m
        BY <1>4, <1>5, TeamAssumption
      <3> QED  BY <1>1, <3>1 DEF MailIsSound, FreeIdsAreUnsent, Steady
    <2>3. \A x \in Reports :
            /\ journal[x] # "wake_failed"
            /\ receipt'[x] = "rejected" /\ x \notin seen => x \in denied'
      <3>1. \A x \in Reports : x \in Messages
        BY TeamAssumption
      <3> QED  BY <1>1, <1>3, <3>1 DEF MailIsSound, FreeIdsAreUnsent
    <2>4. seen' = seen /\ journal' = journal
      BY <1>3
    <2> QED  BY <2>1, <2>2, <2>3, <2>4 DEF FreeIdsAreUnsent
  <1>8. LogAgrees'
    <2>1. \A x \in Messages : given[x] \in Nat
      BY DEF MailTypes
    <2> QED  BY <1>1, <1>2, <1>3, <2>1 DEF MailIsSound, LogAgrees
  <1>9. OrderIsSound'
    BY <1>3 DEF MailIsSound, OrderIsSound
  <1>10. QueuesAreSound'
    <2>1. \A a \in Agents : Elements(hand[a]) \subseteq Messages
      BY ElementsTyped DEF MailTypes, Lines
    <2> QED  BY <1>1, <1>2, <1>3, <2>1 DEF MailIsSound, QueuesAreSound
  <1>11. LinesAreInOrder'
    BY <1>3, LinesStay DEF MailIsSound
  <1>12. DeniedIsOut'
    <2> SUFFICES ASSUME NEW x \in denied'
                 PROVE  /\ given[x] = 0 /\ receipt'[x] # "delivered"
                        /\ receipt'[x] = "queued" =>
                             /\ To[x] \in Workers
                             /\ state'[To[x]] = "none" /\ pc'[To[x]] = "ended"
                        /\ journal[x] = "queued" => x \in Steers /\ pc'[To[x]] # "absent"
      BY <1>3 DEF DeniedIsOut
    <2>1. \A y \in Steers : y \in Messages /\ To[y] \in Workers
      BY MailboxAssumption, TeamAssumption DEF Agents
    <2>2. CASE x = m
      <3>1. given[m] = 0
        BY <1>2 DEF MailIsSound, LogAgrees, MailTypes
      <3>2. m \notin Steers => journal[m] # "queued"
        BY <1>4 DEF MailIsSound, FreeIdsAreUnsent
      <3>3. m \in Steers => pc'[To[m]] # "absent"
        BY <2>1 DEF ThreadsAreSound, Refuses, Steady
      <3> QED  BY <1>1, <2>2, <3>1, <3>2, <3>3
    <2>3. CASE x # m
      <3>1. x \in denied /\ x \in Messages /\ receipt'[x] = receipt[x]
        BY <1>1, <1>3, <2>3 DEF MailTypes
      <3>2. /\ given[x] = 0 /\ receipt[x] # "delivered"
            /\ receipt[x] = "queued" => /\ To[x] \in Workers
                                        /\ state[To[x]] = "none" /\ pc[To[x]] = "ended"
            /\ journal[x] = "queued" => x \in Steers /\ pc[To[x]] # "absent"
        BY <3>1 DEF MailIsSound, DeniedIsOut
      <3> QED  BY <2>1, <3>1, <3>2 DEF Steady
    <2> QED  BY <2>2, <2>3
  <1>13. denied' \subseteq Messages
    BY <1>3 DEF MailTypes
  <1>14. LockIsSound'
    <2>1. Notes \cup Steers \subseteq Messages
      BY TeamAssumption
    <2> QED  BY <1>1, <1>2, <1>3, <2>1 DEF MailIsSound, LockIsSound
  <1> QED
    BY <1>1, <1>6, <1>7, <1>8, <1>9, <1>10, <1>11, <1>12, <1>13, <1>14 DEF MailIsSound

(* An id is reserved.                                                      *)
LEMMA ReservedMail ==
  ASSUME MailTypes, MailIsSound, ThreadsAreSound, Steady, UNCHANGED <<state, logVars>>,
         NEW c \in Agents, NEW m \in Messages, Reserve(c, m),
         c = Lead => call[Lead] = Quiet,
         m \in Reports \/ (m \in Notes \ noted /\ m \in noted')
  PROVE  MailIsSound' /\ seen' \subseteq Messages /\ call' \in [Agents -> Calls]
  <1>1. /\ m \notin seen
        /\ seen' = seen \cup {m}
        /\ call' = [call EXCEPT ![c] = [msg |-> m, wake |-> state[To[m]] = "Idle"]]
        /\ UNCHANGED <<queue, receipt, lock, hand, given, denied>>
    BY DEF Reserve, RefusedEarly
  <1>2. UNCHANGED <<journal, order, logFailed>>
    BY DEF logVars
  <1>3. (state[To[m]] = "Idle") \in BOOLEAN /\ m # NoMessage
    BY MailboxAssumption
  <1>4. call' \in [Agents -> Calls]
    BY <1>1, <1>3 DEF MailTypes, Calls
  <1>5. /\ call'[c].msg = m /\ call'[c].wake = (state[To[m]] = "Idle")
        /\ \A d \in Agents : d # c => call'[d] = call[d]
    BY <1>1 DEF MailTypes
  <1>6. m \notin Steers
    BY TeamAssumption
  <1>7. Unsent(m)
    <2>1. receipt[m] \in {"none", "rejected"} /\ journal[m] \in {"none", "wake_failed"}
      BY <1>1, <1>6 DEF MailIsSound, FreeIdsAreUnsent
    <2>2. receipt[m] = "rejected" => m \in denied
      BY <1>1 DEF MailIsSound, FreeIdsAreUnsent
    <2> QED  BY <2>1, <2>2 DEF Unsent
  <1>8. m \in Reports => state[To[m]] # "Idle"
    BY TeamAssumption DEF ThreadsAreSound
  <1>9. CallsAreSound'
    <2>1. \A d \in Agents : call[d].msg # NoMessage =>
            /\ call[d].msg \in seen /\ call[d].msg \in Reports \cup noted
            /\ Unsent(call[d].msg) \/ Held(call[d].msg)
            /\ call[d].msg \in Reports => ~call[d].wake
            /\ \A e \in Agents : e # d => call[e].msg # call[d].msg
      BY DEF MailIsSound, CallsAreSound
    <2>2. \A d \in Agents : call[d].msg # m
      BY <1>1, <1>3, <2>1
    <2>3. \A x : (Unsent(x)' <=> Unsent(x)) /\ (Held(x)' <=> Held(x))
      BY <1>1, <1>2 DEF Unsent, Held
    <2> SUFFICES ASSUME NEW d \in Agents, call'[d].msg # NoMessage
                 PROVE  /\ call'[d].msg \in seen' /\ call'[d].msg \in Reports \cup noted'
                        /\ Unsent(call'[d].msg) \/ Held(call'[d].msg)
                        /\ call'[d].msg \in Reports => ~call'[d].wake
                        /\ \A e \in Agents : e # d => call'[e].msg # call'[d].msg
      BY <1>1, <1>2 DEF CallsAreSound, Unsent, Held
    <2>4. CASE d = c
      <3>1. call'[d].msg = m /\ call'[d].wake = (state[To[m]] = "Idle")
        BY <1>5, <2>4
      <3>2. m \in seen' /\ m \in Reports \cup noted'
        BY <1>1
      <3>3. m \in Reports => ~call'[d].wake
        BY <1>8, <3>1
      <3>4. \A e \in Agents : e # d => call'[e].msg # m
        BY <1>5, <2>2, <2>4
      <3> QED  BY <1>7, <3>1, <3>2, <3>3, <3>4
    <2>5. CASE d # c
      BY <1>1, <1>5, <2>1, <2>2, <2>5 DEF Steady
    <2> QED  BY <2>4, <2>5
  <1>10. FreeIdsAreUnsent'
    BY <1>1, <1>2 DEF MailIsSound, FreeIdsAreUnsent, Steady
  <1>11. LogAgrees'
    BY <1>1, <1>2 DEF MailIsSound, LogAgrees
  <1>12. OrderIsSound'
    BY <1>2 DEF MailIsSound, OrderIsSound
  <1>13. QueuesAreSound'
    BY <1>1 DEF MailIsSound, QueuesAreSound
  <1>14. LinesAreInOrder'
    BY <1>1, <1>2, LinesStay DEF MailIsSound
  <1>15. DeniedIsOut'
    <2>1. \A x \in Steers : To[x] \in Workers
      BY MailboxAssumption, TeamAssumption DEF Agents
    <2> QED  BY <1>1, <1>2, <2>1 DEF MailIsSound, DeniedIsOut, Steady
  <1>16. seen' \subseteq Messages
    BY <1>1 DEF MailTypes
  <1>17. LockIsSound'
    <2>1. lock.step # "free" /\ lock.msg \in Notes => call'[Lead].msg = call[Lead].msg
      <3>1. Lead \in Agents /\ \A x \in Notes : x # NoMessage
        BY MailboxAssumption, TeamAssumption DEF Agents
      <3>2. CASE c = Lead
        BY <3>1, <3>2 DEF MailIsSound, LockIsSound, Quiet
      <3>3. CASE c # Lead
        BY <1>5, <3>1, <3>3
      <3> QED  BY <3>2, <3>3
    <2> QED  BY <1>1, <1>2, <2>1 DEF MailIsSound, LockIsSound
  <1> QED
    BY <1>4, <1>9, <1>10, <1>11, <1>12, <1>13, <1>14, <1>15, <1>16, <1>17 DEF MailIsSound

(* A message is published, by a caller or by the host.                     *)
Posted(m) ==
  /\ NotSent(m) \/ InDoubt(m) \/ Accepts(m)
  /\ receipt[m] \in {"none", "rejected"}
  /\ m \in Steers => pc[To[m]] # "absent"
  /\ m \notin Steers => journal[m] \in {"none", "wake_failed"}
  /\ UNCHANGED <<state, hand, given>>

(* What a send under the lifecycle lock does to the variables, and to the  *)
(* variables of other messages.                                            *)
LEMMA PostedTypes ==
  ASSUME MailTypes, OrderIsSound, NEW m \in Messages, Posted(m)
  PROVE  /\ receipt' \in [Messages -> ReceiptState \cup {"none"}]
         /\ receipt'[m] \in {"none", "rejected", "unknown", "queued"}
         /\ receipt'[m] = "queued" => Accepts(m)
         /\ receipt'[m] \in {"none", "rejected"} => NotSent(m)
         /\ \A x \in Messages : x # m => receipt'[x] = receipt[x] /\ journal'[x] = journal[x]
         /\ journal' \in [Messages -> JournalState] /\ order' \in Lines /\ OrderIsSound'
         /\ UNCHANGED order \/ order' = Append(Without(order, m), m)
         /\ denied' \subseteq Messages
         /\ state' \in [Agents -> AgentState \cup {"none"}]
         /\ queue' \in [Agents -> Lines]
  <1>1. receipt \in [Messages -> ReceiptState \cup {"none"}]
    BY DEF MailTypes
  <1>2. /\ receipt' \in [Messages -> ReceiptState \cup {"none"}]
        /\ receipt'[m] \in {"none", "rejected", "unknown", "queued"}
        /\ \A x \in Messages : x # m => receipt'[x] = receipt[x]
    <2>1. \/ UNCHANGED receipt
          \/ \E r \in {"rejected", "unknown", "queued"} : receipt' = [receipt EXCEPT ![m] = r]
      BY DEF Posted, NotSent, InDoubt, Accepts
    <2> QED  BY <1>1, <2>1 DEF Posted, ReceiptState
  <1>3. receipt'[m] = "queued" => Accepts(m)
    BY <1>1 DEF Posted, NotSent, InDoubt
  <1>4. receipt'[m] \in {"none", "rejected"} => NotSent(m)
    BY <1>1 DEF Posted, InDoubt, Accepts
  <1>5. UNCHANGED <<journal, order>> \/ Rewritten(m, "queued")
    BY DEF Posted, NotSent, InDoubt, Accepts
  <1>6. journal' \in [Messages -> JournalState] /\ order' \in Lines /\ OrderIsSound'
    BY <1>5, OrderStays DEF JournalState
  <1>7. /\ \A x \in Messages : x # m => journal'[x] = journal[x]
        /\ UNCHANGED order \/ order' = Append(Without(order, m), m)
    BY <1>5 DEF Rewritten, MailTypes
  <1>8. denied' \subseteq Messages
    BY DEF MailTypes, Posted, NotSent, InDoubt, Accepts
  <1>9. To[m] \in Agents
    BY MailboxAssumption
  <1>10. state' \in [Agents -> AgentState \cup {"none"}]
    BY DEF MailTypes, Posted
  <1>11. queue' \in [Agents -> Lines]
    <2>1. UNCHANGED queue \/ queue' = [queue EXCEPT ![To[m]] = Append(@, m)]
      BY DEF Posted, NotSent, InDoubt, Accepts
    <2>2. queue \in [Agents -> Lines]
      BY DEF MailTypes
    <2>3. Append(queue[To[m]], m) \in Lines
      BY <1>9, <2>2, AppendedQueue DEF Lines
    <2> QED  BY <1>9, <2>1, <2>2, <2>3
  <1> QED
    BY <1>2, <1>3, <1>4, <1>6, <1>7, <1>8, <1>10, <1>11

(* The queue of an agent after a send was accepted.                        *)
LEMMA AcceptedQueue ==
  ASSUME MailTypes, QueuesAreSound, NEW m \in Messages, Accepts(m),
         receipt[m] \in {"none", "rejected"}, UNCHANGED hand
  PROVE  LET a == To[m] IN
         /\ a \in Agents /\ queue[a] \in Lines
         /\ \A b \in Agents : b # a => queue'[b] = queue[b]
         /\ m \notin Elements(Line(a))
         /\ Distinct(queue'[a])
         /\ Elements(queue'[a]) = Elements(queue[a]) \cup {m}
         /\ Line(a)' = Append(Line(a), m)
  <1>1. PICK a \in Agents : a = To[m]
    BY MailboxAssumption
  <1>2. /\ hand[a] \in Lines /\ queue[a] \in Lines
        /\ queue'[a] = Append(queue[a], m)
        /\ \A b \in Agents : b # a => queue'[b] = queue[b]
    BY <1>1 DEF MailTypes, Accepts
  <1>3. m \notin Elements(Line(a))
    BY LineMembers
  <1>4. m \notin Elements(queue[a])
    BY <1>3, LineMembers
  <1>5. Distinct(queue'[a]) /\ Elements(queue'[a]) = Elements(queue[a]) \cup {m}
    <2>1. Distinct(queue[a])
      BY DEF QueuesAreSound
    <2> QED  BY <1>2, <1>4, <2>1, AppendedQueue DEF Lines
  <1>6. Line(a)' = Append(Line(a), m)
    <2>1. hand[a] \o Append(queue[a], m) = Append(hand[a] \o queue[a], m)
      <3>1. hand[a] \in Seq(Messages) /\ queue[a] \in Seq(Messages)
        BY <1>2 DEF Lines
      <3>2. \A s, t \in Seq(Messages) : \A e \in Messages :
              s \o Append(t, e) = Append(s \o t, e)
        BY JoinedAppend
      <3> QED  BY <3>1, <3>2
    <2>2. hand'[a] \o queue'[a] = hand[a] \o Append(queue[a], m)
      BY <1>2
    <2> QED  BY <2>1, <2>2 DEF Line
  <1> QED  BY <1>1, <1>2, <1>3, <1>5, <1>6

(* A send under the lifecycle lock keeps log, queues and order together.   *)
LEMMA PostedMail ==
  ASSUME MailTypes, MailIsSound, Steady, LogSteady,
         NEW m \in Messages, Posted(m)
  PROVE  /\ LogAgrees' /\ OrderIsSound' /\ QueuesAreSound' /\ LinesAreInOrder' /\ DeniedIsOut'
         /\ receipt'[m] = "queued" => journal'[m] = "queued" /\ m \notin denied'
  <1>1. /\ receipt'[m] \in {"none", "rejected", "unknown", "queued"}
        /\ receipt'[m] = "queued" => Accepts(m)
        /\ receipt'[m] \in {"none", "rejected"} => NotSent(m)
        /\ \A x \in Messages : x # m => receipt'[x] = receipt[x] /\ journal'[x] = journal[x]
        /\ journal' \in [Messages -> JournalState] /\ OrderIsSound'
        /\ UNCHANGED order \/ order' = Append(Without(order, m), m)
    BY PostedTypes DEF MailIsSound
  <1>2. receipt[m] \in {"none", "rejected"} /\ UNCHANGED <<state, hand, given>>
    BY DEF Posted
  <1>3. given[m] = 0
    BY <1>2 DEF MailIsSound, LogAgrees, MailTypes
  <1>4. journal \in [Messages -> JournalState] /\ logFailed \in BOOLEAN
    BY DEF MailTypes
  <1>5. receipt'[m] = "queued" => journal'[m] = "queued"
    <2> SUFFICES ASSUME Accepts(m)  PROVE journal'[m] = "queued"
      BY <1>1
    <2>1. journal[m] \notin {"delivered", "applied"}
      BY <1>2 DEF Accepts, MailIsSound, LogAgrees
    <2> QED  BY <1>4, <2>1 DEF Accepts, Rewritten
  <1>6. LogAgrees'
    <2> SUFFICES ASSUME NEW x \in Messages
                 PROVE  /\ receipt'[x] = "delivered" => journal'[x] = "delivered"
                        /\ given[x] > 0 => /\ given[x] = 1
                                           /\ receipt'[x] \in {"applied", "unknown"}
                                           /\ journal'[x] \in {"delivered", "applied"}
                        /\ ~logFailed => /\ receipt'[x] = "queued" => journal'[x] = "queued"
                                         /\ receipt'[x] \in {"none", "rejected"} =>
                                              journal'[x] \notin {"delivered", "applied"}
      BY <1>2 DEF LogAgrees, LogSteady
    <2>1. CASE x = m
      <3>1. ~logFailed /\ receipt'[m] \in {"none", "rejected"} =>
              journal'[m] \notin {"delivered", "applied"}
        <4> SUFFICES ASSUME ~logFailed, NotSent(m)
                     PROVE  journal'[m] \notin {"delivered", "applied"}
          BY <1>1
        <4>1. journal[m] \notin {"delivered", "applied"}
          BY <1>2 DEF MailIsSound, LogAgrees
        <4> QED  BY <4>1 DEF NotSent
      <3> QED  BY <1>1, <1>3, <1>5, <2>1, <3>1
    <2>2. CASE x # m
      <3>1. receipt'[x] = receipt[x] /\ journal'[x] = journal[x]
        BY <1>1, <2>2
      <3> QED  BY <3>1 DEF MailIsSound, LogAgrees
    <2> QED  BY <2>1, <2>2
  <1>7. QueuesAreSound /\ OrderIsSound /\ LinesAreInOrder /\ DeniedIsOut
    BY DEF MailIsSound
  <1>8. To[m] \in Agents
    BY MailboxAssumption
  <1>9. QueuesAreSound'
    <2>1. \A a \in Agents : Elements(hand[a]) \subseteq Messages
      BY ElementsTyped DEF MailTypes, Lines
    <2>2. \A a \in Agents : \A x \in Elements(hand'[a]) : receipt'[x] = "delivered" /\ To[x] = a
      BY <1>1, <1>2, <1>7, <2>1 DEF QueuesAreSound
    <2>3. CASE Accepts(m)
      <3>1. /\ \A b \in Agents : b # To[m] => queue'[b] = queue[b]
            /\ Distinct(queue'[To[m]])
            /\ Elements(queue'[To[m]]) = Elements(queue[To[m]]) \cup {m}
        BY <1>2, <1>7, <2>3, AcceptedQueue
      <3>2. receipt'[m] = "queued"
        BY <2>3 DEF Accepts, MailTypes
      <3>3. \A a \in Agents : Distinct(queue'[a]) /\ Distinct(hand'[a])
        BY <1>2, <1>7, <3>1 DEF QueuesAreSound
      <3>4. ASSUME NEW a \in Agents, NEW x \in Messages
            PROVE  x \in Elements(queue'[a]) <=> receipt'[x] = "queued" /\ To[x] = a
        <4>1. x \in Elements(queue[a]) <=> receipt[x] = "queued" /\ To[x] = a
          BY <1>7 DEF QueuesAreSound
        <4>2. CASE x = m
          BY <1>2, <3>1, <3>2, <4>1, <4>2
        <4>3. CASE x # m
          BY <1>1, <3>1, <4>1, <4>3
        <4> QED  BY <4>2, <4>3
      <3> QED  BY <2>2, <3>3, <3>4 DEF QueuesAreSound
    <2>4. CASE ~Accepts(m)
      <3>1. queue' = queue /\ receipt'[m] # "queued"
        BY <1>1, <2>4 DEF Posted, NotSent, InDoubt
      <3>2. \A x \in Messages : receipt'[x] = "queued" <=> receipt[x] = "queued"
        BY <1>1, <1>2, <3>1
      <3> QED  BY <1>2, <1>7, <2>2, <3>1, <3>2 DEF QueuesAreSound
    <2> QED  BY <2>3, <2>4
  <1>10. LinesAreInOrder'
    <2>1. CASE ~Accepts(m)
      <3>1. queue' = queue /\ hand' = hand
        BY <1>2, <2>1 DEF Posted, NotSent, InDoubt
      <3>2. receipt[m] \notin {"queued", "delivered"}
        BY <1>2
      <3> QED  BY <1>1, <1>7, <3>1, <3>2, LinesStay
    <2>2. CASE Accepts(m)
      <3> SUFFICES ASSUME NEW a \in Agents, NEW x \in Messages, NEW y \in Messages,
                          Precedes(Line(a)', x, y), y \notin Steers
                   PROVE  Precedes(order', x, y)
        BY DEF LinesAreInOrder
      <3>1. order \in Lines /\ Distinct(order)
        BY <1>7 DEF MailTypes, OrderIsSound
      <3>2. /\ \A z \in Elements(Line(a)) : z \in Messages /\ To[z] = a /\ z # m
            /\ \A z \in Elements(Line(a)) : receipt[z] \in {"queued", "delivered"}
        BY <1>2, <1>7, LineMembers
      <3>3. ASSUME Precedes(Line(a), x, y)  PROVE Precedes(order', x, y)
        <4>1. Precedes(order, x, y)
          BY <1>7, <3>3 DEF LinesAreInOrder
        <4>2. x # m /\ y # m
          BY <3>2, <3>3, PrecedesElements
        <4>3. Precedes(Append(Without(order, m), m), x, y)
          BY <3>1, <4>1, <4>2, Requeue
        <4> QED  BY <1>1, <4>1, <4>3
      <3>4. CASE a # To[m]
        <4>1. Line(a)' = Line(a)
          BY <1>2, <1>7, <2>2, <3>4, AcceptedQueue DEF Line
        <4> QED  BY <3>3, <4>1
      <3>5. CASE a = To[m]
        <4>1. Line(a)' = Append(Line(a), m) /\ Line(a) \in Lines
          BY <1>2, <1>7, <2>2, <3>5, AcceptedQueue, LineMembers
        <4>2. Precedes(Line(a), x, y) \/ (x \in Elements(Line(a)) /\ y = m)
          BY <4>1, AppendedLine DEF Lines
        <4>3. ASSUME x \in Elements(Line(a)), y = m  PROVE Precedes(order', x, y)
          <5>1. journal[x] # "none" /\ x # m
            <6>1. receipt[x] = "queued" => journal[x] = "queued"
              BY <2>2 DEF Accepts, MailIsSound, LogAgrees
            <6>2. receipt[x] = "delivered" => journal[x] = "delivered"
              BY DEF MailIsSound, LogAgrees
            <6> QED  BY <3>2, <4>3, <6>1, <6>2
          <5>2. x \in Elements(order)
            BY <1>7, <5>1 DEF OrderIsSound
          <5>3. order' = Append(Without(order, m), m)
            <6>1. m \notin Steers
              BY <4>3
            <6> QED  BY <2>2, <6>1 DEF Accepts, Posted, Rewritten
          <5> QED  BY <3>1, <4>3, <5>1, <5>2, <5>3, Requeue
        <4> QED  BY <3>3, <4>2, <4>3
      <3> QED  BY <3>4, <3>5
    <2> QED  BY <2>1, <2>2
  <1>11. DeniedIsOut'
    <2> SUFFICES ASSUME NEW x \in denied'
                 PROVE  /\ given[x] = 0 /\ receipt'[x] # "delivered"
                        /\ receipt'[x] = "queued" =>
                             /\ To[x] \in Workers
                             /\ state'[To[x]] = "none" /\ pc'[To[x]] = "ended"
                        /\ journal'[x] = "queued" => x \in Steers /\ pc'[To[x]] # "absent"
      BY <1>2 DEF DeniedIsOut
    <2>1. \A y \in Steers : y \in Messages /\ To[y] \in Workers
      BY MailboxAssumption, TeamAssumption DEF Agents
    <2>2. CASE x = m
      <3>1. NotSent(m)
        BY <2>2 DEF Posted, InDoubt, Accepts
      <3>2. receipt'[m] # "queued"
        BY <1>2, <3>1 DEF NotSent, MailTypes
      <3>3. journal'[m] = "queued" => journal[m] = "queued"
        BY <3>1 DEF NotSent
      <3>4. m \notin Steers => journal[m] # "queued"
        BY DEF Posted
      <3>5. m \in Steers => pc'[To[m]] # "absent"
        BY <2>1 DEF Posted, Steady
      <3> QED  BY <1>1, <1>3, <2>2, <3>2, <3>3, <3>4, <3>5
    <2>3. CASE x # m
      <3>1. x \in denied /\ x \in Messages
        BY <2>3 DEF Posted, NotSent, InDoubt, Accepts, MailTypes
      <3>2. receipt'[x] = receipt[x] /\ journal'[x] = journal[x]
        BY <1>1, <2>3, <3>1
      <3>3. /\ given[x] = 0 /\ receipt[x] # "delivered"
            /\ receipt[x] = "queued" => /\ To[x] \in Workers
                                        /\ state[To[x]] = "none" /\ pc[To[x]] = "ended"
            /\ journal[x] = "queued" => x \in Steers /\ pc[To[x]] # "absent"
        BY <1>7, <3>1 DEF DeniedIsOut
      <3> QED  BY <2>1, <3>2, <3>3 DEF Steady
    <2> QED  BY <2>2, <2>3
  <1>12. receipt'[m] = "queued" => m \notin denied'
    BY <1>1 DEF Accepts
  <1> QED  BY <1>1, <1>5, <1>6, <1>9, <1>10, <1>11, <1>12

(* The caller of a send learns how it ended, unless it has to wake the     *)
(* recipient first.                                                        *)
Sent(c, next, o) ==
  LET m == call[c].msg
      answer == PublishAnswer(m, next, o)
  IN
  /\ m # NoMessage
  /\ next # "free" => c = Lead /\ m \in Notes
  /\ Publish(m, next, o)
  /\ seen' = Released(m, answer)
  /\ call' = [call EXCEPT ![c] = IF answer = "waking" THEN @ ELSE Quiet]

(* What a caller has reserved and not published was never accepted.        *)
LEMMA SentMessage ==
  ASSUME MailTypes, TeamTypes, MailIsSound, NEW c \in Agents, call[c].msg # NoMessage
  PROVE  /\ call[c].msg \in Messages
         /\ call[c].msg \in Reports \cup noted /\ call[c].msg \notin Steers
         /\ lock = Free => Unsent(call[c].msg)
  <1>1. call[c].msg \in Messages
    BY DEF MailTypes, Calls
  <1>2. /\ call[c].msg \in Reports \cup noted
        /\ Unsent(call[c].msg) \/ Held(call[c].msg)
    BY DEF MailIsSound, CallsAreSound
  <1>3. call[c].msg \notin Steers
    BY <1>2, TeamAssumption DEF TeamTypes
  <1> QED  BY <1>1, <1>2, <1>3 DEF Held, Free

(* The lock after a message was published.                                 *)
LEMMA LockTypes ==
  /\ Free \in Locks /\ Free.step = "free"
  /\ \A m \in Messages, next \in LockStep : [msg |-> m, step |-> next] \in Locks
  BY DEF Free, Locks, LockStep

(* The end of a send, accepted or not, leaves the mailbox sound.           *)
LEMMA SentMail ==
  ASSUME MailTypes, TeamTypes, MailIsSound, Steady,
         NEW c \in Agents, NEW next \in LockStep, NEW o, Sent(c, next, o)
  PROVE  /\ MailTypes' /\ MailIsSound'
         /\ Posted(call[c].msg)
         /\ UNCHANGED known
  <1>1. PICK m \in Messages : m = call[c].msg
    BY SentMessage DEF Sent
  <1> DEFINE answer == PublishAnswer(m, next, o)
  <1>2. /\ m \in Reports \cup noted /\ m \notin Steers /\ m # NoMessage /\ m \in seen
        /\ next # "free" => c = Lead /\ m \in Notes
    BY <1>1, SentMessage DEF Sent, MailIsSound, CallsAreSound
  <1>3. /\ Publish(m, next, o)
        /\ seen' = Released(m, answer)
        /\ call' = [call EXCEPT ![c] = IF answer = "waking" THEN @ ELSE Quiet]
    BY <1>1 DEF Sent
  <1>4. /\ logFailed' \in BOOLEAN /\ faults' \in 0..MaxFaults /\ LogSteady
        /\ lock = Free /\ UNCHANGED <<state, known, hand, given>>
        /\ \/ NotSent(m) /\ answer \in {"full", "refused"} /\ lock' = Free
           \/ InDoubt(m) /\ answer = "unknown" /\ lock' = Free
           \/ Accepts(m) /\ answer = "ok" /\ lock' = Free
           \/ /\ Accepts(m) /\ answer = "waking" /\ next # "free"
              /\ lock' = [msg |-> m, step |-> next]
    BY <1>3, PublishCases
  <1> HIDE DEF answer
  <1>5. Unsent(m)
    BY <1>1, <1>2, <1>4, SentMessage
  <1>6. Posted(m)
    BY <1>2, <1>4, <1>5 DEF Posted, Unsent
  <1>7. /\ LogAgrees' /\ OrderIsSound' /\ QueuesAreSound' /\ LinesAreInOrder' /\ DeniedIsOut'
        /\ receipt'[m] = "queued" => journal'[m] = "queued" /\ m \notin denied'
    BY <1>4, <1>6, PostedMail
  <1>8. /\ receipt' \in [Messages -> ReceiptState \cup {"none"}]
        /\ receipt'[m] \in {"none", "rejected", "unknown", "queued"}
        /\ receipt'[m] \in {"none", "rejected"} => NotSent(m)
        /\ \A x \in Messages : x # m => receipt'[x] = receipt[x] /\ journal'[x] = journal[x]
        /\ journal' \in [Messages -> JournalState] /\ order' \in Lines
        /\ denied' \subseteq Messages
        /\ state' \in [Agents -> AgentState \cup {"none"}]
        /\ queue' \in [Agents -> Lines]
    BY <1>6, PostedTypes DEF MailIsSound
  <1>9. /\ seen' = seen \/ seen' = seen \ {m}
        /\ answer = "waking" => seen' = seen
        /\ seen' # seen => NotSent(m)
    BY <1>3, <1>4 DEF Released, Refusal
  <1>10. call' \in [Agents -> Calls]
    BY <1>3 DEF MailTypes, Calls, Quiet
  <1>11. MailTypes'
    BY <1>4, <1>8, <1>9, <1>10, LockTypes DEF MailTypes
  <1>12. /\ \A e \in Agents : e # c => call'[e] = call[e]
         /\ call'[c] = IF answer = "waking" THEN call[c] ELSE Quiet
    BY <1>3 DEF MailTypes
  <1>13. CallsAreSound'
    <2> SUFFICES ASSUME NEW d \in Agents, NEW x, x = call'[d].msg, x # NoMessage
                 PROVE  /\ x \in seen' /\ x \in Reports \cup noted'
                        /\ Unsent(x)' \/ Held(x)'
                        /\ x \in Reports => ~call'[d].wake
                        /\ \A e \in Agents : e # d => call'[e].msg # x
      BY DEF CallsAreSound, Unsent, Held
    <2>1. call'[d] = call[d] /\ (d = c => answer = "waking")
      BY <1>12 DEF Quiet
    <2>2. /\ x \in seen /\ x \in Reports \cup noted
          /\ Unsent(x) \/ Held(x)
          /\ x \in Reports => ~call[d].wake
          /\ \A e \in Agents : e # d => call[e].msg # x
      BY <2>1 DEF MailIsSound, CallsAreSound
    <2>3. \A e \in Agents : e # d => call'[e].msg # x
      BY <1>12, <2>2 DEF Quiet
    <2>4. CASE d = c
      <3>1. answer = "waking" /\ x = m
        BY <1>1, <2>1, <2>4
      <3>2. Held(x)'
        BY <1>4, <3>1 DEF Held
      <3> QED  BY <1>9, <2>1, <2>2, <2>3, <3>1, <3>2 DEF Steady
    <2>5. CASE d # c
      <3>1. x # m /\ x \in Messages
        BY <1>1, <2>1, <2>2, <2>5 DEF MailTypes, Calls
      <3>2. Unsent(x)
        BY <1>4, <2>2 DEF Held, Free
      <3>3. x \in denied => x \in denied'
        BY <1>6, <3>1 DEF Posted, NotSent, InDoubt, Accepts
      <3>4. Unsent(x)'
        BY <1>8, <3>1, <3>2, <3>3 DEF Unsent
      <3> QED  BY <1>9, <2>1, <2>2, <2>3, <3>1, <3>4 DEF Steady
    <2> QED  BY <2>4, <2>5
  <1>14. FreeIdsAreUnsent'
    <2>1. FreeIdsAreUnsent
      BY DEF MailIsSound
    <2>2. ASSUME NotSent(m)
          PROVE  /\ receipt'[m] \in {"none", "rejected"} /\ journal'[m] = journal[m]
                 /\ journal[m] \in {"none", "wake_failed"} /\ m \in denied'
      BY <1>5, <2>2 DEF NotSent, MailTypes, Unsent
    <2>3. \A x \in Messages \ (Steers \cup seen') :
            receipt'[x] \in {"none", "rejected"} /\ journal'[x] \in {"none", "wake_failed"}
      BY <1>2, <1>8, <1>9, <2>1, <2>2 DEF FreeIdsAreUnsent
    <2>4. \A x \in Notes \ noted' : receipt'[x] = "none" /\ journal'[x] = "none"
      <3>1. \A x \in Notes \ noted' : x \in Messages /\ x # m /\ x \in Notes \ noted
        BY <1>2, TeamAssumption DEF Steady
      <3> QED  BY <1>8, <2>1, <3>1 DEF FreeIdsAreUnsent
    <2>5. ASSUME NEW x \in Reports
          PROVE  /\ journal'[x] # "wake_failed"
                 /\ receipt'[x] = "rejected" /\ x \notin seen' => x \in denied'
      <3>1. x \in Messages
        BY TeamAssumption
      <3>2. /\ journal[x] # "wake_failed"
            /\ receipt[x] = "rejected" /\ x \notin seen => x \in denied
        BY <2>1 DEF FreeIdsAreUnsent
      <3>3. CASE x = m
        <4>1. journal'[m] # "wake_failed"
          <5>1. \/ UNCHANGED journal
                \/ journal' = [journal EXCEPT ![m] = "queued"]
            BY <1>6 DEF Posted, NotSent, InDoubt, Accepts, Rewritten
          <5> QED  BY <3>2, <3>3, <5>1 DEF MailTypes
        <4>2. receipt'[m] = "rejected" => m \in denied'
          BY <1>8, <2>2
        <4> QED  BY <3>3, <4>1, <4>2
      <3>4. CASE x # m
        <4>1. x \in denied => x \in denied'
          BY <1>6, <3>4 DEF Posted, NotSent, InDoubt, Accepts
        <4> QED  BY <1>8, <1>9, <3>1, <3>2, <3>4, <4>1
      <3> QED  BY <3>3, <3>4
    <2> QED  BY <2>3, <2>4, <2>5 DEF FreeIdsAreUnsent
  <1>15. LockIsSound'
    <2> SUFFICES ASSUME answer = "waking", lock' = [msg |-> m, step |-> next]
                 PROVE  /\ m \in Notes \cup Steers
                        /\ receipt'[m] = "queued" /\ journal'[m] = "queued"
                        /\ m \notin denied'
                        /\ m \in Notes => call'[Lead].msg = m
      BY <1>4 DEF LockIsSound, Free
    <2>1. Accepts(m) /\ next # "free"
      BY <1>4
    <2>2. receipt'[m] = "queued"
      BY <2>1 DEF Accepts, MailTypes
    <2> QED  BY <1>1, <1>2, <1>7, <1>12, <2>1, <2>2
  <1>16. MailIsSound'
    BY <1>7, <1>13, <1>14, <1>15 DEF MailIsSound
  <1> QED  BY <1>1, <1>4, <1>6, <1>11, <1>16

(* The host sends a steering command.                                      *)
Steered(s, o) ==
  /\ ~Live(s) /\ state[To[s]] # "none"
  /\ Publish(s, "look", o)
  /\ UNCHANGED <<seen, call>>

(* A steering command leaves the mailbox sound, although its id is never   *)
(* reserved and the log may know it from an earlier try.                   *)
LEMMA SteeredMail ==
  ASSUME MailTypes, TeamTypes, MailIsSound, ThreadsAreSound, Steady,
         NEW s \in Steers, NEW o, Steered(s, o)
  PROVE  MailTypes' /\ MailIsSound' /\ Posted(s) /\ UNCHANGED known
  <1>1. s \in Messages /\ To[s] \in Workers /\ "look" \in LockStep /\ s \notin Notes
    BY MailboxAssumption, TeamAssumption DEF Agents, LockStep
  <1>2. /\ logFailed' \in BOOLEAN /\ faults' \in 0..MaxFaults /\ LogSteady
        /\ lock = Free /\ UNCHANGED <<state, known, hand, given, seen, call>>
        /\ \/ NotSent(s) /\ lock' = Free
           \/ InDoubt(s) /\ lock' = Free
           \/ Accepts(s) /\ (lock' = Free \/ lock' = [msg |-> s, step |-> "look"])
    BY <1>1, PublishCases DEF Steered
  <1>3. Posted(s)
    BY <1>1, <1>2 DEF Posted, Steered, Live, ThreadsAreSound
  <1>4. /\ LogAgrees' /\ OrderIsSound' /\ QueuesAreSound' /\ LinesAreInOrder' /\ DeniedIsOut'
        /\ receipt'[s] = "queued" => journal'[s] = "queued" /\ s \notin denied'
    BY <1>1, <1>2, <1>3, PostedMail
  <1>5. /\ receipt' \in [Messages -> ReceiptState \cup {"none"}]
        /\ \A x \in Messages : x # s => receipt'[x] = receipt[x] /\ journal'[x] = journal[x]
        /\ journal' \in [Messages -> JournalState] /\ order' \in Lines
        /\ denied' \subseteq Messages
        /\ state' \in [Agents -> AgentState \cup {"none"}]
        /\ queue' \in [Agents -> Lines]
    BY <1>1, <1>3, PostedTypes DEF MailIsSound
  <1>6. MailTypes'
    BY <1>1, <1>2, <1>5, LockTypes DEF MailTypes
  <1>7. \A x : x # s => (x \in denied <=> x \in denied')
    BY <1>3 DEF Posted, NotSent, InDoubt, Accepts
  <1>8. CallsAreSound'
    <2> SUFFICES ASSUME NEW d \in Agents, call[d].msg # NoMessage
                 PROVE  /\ call[d].msg \in seen /\ call[d].msg \in Reports \cup noted'
                        /\ Unsent(call[d].msg)'
                        /\ call[d].msg \in Reports => ~call[d].wake
                        /\ \A e \in Agents : e # d => call[e].msg # call[d].msg
      BY <1>2 DEF CallsAreSound, Unsent
    <2>1. /\ call[d].msg \in seen /\ call[d].msg \in Reports \cup noted
          /\ call[d].msg \in Reports => ~call[d].wake
          /\ \A e \in Agents : e # d => call[e].msg # call[d].msg
      BY DEF MailIsSound, CallsAreSound
    <2>2. call[d].msg # s /\ call[d].msg \in Messages /\ Unsent(call[d].msg)
      BY <1>2, SentMessage
    <2>3. Unsent(call[d].msg)'
      BY <1>2, <1>5, <1>7, <2>2 DEF Unsent
    <2> QED  BY <2>1, <2>3 DEF Steady
  <1>9. FreeIdsAreUnsent'
    <2>1. FreeIdsAreUnsent
      BY DEF MailIsSound
    <2>2. \A x \in Reports \cup Notes : x \in Messages /\ x # s
      BY TeamAssumption
    <2>3. \A x \in Messages \ (Steers \cup seen') :
            receipt'[x] \in {"none", "rejected"} /\ journal'[x] \in {"none", "wake_failed"}
      BY <1>2, <1>5, <2>1 DEF FreeIdsAreUnsent
    <2>4. \A x \in Notes \ noted' : receipt'[x] = "none" /\ journal'[x] = "none"
      BY <1>5, <2>1, <2>2 DEF FreeIdsAreUnsent, Steady
    <2>5. ASSUME NEW x \in Reports
          PROVE  /\ journal'[x] # "wake_failed"
                 /\ receipt'[x] = "rejected" /\ x \notin seen' => x \in denied'
      BY <1>2, <1>5, <1>7, <2>1, <2>2 DEF FreeIdsAreUnsent
    <2> QED  BY <2>3, <2>4, <2>5 DEF FreeIdsAreUnsent
  <1>10. LockIsSound'
    <2> SUFFICES ASSUME Accepts(s), lock' = [msg |-> s, step |-> "look"]
                 PROVE  /\ receipt'[s] = "queued" /\ journal'[s] = "queued"
                        /\ s \notin denied'
      BY <1>1, <1>2 DEF LockIsSound, Free
    <2>1. receipt'[s] = "queued"
      BY <1>1 DEF Accepts, MailTypes
    <2> QED  BY <1>4, <2>1
  <1> QED  BY <1>2, <1>3, <1>4, <1>6, <1>8, <1>9, <1>10 DEF MailIsSound

(* A queued message whose recipient could not be woken is taken back; the  *)
(* record of that may be lost.                                             *)
TakenBack(m) ==
  /\ queue' = [queue EXCEPT ![To[m]] = Withdrawn(m)]
  /\ \/ /\ receipt' = [receipt EXCEPT ![m] = "rejected"]
        /\ journal' = [journal EXCEPT ![m] = "wake_failed"]
        /\ denied' = denied \cup {m}
        /\ seen' = IF m \in Notes THEN seen \ {m} ELSE seen
     \/ /\ receipt' = [receipt EXCEPT ![m] = "unknown"]
        /\ UNCHANGED journal \/ journal' = [journal EXCEPT ![m] = "wake_failed"]
        /\ denied' = denied \ {m}
        /\ UNCHANGED seen

(* The end of a wake: the message stays in the queue or is taken back.     *)
LEMMA WokenCases ==
  ASSUME MailTypes, MailIsSound, NEW o, EndWake(o)
  PROVE  LET m == lock.msg IN
         /\ m \in Notes \cup Steers /\ m \in Messages /\ lock.step # "free" /\ lock' = Free
         /\ receipt[m] = "queued" /\ journal[m] = "queued" /\ m \notin denied
         /\ logFailed' \in BOOLEAN /\ faults' \in 0..MaxFaults /\ LogSteady
         /\ UNCHANGED <<order, known, hand, given>>
         /\ UNCHANGED <<receipt, queue, journal, denied, seen>> \/ TakenBack(m)
         /\ call' = IF m \in Notes THEN [call EXCEPT ![Lead] = Quiet] ELSE call
         /\ \/ UNCHANGED state
            \/ /\ state[To[m]] # "none"
               /\ state' = [state EXCEPT ![To[m]] = "Running"]
  <1>1. PICK m : m = lock.msg
    OBVIOUS
  <1>2. lock.step # "free" /\ lock' = Free
    BY DEF EndWake, FreeLock
  <1>3. /\ m \in Notes \cup Steers /\ m \in Messages
        /\ receipt[m] = "queued" /\ journal[m] = "queued" /\ m \notin denied
    BY <1>1, <1>2, TeamAssumption DEF MailIsSound, LockIsSound
  <1>4. /\ IF Unwoken THEN Append1(o) ELSE o = "ok" /\ UNCHANGED <<logFailed, faults>>
        /\ IF Unwoken /\ Logged(o) THEN LogRejected({m}, "wake_failed") ELSE UNCHANGED journal
        /\ receipt' = IF Unwoken THEN [receipt EXCEPT ![m] = ReceiptOf(m, WakeAnswer(o))]
                      ELSE receipt
        /\ queue' = IF Unwoken THEN [queue EXCEPT ![To[m]] = Withdrawn(m)] ELSE queue
        /\ denied' = Denied(m, WakeAnswer(o))
        /\ UNCHANGED <<order, known, hand, given>>
    BY <1>1 DEF EndWake, FreeLock
  <1>5. IF m \in Notes
        THEN /\ seen' = Released(m, WakeAnswer(o))
             /\ call' = [call EXCEPT ![Lead] = Quiet]
        ELSE UNCHANGED <<seen, call>>
    BY <1>1 DEF EndWake
  <1>6. logFailed' \in BOOLEAN /\ faults' \in 0..MaxFaults /\ LogSteady
    BY <1>4, AppendKeeps DEF LogSteady, MailTypes
  <1>7. \/ UNCHANGED state
        \/ state[To[m]] # "none" /\ state' = [state EXCEPT ![To[m]] = "Running"]
    BY <1>1 DEF EndWake, FreeLock, Recipient, ValidTransition
  <1>8. CASE ~Unwoken
    <2>1. WakeAnswer(o) = "ok"
      BY <1>8 DEF WakeAnswer
    <2>2. UNCHANGED <<receipt, queue, journal, denied, seen>>
      BY <1>3, <1>4, <1>5, <1>8, <2>1 DEF Denied, Refusal, Released
    <2> QED  BY <1>1, <1>2, <1>3, <1>4, <1>5, <1>6, <1>7, <2>2
  <1>9. CASE Unwoken
    <2>1. Logged(o) => journal' = [journal EXCEPT ![m] = "wake_failed"]
      BY <1>3, <1>4, <1>9 DEF LogRejected, MailTypes
    <2>2. CASE o = "ok"
      <3>1. WakeAnswer(o) = "wake_failed"
        BY <1>9, <2>2 DEF WakeAnswer
      <3>2. TakenBack(m)
        BY <1>4, <1>5, <1>9, <2>1, <2>2, <3>1
        DEF TakenBack, ReceiptOf, Visible, Denied, Refusal, Released, Logged
      <3> QED  BY <1>1, <1>2, <1>3, <1>4, <1>5, <1>6, <1>7, <3>2
    <2>3. CASE o # "ok"
      <3>1. WakeAnswer(o) = "unknown"
        BY <1>9, <2>3 DEF WakeAnswer
      <3>2. UNCHANGED journal \/ journal' = [journal EXCEPT ![m] = "wake_failed"]
        BY <1>4, <2>1
      <3>3. TakenBack(m)
        BY <1>4, <1>5, <1>9, <3>1, <3>2
        DEF TakenBack, ReceiptOf, Visible, Denied, Refusal, Released
      <3> QED  BY <1>1, <1>2, <1>3, <1>4, <1>5, <1>6, <1>7, <3>3
    <2> QED  BY <2>2, <2>3
  <1> QED  BY <1>8, <1>9

(* What is left of the mailbox when a message was taken back.              *)
LEMMA TakenBackMail ==
  ASSUME MailTypes, MailIsSound, Steady, LogSteady, UNCHANGED <<order, hand, given>>,
         NEW m \in Messages, receipt[m] = "queued", journal[m] = "queued", TakenBack(m)
  PROVE  /\ receipt' \in [Messages -> ReceiptState \cup {"none"}]
         /\ journal' \in [Messages -> JournalState]
         /\ queue' \in [Agents -> Lines] /\ denied' \subseteq Messages
         /\ receipt'[m] \in {"rejected", "unknown"}
         /\ \A x \in Messages : x # m => receipt'[x] = receipt[x] /\ journal'[x] = journal[x]
         /\ LogAgrees' /\ OrderIsSound' /\ QueuesAreSound' /\ LinesAreInOrder' /\ DeniedIsOut'
  <1>1. PICK a \in Agents : a = To[m]
    BY MailboxAssumption
  <1>2. PICK q : q = Keep(queue[a], Messages \ {m})
    OBVIOUS
  <1>3. /\ receipt \in [Messages -> ReceiptState \cup {"none"}]
        /\ journal \in [Messages -> JournalState] /\ queue \in [Agents -> Lines]
        /\ denied \subseteq Messages /\ queue[a] \in Seq(Messages) /\ given[m] \in Nat
    BY DEF MailTypes, Lines
  <1>4. /\ q \in Lines /\ Elements(q) = Elements(queue[a]) \cap (Messages \ {m})
        /\ Distinct(queue[a]) => Distinct(q)
    BY <1>2, <1>3, KeepSifts, KeepElements, KeptQueue DEF Lines
  <1>5. queue' = [queue EXCEPT ![a] = q]
    BY <1>1, <1>2 DEF TakenBack, Withdrawn, Without
  <1>6. /\ receipt' \in [Messages -> ReceiptState \cup {"none"}]
        /\ journal' \in [Messages -> JournalState]
        /\ receipt'[m] \in {"rejected", "unknown"}
        /\ receipt'[m] = "rejected" <=> m \in denied'
        /\ receipt'[m] = "rejected" => journal'[m] = "wake_failed"
        /\ journal'[m] \in {"queued", "wake_failed"}
        /\ \A x \in Messages : x # m => receipt'[x] = receipt[x] /\ journal'[x] = journal[x]
        /\ denied' \subseteq denied \cup {m}
    BY <1>3 DEF TakenBack, ReceiptState, JournalState
  <1>7. given[m] = 0
    BY <1>3 DEF MailIsSound, LogAgrees
  <1>8. LogAgrees'
    <2> SUFFICES ASSUME NEW x \in Messages
                 PROVE  /\ receipt'[x] = "delivered" => journal'[x] = "delivered"
                        /\ given[x] > 0 => /\ given[x] = 1
                                           /\ receipt'[x] \in {"applied", "unknown"}
                                           /\ journal'[x] \in {"delivered", "applied"}
                        /\ ~logFailed' => /\ receipt'[x] = "queued" => journal'[x] = "queued"
                                          /\ receipt'[x] \in {"none", "rejected"} =>
                                               journal'[x] \notin {"delivered", "applied"}
      BY DEF LogAgrees
    <2>1. CASE x = m
      BY <1>6, <1>7, <2>1
    <2>2. CASE x # m
      BY <1>6, <2>2 DEF MailIsSound, LogAgrees, LogSteady
    <2> QED  BY <2>1, <2>2
  <1>9. OrderIsSound'
    BY <1>6 DEF MailIsSound, OrderIsSound
  <1>10. QueuesAreSound'
    <2>1. QueuesAreSound
      BY DEF MailIsSound
    <2>2. \A b \in Agents : Elements(hand[b]) \subseteq Messages
      BY ElementsTyped DEF MailTypes, Lines
    <2> SUFFICES ASSUME NEW b \in Agents
                 PROVE  /\ Distinct(queue'[b]) /\ Distinct(hand'[b])
                        /\ \A x \in Messages : x \in Elements(queue'[b]) <=>
                                                 receipt'[x] = "queued" /\ To[x] = b
                        /\ \A x \in Elements(hand'[b]) : receipt'[x] = "delivered" /\ To[x] = b
      BY DEF QueuesAreSound
    <2>3. \A x \in Elements(hand'[b]) : receipt'[x] = "delivered" /\ To[x] = b
      BY <1>6, <2>1, <2>2 DEF QueuesAreSound
    <2>4. CASE b = a
      <3>1. queue'[b] = q
        BY <1>3, <1>5, <2>4
      <3> QED  BY <1>4, <1>6, <2>1, <2>3, <2>4, <3>1 DEF QueuesAreSound
    <2>5. CASE b # a
      <3>1. queue'[b] = queue[b]
        BY <1>3, <1>5, <2>5
      <3> QED  BY <1>1, <1>6, <2>1, <2>3, <2>5, <3>1 DEF QueuesAreSound
    <2> QED  BY <2>4, <2>5
  <1>11. LinesAreInOrder'
    <2> SUFFICES ASSUME NEW b \in Agents, NEW x \in Messages, NEW y \in Messages,
                        Precedes(Line(b)', x, y), y \notin Steers
                 PROVE  Precedes(order, x, y)
      BY DEF LinesAreInOrder
    <2>1. CASE b = a
      <3>1. hand[a] \in Seq(Messages)
        BY DEF MailTypes, Lines
      <3>2. Precedes(hand[a] \o Keep(queue[a], Messages \ {m}), x, y)
        BY <1>2, <1>3, <1>5, <2>1 DEF Line
      <3>3. Precedes(hand[a] \o queue[a], x, y)
        BY <1>3, <3>1, <3>2, ThinnedLine
      <3> QED  BY <2>1, <3>3 DEF Line, MailIsSound, LinesAreInOrder
    <2>2. CASE b # a
      <3>1. Line(b)' = Line(b)
        BY <1>3, <1>5, <2>2 DEF Line
      <3> QED  BY <3>1 DEF MailIsSound, LinesAreInOrder
    <2> QED  BY <2>1, <2>2
  <1>12. DeniedIsOut'
    <2> SUFFICES ASSUME NEW x \in denied'
                 PROVE  /\ given[x] = 0 /\ receipt'[x] # "delivered"
                        /\ receipt'[x] = "queued" =>
                             /\ To[x] \in Workers
                             /\ state'[To[x]] = "none" /\ pc'[To[x]] = "ended"
                        /\ journal'[x] = "queued" => x \in Steers /\ pc'[To[x]] # "absent"
      BY DEF DeniedIsOut
    <2>1. CASE x = m
      BY <1>6, <1>7, <2>1
    <2>2. CASE x # m
      <3>1. x \in denied /\ x \in Messages
        BY <1>3, <1>6, <2>2
      <3>2. receipt'[x] = receipt[x] /\ journal'[x] = journal[x]
        BY <1>6, <2>2, <3>1
      <3>3. /\ given[x] = 0 /\ receipt[x] # "delivered"
            /\ receipt[x] = "queued" => /\ To[x] \in Workers
                                        /\ state[To[x]] = "none" /\ pc[To[x]] = "ended"
            /\ journal[x] = "queued" => x \in Steers /\ pc[To[x]] # "absent"
        BY <3>1 DEF MailIsSound, DeniedIsOut
      <3>4. x \in Steers => To[x] \in Workers
        BY MailboxAssumption, TeamAssumption DEF Agents
      <3> QED  BY <3>2, <3>3, <3>4 DEF Steady
    <2> QED  BY <2>1, <2>2
  <1>13. queue' \in [Agents -> Lines] /\ denied' \subseteq Messages
    BY <1>3, <1>4, <1>5, <1>6
  <1> QED  BY <1>6, <1>8, <1>9, <1>10, <1>11, <1>12, <1>13

(* A sender that lets go of the lifecycle lock leaves the mailbox sound.   *)
LEMMA WokenMail ==
  ASSUME MailTypes, TeamTypes, MailIsSound, Steady, NEW o, EndWake(o)
  PROVE  /\ MailTypes' /\ MailIsSound' /\ UNCHANGED known
         /\ \A w \in Workers : call'[w] = call[w]
         /\ \A x \in Messages :
              \/ receipt'[x] = receipt[x]
              \/ /\ receipt[x] = "queued" /\ receipt'[x] \in {"rejected", "unknown"}
                 /\ x \in Notes \cup Steers
  <1>1. PICK m : m = lock.msg
    OBVIOUS
  <1>2. /\ m \in Notes \cup Steers /\ m \in Messages /\ lock.step # "free" /\ lock' = Free
        /\ receipt[m] = "queued" /\ journal[m] = "queued" /\ m \notin denied
        /\ logFailed' \in BOOLEAN /\ faults' \in 0..MaxFaults /\ LogSteady
        /\ UNCHANGED <<order, known, hand, given>>
        /\ UNCHANGED <<receipt, queue, journal, denied, seen>> \/ TakenBack(m)
        /\ call' = IF m \in Notes THEN [call EXCEPT ![Lead] = Quiet] ELSE call
        /\ \/ UNCHANGED state
           \/ state' = [state EXCEPT ![To[m]] = "Running"]
    BY <1>1, WokenCases
  <1>3. /\ receipt' \in [Messages -> ReceiptState \cup {"none"}]
        /\ journal' \in [Messages -> JournalState]
        /\ queue' \in [Agents -> Lines] /\ denied' \subseteq Messages
        /\ receipt'[m] = receipt[m] \/ receipt'[m] \in {"rejected", "unknown"}
        /\ \A x \in Messages : x # m => receipt'[x] = receipt[x] /\ journal'[x] = journal[x]
        /\ LogAgrees' /\ OrderIsSound' /\ QueuesAreSound' /\ LinesAreInOrder' /\ DeniedIsOut'
    <2>1. CASE TakenBack(m)
      BY <1>2, <2>1, TakenBackMail
    <2>2. CASE UNCHANGED <<receipt, queue, journal, denied, seen>>
      <3>1. LogAgrees' /\ OrderIsSound' /\ QueuesAreSound'
        BY <1>2, <2>2 DEF MailIsSound, LogAgrees, LogSteady, OrderIsSound, QueuesAreSound
      <3>2. LinesAreInOrder'
        BY <1>2, <2>2, LinesStay DEF MailIsSound
      <3>3. DeniedIsOut'
        <4>1. \A x \in Steers : To[x] \in Workers
          BY MailboxAssumption, TeamAssumption DEF Agents
        <4> QED  BY <1>2, <2>2, <4>1 DEF MailIsSound, DeniedIsOut, Steady
      <3> QED  BY <2>2, <3>1, <3>2, <3>3 DEF MailTypes
    <2> QED  BY <1>2, <2>1, <2>2
  <1>4. Lead \in Agents /\ Lead \notin Workers /\ Workers \subseteq Agents /\ To[m] \in Agents
    BY <1>2, MailboxAssumption DEF Agents
  <1>5. MailTypes'
    <2>1. seen' \subseteq Messages
      BY <1>2 DEF TakenBack, MailTypes
    <2>2. call' \in [Agents -> Calls]
      BY <1>2 DEF MailTypes, Calls, Quiet
    <2>3. state' \in [Agents -> AgentState \cup {"none"}]
      BY <1>2 DEF MailTypes, AgentState
    <2> QED  BY <1>2, <1>3, <2>1, <2>2, <2>3, LockTypes DEF MailTypes
  <1>6. /\ m \in Notes => m \in seen /\ m \in noted /\ call[Lead].msg = m /\ call'[Lead] = Quiet
        /\ \A d \in Agents : call'[d] = call[d] \/ (d = Lead /\ m \in Notes)
    <2>1. m \in Notes => call[Lead].msg = m /\ m # NoMessage /\ m \notin Reports
      BY <1>1, <1>2, MailboxAssumption, TeamAssumption DEF MailIsSound, LockIsSound
    <2>2. m \in Notes => m \in seen /\ m \in noted
      BY <1>4, <2>1 DEF MailIsSound, CallsAreSound
    <2> QED  BY <1>2, <1>4, <2>1, <2>2 DEF MailTypes
  <1>7. CallsAreSound'
    <2> SUFFICES ASSUME NEW d \in Agents, NEW x, x = call'[d].msg, x # NoMessage
                 PROVE  /\ x \in seen' /\ x \in Reports \cup noted'
                        /\ Unsent(x)'
                        /\ x \in Reports => ~call'[d].wake
                        /\ \A e \in Agents : e # d => call'[e].msg # x
      BY DEF CallsAreSound, Unsent
    <2>1. call'[d] = call[d]
      BY <1>6 DEF Quiet
    <2>2. /\ x \in seen /\ x \in Reports \cup noted /\ (Unsent(x) \/ Held(x))
          /\ x \in Reports => ~call[d].wake
          /\ \A e \in Agents : e # d => call[e].msg # x
      BY <2>1 DEF MailIsSound, CallsAreSound
    <2>3. x # m
      <3> SUFFICES ASSUME x = m  PROVE FALSE
        OBVIOUS
      <3>1. m \in Notes
        BY <1>2, <2>2, TeamAssumption DEF TeamTypes
      <3>2. d = Lead
        BY <1>4, <1>6, <2>2, <3>1
      <3>3. call'[d] = Quiet
        BY <1>6, <3>1, <3>2
      <3>4. Quiet.msg = NoMessage
        BY DEF Quiet
      <3> QED  BY <3>3, <3>4
    <2>4. Unsent(x) /\ x \in Messages
      BY <1>1, <2>1, <2>2, <2>3 DEF Held, MailTypes, Calls
    <2>5. x \in denied => x \in denied'
      BY <1>2, <2>3 DEF TakenBack
    <2>6. Unsent(x)'
      BY <1>3, <2>3, <2>4, <2>5 DEF Unsent
    <2>7. x \in seen'
      BY <1>2, <2>2, <2>3 DEF TakenBack
    <2>8. \A e \in Agents : e # d => call'[e].msg # x
      BY <1>6, <2>2 DEF Quiet
    <2> QED  BY <2>1, <2>2, <2>6, <2>7, <2>8 DEF Steady
  <1>8. FreeIdsAreUnsent'
    <2>1. FreeIdsAreUnsent
      BY DEF MailIsSound
    <2>2. /\ seen' = seen \/ seen' = seen \ {m}
          /\ m \in Notes /\ m \notin seen' =>
               receipt'[m] = "rejected" /\ journal'[m] = "wake_failed"
      BY <1>2, <1>6 DEF TakenBack, MailTypes
    <2>3. \A x \in Messages \ (Steers \cup seen') :
            receipt'[x] \in {"none", "rejected"} /\ journal'[x] \in {"none", "wake_failed"}
      BY <1>2, <1>3, <2>1, <2>2 DEF FreeIdsAreUnsent
    <2>4. \A x \in Notes \ noted' : receipt'[x] = "none" /\ journal'[x] = "none"
      <3>1. \A x \in Notes \ noted' : x \in Messages /\ x # m /\ x \in Notes \ noted
        BY <1>6, TeamAssumption DEF Steady
      <3> QED  BY <1>3, <2>1, <3>1 DEF FreeIdsAreUnsent
    <2>5. ASSUME NEW x \in Reports
          PROVE  /\ journal'[x] # "wake_failed"
                 /\ receipt'[x] = "rejected" /\ x \notin seen' => x \in denied'
      <3>1. x \in Messages /\ x # m
        BY <1>2, TeamAssumption
      <3>2. x \in denied => x \in denied'
        BY <1>2, <3>1 DEF TakenBack
      <3> QED  BY <1>3, <2>1, <2>2, <3>1, <3>2 DEF FreeIdsAreUnsent
    <2> QED  BY <2>3, <2>4, <2>5 DEF FreeIdsAreUnsent
  <1>9. LockIsSound'
    BY <1>2 DEF LockIsSound, Free
  <1>10. MailIsSound'
    BY <1>3, <1>7, <1>8, <1>9 DEF MailIsSound
  <1>11. \A w \in Workers : call'[w] = call[w]
    BY <1>4, <1>6
  <1> QED  BY <1>2, <1>3, <1>5, <1>10, <1>11

(* A drain cuts the queue: h is handed over, r remains, and the records of *)
(* the messages in wr are in the log.                                      *)
Cut(a, h, r, wr) ==
  /\ h \in Lines /\ r \in Lines /\ h \o r = queue[a]
  /\ Elements(h) \subseteq wr /\ wr \subseteq Elements(queue[a])
  /\ wr # Elements(h) => logFailed' = TRUE
  /\ Elements(h) # {} => logFailed = FALSE
  /\ journal' = [m \in Messages |->
                    IF m \in wr /\ journal[m] = "queued" THEN "delivered" ELSE journal[m]]
  /\ receipt' = [m \in Messages |->
                    IF m \in Elements(h) /\ receipt[m] = "queued" THEN "delivered"
                    ELSE receipt[m]]
  /\ queue' = [queue EXCEPT ![a] = r]
  /\ hand' = [hand EXCEPT ![a] = h]
  /\ lock = Free /\ UNCHANGED <<state, seen, call, lock, order, known, given, denied>>

(* Where a drain may cut.                                                  *)
LEMMA CutPlace ==
  ASSUME NEW s \in Seq(Messages), NEW b \in Nat,
         NEW n \in 0..Len(SubSeq(s, 1, Least(b, Len(s))))
  PROVE  /\ n \in 0..Len(s)
         /\ n # Len(SubSeq(s, 1, Least(b, Len(s)))) => n + 1 <= Len(s)
  <1> DEFINE k == Least(b, Len(s))
  <1>1. Len(s) \in Nat /\ k \in Nat /\ k <= Len(s)
    BY DEF Least
  <1> HIDE DEF k
  <1>2. \A i \in 1..k : s[i] \in Messages
    <2>1. \A i \in 1..k : i \in 1..Len(s)
      BY <1>1
    <2> QED  BY <2>1, ElementOfSeq
  <1>3. Len(SubSeq(s, 1, k)) = IF 1 <= k THEN k - 1 + 1 ELSE 0
    BY <1>1, <1>2, SubSeqProperties
  <1>4. Len(SubSeq(s, 1, k)) = k
    BY <1>1, <1>3
  <1>5. n \in 0..Len(SubSeq(s, 1, k))
    BY DEF k
  <1>6. n \in 0..Len(s) /\ (n # k => n + 1 <= Len(s))
    BY <1>1, <1>4, <1>5
  <1> QED  BY <1>4, <1>6 DEF k

(* What a drain hands over is the front of the queue, and only the record  *)
(* of its next message may be in the log as well.                          *)
LEMMA DrainCuts ==
  ASSUME MailTypes, NEW a \in Agents, NEW n, NEW o, Drain(a, n, o)
  PROVE  /\ \E h, r, wr : Cut(a, h, r, wr)
         /\ logFailed' \in BOOLEAN /\ faults' \in 0..MaxFaults /\ LogSteady
  <1> DEFINE s == queue[a]
             k == IF o = "kept" THEN n + 1 ELSE n
             h == SubSeq(s, 1, n)
             wr == Elements(SubSeq(s, 1, k))
             r == SubSeq(s, n + 1, Len(s))
  <1>1. s \in Seq(Messages)
    BY DEF MailTypes, Lines
  <1>2. /\ n \in 0..Len(Taken(a))
        /\ (n = Len(Taken(a))) <=> (o = "ok")
        /\ IF o = "ok" THEN UNCHANGED <<logFailed, faults>> ELSE Append1(o)
        /\ n > 0 => ~logFailed
        /\ LogDelivered(wr)
        /\ receipt' = [m \in Messages |->
                          IF m \in Elements(h) /\ receipt[m] = "queued"
                          THEN "delivered" ELSE receipt[m]]
        /\ queue' = [queue EXCEPT ![a] = r]
        /\ hand' = [hand EXCEPT ![a] = h]
        /\ lock = Free /\ UNCHANGED <<state, seen, call, lock, order, known, given, denied>>
    BY DEF Drain, Handed, Remains
  <1>3. n \in 0..Len(s) /\ (o # "ok" => n + 1 <= Len(s))
    <2>1. Taken(a) = SubSeq(s, 1, Least(Batch, Len(s))) /\ Batch \in Nat
      BY MailboxAssumption DEF Taken
    <2> QED  BY <1>1, <1>2, <2>1, CutPlace
  <1>4. h \in Lines /\ r \in Lines /\ h \o r = queue[a]
    BY <1>1, <1>3, CutLine DEF Lines
  <1>5. Elements(h) \subseteq wr /\ wr \subseteq Elements(s)
    <2>1. n \in Nat /\ n + 1 \in Nat /\ n <= Len(s)
      BY <1>1, <1>3
    <2>2. Elements(h) \subseteq Elements(s)
      BY <1>1, <2>1, FirstElements
    <2>3. CASE o = "kept"
      <3>1. n + 1 <= Len(s)
        BY <1>3, <2>3
      <3>2. Elements(SubSeq(s, 1, n)) \subseteq Elements(SubSeq(s, 1, n + 1))
        BY <1>1, <2>1, <3>1, FirstElements
      <3>3. Elements(SubSeq(s, 1, n + 1)) \subseteq Elements(s)
        BY <1>1, <2>1, <3>1, FirstElements
      <3> QED  BY <2>3, <3>2, <3>3
    <2>4. CASE o # "kept"
      BY <2>2, <2>4
    <2> QED  BY <2>3, <2>4
  <1>6. Elements(h) # {} => n > 0
    <2> SUFFICES ASSUME n = 0  PROVE Elements(h) = {}
      BY <1>1, <1>3
    <2>1. SubSeq(s, 1, 0) = <<>>
      BY <1>1, FirstElements
    <2> QED  BY <2>1, EmptyQueue
  <1>7. logFailed \in BOOLEAN /\ faults \in 0..MaxFaults
    BY DEF MailTypes
  <1> HIDE DEF h, r, wr, s, k
  <1>8. logFailed' \in BOOLEAN /\ faults' \in 0..MaxFaults /\ LogSteady
    BY <1>2, <1>7, AppendKeeps DEF LogSteady
  <1>9. wr # Elements(h) => logFailed' = TRUE
    <2> SUFFICES ASSUME o = "kept"  PROVE logFailed' = TRUE
      BY DEF h, wr, k
    <2> QED  BY <1>2, AppendKeeps
  <1>10. Elements(h) # {} => logFailed = FALSE
    BY <1>2, <1>6, <1>7
  <1>11. journal' = [m \in Messages |->
                        IF m \in wr /\ journal[m] = "queued" THEN "delivered" ELSE journal[m]]
    BY <1>2 DEF LogDelivered
  <1>12. wr \subseteq Elements(queue[a])
    BY <1>5 DEF s
  <1>13. Cut(a, h, r, wr)
    BY <1>2, <1>4, <1>5, <1>9, <1>10, <1>11, <1>12, Zenon DEF Cut
  <1> QED  BY <1>8, <1>13

(* A drain leaves the mailbox sound, wherever it was cut off.              *)
LEMMA DrainedMail ==
  ASSUME MailTypes, MailIsSound, Steady,
         NEW a \in Agents, a = Lead \/ pc[a] \in {"turn", "wait"},
         hand[a] = <<>>, NEW n, NEW o, Drain(a, n, o)
  PROVE  /\ MailTypes' /\ MailIsSound' /\ UNCHANGED <<state, call, known>>
         /\ \A m \in Messages : \/ receipt'[m] = receipt[m]
                                \/ receipt[m] = "queued" /\ receipt'[m] = "delivered"
  <1>1. PICK h, r, wr : Cut(a, h, r, wr)
    BY DrainCuts
  <1>2. logFailed' \in BOOLEAN /\ faults' \in 0..MaxFaults /\ LogSteady
    BY DrainCuts
  <1>3. /\ h \in Lines /\ r \in Lines /\ h \o r = queue[a]
        /\ Elements(h) \subseteq wr /\ wr \subseteq Elements(queue[a])
        /\ wr # Elements(h) => logFailed' = TRUE
        /\ Elements(h) # {} => logFailed = FALSE
        /\ journal' = [m \in Messages |->
                          IF m \in wr /\ journal[m] = "queued" THEN "delivered"
                          ELSE journal[m]]
        /\ receipt' = [m \in Messages |->
                          IF m \in Elements(h) /\ receipt[m] = "queued" THEN "delivered"
                          ELSE receipt[m]]
        /\ queue' = [queue EXCEPT ![a] = r]
        /\ hand' = [hand EXCEPT ![a] = h]
        /\ lock = Free /\ UNCHANGED <<state, seen, call, lock, order, known, given, denied>>
    BY <1>1 DEF Cut
  <1>4. /\ queue \in [Agents -> Lines] /\ hand \in [Agents -> Lines]
        /\ receipt \in [Messages -> ReceiptState \cup {"none"}]
        /\ journal \in [Messages -> JournalState]
        /\ Elements(queue[a]) \subseteq Messages
    BY ElementsTyped DEF MailTypes, Lines
  <1>5. \A m \in Messages : m \in Elements(queue[a]) <=> receipt[m] = "queued" /\ To[m] = a
    BY DEF MailIsSound, QueuesAreSound
  <1>6. MailTypes'
    <2>1. receipt' \in [Messages -> ReceiptState \cup {"none"}]
      BY <1>3, <1>4 DEF ReceiptState
    <2>2. journal' \in [Messages -> JournalState]
      BY <1>3, <1>4 DEF JournalState
    <2>3. queue' \in [Agents -> Lines] /\ hand' \in [Agents -> Lines]
      BY <1>3, <1>4
    <2> QED  BY <1>2, <1>3, <2>1, <2>2, <2>3 DEF MailTypes
  <1>7. \A m \in Messages :
          /\ receipt'[m] = IF m \in Elements(h) THEN "delivered" ELSE receipt[m]
          /\ m \in Elements(h) => receipt[m] = "queued" /\ To[m] = a
          /\ m \in wr => receipt[m] = "queued"
          /\ journal'[m] = IF m \in wr /\ journal[m] = "queued" THEN "delivered" ELSE journal[m]
    BY <1>3, <1>5
  <1>8. CallsAreSound'
    <2> SUFFICES ASSUME NEW d \in Agents, NEW x, x = call[d].msg, x # NoMessage
                 PROVE  /\ x \in seen /\ x \in Reports \cup noted'
                        /\ receipt'[x] \in {"none", "rejected"}
                        /\ journal'[x] \in {"none", "wake_failed"}
                        /\ receipt'[x] = "rejected" => x \in denied
                        /\ x \in Reports => ~call[d].wake
                        /\ \A e \in Agents : e # d => call[e].msg # x
      BY <1>3 DEF CallsAreSound, Unsent
    <2>1. /\ x \in seen /\ x \in Reports \cup noted /\ Unsent(x)
          /\ x \in Reports => ~call[d].wake
          /\ \A e \in Agents : e # d => call[e].msg # x
      BY <1>3 DEF MailIsSound, CallsAreSound, Held, Free
    <2>2. x \in Messages
      BY DEF MailTypes, Calls
    <2> QED  BY <1>7, <2>1, <2>2 DEF Unsent, Steady
  <1>9. FreeIdsAreUnsent'
    <2>1. \A m \in Messages :
            /\ receipt[m] \in {"none", "rejected"} => receipt'[m] = receipt[m]
            /\ journal[m] \in {"none", "wake_failed"} => journal'[m] = journal[m]
            /\ receipt'[m] = "rejected" => receipt[m] = "rejected"
            /\ journal'[m] = "wake_failed" => journal[m] = "wake_failed"
      BY <1>7
    <2>2. FreeIdsAreUnsent
      BY DEF MailIsSound
    <2>3. \A m \in Reports \cup Notes : m \in Messages
      BY TeamAssumption
    <2>4. \A m \in Messages \ (Steers \cup seen) :
            receipt'[m] \in {"none", "rejected"} /\ journal'[m] \in {"none", "wake_failed"}
      BY <2>1, <2>2 DEF FreeIdsAreUnsent
    <2>5. \A m \in Notes \ noted' : receipt'[m] = "none" /\ journal'[m] = "none"
      BY <2>1, <2>2, <2>3 DEF FreeIdsAreUnsent, Steady
    <2>6. ASSUME NEW m \in Reports
          PROVE  /\ journal'[m] # "wake_failed"
                 /\ receipt'[m] = "rejected" /\ m \notin seen => m \in denied
      BY <2>1, <2>2, <2>3 DEF FreeIdsAreUnsent
    <2> QED  BY <1>3, <2>4, <2>5, <2>6 DEF FreeIdsAreUnsent
  <1>10. LogAgrees'
    <2> SUFFICES ASSUME NEW m \in Messages
                 PROVE  /\ receipt'[m] = "delivered" => journal'[m] = "delivered"
                        /\ given[m] > 0 => /\ given[m] = 1
                                           /\ receipt'[m] \in {"applied", "unknown"}
                                           /\ journal'[m] \in {"delivered", "applied"}
                        /\ ~logFailed' => /\ receipt'[m] = "queued" => journal'[m] = "queued"
                                          /\ receipt'[m] \in {"none", "rejected"} =>
                                               journal'[m] \notin {"delivered", "applied"}
      BY <1>3 DEF LogAgrees
    <2>1. /\ receipt[m] = "delivered" => journal[m] = "delivered"
          /\ given[m] > 0 => /\ given[m] = 1
                             /\ receipt[m] \in {"applied", "unknown"}
                             /\ journal[m] \in {"delivered", "applied"}
          /\ ~logFailed => /\ receipt[m] = "queued" => journal[m] = "queued"
                           /\ receipt[m] \in {"none", "rejected"} =>
                                journal[m] \notin {"delivered", "applied"}
      BY DEF MailIsSound, LogAgrees
    <2>2. CASE m \in Elements(h)
      <3>1. m \in wr /\ ~logFailed /\ receipt[m] = "queued" /\ receipt'[m] = "delivered"
        BY <1>3, <1>7, <2>2
      <3>2. journal'[m] = "delivered"
        BY <1>7, <2>1, <3>1
      <3> QED  BY <2>1, <3>1, <3>2
    <2>3. CASE m \notin Elements(h)
      <3>1. receipt'[m] = receipt[m]
        BY <1>7, <2>3
      <3>2. m \in wr => logFailed' = TRUE
        BY <1>3, <2>3
      <3>3. journal[m] \in {"delivered", "applied"} => journal'[m] = journal[m]
        BY <1>7
      <3>4. m \notin wr => journal'[m] = journal[m]
        BY <1>7
      <3> QED  BY <1>2, <2>1, <3>1, <3>2, <3>3, <3>4 DEF LogSteady
    <2> QED  BY <2>2, <2>3
  <1>11. OrderIsSound'
    <2>1. \A m \in Messages : journal'[m] # "none" => journal[m] # "none"
      BY <1>7
    <2> QED  BY <1>3, <2>1 DEF MailIsSound, OrderIsSound
  <1>12. /\ Elements(h) \cup Elements(r) = Elements(queue[a])
         /\ Elements(h) \cap Elements(r) = {}
         /\ Distinct(h) /\ Distinct(r)
    <2>1. Distinct(queue[a])
      BY DEF MailIsSound, QueuesAreSound
    <2>2. /\ Elements(h \o r) = Elements(h) \cup Elements(r)
          /\ Distinct(h \o r) => /\ Distinct(h) /\ Distinct(r)
                                 /\ Elements(h) \cap Elements(r) = {}
      <3>1. h \in Seq(Messages) /\ r \in Seq(Messages)
        BY <1>3 DEF Lines
      <3> QED  BY <3>1, JoinedLine, Zenon
    <2> QED  BY <1>3, <2>1, <2>2
  <1>13. /\ queue'[a] = r /\ hand'[a] = h
         /\ \A b \in Agents : b # a => queue'[b] = queue[b] /\ hand'[b] = hand[b]
    BY <1>3, <1>4
  <1>14. QueuesAreSound'
    <2> SUFFICES ASSUME NEW b \in Agents
                 PROVE  /\ Distinct(queue'[b]) /\ Distinct(hand'[b])
                        /\ \A m \in Messages : m \in Elements(queue'[b]) <=>
                                                 receipt'[m] = "queued" /\ To[m] = b
                        /\ \A m \in Elements(hand'[b]) : receipt'[m] = "delivered" /\ To[m] = b
      BY DEF QueuesAreSound
    <2>1. /\ Distinct(queue[b]) /\ Distinct(hand[b])
          /\ \A m \in Messages : m \in Elements(queue[b]) <=> receipt[m] = "queued" /\ To[m] = b
          /\ \A m \in Elements(hand[b]) : receipt[m] = "delivered" /\ To[m] = b
      BY DEF MailIsSound, QueuesAreSound
    <2>2. CASE b = a
      <3>1. Elements(h) \subseteq Messages
        BY <1>4, <1>12
      <3>2. \A m \in Elements(hand'[b]) : receipt'[m] = "delivered" /\ To[m] = b
        BY <1>7, <1>13, <2>2, <3>1
      <3>3. \A m \in Messages : m \in Elements(r) <=> m \in Elements(queue[a]) /\ m \notin Elements(h)
        BY <1>12
      <3>4. \A m \in Messages : m \in Elements(queue'[b]) <=> receipt'[m] = "queued" /\ To[m] = b
        BY <1>5, <1>7, <1>13, <2>2, <3>3
      <3> QED  BY <1>12, <1>13, <2>2, <3>2, <3>4
    <2>3. CASE b # a
      <3>1. Elements(hand[b]) \subseteq Messages
        BY ElementsTyped DEF MailTypes, Lines
      <3>2. \A m \in Elements(hand'[b]) : receipt'[m] = "delivered" /\ To[m] = b
        BY <1>7, <1>13, <2>1, <2>3, <3>1
      <3>3. \A m \in Messages : m \in Elements(queue'[b]) <=> receipt'[m] = "queued" /\ To[m] = b
        BY <1>7, <1>13, <2>1, <2>3
      <3> QED  BY <1>13, <2>1, <2>3, <3>2, <3>3
    <2> QED  BY <2>2, <2>3
  <1>15. LinesAreInOrder'
    <2> SUFFICES ASSUME NEW b \in Agents  PROVE Line(b)' = Line(b)
      BY <1>3 DEF MailIsSound, LinesAreInOrder
    <2>1. CASE b = a
      <3>1. <<>> \o queue[a] = queue[a]
        BY <1>4, JoinedToNothing DEF Lines
      <3> QED  BY <1>3, <1>13, <2>1, <3>1 DEF Line
    <2>2. CASE b # a
      BY <1>13, <2>2 DEF Line
    <2> QED  BY <2>1, <2>2
  <1>16. DeniedIsOut'
    <2> SUFFICES ASSUME NEW m \in denied
                 PROVE  /\ given[m] = 0 /\ receipt'[m] # "delivered"
                        /\ receipt'[m] = "queued" =>
                             /\ To[m] \in Workers
                             /\ state'[To[m]] = "none" /\ pc'[To[m]] = "ended"
                        /\ journal'[m] = "queued" => m \in Steers /\ pc'[To[m]] # "absent"
      BY <1>3 DEF DeniedIsOut
    <2>1. m \in Messages
      BY DEF MailTypes
    <2>2. /\ given[m] = 0 /\ receipt[m] # "delivered"
          /\ receipt[m] = "queued" => /\ To[m] \in Workers
                                      /\ state[To[m]] = "none" /\ pc[To[m]] = "ended"
          /\ journal[m] = "queued" => m \in Steers /\ pc[To[m]] # "absent"
      BY DEF MailIsSound, DeniedIsOut
    <2>3. m \notin Elements(h)
      <3> SUFFICES ASSUME m \in Elements(h)  PROVE FALSE
        OBVIOUS
      <3>1. a \in Workers /\ pc[a] = "ended"
        BY <1>7, <2>1, <2>2
      <3> QED  BY <3>1, MailboxAssumption
    <2>4. receipt'[m] = receipt[m] /\ (journal'[m] = "queued" => journal[m] = "queued")
      BY <1>7, <2>1, <2>3
    <2>5. m \in Steers => To[m] \in Workers
      BY MailboxAssumption, TeamAssumption DEF Agents
    <2> QED  BY <1>3, <2>2, <2>4, <2>5 DEF Steady
  <1>17. \A m \in Messages : \/ receipt'[m] = receipt[m]
                             \/ receipt[m] = "queued" /\ receipt'[m] = "delivered"
    BY <1>7
  <1>18. LockIsSound'
    BY <1>3 DEF LockIsSound, Free
  <1> QED
    BY <1>3, <1>6, <1>8, <1>9, <1>10, <1>11, <1>14, <1>15, <1>16, <1>17, <1>18
    DEF MailIsSound

(* The oldest message in hand was delivered and never given to a model.    *)
LEMMA InHand ==
  ASSUME MailTypes, MailIsSound, NEW a \in Agents, hand[a] # <<>>
  PROVE  LET m == Head(hand[a]) IN
         /\ m \in Messages /\ Tail(hand[a]) \in Lines
         /\ Elements(hand[a]) = {m} \cup Elements(Tail(hand[a]))
         /\ m \notin Elements(Tail(hand[a])) /\ Distinct(Tail(hand[a]))
         /\ receipt[m] = "delivered" /\ journal[m] = "delivered" /\ given[m] = 0
         /\ m \notin denied
  <1>1. hand[a] \in Seq(Messages) /\ Distinct(hand[a])
    BY DEF MailTypes, Lines, MailIsSound, QueuesAreSound
  <1>2. PICK m, t : m = Head(hand[a]) /\ t = Tail(hand[a])
    OBVIOUS
  <1>3. /\ m \in Messages /\ t \in Lines
        /\ Elements(hand[a]) = {m} \cup Elements(t)
        /\ m \notin Elements(t) /\ Distinct(t)
    BY <1>1, <1>2, TakenQueue DEF Lines
  <1>4. receipt[m] = "delivered"
    BY <1>3 DEF MailIsSound, QueuesAreSound
  <1>5. journal[m] = "delivered" /\ given[m] = 0
    BY <1>3, <1>4 DEF MailIsSound, LogAgrees, MailTypes
  <1>6. m \notin denied
    BY <1>4 DEF MailIsSound, DeniedIsOut
  <1> QED  BY <1>2, <1>3, <1>4, <1>5, <1>6

(* A message is given to the model.                                        *)
LEMMA AppliedMail ==
  ASSUME MailTypes, MailIsSound, Steady, NEW a \in Agents, NEW o, Apply(a, o)
  PROVE  /\ MailTypes' /\ MailIsSound' /\ UNCHANGED <<state, call, known>>
         /\ \A m \in Messages : \/ receipt'[m] = receipt[m]
                                \/ receipt[m] = "delivered" /\ receipt'[m] = "applied"
  <1>0. hand[a] # <<>>
    BY DEF Apply
  <1>1. PICK m, t : m = Head(hand[a]) /\ t = Tail(hand[a])
    OBVIOUS
  <1>2. /\ m \in Messages /\ t \in Lines
        /\ Elements(hand[a]) = {m} \cup Elements(t)
        /\ m \notin Elements(t) /\ Distinct(t)
        /\ receipt[m] = "delivered" /\ journal[m] = "delivered" /\ given[m] = 0
        /\ m \notin denied
    BY <1>0, <1>1, InHand
  <1>3. /\ hand' = [hand EXCEPT ![a] = t]
        /\ receipt' = [receipt EXCEPT ![m] = "applied"]
        /\ given' = [given EXCEPT ![m] = given[m] + 1]
        /\ Append1(o)
        /\ UNCHANGED journal \/ LogApplied(m)
        /\ UNCHANGED <<state, queue, seen, call, lock, order, known, denied>>
    BY <1>1, <1>2 DEF Apply
  <1>4. /\ hand \in [Agents -> Lines] /\ given \in [Messages -> Nat]
        /\ receipt \in [Messages -> ReceiptState \cup {"none"}]
        /\ journal \in [Messages -> JournalState]
    BY DEF MailTypes
  <1>5. \A x \in Messages : x # m => /\ receipt'[x] = receipt[x]
                                     /\ journal'[x] = journal[x]
                                     /\ given'[x] = given[x]
    BY <1>3, <1>4 DEF LogApplied
  <1>6. /\ receipt'[m] = "applied" /\ given'[m] = 1
        /\ journal'[m] \in {"delivered", "applied"}
    BY <1>2, <1>3, <1>4 DEF LogApplied
  <1>7. logFailed' \in BOOLEAN /\ faults' \in 0..MaxFaults /\ LogSteady
    BY <1>3, AppendKeeps
  <1>8. MailTypes'
    <2>1. hand' \in [Agents -> Lines] /\ given' \in [Messages -> Nat]
      BY <1>2, <1>3, <1>4
    <2>2. receipt' \in [Messages -> ReceiptState \cup {"none"}]
      BY <1>3, <1>4 DEF ReceiptState
    <2>3. journal' \in [Messages -> JournalState]
      BY <1>3, <1>4 DEF JournalState, LogApplied
    <2> QED  BY <1>3, <1>7, <2>1, <2>2, <2>3 DEF MailTypes
  <1>9. CallsAreSound'
    <2> SUFFICES ASSUME NEW d \in Agents, NEW x, x = call[d].msg, x # NoMessage
                 PROVE  /\ x \in seen /\ x \in Reports \cup noted'
                        /\ Unsent(x)' \/ Held(x)
                        /\ x \in Reports => ~call[d].wake
                        /\ \A e \in Agents : e # d => call[e].msg # x
      BY <1>3 DEF CallsAreSound, Unsent, Held
    <2>1. /\ x \in seen /\ x \in Reports \cup noted /\ (Unsent(x) \/ Held(x))
          /\ x \in Reports => ~call[d].wake
          /\ \A e \in Agents : e # d => call[e].msg # x
      BY DEF MailIsSound, CallsAreSound
    <2>2. x \in Messages
      BY DEF MailTypes, Calls
    <2>3. Unsent(x) => Unsent(x)'
      BY <1>2, <1>3, <1>5, <2>2 DEF Unsent
    <2> QED  BY <2>1, <2>3 DEF Steady
  <1>10. FreeIdsAreUnsent'
    <2>1. FreeIdsAreUnsent
      BY DEF MailIsSound
    <2>2. \A x \in Reports \cup Notes : x \in Messages
      BY TeamAssumption
    <2>3. \A x \in Messages \ (Steers \cup seen) :
            receipt'[x] \in {"none", "rejected"} /\ journal'[x] \in {"none", "wake_failed"}
      BY <1>2, <1>5, <2>1 DEF FreeIdsAreUnsent
    <2>4. \A x \in Notes \ noted' : receipt'[x] = "none" /\ journal'[x] = "none"
      BY <1>2, <1>5, <2>1, <2>2 DEF FreeIdsAreUnsent, Steady
    <2>5. ASSUME NEW x \in Reports
          PROVE  /\ journal'[x] # "wake_failed"
                 /\ receipt'[x] = "rejected" /\ x \notin seen => x \in denied
      BY <1>5, <1>6, <2>1, <2>2 DEF FreeIdsAreUnsent
    <2> QED  BY <1>3, <2>3, <2>4, <2>5 DEF FreeIdsAreUnsent
  <1>11. LogAgrees'
    <2> SUFFICES ASSUME NEW x \in Messages
                 PROVE  /\ receipt'[x] = "delivered" => journal'[x] = "delivered"
                        /\ given'[x] > 0 => /\ given'[x] = 1
                                            /\ receipt'[x] \in {"applied", "unknown"}
                                            /\ journal'[x] \in {"delivered", "applied"}
                        /\ ~logFailed' => /\ receipt'[x] = "queued" => journal'[x] = "queued"
                                          /\ receipt'[x] \in {"none", "rejected"} =>
                                               journal'[x] \notin {"delivered", "applied"}
      BY DEF LogAgrees
    <2>1. CASE x = m
      BY <1>6, <2>1
    <2>2. CASE x # m
      BY <1>5, <1>7, <2>2 DEF MailIsSound, LogAgrees, LogSteady
    <2> QED  BY <2>1, <2>2
  <1>12. OrderIsSound'
    <2>1. \A x \in Messages : journal'[x] # "none" => journal[x] # "none"
      BY <1>2, <1>5
    <2> QED  BY <1>3, <2>1 DEF MailIsSound, OrderIsSound
  <1>13. hand'[a] = t /\ \A b \in Agents : b # a => hand'[b] = hand[b]
    BY <1>3, <1>4
  <1>14. QueuesAreSound'
    <2> SUFFICES ASSUME NEW b \in Agents
                 PROVE  /\ Distinct(queue[b]) /\ Distinct(hand'[b])
                        /\ \A x \in Messages : x \in Elements(queue[b]) <=>
                                                 receipt'[x] = "queued" /\ To[x] = b
                        /\ \A x \in Elements(hand'[b]) : receipt'[x] = "delivered" /\ To[x] = b
      BY <1>3 DEF QueuesAreSound
    <2>1. /\ Distinct(queue[b]) /\ Distinct(hand[b])
          /\ \A x \in Messages : x \in Elements(queue[b]) <=> receipt[x] = "queued" /\ To[x] = b
          /\ \A x \in Elements(hand[b]) : receipt[x] = "delivered" /\ To[x] = b
      BY DEF MailIsSound, QueuesAreSound
    <2>2. \A x \in Messages : receipt'[x] = "queued" <=> receipt[x] = "queued"
      BY <1>2, <1>5, <1>6
    <2>3. \A x \in Elements(hand'[b]) : x \in Elements(hand[b]) /\ x # m
      <3>1. CASE b = a
        BY <1>2, <1>13, <3>1
      <3>2. CASE b # a
        <4>1. hand'[b] = hand[b] /\ To[m] = a
          BY <1>2, <1>13, <3>2 DEF MailIsSound, QueuesAreSound
        <4> QED  BY <2>1, <3>2, <4>1
      <3> QED  BY <3>1, <3>2
    <2>4. Elements(hand[b]) \subseteq Messages
      BY ElementsTyped DEF MailTypes, Lines
    <2>5. \A x \in Elements(hand'[b]) : receipt'[x] = "delivered" /\ To[x] = b
      BY <1>5, <2>1, <2>3, <2>4
    <2>6. Distinct(hand'[b])
      BY <1>2, <1>13, <2>1
    <2> QED  BY <2>1, <2>2, <2>5, <2>6
  <1>15. LinesAreInOrder'
    <2> SUFFICES ASSUME NEW b \in Agents, NEW x, NEW y, Precedes(Line(b)', x, y)
                 PROVE  Precedes(Line(b), x, y)
      BY <1>3 DEF MailIsSound, LinesAreInOrder
    <2>1. CASE b = a
      <3>1. hand[a] \in Seq(Messages) /\ queue[a] \in Seq(Messages)
        BY DEF MailTypes, Lines
      <3>2. Precedes(Tail(hand[a]) \o queue[a], x, y)
        BY <1>1, <1>3, <1>13, <2>1 DEF Line
      <3>3. Precedes(hand[a] \o queue[a], x, y)
        BY <1>0, <3>1, <3>2, ShortenedLine
      <3> QED  BY <2>1, <3>3 DEF Line
    <2>2. CASE b # a
      BY <1>3, <1>13, <2>2 DEF Line
    <2> QED  BY <2>1, <2>2
  <1>16. DeniedIsOut'
    <2> SUFFICES ASSUME NEW x \in denied
                 PROVE  /\ given'[x] = 0 /\ receipt'[x] # "delivered"
                        /\ receipt'[x] = "queued" =>
                             /\ To[x] \in Workers
                             /\ state'[To[x]] = "none" /\ pc'[To[x]] = "ended"
                        /\ journal'[x] = "queued" => x \in Steers /\ pc'[To[x]] # "absent"
      BY <1>3 DEF DeniedIsOut
    <2>1. x \in Messages /\ x # m
      BY <1>2 DEF MailTypes
    <2>2. /\ given[x] = 0 /\ receipt[x] # "delivered"
          /\ receipt[x] = "queued" => /\ To[x] \in Workers
                                      /\ state[To[x]] = "none" /\ pc[To[x]] = "ended"
          /\ journal[x] = "queued" => x \in Steers /\ pc[To[x]] # "absent"
      BY DEF MailIsSound, DeniedIsOut
    <2>3. x \in Steers => To[x] \in Workers
      BY MailboxAssumption, TeamAssumption DEF Agents
    <2> QED  BY <1>5, <2>1, <2>2, <2>3 DEF Steady
  <1>17. \A x \in Messages : \/ receipt'[x] = receipt[x]
                             \/ receipt[x] = "delivered" /\ receipt'[x] = "applied"
    BY <1>2, <1>5, <1>6
  <1>18. LockIsSound'
    <2>1. Notes \cup Steers \subseteq Messages
      BY TeamAssumption
    <2> QED  BY <1>2, <1>3, <1>5, <2>1 DEF MailIsSound, LockIsSound
  <1> QED
    BY <1>3, <1>8, <1>9, <1>10, <1>11, <1>12, <1>14, <1>15, <1>16, <1>17, <1>18
    DEF MailIsSound

(* The queue of a teammate that was stopped is rejected.                   *)
LEMMA RejectedMail ==
  ASSUME MailTypes, MailIsSound, Steady, NEW a \in Workers, NEW o,
         RejectUndelivered(a, o), UNCHANGED <<state, known>>
  PROVE  /\ MailTypes' /\ MailIsSound' /\ UNCHANGED call
         /\ \A m \in Messages : \/ receipt'[m] = receipt[m]
                                \/ /\ receipt[m] = "queued" /\ receipt'[m] = "rejected"
                                   /\ To[m] = a
  <1>1. PICK gone : gone = Elements(queue[a])
    OBVIOUS
  <1>2. /\ IF gone = {} THEN o = "ok" /\ UNCHANGED <<logFailed, faults>> ELSE Append1(o)
        /\ IF Logged(o) THEN LogRejected(gone, "rejected") ELSE UNCHANGED journal
        /\ receipt' = [m \in Messages |-> IF m \in gone THEN "rejected" ELSE receipt[m]]
        /\ queue' = [queue EXCEPT ![a] = <<>>]
        /\ lock = Free
        /\ UNCHANGED <<state, known, seen, call, lock, hand, order, given, denied>>
    BY <1>1 DEF RejectUndelivered
  <1>3. a \in Agents
    BY DEF Agents
  <1>4. /\ queue \in [Agents -> Lines] /\ gone \subseteq Messages
        /\ receipt \in [Messages -> ReceiptState \cup {"none"}]
        /\ journal \in [Messages -> JournalState]
        /\ logFailed \in BOOLEAN /\ faults \in 0..MaxFaults
    BY <1>1, <1>3, ElementsTyped DEF MailTypes, Lines
  <1>5. \A m \in Messages : m \in gone <=> receipt[m] = "queued" /\ To[m] = a
    BY <1>1, <1>3 DEF MailIsSound, QueuesAreSound
  <1>6. logFailed' \in BOOLEAN /\ faults' \in 0..MaxFaults /\ LogSteady
    BY <1>2, <1>4, AppendKeeps DEF LogSteady
  <1>7. <<>> \in Lines
    BY DEF Lines
  <1>8. \A m \in Messages :
          /\ receipt'[m] = IF m \in gone THEN "rejected" ELSE receipt[m]
          /\ m \notin gone => journal'[m] = journal[m]
          /\ journal'[m] = journal[m] \/ (journal[m] # "none" /\ journal'[m] = "rejected")
    BY <1>2 DEF LogRejected
  <1>9. MailTypes'
    <2>1. receipt' \in [Messages -> ReceiptState \cup {"none"}]
      BY <1>2, <1>4 DEF ReceiptState
    <2>2. journal' \in [Messages -> JournalState]
      BY <1>2, <1>4 DEF JournalState, LogRejected
    <2>3. queue' \in [Agents -> Lines]
      BY <1>2, <1>4, <1>7
    <2> QED  BY <1>2, <1>6, <2>1, <2>2, <2>3 DEF MailTypes
  <1>10. CallsAreSound'
    <2> SUFFICES ASSUME NEW d \in Agents, NEW x, x = call[d].msg, x # NoMessage
                 PROVE  /\ x \in seen /\ x \in Reports \cup noted'
                        /\ receipt'[x] \in {"none", "rejected"}
                        /\ journal'[x] \in {"none", "wake_failed"}
                        /\ receipt'[x] = "rejected" => x \in denied
                        /\ x \in Reports => ~call[d].wake
                        /\ \A e \in Agents : e # d => call[e].msg # x
      BY <1>2 DEF CallsAreSound, Unsent
    <2>1. /\ x \in seen /\ x \in Reports \cup noted /\ Unsent(x)
          /\ x \in Reports => ~call[d].wake
          /\ \A e \in Agents : e # d => call[e].msg # x
      BY <1>2 DEF MailIsSound, CallsAreSound, Held, Free
    <2>2. x \in Messages /\ x \notin gone
      BY <1>5, <2>1 DEF MailTypes, Calls, Unsent
    <2> QED  BY <1>8, <2>1, <2>2 DEF Unsent, Steady
  <1>11. FreeIdsAreUnsent'
    <2>1. FreeIdsAreUnsent
      BY DEF MailIsSound
    <2>2. \A x \in Reports \cup Notes : x \in Messages
      BY TeamAssumption
    <2>3. \A x \in Messages \ (Steers \cup seen) :
            receipt'[x] \in {"none", "rejected"} /\ journal'[x] \in {"none", "wake_failed"}
      BY <1>5, <1>8, <2>1 DEF FreeIdsAreUnsent
    <2>4. \A x \in Notes \ noted' : receipt'[x] = "none" /\ journal'[x] = "none"
      BY <1>5, <1>8, <2>1, <2>2 DEF FreeIdsAreUnsent, Steady
    <2>5. ASSUME NEW x \in Reports
          PROVE  /\ journal'[x] # "wake_failed"
                 /\ receipt'[x] = "rejected" /\ x \notin seen => x \in denied
      <3>1. x \notin gone
        BY <1>5, <2>2, MailboxAssumption, TeamAssumption
      <3> QED  BY <1>8, <2>1, <2>2, <3>1 DEF FreeIdsAreUnsent
    <2> QED  BY <1>2, <2>3, <2>4, <2>5 DEF FreeIdsAreUnsent
  <1>12. LogAgrees'
    <2> SUFFICES ASSUME NEW x \in Messages
                 PROVE  /\ receipt'[x] = "delivered" => journal'[x] = "delivered"
                        /\ given[x] > 0 => /\ given[x] = 1
                                           /\ receipt'[x] \in {"applied", "unknown"}
                                           /\ journal'[x] \in {"delivered", "applied"}
                        /\ ~logFailed' => /\ receipt'[x] = "queued" => journal'[x] = "queued"
                                          /\ receipt'[x] \in {"none", "rejected"} =>
                                               journal'[x] \notin {"delivered", "applied"}
      BY <1>2 DEF LogAgrees
    <2>1. /\ receipt[x] = "delivered" => journal[x] = "delivered"
          /\ given[x] > 0 => /\ given[x] = 1
                             /\ receipt[x] \in {"applied", "unknown"}
                             /\ journal[x] \in {"delivered", "applied"}
          /\ ~logFailed => /\ receipt[x] = "queued" => journal[x] = "queued"
                           /\ receipt[x] \in {"none", "rejected"} =>
                                journal[x] \notin {"delivered", "applied"}
      BY DEF MailIsSound, LogAgrees
    <2>2. CASE x \in gone
      <3>1. receipt[x] = "queued" /\ receipt'[x] = "rejected"
        BY <1>5, <1>8, <2>2
      <3>2. ~logFailed => journal'[x] \notin {"delivered", "applied"}
        BY <1>8, <2>1, <3>1
      <3> QED  BY <1>6, <2>1, <3>1, <3>2 DEF LogSteady
    <2>3. CASE x \notin gone
      BY <1>6, <1>8, <2>1, <2>3 DEF LogSteady
    <2> QED  BY <2>2, <2>3
  <1>13. OrderIsSound'
    BY <1>2, <1>8 DEF MailIsSound, OrderIsSound
  <1>14. /\ queue'[a] = <<>>
         /\ \A b \in Agents : b # a => queue'[b] = queue[b]
    BY <1>2, <1>3, <1>4
  <1>15. QueuesAreSound'
    <2> SUFFICES ASSUME NEW b \in Agents
                 PROVE  /\ Distinct(queue'[b]) /\ Distinct(hand[b])
                        /\ \A x \in Messages : x \in Elements(queue'[b]) <=>
                                                 receipt'[x] = "queued" /\ To[x] = b
                        /\ \A x \in Elements(hand[b]) : receipt'[x] = "delivered" /\ To[x] = b
      BY <1>2 DEF QueuesAreSound
    <2>1. /\ Distinct(queue[b]) /\ Distinct(hand[b])
          /\ \A x \in Messages : x \in Elements(queue[b]) <=> receipt[x] = "queued" /\ To[x] = b
          /\ \A x \in Elements(hand[b]) : receipt[x] = "delivered" /\ To[x] = b
      BY DEF MailIsSound, QueuesAreSound
    <2>2. Elements(hand[b]) \subseteq Messages
      BY ElementsTyped DEF MailTypes, Lines
    <2>3. \A x \in Elements(hand[b]) : receipt'[x] = "delivered" /\ To[x] = b
      BY <1>5, <1>8, <2>1, <2>2
    <2>4. CASE b = a
      <3>1. Elements(queue'[b]) = {} /\ Distinct(queue'[b])
        BY <1>14, <2>4, EmptyQueue
      <3>2. \A x \in Messages : ~ (receipt'[x] = "queued" /\ To[x] = b)
        BY <1>5, <1>8, <2>4
      <3> QED  BY <2>1, <2>3, <3>1, <3>2
    <2>5. CASE b # a
      BY <1>5, <1>8, <1>14, <2>1, <2>3, <2>5
    <2> QED  BY <2>4, <2>5
  <1>16. LinesAreInOrder'
    <2> SUFFICES ASSUME NEW b \in Agents, NEW x, NEW y, Precedes(Line(b)', x, y)
                 PROVE  Precedes(Line(b), x, y)
      BY <1>2 DEF MailIsSound, LinesAreInOrder
    <2>1. CASE b = a
      <3>1. hand[a] \in Seq(Messages) /\ queue[a] \in Seq(Messages)
        BY <1>3 DEF MailTypes, Lines
      <3>2. Precedes(hand[a] \o <<>>, x, y)
        BY <1>2, <1>14, <2>1 DEF Line
      <3>3. hand[a] \o <<>> = hand[a]
        BY <3>1, JoinedToNothing
      <3>4. Precedes(hand[a] \o queue[a], x, y)
        BY <3>1, <3>2, <3>3, JoinedLine
      <3> QED  BY <2>1, <3>4 DEF Line
    <2>2. CASE b # a
      BY <1>2, <1>14, <2>2 DEF Line
    <2> QED  BY <2>1, <2>2
  <1>17. DeniedIsOut'
    <2> SUFFICES ASSUME NEW x \in denied
                 PROVE  /\ given[x] = 0 /\ receipt'[x] # "delivered"
                        /\ receipt'[x] = "queued" =>
                             /\ To[x] \in Workers
                             /\ state'[To[x]] = "none" /\ pc'[To[x]] = "ended"
                        /\ journal'[x] = "queued" => x \in Steers /\ pc'[To[x]] # "absent"
      BY <1>2 DEF DeniedIsOut
    <2>1. x \in Messages
      BY DEF MailTypes
    <2>2. /\ given[x] = 0 /\ receipt[x] # "delivered"
          /\ receipt[x] = "queued" => /\ To[x] \in Workers
                                      /\ state[To[x]] = "none" /\ pc[To[x]] = "ended"
          /\ journal[x] = "queued" => x \in Steers /\ pc[To[x]] # "absent"
      BY DEF MailIsSound, DeniedIsOut
    <2>3. x \in Steers => To[x] \in Workers
      BY MailboxAssumption, TeamAssumption DEF Agents
    <2>4. /\ receipt'[x] = receipt[x] \/ receipt'[x] = "rejected"
          /\ journal'[x] = "queued" => journal[x] = "queued"
      BY <1>8, <2>1
    <2> QED  BY <2>2, <2>3, <2>4 DEF Steady
  <1>18. \A m \in Messages : \/ receipt'[m] = receipt[m]
                             \/ /\ receipt[m] = "queued" /\ receipt'[m] = "rejected"
                                /\ To[m] = a
    BY <1>5, <1>8
  <1>19. LockIsSound'
    BY <1>2 DEF LockIsSound, Free
  <1> QED
    BY <1>2, <1>9, <1>10, <1>11, <1>12, <1>13, <1>15, <1>16, <1>17, <1>18, <1>19
    DEF MailIsSound

-----------------------------------------------------------------------------
(***************************************************************************)
(* A new process restores the mailbox from the log.                        *)
(***************************************************************************)

(* What is restored of a message and of an agent.                          *)
LEMMA Restored ==
  ASSUME MailTypes
  PROVE  /\ \A a \in Agents : /\ RestoredState(a) \in Ended \cup {"none"}
                              /\ RestoredState(a) # "none" => known[a] # "none"
         /\ \A m \in Messages :
              /\ RestoredReceipt(m) \in {"none", "queued", "applied", "rejected", "unknown"}
              /\ RestoredReceipt(m) = "queued" =>
                   journal[m] = "queued" /\ RestoredState(To[m]) = "none"
              /\ RestoredReceipt(m) \in {"none", "rejected"} =>
                   journal[m] \notin {"delivered", "applied"}
              /\ journal[m] \in {"delivered", "applied"} =>
                   RestoredReceipt(m) \in {"unknown", "applied"}
              /\ journal[m] = "none" => RestoredReceipt(m) = "none"
              /\ journal[m] = "wake_failed" => RestoredReceipt(m) = "rejected"
  <1>1. ASSUME NEW a \in Agents
        PROVE  /\ RestoredState(a) \in Ended \cup {"none"}
               /\ RestoredState(a) # "none" => known[a] # "none"
    <2>1. known[a] \in Ended \cup {"none", "live"}
      BY DEF MailTypes
    <2> QED  BY <2>1 DEF RestoredState, Ended
  <1>2. ASSUME NEW m \in Messages
        PROVE  /\ RestoredReceipt(m) \in {"none", "queued", "applied", "rejected", "unknown"}
               /\ RestoredReceipt(m) = "queued" =>
                    journal[m] = "queued" /\ RestoredState(To[m]) = "none"
               /\ RestoredReceipt(m) \in {"none", "rejected"} =>
                    journal[m] \notin {"delivered", "applied"}
               /\ journal[m] \in {"delivered", "applied"} =>
                    RestoredReceipt(m) \in {"unknown", "applied"}
               /\ journal[m] = "none" => RestoredReceipt(m) = "none"
               /\ journal[m] = "wake_failed" => RestoredReceipt(m) = "rejected"
    <2>1. journal[m] \in JournalState /\ RestoredState(To[m]) \in Ended \cup {"none"}
      BY <1>1, MailboxAssumption DEF MailTypes
    <2> QED  BY <2>1 DEF RestoredReceipt, JournalState
  <1> QED  BY <1>1, <1>2

(* What a new process rebuilds from the log is sound.                      *)
LEMMA RehydratedMail ==
  ASSUME MailTypes, MailIsSound, Rehydrate, UNCHANGED noted,
         pc' = [w \in Workers |-> IF pc[w] = "absent" THEN "absent" ELSE "ended"]
  PROVE  MailTypes' /\ MailIsSound'
  <1>1. /\ state' = [a \in Agents |-> RestoredState(a)]
        /\ receipt' = [m \in Messages |-> RestoredReceipt(m)]
        /\ queue' = [a \in Agents |->
                        Keep(order, {m \in Messages : To[m] = a /\ RestoredReceipt(m) = "queued"})]
        /\ seen' = {m \in Messages : journal[m] \notin {"none", "wake_failed"}}
        /\ call' = [a \in Agents |-> Quiet]
        /\ lock' = Free
        /\ hand' = [a \in Agents |-> <<>>]
        /\ logFailed' = FALSE
        /\ UNCHANGED <<journal, order, known, faults, given, denied>>
    BY DEF Rehydrate
  <1>2. order \in Lines /\ order \in Seq(Messages) /\ Distinct(order)
    BY DEF MailTypes, Lines, MailIsSound, OrderIsSound
  <1>3. <<>> \in Lines /\ Elements(<<>>) = {} /\ Distinct(<<>>)
    BY EmptyQueue DEF Lines
  <1>4. \A m \in Messages : receipt'[m] = RestoredReceipt(m)
    BY <1>1
  <1>5. ASSUME NEW a \in Agents
        PROVE  /\ hand'[a] = <<>>
               /\ queue'[a] \in Lines /\ Distinct(queue'[a])
               /\ Elements(queue'[a]) =
                    Elements(order) \cap {m \in Messages : To[m] = a /\ RestoredReceipt(m) = "queued"}
               /\ \A x, y : Precedes(queue'[a], x, y) => Precedes(order, x, y)
    <2>1. PICK S : S = {m \in Messages : To[m] = a /\ RestoredReceipt(m) = "queued"}
      OBVIOUS
    <2>2. queue'[a] = Keep(order, S) /\ hand'[a] = <<>>
      BY <1>1, <2>1
    <2>3. Keep(order, S) \in Lines /\ Elements(Keep(order, S)) = Elements(order) \cap S
      BY <1>2, KeepSifts, KeepElements DEF Lines
    <2>4. /\ Distinct(Keep(order, S))
          /\ \A x, y : Precedes(Keep(order, S), x, y) => Precedes(order, x, y)
      BY <1>2, KeptQueue
    <2> QED  BY <2>1, <2>2, <2>3, <2>4
  <1>6. MailTypes'
    <2>1. state' \in [Agents -> AgentState \cup {"none"}]
      BY <1>1, Restored DEF AgentState
    <2>2. queue' \in [Agents -> Lines] /\ hand' \in [Agents -> Lines]
      BY <1>1, <1>3, <1>5
    <2>3. receipt' \in [Messages -> ReceiptState \cup {"none"}]
      BY <1>1, Restored DEF ReceiptState
    <2>4. call' \in [Agents -> Calls]
      BY <1>1 DEF Calls, Quiet
    <2> QED  BY <1>1, <2>1, <2>2, <2>3, <2>4, LockTypes DEF MailTypes
  <1>7. CallsAreSound'
    BY <1>1 DEF CallsAreSound, Quiet
  <1>8. FreeIdsAreUnsent'
    <2>1. FreeIdsAreUnsent
      BY DEF MailIsSound
    <2>2. \A x \in Reports \cup Notes : x \in Messages
      BY TeamAssumption
    <2>3. \A x \in Messages : x \notin seen' <=> journal[x] \in {"none", "wake_failed"}
      BY <1>1
    <2>4. \A x \in Messages \ (Steers \cup seen') :
            receipt'[x] \in {"none", "rejected"} /\ journal[x] \in {"none", "wake_failed"}
      BY <1>4, <2>3, Restored
    <2>5. \A x \in Notes \ noted : receipt'[x] = "none" /\ journal[x] = "none"
      BY <1>4, <2>1, <2>2, Restored DEF FreeIdsAreUnsent
    <2>6. ASSUME NEW x \in Reports
          PROVE  /\ journal[x] # "wake_failed"
                 /\ receipt'[x] = "rejected" /\ x \notin seen' => x \in denied
      <3>1. journal[x] # "wake_failed" /\ x \in Messages
        BY <2>1, <2>2 DEF FreeIdsAreUnsent
      <3>2. x \notin seen' => receipt'[x] = "none"
        BY <1>4, <2>3, <3>1, Restored
      <3> QED  BY <3>1, <3>2
    <2> QED  BY <1>1, <2>4, <2>5, <2>6 DEF FreeIdsAreUnsent
  <1>9. LogAgrees'
    <2> SUFFICES ASSUME NEW x \in Messages
                 PROVE  /\ receipt'[x] = "delivered" => journal[x] = "delivered"
                        /\ given[x] > 0 => /\ given[x] = 1
                                           /\ receipt'[x] \in {"applied", "unknown"}
                                           /\ journal[x] \in {"delivered", "applied"}
                        /\ receipt'[x] = "queued" => journal[x] = "queued"
                        /\ receipt'[x] \in {"none", "rejected"} =>
                             journal[x] \notin {"delivered", "applied"}
      BY <1>1 DEF LogAgrees
    <2>1. given[x] > 0 => given[x] = 1 /\ journal[x] \in {"delivered", "applied"}
      BY DEF MailIsSound, LogAgrees
    <2> QED  BY <1>4, <2>1, Restored
  <1>10. OrderIsSound'
    BY <1>1 DEF MailIsSound, OrderIsSound
  <1>11. QueuesAreSound'
    <2> SUFFICES ASSUME NEW a \in Agents
                 PROVE  /\ Distinct(queue'[a]) /\ Distinct(hand'[a])
                        /\ \A x \in Messages : x \in Elements(queue'[a]) <=>
                                                 receipt'[x] = "queued" /\ To[x] = a
                        /\ \A x \in Elements(hand'[a]) : receipt'[x] = "delivered" /\ To[x] = a
      BY DEF QueuesAreSound
    <2>1. \A x \in Messages : RestoredReceipt(x) = "queued" => x \in Elements(order)
      BY Restored DEF MailIsSound, OrderIsSound
    <2>2. \A x \in Messages : x \in Elements(queue'[a]) <=> receipt'[x] = "queued" /\ To[x] = a
      BY <1>4, <1>5, <2>1
    <2> QED  BY <1>3, <1>5, <2>2
  <1>12. LinesAreInOrder'
    <2> SUFFICES ASSUME NEW a \in Agents, NEW x, NEW y, Precedes(Line(a)', x, y)
                 PROVE  Precedes(order, x, y)
      BY <1>1 DEF LinesAreInOrder
    <2>1. PICK q \in Seq(Messages) : q = queue'[a]
      BY <1>5 DEF Lines
    <2>2. <<>> \o q = q
      BY JoinedToNothing
    <2>3. Line(a)' = q
      BY <1>5, <2>1, <2>2 DEF Line
    <2> QED  BY <1>5, <2>1, <2>3
  <1>13. DeniedIsOut'
    <2> SUFFICES ASSUME NEW x \in denied
                 PROVE  /\ given[x] = 0 /\ receipt'[x] # "delivered"
                        /\ receipt'[x] = "queued" =>
                             /\ To[x] \in Workers
                             /\ state'[To[x]] = "none" /\ pc'[To[x]] = "ended"
                        /\ journal[x] = "queued" => x \in Steers /\ pc'[To[x]] # "absent"
      BY <1>1 DEF DeniedIsOut
    <2>1. x \in Messages
      BY DEF MailTypes
    <2>2. /\ given[x] = 0
          /\ journal[x] = "queued" => x \in Steers /\ pc[To[x]] # "absent"
      BY DEF MailIsSound, DeniedIsOut
    <2>3. x \in Steers => To[x] \in Workers /\ To[x] \in Agents
      BY MailboxAssumption, TeamAssumption DEF Agents
    <2>4. receipt'[x] # "delivered"
      BY <1>4, <2>1, Restored
    <2>5. journal[x] = "queued" => x \in Steers /\ To[x] \in Workers /\ pc'[To[x]] = "ended"
      BY <2>2, <2>3
    <2>6. receipt'[x] = "queued" => journal[x] = "queued" /\ RestoredState(To[x]) = "none"
      BY <1>4, <2>1, Restored
    <2>7. To[x] \in Agents => state'[To[x]] = RestoredState(To[x])
      BY <1>1
    <2> QED  BY <2>2, <2>3, <2>4, <2>5, <2>6, <2>7
  <1>14. LockIsSound'
    BY <1>1 DEF LockIsSound, Free
  <1> QED
    BY <1>6, <1>7, <1>8, <1>9, <1>10, <1>11, <1>12, <1>13, <1>14 DEF MailIsSound

-----------------------------------------------------------------------------
(***************************************************************************)
(* The steps of the team.  Each one leaves the invariant true and moves    *)
(* receipts only as Moves says.                                            *)
(***************************************************************************)

Moves(m) ==
  \/ receipt'[m] = receipt[m]
  \/ receipt[m] = "none" /\ receipt'[m] \in {"queued", "rejected", "unknown"}
  \/ receipt[m] = "queued" /\ receipt'[m] \in {"delivered", "rejected", "unknown"}
  \/ receipt[m] = "delivered" /\ receipt'[m] = "applied"
  \/ receipt[m] = "rejected" /\ m \in denied \cup Steers

Forward == \A m \in Messages : Moves(m)

(* A step that leaves the mailbox alone.                                   *)
LEMMA StillStep ==
  ASSUME IInv, Still, Steady, LogSteady,
         state' \in [Agents -> AgentState \cup {"none"}],
         known' \in [Agents -> Ended \cup {"none", "live"}],
         logFailed' \in BOOLEAN, faults' \in 0..MaxFaults,
         TeamTypes', ThreadsAreSound', ResultAccounted'
  PROVE  IInv' /\ Forward
  <1>1. MailTypes /\ MailIsSound
    BY DEF IInv
  <1>2. MailTypes'
    BY <1>1 DEF MailTypes, Still, mailboxVars
  <1>3. MailIsSound'
    BY <1>1, StillMail
  <1>4. Forward
    BY DEF Forward, Moves, Still, mailboxVars
  <1> QED  BY <1>2, <1>3, <1>4 DEF IInv

(* The lead is registered once.                                            *)
LEMMA RegisterLeadStep ==
  ASSUME IInv, NEW o, RegisterLead(o)
  PROVE  IInv' /\ Forward
  <1>1. MailTypes /\ TeamTypes /\ ThreadsAreSound /\ ResultAccounted
    BY DEF IInv
  <1>2. /\ state' = [state EXCEPT ![Lead] = "Running"]
        /\ Append1(o)
        /\ UNCHANGED known \/ known' = [known EXCEPT ![Lead] = "live"]
        /\ Still /\ UNCHANGED <<workerVars, resultVars, hostVars>>
    BY DEF RegisterLead, Started, Still
  <1>3. Lead \in Agents /\ Lead \notin Workers /\ Workers \subseteq Agents
    BY MailboxAssumption DEF Agents
  <1>4. /\ state' \in [Agents -> AgentState \cup {"none"}]
        /\ known' \in [Agents -> Ended \cup {"none", "live"}]
    BY <1>1, <1>2 DEF MailTypes, AgentState
  <1>5. /\ state'[Lead] = "Running"
        /\ \A w \in Workers : state'[w] = state[w] /\ known'[w] = known[w]
    BY <1>1, <1>2, <1>3 DEF MailTypes
  <1>6. Steady
    BY <1>2, <1>5 DEF Steady, workerVars, hostVars
  <1>7. TeamTypes'
    BY <1>1, <1>2 DEF TeamTypes, workerVars, resultVars, hostVars
  <1>8. ThreadsAreSound'
    BY <1>1, <1>2, <1>5 DEF ThreadsAreSound, workerVars, Still, mailboxVars
  <1>9. ResultAccounted'
    BY <1>1, <1>2 DEF ResultAccounted, Confirmed, resultVars, Still, mailboxVars
  <1> QED  BY <1>1, <1>2, <1>4, <1>6, <1>7, <1>8, <1>9, AppendKeeps, StillStep

(* A teammate is spawned once.                                             *)
LEMMA SpawnStep ==
  ASSUME IInv, NEW w \in Workers, NEW o, Spawn(w, o)
  PROVE  IInv' /\ Forward
  <1>1. MailTypes /\ TeamTypes /\ ThreadsAreSound /\ ResultAccounted
    BY DEF IInv
  <1>2. /\ state' = [state EXCEPT ![w] = "Running"]
        /\ pc[w] = "absent" /\ pc' = [pc EXCEPT ![w] = "turn"]
        /\ Append1(o)
        /\ UNCHANGED known \/ known' = [known EXCEPT ![w] = "live"]
        /\ Still /\ UNCHANGED <<reports, leaving, good, resultVars, hostVars>>
    BY DEF Spawn, Started, Still
  <1>3. w \in Agents /\ w # Lead /\ Workers \subseteq Agents /\ Lead \in Agents
    BY MailboxAssumption DEF Agents
  <1>4. /\ state' \in [Agents -> AgentState \cup {"none"}]
        /\ known' \in [Agents -> Ended \cup {"none", "live"}]
    BY <1>1, <1>2 DEF MailTypes, AgentState
  <1>5. /\ \A a \in Agents : a # w => state'[a] = state[a] /\ known'[a] = known[a]
        /\ pc'[w] = "turn"
        /\ \A v \in Workers : v # w => pc'[v] = pc[v]
    BY <1>1, <1>2, <1>3 DEF MailTypes, TeamTypes
  <1>6. Steady
    BY <1>2, <1>3, <1>5 DEF Steady, hostVars
  <1>7. TeamTypes'
    BY <1>1, <1>2 DEF TeamTypes, PcState, resultVars, hostVars
  <1>8. ThreadsAreSound'
    BY <1>1, <1>2, <1>3, <1>5 DEF ThreadsAreSound, Still, mailboxVars
  <1>9. ResultAccounted'
    BY <1>1, <1>2 DEF ResultAccounted, Confirmed, resultVars, Still, mailboxVars
  <1> QED  BY <1>1, <1>2, <1>4, <1>6, <1>7, <1>8, <1>9, AppendKeeps, StillStep

(* Results are numbered.                                                   *)
LEMMA ReportNumbers ==
  ASSUME NEW w \in Workers, NEW n \in Nat, n > 0, n <= MaxReports
  PROVE  <<w, n>> \in Reports
  <1>1. n \in 1..MaxReports
    BY TeamAssumption
  <1> QED  BY <1>1 DEF Reports

(* A result is saved, or its thread ends.                                  *)
LEMMA SaveReportStep ==
  ASSUME IInv, NEW w \in Workers, NEW o, pc[w] \in {"turn", "after"}, SaveReport(w, o)
  PROVE  IInv' /\ Forward
  <1>1. MailTypes /\ TeamTypes /\ ThreadsAreSound /\ ResultAccounted
    BY DEF IInv
  <1>2. PICK m : m = <<w, reports[w] + 1>>
    OBVIOUS
  <1>3. /\ reports[w] < MaxReports
        /\ reports' = [reports EXCEPT ![w] = reports[w] + 1]
        /\ Append1(o)
        /\ recorded' = IF Logged(o) THEN recorded \cup {m} ELSE recorded
        /\ \/ /\ o = "ok" /\ kept' = kept \cup {m} /\ pending' = pending \cup {m}
              /\ pc' = [pc EXCEPT ![w] = "send"] /\ UNCHANGED good
           \/ /\ UNCHANGED <<kept, pending>>
              /\ pc' = [pc EXCEPT ![w] = "finish"] \/ pc' = [pc EXCEPT ![w] = "after"]
              /\ good' = [good EXCEPT ![w] = FALSE]
        /\ Still /\ UNCHANGED <<state, known, leaving, todo, hostVars>>
    BY <1>2 DEF SaveReport, Still
  <1>4. /\ reports[w] \in Nat /\ reports[w] + 1 \in Nat /\ reports[w] + 1 > 0
        /\ reports[w] + 1 <= MaxReports /\ MaxReports \in Nat
    BY <1>1, <1>3, TeamAssumption DEF TeamTypes
  <1>5. m \in Reports
    BY <1>2, <1>4, ReportNumbers
  <1>6. /\ reports' \in [Workers -> 0..MaxReports]
        /\ reports'[w] = reports[w] + 1
        /\ \A v \in Workers : v # w => reports'[v] = reports[v]
    <2>1. reports[w] + 1 \in 0..MaxReports
      BY <1>4
    <2> QED  BY <1>1, <1>3, <2>1 DEF TeamTypes
  <1>7. /\ pc' \in [Workers -> PcState]
        /\ pc'[w] \in {"send", "finish", "after"}
        /\ \A v \in Workers : v # w => pc'[v] = pc[v]
    BY <1>1, <1>3 DEF TeamTypes, PcState
  <1>8. Steady
    BY <1>3, <1>7 DEF Steady, hostVars
  <1>9. TeamTypes'
    <2>1. recorded' \subseteq Reports /\ kept' \subseteq recorded' /\ pending' \subseteq kept'
      BY <1>1, <1>3, <1>5 DEF TeamTypes, Logged
    <2>2. good' \in [Workers -> BOOLEAN]
      BY <1>1, <1>3 DEF TeamTypes
    <2>3. UNCHANGED <<leaving, todo, stopper, noted, tries, restarts>>
      BY <1>3 DEF hostVars
    <2> QED  BY <1>1, <1>6, <1>7, <2>1, <2>2, <2>3 DEF TeamTypes
  <1>10. ThreadsAreSound'
    <2>1. reports'[w] > 0
      BY <1>4, <1>6
    <2>2. UNCHANGED <<state, known, call>>
      BY <1>3 DEF Still, mailboxVars
    <2> QED  BY <1>1, <1>6, <1>7, <2>1, <2>2 DEF ThreadsAreSound
  <1>11. ResultAccounted'
    <2>1. UNCHANGED receipt
      BY <1>3 DEF Still, mailboxVars
    <2> QED  BY <1>1, <1>3, <2>1 DEF ResultAccounted, Confirmed
  <1>12. UNCHANGED <<state, known>> /\ Still
    BY <1>3
  <1>13. /\ state' \in [Agents -> AgentState \cup {"none"}]
         /\ known' \in [Agents -> Ended \cup {"none", "live"}]
    BY <1>1, <1>12 DEF MailTypes
  <1> QED
    BY <1>1, <1>3, <1>8, <1>9, <1>10, <1>11, <1>12, <1>13, AppendKeeps, StillStep

(* The steps of a thread that change neither the mailbox nor the log: it   *)
(* goes idle, resumes, leaves, or records its end.                         *)
Walks(w) ==
  /\ pc[w] \in {"after", "wait", "check", "finish"}
  /\ \E p \in {"turn", "after", "wait", "emit", "ended"} : pc' = [pc EXCEPT ![w] = p]
  /\ reports' = reports \/ reports' = [reports EXCEPT ![w] = 0]
  /\ leaving' = leaving \/ \E b \in BOOLEAN : leaving' = [leaving EXCEPT ![w] = b]
  /\ good' = good \/ \E b \in BOOLEAN : good' = [good EXCEPT ![w] = b]
  /\ state' = state \/ \E s \in AgentState : state' = [state EXCEPT ![w] = s]
  /\ state[w] = "none" => UNCHANGED state
  /\ UNCHANGED <<mailboxVars, logVars, resultVars, hostVars>>

(* A thread that walks leaves the invariant true.                          *)
LEMMA WalkStep ==
  ASSUME IInv, NEW w \in Workers, Walks(w)
  PROVE  IInv' /\ Forward
  <1>1. MailTypes /\ TeamTypes /\ ThreadsAreSound /\ ResultAccounted
    BY DEF IInv
  <1>2. Still /\ LogSteady /\ UNCHANGED <<known, logFailed, faults>>
    BY DEF Walks, Still, logVars, LogSteady
  <1>3. w \in Agents /\ w # Lead /\ Workers \subseteq Agents /\ Lead \in Agents
    BY MailboxAssumption DEF Agents
  <1>4. state' \in [Agents -> AgentState \cup {"none"}]
    BY <1>1 DEF Walks, MailTypes
  <1>5. \A a \in Agents : a # w => state'[a] = state[a]
    BY <1>1, <1>3 DEF Walks, MailTypes
  <1>6. /\ pc' \in [Workers -> PcState]
        /\ pc'[w] \in {"turn", "after", "wait", "emit", "ended"}
        /\ \A v \in Workers : v # w => pc'[v] = pc[v]
    BY <1>1 DEF Walks, TeamTypes, PcState
  <1>7. Steady
    BY <1>3, <1>5, <1>6 DEF Steady, Walks, hostVars
  <1>8. /\ reports' \in [Workers -> 0..MaxReports]
        /\ \A v \in Workers : v # w => reports'[v] = reports[v]
    <2>1. 0 \in 0..MaxReports
      BY TeamAssumption
    <2> QED  BY <1>1, <2>1 DEF Walks, TeamTypes
  <1>9. TeamTypes'
    <2>1. leaving' \in [Workers -> BOOLEAN] /\ good' \in [Workers -> BOOLEAN]
      BY <1>1 DEF Walks, TeamTypes
    <2>2. UNCHANGED <<resultVars, hostVars>>
      BY DEF Walks
    <2> QED  BY <1>1, <1>6, <1>8, <2>1, <2>2 DEF TeamTypes, resultVars, hostVars
  <1>10. ThreadsAreSound'
    BY <1>1, <1>2, <1>3, <1>5, <1>6, <1>8 DEF ThreadsAreSound, Still, mailboxVars
  <1>11. ResultAccounted'
    BY <1>1, <1>2 DEF ResultAccounted, Confirmed, Walks, resultVars, Still, mailboxVars
  <1>12. /\ known' \in [Agents -> Ended \cup {"none", "live"}]
         /\ logFailed' \in BOOLEAN /\ faults' \in 0..MaxFaults
    BY <1>1, <1>2 DEF MailTypes
  <1> QED  BY <1>2, <1>4, <1>7, <1>9, <1>10, <1>11, <1>12, StillStep

(* The teammate goes idle.                                                 *)
LEMMA GoIdleStep ==
  ASSUME IInv, NEW w \in Workers, GoIdle(w)
  PROVE  IInv' /\ Forward
  <1>1. Walks(w)
    BY DEF GoIdle, Walks, ValidTransition, AgentState
  <1> QED  BY <1>1, WalkStep

(* It starts another turn.                                                 *)
LEMMA ResumeStep ==
  ASSUME IInv, NEW w \in Workers, Resume(w)
  PROVE  IInv' /\ Forward
  <1>1. Walks(w)
    BY DEF Resume, Walks, AgentState
  <1> QED  BY <1>1, WalkStep

(* It leaves its loop.                                                     *)
LEMMA LeaveStep ==
  ASSUME IInv, NEW w \in Workers, NEW success \in BOOLEAN, Leave(w, success)
  PROVE  IInv' /\ Forward
  <1>1. Walks(w)
    BY DEF Leave, Walks
  <1> QED  BY <1>1, WalkStep

(* Its record becomes terminal, or it is gone at once.                     *)
LEMMA FinishStep ==
  ASSUME IInv, NEW w \in Workers, Finish(w)
  PROVE  IInv' /\ Forward
  <1> DEFINE target == IF good[w] THEN "Completed"
                       ELSE IF state[w] = "Idle" THEN "Cancelled" ELSE "Failed"
  <1>1. target \in AgentState
    BY DEF AgentState, Ended
  <1>2. /\ pc[w] = "finish"
        /\ \/ /\ ValidTransition(state[w], target)
              /\ state' = [state EXCEPT ![w] = target]
              /\ pc' = [pc EXCEPT ![w] = "emit"]
              /\ UNCHANGED <<reports, leaving, good>>
           \/ UNCHANGED state /\ Gone(w)
        /\ UNCHANGED <<mailboxVars, logVars, resultVars, hostVars>>
    BY DEF Finish
  <1>3. state[w] = "none" => ~ValidTransition(state[w], target)
    BY DEF ValidTransition
  <1> HIDE DEF target
  <1>4. Walks(w)
    BY <1>1, <1>2, <1>3 DEF Walks, Gone
  <1> QED  BY <1>4, WalkStep

(* The record of the end is written, and the thread is gone.               *)
LEMMA EmitEndStep ==
  ASSUME IInv, NEW w \in Workers, NEW o, EmitEnd(w, o)
  PROVE  IInv' /\ Forward
  <1>1. MailTypes /\ TeamTypes /\ ThreadsAreSound /\ ResultAccounted
    BY DEF IInv
  <1>2. /\ pc[w] = "emit"
        /\ pc' = [pc EXCEPT ![w] = "ended"]
        /\ reports' = [reports EXCEPT ![w] = 0]
        /\ leaving' = [leaving EXCEPT ![w] = FALSE]
        /\ good' = [good EXCEPT ![w] = TRUE]
        /\ Append1(o)
        /\ UNCHANGED known \/ LogState(w, state[w])
        /\ Still /\ UNCHANGED <<state, resultVars, hostVars>>
    BY DEF EmitEnd, Gone, Still
  <1>3. w \in Agents /\ Workers \subseteq Agents
    BY DEF Agents
  <1>4. /\ known' \in [Agents -> Ended \cup {"none", "live"}]
        /\ \A a \in Agents : known'[a] # "none" => known[a] # "none"
    BY <1>1, <1>2, <1>3 DEF MailTypes, LogState
  <1>5. /\ pc' \in [Workers -> PcState] /\ pc'[w] = "ended"
        /\ \A v \in Workers : v # w => pc'[v] = pc[v]
    BY <1>1, <1>2 DEF TeamTypes, PcState
  <1>6. Steady
    BY <1>2, <1>5 DEF Steady, hostVars
  <1>7. /\ reports' \in [Workers -> 0..MaxReports]
        /\ \A v \in Workers : v # w => reports'[v] = reports[v]
    <2>1. 0 \in 0..MaxReports
      BY TeamAssumption
    <2> QED  BY <1>1, <1>2, <2>1 DEF TeamTypes
  <1>8. TeamTypes'
    <2>1. leaving' \in [Workers -> BOOLEAN] /\ good' \in [Workers -> BOOLEAN]
      BY <1>1, <1>2 DEF TeamTypes
    <2> QED  BY <1>1, <1>2, <1>5, <1>7, <2>1 DEF TeamTypes, resultVars, hostVars
  <1>9. ThreadsAreSound'
    BY <1>1, <1>2, <1>3, <1>4, <1>5, <1>7 DEF ThreadsAreSound, Still, mailboxVars
  <1>10. ResultAccounted'
    BY <1>1, <1>2 DEF ResultAccounted, Confirmed, resultVars, Still, mailboxVars
  <1>11. state' \in [Agents -> AgentState \cup {"none"}]
    BY <1>1, <1>2 DEF MailTypes
  <1> QED
    BY <1>1, <1>2, <1>4, <1>6, <1>8, <1>9, <1>10, <1>11, AppendKeeps, StillStep

(* A teammate is asked to stop.                                            *)
LEMMA StopStep ==
  ASSUME IInv, NEW w \in Workers, Stop(w)
  PROVE  IInv' /\ Forward
  <1>1. MailTypes /\ TeamTypes /\ ThreadsAreSound /\ ResultAccounted
    BY DEF IInv
  <1>2. /\ state' = [state EXCEPT ![w] = "Stopping"]
        /\ stopper' = [stopper EXCEPT ![w] = "emit"]
        /\ state[w] # "none"
        /\ Still /\ LogSteady
        /\ UNCHANGED <<known, logFailed, faults, workerVars, resultVars, noted, tries, restarts>>
    BY DEF Stop, Still, logVars, LogSteady, ValidTransition
  <1>3. w \in Agents /\ w # Lead /\ Workers \subseteq Agents /\ Lead \in Agents
    BY MailboxAssumption DEF Agents
  <1>4. /\ state' \in [Agents -> AgentState \cup {"none"}]
        /\ known' \in [Agents -> Ended \cup {"none", "live"}]
        /\ logFailed' \in BOOLEAN /\ faults' \in 0..MaxFaults
    BY <1>1, <1>2 DEF MailTypes, AgentState
  <1>5. \A a \in Agents : a # w => state'[a] = state[a]
    BY <1>1, <1>2 DEF MailTypes
  <1>6. Steady
    BY <1>2, <1>3, <1>5 DEF Steady, workerVars
  <1>7. TeamTypes'
    BY <1>1, <1>2 DEF TeamTypes, workerVars, resultVars
  <1>8. ThreadsAreSound'
    BY <1>1, <1>2, <1>3, <1>5 DEF ThreadsAreSound, workerVars, Still, mailboxVars
  <1>9. ResultAccounted'
    BY <1>1, <1>2 DEF ResultAccounted, Confirmed, resultVars, Still, mailboxVars
  <1> QED  BY <1>2, <1>4, <1>6, <1>7, <1>8, <1>9, StillStep

(* The record of the stop is written.                                      *)
LEMMA StopEmitStep ==
  ASSUME IInv, NEW w \in Workers, NEW o, StopEmit(w, o)
  PROVE  IInv' /\ Forward
  <1>1. MailTypes /\ TeamTypes /\ ThreadsAreSound /\ ResultAccounted
    BY DEF IInv
  <1>2. /\ stopper' = [stopper EXCEPT ![w] = "reject"]
        /\ Append1(o)
        /\ UNCHANGED known \/ LogState(w, "Stopping")
        /\ Still
        /\ UNCHANGED <<state, workerVars, resultVars, noted, tries, restarts>>
    BY DEF StopEmit, Still
  <1>3. Workers \subseteq Agents
    BY DEF Agents
  <1>4. /\ known' \in [Agents -> Ended \cup {"none", "live"}]
        /\ \A a \in Agents : known'[a] # "none" => known[a] # "none"
    BY <1>1, <1>2 DEF MailTypes, LogState
  <1>5. Steady
    BY <1>2 DEF Steady, workerVars
  <1>6. TeamTypes'
    BY <1>1, <1>2 DEF TeamTypes, workerVars, resultVars
  <1>7. ThreadsAreSound'
    BY <1>1, <1>2, <1>3, <1>4 DEF ThreadsAreSound, workerVars, Still, mailboxVars
  <1>8. ResultAccounted'
    BY <1>1, <1>2 DEF ResultAccounted, Confirmed, resultVars, Still, mailboxVars
  <1>9. state' \in [Agents -> AgentState \cup {"none"}]
    BY <1>1, <1>2 DEF MailTypes
  <1> QED
    BY <1>1, <1>2, <1>4, <1>5, <1>6, <1>7, <1>8, <1>9, AppendKeeps, StillStep

(* The steps of the lead that change only what it still has to look at.    *)
Looks ==
  /\ todo' \subseteq Reports /\ pending' \subseteq pending
  /\ \A m \in kept : m \in pending => m \in pending' \/ Confirmed(m)
  /\ UNCHANGED <<state, mailboxVars, logVars, workerVars, recorded, kept, hostVars>>

(* A look of the lead leaves the invariant true.                           *)
LEMMA LookStep ==
  ASSUME IInv, Looks
  PROVE  IInv' /\ Forward
  <1>1. MailTypes /\ TeamTypes /\ ThreadsAreSound /\ ResultAccounted
    BY DEF IInv
  <1>2. Still /\ LogSteady /\ UNCHANGED <<state, known, logFailed, faults>>
    BY DEF Looks, Still, logVars, LogSteady
  <1>3. Steady
    BY <1>2 DEF Steady, Looks, workerVars, hostVars
  <1>4. /\ state' \in [Agents -> AgentState \cup {"none"}]
        /\ known' \in [Agents -> Ended \cup {"none", "live"}]
        /\ logFailed' \in BOOLEAN /\ faults' \in 0..MaxFaults
    BY <1>1, <1>2 DEF MailTypes
  <1>5. TeamTypes'
    BY <1>1 DEF TeamTypes, Looks, workerVars, hostVars
  <1>6. ThreadsAreSound'
    BY <1>1, <1>2 DEF ThreadsAreSound, Looks, workerVars, Still, mailboxVars
  <1>7. ResultAccounted'
    BY <1>1, <1>2 DEF ResultAccounted, Confirmed, Looks, Still, mailboxVars
  <1> QED  BY <1>2, <1>3, <1>4, <1>5, <1>6, <1>7, StillStep

(* A look at the status of the agents.                                     *)
LEMMA LeadStatusStep ==
  ASSUME IInv, LeadStatus
  PROVE  IInv' /\ Forward
  <1>1. pending \subseteq Reports
    BY DEF IInv, TeamTypes
  <1>2. Looks
    BY <1>1 DEF LeadStatus, Looks
  <1> QED  BY <1>2, LookStep

(* A confirmed result is settled.                                          *)
LEMMA RetrySettledStep ==
  ASSUME IInv, NEW m \in Reports, RetrySettled(m)
  PROVE  IInv' /\ Forward
  <1>1. todo \subseteq Reports
    BY DEF IInv, TeamTypes
  <1>2. /\ Confirmed(m)
        /\ todo' = todo \ {m} /\ pending' = pending \ {m}
        /\ UNCHANGED <<state, mailboxVars, logVars, workerVars, recorded, kept, hostVars>>
    BY DEF RetrySettled
  <1>3. \A x \in kept : x \in pending => x \in pending' \/ Confirmed(x)
    BY <1>2
  <1>4. Looks
    BY <1>1, <1>2, <1>3 DEF Looks
  <1> QED  BY <1>4, LookStep

(* A step that keeps receipts that are confirmed confirmed, and forgets no *)
(* pending result that is not.                                             *)
LEMMA AccountedStill ==
  ASSUME MailTypes, TeamTypes, ResultAccounted, UNCHANGED kept,
         \A m \in kept : Confirmed(m) => Confirmed(m)',
         \A m \in kept : m \in pending => m \in pending' \/ Confirmed(m)'
  PROVE  ResultAccounted'
  BY DEF ResultAccounted

(* The first half of a send: the id is refused, the recipient has ended,   *)
(* or the id is reserved.                                                  *)
LEMMA BeginMail ==
  ASSUME IInv, Steady, UNCHANGED <<state, logVars, kept, pending>>,
         NEW c \in Agents, NEW m \in Messages, c = Lead => call[Lead] = Quiet,
         m \in Reports \/ (m \in Notes \ noted /\ m \in noted'),
         SendRefused(m) \/ (SendToEnded(m) /\ m \in Reports) \/ Reserve(c, m)
  PROVE  /\ MailTypes' /\ MailIsSound' /\ ResultAccounted' /\ Forward
         /\ UNCHANGED <<state, known>>
         /\ \/ call' = call /\ ~Reserve(c, m)
            \/ call'[c].msg = m /\ \A d \in Agents : d # c => call'[d] = call[d]
  <1>1. MailTypes /\ TeamTypes /\ ThreadsAreSound /\ MailIsSound /\ ResultAccounted
    BY DEF IInv
  <1>2. UNCHANGED <<state, journal, order, known, logFailed, faults>> /\ LogSteady
    BY DEF logVars, LogSteady
  <1>3. CASE SendRefused(m)
    <2>1. Still
      BY <1>2, <1>3 DEF SendRefused, Still, mailboxVars
    <2>2. MailIsSound'
      BY <1>1, <1>2, <2>1, StillMail
    <2>3. MailTypes'
      BY <1>1, <1>2, <2>1 DEF MailTypes, Still, mailboxVars
    <2>4. ResultAccounted' /\ Forward
      BY <1>1, <2>1 DEF ResultAccounted, Confirmed, Forward, Moves, Still, mailboxVars
    <2>5. call' = call /\ ~Reserve(c, m)
      BY <1>3 DEF SendRefused, Reserve, mailboxVars
    <2> QED  BY <1>2, <2>2, <2>3, <2>4, <2>5
  <1>4. CASE SendToEnded(m) /\ m \in Reports
    <2>1. /\ m \notin seen /\ state[To[m]] # "none" /\ Terminal(To[m])
          /\ receipt' = [receipt EXCEPT ![m] = "rejected"]
          /\ denied' = denied \cup {m}
          /\ UNCHANGED <<queue, seen, call, lock, hand, given>>
      BY <1>4 DEF SendToEnded, RefusedEarly
    <2>2. receipt[m] \in {"none", "rejected"}
      BY <1>1, <1>4, <2>1, TeamAssumption DEF MailIsSound, FreeIdsAreUnsent
    <2>3. Refuses(m)
      BY <1>2, <1>4, <2>1, <2>2 DEF Refuses, Live
    <2>4. /\ MailIsSound'
          /\ receipt' \in [Messages -> ReceiptState \cup {"none"}] /\ denied' \subseteq Messages
      BY <1>1, <2>3, RefusedMail
    <2>5. MailTypes'
      BY <1>1, <1>2, <2>1, <2>4 DEF MailTypes
    <2>6. \A x \in Messages : x # m => receipt'[x] = receipt[x]
      BY <1>1, <2>1 DEF MailTypes
    <2>7. receipt'[m] = "rejected"
      BY <1>1, <2>1 DEF MailTypes
    <2>8. Forward
      <3>1. Moves(m)
        BY <2>2, <2>7 DEF Moves
      <3> QED  BY <2>6, <3>1 DEF Forward, Moves
    <2>9. ResultAccounted'
      <3>1. kept \subseteq Messages
        BY <1>1, TeamAssumption DEF TeamTypes
      <3>2. \A x \in kept : Confirmed(x) => Confirmed(x)'
        BY <2>2, <2>6, <3>1 DEF Confirmed
      <3> QED  BY <1>1, <3>2, AccountedStill
    <2>10. call' = call /\ ~Reserve(c, m)
      BY <2>1 DEF Reserve
    <2> QED  BY <1>2, <2>4, <2>5, <2>8, <2>9, <2>10
  <1>5. CASE Reserve(c, m)
    <2>1. MailIsSound' /\ seen' \subseteq Messages /\ call' \in [Agents -> Calls]
      BY <1>1, <1>5, ReservedMail
    <2>2. /\ call' = [call EXCEPT ![c] = [msg |-> m, wake |-> state[To[m]] = "Idle"]]
          /\ UNCHANGED <<queue, receipt, lock, hand, given, denied>>
      BY <1>5 DEF Reserve
    <2>3. MailTypes'
      BY <1>1, <1>2, <2>1, <2>2 DEF MailTypes
    <2>4. ResultAccounted' /\ Forward
      BY <1>1, <2>2 DEF ResultAccounted, Confirmed, Forward, Moves
    <2>5. call'[c].msg = m /\ \A d \in Agents : d # c => call'[d] = call[d]
      BY <1>1, <2>2 DEF MailTypes
    <2> QED  BY <1>2, <2>1, <2>3, <2>4, <2>5
  <1> QED  BY <1>3, <1>4, <1>5

(* A teammate starts to send its report.                                   *)
LEMMA BeginSendStep ==
  ASSUME IInv, NEW w \in Workers, BeginSend(w)
  PROVE  IInv' /\ Forward
  <1>1. MailTypes /\ TeamTypes /\ ThreadsAreSound /\ ResultAccounted
    BY DEF IInv
  <1>2. PICK m : m = <<w, reports[w]>>
    OBVIOUS
  <1>3. /\ pc[w] = "send"
        /\ \/ (SendRefused(m) \/ SendToEnded(m)) /\ pc' = [pc EXCEPT ![w] = AfterSend(w)]
           \/ Reserve(w, m) /\ pc' = [pc EXCEPT ![w] = "commit"]
        /\ UNCHANGED <<state, logVars, reports, leaving, good, resultVars, hostVars>>
    BY <1>2 DEF BeginSend
  <1>4. m \in Reports /\ m \in Messages
    <2>1. reports[w] \in Nat /\ reports[w] > 0 /\ reports[w] <= MaxReports
      BY <1>1, <1>3, TeamAssumption DEF TeamTypes, ThreadsAreSound
    <2> QED  BY <1>2, <2>1, ReportNumbers, TeamAssumption
  <1>5. w \in Agents /\ w # Lead /\ Workers \subseteq Agents /\ Lead \in Agents
    BY MailboxAssumption DEF Agents
  <1>6. /\ pc' \in [Workers -> PcState]
        /\ pc'[w] \in {"finish", "after", "commit"}
        /\ \A v \in Workers : v # w => pc'[v] = pc[v]
        /\ pc'[w] = "commit" => Reserve(w, m)
    BY <1>1, <1>3 DEF TeamTypes, PcState, AfterSend
  <1>7. UNCHANGED <<recorded, kept, pending, todo, stopper, noted, tries, restarts>>
    BY <1>3 DEF resultVars, hostVars
  <1>8. Steady
    BY <1>3, <1>6, <1>7 DEF Steady
  <1>9. /\ MailTypes' /\ MailIsSound' /\ ResultAccounted' /\ Forward
        /\ UNCHANGED <<state, known>>
        /\ \/ call' = call /\ ~Reserve(w, m)
           \/ call'[w].msg = m /\ \A d \in Agents : d # w => call'[d] = call[d]
    BY <1>3, <1>4, <1>5, <1>7, <1>8, BeginMail
  <1>10. TeamTypes'
    BY <1>1, <1>3, <1>6, <1>7 DEF TeamTypes
  <1>11. ThreadsAreSound'
    <2>1. state'[Lead] # "Idle"
      BY <1>1, <1>9 DEF ThreadsAreSound
    <2>2. ASSUME NEW v \in Workers
          PROVE  /\ state'[v] # "none" \/ known'[v] # "none" => pc'[v] # "absent"
                 /\ pc'[v] = "send" => reports'[v] > 0
                 /\ pc'[v] = "commit" => call'[v].msg \in Reports
      <3>1. CASE v = w
        BY <1>4, <1>6, <1>9, <3>1
      <3>2. CASE v # w
        <4>1. pc'[v] = pc[v] /\ reports'[v] = reports[v] /\ call'[v] = call[v]
          BY <1>3, <1>5, <1>6, <1>9, <3>2
        <4> QED  BY <1>1, <1>9, <4>1 DEF ThreadsAreSound
      <3> QED  BY <3>1, <3>2
    <2> QED  BY <2>1, <2>2 DEF ThreadsAreSound
  <1> QED  BY <1>9, <1>10, <1>11 DEF IInv

(* A step of the lead leaves the threads of the teammates as they are.     *)
LEMMA LeadKeepsThreads ==
  ASSUME ThreadsAreSound, UNCHANGED <<pc, reports, known>>,
         \A w \in Workers : call'[w] = call[w],
         \A w \in Workers : state'[w] # "none" => state[w] # "none",
         state'[Lead] # "Idle"
  PROVE  ThreadsAreSound'
  BY DEF ThreadsAreSound

(* The lead sends a result again.                                          *)
LEMMA BeginRetryStep ==
  ASSUME IInv, NEW m \in Reports, BeginRetry(m)
  PROVE  IInv' /\ Forward
  <1>1. MailTypes /\ TeamTypes /\ ThreadsAreSound /\ ResultAccounted
    BY DEF IInv
  <1>2. /\ call[Lead] = Quiet
        /\ SendRefused(m) \/ SendToEnded(m) \/ Reserve(Lead, m)
        /\ todo' \subseteq todo
        /\ UNCHANGED <<state, logVars, workerVars, recorded, kept, pending, hostVars>>
    BY DEF BeginRetry
  <1>3. Lead \in Agents /\ Lead \notin Workers /\ Workers \subseteq Agents /\ m \in Messages
    BY MailboxAssumption, TeamAssumption DEF Agents
  <1>4. Steady
    BY <1>2 DEF Steady, workerVars, hostVars
  <1>5. /\ MailTypes' /\ MailIsSound' /\ ResultAccounted' /\ Forward
        /\ UNCHANGED <<state, known>>
        /\ \/ call' = call
           \/ \A d \in Agents : d # Lead => call'[d] = call[d]
    BY <1>2, <1>3, <1>4, BeginMail
  <1>6. TeamTypes'
    BY <1>1, <1>2 DEF TeamTypes, workerVars, hostVars
  <1>7. ThreadsAreSound'
    <2>1. state'[Lead] # "Idle"
      BY <1>1, <1>5 DEF ThreadsAreSound
    <2>2. \A w \in Workers : call'[w] = call[w]
      BY <1>3, <1>5
    <2> QED  BY <1>1, <1>2, <1>5, <2>1, <2>2, LeadKeepsThreads DEF workerVars
  <1> QED  BY <1>5, <1>6, <1>7 DEF IInv

(* The lead starts to send a note.                                         *)
LEMMA BeginNoteStep ==
  ASSUME IInv, NEW m \in Notes, BeginNote(m)
  PROVE  IInv' /\ Forward
  <1>1. MailTypes /\ TeamTypes /\ ThreadsAreSound /\ ResultAccounted
    BY DEF IInv
  <1>2. /\ call[Lead] = Quiet
        /\ SendRefused(m) \/ Reserve(Lead, m)
        /\ m \notin noted /\ noted' = noted \cup {m}
        /\ UNCHANGED <<state, logVars, workerVars, resultVars, stopper, tries, restarts>>
    BY DEF BeginNote, LeadFree
  <1>3. Lead \in Agents /\ Lead \notin Workers /\ Workers \subseteq Agents /\ m \in Messages
    BY MailboxAssumption, TeamAssumption DEF Agents
  <1>4. Steady
    BY <1>2 DEF Steady, workerVars
  <1>5. UNCHANGED <<recorded, kept, pending, todo>>
    BY <1>2 DEF resultVars
  <1>6. /\ MailTypes' /\ MailIsSound' /\ ResultAccounted' /\ Forward
        /\ UNCHANGED <<state, known>>
        /\ \/ call' = call
           \/ \A d \in Agents : d # Lead => call'[d] = call[d]
    BY <1>2, <1>3, <1>4, <1>5, BeginMail
  <1>7. TeamTypes'
    BY <1>1, <1>2, <1>5 DEF TeamTypes, workerVars
  <1>8. ThreadsAreSound'
    <2>1. state'[Lead] # "Idle"
      BY <1>1, <1>6 DEF ThreadsAreSound
    <2>2. \A w \in Workers : call'[w] = call[w]
      BY <1>3, <1>6
    <2> QED  BY <1>1, <1>2, <1>6, <2>1, <2>2, LeadKeepsThreads DEF workerVars
  <1> QED  BY <1>6, <1>7, <1>8 DEF IInv

(* What a send does to the receipts.                                       *)
LEMMA PostedMoves ==
  ASSUME MailTypes, OrderIsSound, NEW m \in Messages, Posted(m),
         receipt[m] = "rejected" => m \in denied \cup Steers
  PROVE  /\ Forward
         /\ \A x \in Messages : x # m => receipt'[x] = receipt[x]
         /\ receipt[m] \in {"none", "rejected"}
  <1>1. /\ receipt'[m] \in {"none", "rejected", "unknown", "queued"}
        /\ receipt'[m] \in {"none", "rejected"} => NotSent(m)
        /\ \A x \in Messages : x # m => receipt'[x] = receipt[x]
    BY PostedTypes
  <1>2. receipt[m] \in {"none", "rejected"}
    BY DEF Posted
  <1>3. Moves(m)
    <2>1. CASE receipt[m] = "rejected"
      BY <2>1 DEF Moves
    <2>2. CASE receipt[m] = "none" /\ receipt'[m] = "none"
      BY <2>2 DEF Moves
    <2>3. CASE receipt[m] = "none" /\ receipt'[m] # "none"
      BY <1>1, <2>3 DEF Moves
    <2> QED  BY <1>2, <2>1, <2>2, <2>3
  <1> QED  BY <1>1, <1>2, <1>3 DEF Forward, Moves

(* The second half of a send, for any caller: a pending result is settled  *)
(* only when the receipt says that it may have been delivered.             *)
LEMMA SendStep ==
  ASSUME IInv, UNCHANGED kept, NEW c \in Agents, NEW next \in LockStep, NEW o,
         Sent(c, next, o),
         noted \subseteq noted',
         \A v \in Workers : /\ pc[v] = "ended" => pc'[v] = "ended"
                            /\ pc[v] # "absent" => pc'[v] # "absent",
         \/ pending' = pending
         \/ /\ pending' = pending \ {call[c].msg}
            /\ PublishAnswer(call[c].msg, next, o) \in {"ok", "unknown"}
  PROVE  /\ MailTypes' /\ MailIsSound' /\ ResultAccounted' /\ Forward
         /\ UNCHANGED <<state, known>>
         /\ \A d \in Agents : d # c => call'[d] = call[d]
  <1>1. MailTypes /\ TeamTypes /\ ThreadsAreSound /\ MailIsSound /\ ResultAccounted
    BY DEF IInv
  <1>2. PICK m \in Messages : m = call[c].msg
    BY <1>1, SentMessage DEF Sent
  <1> DEFINE answer == PublishAnswer(m, next, o)
  <1>3. /\ Publish(m, next, o)
        /\ call' = [call EXCEPT ![c] = IF answer = "waking" THEN @ ELSE Quiet]
    BY <1>2 DEF Sent
  <1>4. /\ UNCHANGED state /\ lock = Free
        /\ \/ answer \notin {"ok", "unknown"}
           \/ Accepts(m) \/ InDoubt(m)
    BY <1>1, <1>3, PublishCases
  <1> HIDE DEF answer
  <1>5. Unsent(m)
    BY <1>1, <1>2, <1>4, SentMessage DEF Sent
  <1>6. answer \in {"ok", "unknown"} => receipt'[m] \in {"queued", "unknown"}
    BY <1>1, <1>4 DEF Accepts, InDoubt, MailTypes
  <1>7. Steady
    BY <1>4 DEF Steady
  <1>8. MailTypes' /\ MailIsSound' /\ Posted(m) /\ UNCHANGED known
    BY <1>1, <1>2, <1>7, SentMail
  <1>9. /\ Forward
        /\ \A x \in Messages : x # m => receipt'[x] = receipt[x]
        /\ receipt[m] \in {"none", "rejected"}
    BY <1>1, <1>5, <1>8, PostedMoves DEF MailIsSound, Unsent
  <1>10. ResultAccounted'
    <2>1. kept \subseteq Messages
      BY <1>1, TeamAssumption DEF TeamTypes
    <2>2. \A x \in kept : Confirmed(x) => Confirmed(x)'
      BY <1>9, <2>1 DEF Confirmed
    <2>3. \A x \in kept : x \in pending => x \in pending' \/ Confirmed(x)'
      BY <1>2, <1>6 DEF Confirmed, answer
    <2> QED  BY <1>1, <2>2, <2>3, AccountedStill
  <1>11. \A d \in Agents : d # c => call'[d] = call[d]
    BY <1>1, <1>3 DEF MailTypes
  <1> QED  BY <1>4, <1>8, <1>9, <1>10, <1>11

(* A teammate's report was sent.                                           *)
LEMMA CompleteSendStep ==
  ASSUME IInv, NEW w \in Workers, NEW o, CompleteSend(w, o)
  PROVE  IInv' /\ Forward
  <1>1. MailTypes /\ TeamTypes /\ ThreadsAreSound /\ MailIsSound /\ ResultAccounted
    BY DEF IInv
  <1> DEFINE m == call[w].msg
             answer == PublishAnswer(m, "free", o)
  <1>2. /\ pc[w] = "commit"
        /\ Publish(m, "free", o)
        /\ seen' = Released(m, answer)
        /\ call' = [call EXCEPT ![w] = Quiet]
        /\ pending' = IF Settled(answer) THEN pending \ {m} ELSE pending
        /\ pc' = [pc EXCEPT ![w] = AfterSend(w)]
        /\ UNCHANGED <<reports, leaving, good, recorded, kept, todo, hostVars>>
    BY DEF CompleteSend
  <1>3. m \in Reports /\ m # NoMessage
    BY <1>1, <1>2, MailboxAssumption, TeamAssumption DEF ThreadsAreSound
  <1>4. answer # "waking" /\ "free" \in LockStep
    <2>1. o \in AllOutcomes
      BY <1>2 DEF Publish, Append1, Outcomes, AllOutcomes
    <2> QED  BY <2>1 DEF PublishAnswer, LockStep, AllOutcomes
  <1>5. Sent(w, "free", o)
    BY <1>2, <1>3, <1>4 DEF Sent
  <1>6. /\ pc' \in [Workers -> PcState]
        /\ pc'[w] \in {"finish", "after"}
        /\ \A v \in Workers : v # w => pc'[v] = pc[v]
    BY <1>1, <1>2 DEF TeamTypes, PcState, AfterSend
  <1>7. \/ pending' = pending
        \/ pending' = pending \ {m} /\ answer \in {"ok", "unknown"}
    BY <1>2 DEF Settled
  <1>8. UNCHANGED <<stopper, noted, tries, restarts>>
    BY <1>2 DEF hostVars
  <1>9. w \in Agents /\ Workers \subseteq Agents
    BY DEF Agents
  <1>10. \A v \in Workers : /\ pc[v] = "ended" => pc'[v] = "ended"
                            /\ pc[v] # "absent" => pc'[v] # "absent"
    BY <1>2, <1>6
  <1>11. /\ MailTypes' /\ MailIsSound' /\ ResultAccounted' /\ Forward
         /\ UNCHANGED <<state, known>>
         /\ \A d \in Agents : d # w => call'[d] = call[d]
    BY <1>2, <1>4, <1>5, <1>7, <1>8, <1>9, <1>10, SendStep
  <1>12. TeamTypes'
    BY <1>1, <1>2, <1>6, <1>7, <1>8 DEF TeamTypes
  <1>13. ThreadsAreSound'
    BY <1>1, <1>2, <1>6, <1>9, <1>11 DEF ThreadsAreSound
  <1> QED  BY <1>11, <1>12, <1>13 DEF IInv

(* What the lead sent, a result or a note, was published.                  *)
LEMMA LeadSendStep ==
  ASSUME IInv, NEW next \in LockStep, NEW o, Sent(Lead, next, o),
         \/ pending' = pending
         \/ /\ pending' = pending \ {call[Lead].msg}
            /\ PublishAnswer(call[Lead].msg, next, o) \in {"ok", "unknown"},
         todo' \subseteq todo,
         UNCHANGED <<workerVars, recorded, kept, hostVars>>
  PROVE  IInv' /\ Forward
  <1>1. MailTypes /\ TeamTypes /\ ThreadsAreSound /\ MailIsSound /\ ResultAccounted
    BY DEF IInv
  <1>2. Lead \in Agents /\ Lead \notin Workers /\ Workers \subseteq Agents
    BY MailboxAssumption DEF Agents
  <1>3. UNCHANGED <<pc, reports, leaving, good, stopper, noted, tries, restarts>>
    BY DEF workerVars, hostVars
  <1>4. /\ MailTypes' /\ MailIsSound' /\ ResultAccounted' /\ Forward
        /\ UNCHANGED <<state, known>>
        /\ \A d \in Agents : d # Lead => call'[d] = call[d]
    BY <1>2, <1>3, SendStep
  <1>5. TeamTypes'
    BY <1>1, <1>3 DEF TeamTypes
  <1>6. ThreadsAreSound'
    <2>1. state'[Lead] # "Idle"
      BY <1>1, <1>4 DEF ThreadsAreSound
    <2> QED  BY <1>1, <1>2, <1>3, <1>4, <2>1, LeadKeepsThreads
  <1> QED  BY <1>4, <1>5, <1>6 DEF IInv

(* A result was sent again.                                                *)
LEMMA CompleteRetryStep ==
  ASSUME IInv, NEW o, CompleteRetry(o)
  PROVE  IInv' /\ Forward
  <1> DEFINE m == call[Lead].msg
             answer == PublishAnswer(m, "free", o)
  <1>1. /\ m \in Reports
        /\ Publish(m, "free", o)
        /\ seen' = Released(m, answer)
        /\ call' = [call EXCEPT ![Lead] = Quiet]
        /\ todo' = IF answer = "full" THEN {} ELSE todo \ {m}
        /\ pending' = IF answer = "ok" THEN pending \ {m} ELSE pending
        /\ UNCHANGED <<workerVars, recorded, kept, hostVars>>
    BY DEF CompleteRetry
  <1>2. m # NoMessage
    BY <1>1, MailboxAssumption, TeamAssumption
  <1>3. answer # "waking" /\ "free" \in LockStep
    <2>1. o \in AllOutcomes
      BY <1>1 DEF Publish, Append1, Outcomes, AllOutcomes
    <2> QED  BY <2>1 DEF PublishAnswer, LockStep, AllOutcomes
  <1>4. Sent(Lead, "free", o)
    BY <1>1, <1>2, <1>3 DEF Sent
  <1>5. todo' \subseteq todo
    BY <1>1
  <1>6. \/ pending' = pending
        \/ pending' = pending \ {m} /\ answer \in {"ok", "unknown"}
    BY <1>1
  <1> QED  BY <1>1, <1>3, <1>4, <1>5, <1>6, LeadSendStep

(* A note was sent, or waits for its recipient to be woken.                *)
LEMMA CompleteNoteStep ==
  ASSUME IInv, NEW o, CompleteNote(o)
  PROVE  IInv' /\ Forward
  <1>1. call[Lead].msg # NoMessage /\ call[Lead].msg \in Notes
    BY MailboxAssumption, TeamAssumption DEF CompleteNote
  <1>2. PICK next \in LockStep : next = IF call[Lead].wake THEN "wake" ELSE "free"
    BY DEF LockStep
  <1>3. Sent(Lead, next, o)
    BY <1>1, <1>2 DEF CompleteNote, Sent
  <1>4. UNCHANGED <<workerVars, recorded, kept, pending, todo, hostVars>>
    BY DEF CompleteNote, resultVars
  <1> QED  BY <1>3, <1>4, LeadSendStep

(* A sender with the lifecycle lock looks at the recipient.                *)
LEMMA TryWakeStep ==
  ASSUME IInv, TryWake
  PROVE  IInv' /\ Forward
  <1>1. MailTypes /\ TeamTypes /\ ThreadsAreSound /\ MailIsSound /\ ResultAccounted
    BY DEF IInv
  <1>2. /\ \E next \in {"wake", "lost"} : lock' = [lock EXCEPT !.step = next]
        /\ lock.step # "free"
        /\ UNCHANGED <<state, queue, seen, receipt, call, hand, given, denied, logVars>>
        /\ UNCHANGED <<workerVars, resultVars, hostVars>>
    BY DEF TryWake, KeepLock
  <1>3. lock' \in Locks /\ lock'.msg = lock.msg /\ lock'.step # "free"
    <2>1. lock \in [msg : Messages \cup {NoMessage}, step : LockStep]
      BY <1>1 DEF MailTypes, Locks
    <2> QED  BY <1>2, <2>1 DEF Locks, LockStep
  <1>4. UNCHANGED <<journal, order, known, logFailed, faults>> /\ LogSteady
    BY <1>2 DEF logVars, LogSteady
  <1>5. Steady
    BY <1>2 DEF Steady, workerVars, hostVars
  <1>6. MailTypes'
    BY <1>1, <1>2, <1>3, <1>4 DEF MailTypes
  <1>7. MailIsSound'
    <2>1. CallsAreSound'
      <3>1. \A x : (Unsent(x)' <=> Unsent(x)) /\ (Held(x)' <=> Held(x))
        BY <1>2, <1>3, <1>4 DEF Unsent, Held
      <3> QED  BY <1>1, <1>2, <3>1 DEF MailIsSound, CallsAreSound, Unsent, Held, hostVars
    <2>2. FreeIdsAreUnsent'
      BY <1>1, <1>2, <1>4 DEF MailIsSound, FreeIdsAreUnsent, hostVars
    <2>3. LogAgrees' /\ OrderIsSound' /\ QueuesAreSound'
      BY <1>1, <1>2, <1>4 DEF MailIsSound, LogAgrees, OrderIsSound, QueuesAreSound
    <2>4. LinesAreInOrder'
      BY <1>1, <1>2, <1>4, LinesStay DEF MailIsSound
    <2>5. DeniedIsOut'
      BY <1>1, <1>2, <1>4 DEF MailIsSound, DeniedIsOut, workerVars
    <2>6. LockIsSound'
      BY <1>1, <1>2, <1>3, <1>4 DEF MailIsSound, LockIsSound
    <2> QED  BY <2>1, <2>2, <2>3, <2>4, <2>5, <2>6 DEF MailIsSound
  <1>8. TeamTypes'
    BY <1>1, <1>2 DEF TeamTypes, workerVars, resultVars, hostVars
  <1>9. ThreadsAreSound'
    BY <1>1, <1>2, <1>4 DEF ThreadsAreSound, workerVars
  <1>10. ResultAccounted' /\ Forward
    BY <1>1, <1>2 DEF ResultAccounted, Confirmed, Forward, Moves, resultVars
  <1> QED  BY <1>6, <1>7, <1>8, <1>9, <1>10 DEF IInv

(* A sender lets go of the lifecycle lock: the recipient runs, or the      *)
(* message is taken back.                                                  *)
LEMMA EndWakeStep ==
  ASSUME IInv, NEW o, EndWake(o)
  PROVE  IInv' /\ Forward
  <1>1. MailTypes /\ TeamTypes /\ ThreadsAreSound /\ MailIsSound /\ ResultAccounted
    BY DEF IInv
  <1>2. UNCHANGED <<workerVars, resultVars, hostVars>>
    BY DEF EndWake
  <1>3. PICK a : a = To[lock.msg]
    OBVIOUS
  <1>4. /\ UNCHANGED known
        /\ \/ UNCHANGED state
           \/ state[a] # "none" /\ state' = [state EXCEPT ![a] = "Running"]
    BY <1>1, <1>3, WokenCases
  <1>5. Lead \in Agents /\ Workers \subseteq Agents
    BY DEF Agents
  <1>6. \A b \in Agents : /\ state'[b] # "none" => state[b] # "none"
                          /\ state'[b] = "Idle" => state[b] = "Idle"
    BY <1>1, <1>4 DEF MailTypes
  <1>7. Steady
    BY <1>2, <1>5, <1>6 DEF Steady, workerVars, hostVars
  <1>8. /\ MailTypes' /\ MailIsSound'
        /\ \A w \in Workers : call'[w] = call[w]
        /\ \A x \in Messages :
             \/ receipt'[x] = receipt[x]
             \/ /\ receipt[x] = "queued" /\ receipt'[x] \in {"rejected", "unknown"}
                /\ x \in Notes \cup Steers
    BY <1>1, <1>7, WokenMail
  <1>9. TeamTypes'
    BY <1>1, <1>2 DEF TeamTypes, workerVars, resultVars, hostVars
  <1>10. ThreadsAreSound'
    BY <1>1, <1>2, <1>4, <1>5, <1>6, <1>8 DEF ThreadsAreSound, workerVars
  <1>11. Forward
    BY <1>8 DEF Forward, Moves
  <1>12. ResultAccounted'
    <2>1. \A x \in kept : x \in Messages /\ x \notin Notes \cup Steers
      BY <1>1, TeamAssumption DEF TeamTypes
    <2>2. \A x \in kept : Confirmed(x) => Confirmed(x)'
      BY <1>8, <2>1 DEF Confirmed
    <2> QED  BY <1>1, <1>2, <2>2, AccountedStill DEF resultVars
  <1> QED  BY <1>8, <1>9, <1>10, <1>11, <1>12 DEF IInv

(* A teammate drains its queue.                                            *)
LEMMA ReceiveStep ==
  ASSUME IInv, NEW w \in Workers, NEW n, NEW o, Receive(w, n, o)
  PROVE  IInv' /\ Forward
  <1>1. MailTypes /\ TeamTypes /\ ThreadsAreSound /\ MailIsSound /\ ResultAccounted
    BY DEF IInv
  <1>2. /\ pc[w] \in {"turn", "wait"} /\ hand[w] = <<>> /\ Drain(w, n, o)
        /\ UNCHANGED <<workerVars, resultVars, hostVars>>
        /\ UNCHANGED state
    BY DEF Receive, Drain
  <1>3. w \in Agents
    BY DEF Agents
  <1>4. Steady
    BY <1>2 DEF Steady, workerVars, hostVars
  <1>5. /\ MailTypes' /\ MailIsSound' /\ UNCHANGED <<state, call, known>>
        /\ \A m \in Messages : \/ receipt'[m] = receipt[m]
                               \/ receipt[m] = "queued" /\ receipt'[m] = "delivered"
    BY <1>1, <1>2, <1>3, <1>4, DrainedMail
  <1>6. TeamTypes'
    BY <1>1, <1>2 DEF TeamTypes, workerVars, resultVars, hostVars
  <1>7. ThreadsAreSound'
    BY <1>1, <1>2, <1>5 DEF ThreadsAreSound, workerVars
  <1>8. ResultAccounted' /\ Forward
    <2>1. kept \subseteq Messages
      BY <1>1, TeamAssumption DEF TeamTypes
    <2>2. \A x \in kept : Confirmed(x) => Confirmed(x)'
      BY <1>5, <2>1 DEF Confirmed
    <2>3. UNCHANGED <<kept, pending>>
      BY <1>2 DEF resultVars
    <2>4. Forward
      BY <1>5 DEF Forward, Moves
    <2> QED  BY <1>1, <2>2, <2>3, <2>4, AccountedStill
  <1> QED  BY <1>5, <1>6, <1>7, <1>8 DEF IInv

(* The lead drains its queue.                                              *)
LEMMA LeadDrainStep ==
  ASSUME IInv, NEW n, NEW o, LeadDrain(n, o)
  PROVE  IInv' /\ Forward
  <1>1. MailTypes /\ TeamTypes /\ ThreadsAreSound /\ MailIsSound /\ ResultAccounted
    BY DEF IInv
  <1>2. /\ hand[Lead] = <<>> /\ Drain(Lead, n, o)
        /\ todo' = pending
        /\ UNCHANGED <<workerVars, recorded, kept, pending, hostVars>>
        /\ UNCHANGED state
    BY DEF LeadDrain, Drain
  <1>3. Lead \in Agents
    BY DEF Agents
  <1>4. Steady
    BY <1>2 DEF Steady, workerVars, hostVars
  <1>5. /\ MailTypes' /\ MailIsSound' /\ UNCHANGED <<state, call, known>>
        /\ \A m \in Messages : \/ receipt'[m] = receipt[m]
                               \/ receipt[m] = "queued" /\ receipt'[m] = "delivered"
    BY <1>1, <1>2, <1>3, <1>4, DrainedMail
  <1>6. TeamTypes'
    BY <1>1, <1>2 DEF TeamTypes, workerVars, hostVars
  <1>7. ThreadsAreSound'
    BY <1>1, <1>2, <1>5 DEF ThreadsAreSound, workerVars
  <1>8. ResultAccounted' /\ Forward
    <2>1. kept \subseteq Messages
      BY <1>1, TeamAssumption DEF TeamTypes
    <2>2. \A x \in kept : Confirmed(x) => Confirmed(x)'
      BY <1>5, <2>1 DEF Confirmed
    <2>3. Forward
      BY <1>5 DEF Forward, Moves
    <2> QED  BY <1>1, <1>2, <2>2, <2>3, AccountedStill
  <1> QED  BY <1>5, <1>6, <1>7, <1>8 DEF IInv

(* A teammate reads the oldest message it has in hand.                     *)
LEMMA ReadStep ==
  ASSUME IInv, NEW w \in Workers, NEW o, Read(w, o)
  PROVE  IInv' /\ Forward
  <1>1. MailTypes /\ TeamTypes /\ ThreadsAreSound /\ MailIsSound /\ ResultAccounted
    BY DEF IInv
  <1> DEFINE last == pc[w] = "wait" /\ Len(hand[w]) = 1
  <1>2. /\ Apply(w, o)
        /\ pc' = [pc EXCEPT ![w] = IF last THEN "check" ELSE @]
        /\ last => pc[w] = "wait"
        /\ UNCHANGED <<reports, leaving, good, resultVars, hostVars>>
        /\ UNCHANGED state
    BY DEF Read, Apply
  <1> HIDE DEF last
  <1>3. w \in Agents
    BY DEF Agents
  <1>4. /\ pc' \in [Workers -> PcState]
        /\ \A v \in Workers : pc'[v] = pc[v] \/ (pc[v] = "wait" /\ pc'[v] = "check")
    BY <1>1, <1>2 DEF TeamTypes, PcState
  <1>5. Steady
    BY <1>2, <1>4 DEF Steady, hostVars
  <1>6. /\ MailTypes' /\ MailIsSound' /\ UNCHANGED <<state, call, known>>
        /\ \A m \in Messages : \/ receipt'[m] = receipt[m]
                               \/ receipt[m] = "delivered" /\ receipt'[m] = "applied"
    BY <1>1, <1>2, <1>3, <1>5, AppliedMail
  <1>7. TeamTypes'
    BY <1>1, <1>2, <1>4 DEF TeamTypes, resultVars, hostVars
  <1>8. ThreadsAreSound'
    BY <1>1, <1>2, <1>4, <1>6 DEF ThreadsAreSound
  <1>9. ResultAccounted' /\ Forward
    <2>1. kept \subseteq Messages
      BY <1>1, TeamAssumption DEF TeamTypes
    <2>2. \A x \in kept : Confirmed(x) => Confirmed(x)'
      BY <1>6, <2>1 DEF Confirmed
    <2>3. UNCHANGED <<kept, pending>>
      BY <1>2 DEF resultVars
    <2>4. Forward
      BY <1>6 DEF Forward, Moves
    <2> QED  BY <1>1, <2>2, <2>3, <2>4, AccountedStill
  <1> QED  BY <1>6, <1>7, <1>8, <1>9 DEF IInv

(* The lead reads the oldest message it has in hand.                       *)
LEMMA LeadReadStep ==
  ASSUME IInv, NEW o, LeadRead(o)
  PROVE  IInv' /\ Forward
  <1>1. MailTypes /\ TeamTypes /\ ThreadsAreSound /\ MailIsSound /\ ResultAccounted
    BY DEF IInv
  <1>2. /\ Apply(Lead, o)
        /\ UNCHANGED <<workerVars, resultVars, hostVars>>
        /\ UNCHANGED state
    BY DEF LeadRead, Apply
  <1>3. Lead \in Agents
    BY DEF Agents
  <1>4. Steady
    BY <1>2 DEF Steady, workerVars, hostVars
  <1>5. /\ MailTypes' /\ MailIsSound' /\ UNCHANGED <<state, call, known>>
        /\ \A m \in Messages : \/ receipt'[m] = receipt[m]
                               \/ receipt[m] = "delivered" /\ receipt'[m] = "applied"
    BY <1>1, <1>2, <1>3, <1>4, AppliedMail
  <1>6. TeamTypes'
    BY <1>1, <1>2 DEF TeamTypes, workerVars, resultVars, hostVars
  <1>7. ThreadsAreSound'
    BY <1>1, <1>2, <1>5 DEF ThreadsAreSound, workerVars
  <1>8. ResultAccounted' /\ Forward
    <2>1. kept \subseteq Messages
      BY <1>1, TeamAssumption DEF TeamTypes
    <2>2. \A x \in kept : Confirmed(x) => Confirmed(x)'
      BY <1>5, <2>1 DEF Confirmed
    <2>3. UNCHANGED <<kept, pending>>
      BY <1>2 DEF resultVars
    <2>4. Forward
      BY <1>5 DEF Forward, Moves
    <2> QED  BY <1>1, <2>2, <2>3, <2>4, AccountedStill
  <1> QED  BY <1>5, <1>6, <1>7, <1>8 DEF IInv

(* The queue of a teammate that was asked to stop is rejected.             *)
LEMMA StopRejectStep ==
  ASSUME IInv, NEW w \in Workers, NEW o, StopReject(w, o)
  PROVE  IInv' /\ Forward
  <1>1. MailTypes /\ TeamTypes /\ ThreadsAreSound /\ MailIsSound /\ ResultAccounted
    BY DEF IInv
  <1>2. /\ stopper' = [stopper EXCEPT ![w] = "done"]
        /\ RejectUndelivered(w, o)
        /\ UNCHANGED <<state, known, workerVars, resultVars, noted, tries, restarts>>
    BY DEF StopReject
  <1>3. w # Lead
    BY MailboxAssumption
  <1>4. Steady
    BY <1>2 DEF Steady, workerVars
  <1>5. /\ MailTypes' /\ MailIsSound' /\ UNCHANGED call
        /\ \A m \in Messages : \/ receipt'[m] = receipt[m]
                               \/ /\ receipt[m] = "queued" /\ receipt'[m] = "rejected"
                                  /\ To[m] = w
    BY <1>1, <1>2, <1>4, RejectedMail
  <1>6. TeamTypes'
    BY <1>1, <1>2 DEF TeamTypes, workerVars, resultVars
  <1>7. ThreadsAreSound'
    BY <1>1, <1>2, <1>5 DEF ThreadsAreSound, workerVars
  <1>8. ResultAccounted' /\ Forward
    <2>1. kept \subseteq Messages /\ \A m \in kept : To[m] = Lead
      BY <1>1, TeamAssumption DEF TeamTypes
    <2>2. \A x \in kept : Confirmed(x) => Confirmed(x)'
      BY <1>3, <1>5, <2>1 DEF Confirmed
    <2>3. UNCHANGED <<kept, pending>>
      BY <1>2 DEF resultVars
    <2>4. Forward
      BY <1>5 DEF Forward, Moves
    <2> QED  BY <1>1, <2>2, <2>3, <2>4, AccountedStill
  <1> QED  BY <1>5, <1>6, <1>7, <1>8 DEF IInv

(* The host steers a teammate.                                             *)
LEMMA SteerStep ==
  ASSUME IInv, NEW s \in Steers, NEW o, Steer(s, o)
  PROVE  IInv' /\ Forward
  <1>1. MailTypes /\ TeamTypes /\ ThreadsAreSound /\ MailIsSound /\ ResultAccounted
    BY DEF IInv
  <1>2. /\ tries[s] < MaxTries
        /\ tries' = [tries EXCEPT ![s] = tries[s] + 1]
        /\ \/ UNCHANGED <<state, mailboxVars, logVars>>
           \/ /\ Terminal(To[s]) /\ Refuses(s)
              /\ UNCHANGED <<state, queue, seen, call, lock, hand, given, logVars>>
           \/ Steered(s, o)
        /\ UNCHANGED <<workerVars, resultVars, stopper, noted, restarts>>
    <2>1. Terminal(To[s]) => state[To[s]] # "none"
      BY DEF Terminal, Ended
    <2> QED  BY <2>1 DEF Steer, Refuses, Steered, logVars
  <1>3. TeamTypes'
    <2>1. tries[s] + 1 \in 0..MaxTries
      BY <1>1, <1>2, TeamAssumption DEF TeamTypes
    <2>2. tries' \in [Steers -> 0..MaxTries]
      BY <1>1, <1>2, <2>1 DEF TeamTypes
    <2> QED  BY <1>1, <1>2, <2>2 DEF TeamTypes, workerVars, resultVars
  <1>4. s \in Messages /\ s \notin Reports
    BY TeamAssumption
  <1>5. kept \subseteq Reports /\ kept \subseteq Messages /\ UNCHANGED <<kept, pending>>
    BY <1>1, <1>2, TeamAssumption DEF TeamTypes, resultVars
  <1>6. /\ Lead \in Agents /\ Workers \subseteq Agents /\ To[s] \in Workers
        /\ Lead \notin Workers
    BY <1>4, MailboxAssumption, TeamAssumption DEF Agents
  <1>7. CASE UNCHANGED <<state, mailboxVars, logVars>>
    <2>1. Still /\ LogSteady /\ UNCHANGED <<known, logFailed, faults>>
      BY <1>7 DEF Still, logVars, LogSteady
    <2>2. Steady
      BY <1>2, <1>7 DEF Steady, workerVars
    <2>3. ThreadsAreSound'
      BY <1>1, <1>2, <1>7, <2>1 DEF ThreadsAreSound, workerVars, mailboxVars
    <2>4. ResultAccounted'
      BY <1>1, <1>5, <1>7 DEF ResultAccounted, Confirmed, mailboxVars
    <2>5. /\ state' \in [Agents -> AgentState \cup {"none"}]
          /\ known' \in [Agents -> Ended \cup {"none", "live"}]
          /\ logFailed' \in BOOLEAN /\ faults' \in 0..MaxFaults
      BY <1>1, <1>7, <2>1 DEF MailTypes
    <2> QED  BY <1>3, <2>1, <2>2, <2>3, <2>4, <2>5, StillStep
  <1>8. CASE Refuses(s) /\ UNCHANGED <<state, queue, seen, call, lock, hand, given, logVars>>
    <2>1. Steady
      BY <1>2, <1>8 DEF Steady, workerVars
    <2>2. /\ MailIsSound'
          /\ receipt' \in [Messages -> ReceiptState \cup {"none"}] /\ denied' \subseteq Messages
      BY <1>1, <1>4, <1>8, <2>1, RefusedMail
    <2>3. MailTypes'
      BY <1>1, <1>8, <2>2 DEF MailTypes, logVars
    <2>4. /\ receipt[s] \in {"none", "rejected"} /\ receipt'[s] = "rejected"
          /\ \A x \in Messages : x # s => receipt'[x] = receipt[x]
      BY <1>1, <1>4, <1>8 DEF Refuses, Live, MailTypes
    <2>5. Forward
      <3>1. Moves(s)
        BY <2>4 DEF Moves
      <3> QED  BY <2>4, <3>1 DEF Forward, Moves
    <2>6. ResultAccounted'
      <3>1. \A x \in kept : Confirmed(x) => Confirmed(x)'
        BY <1>4, <1>5, <2>4 DEF Confirmed
      <3> QED  BY <1>1, <1>5, <3>1, AccountedStill
    <2>7. ThreadsAreSound'
      BY <1>1, <1>2, <1>8 DEF ThreadsAreSound, workerVars, logVars
    <2> QED  BY <1>3, <2>2, <2>3, <2>5, <2>6, <2>7 DEF IInv
  <1>9. CASE Steered(s, o)
    <2>3. Publish(s, "look", o) /\ UNCHANGED <<seen, call>> /\ "look" \in LockStep
      BY <1>9 DEF Steered, LockStep
    <2>4. UNCHANGED state
      BY <1>1, <1>4, <2>3, PublishCases
    <2>5. Steady
      BY <1>2, <1>6, <2>4 DEF Steady, workerVars
    <2>6. MailTypes' /\ MailIsSound' /\ Posted(s) /\ UNCHANGED known
      BY <1>1, <1>9, <2>5, SteeredMail
    <2>7. /\ Forward
          /\ \A x \in Messages : x # s => receipt'[x] = receipt[x]
      BY <1>1, <1>4, <2>6, PostedMoves DEF MailIsSound
    <2>8. ResultAccounted'
      <3>1. \A x \in kept : Confirmed(x) => Confirmed(x)'
        BY <1>4, <1>5, <2>7 DEF Confirmed
      <3> QED  BY <1>1, <1>5, <3>1, AccountedStill
    <2>9. ThreadsAreSound'
      BY <1>1, <1>2, <2>3, <2>4, <2>6 DEF ThreadsAreSound, workerVars
    <2> QED  BY <1>3, <2>6, <2>7, <2>8, <2>9 DEF IInv
  <1> QED  BY <1>2, <1>7, <1>8, <1>9

(* A new process rebuilds the session from its log.                        *)
LEMMA RestartStep ==
  ASSUME IInv, Restart
  PROVE  IInv' /\ restarts' # restarts
  <1>1. MailTypes /\ TeamTypes /\ ThreadsAreSound /\ MailIsSound /\ ResultAccounted
    BY DEF IInv
  <1>2. /\ restarts < MaxRestarts /\ restarts' = restarts + 1
        /\ Rehydrate
        /\ kept' = recorded
        /\ pending' = {m \in recorded : ~Confirmed(m)'}
        /\ todo' = {}
        /\ pc' = [w \in Workers |-> IF pc[w] = "absent" THEN "absent" ELSE "ended"]
        /\ reports' = [w \in Workers |-> 0]
        /\ leaving' = [w \in Workers |-> FALSE]
        /\ good' = [w \in Workers |-> TRUE]
        /\ stopper' = [w \in Workers |-> "none"]
        /\ UNCHANGED <<recorded, noted, tries>>
    BY DEF Restart
  <1>3. MailTypes' /\ MailIsSound'
    BY <1>1, <1>2, RehydratedMail
  <1>4. restarts' \in 0..MaxRestarts /\ restarts' # restarts
    BY <1>1, <1>2, TeamAssumption DEF TeamTypes
  <1>5. TeamTypes'
    <2>1. reports' \in [Workers -> 0..MaxReports]
      BY <1>2, TeamAssumption
    <2>2. pc' \in [Workers -> PcState]
      BY <1>2 DEF PcState
    <2> QED  BY <1>1, <1>2, <1>4, <2>1, <2>2 DEF TeamTypes
  <1>6. ThreadsAreSound'
    <2>1. /\ state' = [a \in Agents |-> RestoredState(a)] /\ UNCHANGED known
          /\ \A a \in Agents : /\ RestoredState(a) \in Ended \cup {"none"}
                               /\ RestoredState(a) # "none" => known[a] # "none"
      BY <1>1, <1>2, Restored DEF Rehydrate
    <2>2. Lead \in Agents /\ Workers \subseteq Agents
      BY DEF Agents
    <2>3. state'[Lead] # "Idle"
      BY <2>1, <2>2 DEF Ended
    <2>4. \A w \in Workers : known[w] # "none" => pc'[w] # "absent"
      BY <1>1, <1>2 DEF ThreadsAreSound
    <2> QED  BY <1>2, <2>1, <2>2, <2>3, <2>4 DEF ThreadsAreSound
  <1>7. ResultAccounted'
    BY <1>2 DEF ResultAccounted
  <1> QED  BY <1>3, <1>4, <1>5, <1>6, <1>7 DEF IInv

-----------------------------------------------------------------------------
(***************************************************************************)
(* The inductive invariant, and what follows from it.                      *)
(***************************************************************************)

(* Nothing was sent yet.                                                   *)
LEMMA InitSound == Init => IInv
  <1> SUFFICES ASSUME Init  PROVE IInv
    OBVIOUS
  <1>1. /\ state = [a \in Agents |-> "none"]
        /\ queue = [a \in Agents |-> <<>>]
        /\ seen = {}
        /\ receipt = [m \in Messages |-> "none"]
        /\ call = [a \in Agents |-> Quiet]
        /\ lock = Free
        /\ hand = [a \in Agents |-> <<>>]
        /\ journal = [m \in Messages |-> "none"]
        /\ order = <<>>
        /\ known = [a \in Agents |-> "none"]
        /\ logFailed = FALSE
        /\ faults = 0
        /\ given = [m \in Messages |-> 0]
        /\ denied = {}
    BY DEF Init, MailboxInit
  <1>2. /\ <<>> \in Lines /\ Distinct(<<>>) /\ Elements(<<>>) = {}
        /\ <<>> \o <<>> = <<>>
    <2>1. <<>> \in Seq(Messages)
      OBVIOUS
    <2> QED  BY <2>1, EmptyQueue, JoinedToNothing DEF Lines
  <1>3. Lead \in Agents /\ Workers \subseteq Agents /\ MaxFaults \in Nat
    BY MailboxAssumption DEF Agents
  <1>4. MailTypes
    <2>1. Quiet \in Calls
      BY DEF Quiet, Calls
    <2>2. faults \in 0..MaxFaults /\ logFailed \in BOOLEAN
      <3>1. 0 \in 0..MaxFaults
        BY <1>3
      <3> QED  BY <1>1, <3>1
    <2>3. queue \in [Agents -> Lines] /\ hand \in [Agents -> Lines] /\ order \in Lines
      BY <1>1, <1>2
    <2>4. call \in [Agents -> Calls] /\ given \in [Messages -> Nat]
      BY <1>1, <2>1
    <2> QED
      BY <1>1, <2>2, <2>3, <2>4, LockTypes DEF MailTypes, ReceiptState, JournalState
  <1>5. TeamTypes
    BY TeamAssumption DEF Init, TeamTypes, PcState
  <1>6. ThreadsAreSound
    BY <1>1, <1>3 DEF Init, ThreadsAreSound
  <1>7. MailIsSound
    <2>1. CallsAreSound
      BY <1>1 DEF CallsAreSound, Quiet
    <2>2. FreeIdsAreUnsent
      BY <1>1, TeamAssumption DEF FreeIdsAreUnsent
    <2>3. LogAgrees
      BY <1>1 DEF LogAgrees
    <2>4. OrderIsSound
      BY <1>1, <1>2 DEF OrderIsSound
    <2>5. QueuesAreSound
      BY <1>1, <1>2 DEF QueuesAreSound
    <2>6. LinesAreInOrder
      BY <1>1, <1>2, EmptyLine DEF LinesAreInOrder, Line
    <2>7. DeniedIsOut
      BY <1>1 DEF DeniedIsOut
    <2>8. LockIsSound
      BY <1>1 DEF LockIsSound, Free
    <2> QED  BY <2>1, <2>2, <2>3, <2>4, <2>5, <2>6, <2>7, <2>8 DEF MailIsSound
  <1>8. ResultAccounted
    BY DEF Init, ResultAccounted
  <1> QED  BY <1>4, <1>5, <1>6, <1>7, <1>8 DEF IInv

(* A step that changes nothing.                                            *)
LEMMA StutterStep ==
  ASSUME IInv, UNCHANGED vars
  PROVE  IInv' /\ Forward
  <1>1. Still /\ LogSteady /\ UNCHANGED <<state, known, logFailed, faults>>
    BY DEF vars, Still, logVars, LogSteady
  <1>2. UNCHANGED <<mailboxVars, workerVars, resultVars, hostVars>>
    BY DEF vars
  <1>3. Steady
    BY <1>1, <1>2 DEF Steady, workerVars, hostVars
  <1>4. MailTypes /\ TeamTypes /\ ThreadsAreSound /\ ResultAccounted
    BY DEF IInv
  <1>5. /\ state' \in [Agents -> AgentState \cup {"none"}]
        /\ known' \in [Agents -> Ended \cup {"none", "live"}]
        /\ logFailed' \in BOOLEAN /\ faults' \in 0..MaxFaults
    BY <1>1, <1>4 DEF MailTypes
  <1>6. TeamTypes'
    BY <1>2, <1>4 DEF TeamTypes, workerVars, resultVars, hostVars
  <1>7. ThreadsAreSound'
    BY <1>1, <1>2, <1>4 DEF ThreadsAreSound, workerVars, mailboxVars
  <1>8. ResultAccounted'
    BY <1>2, <1>4 DEF ResultAccounted, Confirmed, resultVars, mailboxVars
  <1> QED  BY <1>1, <1>3, <1>5, <1>6, <1>7, <1>8, StillStep

(* What a step of a teammate's thread does.                                *)
LEMMA WorkerStepKeeps ==
  ASSUME IInv, NEW w \in Workers, WorkerStep(w)
  PROVE  IInv' /\ Forward
  <1>1. CASE BeginSend(w)
    BY <1>1, BeginSendStep
  <1>2. CASE GoIdle(w)
    BY <1>2, GoIdleStep
  <1>3. CASE Resume(w)
    BY <1>3, ResumeStep
  <1>4. CASE LeaveStopped(w)
    BY <1>4, LeaveStep DEF LeaveStopped
  <1>5. CASE LeaveUnsaved(w)
    BY <1>5, LeaveStep DEF LeaveUnsaved
  <1>6. CASE Finish(w)
    BY <1>6, FinishStep
  <1>7. ASSUME NEW o \in AllOutcomes, EndTurn(w, o)  PROVE IInv' /\ Forward
    BY <1>7, SaveReportStep DEF EndTurn
  <1>8. ASSUME NEW o \in AllOutcomes, ExitReport(w, o)  PROVE IInv' /\ Forward
    BY <1>8, SaveReportStep DEF ExitReport
  <1>9. ASSUME NEW o \in AllOutcomes, Read(w, o)  PROVE IInv' /\ Forward
    BY <1>9, ReadStep
  <1>10. ASSUME NEW o \in AllOutcomes, EmitEnd(w, o)  PROVE IInv' /\ Forward
    BY <1>10, EmitEndStep
  <1>11. ASSUME NEW o \in AllOutcomes, CompleteSend(w, o)
         PROVE  IInv' /\ Forward
    BY <1>11, CompleteSendStep
  <1>12. ASSUME NEW o \in AllOutcomes, NEW n \in 0..Batch, Receive(w, n, o)
         PROVE  IInv' /\ Forward
    BY <1>12, ReceiveStep
  <1> QED
    BY <1>1, <1>2, <1>3, <1>4, <1>5, <1>6, <1>7, <1>8, <1>9, <1>10, <1>11, <1>12
    DEF WorkerStep

(* What a step of the lead does.                                           *)
LEMMA LeadStepKeeps ==
  ASSUME IInv, LeadStep
  PROVE  IInv' /\ Forward
  <1>1. CASE LeadStatus
    BY <1>1, LeadStatusStep
  <1>2. ASSUME NEW m \in Reports, RetrySettled(m)  PROVE IInv' /\ Forward
    BY <1>2, RetrySettledStep
  <1>3. ASSUME NEW m \in Reports, BeginRetry(m)  PROVE IInv' /\ Forward
    BY <1>3, BeginRetryStep
  <1>4. ASSUME NEW m \in Notes, BeginNote(m)  PROVE IInv' /\ Forward
    BY <1>4, BeginNoteStep
  <1>5. ASSUME NEW o \in AllOutcomes, LeadRead(o)  PROVE IInv' /\ Forward
    BY <1>5, LeadReadStep
  <1>6. ASSUME NEW o \in AllOutcomes, NEW n \in 0..Batch, LeadDrain(n, o)
        PROVE  IInv' /\ Forward
    BY <1>6, LeadDrainStep
  <1>7. ASSUME NEW o \in AllOutcomes, CompleteRetry(o)
        PROVE  IInv' /\ Forward
    BY <1>7, CompleteRetryStep
  <1>8. ASSUME NEW o \in AllOutcomes, CompleteNote(o)
        PROVE  IInv' /\ Forward
    BY <1>8, CompleteNoteStep
  <1> QED  BY <1>1, <1>2, <1>3, <1>4, <1>5, <1>6, <1>7, <1>8 DEF LeadStep

(* What a step of the host does; a restart forgets the receipts.           *)
LEMMA HostStepKeeps ==
  ASSUME IInv, HostStep
  PROVE  IInv' /\ (Forward \/ restarts' # restarts)
  <1>1. ASSUME NEW o \in AllOutcomes, RegisterLead(o)  PROVE IInv' /\ Forward
    BY <1>1, RegisterLeadStep
  <1>2. ASSUME NEW w \in Workers, Stop(w)  PROVE IInv' /\ Forward
    BY <1>2, StopStep
  <1>3. ASSUME NEW w \in Workers, NEW success \in BOOLEAN, LeaveAlone(w, success)
        PROVE  IInv' /\ Forward
    BY <1>3, LeaveStep DEF LeaveAlone
  <1>4. ASSUME NEW w \in Workers, NEW o \in AllOutcomes, Spawn(w, o)
        PROVE  IInv' /\ Forward
    BY <1>4, SpawnStep
  <1>5. ASSUME NEW w \in Workers, NEW o \in AllOutcomes, StopEmit(w, o)
        PROVE  IInv' /\ Forward
    BY <1>5, StopEmitStep
  <1>6. ASSUME NEW w \in Workers, NEW o \in AllOutcomes, StopReject(w, o)
        PROVE  IInv' /\ Forward
    BY <1>6, StopRejectStep
  <1>7. ASSUME NEW s \in Steers, NEW o \in AllOutcomes, Steer(s, o)
        PROVE  IInv' /\ Forward
    BY <1>7, SteerStep
  <1>8. CASE Restart
    BY <1>8, RestartStep
  <1> QED  BY <1>1, <1>2, <1>3, <1>4, <1>5, <1>6, <1>7, <1>8 DEF HostStep

(* What a step of a sender that holds the lifecycle lock does.             *)
LEMMA SenderStepKeeps ==
  ASSUME IInv, SenderStep
  PROVE  IInv' /\ Forward
  BY TryWakeStep, EndWakeStep DEF SenderStep

(* Every step keeps the invariant and moves receipts forward only, unless  *)
(* it ends the process.                                                    *)
LEMMA NextKeeps ==
  ASSUME IInv, [Next]_vars
  PROVE  IInv' /\ (Forward \/ restarts' # restarts)
  BY WorkerStepKeeps, LeadStepKeeps, HostStepKeeps, SenderStepKeeps, StutterStep DEF Next

(* The inductive invariant holds of every reachable state: whoever sends,  *)
(* drains, stops, steers or restarts, queues, receipts, log and the order  *)
(* of the log stay together.                                               *)
THEOREM Invariance == Spec => []IInv
  <1>1. IInv /\ [Next]_vars => IInv'
    BY NextKeeps
  <1> QED  BY <1>1, InitSound, PTL DEF Spec

(* Every variable keeps its type.                                          *)
THEOREM TypeCorrect == Spec => []TypeOK
  <1>1. IInv => TypeOK
    BY DEF IInv, MailTypes, TeamTypes, TypeOK, MailboxTypeOK, Lines, Calls, Locks,
       JournalState, PcState
  <1> QED  BY <1>1, Invariance, PTL

(* No message is given to a model twice, however its delivery, its records *)
(* and restarts interleave (mark_applied, rehydrate).                      *)
THEOREM GivenOnceAlways == Spec => []GivenOnce
  <1>1. IInv => GivenOnce
    <2> SUFFICES ASSUME IInv, NEW m \in Messages  PROVE given[m] <= 1
      BY DEF GivenOnce
    <2>1. given[m] \in Nat /\ (given[m] > 0 => given[m] = 1)
      BY DEF IInv, MailTypes, MailIsSound, LogAgrees
    <2> QED  BY <2>1
  <1> QED  BY <1>1, Invariance, PTL

(* A message waits in the queue of its recipient exactly while its receipt *)
(* says so, and in one place only.                                         *)
THEOREM QueuesAlwaysMatch == Spec => []QueueMatchesReceipts
  <1>1. IInv => QueueMatchesReceipts
    <2> SUFFICES ASSUME IInv  PROVE QueueMatchesReceipts
      OBVIOUS
    <2>1. QueuesAreSound /\ queue \in [Agents -> Lines]
      BY DEF IInv, MailTypes, MailIsSound
    <2>2. \A s \in Lines : Distinct(s) => Cardinality(Elements(s)) = Len(s)
      BY DistinctLength DEF Lines
    <2>3. \A a \in Agents : Cardinality(Elements(queue[a])) = Len(queue[a])
      BY <2>1, <2>2 DEF QueuesAreSound
    <2> QED  BY <2>1, <2>3 DEF QueuesAreSound, QueueMatchesReceipts
  <1> QED  BY <1>1, Invariance, PTL

(* What was given to a model is never queued for replay: its delivered     *)
(* record was durable before the hand-over (drain).                        *)
THEOREM GivenIsAlwaysJournaled == Spec => []GivenIsJournaled
  <1>1. IInv => GivenIsJournaled
    BY DEF IInv, MailIsSound, LogAgrees, GivenIsJournaled
  <1> QED  BY <1>1, Invariance, PTL

(* A result saved for the lead is never forgotten (keep_result,            *)
(* settle_pending, retry_results, rehydrate).                              *)
THEOREM ResultsAlwaysAccounted == Spec => []ResultAccounted
  <1>1. IInv => ResultAccounted
    BY DEF IInv
  <1> QED  BY <1>1, Invariance, PTL

(* A message that its sender was told was not accepted is given to nobody  *)
(* and is in no registered agent's queue, over every restart (WOR-91).     *)
THEOREM RefusedAlwaysStaysOut == Spec => []RefusedStaysOut
  <1>1. IInv => RefusedStaysOut
    <2> SUFFICES ASSUME IInv, NEW m \in denied
                 PROVE  /\ given[m] = 0
                        /\ \A a \in Agents : state[a] # "none" => m \notin Elements(queue[a])
      BY DEF RefusedStaysOut
    <2>1. m \in Messages
      BY DEF IInv, MailTypes
    <2>2. given[m] = 0 /\ (receipt[m] = "queued" => state[To[m]] = "none")
      BY DEF IInv, MailIsSound, DeniedIsOut
    <2>3. \A a \in Agents : m \in Elements(queue[a]) => receipt[m] = "queued" /\ To[m] = a
      BY <2>1 DEF IInv, MailIsSound, QueuesAreSound
    <2> QED  BY <2>2, <2>3
  <1> QED  BY <1>1, Invariance, PTL

(* Messages reach an agent in the order of their queued records, whatever  *)
(* drains put back while others were being sent.                           *)
THEOREM AlwaysDeliveredInOrder == Spec => []DeliveredInOrder
  <1>1. IInv => DeliveredInOrder
    <2> SUFFICES ASSUME IInv, NEW a \in Agents
                 PROVE  \A i, j \in 1..Len(Line(a)) :
                           i < j /\ Line(a)[j] \notin Steers =>
                              \E k, l \in 1..Len(order) :
                                 k < l /\ order[k] = Line(a)[i] /\ order[l] = Line(a)[j]
      BY Zenon DEF DeliveredInOrder, Line
    <2> SUFFICES ASSUME NEW line, line = Line(a),
                        NEW i \in 1..Len(line), NEW j \in 1..Len(line),
                        i < j, line[j] \notin Steers
                 PROVE  \E k, l \in 1..Len(order) :
                           k < l /\ order[k] = line[i] /\ order[l] = line[j]
      BY Zenon
    <2>1. Precedes(line, line[i], line[j])
      BY DEF Precedes
    <2>2. hand[a] \in Seq(Messages) /\ queue[a] \in Seq(Messages)
      BY DEF IInv, MailTypes, Lines
    <2>3. line \in Seq(Messages)
      BY <2>2 DEF Line
    <2>4. line[i] \in Messages /\ line[j] \in Messages
      BY <2>3, ElementOfSeq
    <2>5. Precedes(order, line[i], line[j])
      BY <2>1, <2>4 DEF IInv, MailIsSound, LinesAreInOrder
    <2> QED  BY <2>5 DEF Precedes
  <1> QED  BY <1>1, Invariance, PTL

(* The ranks of receipts.                                                  *)
LEMMA Ranks ==
  /\ Rank("none") = 0 /\ Rank("queued") = 1 /\ Rank("delivered") = 2
  /\ \A r \in {"applied", "rejected", "unknown"} : Rank(r) = 3
  BY DEF Rank

(* A process moves a receipt forward only: what ended is not reopened,     *)
(* except a rejected message that its sender may retry.                    *)
THEOREM ReceiptsMoveForward == Spec => ReceiptForward
  <1> DEFINE Onward == restarts' = restarts =>
                \A m \in Messages :
                   \/ Rank(receipt[m]) < Rank(receipt'[m])
                   \/ receipt'[m] = receipt[m]
                   \/ receipt[m] = "rejected" /\ m \in denied \cup Steers
  <1>1. ASSUME IInv, [Next]_vars  PROVE Onward
    <2> SUFFICES ASSUME restarts' = restarts, NEW m \in Messages
                 PROVE  \/ Rank(receipt[m]) < Rank(receipt'[m])
                        \/ receipt'[m] = receipt[m]
                        \/ receipt[m] = "rejected" /\ m \in denied \cup Steers
      OBVIOUS
    <2>1. Moves(m)
      BY <1>1, NextKeeps DEF Forward
    <2>2. CASE receipt[m] = "none" /\ receipt'[m] \in {"queued", "rejected", "unknown"}
      BY <2>2, Ranks
    <2>3. CASE receipt[m] = "queued" /\ receipt'[m] \in {"delivered", "rejected", "unknown"}
      BY <2>3, Ranks
    <2>4. CASE receipt[m] = "delivered" /\ receipt'[m] = "applied"
      BY <2>4, Ranks
    <2> QED  BY <2>1, <2>2, <2>3, <2>4 DEF Moves
  <1>2. IInv /\ [Next]_vars => [Onward]_vars
    BY <1>1
  <1> HIDE DEF Onward
  <1>3. [][Next]_vars /\ []IInv => [][Onward]_vars
    BY <1>2, PTL
  <1>4. Spec => [][Onward]_vars
    BY <1>3, Invariance, PTL DEF Spec
  <1> QED  BY <1>4 DEF Onward, ReceiptForward
=============================================================================
