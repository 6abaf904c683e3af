---------------------------- MODULE AgentMailbox ----------------------------
(***************************************************************************)
(* The mailbox through which the agents of a run talk to each other        *)
(* (runtime/mailbox.rs), with the registry of their lifecycle states       *)
(* (runtime/registry.rs) and the runtime log that both are rebuilt from    *)
(* after a restart (runtime/session.rs, davinci-session/runtime_log.rs).   *)
(*                                                                         *)
(* The log is not kept as a list of records.  Rehydration folds it from    *)
(* the left, so the model keeps the value of that fold after each append:  *)
(* `journal` and `order` for messages, `known` for agents.                 *)
(*                                                                         *)
(* The module has no next-state relation of its own: TeamRuntime says who  *)
(* calls these operations.                                                 *)
(***************************************************************************)
EXTENDS Naturals, Sequences, FiniteSets, SequenceFilter

CONSTANTS
    Lead,       \* the session's main agent
    Workers,    \* teammates, each spawned at most once
    Messages,   \* message ids
    To,         \* To[m]: the recipient of m
    Capacity,   \* MAX_QUEUE_CAPACITY
    Batch,      \* messages taken by one drain
    MaxFaults,  \* bound on failed appends to the runtime log
    NoMessage   \* a caller that sends nothing

Agents == Workers \cup {Lead}

ASSUME MailboxAssumption ==
    /\ Lead \notin Workers
    /\ To \in [Messages -> Agents]
    /\ Capacity \in Nat \ {0}
    /\ Batch \in Nat \ {0}
    /\ MaxFaults \in Nat
    /\ NoMessage \notin Messages

VARIABLES
    state,      \* state[a]: RuntimeRegistry.records, "none" when unregistered
    queue,      \* queue[a]: the undelivered messages of a, oldest first
    seen,       \* ids reserved by `send`
    receipt,    \* receipt[m]: SteeringReceipt.state, "none" without one
    call,       \* call[a]: the `send` a is in, between its checks and its answer
    lock,       \* AgentMailbox.lifecycle: the message whose sender holds it
                \*   beyond one step, and what the sender does next
    hand,       \* hand[a]: drained by a and not yet marked applied
    journal,    \* journal[m]: what the log says of m
    order,      \* queued ids in the order of the log
    known,      \* known[a]: what the log says of a: "none", "live" or its end
    logFailed,  \* RuntimeLogWriter.failed
    faults,     \* appends that failed so far
    given,      \* history: how often the text of m was given to a model
    denied      \* history: the last sender of m was told it was not accepted

mailboxVars == <<queue, seen, receipt, call, lock, hand, given, denied>>
logVars == <<journal, order, known, logFailed, faults>>

Ended == {"Completed", "Failed", "Cancelled"}

AgentState == {"Starting", "Running", "Idle", "Stopping"} \cup Ended

\* A sender publishes its message, may look at the recipient, wakes it, and
\* looks once more when the wake was refused.
LockStep == {"free", "look", "wake", "lost"}

ReceiptState == {"queued", "delivered", "applied", "rejected", "unknown"}

MailboxTypeOK ==
    /\ state \in [Agents -> AgentState \cup {"none"}]
    /\ \A a \in Agents : /\ queue[a] \in Seq(Messages)
                         /\ hand[a] \in Seq(Messages)
    /\ seen \subseteq Messages
    /\ receipt \in [Messages -> ReceiptState \cup {"none"}]
    /\ call \in [Agents -> [msg : Messages \cup {NoMessage}, wake : BOOLEAN]]
    /\ lock \in [msg : Messages \cup {NoMessage}, step : LockStep]
    /\ journal \in [Messages -> {"none", "queued", "delivered", "applied",
                                 "rejected", "wake_failed"}]
    /\ order \in Seq(Messages)
    /\ known \in [Agents -> Ended \cup {"none", "live"}]
    /\ logFailed \in BOOLEAN
    /\ faults \in 0..MaxFaults
    /\ given \in [Messages -> Nat]
    /\ denied \subseteq Messages

Quiet == [msg |-> NoMessage, wake |-> FALSE]

Free == [msg |-> NoMessage, step |-> "free"]

MailboxInit ==
    /\ state = [a \in Agents |-> "none"]
    /\ queue = [a \in Agents |-> <<>>]
    /\ seen = {}
    /\ receipt = [m \in Messages |-> "none"]
    /\ call = [a \in Agents |-> Quiet]
    /\ lock = Free
    /\ hand = [a \in Agents |-> <<>>]
    /\ journal = [m \in Messages |-> "none"]
    /\ order = <<>>
    /\ known = [a \in Agents |-> "none"]
    /\ logFailed = FALSE
    /\ faults = 0
    /\ given = [m \in Messages |-> 0]
    /\ denied = {}

-----------------------------------------------------------------------------
(***************************************************************************)
(* The runtime log.  An append is written and synced; when that fails the  *)
(* bytes are truncated away ("refused").  When the truncation fails too    *)
(* the record may be in the file ("kept") or not ("dropped"): the writer   *)
(* then refuses every later append.                                        *)
(***************************************************************************)
Outcomes ==
    IF logFailed THEN {"refused"}
    ELSE {"ok"} \cup IF faults < MaxFaults THEN {"refused", "kept", "dropped"}
                                           ELSE {}

Logged(o) == o \in {"ok", "kept"}

Append1(o) ==
    /\ o \in Outcomes
    /\ logFailed' = (logFailed \/ o \in {"kept", "dropped"})
    /\ faults' = IF o = "ok" \/ logFailed THEN faults ELSE faults + 1

\* The fold of the log over the records of one message.
Without(s, m) == Keep(s, Messages \ {m})

Reopens(m) == journal[m] \in {"rejected", "wake_failed"}

LogQueued(m) ==
    IF journal[m] = "none" \/ Reopens(m)
    THEN /\ journal' = [journal EXCEPT ![m] = "queued"]
         /\ order' = Append(Without(order, m), m)
    ELSE UNCHANGED <<journal, order>>

LogDelivered(ms) ==
    journal' = [m \in Messages |->
                   IF m \in ms /\ journal[m] = "queued" THEN "delivered" ELSE journal[m]]

LogApplied(m) ==
    journal' = [journal EXCEPT ![m] =
                   IF @ = "none" \/ Reopens(m) THEN @ ELSE "applied"]

LogRejected(ms, as) ==
    journal' = [m \in Messages |->
                   IF m \in ms /\ journal[m] # "none" THEN as ELSE journal[m]]

\* The fold of the log over the state changes of one agent.
LogState(a, s) ==
    known' = [known EXCEPT ![a] =
                 IF @ = "none" THEN @ ELSE IF s \in Ended THEN s ELSE "live"]

-----------------------------------------------------------------------------
(* RuntimeRegistry::transition *)

ValidTransition(from, to) ==
    \/ from = "Starting" /\ to \in {"Running", "Failed", "Cancelled"}
    \/ from = "Running" /\ to \in {"Idle", "Stopping"} \cup Ended
    \/ from = "Idle" /\ to \in {"Running", "Stopping", "Completed", "Cancelled"}
    \/ from = "Stopping" /\ to \in Ended

Terminal(a) == state[a] \in Ended

-----------------------------------------------------------------------------
(***************************************************************************)
(* AgentMailbox::send.  The id is reserved and the recipient is looked at  *)
(* before the lifecycle lock is taken.                                     *)
(***************************************************************************)
Live(m) == receipt[m] \notin {"none", "rejected"}

(* Mutant: an id already seen is taken again. *)
RefusedEarlyNoDedup(m) == state[To[m]] = "none"

RefusedEarly(m) == m \in seen \/ state[To[m]] = "none"

\* An id already seen, or an unregistered recipient: nothing changes.
SendRefused(m) ==
    /\ RefusedEarly(m)
    /\ UNCHANGED mailboxVars

SendToEnded(m) ==
    /\ ~RefusedEarly(m)
    /\ Terminal(To[m])
    /\ receipt' = [receipt EXCEPT ![m] = "rejected"]
    /\ denied' = denied \cup {m}
    /\ UNCHANGED <<queue, seen, call, lock, hand, given>>

Reserve(c, m) ==
    /\ ~RefusedEarly(m)
    /\ ~Terminal(To[m])
    /\ seen' = seen \cup {m}
    /\ call' = [call EXCEPT ![c] = [msg |-> m, wake |-> state[To[m]] = "Idle"]]
    /\ UNCHANGED <<queue, receipt, lock, hand, given, denied>>

(***************************************************************************)
(* The part of `send` and of `send_steer_with_id` under the lifecycle      *)
(* lock.  The lock is taken for room, the durable record and the queue,    *)
(* which no other mailbox operation can see half done, and is kept for the *)
(* wake.  The registry has a lock of its own, so a recipient may be        *)
(* stopped, end or go idle between any two of the steps below.  `o` is the *)
(* outcome of the record a step appends.  The caller says what becomes of  *)
(* `call` and, through Released, of `seen`.                                *)
(***************************************************************************)
Full(m) == Len(queue[To[m]]) >= Capacity

\* `next` is what follows once the message can be seen, "free" when nothing
\* does.
PublishAnswer(m, next, o) ==
    CASE Full(m) -> "full"
      [] ~Full(m) /\ o = "refused" -> "refused"
      [] ~Full(m) /\ o \in {"kept", "dropped"} -> "unknown"
      [] ~Full(m) /\ o = "ok" -> IF next = "free" THEN "ok" ELSE "waking"

Visible(answer) == answer \in {"ok", "waking"}

\* The receipt each answer leaves behind.
ReceiptOf(m, answer) ==
    CASE Visible(answer) -> "queued"
      [] answer = "unknown" -> "unknown"
      [] answer \in {"full", "wake_failed"} -> "rejected"
      [] answer = "refused" -> receipt[m]

Refusal(answer) == answer \in {"full", "refused", "wake_failed"}

\* `send` frees the id of a message that was not accepted; steering ids are
\* never reserved.
Released(m, answer) == IF Refusal(answer) THEN seen \ {m} ELSE seen

Denied(m, answer) == IF Refusal(answer) THEN denied \cup {m} ELSE denied \ {m}

Publish(m, next, o) ==
    LET answer == PublishAnswer(m, next, o) IN
    /\ lock = Free
    /\ IF Full(m) THEN o = "ok" /\ UNCHANGED <<logFailed, faults>> ELSE Append1(o)
    /\ IF Full(m) \/ ~Logged(o) THEN UNCHANGED <<journal, order>> ELSE LogQueued(m)
    /\ receipt' = [receipt EXCEPT ![m] = ReceiptOf(m, answer)]
    /\ queue' = IF Visible(answer) THEN [queue EXCEPT ![To[m]] = Append(@, m)] ELSE queue
    /\ lock' = IF answer = "waking" THEN [msg |-> m, step |-> next] ELSE Free
    /\ denied' = Denied(m, answer)
    /\ UNCHANGED <<state, known, hand, given>>

\* Only an idle recipient is woken, and a refused wake is looked at again:
\* losing the race to another waker is success.
Recipient == state[To[lock.msg]]

KeepLock ==
    /\ \E next \in {"wake", "lost"} :
          /\ lock' = [lock EXCEPT !.step = next]
          /\ \/ next = "wake" /\ lock.step = "look" /\ Recipient = "Idle"
             \/ next = "lost" /\ lock.step = "wake" /\ ~ValidTransition(Recipient, "Running")
    /\ UNCHANGED <<state, queue, seen, receipt, call, hand, given, denied, logVars>>

Unwoken == lock.step = "lost" /\ Recipient # "Running"

WakeAnswer(o) == IF ~Unwoken THEN "ok" ELSE IF o = "ok" THEN "wake_failed" ELSE "unknown"

(* Mutant: a message whose wake failed stays in the queue. *)
StillQueued(m) == queue[To[m]]

\* AgentMailbox::withdraw
Withdrawn(m) == Without(queue[To[m]], m)

FreeLock(o) ==
    LET m == lock.msg  answer == WakeAnswer(o) IN
    /\ \/ lock.step = "look" /\ Recipient # "Idle" /\ UNCHANGED state
       \/ /\ lock.step = "wake" /\ ValidTransition(Recipient, "Running")
          /\ state' = [state EXCEPT ![To[m]] = "Running"]
       \/ lock.step = "lost" /\ UNCHANGED state
    /\ lock' = Free
    /\ IF Unwoken THEN Append1(o) ELSE o = "ok" /\ UNCHANGED <<logFailed, faults>>
    /\ IF Unwoken /\ Logged(o) THEN LogRejected({m}, "wake_failed") ELSE UNCHANGED journal
    /\ receipt' = IF Unwoken THEN [receipt EXCEPT ![m] = ReceiptOf(m, answer)] ELSE receipt
    /\ queue' = IF Unwoken THEN [queue EXCEPT ![To[m]] = Withdrawn(m)] ELSE queue
    /\ denied' = Denied(m, answer)
    /\ UNCHANGED <<order, known, hand, given>>

-----------------------------------------------------------------------------
(***************************************************************************)
(* AgentMailbox::drain.  A message is handed over only after its delivered *)
(* record is in the log: `n` records were written, the next one was not    *)
(* when `o` is not "ok", and the rest goes back to the front of the queue. *)
(***************************************************************************)
Least(i, j) == IF i < j THEN i ELSE j

Taken(a) == SubSeq(queue[a], 1, Least(Batch, Len(queue[a])))

(* Mutant: handed over without regard to the record. *)
HandedUnlogged(a, n) == Taken(a)

Handed(a, n) == SubSeq(queue[a], 1, n)

(* Mutants: what was not handed over is lost, or is put back in reverse. *)
RemainsLost(a, n) == SubSeq(queue[a], Len(Taken(a)) + 1, Len(queue[a]))

RemainsReversed(a, n) ==
    LET back == Len(Taken(a)) - n IN
    [i \in 1..back |-> queue[a][Len(Taken(a)) + 1 - i]] \o RemainsLost(a, n)

Remains(a, n) == SubSeq(queue[a], n + 1, Len(queue[a]))

Drain(a, n, o) ==
    LET handed == Handed(a, n)
        written == SubSeq(queue[a], 1, IF o = "kept" THEN n + 1 ELSE n)
    IN
    /\ lock = Free
    /\ n \in 0..Len(Taken(a))
    /\ (n = Len(Taken(a))) <=> (o = "ok")
    /\ IF o = "ok" THEN UNCHANGED <<logFailed, faults>> ELSE Append1(o)
    /\ n > 0 => ~logFailed
    /\ LogDelivered(Elements(written))
    /\ receipt' = [m \in Messages |->
                      IF m \in Elements(handed) /\ receipt[m] = "queued"
                      THEN "delivered" ELSE receipt[m]]
    /\ queue' = [queue EXCEPT ![a] = Remains(a, n)]
    /\ hand' = [hand EXCEPT ![a] = handed]
    /\ UNCHANGED <<state, seen, call, lock, order, known, given, denied>>

\* AgentMailbox::mark_applied and the text given to the model, for the oldest
\* message in hand.  The applied record is an observation: its loss is ignored.
Apply(a, o) ==
    LET m == Head(hand[a]) IN
    /\ hand[a] # <<>>
    /\ hand' = [hand EXCEPT ![a] = Tail(@)]
    /\ IF receipt[m] = "delivered"
       THEN /\ receipt' = [receipt EXCEPT ![m] = "applied"]
            /\ given' = [given EXCEPT ![m] = @ + 1]
            /\ Append1(o)
            /\ IF Logged(o) THEN LogApplied(m) ELSE UNCHANGED journal
       ELSE /\ o = "ok"
            /\ UNCHANGED <<receipt, given, logFailed, faults, journal>>
    /\ UNCHANGED <<state, queue, seen, call, lock, order, known, denied>>

\* AgentMailbox::reject_undelivered_for_cancelled; the rejected records are
\* observations too, all written or all lost.
RejectUndelivered(a, o) ==
    LET gone == Elements(queue[a]) IN
    /\ lock = Free
    /\ IF gone = {} THEN o = "ok" /\ UNCHANGED <<logFailed, faults>> ELSE Append1(o)
    /\ IF Logged(o) THEN LogRejected(gone, "rejected") ELSE UNCHANGED journal
    /\ receipt' = [m \in Messages |-> IF m \in gone THEN "rejected" ELSE receipt[m]]
    /\ queue' = [queue EXCEPT ![a] = <<>>]
    /\ UNCHANGED <<seen, call, lock, hand, order, given, denied>>

-----------------------------------------------------------------------------
(***************************************************************************)
(* Rehydration in a new process: the registry first, then the mailbox.     *)
(***************************************************************************)
RestoredState(a) == IF known[a] = "live" THEN "Failed" ELSE known[a]

RestoredReceipt(m) ==
    CASE journal[m] = "queued" -> IF RestoredState(To[m]) \in Ended THEN "rejected" ELSE "queued"
      [] journal[m] = "delivered" -> "unknown"
      [] journal[m] = "wake_failed" -> "rejected"
      [] OTHER -> journal[m]

Rehydrate ==
    /\ state' = [a \in Agents |-> RestoredState(a)]
    /\ receipt' = [m \in Messages |-> RestoredReceipt(m)]
    /\ queue' = [a \in Agents |->
                    Keep(order, {m \in Messages : To[m] = a /\ RestoredReceipt(m) = "queued"})]
    /\ seen' = {m \in Messages : journal[m] \notin {"none", "wake_failed"}}
    /\ call' = [a \in Agents |-> Quiet]
    /\ lock' = Free
    /\ hand' = [a \in Agents |-> <<>>]
    /\ logFailed' = FALSE
    /\ UNCHANGED <<journal, order, known, faults, given, denied>>

-----------------------------------------------------------------------------
(***************************************************************************)
(* Properties of the mailbox.                                              *)
(***************************************************************************)

(* No message is given to a model twice, however its delivery, its        *)
(* records and restarts interleave ("none is applied twice", rehydrate).   *)
GivenOnce == \A m \in Messages : given[m] <= 1

(* A message waits in the queue of its recipient exactly while its receipt *)
(* says so, and in one place only: sends, drains that put messages back,   *)
(* withdrawals, stops and rehydration keep queue and receipt together.     *)
QueueMatchesReceipts ==
    /\ \A a \in Agents, m \in Messages :
          m \in Elements(queue[a]) <=> receipt[m] = "queued" /\ To[m] = a
    /\ \A a \in Agents : Cardinality(Elements(queue[a])) = Len(queue[a])

(* What was given to a model is never queued for replay: the delivered     *)
(* record is durable before the hand-over (drain).                         *)
GivenIsJournaled ==
    \A m \in Messages : given[m] > 0 => journal[m] \in {"delivered", "applied"}

(* A sender who was told that its message was not accepted may retry: the  *)
(* message was given to nobody, it is in the queue of no registered agent, *)
(* and no restart puts it there (WOR-91).  An agent whose start was lost   *)
(* to the log is not registered after a restart and reads no queue.        *)
RefusedStaysOut ==
    \A m \in denied :
        /\ given[m] = 0
        /\ \A a \in Agents : state[a] # "none" => m \notin Elements(queue[a])
=============================================================================
