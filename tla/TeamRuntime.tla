---------------------------- MODULE TeamRuntime ----------------------------
(***************************************************************************)
(* A session's agent team: teammates that run turns, save each result and  *)
(* report it to the lead, go idle and wake on a message (runtime/team.rs); *)
(* the lead that drains its mailbox and resends reports whose notification *)
(* is unconfirmed; the host that steers and stops teammates; and the end   *)
(* of the process, after which a new one rebuilds everything from the      *)
(* runtime log (runtime/session.rs).                                       *)
(***************************************************************************)
EXTENDS AgentMailbox

CONSTANTS
    Notes,       \* agent_message from the lead to a teammate
    Steers,      \* commands that steer a teammate, under a stable id
    MaxReports,  \* bound on the reports of one teammate
    MaxTries,    \* bound on the attempts to deliver one steering command
    MaxRestarts  \* bound on ends of the process

Reports == Workers \X (1..MaxReports)

ASSUME TeamAssumption ==
    /\ Messages = Reports \cup Notes \cup Steers
    /\ Reports \cap (Notes \cup Steers) = {} /\ Notes \cap Steers = {}
    /\ \A m \in Messages : To[m] = Lead <=> m \in Reports
    /\ {MaxReports, MaxTries, MaxRestarts} \subseteq Nat
    /\ MaxReports > 1

VARIABLES
    pc,        \* pc[w]: where the thread of teammate w is
    reports,   \* reports[w]: reports made so far
    leaving,   \* leaving[w]: the thread makes its exit report
    good,      \* good[w]: the outcome finish_agent is told
    stopper,   \* stopper[w]: the agent_stop call for w, "none" without one
    recorded,  \* AgentResultRecorded in the log
    kept,      \* results held in memory (TeamRoster.results)
    pending,   \* results whose notification is unconfirmed (KeptResults.pending)
    todo,      \* results the lead's retry_results still has to look at
    noted,     \* notes the lead has sent
    tries,     \* tries[s]: deliveries of steering command s
    restarts   \* restarts so far

workerVars == <<pc, reports, leaving, good>>
resultVars == <<recorded, kept, pending, todo>>
hostVars == <<stopper, noted, tries, restarts>>
vars == <<state, mailboxVars, logVars, workerVars, resultVars, hostVars>>

TypeOK ==
    /\ MailboxTypeOK
    /\ pc \in [Workers -> {"absent", "turn", "send", "commit", "after", "wait",
                           "check", "finish", "emit", "ended"}]
    /\ reports \in [Workers -> 0..MaxReports]
    /\ leaving \in [Workers -> BOOLEAN]
    /\ good \in [Workers -> BOOLEAN]
    /\ stopper \in [Workers -> {"none", "emit", "reject", "done"}]
    /\ recorded \subseteq Reports
    /\ kept \subseteq recorded
    /\ pending \subseteq kept
    /\ todo \subseteq Reports
    /\ noted \subseteq Notes
    /\ tries \in [Steers -> 0..MaxTries]
    /\ restarts \in 0..MaxRestarts

Init ==
    /\ MailboxInit
    /\ pc = [w \in Workers |-> "absent"]
    /\ reports = [w \in Workers |-> 0]
    /\ leaving = [w \in Workers |-> FALSE]
    /\ good = [w \in Workers |-> TRUE]
    /\ stopper = [w \in Workers |-> "none"]
    /\ recorded = {}
    /\ kept = {}
    /\ pending = {}
    /\ todo = {}
    /\ noted = {}
    /\ tries = [s \in Steers |-> 0]
    /\ restarts = 0

-----------------------------------------------------------------------------
(* Registration.  AgentStarted is an observation: the record may be lost.  *)

Started(a, o) ==
    /\ Append1(o)
    /\ known' = IF Logged(o) THEN [known EXCEPT ![a] = "live"] ELSE known
    /\ UNCHANGED <<journal, order, mailboxVars, resultVars, hostVars>>

\* ensure_lead_registered: a record that already exists is left as it is.
RegisterLead(o) ==
    /\ state[Lead] = "none"
    /\ state' = [state EXCEPT ![Lead] = "Running"]
    /\ Started(Lead, o)
    /\ UNCHANGED workerVars

\* A spawn ensures the lead first, then registers and starts the teammate.
Spawn(w, o) ==
    /\ state[Lead] # "none"
    /\ pc[w] = "absent"
    /\ state' = [state EXCEPT ![w] = "Running"]
    /\ pc' = [pc EXCEPT ![w] = "turn"]
    /\ Started(w, o)
    /\ UNCHANGED <<reports, leaving, good>>

-----------------------------------------------------------------------------
(* The teammate's thread: run_teammate_loop and the end of its spawn.      *)

(* Mutant: only the end is noticed. *)
StopRequestedEnded(w) == state[w] \in Ended

StopRequested(w) == state[w] \in {"Stopping"} \cup Ended

\* report_status_to_lead up to the send: the result is saved first, and a
\* result that cannot be saved ends the teammate.
SaveReport(w, o) ==
    LET m == <<w, reports[w] + 1>> IN
    /\ reports[w] < MaxReports
    /\ reports' = [reports EXCEPT ![w] = @ + 1]
    /\ Append1(o)
    /\ recorded' = IF Logged(o) THEN recorded \cup {m} ELSE recorded
    /\ IF o = "ok"
       THEN /\ kept' = kept \cup {m}
            /\ pending' = pending \cup {m}
            /\ pc' = [pc EXCEPT ![w] = "send"]
            /\ UNCHANGED good
       ELSE /\ pc' = [pc EXCEPT ![w] = IF leaving[w] THEN "finish" ELSE "after"]
            /\ good' = [good EXCEPT ![w] = FALSE]
            /\ UNCHANGED <<kept, pending>>
    /\ UNCHANGED <<state, mailboxVars, journal, order, known, leaving, todo, hostVars>>

\* A turn is over once what was drained for it has been applied.
EndTurn(w, o) ==
    /\ pc[w] = "turn"
    /\ hand[w] = <<>>
    /\ SaveReport(w, o)

\* The exit report of report_async_outcome, then finish_agent.
ExitReport(w, o) == pc[w] = "after" /\ leaving[w] /\ SaveReport(w, o)

AfterSend(w) == IF leaving[w] THEN "finish" ELSE "after"

BeginSend(w) ==
    LET m == <<w, reports[w]>> IN
    /\ pc[w] = "send"
    /\ \/ (SendRefused(m) \/ SendToEnded(m)) /\ pc' = [pc EXCEPT ![w] = AfterSend(w)]
       \/ Reserve(w, m) /\ pc' = [pc EXCEPT ![w] = "commit"]
    /\ UNCHANGED <<state, logVars, reports, leaving, good, resultVars, hostVars>>

(* Mutant: a refused notification counts as settled, too. *)
SettledAlways(answer) == TRUE

\* An accepted notification is settled, and so is one whose outcome is unknown.
Settled(answer) == answer \in {"ok", "unknown"}

\* The lead is never Idle, which only run_teammate_loop makes of an agent, so
\* that a report wakes nobody.
CompleteSend(w, o) ==
    LET m == call[w].msg
        answer == PublishAnswer(m, "free", o)
    IN
    /\ pc[w] = "commit"
    /\ Publish(m, "free", o)
    /\ seen' = Released(m, answer)
    /\ call' = [call EXCEPT ![w] = Quiet]
    /\ pending' = IF Settled(answer) THEN pending \ {m} ELSE pending
    /\ pc' = [pc EXCEPT ![w] = AfterSend(w)]
    /\ UNCHANGED <<reports, leaving, good, recorded, kept, todo, hostVars>>

\* Running -> Idle; a stop that came first refuses it.
GoIdle(w) ==
    /\ pc[w] = "after"
    /\ ~leaving[w] /\ good[w]
    /\ ValidTransition(state[w], "Idle")
    /\ state' = [state EXCEPT ![w] = "Idle"]
    /\ pc' = [pc EXCEPT ![w] = "wait"]
    /\ UNCHANGED <<mailboxVars, logVars, reports, leaving, good, resultVars, hostVars>>

\* turn.rs drains between two rounds of a turn, run_teammate_loop while idle.
Receive(w, n, o) ==
    /\ pc[w] \in {"turn", "wait"}
    /\ hand[w] = <<>>
    /\ queue[w] # <<>>
    /\ Drain(w, n, o)
    /\ UNCHANGED <<workerVars, resultVars, hostVars>>

Read(w, o) ==
    /\ Apply(w, o)
    /\ pc' = [pc EXCEPT ![w] = IF @ = "wait" /\ Len(hand[w]) = 1 THEN "check" ELSE @]
    /\ UNCHANGED <<reports, leaving, good, resultVars, hostVars>>

\* A turn starts only from a recorded Running state.  The bound leaves room for
\* its report and the exit report.
Resume(w) ==
    /\ pc[w] = "check"
    /\ reports[w] + 1 < MaxReports
    /\ state[w] \in {"Running", "Idle"}
    /\ state' = [state EXCEPT ![w] = "Running"]
    /\ pc' = [pc EXCEPT ![w] = "turn"]
    /\ UNCHANGED <<mailboxVars, logVars, reports, leaving, good, resultVars, hostVars>>

Leave(w, success) ==
    /\ pc[w] \in {"after", "wait", "check"}
    /\ ~leaving[w]
    /\ hand[w] = <<>>
    /\ leaving' = [leaving EXCEPT ![w] = TRUE]
    /\ good' = [good EXCEPT ![w] = success]
    /\ pc' = [pc EXCEPT ![w] = "after"]
    /\ UNCHANGED <<state, mailboxVars, logVars, reports, resultVars, hostVars>>

LeaveStopped(w) == StopRequested(w) /\ good[w] /\ Leave(w, TRUE)

LeaveUnsaved(w) == ~good[w] /\ Leave(w, FALSE)

\* Repeated failures, a cancelled session, or the idle deadline, which is a
\* failure when messages are still queued.
LeaveAlone(w, success) ==
    /\ ~StopRequested(w) /\ good[w]
    /\ pc[w] = "wait" /\ queue[w] = <<>> => success
    /\ pc[w] # "check"
    /\ Leave(w, success)

\* A thread that is gone has no local state.
Gone(w) ==
    /\ pc' = [pc EXCEPT ![w] = "ended"]
    /\ reports' = [reports EXCEPT ![w] = 0]
    /\ leaving' = [leaving EXCEPT ![w] = FALSE]
    /\ good' = [good EXCEPT ![w] = TRUE]

\* finish_agent: the roster forgets the teammate, its record becomes terminal.
Finish(w) ==
    LET target == IF good[w] THEN "Completed"
                  ELSE IF state[w] = "Idle" THEN "Cancelled" ELSE "Failed"
    IN
    /\ pc[w] = "finish"
    /\ IF ValidTransition(state[w], target)
       THEN /\ state' = [state EXCEPT ![w] = target]
            /\ pc' = [pc EXCEPT ![w] = "emit"]
            /\ UNCHANGED <<reports, leaving, good>>
       ELSE UNCHANGED state /\ Gone(w)
    /\ UNCHANGED <<mailboxVars, logVars, resultVars, hostVars>>

\* transition emits its record after it released the registry.
EmitEnd(w, o) ==
    /\ pc[w] = "emit"
    /\ Gone(w)
    /\ Append1(o)
    /\ IF Logged(o) THEN LogState(w, state[w]) ELSE UNCHANGED known
    /\ UNCHANGED <<state, mailboxVars, journal, order, resultVars, hostVars>>

-----------------------------------------------------------------------------
(* The lead's thread.                                                      *)

LeadFree == todo = {} /\ call[Lead] = Quiet

\* drain_messages: drain, then retry_results over what is pending.
LeadDrain(n, o) ==
    /\ LeadFree /\ hand[Lead] = <<>>
    /\ queue[Lead] # <<>>
    /\ Drain(Lead, n, o)
    /\ todo' = pending
    /\ UNCHANGED <<workerVars, recorded, kept, pending, hostVars>>

\* agent_status retries without draining.
LeadStatus ==
    /\ LeadFree /\ hand[Lead] = <<>>
    /\ pending # {}
    /\ todo' = pending
    /\ UNCHANGED <<state, mailboxVars, logVars, workerVars, recorded, kept, pending, hostVars>>

\* notification_confirmed
Confirmed(m) == receipt[m] \in {"queued", "delivered", "applied", "unknown"}

RetrySettled(m) ==
    /\ m \in todo /\ call[Lead] = Quiet
    /\ Confirmed(m)
    /\ todo' = todo \ {m}
    /\ pending' = pending \ {m}
    /\ UNCHANGED <<state, mailboxVars, logVars, workerVars, recorded, kept, hostVars>>

\* An id that may only be reserved by a send in flight is left pending.  An
\* unconfirmed message whose send completes before its id is looked at is
\* refused as seen, so the two checks are one step.
BeginRetry(m) ==
    /\ m \in todo /\ call[Lead] = Quiet
    /\ ~Confirmed(m)
    /\ \/ (SendRefused(m) \/ SendToEnded(m)) /\ todo' = todo \ {m}
       \/ Reserve(Lead, m) /\ UNCHANGED todo
    /\ UNCHANGED <<state, logVars, workerVars, recorded, kept, pending, hostVars>>

\* A full queue ends the attempt.
CompleteRetry(o) ==
    LET m == call[Lead].msg
        answer == PublishAnswer(m, "free", o)
    IN
    /\ m \in Reports
    /\ Publish(m, "free", o)
    /\ seen' = Released(m, answer)
    /\ call' = [call EXCEPT ![Lead] = Quiet]
    /\ todo' = IF answer = "full" THEN {} ELSE todo \ {m}
    /\ pending' = IF answer = "ok" THEN pending \ {m} ELSE pending
    /\ UNCHANGED <<workerVars, recorded, kept, hostVars>>

LeadRead(o) ==
    /\ LeadFree
    /\ Apply(Lead, o)
    /\ UNCHANGED <<workerVars, resultVars, hostVars>>

\* agent_message: a fresh id, sent once.
BeginNote(m) ==
    /\ LeadFree /\ hand[Lead] = <<>>
    /\ m \in Notes \ noted
    /\ ~Terminal(To[m])
    /\ noted' = noted \cup {m}
    /\ SendRefused(m) \/ Reserve(Lead, m)
    /\ UNCHANGED <<state, logVars, workerVars, resultVars, stopper, tries, restarts>>

CompleteNote(o) ==
    LET m == call[Lead].msg
        next == IF call[Lead].wake THEN "wake" ELSE "free"
        answer == PublishAnswer(m, next, o)
    IN
    /\ m \in Notes
    /\ Publish(m, next, o)
    /\ seen' = Released(m, answer)
    /\ call' = [call EXCEPT ![Lead] = IF answer = "waking" THEN @ ELSE Quiet]
    /\ UNCHANGED <<workerVars, resultVars, hostVars>>

-----------------------------------------------------------------------------
(* The host.                                                               *)

\* send_steer_with_id, all of it under the lifecycle lock.  A live receipt is
\* the answer to a repeated command.  Whether the recipient is idle is looked
\* at only once the command is queued.
Steer(s, o) ==
    /\ lock = Free
    /\ tries[s] < MaxTries
    /\ tries' = [tries EXCEPT ![s] = @ + 1]
    /\ \/ /\ Live(s) \/ state[To[s]] = "none"
          /\ o = "ok"
          /\ UNCHANGED <<state, mailboxVars, logVars>>
       \/ /\ ~Live(s) /\ Terminal(To[s])
          /\ o = "ok"
          /\ receipt' = [receipt EXCEPT ![s] = "rejected"]
          /\ denied' = denied \cup {s}
          /\ UNCHANGED <<state, queue, seen, call, lock, hand, given, logVars>>
       \/ /\ ~Live(s) /\ state[To[s]] # "none" /\ ~Terminal(To[s])
          /\ Publish(s, "look", o)
          /\ UNCHANGED <<seen, call>>
    /\ UNCHANGED <<workerVars, resultVars, stopper, noted, restarts>>

-----------------------------------------------------------------------------
(* The sender of a note or a steering command, once it is in the queue.    *)

TryWake == KeepLock /\ UNCHANGED <<workerVars, resultVars, hostVars>>

EndWake(o) ==
    LET m == lock.msg IN
    /\ FreeLock(o)
    /\ IF m \in Notes
       THEN /\ seen' = Released(m, WakeAnswer(o))
            /\ call' = [call EXCEPT ![Lead] = Quiet]
       ELSE UNCHANGED <<seen, call>>
    /\ UNCHANGED <<workerVars, resultVars, hostVars>>

-----------------------------------------------------------------------------
(* Stopping a teammate.                                                    *)

\* agent_stop in three steps: the record, its event, the mailbox.
Stop(w) ==
    /\ stopper[w] = "none"
    /\ ValidTransition(state[w], "Stopping")
    /\ state' = [state EXCEPT ![w] = "Stopping"]
    /\ stopper' = [stopper EXCEPT ![w] = "emit"]
    /\ UNCHANGED <<mailboxVars, logVars, workerVars, resultVars, noted, tries, restarts>>

StopEmit(w, o) ==
    /\ stopper[w] = "emit"
    /\ stopper' = [stopper EXCEPT ![w] = "reject"]
    /\ Append1(o)
    /\ IF Logged(o) THEN LogState(w, "Stopping") ELSE UNCHANGED known
    /\ UNCHANGED <<state, mailboxVars, journal, order, workerVars, resultVars,
                   noted, tries, restarts>>

StopReject(w, o) ==
    /\ stopper[w] = "reject"
    /\ stopper' = [stopper EXCEPT ![w] = "done"]
    /\ RejectUndelivered(w, o)
    /\ UNCHANGED <<state, known, workerVars, resultVars, noted, tries, restarts>>

-----------------------------------------------------------------------------
\* The process ends and a new one restores the session from its log.
Restart ==
    /\ restarts < MaxRestarts
    /\ restarts' = restarts + 1
    /\ Rehydrate
    /\ kept' = recorded
    /\ pending' = {m \in recorded : ~Confirmed(m)'}
    /\ todo' = {}
    /\ pc' = [w \in Workers |-> IF pc[w] = "absent" THEN "absent" ELSE "ended"]
    /\ reports' = [w \in Workers |-> 0]
    /\ leaving' = [w \in Workers |-> FALSE]
    /\ good' = [w \in Workers |-> TRUE]
    /\ stopper' = [w \in Workers |-> "none"]
    /\ UNCHANGED <<recorded, noted, tries>>

AllOutcomes == {"ok", "refused", "kept", "dropped"}

WorkerStep(w) ==
    \/ BeginSend(w)
    \/ GoIdle(w)
    \/ Resume(w)
    \/ LeaveStopped(w)
    \/ LeaveUnsaved(w)
    \/ Finish(w)
    \/ \E o \in AllOutcomes :
          \/ EndTurn(w, o)
          \/ ExitReport(w, o)
          \/ Read(w, o)
          \/ EmitEnd(w, o)
          \/ CompleteSend(w, o)
          \/ \E n \in 0..Batch : Receive(w, n, o)

LeadStep ==
    \/ LeadStatus
    \/ \E m \in Reports : RetrySettled(m) \/ BeginRetry(m)
    \/ \E m \in Notes : BeginNote(m)
    \/ \E o \in AllOutcomes :
          \/ LeadRead(o)
          \/ CompleteRetry(o) \/ CompleteNote(o)
          \/ \E n \in 0..Batch : LeadDrain(n, o)

SenderStep == TryWake \/ \E o \in AllOutcomes : EndWake(o)

HostStep ==
    \/ \E o \in AllOutcomes : RegisterLead(o)
    \/ \E w \in Workers :
          \/ Stop(w)
          \/ \E success \in BOOLEAN : LeaveAlone(w, success)
          \/ \E o \in AllOutcomes : Spawn(w, o) \/ StopEmit(w, o) \/ StopReject(w, o)
    \/ \E s \in Steers, o \in AllOutcomes : Steer(s, o)
    \/ Restart

Next == LeadStep \/ HostStep \/ SenderStep \/ \E w \in Workers : WorkerStep(w)

\* Each teammate is a thread that is scheduled; its turns end.  A sender that
\* holds the lifecycle lock waits for nothing.
Spec ==
    /\ Init /\ [][Next]_vars
    /\ WF_vars(SenderStep)
    /\ \A w \in Workers : WF_vars(WorkerStep(w))

-----------------------------------------------------------------------------
(* A result saved for the lead is never forgotten: either the mailbox      *)
(* holds its notification or holds that it may have been delivered, or it  *)
(* is pending and will be sent again (keep_result, settle_pending).        *)
ResultAccounted == \A m \in kept : m \in pending \/ Confirmed(m)

(* Messages reach an agent in the order of their queued records, also when *)
(* a drain whose record was refused put some of them back while others     *)
(* were being sent (drain, "the front of the queue").  Only a steering     *)
(* command that is sent again may stand behind messages that the log puts  *)
(* after it: the record of its rejection was lost, so it has its old place *)
(* in the log.                                                             *)
DeliveredInOrder ==
    \A a \in Agents :
        LET line == hand[a] \o queue[a] IN
        \A i, j \in 1..Len(line) :
            i < j /\ line[j] \notin Steers =>
                \E k, l \in 1..Len(order) :
                    k < l /\ order[k] = line[i] /\ order[l] = line[j]

(* A process moves a receipt forward only; what ended is not reopened,     *)
(* except a rejected message that its sender may retry: a steering command *)
(* or a send that was answered with an error.                              *)
Rank(r) ==
    CASE r = "none" -> 0
      [] r = "queued" -> 1
      [] r = "delivered" -> 2
      [] r \in {"applied", "rejected", "unknown"} -> 3

ReceiptForward ==
    [][restarts' = restarts =>
          \A m \in Messages :
             \/ Rank(receipt[m]) < Rank(receipt'[m])
             \/ receipt'[m] = receipt[m]
             \/ receipt[m] = "rejected" /\ m \in denied \cup Steers]_vars

(* A teammate that was asked to stop ends, whatever messages and wakes     *)
(* race the stop.                                                          *)
StopEnds == \A w \in Workers : state[w] = "Stopping" ~> state[w] \in Ended \cup {"none"}
=============================================================================
