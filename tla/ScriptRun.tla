----------------------------- MODULE ScriptRun -----------------------------
(***************************************************************************)
(* One run of a model-written script (Codemode).  The guest asks for tool  *)
(* calls; the host's loop queues them for callback threads (codemode_host/ *)
(* supervisor.rs); each thread passes the broker's admission, waits for    *)
(* the lane and dispatches the tool (codemode/dispatch.rs).  When the loop *)
(* ends, by whatever cause, the callback threads are cut off, the broker   *)
(* is closed, children still in flight are given a grace period and the    *)
(* run is reported with the outcomes recorded by then                      *)
(* (codemode/execution.rs).                                                *)
(*                                                                         *)
(* A tool may never return, may leave its effect unproven and may panic.   *)
(* A command that ran and exited with a status other than zero is a        *)
(* result: the broker does not ask the journal about its effect.           *)
(***************************************************************************)
EXTENDS DispatchLane

CONSTANTS
    Mutating,  \* calls of a tool that is not read-only
    Commands,  \* calls of exec_command, bash or powershell
    Threads,   \* callback threads of the run
    MaxPending \* CodeModeLimits.pending_calls

ASSUME ScriptAssumption ==
    /\ Mutating \subseteq Calls \ Shared
    /\ Commands \subseteq Mutating
    /\ MaxPending \in Nat \ {0}

NoOne == "no call"

ASSUME NoOneAssumption == NoOne \notin Calls

VARIABLES
    pc,        \* pc[t]: where callback thread t is
    task,      \* task[t]: the call it works on
    result,    \* result[t]: what the tool answered
    slot,      \* slot[t]: CallbackWorkerSlot.state
    busy,      \* busy[t]: CallbackWorkerSlot.busy
    host,      \* where the thread of the run is
    verdict,   \* how the host's loop ended
    asked,     \* calls the guest has asked for
    tasks,     \* calls queued for the callback threads
    replies,   \* calls answered and not yet read by the loop
    pending,   \* the loop's pending_broker
    closed,    \* CallbackLaneGuard.closed
    cancelled, \* the run's cancellation token
    stale,     \* the parent's capabilities changed, or the tool was revoked
    terminal,  \* RunState.terminal
    inFlight,  \* RunState.in_flight, as the set of the calls it counts
    children,  \* RunState.children, by call; "none" while not recorded
    unproven,  \* calls whose effect the journal holds for possible or unknown
    entered,   \* history: calls that were let through the lane
    exited,    \* history: commands that answered with a status other than zero
    panicked,  \* history: calls whose dispatch panicked
    report     \* what the run is reported as

threadVars == <<pc, task, result, slot, busy>>
hostVars == <<host, verdict, asked, tasks, replies, pending, closed>>
brokerVars == <<terminal, inFlight, children, entered, panicked>>
effectVars == <<unproven, exited>>
vars == <<laneVars, threadVars, hostVars, brokerVars, cancelled, stale, effectVars, report>>

\* "Failed" stands for every outcome that proves the call left no unknown
\* effect and is no success: Failed, Cancelled, NotStarted.
ChildStatus == {"Succeeded", "Failed", "RecoveryRequired"}

\* What a dispatch hands the broker: a value; a command's status; an error
\* whose effect is settled; an error that leaves recovery to do, because the
\* journal cannot prove the effect of a mutation, or because the call carries a
\* persistence or replay marker, a read-only one included.
Answer == {"ok", "status", "failed", "unsettled"}

Unreported == [status |-> "none", drained |-> FALSE,
               children |-> [c \in Calls |-> "none"]]

TypeOK ==
    /\ LaneTypeOK
    /\ pc \in [Threads -> {"recv", "taken", "check", "lane", "entered", "gate",
                           "tool", "settle", "leave", "reply", "gone"}]
    /\ task \in [Threads -> Calls \cup {NoOne}]
    /\ result \in [Threads -> Answer \cup {"none"}]
    /\ slot \in [Threads -> {"Active", "Stranded", "Released"}]
    /\ busy \in [Threads -> BOOLEAN]
    /\ host \in {"loop", "closed", "slots", "drain", "snapshot", "done"}
    /\ verdict \in {"none", "Completed", "Stopped"}
    /\ \A s \in {asked, replies, pending, inFlight, entered, panicked} : s \subseteq Calls
    /\ unproven \subseteq Mutating
    /\ exited \subseteq Commands
    /\ tasks \in Seq(Calls)
    /\ {closed, cancelled, stale, terminal} \subseteq BOOLEAN
    /\ children \in [Calls -> ChildStatus \cup {"none"}]
    /\ report \in [status : {"none", "Completed", "Partial", "Stopped", "RecoveryRequired"},
                   drained : BOOLEAN,
                   children : [Calls -> ChildStatus \cup {"none"}]]

Init ==
    /\ LaneInit
    /\ pc = [t \in Threads |-> "recv"]
    /\ task = [t \in Threads |-> NoOne]
    /\ result = [t \in Threads |-> "none"]
    /\ slot = [t \in Threads |-> "Active"]
    /\ busy = [t \in Threads |-> FALSE]
    /\ host = "loop"
    /\ verdict = "none"
    /\ asked = {}
    /\ tasks = <<>>
    /\ replies = {}
    /\ pending = {}
    /\ closed = FALSE
    /\ cancelled = FALSE
    /\ stale = FALSE
    /\ terminal = FALSE
    /\ inFlight = {}
    /\ children = [c \in Calls |-> "none"]
    /\ unproven = {}
    /\ entered = {}
    /\ exited = {}
    /\ panicked = {}
    /\ report = Unreported

-----------------------------------------------------------------------------
(* The host's loop: frames of the guest, replies of the threads, the       *)
(* deadline.                                                               *)

\* verdict "Stopped" stands for a failed and for a cancelled run.
EndLoop(v) == host' = "closed" /\ verdict' = v

\* A tool_call frame.  Too many unanswered calls end the run.
Ask(c) ==
    /\ host = "loop" /\ ~cancelled
    /\ c \notin asked
    /\ asked' = asked \cup {c}
    /\ IF Cardinality(pending) >= MaxPending
       THEN EndLoop("Stopped") /\ UNCHANGED <<tasks, pending>>
       ELSE /\ tasks' = Append(tasks, c)
            /\ pending' = pending \cup {c}
            /\ UNCHANGED <<host, verdict>>
    /\ UNCHANGED <<laneVars, threadVars, brokerVars, replies, closed, cancelled,
                   stale, effectVars, report>>

ReadReply(c) ==
    /\ host = "loop" /\ ~cancelled
    /\ c \in replies
    /\ replies' = replies \ {c}
    /\ pending' = pending \ {c}
    /\ UNCHANGED <<laneVars, threadVars, brokerVars, host, verdict, asked, tasks,
                   closed, cancelled, stale, effectVars, report>>

\* A finished frame: with calls unanswered the run is cancelled instead.
GuestFinishes ==
    /\ host = "loop" /\ ~cancelled
    /\ IF pending # {}
       THEN EndLoop("Stopped") /\ cancelled' = TRUE
       ELSE EndLoop("Completed") /\ UNCHANGED cancelled
    /\ UNCHANGED <<laneVars, threadVars, brokerVars, asked, tasks, replies,
                   pending, closed, stale, effectVars, report>>

\* The watchdog at the deadline, the parent's cancellation, or the session's.
Cancel ==
    /\ ~cancelled
    /\ host = "loop"
    /\ cancelled' = TRUE
    /\ UNCHANGED <<laneVars, threadVars, hostVars, brokerVars, stale, effectVars, report>>

SeeCancel ==
    /\ host = "loop" /\ cancelled
    /\ EndLoop("Stopped")
    /\ UNCHANGED <<laneVars, threadVars, brokerVars, asked, tasks, replies,
                   pending, closed, cancelled, stale, effectVars, report>>

\* The guest's program fails, the transport does, or a frame breaks the protocol.
HostFails ==
    /\ host = "loop"
    /\ EndLoop("Stopped")
    /\ UNCHANGED <<laneVars, threadVars, brokerVars, asked, tasks, replies,
                   pending, closed, cancelled, stale, effectVars, report>>

\* Outside the run: a tool is revoked or a capability changes.
Revoke ==
    /\ ~stale
    /\ stale' = TRUE
    /\ UNCHANGED <<laneVars, threadVars, hostVars, brokerVars, cancelled, effectVars, report>>

-----------------------------------------------------------------------------
(* A callback thread.                                                      *)

Go(t, to) == pc' = [pc EXCEPT ![t] = to]

ChannelsGone == host \in {"drain", "snapshot", "done"}

\* busy is set before closed is read: the lane guard does the reverse.
Take(t) ==
    /\ pc[t] = "recv"
    /\ tasks # <<>>
    /\ task' = [task EXCEPT ![t] = Head(tasks)]
    /\ tasks' = Tail(tasks)
    /\ busy' = [busy EXCEPT ![t] = TRUE]
    /\ Go(t, "taken")
    /\ UNCHANGED <<laneVars, brokerVars, result, slot, host, verdict, asked, replies,
                   pending, closed, cancelled, stale, effectVars, report>>

\* WorkerExit gives back whatever share of the process's capacity is left.
ThreadGone(t) ==
    /\ slot' = [slot EXCEPT ![t] = "Released"]
    /\ Go(t, "gone")

SeesClosed(t) == pc[t] = "taken" /\ closed

StartCall(t) ==
    /\ pc[t] = "taken" /\ ~SeesClosed(t)
    /\ Go(t, "check")
    /\ UNCHANGED <<laneVars, hostVars, brokerVars, task, result, slot, busy,
                   cancelled, stale, effectVars, report>>

Quit(t) ==
    /\ \/ SeesClosed(t)
       \/ pc[t] = "recv" /\ tasks = <<>> /\ ChannelsGone
    /\ ThreadGone(t)
    /\ UNCHANGED <<laneVars, hostVars, brokerVars, task, result, busy, cancelled,
                   stale, effectVars, report>>

\* AgentCodeModeBroker::live fails, or authorize_script_child does.
Dead == cancelled \/ stale \/ terminal

TooMany == Cardinality(inFlight) >= MaxPending

\* live, authorize_script_child, the admission under the broker's lock, and
\* the ticket of the lane.  One call too many closes the run.
Admit(t) ==
    /\ pc[t] = "check"
    /\ IF Dead \/ TooMany
       THEN /\ Go(t, "reply")
            /\ terminal' = (terminal \/ ~Dead)
            /\ UNCHANGED <<laneVars, inFlight>>
       ELSE /\ Go(t, "lane")
            /\ inFlight' = inFlight \cup {task[t]}
            /\ WaitInLane(task[t])
            /\ UNCHANGED terminal
    /\ UNCHANGED <<hostVars, task, result, slot, busy, children, entered, panicked,
                   cancelled, stale, effectVars, report>>

\* A waiter looks at its cancellation first.
EnterLane(t) ==
    /\ pc[t] = "lane"
    /\ ~cancelled
    /\ Enter(task[t])
    /\ entered' = entered \cup {task[t]}
    /\ Go(t, "entered")
    /\ UNCHANGED <<hostVars, terminal, inFlight, children, panicked, task, result,
                   slot, busy, cancelled, stale, effectVars, report>>

\* A refused call has its outcome recorded at once.
RecordRefusal(t) ==
    /\ children' = [children EXCEPT ![task[t]] = "Failed"]
    /\ Go(t, "leave")

GiveUpLane(t) ==
    /\ pc[t] = "lane"
    /\ cancelled
    /\ LeaveQueue(task[t])
    /\ RecordRefusal(t)
    /\ UNCHANGED <<hostVars, terminal, inFlight, entered, panicked, task, result,
                   slot, busy, cancelled, stale, effectVars, report>>

\* live and authorize_script_child, asked again with the permit in hand.
MayDispatch == ~Dead

Recheck(t) ==
    /\ pc[t] = "entered"
    /\ IF MayDispatch THEN Go(t, "gate") /\ UNCHANGED children ELSE RecordRefusal(t)
    /\ UNCHANGED <<laneVars, hostVars, terminal, inFlight, entered, panicked, task,
                   result, slot, busy, cancelled, stale, effectVars, report>>

\* The dispatch has gates of its own.  A refusal without a record in the journal
\* proves nothing, and one may carry a marker.
Deny(t, r) ==
    /\ pc[t] = "gate"
    /\ r \in {"failed", "unsettled"}
    /\ result' = [result EXCEPT ![t] = r]
    /\ Go(t, "settle")
    /\ UNCHANGED <<laneVars, hostVars, brokerVars, task, slot, busy, cancelled, stale,
                   effectVars, report>>

\* The journal latches the effect.
StartTool(t) ==
    /\ pc[t] = "gate"
    /\ unproven' = unproven \cup ({task[t]} \cap Mutating)
    /\ Go(t, "tool")
    /\ UNCHANGED <<laneVars, hostVars, brokerVars, task, result, slot, busy, cancelled,
                   stale, exited, report>>

\* A delivered value settles the effect.  A command's status does not: the
\* journal has it as a failure whose effect is unknown.
ToolReturns(t, r) ==
    /\ pc[t] = "tool"
    /\ r = "status" => task[t] \in Commands
    /\ result' = [result EXCEPT ![t] = r]
    /\ unproven' = IF r \in {"ok", "failed"} THEN unproven \ {task[t]} ELSE unproven
    /\ exited' = IF r = "status" THEN exited \cup {task[t]} ELSE exited
    /\ Go(t, "settle")
    /\ UNCHANGED <<laneVars, hostVars, brokerVars, task, slot, busy, cancelled, stale,
                   report>>

\* The panic is caught in the thread's loop: the permit and the in-flight
\* count are dropped on the way and nothing is recorded.
ToolPanics(t) ==
    /\ pc[t] = "tool"
    /\ panicked' = panicked \cup {task[t]}
    /\ Go(t, "leave")
    /\ UNCHANGED <<laneVars, hostVars, terminal, inFlight, children, entered, task,
                   result, slot, busy, cancelled, stale, effectVars, report>>

(* Mutant: an uncertain effect is only reported to the guest. *)
ClosesRunOnBudget(t, size) == size = "over budget"

\* Admission is closed by an error that leaves recovery to do, whatever the
\* call, and by a value that exceeds the run's budget.
ClosesRun(t, size) == size = "over budget" \/ result[t] = "unsettled"

\* A value that does not fit is an error, however the tool ended.
OutcomeOf(t, size) ==
    CASE size # "fits" -> "Failed"
      [] size = "fits" /\ result[t] \in {"ok", "status"} -> "Succeeded"
      [] size = "fits" /\ result[t] = "failed" -> "Failed"
      [] size = "fits" /\ result[t] = "unsettled" -> "RecoveryRequired"

\* A value is measured against the bound of a child first, then what all of
\* them came to against the budget of the run.
Sizes == {"fits", "over bound", "over budget"}

Settle(t, size) ==
    /\ pc[t] = "settle"
    /\ size # "fits" => result[t] \in {"ok", "status"}
    /\ terminal' = (terminal \/ ClosesRun(t, size))
    /\ children' = [children EXCEPT ![task[t]] = OutcomeOf(t, size)]
    /\ Go(t, "leave")
    /\ UNCHANGED <<laneVars, hostVars, inFlight, entered, panicked, task, result, slot,
                   busy, cancelled, stale, effectVars, report>>

\* The permit, if any, and then the in-flight count are dropped.
Leave(t) ==
    /\ pc[t] = "leave"
    /\ IF task[t] \in permits THEN DropPermit(task[t]) ELSE UNCHANGED laneVars
    /\ inFlight' = inFlight \ {task[t]}
    /\ result' = [result EXCEPT ![t] = "none"]
    /\ Go(t, "reply")
    /\ UNCHANGED <<hostVars, terminal, children, entered, panicked, task, slot, busy,
                   cancelled, stale, effectVars, report>>

\* busy is cleared, then the reply is sent; with nobody to read it the
\* thread ends.
Reply(t) ==
    /\ pc[t] = "reply"
    /\ busy' = [busy EXCEPT ![t] = FALSE]
    /\ task' = [task EXCEPT ![t] = NoOne]
    /\ IF ChannelsGone
       THEN ThreadGone(t) /\ UNCHANGED replies
       ELSE Go(t, "recv") /\ replies' = replies \cup {task[t]} /\ UNCHANGED slot
    /\ UNCHANGED <<laneVars, brokerVars, result, host, verdict, asked, tasks, pending,
                   closed, cancelled, stale, effectVars, report>>

-----------------------------------------------------------------------------
(* The end of the run.                                                     *)

\* Drop of the CallbackLaneGuard: `closed`, then the token, then the slots.
CutOff ==
    /\ host = "closed"
    /\ closed' = TRUE
    /\ cancelled' = TRUE
    /\ host' = "slots"
    /\ UNCHANGED <<laneVars, threadVars, brokerVars, verdict, asked, tasks, replies,
                   pending, stale, effectVars, report>>

\* Mutant: a thread inside a call gives its share back with the rest.
SlotAlwaysReleased(t) == "Released"

\* end_run: a thread inside a call moves to the stranded pool.
SlotAfterRun(t) == IF busy[t] THEN "Stranded" ELSE "Released"

EndSlot(t) ==
    /\ host = "slots"
    /\ slot[t] = "Active"
    /\ slot' = [slot EXCEPT ![t] = SlotAfterRun(t)]
    /\ UNCHANGED <<laneVars, hostVars, brokerVars, pc, task, result, busy, cancelled,
                   stale, effectVars, report>>

\* The channels to the threads are dropped with the host's last frame, and
\* AgentCodeModeBroker::close ends admission.
CloseBroker ==
    /\ host = "slots"
    /\ \A t \in Threads : slot[t] # "Active"
    /\ replies' = {}
    /\ terminal' = TRUE
    /\ host' = "drain"
    /\ UNCHANGED <<laneVars, threadVars, inFlight, children, entered, panicked, verdict,
                   asked, tasks, pending, closed, cancelled, stale, effectVars, report>>

Drained == inFlight = {}

\* Mutant: no grace period, the run waits for its last child.
StopWaitingDrained ==
    /\ host = "drain"
    /\ Drained
    /\ report' = [report EXCEPT !.drained = TRUE]
    /\ host' = "snapshot"
    /\ UNCHANGED <<laneVars, threadVars, brokerVars, verdict, asked, tasks, replies,
                   pending, closed, cancelled, stale, effectVars>>

\* Either the last child leaves or the grace period is over.
StopWaiting ==
    /\ host = "drain"
    /\ report' = [report EXCEPT !.drained = Drained]
    /\ host' = "snapshot"
    /\ UNCHANGED <<laneVars, threadVars, brokerVars, verdict, asked, tasks, replies,
                   pending, closed, cancelled, stale, effectVars>>

\* Mutant: the recorded outcomes alone decide.
FinalStatusOfRecorded(outcomes) ==
    IF \E c \in Calls : outcomes[c] = "RecoveryRequired" THEN "RecoveryRequired"
    ELSE IF /\ verdict = "Completed"
            /\ \E c \in Calls : outcomes[c] \notin {"none", "Succeeded"}
         THEN "Partial"
         ELSE verdict

\* The status the parent is given: the evidence outranks the guest's word.
FinalStatus(outcomes) ==
    IF ~report.drained \/ (\E c \in Calls : outcomes[c] = "RecoveryRequired")
    THEN "RecoveryRequired"
    ELSE IF /\ verdict = "Completed"
            /\ \E c \in Calls : outcomes[c] \notin {"none", "Succeeded"}
         THEN "Partial"
         ELSE verdict

Report ==
    /\ host = "snapshot"
    /\ report' = [report EXCEPT !.children = children, !.status = FinalStatus(children)]
    /\ host' = "done"
    /\ UNCHANGED <<laneVars, threadVars, brokerVars, verdict, asked, tasks, replies,
                   pending, closed, cancelled, stale, effectVars>>

-----------------------------------------------------------------------------

LoopStep ==
    \/ \E c \in Calls : Ask(c) \/ ReadReply(c)
    \/ GuestFinishes \/ SeeCancel \/ HostFails

CloseStep ==
    \/ CutOff \/ CloseBroker \/ StopWaiting \/ Report
    \/ \E t \in Threads : EndSlot(t)

\* What a callback thread does by itself.
ThreadStep(t) ==
    \/ Take(t) \/ StartCall(t) \/ Quit(t) \/ Admit(t)
    \/ EnterLane(t) \/ GiveUpLane(t) \/ Recheck(t)
    \/ StartTool(t)
    \/ \E r \in Answer : Deny(t, r)
    \/ \E size \in Sizes : Settle(t, size)
    \/ Leave(t) \/ Reply(t)

\* What the tool does, if it ever does.
ToolStep(t) ==
    \/ \E r \in Answer : ToolReturns(t, r)
    \/ ToolPanics(t)

Next ==
    \/ LoopStep \/ CloseStep \/ Cancel \/ Revoke
    \/ \E t \in Threads : ThreadStep(t) \/ ToolStep(t)

\* The loop polls every 10 ms and the watchdog cancels at the deadline; the
\* threads run.  Nothing is assumed of the guest or of the tools.
Fairness ==
    /\ WF_vars(Cancel)
    /\ WF_vars(SeeCancel)
    /\ WF_vars(CloseStep)
    /\ \A t \in Threads : WF_vars(ThreadStep(t))

Spec == Init /\ [][Next]_vars /\ Fairness

-----------------------------------------------------------------------------
(* Properties.                                                             *)

\* A call that must run alone never overlaps another: from its dispatch to
\* the record of its outcome no other call is between the same two points
\* (acquire_exclusive: "waits for every other permit to drop, and holds off
\* later arrivals").
Dispatching(t) == pc[t] \in {"gate", "tool", "settle"}

RunsAlone ==
    \A t, u \in Threads :
        t # u /\ Dispatching(t) /\ Dispatching(u) => {task[t], task[u]} \subseteq Shared

\* Once any call, a read-only one too, is recorded as RecoveryRequired, no call
\* is let through to its dispatch any more, whichever were queued and whatever
\* the guest catches (dispatch.rs: "Uncertain effects close admission").  A tool
\* may still start then only for a call that had been let through before: one
\* that shares the lane with the uncertain call, so that neither mutates.
Starts(t) == pc[t] = "gate" /\ pc'[t] = "tool"

LetThrough(t) == pc[t] = "entered" /\ pc'[t] = "gate"

NothingAfterUncertain ==
    [][\A t \in Threads, c \in Calls :
          children[c] = "RecoveryRequired" =>
             /\ ~LetThrough(t)
             /\ Starts(t) => {c, task[t]} \subseteq Shared]_vars

\* A run that is not reported as RecoveryRequired has told the parent of every
\* effect: no mutating call still runs, none is left unproven but a command
\* that answered with its exit status, and each admitted call has its outcome
\* in the report.  Calls whose tool panicked are set apart: nothing is recorded
\* for them.
StatusIsHonest ==
    report.status \notin {"none", "RecoveryRequired"} =>
        \A c \in Calls \ panicked :
            /\ c \in unproven => c \in exited
            /\ c \in entered => report.children[c] # "none"

\* A slot whose capacity was given back without moving to the stranded pool
\* belongs to a thread that is in no call and never enters one again, or
\* more threads could block than the process bounds.
ReleasedIsIdle ==
    \A t \in Threads :
        slot[t] = "Released" => pc[t] \in {"recv", "taken", "gone"}

\* Every run is reported and gives its callback capacity back, even if a tool
\* never returns.
RunEnds == <>(host = "done" /\ \A t \in Threads : slot[t] # "Active")
=============================================================================
