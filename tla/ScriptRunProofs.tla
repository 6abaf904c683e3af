--------------------------- MODULE ScriptRunProofs ---------------------------
(***************************************************************************)
(* Theorems about a script run, for every set of calls and threads, every  *)
(* width of the lane and every bound on the pending calls.                 *)
(***************************************************************************)
EXTENDS ScriptRun, SequenceProofs

(* Where a thread has been given a call, has been admitted with it, and    *)
(* has been let through the lane with it.                                  *)
Working == {"taken", "check", "lane", "entered", "gate", "tool", "settle", "leave", "reply"}
Admitted == {"lane", "entered", "gate", "tool", "settle", "leave"}
Inside == {"entered", "gate", "tool", "settle"}

(* A call is asked for once, queued once and given to one thread.          *)
CallsAreApart ==
    /\ \A t \in Threads : /\ pc[t] = "recv" => task[t] = NoOne
                          /\ pc[t] \in Working => task[t] # NoOne
                          /\ task[t] # NoOne => task[t] \in asked
                          /\ task[t] \notin Elements(tasks)
    /\ \A t, u \in Threads : t # u /\ task[t] # NoOne => task[t] # task[u]
    /\ Elements(tasks) \subseteq asked
    /\ Distinct(tasks)

(* What was let into the lane alone is alone there.                        *)
LaneIsHeld ==
    /\ \A t \in Threads : /\ pc[t] \in Admitted => task[t] \in inFlight
                          /\ pc[t] \in Inside => task[t] \in permits
    /\ \A c \in permits \ Shared : exclusive /\ permits = {c}

(* A call has no outcome before its thread records one.                    *)
Untouched(c) == children[c] = "none" /\ c \notin entered /\ c \notin unproven

OutcomesAreNew ==
    /\ \A c \in Calls \ asked : Untouched(c)
    /\ \A c \in Elements(tasks) : Untouched(c)
    /\ \A t \in Threads : /\ pc[t] \in {"taken", "check", "lane"} => Untouched(task[t])
                          /\ pc[t] \in Inside => children[task[t]] = "none"

(* Every dispatch has an answer, and a command's status is remembered.     *)
ResultsAreSound ==
    \A t \in Threads :
        /\ result[t] = "unsettled" => pc[t] \in {"settle", "leave"}
        /\ pc[t] = "settle" => result[t] # "none"
        /\ pc[t] = "settle" /\ result[t] = "status" => task[t] \in exited

(* An uncertain outcome has closed the run, and who passed the second      *)
(* check before shares the lane with that call.                            *)
UncertainCloses ==
    \A c \in Calls : children[c] = "RecoveryRequired" =>
        /\ terminal
        /\ \A t \in Threads : pc[t] = "gate" => {c, task[t]} \subseteq Shared

(* Of every call let through there is an outcome or a thread that owes it. *)
Owes(t, c) == task[t] = c /\ pc[t] \in Inside
Unsettled(t, c) ==
    /\ task[t] = c
    /\ pc[t] = "tool" \/ (pc[t] = "settle" /\ result[t] = "unsettled")

OutcomesAreOwed ==
    \A c \in Calls \ panicked :
        /\ c \in entered /\ children[c] = "none" => \E t \in Threads : Owes(t, c)
        /\ c \in unproven => \/ children[c] = "RecoveryRequired" \/ c \in exited
                             \/ \E t \in Threads : Unsettled(t, c)

(* What the report says of a drained run stays true of it.                 *)
ReportIsFinal ==
    /\ host \in {"drain", "snapshot", "done"} => terminal
    /\ report.drained => host \in {"snapshot", "done"} /\ inFlight = {}
    /\ report.status # "none" => host = "done"
    /\ report.status \notin {"none", "RecoveryRequired"} =>
         /\ report.drained
         /\ report.children = children
         /\ \A c \in Calls : children[c] # "RecoveryRequired"

(* A thread that is in a call says so before it looks whether it may.      *)
SlotsAreSound ==
    /\ host \in {"slots", "drain", "snapshot", "done"} => closed
    /\ \A t \in Threads : /\ pc[t] \in Working => busy[t]
                          /\ slot[t] = "Released" => closed \/ pc[t] = "gone"
    /\ ReleasedIsIdle

(* What TypeOK says of everything but the two queues.                      *)
Shape ==
    /\ permits \subseteq Calls
    /\ exclusive \in BOOLEAN
    /\ exclusive => \E c \in Calls \ Shared : permits = {c}
    /\ pc \in [Threads -> {"recv", "taken", "check", "lane", "entered", "gate",
                           "tool", "settle", "leave", "reply", "gone"}]
    /\ task \in [Threads -> Calls \cup {NoOne}]
    /\ result \in [Threads -> Answer \cup {"none"}]
    /\ slot \in [Threads -> {"Active", "Stranded", "Released"}]
    /\ busy \in [Threads -> BOOLEAN]
    /\ host \in {"loop", "closed", "slots", "drain", "snapshot", "done"}
    /\ verdict \in {"none", "Completed", "Stopped"}
    /\ \A s \in {asked, replies, pending, inFlight, entered, panicked} : s \subseteq Calls
    /\ unproven \subseteq Mutating
    /\ exited \subseteq Commands
    /\ {closed, cancelled, stale, terminal} \subseteq BOOLEAN
    /\ children \in [Calls -> ChildStatus \cup {"none"}]
    /\ report \in [status : {"none", "Completed", "Partial", "Stopped", "RecoveryRequired"},
                   drained : BOOLEAN,
                   children : [Calls -> ChildStatus \cup {"none"}]]

Queues == tasks \in Seq(Calls) /\ tickets \in Seq(Calls)

IInv ==
    /\ TypeOK /\ CallsAreApart /\ LaneIsHeld /\ OutcomesAreNew /\ ResultsAreSound
    /\ UncertainCloses /\ OutcomesAreOwed /\ ReportIsFinal /\ SlotsAreSound

-----------------------------------------------------------------------------
(* The first state.                                                        *)
LEMMA InitSound == Init => IInv
  <1> SUFFICES ASSUME Init  PROVE IInv
    OBVIOUS
  <1>1. Shape
    BY DEF Init, LaneInit, Shape, Unreported, ChildStatus
  <1>2. tasks \in Seq(Calls) /\ tickets \in Seq(Calls) /\ Elements(tasks) = {} /\ Distinct(tasks)
    BY EmptyQueue DEF Init, LaneInit
  <1>3. TypeOK
    BY <1>1, <1>2 DEF Shape, TypeOK, LaneTypeOK
  <1>4. /\ pc = [t \in Threads |-> "recv"] /\ task = [t \in Threads |-> NoOne]
        /\ result = [t \in Threads |-> "none"] /\ slot = [t \in Threads |-> "Active"]
        /\ host = "loop" /\ asked = {} /\ permits = {} /\ entered = {}
        /\ unproven = {} /\ exited = {} /\ children = [c \in Calls |-> "none"]
        /\ report.drained = FALSE /\ report.status = "none"
    BY DEF Init, LaneInit, Unreported
  <1>5. CallsAreApart
    BY <1>2, <1>4 DEF CallsAreApart, Working
  <1>6. LaneIsHeld /\ ResultsAreSound /\ ReportIsFinal
    BY <1>4 DEF LaneIsHeld, Admitted, Inside, ResultsAreSound, ReportIsFinal
  <1>7. OutcomesAreNew /\ UncertainCloses /\ OutcomesAreOwed
    BY <1>2, <1>4, ScriptAssumption
    DEF OutcomesAreNew, Untouched, Inside, UncertainCloses, OutcomesAreOwed
  <1>8. SlotsAreSound
    BY <1>4 DEF SlotsAreSound, Working, ReleasedIsIdle
  <1> QED  BY <1>3, <1>5, <1>6, <1>7, <1>8 DEF IInv

(* Every step keeps the variables of their kind.  The flag of an exclusive
   permit goes with that permit: a shared one cannot be beside it. *)
LEMMA ShapeKept ==
  ASSUME IInv, [Next]_vars
  PROVE  Shape'
  <1> USE ScriptAssumption, LaneAssumption, NoOneAssumption
  <1>a. Shape /\ Queues
    BY Zenon DEF IInv, TypeOK, LaneTypeOK, Shape, Queues
  <1>1. ASSUME NEW c \in Calls, Ask(c)  PROVE Shape'
    BY <1>a, <1>1 DEF IInv, Shape, ChildStatus, Ask, EndLoop, laneVars, threadVars, brokerVars, effectVars
  <1>2. ASSUME NEW c \in Calls, ReadReply(c)  PROVE Shape'
    BY <1>a, <1>2 DEF IInv, Shape, ChildStatus, ReadReply, laneVars, threadVars, brokerVars, effectVars
  <1>3. CASE GuestFinishes
    BY <1>a, <1>3 DEF IInv, Shape, ChildStatus, GuestFinishes, EndLoop, laneVars, threadVars, brokerVars, effectVars
  <1>4. CASE SeeCancel
    BY <1>a, <1>4 DEF IInv, Shape, ChildStatus, SeeCancel, EndLoop, laneVars, threadVars, brokerVars, effectVars
  <1>5. CASE HostFails
    BY <1>a, <1>5 DEF IInv, Shape, ChildStatus, HostFails, EndLoop, laneVars, threadVars, brokerVars, effectVars
  <1>6. CASE CutOff
    BY <1>a, <1>6 DEF IInv, Shape, ChildStatus, CutOff, laneVars, threadVars, brokerVars, effectVars
  <1>7. CASE CloseBroker
    BY <1>a, <1>7 DEF IInv, Shape, ChildStatus, CloseBroker, laneVars, threadVars, effectVars
  <1>8. CASE StopWaiting
    BY <1>a, <1>8 DEF IInv, Shape, ChildStatus, StopWaiting, Drained, laneVars, threadVars, brokerVars, effectVars
  <1>9. CASE Report
    BY <1>a, <1>9 DEF IInv, Shape, ChildStatus, Report, FinalStatus, laneVars, threadVars, brokerVars, effectVars
  <1>10. ASSUME NEW t \in Threads, EndSlot(t)  PROVE Shape'
    BY <1>a, <1>10 DEF IInv, Shape, ChildStatus, EndSlot, SlotAfterRun, laneVars, hostVars, brokerVars, effectVars
  <1>11. CASE Cancel
    BY <1>a, <1>11 DEF IInv, Shape, ChildStatus, Cancel, laneVars, threadVars, hostVars, brokerVars, effectVars
  <1>12. CASE Revoke
    BY <1>a, <1>12 DEF IInv, Shape, ChildStatus, Revoke, laneVars, threadVars, hostVars, brokerVars, effectVars
  <1>13. ASSUME NEW t \in Threads, Take(t)  PROVE Shape'
    <2>1. /\ Head(tasks) \in Calls /\ Tail(tasks) \in Seq(Calls)
          /\ Elements(tasks) = {Head(tasks)} \cup Elements(Tail(tasks))
          /\ Distinct(tasks) => Distinct(Tail(tasks)) /\ Head(tasks) \notin Elements(Tail(tasks))
      BY <1>a, <1>13, TakenQueue DEF Queues, Take
    <2> QED  BY <1>a, <1>13, <2>1 DEF IInv, Shape, ChildStatus, Take, Go, laneVars, brokerVars, effectVars
  <1>14. ASSUME NEW t \in Threads, StartCall(t)  PROVE Shape'
    BY <1>a, <1>14 DEF IInv, Shape, ChildStatus, StartCall, SeesClosed, Go, laneVars, hostVars, brokerVars, effectVars
  <1>15. ASSUME NEW t \in Threads, Quit(t)  PROVE Shape'
    BY <1>a, <1>15 DEF IInv, Shape, ChildStatus, Quit, SeesClosed, ThreadGone, Go, laneVars, hostVars, brokerVars, effectVars
  <1>16. ASSUME NEW t \in Threads, Admit(t)  PROVE Shape'
    <2>1. pc[t] = "check" /\ task[t] \in Calls
      BY <1>a, <1>16 DEF IInv, Shape, CallsAreApart, Working, Admit
    <2>2. CASE Dead \/ TooMany
      <3>1. terminal' \in BOOLEAN
        BY <1>16, <2>2 DEF Admit
      <3> QED  BY <1>a, <1>16, <2>1, <2>2, <3>1 DEF Shape, Admit, Go, laneVars, hostVars, effectVars
    <2>3. CASE ~(Dead \/ TooMany)
      BY <1>a, <1>16, <2>1, <2>3 DEF Shape, Admit, WaitInLane, Go, hostVars, effectVars
    <2> QED  BY <2>2, <2>3
  <1>17. ASSUME NEW t \in Threads, EnterLane(t)  PROVE Shape'
    BY <1>a, <1>17 DEF IInv, Shape, ChildStatus, CallsAreApart, Working, EnterLane, Enter, MayEnter, Fits, Go, hostVars, effectVars
  <1>18. ASSUME NEW t \in Threads, GiveUpLane(t)  PROVE Shape'
    BY <1>a, <1>18 DEF IInv, Shape, ChildStatus, CallsAreApart, Working, GiveUpLane, LeaveQueue, RecordRefusal, Go, hostVars, effectVars
  <1>19. ASSUME NEW t \in Threads, Recheck(t)  PROVE Shape'
    BY <1>a, <1>19 DEF IInv, Shape, ChildStatus, CallsAreApart, Working, Recheck, MayDispatch, Dead, RecordRefusal, Go, laneVars, hostVars, effectVars
  <1>20. ASSUME NEW t \in Threads, NEW r \in Answer, Deny(t, r)  PROVE Shape'
    BY <1>a, <1>20 DEF IInv, Shape, ChildStatus, Deny, Go, laneVars, hostVars, brokerVars, effectVars
  <1>21. ASSUME NEW t \in Threads, StartTool(t)  PROVE Shape'
    BY <1>a, <1>21 DEF IInv, Shape, ChildStatus, StartTool, Go, laneVars, hostVars, brokerVars, effectVars
  <1>22. ASSUME NEW t \in Threads, NEW size \in Sizes, Settle(t, size)  PROVE Shape'
    <2>1. task[t] \in Calls /\ result[t] \in Answer
      BY <1>a, <1>22 DEF IInv, Shape, CallsAreApart, Working, ResultsAreSound, Settle
    <2>2. children' \in [Calls -> ChildStatus \cup {"none"}]
      <3>1. OutcomeOf(t, size) \in ChildStatus
        BY <2>1 DEF OutcomeOf, ChildStatus, Answer
      <3> QED  BY <1>a, <1>22, <3>1 DEF Shape, Settle
    <2>3. terminal' \in BOOLEAN
      BY <1>a, <1>22 DEF Shape, Settle, ClosesRun
    <2>4. pc' \in [Threads -> {"recv", "taken", "check", "lane", "entered", "gate",
                              "tool", "settle", "leave", "reply", "gone"}]
      BY <1>a, <1>22 DEF Shape, Settle, Go
    <2> QED  BY <1>a, <1>22, <2>2, <2>3, <2>4 DEF Shape, Settle, laneVars, hostVars, effectVars
  <1>23. ASSUME NEW t \in Threads, Leave(t)  PROVE Shape'
    <2>1. CASE task[t] \in permits
      <3>1. exclusive' \in BOOLEAN /\ permits' \subseteq permits
        BY <1>a, <1>23, <2>1 DEF Shape, Leave, DropPermit
      <3>2. ASSUME exclusive'  PROVE permits' = permits \ {task[t]} /\ \E c \in Calls \ Shared : permits' = {c}
        <4>1. exclusive /\ task[t] \in Shared
          BY <1>a, <1>23, <2>1, <3>2 DEF Shape, Leave, DropPermit
        <4>2. PICK c \in Calls \ Shared : permits = {c}
          BY <1>a, <4>1 DEF Shape
        <4> QED  BY <2>1, <4>1, <4>2
      <3> QED  BY <1>a, <1>23, <2>1, <3>1, <3>2 DEF Shape, Leave, DropPermit, Go, hostVars, effectVars
    <2>2. CASE task[t] \notin permits
      BY <1>a, <1>23, <2>2 DEF Shape, Leave, Go, laneVars, hostVars, effectVars
    <2> QED  BY <2>1, <2>2
  <1>24. ASSUME NEW t \in Threads, Reply(t)  PROVE Shape'
    BY <1>a, <1>24 DEF IInv, Shape, ChildStatus, CallsAreApart, Working, Reply, ThreadGone, Go, laneVars, brokerVars, effectVars
  <1>25. ASSUME NEW t \in Threads, NEW r \in Answer, ToolReturns(t, r)  PROVE Shape'
    BY <1>a, <1>25 DEF IInv, Shape, ChildStatus, ToolReturns, Go, laneVars, hostVars, brokerVars, effectVars
  <1>26. ASSUME NEW t \in Threads, ToolPanics(t)  PROVE Shape'
    BY <1>a, <1>26 DEF IInv, Shape, ChildStatus, CallsAreApart, Working, ToolPanics, Go, laneVars, hostVars, effectVars
  <1>27. CASE UNCHANGED vars
    BY <1>a, <1>27 DEF IInv, Shape, ChildStatus, vars, laneVars, threadVars, hostVars, brokerVars, effectVars
  <1> QED  BY <1>1, <1>2, <1>3, <1>4, <1>5, <1>6, <1>7, <1>8, <1>9, <1>10, <1>11, <1>12, <1>13, <1>14, <1>15, <1>16, <1>17, <1>18, <1>19, <1>20, <1>21, <1>22, <1>23, <1>24, <1>25, <1>26, <1>27 DEF Next, LoopStep, CloseStep, ThreadStep, ToolStep

(* The queues hold calls: Take and Enter remove the first, LeaveQueue retains
   the others. *)
LEMMA QueuesKept ==
  ASSUME IInv, [Next]_vars
  PROVE  Queues'
  <1> USE ScriptAssumption, LaneAssumption, NoOneAssumption
  <1>a. Shape /\ Queues
    BY Zenon DEF IInv, TypeOK, LaneTypeOK, Shape, Queues
  <1>1. ASSUME NEW c \in Calls, Ask(c)  PROVE Queues'
    <2>1. /\ Append(tasks, c) \in Seq(Calls)
          /\ Elements(Append(tasks, c)) = Elements(tasks) \cup {c}
          /\ Distinct(tasks) /\ c \notin Elements(tasks) => Distinct(Append(tasks, c))
      BY <1>a, AppendedQueue DEF Queues
    <2> QED  BY <1>a, <1>1, <2>1 DEF IInv, Shape, Queues, Ask, EndLoop, laneVars, threadVars, brokerVars, effectVars
  <1>2. ASSUME NEW c \in Calls, ReadReply(c)  PROVE Queues'
    BY <1>a, <1>2 DEF Queues, ReadReply, laneVars, threadVars, brokerVars, effectVars
  <1>3. CASE GuestFinishes
    BY <1>a, <1>3 DEF Queues, GuestFinishes, EndLoop, laneVars, threadVars, brokerVars, effectVars
  <1>4. CASE SeeCancel
    BY <1>a, <1>4 DEF Queues, SeeCancel, EndLoop, laneVars, threadVars, brokerVars, effectVars
  <1>5. CASE HostFails
    BY <1>a, <1>5 DEF Queues, HostFails, EndLoop, laneVars, threadVars, brokerVars, effectVars
  <1>6. CASE CutOff
    BY <1>a, <1>6 DEF Queues, CutOff, laneVars, threadVars, brokerVars, effectVars
  <1>7. CASE CloseBroker
    BY <1>a, <1>7 DEF Queues, CloseBroker, laneVars, threadVars, effectVars
  <1>8. CASE StopWaiting
    BY <1>a, <1>8 DEF Queues, StopWaiting, Drained, laneVars, threadVars, brokerVars, effectVars
  <1>9. CASE Report
    BY <1>a, <1>9 DEF Queues, Report, FinalStatus, laneVars, threadVars, brokerVars, effectVars
  <1>10. ASSUME NEW t \in Threads, EndSlot(t)  PROVE Queues'
    BY <1>a, <1>10 DEF Queues, EndSlot, SlotAfterRun, laneVars, hostVars, brokerVars, effectVars
  <1>11. CASE Cancel
    BY <1>a, <1>11 DEF Queues, Cancel, laneVars, threadVars, hostVars, brokerVars, effectVars
  <1>12. CASE Revoke
    BY <1>a, <1>12 DEF Queues, Revoke, laneVars, threadVars, hostVars, brokerVars, effectVars
  <1>13. ASSUME NEW t \in Threads, Take(t)  PROVE Queues'
    <2>1. /\ Head(tasks) \in Calls /\ Tail(tasks) \in Seq(Calls)
          /\ Elements(tasks) = {Head(tasks)} \cup Elements(Tail(tasks))
          /\ Distinct(tasks) => Distinct(Tail(tasks)) /\ Head(tasks) \notin Elements(Tail(tasks))
      BY <1>a, <1>13, TakenQueue DEF Queues, Take
    <2> QED  BY <1>a, <1>13, <2>1 DEF IInv, Shape, Queues, Take, Go, laneVars, brokerVars, effectVars
  <1>14. ASSUME NEW t \in Threads, StartCall(t)  PROVE Queues'
    BY <1>a, <1>14 DEF Queues, StartCall, SeesClosed, Go, laneVars, hostVars, brokerVars, effectVars
  <1>15. ASSUME NEW t \in Threads, Quit(t)  PROVE Queues'
    BY <1>a, <1>15 DEF Queues, Quit, SeesClosed, ThreadGone, Go, laneVars, hostVars, brokerVars, effectVars
  <1>16. ASSUME NEW t \in Threads, Admit(t)  PROVE Queues'
    <2>1. /\ Append(tickets, task[t]) \in Seq(Calls)
          /\ Elements(Append(tickets, task[t])) = Elements(tickets) \cup {task[t]}
          /\ Distinct(tickets) /\ task[t] \notin Elements(tickets) => Distinct(Append(tickets, task[t]))
      <3>1. CASE pc[t] = "check"
        <4>1. task[t] \in Calls
          BY <1>a, <3>1 DEF IInv, Shape, CallsAreApart, Working
        <4> QED  BY <1>a, <4>1, AppendedQueue DEF Queues
      <3> QED  BY <1>16, <3>1 DEF Admit
    <2> QED  BY <1>a, <1>16, <2>1 DEF IInv, Shape, Queues, CallsAreApart, Working, Admit, Dead, WaitInLane, Go, laneVars, hostVars, effectVars
  <1>17. ASSUME NEW t \in Threads, EnterLane(t)  PROVE Queues'
    <2>1. /\ Head(tickets) \in Calls /\ Tail(tickets) \in Seq(Calls)
          /\ Elements(tickets) = {Head(tickets)} \cup Elements(Tail(tickets))
          /\ Distinct(tickets) => Distinct(Tail(tickets)) /\ Head(tickets) \notin Elements(Tail(tickets))
      BY <1>a, <1>17, TakenQueue DEF Queues, EnterLane, Enter
    <2> QED  BY <1>a, <1>17, <2>1 DEF IInv, Shape, Queues, CallsAreApart, Working, EnterLane, Enter, MayEnter, Fits, Go, hostVars, effectVars
  <1>18. ASSUME NEW t \in Threads, GiveUpLane(t)  PROVE Queues'
    <2>1. Keep(tickets, Calls \ {task[t]}) \in Seq(Calls)
      BY <1>a, KeepSifts DEF Queues
    <2> QED  BY <1>a, <1>18, <2>1 DEF IInv, Shape, Queues, GiveUpLane, LeaveQueue, RecordRefusal, Go, hostVars, effectVars
  <1>19. ASSUME NEW t \in Threads, Recheck(t)  PROVE Queues'
    BY <1>a, <1>19 DEF Queues, Recheck, MayDispatch, Dead, RecordRefusal, Go, laneVars, hostVars, effectVars
  <1>20. ASSUME NEW t \in Threads, NEW r \in Answer, Deny(t, r)  PROVE Queues'
    BY <1>a, <1>20 DEF Queues, Deny, Go, laneVars, hostVars, brokerVars, effectVars
  <1>21. ASSUME NEW t \in Threads, StartTool(t)  PROVE Queues'
    BY <1>a, <1>21 DEF Queues, StartTool, Go, laneVars, hostVars, brokerVars, effectVars
  <1>22. ASSUME NEW t \in Threads, NEW size \in Sizes, Settle(t, size)  PROVE Queues'
    BY <1>a, <1>22 DEF Queues, Settle, Go, laneVars, hostVars, effectVars
  <1>23. ASSUME NEW t \in Threads, Leave(t)  PROVE Queues'
    BY <1>a, <1>23 DEF Queues, Leave, DropPermit, Go, laneVars, hostVars, effectVars
  <1>24. ASSUME NEW t \in Threads, Reply(t)  PROVE Queues'
    BY <1>a, <1>24 DEF Queues, Reply, ThreadGone, Go, laneVars, brokerVars, effectVars
  <1>25. ASSUME NEW t \in Threads, NEW r \in Answer, ToolReturns(t, r)  PROVE Queues'
    BY <1>a, <1>25 DEF Queues, ToolReturns, Go, laneVars, hostVars, brokerVars, effectVars
  <1>26. ASSUME NEW t \in Threads, ToolPanics(t)  PROVE Queues'
    BY <1>a, <1>26 DEF Queues, ToolPanics, Go, laneVars, hostVars, effectVars
  <1>27. CASE UNCHANGED vars
    BY <1>a, <1>27 DEF Queues, vars, laneVars, threadVars, hostVars, brokerVars, effectVars
  <1> QED  BY <1>1, <1>2, <1>3, <1>4, <1>5, <1>6, <1>7, <1>8, <1>9, <1>10, <1>11, <1>12, <1>13, <1>14, <1>15, <1>16, <1>17, <1>18, <1>19, <1>20, <1>21, <1>22, <1>23, <1>24, <1>25, <1>26, <1>27 DEF Next, LoopStep, CloseStep, ThreadStep, ToolStep

(* Ask queues a call that was never asked for; Take gives the first of the
   queue to one thread and to no other. *)
LEMMA CallsAreApartKept ==
  ASSUME IInv, [Next]_vars
  PROVE  CallsAreApart'
  <1> USE ScriptAssumption, LaneAssumption, NoOneAssumption
  <1>a. Shape /\ Queues
    BY Zenon DEF IInv, TypeOK, LaneTypeOK, Shape, Queues
  <1>1. ASSUME NEW c \in Calls, Ask(c)  PROVE CallsAreApart'
    <2>1. CASE Cardinality(pending) >= MaxPending
      BY <1>a, <1>1, <2>1 DEF IInv, Shape, CallsAreApart, Working, Ask, EndLoop, laneVars, threadVars, brokerVars, effectVars
    <2>2. CASE ~(Cardinality(pending) >= MaxPending)
      <3>1. /\ Elements(tasks') = Elements(tasks) \cup {c}
            /\ Distinct(tasks) /\ c \notin Elements(tasks) => Distinct(tasks')
        <4>1. tasks' = Append(tasks, c)
          BY <1>1, <2>2 DEF Ask
        <4>2. tasks \in Seq(Calls)
          BY <1>a DEF Queues
        <4> QED  BY <4>1, <4>2, AppendedQueue, Zenon
      <3> QED  BY <1>a, <1>1, <2>2, <3>1 DEF IInv, Shape, CallsAreApart, Working, Ask, EndLoop, laneVars, threadVars, brokerVars, effectVars
    <2> QED  BY <2>1, <2>2
  <1>2. ASSUME NEW c \in Calls, ReadReply(c)  PROVE CallsAreApart'
    BY <1>a, <1>2 DEF IInv, Shape, CallsAreApart, Working, ReadReply, laneVars, threadVars, brokerVars, effectVars
  <1>3. CASE GuestFinishes
    BY <1>a, <1>3 DEF IInv, Shape, CallsAreApart, Working, GuestFinishes, EndLoop, laneVars, threadVars, brokerVars, effectVars
  <1>4. CASE SeeCancel
    BY <1>a, <1>4 DEF IInv, Shape, CallsAreApart, Working, SeeCancel, EndLoop, laneVars, threadVars, brokerVars, effectVars
  <1>5. CASE HostFails
    BY <1>a, <1>5 DEF IInv, Shape, CallsAreApart, Working, HostFails, EndLoop, laneVars, threadVars, brokerVars, effectVars
  <1>6. CASE CutOff
    BY <1>a, <1>6 DEF IInv, Shape, CallsAreApart, Working, CutOff, laneVars, threadVars, brokerVars, effectVars
  <1>7. CASE CloseBroker
    BY <1>a, <1>7 DEF IInv, Shape, CallsAreApart, Working, CloseBroker, laneVars, threadVars, effectVars
  <1>8. CASE StopWaiting
    BY <1>a, <1>8 DEF IInv, Shape, CallsAreApart, Working, StopWaiting, Drained, laneVars, threadVars, brokerVars, effectVars
  <1>9. CASE Report
    BY <1>a, <1>9 DEF IInv, Shape, CallsAreApart, Working, Report, FinalStatus, laneVars, threadVars, brokerVars, effectVars
  <1>10. ASSUME NEW t \in Threads, EndSlot(t)  PROVE CallsAreApart'
    BY <1>a, <1>10 DEF IInv, Shape, CallsAreApart, Working, EndSlot, SlotAfterRun, laneVars, hostVars, brokerVars, effectVars
  <1>11. CASE Cancel
    BY <1>a, <1>11 DEF IInv, Shape, CallsAreApart, Working, Cancel, laneVars, threadVars, hostVars, brokerVars, effectVars
  <1>12. CASE Revoke
    BY <1>a, <1>12 DEF IInv, Shape, CallsAreApart, Working, Revoke, laneVars, threadVars, hostVars, brokerVars, effectVars
  <1>13. ASSUME NEW t \in Threads, Take(t)  PROVE CallsAreApart'
    <2>1. /\ Head(tasks) \in Calls /\ Tail(tasks) \in Seq(Calls)
          /\ Elements(tasks) = {Head(tasks)} \cup Elements(Tail(tasks))
          /\ Distinct(tasks) => Distinct(Tail(tasks)) /\ Head(tasks) \notin Elements(Tail(tasks))
      BY <1>a, <1>13, TakenQueue DEF Queues, Take
    <2> QED  BY <1>a, <1>13, <2>1 DEF IInv, Shape, CallsAreApart, Working, Take, Go, laneVars, brokerVars, effectVars
  <1>14. ASSUME NEW t \in Threads, StartCall(t)  PROVE CallsAreApart'
    BY <1>a, <1>14 DEF IInv, Shape, CallsAreApart, Working, StartCall, SeesClosed, Go, laneVars, hostVars, brokerVars, effectVars
  <1>15. ASSUME NEW t \in Threads, Quit(t)  PROVE CallsAreApart'
    BY <1>a, <1>15 DEF IInv, Shape, CallsAreApart, Working, Quit, SeesClosed, ThreadGone, Go, laneVars, hostVars, brokerVars, effectVars
  <1>16. ASSUME NEW t \in Threads, Admit(t)  PROVE CallsAreApart'
    BY <1>a, <1>16 DEF IInv, Shape, CallsAreApart, Working, Admit, Dead, WaitInLane, Go, laneVars, hostVars, effectVars
  <1>17. ASSUME NEW t \in Threads, EnterLane(t)  PROVE CallsAreApart'
    BY <1>a, <1>17 DEF IInv, Shape, CallsAreApart, Working, EnterLane, Enter, MayEnter, Fits, Go, hostVars, effectVars
  <1>18. ASSUME NEW t \in Threads, GiveUpLane(t)  PROVE CallsAreApart'
    BY <1>a, <1>18 DEF IInv, Shape, CallsAreApart, Working, GiveUpLane, LeaveQueue, RecordRefusal, Go, hostVars, effectVars
  <1>19. ASSUME NEW t \in Threads, Recheck(t)  PROVE CallsAreApart'
    BY <1>a, <1>19 DEF IInv, Shape, CallsAreApart, Working, Recheck, MayDispatch, Dead, RecordRefusal, Go, laneVars, hostVars, effectVars
  <1>20. ASSUME NEW t \in Threads, NEW r \in Answer, Deny(t, r)  PROVE CallsAreApart'
    BY <1>a, <1>20 DEF IInv, Shape, CallsAreApart, Working, Deny, Go, laneVars, hostVars, brokerVars, effectVars
  <1>21. ASSUME NEW t \in Threads, StartTool(t)  PROVE CallsAreApart'
    BY <1>a, <1>21 DEF IInv, Shape, CallsAreApart, Working, StartTool, Go, laneVars, hostVars, brokerVars, effectVars
  <1>22. ASSUME NEW t \in Threads, NEW size \in Sizes, Settle(t, size)  PROVE CallsAreApart'
    BY <1>a, <1>22 DEF IInv, Shape, CallsAreApart, Working, Settle, Go, laneVars, hostVars, effectVars
  <1>23. ASSUME NEW t \in Threads, Leave(t)  PROVE CallsAreApart'
    BY <1>a, <1>23 DEF IInv, Shape, CallsAreApart, Working, Leave, DropPermit, Go, laneVars, hostVars, effectVars
  <1>24. ASSUME NEW t \in Threads, Reply(t)  PROVE CallsAreApart'
    BY <1>a, <1>24 DEF IInv, Shape, CallsAreApart, Working, Reply, ThreadGone, Go, laneVars, brokerVars, effectVars
  <1>25. ASSUME NEW t \in Threads, NEW r \in Answer, ToolReturns(t, r)  PROVE CallsAreApart'
    BY <1>a, <1>25 DEF IInv, Shape, CallsAreApart, Working, ToolReturns, Go, laneVars, hostVars, brokerVars, effectVars
  <1>26. ASSUME NEW t \in Threads, ToolPanics(t)  PROVE CallsAreApart'
    BY <1>a, <1>26 DEF IInv, Shape, CallsAreApart, Working, ToolPanics, Go, laneVars, hostVars, effectVars
  <1>27. CASE UNCHANGED vars
    BY <1>a, <1>27 DEF IInv, Shape, CallsAreApart, Working, vars, laneVars, threadVars, hostVars, brokerVars, effectVars
  <1> QED  BY <1>1, <1>2, <1>3, <1>4, <1>5, <1>6, <1>7, <1>8, <1>9, <1>10, <1>11, <1>12, <1>13, <1>14, <1>15, <1>16, <1>17, <1>18, <1>19, <1>20, <1>21, <1>22, <1>23, <1>24, <1>25, <1>26, <1>27 DEF Next, LoopStep, CloseStep, ThreadStep, ToolStep

(* Enter lets a call in alone only when nobody is inside, and nobody after it
   before its permit is dropped. *)
LEMMA LaneIsHeldKept ==
  ASSUME IInv, [Next]_vars
  PROVE  LaneIsHeld'
  <1> USE ScriptAssumption, LaneAssumption, NoOneAssumption
  <1>a. Shape /\ Queues
    BY Zenon DEF IInv, TypeOK, LaneTypeOK, Shape, Queues
  <1>1. ASSUME NEW c \in Calls, Ask(c)  PROVE LaneIsHeld'
    BY <1>a, <1>1 DEF IInv, Shape, LaneIsHeld, Inside, Admitted, Ask, EndLoop, laneVars, threadVars, brokerVars, effectVars
  <1>2. ASSUME NEW c \in Calls, ReadReply(c)  PROVE LaneIsHeld'
    BY <1>a, <1>2 DEF IInv, Shape, LaneIsHeld, Inside, Admitted, ReadReply, laneVars, threadVars, brokerVars, effectVars
  <1>3. CASE GuestFinishes
    BY <1>a, <1>3 DEF IInv, Shape, LaneIsHeld, Inside, Admitted, GuestFinishes, EndLoop, laneVars, threadVars, brokerVars, effectVars
  <1>4. CASE SeeCancel
    BY <1>a, <1>4 DEF IInv, Shape, LaneIsHeld, Inside, Admitted, SeeCancel, EndLoop, laneVars, threadVars, brokerVars, effectVars
  <1>5. CASE HostFails
    BY <1>a, <1>5 DEF IInv, Shape, LaneIsHeld, Inside, Admitted, HostFails, EndLoop, laneVars, threadVars, brokerVars, effectVars
  <1>6. CASE CutOff
    BY <1>a, <1>6 DEF IInv, Shape, LaneIsHeld, Inside, Admitted, CutOff, laneVars, threadVars, brokerVars, effectVars
  <1>7. CASE CloseBroker
    BY <1>a, <1>7 DEF IInv, Shape, LaneIsHeld, Inside, Admitted, CloseBroker, laneVars, threadVars, effectVars
  <1>8. CASE StopWaiting
    BY <1>a, <1>8 DEF IInv, Shape, LaneIsHeld, Inside, Admitted, StopWaiting, Drained, laneVars, threadVars, brokerVars, effectVars
  <1>9. CASE Report
    BY <1>a, <1>9 DEF IInv, Shape, LaneIsHeld, Inside, Admitted, Report, FinalStatus, laneVars, threadVars, brokerVars, effectVars
  <1>10. ASSUME NEW t \in Threads, EndSlot(t)  PROVE LaneIsHeld'
    BY <1>a, <1>10 DEF IInv, Shape, LaneIsHeld, Inside, Admitted, EndSlot, SlotAfterRun, laneVars, hostVars, brokerVars, effectVars
  <1>11. CASE Cancel
    BY <1>a, <1>11 DEF IInv, Shape, LaneIsHeld, Inside, Admitted, Cancel, laneVars, threadVars, hostVars, brokerVars, effectVars
  <1>12. CASE Revoke
    BY <1>a, <1>12 DEF IInv, Shape, LaneIsHeld, Inside, Admitted, Revoke, laneVars, threadVars, hostVars, brokerVars, effectVars
  <1>13. ASSUME NEW t \in Threads, Take(t)  PROVE LaneIsHeld'
    BY <1>a, <1>13 DEF IInv, Shape, LaneIsHeld, Inside, Admitted, Take, Go, laneVars, brokerVars, effectVars
  <1>14. ASSUME NEW t \in Threads, StartCall(t)  PROVE LaneIsHeld'
    BY <1>a, <1>14 DEF IInv, Shape, LaneIsHeld, Inside, Admitted, StartCall, SeesClosed, Go, laneVars, hostVars, brokerVars, effectVars
  <1>15. ASSUME NEW t \in Threads, Quit(t)  PROVE LaneIsHeld'
    BY <1>a, <1>15 DEF IInv, Shape, LaneIsHeld, Inside, Admitted, Quit, SeesClosed, ThreadGone, Go, laneVars, hostVars, brokerVars, effectVars
  <1>16. ASSUME NEW t \in Threads, Admit(t)  PROVE LaneIsHeld'
    BY <1>a, <1>16 DEF IInv, Shape, LaneIsHeld, Inside, Admitted, Admit, Dead, WaitInLane, Go, laneVars, hostVars, effectVars
  <1>17. ASSUME NEW t \in Threads, EnterLane(t)  PROVE LaneIsHeld'
    BY <1>a, <1>17 DEF IInv, Shape, LaneIsHeld, Inside, Admitted, CallsAreApart, Working, EnterLane, Enter, MayEnter, Fits, Go, hostVars, effectVars
  <1>18. ASSUME NEW t \in Threads, GiveUpLane(t)  PROVE LaneIsHeld'
    BY <1>a, <1>18 DEF IInv, Shape, LaneIsHeld, Inside, Admitted, GiveUpLane, LeaveQueue, RecordRefusal, Go, hostVars, effectVars
  <1>19. ASSUME NEW t \in Threads, Recheck(t)  PROVE LaneIsHeld'
    BY <1>a, <1>19 DEF IInv, Shape, LaneIsHeld, Inside, Admitted, Recheck, MayDispatch, Dead, RecordRefusal, Go, laneVars, hostVars, effectVars
  <1>20. ASSUME NEW t \in Threads, NEW r \in Answer, Deny(t, r)  PROVE LaneIsHeld'
    BY <1>a, <1>20 DEF IInv, Shape, LaneIsHeld, Inside, Admitted, Deny, Go, laneVars, hostVars, brokerVars, effectVars
  <1>21. ASSUME NEW t \in Threads, StartTool(t)  PROVE LaneIsHeld'
    BY <1>a, <1>21 DEF IInv, Shape, LaneIsHeld, Inside, Admitted, StartTool, Go, laneVars, hostVars, brokerVars, effectVars
  <1>22. ASSUME NEW t \in Threads, NEW size \in Sizes, Settle(t, size)  PROVE LaneIsHeld'
    BY <1>a, <1>22 DEF IInv, Shape, LaneIsHeld, Inside, Admitted, Settle, Go, laneVars, hostVars, effectVars
  <1>23. ASSUME NEW t \in Threads, Leave(t)  PROVE LaneIsHeld'
    <2>1. \A u \in Threads \ {t} : pc[u] \in Admitted => task[u] # task[t]
      BY <1>a DEF IInv, CallsAreApart, Working, Admitted
    <2>2. \A u \in Threads : /\ pc'[u] \in Admitted => u # t /\ pc[u] \in Admitted
                             /\ pc'[u] \in Inside => u # t /\ pc[u] \in Inside /\ pc[u] \in Admitted
      BY <1>a, <1>23 DEF Shape, Leave, Go, Admitted, Inside
    <2>3. permits \ {task[t]} \subseteq permits' /\ permits' \subseteq permits
      BY <1>23 DEF Leave, DropPermit, laneVars, effectVars
    <2>4. \A u \in Threads : /\ pc'[u] \in Admitted => task'[u] \in inFlight'
                             /\ pc'[u] \in Inside => task'[u] \in permits'
      <3>1. task' = task /\ inFlight' = inFlight \ {task[t]}
        BY <1>23 DEF Leave
      <3> SUFFICES ASSUME NEW u \in Threads
                   PROVE  /\ pc'[u] \in Admitted => task[u] \in inFlight \ {task[t]}
                          /\ pc'[u] \in Inside => task[u] \in permits'
        BY <3>1
      <3>2. /\ pc[u] \in Admitted => task[u] \in inFlight
            /\ pc[u] \in Inside => task[u] \in permits
        BY Zenon DEF IInv, LaneIsHeld
      <3>3. pc'[u] \in Admitted => task[u] \in inFlight \ {task[t]}
        BY <2>1, <2>2, <3>2
      <3>4. pc'[u] \in Inside => task[u] \in permits \ {task[t]}
        BY <2>1, <2>2, <3>2
      <3> QED  BY <2>3, <3>3, <3>4
    <2>5. ASSUME NEW c \in permits' \ Shared  PROVE exclusive' /\ permits' = {c}
      <3>1. exclusive /\ permits = {c}
        BY <2>3, <2>5 DEF IInv, LaneIsHeld
      <3>2. task[t] \notin permits
        BY <1>23, <2>5, <3>1 DEF Leave, DropPermit
      <3> QED  BY <1>23, <3>1, <3>2 DEF Leave, laneVars, effectVars
    <2>6. \A c \in permits' \ Shared : exclusive' /\ permits' = {c}
      BY <2>5
    <2> QED  BY <2>4, <2>6 DEF LaneIsHeld, Admitted, Inside
  <1>24. ASSUME NEW t \in Threads, Reply(t)  PROVE LaneIsHeld'
    BY <1>a, <1>24 DEF IInv, Shape, LaneIsHeld, Inside, Admitted, Reply, ThreadGone, Go, laneVars, brokerVars, effectVars
  <1>25. ASSUME NEW t \in Threads, NEW r \in Answer, ToolReturns(t, r)  PROVE LaneIsHeld'
    BY <1>a, <1>25 DEF IInv, Shape, LaneIsHeld, Inside, Admitted, ToolReturns, Go, laneVars, hostVars, brokerVars, effectVars
  <1>26. ASSUME NEW t \in Threads, ToolPanics(t)  PROVE LaneIsHeld'
    BY <1>a, <1>26 DEF IInv, Shape, LaneIsHeld, Inside, Admitted, ToolPanics, Go, laneVars, hostVars, effectVars
  <1>27. CASE UNCHANGED vars
    BY <1>a, <1>27 DEF IInv, Shape, LaneIsHeld, Inside, Admitted, vars, laneVars, threadVars, hostVars, brokerVars, effectVars
  <1> QED  BY <1>1, <1>2, <1>3, <1>4, <1>5, <1>6, <1>7, <1>8, <1>9, <1>10, <1>11, <1>12, <1>13, <1>14, <1>15, <1>16, <1>17, <1>18, <1>19, <1>20, <1>21, <1>22, <1>23, <1>24, <1>25, <1>26, <1>27 DEF Next, LoopStep, CloseStep, ThreadStep, ToolStep

(* Only the thread that works on a call records its outcome, and once. *)
LEMMA OutcomesAreNewKept ==
  ASSUME IInv, [Next]_vars
  PROVE  OutcomesAreNew'
  <1> USE ScriptAssumption, LaneAssumption, NoOneAssumption
  <1>a. Shape /\ Queues
    BY Zenon DEF IInv, TypeOK, LaneTypeOK, Shape, Queues
  <1>1. ASSUME NEW c \in Calls, Ask(c)  PROVE OutcomesAreNew'
    <2>1. CASE Cardinality(pending) >= MaxPending
      BY <1>a, <1>1, <2>1 DEF IInv, Shape, OutcomesAreNew, Untouched, Inside, CallsAreApart, Working, Ask, EndLoop, laneVars, threadVars, brokerVars, effectVars
    <2>2. CASE ~(Cardinality(pending) >= MaxPending)
      <3>1. /\ Elements(tasks') = Elements(tasks) \cup {c}
            /\ Distinct(tasks) /\ c \notin Elements(tasks) => Distinct(tasks')
        <4>1. tasks' = Append(tasks, c)
          BY <1>1, <2>2 DEF Ask
        <4>2. tasks \in Seq(Calls)
          BY <1>a DEF Queues
        <4> QED  BY <4>1, <4>2, AppendedQueue, Zenon
      <3> QED  BY <1>a, <1>1, <2>2, <3>1 DEF IInv, Shape, OutcomesAreNew, Untouched, Inside, CallsAreApart, Working, Ask, EndLoop, laneVars, threadVars, brokerVars, effectVars
    <2> QED  BY <2>1, <2>2
  <1>2. ASSUME NEW c \in Calls, ReadReply(c)  PROVE OutcomesAreNew'
    BY <1>a, <1>2 DEF IInv, Shape, OutcomesAreNew, Untouched, Inside, ReadReply, laneVars, threadVars, brokerVars, effectVars
  <1>3. CASE GuestFinishes
    BY <1>a, <1>3 DEF IInv, Shape, OutcomesAreNew, Untouched, Inside, GuestFinishes, EndLoop, laneVars, threadVars, brokerVars, effectVars
  <1>4. CASE SeeCancel
    BY <1>a, <1>4 DEF IInv, Shape, OutcomesAreNew, Untouched, Inside, SeeCancel, EndLoop, laneVars, threadVars, brokerVars, effectVars
  <1>5. CASE HostFails
    BY <1>a, <1>5 DEF IInv, Shape, OutcomesAreNew, Untouched, Inside, HostFails, EndLoop, laneVars, threadVars, brokerVars, effectVars
  <1>6. CASE CutOff
    BY <1>a, <1>6 DEF IInv, Shape, OutcomesAreNew, Untouched, Inside, CutOff, laneVars, threadVars, brokerVars, effectVars
  <1>7. CASE CloseBroker
    BY <1>a, <1>7 DEF IInv, Shape, OutcomesAreNew, Untouched, Inside, CloseBroker, laneVars, threadVars, effectVars
  <1>8. CASE StopWaiting
    BY <1>a, <1>8 DEF IInv, Shape, OutcomesAreNew, Untouched, Inside, StopWaiting, Drained, laneVars, threadVars, brokerVars, effectVars
  <1>9. CASE Report
    BY <1>a, <1>9 DEF IInv, Shape, OutcomesAreNew, Untouched, Inside, Report, FinalStatus, laneVars, threadVars, brokerVars, effectVars
  <1>10. ASSUME NEW t \in Threads, EndSlot(t)  PROVE OutcomesAreNew'
    BY <1>a, <1>10 DEF IInv, Shape, OutcomesAreNew, Untouched, Inside, EndSlot, SlotAfterRun, laneVars, hostVars, brokerVars, effectVars
  <1>11. CASE Cancel
    BY <1>a, <1>11 DEF IInv, Shape, OutcomesAreNew, Untouched, Inside, Cancel, laneVars, threadVars, hostVars, brokerVars, effectVars
  <1>12. CASE Revoke
    BY <1>a, <1>12 DEF IInv, Shape, OutcomesAreNew, Untouched, Inside, Revoke, laneVars, threadVars, hostVars, brokerVars, effectVars
  <1>13. ASSUME NEW t \in Threads, Take(t)  PROVE OutcomesAreNew'
    <2>1. /\ Head(tasks) \in Calls /\ Tail(tasks) \in Seq(Calls)
          /\ Elements(tasks) = {Head(tasks)} \cup Elements(Tail(tasks))
          /\ Distinct(tasks) => Distinct(Tail(tasks)) /\ Head(tasks) \notin Elements(Tail(tasks))
      BY <1>a, <1>13, TakenQueue DEF Queues, Take
    <2> QED  BY <1>a, <1>13, <2>1 DEF IInv, Shape, OutcomesAreNew, Untouched, Inside, CallsAreApart, Working, Take, Go, laneVars, brokerVars, effectVars
  <1>14. ASSUME NEW t \in Threads, StartCall(t)  PROVE OutcomesAreNew'
    BY <1>a, <1>14 DEF IInv, Shape, OutcomesAreNew, Untouched, Inside, StartCall, SeesClosed, Go, laneVars, hostVars, brokerVars, effectVars
  <1>15. ASSUME NEW t \in Threads, Quit(t)  PROVE OutcomesAreNew'
    BY <1>a, <1>15 DEF IInv, Shape, OutcomesAreNew, Untouched, Inside, Quit, SeesClosed, ThreadGone, Go, laneVars, hostVars, brokerVars, effectVars
  <1>16. ASSUME NEW t \in Threads, Admit(t)  PROVE OutcomesAreNew'
    BY <1>a, <1>16 DEF IInv, Shape, OutcomesAreNew, Untouched, Inside, Admit, Dead, WaitInLane, Go, laneVars, hostVars, effectVars
  <1>17. ASSUME NEW t \in Threads, EnterLane(t)  PROVE OutcomesAreNew'
    BY <1>a, <1>17 DEF IInv, Shape, OutcomesAreNew, Untouched, Inside, CallsAreApart, Working, EnterLane, Enter, MayEnter, Fits, Go, hostVars, effectVars
  <1>18. ASSUME NEW t \in Threads, GiveUpLane(t)  PROVE OutcomesAreNew'
    BY <1>a, <1>18 DEF IInv, Shape, OutcomesAreNew, Untouched, Inside, CallsAreApart, Working, GiveUpLane, LeaveQueue, RecordRefusal, Go, hostVars, effectVars
  <1>19. ASSUME NEW t \in Threads, Recheck(t)  PROVE OutcomesAreNew'
    BY <1>a, <1>19 DEF IInv, Shape, OutcomesAreNew, Untouched, Inside, CallsAreApart, Working, Recheck, MayDispatch, Dead, RecordRefusal, Go, laneVars, hostVars, effectVars
  <1>20. ASSUME NEW t \in Threads, NEW r \in Answer, Deny(t, r)  PROVE OutcomesAreNew'
    BY <1>a, <1>20 DEF IInv, Shape, OutcomesAreNew, Untouched, Inside, Deny, Go, laneVars, hostVars, brokerVars, effectVars
  <1>21. ASSUME NEW t \in Threads, StartTool(t)  PROVE OutcomesAreNew'
    BY <1>a, <1>21 DEF IInv, Shape, OutcomesAreNew, Untouched, Inside, CallsAreApart, Working, StartTool, Go, laneVars, hostVars, brokerVars, effectVars
  <1>22. ASSUME NEW t \in Threads, NEW size \in Sizes, Settle(t, size)  PROVE OutcomesAreNew'
    BY <1>a, <1>22 DEF IInv, Shape, OutcomesAreNew, Untouched, Inside, CallsAreApart, Working, Settle, Go, laneVars, hostVars, effectVars
  <1>23. ASSUME NEW t \in Threads, Leave(t)  PROVE OutcomesAreNew'
    BY <1>a, <1>23 DEF IInv, Shape, OutcomesAreNew, Untouched, Inside, Leave, DropPermit, Go, laneVars, hostVars, effectVars
  <1>24. ASSUME NEW t \in Threads, Reply(t)  PROVE OutcomesAreNew'
    BY <1>a, <1>24 DEF IInv, Shape, OutcomesAreNew, Untouched, Inside, Reply, ThreadGone, Go, laneVars, brokerVars, effectVars
  <1>25. ASSUME NEW t \in Threads, NEW r \in Answer, ToolReturns(t, r)  PROVE OutcomesAreNew'
    BY <1>a, <1>25 DEF IInv, Shape, OutcomesAreNew, Untouched, Inside, ToolReturns, Go, laneVars, hostVars, brokerVars, effectVars
  <1>26. ASSUME NEW t \in Threads, ToolPanics(t)  PROVE OutcomesAreNew'
    BY <1>a, <1>26 DEF IInv, Shape, OutcomesAreNew, Untouched, Inside, ToolPanics, Go, laneVars, hostVars, effectVars
  <1>27. CASE UNCHANGED vars
    BY <1>a, <1>27 DEF IInv, Shape, OutcomesAreNew, Untouched, Inside, vars, laneVars, threadVars, hostVars, brokerVars, effectVars
  <1> QED  BY <1>1, <1>2, <1>3, <1>4, <1>5, <1>6, <1>7, <1>8, <1>9, <1>10, <1>11, <1>12, <1>13, <1>14, <1>15, <1>16, <1>17, <1>18, <1>19, <1>20, <1>21, <1>22, <1>23, <1>24, <1>25, <1>26, <1>27 DEF Next, LoopStep, CloseStep, ThreadStep, ToolStep

(* Deny and ToolReturns leave an answer for Settle. *)
LEMMA ResultsAreSoundKept ==
  ASSUME IInv, [Next]_vars
  PROVE  ResultsAreSound'
  <1> USE ScriptAssumption, LaneAssumption, NoOneAssumption
  <1>a. Shape /\ Queues
    BY Zenon DEF IInv, TypeOK, LaneTypeOK, Shape, Queues
  <1>1. ASSUME NEW c \in Calls, Ask(c)  PROVE ResultsAreSound'
    BY <1>a, <1>1 DEF IInv, Shape, ResultsAreSound, Ask, EndLoop, laneVars, threadVars, brokerVars, effectVars
  <1>2. ASSUME NEW c \in Calls, ReadReply(c)  PROVE ResultsAreSound'
    BY <1>a, <1>2 DEF IInv, Shape, ResultsAreSound, ReadReply, laneVars, threadVars, brokerVars, effectVars
  <1>3. CASE GuestFinishes
    BY <1>a, <1>3 DEF IInv, Shape, ResultsAreSound, GuestFinishes, EndLoop, laneVars, threadVars, brokerVars, effectVars
  <1>4. CASE SeeCancel
    BY <1>a, <1>4 DEF IInv, Shape, ResultsAreSound, SeeCancel, EndLoop, laneVars, threadVars, brokerVars, effectVars
  <1>5. CASE HostFails
    BY <1>a, <1>5 DEF IInv, Shape, ResultsAreSound, HostFails, EndLoop, laneVars, threadVars, brokerVars, effectVars
  <1>6. CASE CutOff
    BY <1>a, <1>6 DEF IInv, Shape, ResultsAreSound, CutOff, laneVars, threadVars, brokerVars, effectVars
  <1>7. CASE CloseBroker
    BY <1>a, <1>7 DEF IInv, Shape, ResultsAreSound, CloseBroker, laneVars, threadVars, effectVars
  <1>8. CASE StopWaiting
    BY <1>a, <1>8 DEF IInv, Shape, ResultsAreSound, StopWaiting, Drained, laneVars, threadVars, brokerVars, effectVars
  <1>9. CASE Report
    BY <1>a, <1>9 DEF IInv, Shape, ResultsAreSound, Report, FinalStatus, laneVars, threadVars, brokerVars, effectVars
  <1>10. ASSUME NEW t \in Threads, EndSlot(t)  PROVE ResultsAreSound'
    BY <1>a, <1>10 DEF IInv, Shape, ResultsAreSound, EndSlot, SlotAfterRun, laneVars, hostVars, brokerVars, effectVars
  <1>11. CASE Cancel
    BY <1>a, <1>11 DEF IInv, Shape, ResultsAreSound, Cancel, laneVars, threadVars, hostVars, brokerVars, effectVars
  <1>12. CASE Revoke
    BY <1>a, <1>12 DEF IInv, Shape, ResultsAreSound, Revoke, laneVars, threadVars, hostVars, brokerVars, effectVars
  <1>13. ASSUME NEW t \in Threads, Take(t)  PROVE ResultsAreSound'
    BY <1>a, <1>13 DEF IInv, Shape, ResultsAreSound, Take, Go, laneVars, brokerVars, effectVars
  <1>14. ASSUME NEW t \in Threads, StartCall(t)  PROVE ResultsAreSound'
    BY <1>a, <1>14 DEF IInv, Shape, ResultsAreSound, StartCall, SeesClosed, Go, laneVars, hostVars, brokerVars, effectVars
  <1>15. ASSUME NEW t \in Threads, Quit(t)  PROVE ResultsAreSound'
    BY <1>a, <1>15 DEF IInv, Shape, ResultsAreSound, Quit, SeesClosed, ThreadGone, Go, laneVars, hostVars, brokerVars, effectVars
  <1>16. ASSUME NEW t \in Threads, Admit(t)  PROVE ResultsAreSound'
    BY <1>a, <1>16 DEF IInv, Shape, ResultsAreSound, Admit, Dead, WaitInLane, Go, laneVars, hostVars, effectVars
  <1>17. ASSUME NEW t \in Threads, EnterLane(t)  PROVE ResultsAreSound'
    BY <1>a, <1>17 DEF IInv, Shape, ResultsAreSound, EnterLane, Enter, MayEnter, Fits, Go, hostVars, effectVars
  <1>18. ASSUME NEW t \in Threads, GiveUpLane(t)  PROVE ResultsAreSound'
    BY <1>a, <1>18 DEF IInv, Shape, ResultsAreSound, GiveUpLane, LeaveQueue, RecordRefusal, Go, hostVars, effectVars
  <1>19. ASSUME NEW t \in Threads, Recheck(t)  PROVE ResultsAreSound'
    BY <1>a, <1>19 DEF IInv, Shape, ResultsAreSound, Recheck, MayDispatch, Dead, RecordRefusal, Go, laneVars, hostVars, effectVars
  <1>20. ASSUME NEW t \in Threads, NEW r \in Answer, Deny(t, r)  PROVE ResultsAreSound'
    BY <1>a, <1>20 DEF IInv, Shape, ResultsAreSound, Deny, Go, laneVars, hostVars, brokerVars, effectVars
  <1>21. ASSUME NEW t \in Threads, StartTool(t)  PROVE ResultsAreSound'
    BY <1>a, <1>21 DEF IInv, Shape, ResultsAreSound, StartTool, Go, laneVars, hostVars, brokerVars, effectVars
  <1>22. ASSUME NEW t \in Threads, NEW size \in Sizes, Settle(t, size)  PROVE ResultsAreSound'
    BY <1>a, <1>22 DEF IInv, Shape, ResultsAreSound, Settle, Go, laneVars, hostVars, effectVars
  <1>23. ASSUME NEW t \in Threads, Leave(t)  PROVE ResultsAreSound'
    BY <1>a, <1>23 DEF IInv, Shape, ResultsAreSound, Leave, DropPermit, Go, laneVars, hostVars, effectVars
  <1>24. ASSUME NEW t \in Threads, Reply(t)  PROVE ResultsAreSound'
    BY <1>a, <1>24 DEF IInv, Shape, ResultsAreSound, Reply, ThreadGone, Go, laneVars, brokerVars, effectVars
  <1>25. ASSUME NEW t \in Threads, NEW r \in Answer, ToolReturns(t, r)  PROVE ResultsAreSound'
    BY <1>a, <1>25 DEF IInv, Shape, ResultsAreSound, Answer, ToolReturns, Go, laneVars, hostVars, brokerVars, effectVars
  <1>26. ASSUME NEW t \in Threads, ToolPanics(t)  PROVE ResultsAreSound'
    BY <1>a, <1>26 DEF IInv, Shape, ResultsAreSound, ToolPanics, Go, laneVars, hostVars, effectVars
  <1>27. CASE UNCHANGED vars
    BY <1>a, <1>27 DEF IInv, Shape, ResultsAreSound, vars, laneVars, threadVars, hostVars, brokerVars, effectVars
  <1> QED  BY <1>1, <1>2, <1>3, <1>4, <1>5, <1>6, <1>7, <1>8, <1>9, <1>10, <1>11, <1>12, <1>13, <1>14, <1>15, <1>16, <1>17, <1>18, <1>19, <1>20, <1>21, <1>22, <1>23, <1>24, <1>25, <1>26, <1>27 DEF Next, LoopStep, CloseStep, ThreadStep, ToolStep

(* Settle closes the run before it records an uncertain outcome, and another
   thread past the second check holds a permit beside that call's, which only
   shared requests do. *)
LEMMA UncertainClosesKept ==
  ASSUME IInv, [Next]_vars
  PROVE  UncertainCloses'
  <1> USE ScriptAssumption, LaneAssumption, NoOneAssumption
  <1>a. Shape /\ Queues
    BY Zenon DEF IInv, TypeOK, LaneTypeOK, Shape, Queues
  <1>1. ASSUME NEW c \in Calls, Ask(c)  PROVE UncertainCloses'
    BY <1>a, <1>1 DEF IInv, Shape, UncertainCloses, Ask, EndLoop, laneVars, threadVars, brokerVars, effectVars
  <1>2. ASSUME NEW c \in Calls, ReadReply(c)  PROVE UncertainCloses'
    BY <1>a, <1>2 DEF IInv, Shape, UncertainCloses, ReadReply, laneVars, threadVars, brokerVars, effectVars
  <1>3. CASE GuestFinishes
    BY <1>a, <1>3 DEF IInv, Shape, UncertainCloses, GuestFinishes, EndLoop, laneVars, threadVars, brokerVars, effectVars
  <1>4. CASE SeeCancel
    BY <1>a, <1>4 DEF IInv, Shape, UncertainCloses, SeeCancel, EndLoop, laneVars, threadVars, brokerVars, effectVars
  <1>5. CASE HostFails
    BY <1>a, <1>5 DEF IInv, Shape, UncertainCloses, HostFails, EndLoop, laneVars, threadVars, brokerVars, effectVars
  <1>6. CASE CutOff
    BY <1>a, <1>6 DEF IInv, Shape, UncertainCloses, CutOff, laneVars, threadVars, brokerVars, effectVars
  <1>7. CASE CloseBroker
    BY <1>a, <1>7 DEF IInv, Shape, UncertainCloses, CloseBroker, laneVars, threadVars, effectVars
  <1>8. CASE StopWaiting
    BY <1>a, <1>8 DEF IInv, Shape, UncertainCloses, StopWaiting, Drained, laneVars, threadVars, brokerVars, effectVars
  <1>9. CASE Report
    BY <1>a, <1>9 DEF IInv, Shape, UncertainCloses, Report, FinalStatus, laneVars, threadVars, brokerVars, effectVars
  <1>10. ASSUME NEW t \in Threads, EndSlot(t)  PROVE UncertainCloses'
    BY <1>a, <1>10 DEF IInv, Shape, UncertainCloses, EndSlot, SlotAfterRun, laneVars, hostVars, brokerVars, effectVars
  <1>11. CASE Cancel
    BY <1>a, <1>11 DEF IInv, Shape, UncertainCloses, Cancel, laneVars, threadVars, hostVars, brokerVars, effectVars
  <1>12. CASE Revoke
    BY <1>a, <1>12 DEF IInv, Shape, UncertainCloses, Revoke, laneVars, threadVars, hostVars, brokerVars, effectVars
  <1>13. ASSUME NEW t \in Threads, Take(t)  PROVE UncertainCloses'
    BY <1>a, <1>13 DEF IInv, Shape, UncertainCloses, Take, Go, laneVars, brokerVars, effectVars
  <1>14. ASSUME NEW t \in Threads, StartCall(t)  PROVE UncertainCloses'
    BY <1>a, <1>14 DEF IInv, Shape, UncertainCloses, StartCall, SeesClosed, Go, laneVars, hostVars, brokerVars, effectVars
  <1>15. ASSUME NEW t \in Threads, Quit(t)  PROVE UncertainCloses'
    BY <1>a, <1>15 DEF IInv, Shape, UncertainCloses, Quit, SeesClosed, ThreadGone, Go, laneVars, hostVars, brokerVars, effectVars
  <1>16. ASSUME NEW t \in Threads, Admit(t)  PROVE UncertainCloses'
    BY <1>a, <1>16 DEF IInv, Shape, UncertainCloses, Admit, Dead, WaitInLane, Go, laneVars, hostVars, effectVars
  <1>17. ASSUME NEW t \in Threads, EnterLane(t)  PROVE UncertainCloses'
    BY <1>a, <1>17 DEF IInv, Shape, UncertainCloses, EnterLane, Enter, MayEnter, Fits, Go, hostVars, effectVars
  <1>18. ASSUME NEW t \in Threads, GiveUpLane(t)  PROVE UncertainCloses'
    BY <1>a, <1>18 DEF IInv, Shape, UncertainCloses, GiveUpLane, LeaveQueue, RecordRefusal, Go, hostVars, effectVars
  <1>19. ASSUME NEW t \in Threads, Recheck(t)  PROVE UncertainCloses'
    BY <1>a, <1>19 DEF IInv, Shape, UncertainCloses, Recheck, MayDispatch, Dead, RecordRefusal, Go, laneVars, hostVars, effectVars
  <1>20. ASSUME NEW t \in Threads, NEW r \in Answer, Deny(t, r)  PROVE UncertainCloses'
    BY <1>a, <1>20 DEF IInv, Shape, UncertainCloses, Deny, Go, laneVars, hostVars, brokerVars, effectVars
  <1>21. ASSUME NEW t \in Threads, StartTool(t)  PROVE UncertainCloses'
    BY <1>a, <1>21 DEF IInv, Shape, UncertainCloses, StartTool, Go, laneVars, hostVars, brokerVars, effectVars
  <1>22. ASSUME NEW t \in Threads, NEW size \in Sizes, Settle(t, size)  PROVE UncertainCloses'
    <2>1. /\ task[t] \in Calls /\ pc[t] = "settle" /\ result[t] \in Answer
          /\ \A u \in Threads \ {t} : pc[u] = "gate" => task[u] # task[t]
      BY <1>a, <1>22 DEF IInv, Shape, CallsAreApart, Working, ResultsAreSound, Settle
    <2>2. /\ \A d \in Calls : d # task[t] => children'[d] = children[d]
          /\ children'[task[t]] = "RecoveryRequired" => result[t] = "unsettled"
          /\ terminal' = (terminal \/ ClosesRun(t, size))
          /\ task' = task
          /\ \A u \in Threads : pc'[u] = "gate" => u # t /\ pc[u] = "gate"
      BY <1>a, <1>22, <2>1 DEF Shape, Settle, OutcomeOf, Answer, Go
    <2>3. ASSUME NEW u \in Threads, u # t, pc[u] = "gate"
          PROVE  {task[t], task[u]} \subseteq Shared
      <3>1. {task[t], task[u]} \subseteq permits /\ task[t] # task[u]
        BY <2>1, <2>3 DEF IInv, LaneIsHeld, Inside
      <3> QED  BY <3>1 DEF IInv, LaneIsHeld
    <2>4. ASSUME NEW d \in Calls, children'[d] = "RecoveryRequired"
          PROVE  /\ terminal'
                 /\ \A u \in Threads : pc'[u] = "gate" => {d, task'[u]} \subseteq Shared
      <3>1. CASE d = task[t]
        BY <2>2, <2>3, <2>4, <3>1 DEF ClosesRun
      <3>2. CASE d # task[t]
        BY <2>2, <2>4, <3>2 DEF IInv, UncertainCloses
      <3> QED  BY <3>1, <3>2
    <2> QED  BY <2>4, Zenon DEF UncertainCloses
  <1>23. ASSUME NEW t \in Threads, Leave(t)  PROVE UncertainCloses'
    BY <1>a, <1>23 DEF IInv, Shape, UncertainCloses, Leave, DropPermit, Go, laneVars, hostVars, effectVars
  <1>24. ASSUME NEW t \in Threads, Reply(t)  PROVE UncertainCloses'
    BY <1>a, <1>24 DEF IInv, Shape, UncertainCloses, Reply, ThreadGone, Go, laneVars, brokerVars, effectVars
  <1>25. ASSUME NEW t \in Threads, NEW r \in Answer, ToolReturns(t, r)  PROVE UncertainCloses'
    BY <1>a, <1>25 DEF IInv, Shape, UncertainCloses, ToolReturns, Go, laneVars, hostVars, brokerVars, effectVars
  <1>26. ASSUME NEW t \in Threads, ToolPanics(t)  PROVE UncertainCloses'
    BY <1>a, <1>26 DEF IInv, Shape, UncertainCloses, ToolPanics, Go, laneVars, hostVars, effectVars
  <1>27. CASE UNCHANGED vars
    BY <1>a, <1>27 DEF IInv, Shape, UncertainCloses, vars, laneVars, threadVars, hostVars, brokerVars, effectVars
  <1> QED  BY <1>1, <1>2, <1>3, <1>4, <1>5, <1>6, <1>7, <1>8, <1>9, <1>10, <1>11, <1>12, <1>13, <1>14, <1>15, <1>16, <1>17, <1>18, <1>19, <1>20, <1>21, <1>22, <1>23, <1>24, <1>25, <1>26, <1>27 DEF Next, LoopStep, CloseStep, ThreadStep, ToolStep

(* A thread that leaves the lane with a call has recorded its outcome, or the
   tool panicked. *)
LEMMA OutcomesAreOwedKept ==
  ASSUME IInv, [Next]_vars
  PROVE  OutcomesAreOwed'
  <1> USE ScriptAssumption, LaneAssumption, NoOneAssumption
  <1>a. Shape /\ Queues
    BY Zenon DEF IInv, TypeOK, LaneTypeOK, Shape, Queues
  <1>1. ASSUME NEW c \in Calls, Ask(c)  PROVE OutcomesAreOwed'
    BY <1>a, <1>1 DEF IInv, Shape, OutcomesAreOwed, Owes, Unsettled, Inside, Ask, EndLoop, laneVars, threadVars, brokerVars, effectVars
  <1>2. ASSUME NEW c \in Calls, ReadReply(c)  PROVE OutcomesAreOwed'
    BY <1>a, <1>2 DEF IInv, Shape, OutcomesAreOwed, Owes, Unsettled, Inside, ReadReply, laneVars, threadVars, brokerVars, effectVars
  <1>3. CASE GuestFinishes
    BY <1>a, <1>3 DEF IInv, Shape, OutcomesAreOwed, Owes, Unsettled, Inside, GuestFinishes, EndLoop, laneVars, threadVars, brokerVars, effectVars
  <1>4. CASE SeeCancel
    BY <1>a, <1>4 DEF IInv, Shape, OutcomesAreOwed, Owes, Unsettled, Inside, SeeCancel, EndLoop, laneVars, threadVars, brokerVars, effectVars
  <1>5. CASE HostFails
    BY <1>a, <1>5 DEF IInv, Shape, OutcomesAreOwed, Owes, Unsettled, Inside, HostFails, EndLoop, laneVars, threadVars, brokerVars, effectVars
  <1>6. CASE CutOff
    BY <1>a, <1>6 DEF IInv, Shape, OutcomesAreOwed, Owes, Unsettled, Inside, CutOff, laneVars, threadVars, brokerVars, effectVars
  <1>7. CASE CloseBroker
    BY <1>a, <1>7 DEF IInv, Shape, OutcomesAreOwed, Owes, Unsettled, Inside, CloseBroker, laneVars, threadVars, effectVars
  <1>8. CASE StopWaiting
    BY <1>a, <1>8 DEF IInv, Shape, OutcomesAreOwed, Owes, Unsettled, Inside, StopWaiting, Drained, laneVars, threadVars, brokerVars, effectVars
  <1>9. CASE Report
    BY <1>a, <1>9 DEF IInv, Shape, OutcomesAreOwed, Owes, Unsettled, Inside, Report, FinalStatus, laneVars, threadVars, brokerVars, effectVars
  <1>10. ASSUME NEW t \in Threads, EndSlot(t)  PROVE OutcomesAreOwed'
    BY <1>a, <1>10 DEF IInv, Shape, OutcomesAreOwed, Owes, Unsettled, Inside, EndSlot, SlotAfterRun, laneVars, hostVars, brokerVars, effectVars
  <1>11. CASE Cancel
    BY <1>a, <1>11 DEF IInv, Shape, OutcomesAreOwed, Owes, Unsettled, Inside, Cancel, laneVars, threadVars, hostVars, brokerVars, effectVars
  <1>12. CASE Revoke
    BY <1>a, <1>12 DEF IInv, Shape, OutcomesAreOwed, Owes, Unsettled, Inside, Revoke, laneVars, threadVars, hostVars, brokerVars, effectVars
  <1>13. ASSUME NEW t \in Threads, Take(t)  PROVE OutcomesAreOwed'
    BY <1>a, <1>13 DEF IInv, Shape, OutcomesAreOwed, Owes, Unsettled, Inside, CallsAreApart, Working, OutcomesAreNew, Untouched, Take, Go, laneVars, brokerVars, effectVars
  <1>14. ASSUME NEW t \in Threads, StartCall(t)  PROVE OutcomesAreOwed'
    BY <1>a, <1>14 DEF IInv, Shape, OutcomesAreOwed, Owes, Unsettled, Inside, CallsAreApart, Working, OutcomesAreNew, Untouched, StartCall, SeesClosed, Go, laneVars, hostVars, brokerVars, effectVars
  <1>15. ASSUME NEW t \in Threads, Quit(t)  PROVE OutcomesAreOwed'
    BY <1>a, <1>15 DEF IInv, Shape, OutcomesAreOwed, Owes, Unsettled, Inside, CallsAreApart, Working, OutcomesAreNew, Untouched, Quit, SeesClosed, ThreadGone, Go, laneVars, hostVars, brokerVars, effectVars
  <1>16. ASSUME NEW t \in Threads, Admit(t)  PROVE OutcomesAreOwed'
    BY <1>a, <1>16 DEF IInv, Shape, OutcomesAreOwed, Owes, Unsettled, Inside, Admit, Dead, WaitInLane, Go, laneVars, hostVars, effectVars
  <1>17. ASSUME NEW t \in Threads, EnterLane(t)  PROVE OutcomesAreOwed'
    BY <1>a, <1>17 DEF IInv, Shape, OutcomesAreOwed, Owes, Unsettled, Inside, CallsAreApart, Working, OutcomesAreNew, Untouched, EnterLane, Enter, MayEnter, Fits, Go, hostVars, effectVars
  <1>18. ASSUME NEW t \in Threads, GiveUpLane(t)  PROVE OutcomesAreOwed'
    BY <1>a, <1>18 DEF IInv, Shape, OutcomesAreOwed, Owes, Unsettled, Inside, CallsAreApart, Working, OutcomesAreNew, Untouched, GiveUpLane, LeaveQueue, RecordRefusal, Go, hostVars, effectVars
  <1>19. ASSUME NEW t \in Threads, Recheck(t)  PROVE OutcomesAreOwed'
    BY <1>a, <1>19 DEF IInv, Shape, OutcomesAreOwed, Owes, Unsettled, Inside, CallsAreApart, Working, OutcomesAreNew, Untouched, Recheck, MayDispatch, Dead, RecordRefusal, Go, laneVars, hostVars, effectVars
  <1>20. ASSUME NEW t \in Threads, NEW r \in Answer, Deny(t, r)  PROVE OutcomesAreOwed'
    BY <1>a, <1>20 DEF IInv, Shape, OutcomesAreOwed, Owes, Unsettled, Inside, Deny, Go, laneVars, hostVars, brokerVars, effectVars
  <1>21. ASSUME NEW t \in Threads, StartTool(t)  PROVE OutcomesAreOwed'
    BY <1>a, <1>21 DEF IInv, Shape, OutcomesAreOwed, Owes, Unsettled, Inside, CallsAreApart, Working, OutcomesAreNew, Untouched, StartTool, Go, laneVars, hostVars, brokerVars, effectVars
  <1>22. ASSUME NEW t \in Threads, NEW size \in Sizes, Settle(t, size)  PROVE OutcomesAreOwed'
    <2>1. /\ task[t] \in Calls /\ pc[t] = "settle" /\ task[t] # NoOne
          /\ \A u \in Threads \ {t} : task[u] # task[t]
          /\ children[task[t]] = "none"
          /\ result[t] \in Answer
          /\ result[t] = "status" => task[t] \in exited
          /\ result[t] = "unsettled" => size = "fits"
      BY <1>a, <1>22 DEF IInv, Shape, CallsAreApart, OutcomesAreNew, Inside, ResultsAreSound, Working, Settle
    <2>2. /\ \A d \in Calls : d # task[t] => children'[d] = children[d]
          /\ children'[task[t]] # "none"
          /\ result[t] = "unsettled" => children'[task[t]] = "RecoveryRequired"
      BY <1>a, <1>22, <2>1 DEF Shape, Settle, OutcomeOf, Answer
    <2>3. /\ \A u \in Threads \ {t} : pc'[u] = pc[u]
          /\ task' = task /\ result' = result
          /\ entered' = entered /\ panicked' = panicked
          /\ unproven' = unproven /\ exited' = exited
      BY <1>a, <1>22 DEF Shape, Settle, Go, effectVars
    <2>4. ASSUME NEW d \in Calls \ panicked, d # task[t], NEW u \in Threads
          PROVE  /\ Owes(u, d) => Owes(u, d)'
                 /\ Unsettled(u, d) => Unsettled(u, d)'
      BY <2>3, <2>4 DEF Owes, Unsettled
    <2>5. ASSUME NEW d \in Calls \ panicked
          PROVE  /\ d \in entered /\ children'[d] = "none" => \E u \in Threads : Owes(u, d)'
                 /\ d \in unproven => \/ children'[d] = "RecoveryRequired" \/ d \in exited
                                      \/ \E u \in Threads : Unsettled(u, d)'
      <3>1. CASE d = task[t]
        <4>1. d \in unproven => d \in exited \/ Unsettled(t, d)
          BY <2>1, <3>1 DEF IInv, OutcomesAreOwed, Unsettled
        <4> QED  BY <2>1, <2>2, <3>1, <4>1 DEF Unsettled
      <3>2. CASE d # task[t]
        BY <2>2, <2>4, <3>2, Zenon DEF IInv, OutcomesAreOwed
      <3> QED  BY <3>1, <3>2
    <2> QED  BY <2>3, <2>5, Zenon DEF OutcomesAreOwed
  <1>23. ASSUME NEW t \in Threads, Leave(t)  PROVE OutcomesAreOwed'
    BY <1>a, <1>23 DEF IInv, Shape, OutcomesAreOwed, Owes, Unsettled, Inside, CallsAreApart, Working, OutcomesAreNew, Untouched, Leave, DropPermit, Go, laneVars, hostVars, effectVars
  <1>24. ASSUME NEW t \in Threads, Reply(t)  PROVE OutcomesAreOwed'
    BY <1>a, <1>24 DEF IInv, Shape, OutcomesAreOwed, Owes, Unsettled, Inside, CallsAreApart, Working, OutcomesAreNew, Untouched, Reply, ThreadGone, Go, laneVars, brokerVars, effectVars
  <1>25. ASSUME NEW t \in Threads, NEW r \in Answer, ToolReturns(t, r)  PROVE OutcomesAreOwed'
    <2>1. /\ pc[t] = "tool" /\ pc' = [pc EXCEPT ![t] = "settle"]
          /\ result' = [result EXCEPT ![t] = r]
          /\ unproven' = IF r \in {"ok", "failed"} THEN unproven \ {task[t]} ELSE unproven
          /\ exited' = IF r = "status" THEN exited \cup {task[t]} ELSE exited
          /\ UNCHANGED <<task, entered, children, panicked>>
      BY <1>25 DEF ToolReturns, Go, brokerVars
    <2>2. ASSUME NEW d \in Calls, NEW u \in Threads
          PROVE  /\ Owes(u, d) => Owes(u, d)'
                 /\ Unsettled(u, d) /\ u # t => Unsettled(u, d)'
      BY <1>a, <2>1, <2>2 DEF Shape, Owes, Unsettled, Inside
    <2>3. ASSUME NEW d \in Calls \ panicked
          PROVE  /\ d \in entered /\ children[d] = "none" => \E u \in Threads : Owes(u, d)'
                 /\ d \in unproven' => \/ children[d] = "RecoveryRequired" \/ d \in exited'
                                       \/ \E u \in Threads : Unsettled(u, d)'
      <3>1. d \in entered /\ children[d] = "none" => \E u \in Threads : Owes(u, d)'
        BY <2>2 DEF IInv, OutcomesAreOwed
      <3>2. CASE d = task[t]
        <4>1. d \in unproven' => d \in exited' \/ Unsettled(t, d)'
          BY <1>a, <1>25, <2>1, <3>2 DEF Shape, Answer, Unsettled
        <4> QED  BY <3>1, <4>1
      <3>3. CASE d # task[t]
        <4>1. ~Unsettled(t, d)
          BY <3>3 DEF Unsettled
        <4>2. unproven' \subseteq unproven /\ exited \subseteq exited'
          BY <2>1
        <4> QED  BY <2>2, <3>1, <4>1, <4>2 DEF IInv, OutcomesAreOwed
      <3> QED  BY <3>2, <3>3
    <2> QED  BY <2>1, <2>3, Zenon DEF OutcomesAreOwed
  <1>26. ASSUME NEW t \in Threads, ToolPanics(t)  PROVE OutcomesAreOwed'
    BY <1>a, <1>26 DEF IInv, Shape, OutcomesAreOwed, Owes, Unsettled, Inside, ToolPanics, Go, laneVars, hostVars, effectVars
  <1>27. CASE UNCHANGED vars
    BY <1>a, <1>27 DEF IInv, Shape, OutcomesAreOwed, Owes, Unsettled, Inside, vars, laneVars, threadVars, hostVars, brokerVars, effectVars
  <1> QED  BY <1>1, <1>2, <1>3, <1>4, <1>5, <1>6, <1>7, <1>8, <1>9, <1>10, <1>11, <1>12, <1>13, <1>14, <1>15, <1>16, <1>17, <1>18, <1>19, <1>20, <1>21, <1>22, <1>23, <1>24, <1>25, <1>26, <1>27 DEF Next, LoopStep, CloseStep, ThreadStep, ToolStep

(* After a drained run is reported nobody is admitted, so that no outcome
   changes under the report. *)
LEMMA ReportIsFinalKept ==
  ASSUME IInv, [Next]_vars
  PROVE  ReportIsFinal'
  <1> USE ScriptAssumption, LaneAssumption, NoOneAssumption
  <1>a. Shape /\ Queues
    BY Zenon DEF IInv, TypeOK, LaneTypeOK, Shape, Queues
  <1>1. ASSUME NEW c \in Calls, Ask(c)  PROVE ReportIsFinal'
    BY <1>a, <1>1 DEF IInv, Shape, ReportIsFinal, Ask, EndLoop, laneVars, threadVars, brokerVars, effectVars
  <1>2. ASSUME NEW c \in Calls, ReadReply(c)  PROVE ReportIsFinal'
    BY <1>a, <1>2 DEF IInv, Shape, ReportIsFinal, ReadReply, laneVars, threadVars, brokerVars, effectVars
  <1>3. CASE GuestFinishes
    BY <1>a, <1>3 DEF IInv, Shape, ReportIsFinal, GuestFinishes, EndLoop, laneVars, threadVars, brokerVars, effectVars
  <1>4. CASE SeeCancel
    BY <1>a, <1>4 DEF IInv, Shape, ReportIsFinal, SeeCancel, EndLoop, laneVars, threadVars, brokerVars, effectVars
  <1>5. CASE HostFails
    BY <1>a, <1>5 DEF IInv, Shape, ReportIsFinal, HostFails, EndLoop, laneVars, threadVars, brokerVars, effectVars
  <1>6. CASE CutOff
    BY <1>a, <1>6 DEF IInv, Shape, ReportIsFinal, CutOff, laneVars, threadVars, brokerVars, effectVars
  <1>7. CASE CloseBroker
    BY <1>a, <1>7 DEF IInv, Shape, ReportIsFinal, CloseBroker, laneVars, threadVars, effectVars
  <1>8. CASE StopWaiting
    BY <1>a, <1>8 DEF IInv, Shape, ReportIsFinal, StopWaiting, Drained, laneVars, threadVars, brokerVars, effectVars
  <1>9. CASE Report
    BY <1>a, <1>9 DEF IInv, Shape, ReportIsFinal, Report, FinalStatus, laneVars, threadVars, brokerVars, effectVars
  <1>10. ASSUME NEW t \in Threads, EndSlot(t)  PROVE ReportIsFinal'
    BY <1>a, <1>10 DEF IInv, Shape, ReportIsFinal, EndSlot, SlotAfterRun, laneVars, hostVars, brokerVars, effectVars
  <1>11. CASE Cancel
    BY <1>a, <1>11 DEF IInv, Shape, ReportIsFinal, Cancel, laneVars, threadVars, hostVars, brokerVars, effectVars
  <1>12. CASE Revoke
    BY <1>a, <1>12 DEF IInv, Shape, ReportIsFinal, Revoke, laneVars, threadVars, hostVars, brokerVars, effectVars
  <1>13. ASSUME NEW t \in Threads, Take(t)  PROVE ReportIsFinal'
    BY <1>a, <1>13 DEF IInv, Shape, ReportIsFinal, Take, Go, laneVars, brokerVars, effectVars
  <1>14. ASSUME NEW t \in Threads, StartCall(t)  PROVE ReportIsFinal'
    BY <1>a, <1>14 DEF IInv, Shape, ReportIsFinal, StartCall, SeesClosed, Go, laneVars, hostVars, brokerVars, effectVars
  <1>15. ASSUME NEW t \in Threads, Quit(t)  PROVE ReportIsFinal'
    BY <1>a, <1>15 DEF IInv, Shape, ReportIsFinal, Quit, SeesClosed, ThreadGone, Go, laneVars, hostVars, brokerVars, effectVars
  <1>16. ASSUME NEW t \in Threads, Admit(t)  PROVE ReportIsFinal'
    BY <1>a, <1>16 DEF IInv, Shape, ReportIsFinal, LaneIsHeld, Admitted, Admit, Dead, WaitInLane, Go, laneVars, hostVars, effectVars
  <1>17. ASSUME NEW t \in Threads, EnterLane(t)  PROVE ReportIsFinal'
    BY <1>a, <1>17 DEF IInv, Shape, ReportIsFinal, EnterLane, Enter, MayEnter, Fits, Go, hostVars, effectVars
  <1>18. ASSUME NEW t \in Threads, GiveUpLane(t)  PROVE ReportIsFinal'
    BY <1>a, <1>18 DEF IInv, Shape, ReportIsFinal, LaneIsHeld, Admitted, GiveUpLane, LeaveQueue, RecordRefusal, Go, hostVars, effectVars
  <1>19. ASSUME NEW t \in Threads, Recheck(t)  PROVE ReportIsFinal'
    BY <1>a, <1>19 DEF IInv, Shape, ReportIsFinal, LaneIsHeld, Admitted, Recheck, MayDispatch, Dead, RecordRefusal, Go, laneVars, hostVars, effectVars
  <1>20. ASSUME NEW t \in Threads, NEW r \in Answer, Deny(t, r)  PROVE ReportIsFinal'
    BY <1>a, <1>20 DEF IInv, Shape, ReportIsFinal, Deny, Go, laneVars, hostVars, brokerVars, effectVars
  <1>21. ASSUME NEW t \in Threads, StartTool(t)  PROVE ReportIsFinal'
    BY <1>a, <1>21 DEF IInv, Shape, ReportIsFinal, StartTool, Go, laneVars, hostVars, brokerVars, effectVars
  <1>22. ASSUME NEW t \in Threads, NEW size \in Sizes, Settle(t, size)  PROVE ReportIsFinal'
    BY <1>a, <1>22 DEF IInv, Shape, ReportIsFinal, LaneIsHeld, Admitted, Settle, Go, laneVars, hostVars, effectVars
  <1>23. ASSUME NEW t \in Threads, Leave(t)  PROVE ReportIsFinal'
    BY <1>a, <1>23 DEF IInv, Shape, ReportIsFinal, Leave, DropPermit, Go, laneVars, hostVars, effectVars
  <1>24. ASSUME NEW t \in Threads, Reply(t)  PROVE ReportIsFinal'
    BY <1>a, <1>24 DEF IInv, Shape, ReportIsFinal, Reply, ThreadGone, Go, laneVars, brokerVars, effectVars
  <1>25. ASSUME NEW t \in Threads, NEW r \in Answer, ToolReturns(t, r)  PROVE ReportIsFinal'
    BY <1>a, <1>25 DEF IInv, Shape, ReportIsFinal, ToolReturns, Go, laneVars, hostVars, brokerVars, effectVars
  <1>26. ASSUME NEW t \in Threads, ToolPanics(t)  PROVE ReportIsFinal'
    BY <1>a, <1>26 DEF IInv, Shape, ReportIsFinal, ToolPanics, Go, laneVars, hostVars, effectVars
  <1>27. CASE UNCHANGED vars
    BY <1>a, <1>27 DEF IInv, Shape, ReportIsFinal, vars, laneVars, threadVars, hostVars, brokerVars, effectVars
  <1> QED  BY <1>1, <1>2, <1>3, <1>4, <1>5, <1>6, <1>7, <1>8, <1>9, <1>10, <1>11, <1>12, <1>13, <1>14, <1>15, <1>16, <1>17, <1>18, <1>19, <1>20, <1>21, <1>22, <1>23, <1>24, <1>25, <1>26, <1>27 DEF Next, LoopStep, CloseStep, ThreadStep, ToolStep

(* busy is set before closed is read, closed before busy is read: a slot that
   is given back belongs to a thread that is in no call. *)
LEMMA SlotsAreSoundKept ==
  ASSUME IInv, [Next]_vars
  PROVE  SlotsAreSound'
  <1> USE ScriptAssumption, LaneAssumption, NoOneAssumption
  <1>a. Shape /\ Queues
    BY Zenon DEF IInv, TypeOK, LaneTypeOK, Shape, Queues
  <1>1. ASSUME NEW c \in Calls, Ask(c)  PROVE SlotsAreSound'
    BY <1>a, <1>1 DEF IInv, Shape, SlotsAreSound, ReleasedIsIdle, Working, Ask, EndLoop, laneVars, threadVars, brokerVars, effectVars
  <1>2. ASSUME NEW c \in Calls, ReadReply(c)  PROVE SlotsAreSound'
    BY <1>a, <1>2 DEF IInv, Shape, SlotsAreSound, ReleasedIsIdle, Working, ReadReply, laneVars, threadVars, brokerVars, effectVars
  <1>3. CASE GuestFinishes
    BY <1>a, <1>3 DEF IInv, Shape, SlotsAreSound, ReleasedIsIdle, Working, GuestFinishes, EndLoop, laneVars, threadVars, brokerVars, effectVars
  <1>4. CASE SeeCancel
    BY <1>a, <1>4 DEF IInv, Shape, SlotsAreSound, ReleasedIsIdle, Working, SeeCancel, EndLoop, laneVars, threadVars, brokerVars, effectVars
  <1>5. CASE HostFails
    BY <1>a, <1>5 DEF IInv, Shape, SlotsAreSound, ReleasedIsIdle, Working, HostFails, EndLoop, laneVars, threadVars, brokerVars, effectVars
  <1>6. CASE CutOff
    BY <1>a, <1>6 DEF IInv, Shape, SlotsAreSound, ReleasedIsIdle, Working, CutOff, laneVars, threadVars, brokerVars, effectVars
  <1>7. CASE CloseBroker
    BY <1>a, <1>7 DEF IInv, Shape, SlotsAreSound, ReleasedIsIdle, Working, CloseBroker, laneVars, threadVars, effectVars
  <1>8. CASE StopWaiting
    BY <1>a, <1>8 DEF IInv, Shape, SlotsAreSound, ReleasedIsIdle, Working, StopWaiting, Drained, laneVars, threadVars, brokerVars, effectVars
  <1>9. CASE Report
    BY <1>a, <1>9 DEF IInv, Shape, SlotsAreSound, ReleasedIsIdle, Working, Report, FinalStatus, laneVars, threadVars, brokerVars, effectVars
  <1>10. ASSUME NEW t \in Threads, EndSlot(t)  PROVE SlotsAreSound'
    BY <1>a, <1>10 DEF IInv, Shape, SlotsAreSound, ReleasedIsIdle, Working, EndSlot, SlotAfterRun, laneVars, hostVars, brokerVars, effectVars
  <1>11. CASE Cancel
    BY <1>a, <1>11 DEF IInv, Shape, SlotsAreSound, ReleasedIsIdle, Working, Cancel, laneVars, threadVars, hostVars, brokerVars, effectVars
  <1>12. CASE Revoke
    BY <1>a, <1>12 DEF IInv, Shape, SlotsAreSound, ReleasedIsIdle, Working, Revoke, laneVars, threadVars, hostVars, brokerVars, effectVars
  <1>13. ASSUME NEW t \in Threads, Take(t)  PROVE SlotsAreSound'
    BY <1>a, <1>13 DEF IInv, Shape, SlotsAreSound, ReleasedIsIdle, Working, Take, Go, laneVars, brokerVars, effectVars
  <1>14. ASSUME NEW t \in Threads, StartCall(t)  PROVE SlotsAreSound'
    BY <1>a, <1>14 DEF IInv, Shape, SlotsAreSound, ReleasedIsIdle, Working, StartCall, SeesClosed, Go, laneVars, hostVars, brokerVars, effectVars
  <1>15. ASSUME NEW t \in Threads, Quit(t)  PROVE SlotsAreSound'
    BY <1>a, <1>15 DEF IInv, Shape, SlotsAreSound, ReleasedIsIdle, Working, Quit, SeesClosed, ThreadGone, Go, laneVars, hostVars, brokerVars, effectVars
  <1>16. ASSUME NEW t \in Threads, Admit(t)  PROVE SlotsAreSound'
    BY <1>a, <1>16 DEF IInv, Shape, SlotsAreSound, ReleasedIsIdle, Working, Admit, Dead, WaitInLane, Go, laneVars, hostVars, effectVars
  <1>17. ASSUME NEW t \in Threads, EnterLane(t)  PROVE SlotsAreSound'
    BY <1>a, <1>17 DEF IInv, Shape, SlotsAreSound, ReleasedIsIdle, Working, EnterLane, Enter, MayEnter, Fits, Go, hostVars, effectVars
  <1>18. ASSUME NEW t \in Threads, GiveUpLane(t)  PROVE SlotsAreSound'
    BY <1>a, <1>18 DEF IInv, Shape, SlotsAreSound, ReleasedIsIdle, Working, GiveUpLane, LeaveQueue, RecordRefusal, Go, hostVars, effectVars
  <1>19. ASSUME NEW t \in Threads, Recheck(t)  PROVE SlotsAreSound'
    BY <1>a, <1>19 DEF IInv, Shape, SlotsAreSound, ReleasedIsIdle, Working, Recheck, MayDispatch, Dead, RecordRefusal, Go, laneVars, hostVars, effectVars
  <1>20. ASSUME NEW t \in Threads, NEW r \in Answer, Deny(t, r)  PROVE SlotsAreSound'
    BY <1>a, <1>20 DEF IInv, Shape, SlotsAreSound, ReleasedIsIdle, Working, Deny, Go, laneVars, hostVars, brokerVars, effectVars
  <1>21. ASSUME NEW t \in Threads, StartTool(t)  PROVE SlotsAreSound'
    BY <1>a, <1>21 DEF IInv, Shape, SlotsAreSound, ReleasedIsIdle, Working, StartTool, Go, laneVars, hostVars, brokerVars, effectVars
  <1>22. ASSUME NEW t \in Threads, NEW size \in Sizes, Settle(t, size)  PROVE SlotsAreSound'
    BY <1>a, <1>22 DEF IInv, Shape, SlotsAreSound, ReleasedIsIdle, Working, Settle, Go, laneVars, hostVars, effectVars
  <1>23. ASSUME NEW t \in Threads, Leave(t)  PROVE SlotsAreSound'
    BY <1>a, <1>23 DEF IInv, Shape, SlotsAreSound, ReleasedIsIdle, Working, Leave, DropPermit, Go, laneVars, hostVars, effectVars
  <1>24. ASSUME NEW t \in Threads, Reply(t)  PROVE SlotsAreSound'
    BY <1>a, <1>24 DEF IInv, Shape, SlotsAreSound, ReleasedIsIdle, Working, Reply, ThreadGone, Go, laneVars, brokerVars, effectVars
  <1>25. ASSUME NEW t \in Threads, NEW r \in Answer, ToolReturns(t, r)  PROVE SlotsAreSound'
    BY <1>a, <1>25 DEF IInv, Shape, SlotsAreSound, ReleasedIsIdle, Working, ToolReturns, Go, laneVars, hostVars, brokerVars, effectVars
  <1>26. ASSUME NEW t \in Threads, ToolPanics(t)  PROVE SlotsAreSound'
    BY <1>a, <1>26 DEF IInv, Shape, SlotsAreSound, ReleasedIsIdle, Working, ToolPanics, Go, laneVars, hostVars, effectVars
  <1>27. CASE UNCHANGED vars
    BY <1>a, <1>27 DEF IInv, Shape, SlotsAreSound, ReleasedIsIdle, Working, vars, laneVars, threadVars, hostVars, brokerVars, effectVars
  <1> QED  BY <1>1, <1>2, <1>3, <1>4, <1>5, <1>6, <1>7, <1>8, <1>9, <1>10, <1>11, <1>12, <1>13, <1>14, <1>15, <1>16, <1>17, <1>18, <1>19, <1>20, <1>21, <1>22, <1>23, <1>24, <1>25, <1>26, <1>27 DEF Next, LoopStep, CloseStep, ThreadStep, ToolStep

(* A closed run lets no call through to its dispatch. *)
LEMMA NoPassWhenTerminal ==
  ASSUME IInv, [Next]_vars, terminal, NEW u \in Threads, pc[u] = "entered"
  PROVE  pc'[u] # "gate"
  <1>a. Shape /\ Queues
    BY Zenon DEF IInv, TypeOK, LaneTypeOK, Shape, Queues
  <1>1. ASSUME NEW c \in Calls, Ask(c)  PROVE pc'[u] # "gate"
    BY <1>a, <1>1 DEF Shape, Ask, MayDispatch, Dead, RecordRefusal, ThreadGone, Go, threadVars
  <1>2. ASSUME NEW c \in Calls, ReadReply(c)  PROVE pc'[u] # "gate"
    BY <1>a, <1>2 DEF Shape, ReadReply, MayDispatch, Dead, RecordRefusal, ThreadGone, Go, threadVars
  <1>3. CASE GuestFinishes
    BY <1>a, <1>3 DEF Shape, GuestFinishes, MayDispatch, Dead, RecordRefusal, ThreadGone, Go, threadVars
  <1>4. CASE SeeCancel
    BY <1>a, <1>4 DEF Shape, SeeCancel, MayDispatch, Dead, RecordRefusal, ThreadGone, Go, threadVars
  <1>5. CASE HostFails
    BY <1>a, <1>5 DEF Shape, HostFails, MayDispatch, Dead, RecordRefusal, ThreadGone, Go, threadVars
  <1>6. CASE CutOff
    BY <1>a, <1>6 DEF Shape, CutOff, MayDispatch, Dead, RecordRefusal, ThreadGone, Go, threadVars
  <1>7. CASE CloseBroker
    BY <1>a, <1>7 DEF Shape, CloseBroker, MayDispatch, Dead, RecordRefusal, ThreadGone, Go, threadVars
  <1>8. CASE StopWaiting
    BY <1>a, <1>8 DEF Shape, StopWaiting, MayDispatch, Dead, RecordRefusal, ThreadGone, Go, threadVars
  <1>9. CASE Report
    BY <1>a, <1>9 DEF Shape, Report, MayDispatch, Dead, RecordRefusal, ThreadGone, Go, threadVars
  <1>10. ASSUME NEW t \in Threads, EndSlot(t)  PROVE pc'[u] # "gate"
    BY <1>a, <1>10 DEF Shape, EndSlot, MayDispatch, Dead, RecordRefusal, ThreadGone, Go, threadVars
  <1>11. CASE Cancel
    BY <1>a, <1>11 DEF Shape, Cancel, MayDispatch, Dead, RecordRefusal, ThreadGone, Go, threadVars
  <1>12. CASE Revoke
    BY <1>a, <1>12 DEF Shape, Revoke, MayDispatch, Dead, RecordRefusal, ThreadGone, Go, threadVars
  <1>13. ASSUME NEW t \in Threads, Take(t)  PROVE pc'[u] # "gate"
    BY <1>a, <1>13 DEF Shape, Take, MayDispatch, Dead, RecordRefusal, ThreadGone, Go, threadVars
  <1>14. ASSUME NEW t \in Threads, StartCall(t)  PROVE pc'[u] # "gate"
    BY <1>a, <1>14 DEF Shape, StartCall, MayDispatch, Dead, RecordRefusal, ThreadGone, Go, threadVars
  <1>15. ASSUME NEW t \in Threads, Quit(t)  PROVE pc'[u] # "gate"
    BY <1>a, <1>15 DEF Shape, Quit, MayDispatch, Dead, RecordRefusal, ThreadGone, Go, threadVars
  <1>16. ASSUME NEW t \in Threads, Admit(t)  PROVE pc'[u] # "gate"
    BY <1>a, <1>16 DEF Shape, Admit, MayDispatch, Dead, RecordRefusal, ThreadGone, Go, threadVars
  <1>17. ASSUME NEW t \in Threads, EnterLane(t)  PROVE pc'[u] # "gate"
    BY <1>a, <1>17 DEF Shape, EnterLane, MayDispatch, Dead, RecordRefusal, ThreadGone, Go, threadVars
  <1>18. ASSUME NEW t \in Threads, GiveUpLane(t)  PROVE pc'[u] # "gate"
    BY <1>a, <1>18 DEF Shape, GiveUpLane, MayDispatch, Dead, RecordRefusal, ThreadGone, Go, threadVars
  <1>19. ASSUME NEW t \in Threads, Recheck(t)  PROVE pc'[u] # "gate"
    BY <1>a, <1>19 DEF Shape, Recheck, MayDispatch, Dead, RecordRefusal, ThreadGone, Go, threadVars
  <1>20. ASSUME NEW t \in Threads, NEW r \in Answer, Deny(t, r)  PROVE pc'[u] # "gate"
    BY <1>a, <1>20 DEF Shape, Deny, MayDispatch, Dead, RecordRefusal, ThreadGone, Go, threadVars
  <1>21. ASSUME NEW t \in Threads, StartTool(t)  PROVE pc'[u] # "gate"
    BY <1>a, <1>21 DEF Shape, StartTool, MayDispatch, Dead, RecordRefusal, ThreadGone, Go, threadVars
  <1>22. ASSUME NEW t \in Threads, NEW size \in Sizes, Settle(t, size)  PROVE pc'[u] # "gate"
    BY <1>a, <1>22 DEF Shape, Settle, MayDispatch, Dead, RecordRefusal, ThreadGone, Go, threadVars
  <1>23. ASSUME NEW t \in Threads, Leave(t)  PROVE pc'[u] # "gate"
    BY <1>a, <1>23 DEF Shape, Leave, MayDispatch, Dead, RecordRefusal, ThreadGone, Go, threadVars
  <1>24. ASSUME NEW t \in Threads, Reply(t)  PROVE pc'[u] # "gate"
    BY <1>a, <1>24 DEF Shape, Reply, MayDispatch, Dead, RecordRefusal, ThreadGone, Go, threadVars
  <1>25. ASSUME NEW t \in Threads, NEW r \in Answer, ToolReturns(t, r)  PROVE pc'[u] # "gate"
    BY <1>a, <1>25 DEF Shape, ToolReturns, MayDispatch, Dead, RecordRefusal, ThreadGone, Go, threadVars
  <1>26. ASSUME NEW t \in Threads, ToolPanics(t)  PROVE pc'[u] # "gate"
    BY <1>a, <1>26 DEF Shape, ToolPanics, MayDispatch, Dead, RecordRefusal, ThreadGone, Go, threadVars
  <1>27. CASE UNCHANGED vars
    BY <1>a, <1>27 DEF Shape, vars, MayDispatch, Dead, RecordRefusal, ThreadGone, Go, threadVars
  <1> QED  BY <1>1, <1>2, <1>3, <1>4, <1>5, <1>6, <1>7, <1>8, <1>9, <1>10, <1>11, <1>12, <1>13, <1>14, <1>15, <1>16, <1>17, <1>18, <1>19, <1>20, <1>21, <1>22, <1>23, <1>24, <1>25, <1>26, <1>27 DEF Next, LoopStep, CloseStep, ThreadStep, ToolStep

(* Every step keeps the invariant.                                         *)
LEMMA StepSound == IInv /\ [Next]_vars => IInv'
  <1> SUFFICES ASSUME IInv, [Next]_vars  PROVE IInv'
    OBVIOUS
  <1>1. Shape' /\ Queues'
    BY ShapeKept, QueuesKept
  <1>2. TypeOK'
    BY <1>1, Zenon DEF TypeOK, LaneTypeOK, Shape, Queues
  <1> QED  BY <1>2, CallsAreApartKept, LaneIsHeldKept, OutcomesAreNewKept, ResultsAreSoundKept,
              UncertainClosesKept, OutcomesAreOwedKept, ReportIsFinalKept, SlotsAreSoundKept,
              Zenon DEF IInv

-----------------------------------------------------------------------------
(* The inductive invariant holds of every reachable state of a script run. *)
THEOREM Invariance == Spec => []IInv
  BY InitSound, StepSound, PTL DEF Spec

(* The variables keep their types; in particular the flag of the lane      *)
(* (WorkerCounts.exclusive) never outlives the permit it stands for.       *)
THEOREM TypeCorrect == Spec => []TypeOK
  <1>1. IInv => TypeOK
    BY Zenon DEF IInv
  <1> QED  BY <1>1, Invariance, PTL

(* A call that must run alone overlaps no other from its dispatch to the   *)
(* record of its outcome (acquire_exclusive), whatever the number of       *)
(* threads and the width of the lane.                                      *)
THEOREM RunsAloneAlways == Spec => []RunsAlone
  <1>1. IInv => RunsAlone
    <2> SUFFICES ASSUME IInv, NEW t \in Threads, NEW u \in Threads,
                        t # u, Dispatching(t), Dispatching(u)
                 PROVE  task[t] \in Shared /\ task[u] \in Shared
      BY DEF RunsAlone
    <2>1. task[t] \in permits /\ task[u] \in permits /\ task[t] # task[u]
      BY DEF IInv, LaneIsHeld, Inside, CallsAreApart, Working, Dispatching
    <2> QED  BY <2>1 DEF IInv, LaneIsHeld
  <1> QED  BY <1>1, Invariance, PTL

(* Once the outcome of any call is recorded as uncertain no call is let    *)
(* through to its dispatch, and a tool is started only for one that was    *)
(* let through before and shares the lane with the uncertain call (Settle  *)
(* closes admission, Recheck asks again under the permit).                 *)
THEOREM NothingStartsAfterUncertain == Spec => NothingAfterUncertain
  <1>1. ASSUME IInv, [Next]_vars, NEW t \in Threads, NEW c \in Calls,
               children[c] = "RecoveryRequired"
        PROVE  /\ ~LetThrough(t)
               /\ Starts(t) => {c, task[t]} \subseteq Shared
    <2>1. terminal /\ (pc[t] = "gate" => {c, task[t]} \subseteq Shared)
      BY <1>1 DEF IInv, UncertainCloses
    <2>2. ~LetThrough(t)
      BY <1>1, <2>1, NoPassWhenTerminal DEF LetThrough
    <2> QED  BY <2>1, <2>2 DEF Starts
  <1>2. IInv /\ [Next]_vars =>
          [\A t \in Threads, c \in Calls :
             children[c] = "RecoveryRequired" =>
                /\ ~LetThrough(t)
                /\ Starts(t) => {c, task[t]} \subseteq Shared]_vars
    BY <1>1
  <1> QED  BY <1>2, Invariance, PTL DEF NothingAfterUncertain, Spec

(* A run that is not reported as RecoveryRequired has told the parent of   *)
(* every effect (FinalStatus: the evidence outranks the guest's word).     *)
THEOREM StatusIsAlwaysHonest == Spec => []StatusIsHonest
  <1>1. IInv => StatusIsHonest
    <2> SUFFICES ASSUME IInv, report.status \notin {"none", "RecoveryRequired"},
                        NEW c \in Calls \ panicked
                 PROVE  /\ c \in unproven => c \in exited
                        /\ c \in entered => report.children[c] # "none"
      BY DEF StatusIsHonest
    <2>1. /\ report.children = children /\ inFlight = {}
          /\ children[c] # "RecoveryRequired"
      BY DEF IInv, ReportIsFinal
    <2>2. \A t \in Threads : pc[t] \notin Admitted
      BY <2>1 DEF IInv, LaneIsHeld
    <2>3. \A t \in Threads : ~Owes(t, c) /\ ~Unsettled(t, c)
      BY <2>2 DEF Owes, Unsettled, Admitted, Inside
    <2> QED  BY <2>1, <2>3 DEF IInv, OutcomesAreOwed
  <1> QED  BY <1>1, Invariance, PTL

(* A slot whose capacity was given back belongs to a thread that is in no  *)
(* call and never enters one again (the order of busy and closed).         *)
THEOREM ReleasedIsAlwaysIdle == Spec => []ReleasedIsIdle
  <1>1. IInv => ReleasedIsIdle
    BY DEF IInv, SlotsAreSound
  <1> QED  BY <1>1, Invariance, PTL
=============================================================================
