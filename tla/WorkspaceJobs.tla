---------------------------- MODULE WorkspaceJobs ----------------------------
(***************************************************************************)
(* Background processes of an agent (jobs.rs, jobs/managed.rs and          *)
(* jobs/managed/restarts.rs) and the right to write the shared workspace   *)
(* (runtime/team.rs), under the cancellation tree.                         *)
(*                                                                         *)
(* A launch acquires the workspace for its dispatch, starts a supervised   *)
(* process, registers a job and hands the workspace over to it; the job    *)
(* gives it back when its process is reaped.  A managed process is shared  *)
(* by owners, is stopped with its last owner, and may be restarted when it *)
(* fails by a thread that keeps nothing alive itself: it looks for the     *)
(* scope of the owners in every round and leaves when that is gone.        *)
(* Locks: the job book's mutex (held throughout kill_all and the drop of   *)
(* an owner), the owners' mutex of a record; the others guard single steps.*)
(***************************************************************************)
EXTENDS CancelTree

CONSTANTS
    Jobs,        \* launches, each with the job it leads to
    Restarting,  \* those that are managed and restart
    Owners,      \* handles (Owner) of one Scope, each a lease of its processes
    MaxRestarts  \* options.restart.max_restarts

ASSUME JobsAssumption ==
    /\ Restarting \subseteq Jobs
    /\ Owners # {}
    /\ MaxRestarts \in Nat \ {0}

NoJob == "no job"
NoThread == "no thread"
User == "user"

ASSUME NoJobAssumption ==
    /\ NoJob \notin Jobs
    /\ {NoThread, User} \cap (Tokens \cup Owners) = {}
    /\ Tokens \cap Owners = {}

VARIABLES
    launch,    \* launch[j]: where the dispatch that launches j is
    holder,    \* whose lease holds the workspace
    handed,    \* WriteHolder::Job: the holder is a job, not a dispatch
    book,      \* jobs in the JobBook
    killer,    \* the thread that kills jobs with the book locked, or the
               \* owner that is dropped there
    toKill,    \* jobs it has still to look at
    status,    \* status[j]: JobStatus; "Over" for Exited and Killed
    ended,     \* jobs whose workspace claim is over (workspace_write.0)
    leased,    \* jobs that keep the lease (workspace_write.1)
    proc,      \* proc[j]: the process of j, and how it ended
    stopping,  \* jobs whose process is being stopped by its supervisor
    installed, \* jobs whose current process is the one kill would stop
    stopped,   \* Record.stopped
    alive,     \* handles that are not dropped; each keeps the Scope alive
    owners,    \* owners[j]: Owners.active
    restart,   \* restart[j]: where the restart thread of j is
    attempts,  \* attempts[j]: restarts so far
    asked      \* history: jobs that somebody was told are being stopped

spaceVars == <<holder, handed, ended, leased>>
bookVars == <<book, killer, toKill>>
procVars == <<proc, stopping, installed>>
recordVars == <<stopped, alive, owners, restart, attempts>>
vars == <<treeVars, launch, spaceVars, bookVars, procVars, recordVars, status, asked>>

TypeOK ==
    /\ TreeTypeOK
    /\ launch \in [Jobs -> {"idle", "held", "launched", "hand", "done"}]
    /\ holder \in Jobs \cup {NoJob} /\ handed \in BOOLEAN
    /\ \A s \in {book, toKill, ended, leased, stopping, installed, stopped, asked} : s \subseteq Jobs
    /\ killer \in Tokens \cup Owners \cup {NoThread, User}
    /\ alive \subseteq Owners
    /\ status \in [Jobs -> {"none", "Running", "Over"}]
    /\ proc \in [Jobs -> {"none", "up", "down", "failed"}]
    /\ owners \in [Jobs -> SUBSET Owners]
    /\ restart \in [Jobs -> {"none", "watch", "backoff", "fresh", "install",
                             "check", "finish", "gone", "vanished"}]
    /\ attempts \in [Jobs -> 0..MaxRestarts]

Init ==
    /\ TreeInit
    /\ launch = [j \in Jobs |-> "idle"]
    /\ holder = NoJob /\ handed = FALSE
    /\ book = {} /\ killer = NoThread /\ toKill = {}
    /\ status = [j \in Jobs |-> "none"]
    /\ ended = {} /\ leased = {}
    /\ proc = [j \in Jobs |-> "none"]
    /\ stopping = {} /\ installed = {} /\ stopped = {}
    /\ alive = Owners /\ owners = [j \in Jobs |-> {}]
    /\ restart = [j \in Jobs |-> "none"]
    /\ attempts = [j \in Jobs |-> 0]
    /\ asked = {}

-----------------------------------------------------------------------------

To(j, s) == launch' = [launch EXCEPT ![j] = s]

\* Drop of a SharedWriteLease.
Free == holder' = NoJob /\ handed' = FALSE

BookFree == killer = NoThread

\* ensure_active: the token of the runtime that owns the book.
Cancelled == BookToken \in flag

\* Job::kill stops the process that the job's supervisor field names.
Kill(js) == stopping' = stopping \cup (js \cap installed)

-----------------------------------------------------------------------------
(* A dispatch launches a background process.                               *)

\* The caller that starts a managed process.
Launcher == CHOOSE o \in Owners : TRUE

\* The calls on a handle are over before it is dropped.
Launching == \E j \in Restarting : launch[j] \in {"held", "launched"}

Usable(o) == o \in alive /\ killer # o

\* acquire_shared_write waits for a dispatch, gives up on a job.
Acquire(j) ==
    /\ launch[j] = "idle" /\ binding = "done"
    /\ j \in Restarting => Usable(Launcher)
    /\ \/ /\ Cancelled \/ handed
          /\ To(j, "done")
          /\ UNCHANGED spaceVars
       \/ /\ ~Cancelled /\ holder = NoJob
          /\ To(j, "held")
          /\ holder' = j
          /\ UNCHANGED <<handed, ended, leased>>
    /\ UNCHANGED <<treeVars, bookVars, procVars, recordVars, status, asked>>

\* Supervisor::spawn; the restart callback of a managed process is inert.
Launch(j) ==
    /\ launch[j] = "held"
    /\ To(j, "launched")
    /\ proc' = [proc EXCEPT ![j] = "up"]
    /\ status' = [status EXCEPT ![j] = "Running"]
    /\ UNCHANGED <<treeVars, spaceVars, bookVars, stopping, installed, recordVars, asked>>

\* The launch fails, or what follows it does: the dropped supervisor stops
\* its process, and the dropped lease frees the workspace meanwhile.
Abandon(j) ==
    /\ launch[j] \in {"held", "launched"}
    /\ To(j, "done")
    /\ Free
    /\ stopping' = IF proc[j] = "up" THEN stopping \cup {j} ELSE stopping
    /\ status' = [status EXCEPT ![j] = "none"]
    /\ UNCHANGED <<treeVars, ended, leased, bookVars, proc, installed, recordVars, asked>>

\* register_supervised, under the book's lock.
RegisterJob(j) ==
    /\ launch[j] = "launched" /\ j \notin Restarting /\ BookFree
    /\ To(j, "hand")
    /\ book' = book \cup {j}
    /\ installed' = installed \cup {j}
    /\ stopping' = IF Cancelled THEN stopping \cup {j} ELSE stopping
    /\ UNCHANGED <<treeVars, spaceVars, killer, toKill, proc, recordVars, status, asked>>

\* Mutant: the lease goes to the job whatever became of it.
HandBlindly(j) ==
    /\ handed' = TRUE
    /\ leased' = leased \cup {j}
    /\ UNCHANGED <<holder, ended>>

\* hold_shared_write: an ended job takes no lease, so the lease is dropped.
Hand(j) ==
    IF j \in ended
    THEN Free /\ UNCHANGED <<ended, leased>>
    ELSE /\ handed' = TRUE
         /\ leased' = leased \cup {j}
         /\ UNCHANGED <<holder, ended>>

HandOver(j) ==
    /\ launch[j] = "hand" /\ BookFree
    /\ To(j, "done")
    /\ Hand(j)
    /\ UNCHANGED <<treeVars, bookVars, procVars, recordVars, status, asked>>

\* spawn_reserved registers, hands over and starts the restart thread under
\* the book's lock, after ensure_active.
RegisterManaged(j) ==
    /\ launch[j] = "launched" /\ j \in Restarting /\ BookFree
    /\ ~Cancelled
    /\ To(j, "done")
    /\ book' = book \cup {j}
    /\ installed' = installed \cup {j}
    /\ owners' = [owners EXCEPT ![j] = {Launcher}]
    /\ restart' = [restart EXCEPT ![j] = "watch"]
    /\ Hand(j)
    /\ UNCHANGED <<treeVars, killer, toKill, proc, stopping, stopped, alive, attempts, status,
                   asked>>

\* Another caller starts the same command: acquire_live.
Reuse(j, o) ==
    /\ j \in book \cap Restarting /\ BookFree
    /\ Usable(o) /\ o \notin owners[j]
    /\ ~Cancelled
    /\ status[j] = "Running" /\ j \notin stopped
    /\ restart[j] \in {"finish", "gone"} => j \notin stopping
    /\ owners' = [owners EXCEPT ![j] = @ \cup {o}]
    /\ UNCHANGED <<treeVars, launch, spaceVars, bookVars, procVars, stopped, alive, restart,
                   attempts, status, asked>>

\* The last owner to leave stops the process under the owners' lock.
Leave(j, o) ==
    /\ owners' = [owners EXCEPT ![j] = @ \ {o}]
    /\ IF owners[j] \subseteq {o}
       THEN stopped' = stopped \cup {j} /\ Kill({j}) /\ asked' = asked \cup {j}
       ELSE UNCHANGED <<stopped, stopping, asked>>
    /\ UNCHANGED <<treeVars, launch, spaceVars, book, killer, proc, installed, alive, restart,
                   attempts, status>>

\* release: a call on a handle.
Release(j, o) ==
    /\ Usable(o) /\ o \in owners[j]
    /\ Leave(j, o)
    /\ UNCHANGED toKill

-----------------------------------------------------------------------------
(* Jobs are killed with the book locked: all of them, by the thread that   *)
(* cancels the book's token, or one, by job_kill.  The drop of an owner    *)
(* goes through the managed ones in the same way.                          *)

bookLocked == <<launch, spaceVars, book, procVars, recordVars, status, asked>>

KillAll(k) ==
    /\ At(k, "run") /\ BookFree
    /\ ToStep(k, "running")
    /\ killer' = k
    /\ toKill' = book
    /\ UNCHANGED <<flag, propagated, making, children, binding, callback, todo, bookLocked>>

UserKill(j) ==
    /\ j \in book \ asked /\ BookFree
    /\ killer' = User
    /\ toKill' = {j}
    /\ UNCHANGED <<treeVars, bookLocked>>

\* Mutant: killing a managed process stops the process and says no more.
KillUnmarked(j) == TRUE

\* Job::kill marks the record of a managed process before it stops the process.
Marked(j) == status[j] = "Running" /\ j \in Restarting => j \in stopped

MarkStopped(j) ==
    /\ j \in toKill /\ killer \notin Owners /\ ~Marked(j)
    /\ stopped' = stopped \cup {j}
    /\ UNCHANGED <<treeVars, launch, spaceVars, bookVars, procVars, alive, owners, restart,
                   attempts, status, asked>>

KillJob(j) ==
    /\ j \in toKill /\ killer \notin Owners /\ Marked(j)
    /\ toKill' = toKill \ {j}
    /\ IF status[j] = "Running" THEN Kill({j}) ELSE UNCHANGED stopping
    /\ asked' = asked \cup {j}
    /\ UNCHANGED <<treeVars, launch, spaceVars, book, killer, proc, installed,
                   recordVars, status>>

\* Drop for Owner.
DropOwner(o) ==
    /\ Usable(o) /\ BookFree
    /\ o = Launcher => ~Launching
    /\ killer' = o
    /\ toKill' = book \cap Restarting
    /\ UNCHANGED <<treeVars, bookLocked>>

LeaveJob(j) ==
    /\ j \in toKill /\ killer \in Owners
    /\ toKill' = toKill \ {j}
    /\ Leave(j, killer)

\* With the dropped handle its reference to the Scope goes.
UnlockBook ==
    /\ killer # NoThread /\ toKill = {}
    /\ killer' = NoThread
    /\ step' = [k \in Tokens |-> IF k = killer THEN "kids" ELSE step[k]]
    /\ alive' = alive \ {killer}
    /\ UNCHANGED <<flag, propagated, making, children, binding, callback, todo, toKill,
                   launch, spaceVars, book, procVars, stopped, owners, restart, attempts,
                   status, asked>>

-----------------------------------------------------------------------------
(* The supervisor and the operating system.                                *)

\* A process ends by itself, well or not, or because it is stopped.  Only a
\* restart tells a failure from an exit.
Exit(j, how) ==
    /\ proc[j] = "up"
    /\ how = "failed" => j \in Restarting \ stopping
    /\ proc' = [proc EXCEPT ![j] = how]
    /\ UNCHANGED <<treeVars, launch, spaceVars, bookVars, stopping, installed,
                   recordVars, status, asked>>

\* Mutant: every exit ends the job, also one that will be followed by a restart.
MayFinishOnExit(j) == proc[j] \in {"down", "failed"}

\* Who ends the job: the exit callback, or the restart thread.
MayFinish(j) ==
    IF j \in Restarting THEN restart[j] = "finish"
    ELSE proc[j] \in {"down", "failed"}

\* finish_shared: the claim and its lease first, ...
EndClaim(j) ==
    /\ MayFinish(j) /\ status[j] = "Running" /\ j \notin ended
    /\ ended' = ended \cup {j}
    /\ leased' = leased \ {j}
    /\ IF j \in leased THEN Free ELSE UNCHANGED <<holder, handed>>
    /\ UNCHANGED <<treeVars, launch, bookVars, procVars, recordVars, status, asked>>

\* ... then the status.
Publish(j) ==
    /\ status[j] = "Running" /\ j \in ended
    /\ status' = [status EXCEPT ![j] = "Over"]
    /\ restart' = [restart EXCEPT ![j] = IF j \in Restarting THEN "gone" ELSE @]
    /\ UNCHANGED <<treeVars, launch, spaceVars, bookVars, procVars, stopped, alive,
                   owners, attempts, asked>>

-----------------------------------------------------------------------------
(* The restart thread (restarts::supervise).                               *)

GoTo(j, s) == restart' = [restart EXCEPT ![j] = s]

\* `cancelled` takes the book's lock.
IsCancelled(j) == j \in stopped \/ owners[j] = {} \/ Cancelled

WatchStops(j) ==
    /\ restart[j] = "watch" /\ BookFree
    /\ IsCancelled(j)
    /\ ~(j \in stopped /\ j \in stopping)
    /\ stopped' = stopped \cup {j}
    /\ stopping' = stopping \cup {j}
    /\ UNCHANGED <<treeVars, launch, spaceVars, bookVars, proc, installed, alive,
                   owners, restart, attempts, status, asked>>

WatchExit(j) ==
    /\ restart[j] = "watch" /\ BookFree
    /\ proc[j] \in {"down", "failed"}
    /\ GoTo(j, IF proc[j] # "failed" \/ IsCancelled(j) \/ attempts[j] >= MaxRestarts
               THEN "finish" ELSE "backoff")
    /\ UNCHANGED <<treeVars, launch, spaceVars, bookVars, procVars, stopped, alive,
                   owners, attempts, status, asked>>

\* authorize during the backoff; then the spawn, which may fail.
GiveUp(j) ==
    /\ restart[j] = "backoff"
    /\ GoTo(j, "finish")
    /\ UNCHANGED <<treeVars, launch, spaceVars, bookVars, procVars, stopped, alive,
                   owners, attempts, status, asked>>

\* The authorization passes; a stop may come before the process is started.
Authorize(j) ==
    /\ restart[j] = "backoff" /\ BookFree
    /\ ~IsCancelled(j)
    /\ GoTo(j, "fresh")
    /\ UNCHANGED <<treeVars, launch, spaceVars, bookVars, procVars, stopped, alive,
                   owners, attempts, status, asked>>

Respawn(j) ==
    /\ restart[j] = "fresh"
    /\ attempts' = [attempts EXCEPT ![j] = @ + 1]
    /\ \/ /\ proc' = [proc EXCEPT ![j] = "up"]
          /\ installed' = installed \ {j}
          /\ stopping' = stopping \ {j}
          /\ GoTo(j, "install")
       \/ GoTo(j, "finish") /\ UNCHANGED procVars
    /\ UNCHANGED <<treeVars, launch, spaceVars, bookVars, stopped, alive, owners, status,
                   asked>>

\* The second authorization, which may fail for other reasons, too; then the
\* new process takes the old one's place under the owners' lock.
Install(j) ==
    /\ restart[j] = "install" /\ BookFree
    /\ \E refused \in BOOLEAN :
          /\ IsCancelled(j) => refused
          /\ stopped' = IF refused THEN stopped \cup {j} ELSE stopped
    /\ installed' = installed \cup {j}
    /\ GoTo(j, "check")
    /\ UNCHANGED <<treeVars, launch, spaceVars, bookVars, proc, stopping, alive, owners,
                   attempts, status, asked>>

\* The places in a round where the thread has the Scope for certain.
Restarts == {"backoff", "fresh", "install", "check"}

\* A handle has the Scope, or another restart thread at one of `places`.
ScopeLives(j, places) == alive # {} \/ \E i \in Jobs \ {j} : restart[i] \in places

\* A stop during the spawn must stop the new process, too.  Then the next
\* round begins, unless the Scope has gone with this one.
Check(j) ==
    /\ restart[j] = "check"
    /\ stopping' = IF j \in stopped THEN stopping \cup {j} ELSE stopping
    /\ GoTo(j, IF ScopeLives(j, Restarts \cup {"watch"}) THEN "watch" ELSE "vanished")
    /\ UNCHANGED <<treeVars, launch, spaceVars, bookVars, proc, installed, stopped,
                   alive, owners, attempts, status, asked>>

\* The wait of a round is over without an exit and the Scope is gone: the
\* thread returns, and the job keeps its status and the workspace.
Vanish(j) ==
    /\ restart[j] = "watch" /\ ~ScopeLives(j, Restarts)
    /\ GoTo(j, "vanished")
    /\ UNCHANGED <<treeVars, launch, spaceVars, bookVars, procVars, stopped, alive,
                   owners, attempts, status, asked>>

-----------------------------------------------------------------------------

LaunchStep(j) ==
    \/ Acquire(j) \/ Launch(j) \/ Abandon(j) \/ RegisterJob(j) \/ HandOver(j)
    \/ RegisterManaged(j)

RestartStep(j) ==
    WatchStops(j) \/ WatchExit(j) \/ GiveUp(j) \/ Authorize(j) \/ Respawn(j)
    \/ Install(j) \/ Check(j) \/ Vanish(j)

ExitStep(j) == \E how \in {"down", "failed"} : Exit(j, how)

KillStep == UnlockBook \/ \E j \in Jobs : MarkStopped(j) \/ KillJob(j) \/ LeaveJob(j)

\* A thread of the tree that touches no job.
OnlyTree == UNCHANGED <<launch, spaceVars, bookVars, procVars, recordVars, status, asked>>

Next ==
    \/ (MakeStep \/ \E k \in Tokens : BeginCancel(k) \/ CancelStep(k)) /\ OnlyTree
    \/ \E k \in Tokens : KillAll(k)
    \/ KillStep
    \/ \E o \in Owners : DropOwner(o)
    \/ \E j \in Jobs :
          \/ LaunchStep(j) \/ RestartStep(j) \/ ExitStep(j)
          \/ EndClaim(j) \/ Publish(j) \/ UserKill(j)
          \/ \E o \in Owners : Reuse(j, o) \/ Release(j, o)

\* What has begun goes on: threads inside an operation, kills, processes that
\* are being stopped.  Nobody has to cancel, launch, release, drop or exit.
Progress ==
    \/ (PushCallback \/ \E t \in Tokens : PushChild(t) \/ CancelStep(t)) /\ OnlyTree
    \/ \E k \in Tokens : KillAll(k)
    \/ KillStep
    \/ \E j \in Jobs :
          \/ launch[j] # "idle" /\ LaunchStep(j)
          \/ RestartStep(j)
          \/ j \in stopping /\ ExitStep(j)
          \/ EndClaim(j) \/ Publish(j)

\* These steps are finitely many in a behaviour, so fairness of them together,
\* which is weaker than fairness of every thread, is enough.
Spec == Init /\ [][Next]_vars /\ WF_vars(Progress)

-----------------------------------------------------------------------------
(* Properties.                                                             *)

\* A registered job whose process lives holds the workspace, through its
\* dispatch or by itself, from the registration over every restart to the
\* last exit: no other writer gets in between (acquire_shared_write: "at most
\* one shared-workspace mutation runs at a time").
WriterHolds == \A j \in book : proc[j] = "up" => holder = j

\* The workspace is never held by a job that is over: neither a job that
\* ended before the lease reached it (hold_shared_write) nor one that has
\* told its end (finish_shared: "Release its workspace ownership before
\* publishing the terminal status").  It goes by the status: a job whose
\* restart thread has vanished stays Running (ExitFreesWorkspace).
HolderIsAlive == handed => holder \in book /\ status[holder] = "Running"

\* Once job_kill, kill_all, the release by the last owner or its drop has
\* returned, the process ends and no restart brings it back, wherever the
\* restart thread was (supervise: "A stop/revocation during spawn must also
\* stop the newly owned lifetime").  `asked` and `flag` only grow: what a member
\* of theirs leads to for good, the system reaches for good (<>[]).
StopSticks == <>[](\A j \in asked : proc[j] # "up")

\* A job that can still end: its restart thread has not left without it.
Attended(j) == restart[j] # "vanished"

\* Cancelling the root of the tree ends every process below it for good, and
\* no job whose restart thread is there keeps the workspace, also when the
\* child token, its callback or the job was just being made (child_token,
\* on_cancel, register_supervised).
CancelEnds ==
    <>[](Root \in flag =>
            \A j \in Jobs : proc[j] # "up" /\ (holder = j => ~Attended(j)))

\* A job with the workspace whose process has ended gives it back, or starts
\* its next process (StartOptions.shared_workspace: "the process holds the
\* shared workspace write lease until it exits").  The code does not keep it:
\* the restart thread leaves with the Scope (Vanish).
ExitFreesWorkspace ==
    \A j \in Jobs : j \in leased /\ proc[j] # "up" ~> j \notin leased \/ proc[j] = "up"
=============================================================================
