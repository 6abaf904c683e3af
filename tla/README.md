# A verification development for davinci

TLA+ models of the parts of `davinci` (a coding-agent harness in Rust, the
workspace under `src/`) whose correctness depends on the order of durable
writes, crashes, locks and concurrent actors; TLC configurations that check them on
small instances; and TLAPS proofs, for every value of the constants, of the
safety properties that the runs check and of both refinements. Source paths below are relative to
`src/crates/davinci-agent/src/` unless they begin with `docs/` or `davinci-`.

    tlc -workers 2 -config JournalRetry.cfg MCOperationJournal   # a run
    tlapm OperationJournalProofs.tla                             # proofs, likewise
                                                                 # for each *Proofs.tla

`PROJECT.json` lists the runs with their properties, the mutant that shows each
property is about the code, the source lines of every definition, the hazards
and the findings.

## 1. The system

A user talks to an **agent**. The agent asks a **provider** (a language model)
for a message; the message may contain tool calls; the agent runs them and
sends the results back, until the model answers without calls. Tools edit
files, run processes, call external servers, start child agents. Around this
loop the program keeps four durable stores: the operation journal (SQLite), the
session file (JSONL), the transaction store (JSON records and a marker) and
the runtime's own stores (tasks, mailbox, workflow, budget). No transaction
spans two of them, which is where most of the difficulty lies.

### Components

| component | state | operations | what makes it correct |
|---|---|---|---|
| operation journal (`runtime/operations`) | rows of operations, attempts, owners, dispatch claims, resource claims, outbox | admit, authorize, queue, claim, latch, complete, cancel, fence, retry, recover, supersede | an effect is never started twice for one caller key; conflicting effects never overlap; an uncertain effect keeps its claim; history is not rewritten |
| recovery classifier (`runtime/operations/inspector.rs`, `planner.rs`) | none | a decision table over a stored attempt | an uncertain effect is never proposed for a retry |
| result publication (`turn.rs`, `lib.rs`) | outbox, session file, conversation in memory | project, acknowledge, replay, answer open calls, navigate | each call has one result, after its call and before the next prompt, on disk and for the provider; a committed result is used |
| session store (`davinci-session`) | tree of entries, leaf | append, append once, open, read a branch | an entry hangs below the leaf of its writer; reopening reads back what was appended |
| transactional edits (`runtime/transactions`) | records, `active.json`, staged files | preview, apply, rollback, verify, observe a commit | several files change in one step or not at all; the user's own edits survive |
| agent turn (`turn.rs`, `scheduler.rs`, `batch.rs`, `codemode`) | conversation, prepared calls | prompt, respond, run a batch | order of results, cancellation |
| file mutation queue, sandbox, permission | per-path locks, policy | lock, authorize | one writer per path |
| task store (`runtime/tasks.rs`, `task_store.rs`) | tasks with revisions, receipts | create, claim, complete, release | a claim is exclusive and its repetition is answered by its receipt |
| cancellation, registry, control (`runtime/cancellation.rs`, `registry.rs`, `control.rs`) | tree of tokens with callbacks, lifecycle state of every agent | cancel, make a child, hang a callback, move a state, steer | what is below a cancelled token stops, also what is just being made; an ended agent stays ended |
| mailbox (`runtime/mailbox.rs`, `bus.rs`, `session.rs`) | a queue per agent, receipts, reserved ids, the runtime log | send, steer, drain, put back, apply, withdraw, reject, rehydrate | no message lost or given twice, none out of order, none delivered that its sender was told is refused |
| capacity, worker admission (`runtime/capacity.rs`, `worker_admission.rs`) | permits, waiters | acquire, release, expire | bounds hold, an exclusive request runs alone and is served |
| codemode scripts (`codemode/dispatch.rs`, `codemode_host/supervisor.rs`) | calls in flight, outcomes of children, callback slots | ask, admit, dispatch, record, close, report | the status tells the parent of every effect; nothing starts after an uncertain one; a run ends though a tool hangs |
| root budget | reservations | reserve, reconcile | never overspent, nothing reserved for ever |
| workflow executor | graph of steps, journal | schedule, retry, resume | dependencies, one outcome per step |
| jobs, processes (`jobs.rs`, `jobs/managed.rs`, `davinci-sys`) | job book, supervised processes, owners, restarts | launch, share, release, kill, restart, reap | what was stopped stays stopped; none left behind |
| subagents and teams (`subagent.rs`, `runtime/team.rs`) | roster, saved results, lease on the shared workspace, worktrees | launch, report, retry, go idle, stop, acquire, hand over | a launch is delivered once (in the journal); no result is forgotten; one writer in the workspace |
| contracts, evidence, completion | evidence records | record, decide | no completion without evidence |
| checkpoints, rewind | snapshots | take, rewind | a rewind restores what the turn changed |
| context and cache | cached fills, flights | get, fill, invalidate | one fill at a time, no stale answer |
| providers, MCP, server, client, protocol, TUI, CLI, extensions, evals, telemetry | connections, views | I/O and presentation | - |

### How they interact

The turn hands a call to `ToolOperationRuntime` (`runtime/operations/adapters`),
which takes it through the journal one SQLite transaction at a time and runs the
tool's action between the latch and the completion. `complete_for_session`
commits the outcome and an outbox row together. The turn then projects the row
into the session file and acknowledges it. The next prompt replays rows that a
crash left pending. Several sessions of a workspace, each with a process and
the lease of its own root namespace, share one journal database; that is how
two agents that edit the same file meet. Mutating tools edit files directly or
by a transaction, which is serialised by the lease of the transaction store.

A script is one call of the turn: its guest runs in a host process, asks over a
pipe for calls, and callback threads dispatch them through the same gates as
the turn's own. A dispatch that writes the shared workspace takes its lease
first; when it leaves a background process behind, the lease moves to the job
and comes back when the process is reaped. A teammate is a thread with a turn
loop of its own. It talks to the lead through the mailbox, whose messages and
lifecycle states are rebuilt from one log after a restart. Cancelling a
runtime's token cancels those below it and kills the jobs of its book.

### What is hard here

* Every arrow of `persist -> authorize -> queue -> claim -> latch -> action ->
  complete` is a transaction of its own: other threads, other sessions, a
  cancellation, a fence of the owner or a crash may come between any two.
* After the latch nobody knows whether the effect happened.
* Two stores without a common transaction: journal and session, record and
  files.
* Decisions under one lock and their effects under another: a send looks at its
  recipient and then queues, a restart is authorized and then spawned, a token
  is checked and then a child is registered.
* Two answers to one fact: a message's queue and its receipt, a callback slot
  and its thread, a lease and its job, memory and log.
* Tools, processes and guests that never return.
* Identities and windows: an outbox is read 64 rows at a time; a transaction
  recognises its files by identity, and the absence of a file has none.

Section 6 lists what the models leave out; the hazards in `PROJECT.json` point at
the lines, including those of components not modelled yet.

## 2. Plan

Done in this development so far, in this order:

1. `OperationJournal`, its abstraction `EffectBarrier` with the mapping in
   `OperationBarrier`, and `OperationJournalProofs`.
2. `ResultPublication`.
3. `TransactionalEdit` and its abstraction `AtomicEdit`.
4. `AgentMailbox` and, over it, `TeamRuntime`: the mailbox in the hands of a
   lead, its teammates and the host.
5. `DispatchLane` and, over it, `ScriptRun`.
6. `CancelTree` and, over it, `WorkspaceJobs`.
7. Theorems: of every safety invariant of the runs, of the safety action
   properties, and of both refinements (section 5).

To do, most important first:

8. Verification and commit of transactions (`verification.rs`, `commit.rs`): a
   receipt is bound to the images it saw, while edits and a rollback go on; a
   commit is observed outside the lease.
9. `TaskStore`: claims against an expected revision, receipts, dependencies.
   Abstract specification: an atomic register of claims. Run: two workers, two
   tasks, a repeated request, a restart.
10. `RootBudget` and `WorkerAdmission`: reservations of unknown cost, a waiter
    that expires while its slot is handed over.
11. Background scripts (`codemode/background.rs`, `runs.rs`, `recovery.rs`) over
    `ScriptRun`; `SingleFlight`; `Workflow`.
12. `RecoveryClassifier` as an operator, checked against the states that
    `OperationJournal` reaches.

Modules are written to be proved about as well: constants with named
assumptions, one action per operation, no `RECURSIVE`.

| module | extends / instantiates | role |
|---|---|---|
| `OperationJournal` | | the journal and the host threads that use it |
| `EffectBarrier` | | what the journal promises the workspace |
| `OperationBarrier` | `OperationJournal`, `EffectBarrier` | the refinement mapping |
| `OperationJournalProofs` | `OperationJournal`, TLAPS | theorems about the journal |
| `OperationBarrierProofs` | `OperationBarrier`, `OperationJournalProofs` | the journal implements the barrier |
| `MCOperationJournal` | `OperationBarrier` | plans of calls for TLC |
| `SequenceFilter` | | the elements of a sequence that a condition keeps |
| `SequenceProofs` | `SequenceFilter`, TLAPS | lemmas about queues, their order and their filters |
| `ResultPublication` | `SequenceFilter` | outbox, session file and conversation |
| `ResultPublicationProofs` | `ResultPublication`, `SequenceProofs` | theorems about the publication |
| `MCResultPublication` | `ResultPublication` | messages and scripts for TLC |
| `AtomicEdit` | | what a transactional edit promises |
| `TransactionalEdit` | `AtomicEdit` | preview, apply, rollback, and the mapping |
| `TransactionalEditProofs` | `TransactionalEdit`, `SequenceProofs` | theorems about edits, and the refinement |
| `MCTransactionalEdit` | `TransactionalEdit` | two transactions for TLC |
| `AgentMailbox` | | mailbox, lifecycle states and the log they are rebuilt from |
| `TeamRuntime` | `AgentMailbox` | lead, teammates, host, restart |
| `TeamRuntimeProofs` | `TeamRuntime`, `SequenceProofs` | theorems about mailbox and team |
| `MCTeamRuntime` | `TeamRuntime` | a lead and one teammate for TLC |
| `DispatchLane` | | permits, first in first out, shared and exclusive |
| `ScriptRun` | `DispatchLane` | one run of a script, from its first call to its status |
| `ScriptRunProofs` | `ScriptRun`, `SequenceProofs` | theorems about lane and run |
| `MCScriptRun` | `ScriptRun` | three calls and two threads for TLC |
| `CancelTree` | | a tree of cancellation tokens under concurrent growth |
| `WorkspaceJobs` | `CancelTree` | jobs, restarts and the lease on the workspace |
| `WorkspaceJobsProofs` | `WorkspaceJobs`, TLAPS | theorems about the lease |
| `MCWorkspaceJobs` | `WorkspaceJobs` | two tokens and two jobs for TLC |

## 3. The models

### 3.1 OperationJournal

State. `attempts[o][n]` is the stored record of attempt n of operation o
(`operation_attempts`: state, effect status, revision, owner, outcome,
cancellation request, whether evidence is stored), `latest` their number,
`activeOwner` the row of `operation_owners`, `dispatch` the dispatch claim and
its latch, `held` the unresolved rows of `operation_effect_claims`. `call[t]` is
what a host thread holds in memory: the operation, and the revision and owner
its handle or permit was made for. `effects` counts calls of the adapter's
action; it exists for the properties only.

Actions. One per transaction: `PersistIntent` (admit), `AuthorizeIntent`,
`QueueIntent`, `ClaimDispatch`, `LatchEffectStart`, `Complete`,
`CancelBeforeStart`, `RequestCancellation`, `ResponseLost`/`ReportLoss`,
`QuiesceOwner` and `FenceOwner`, `RecoverUnstartedDispatch`, `AdmitRetry`, `ScheduleRecovered`,
`Interrupt`, `RequireRecovery`, `FinalizeRecovered*`, `BlockRecovery`,
`Supersede`; and the host's own steps `InvokeAction`, `ActionReturns`,
`DenyDispatch`, `Refuse`, `ReportDenied`. `Crash(r)` ends the process that
holds root namespace r: its threads forget what they did, the rows stay.

Abstractions.
* A session is its root namespace; a child agent runs in that of its parent.
* Deliveries of one caller key carry the same request; the code refuses others
  by their digest, which is a comparison of data.
* The effect statuses the code never tells apart are folded (`CompletedEffect`).
* Consuming the permit and calling the action are one step (`InvokeAction`):
  `EffectPermit::dispatch` does both under one call, and a crash between them
  looks like a crash before the action.
* A fence asks a callback whether the owner is quiescent, and only then opens the
  transaction that replaces the owner (`coordinator.rs:244`, `246-290`): two steps,
  between which a permit may be latched and its action begin. `quiesced` says
  that the answer was given and not yet used. The model takes the callback at its
  word: `Quiescent` says that no action of that operation is in progress.
* `Interrupt` has the same condition as a guard, which is not in
  `transitions.rs:181-190`: an assumption on the host, whose recovery runs when the
  owner's process is gone.
* A refused transaction changes nothing and is no action, except where the
  refusal moves its thread.
* A commit whose answer is lost poisons the handle, which is what `Crash` does.
* The verification and publication sub-states, approvals, capacity limits,
  migrations and the contents of evidence are left out.

### 3.2 EffectBarrier and OperationBarrier

The abstract specification knows neither attempts nor owners nor threads:
operations begin (once per caller key, never beside an unsettled conflicting
one that is not their parent), are invoked, and get one outcome. The mapping
reads `begun` off the durable latches and `barrier` off the unresolved claims.

### 3.3 ResultPublication

State. `outbox`/`acked` are the rows of the consumer; `file`, `leaf` the session
tree; `messages` what the provider would be sent; `phase`, `queue`, `got`,
`todo`, `fresh` where the agent is in its turn.

Actions. `Prompt` begins a turn with the replay (`ReadOutbox`,
`AppendProjection`, `Acknowledge`, `RejectProjection`), `Repair` answers what is
still open, `Ask` appends the prompt and, after the drop of duplicates, asks the
provider. `Respond` appends an assistant message; `Invoke`, `Deny`, `Commit`,
`LoseCommit` are the parallel ends of its calls; `Deliver` publishes results in
the order of the calls. `JournalRefuses`, `Crash` and `Navigate` (another
branch) may come between.

Abstractions. `Batches` holds no call twice (`PublicationAssumption`). An append that
fails makes the agent refuse turns until the session is reopened, which `Crash` stands
for. A message's text is its answer's kind.
Calls run by the host, branch summaries, compaction, a call id issued twice,
calls that an aborted batch never started, and the repair of a torn last line
are left out.

### 3.4 TransactionalEdit and AtomicEdit

State. `disk` holds an image per file: its content and, for a restored file, the
rollback that put it there, which is what the inode and its metadata tell
the code. `state`, `before`, `staged`, `restored` are the durable record,
`marker` is `active.json`, `writer` the operation that holds the lease with what
it still has to do.

Actions. `Capture` and `SavePreview` (preview); `StartApply`, `CheckSource`,
`BeginApply`, `SaveApplying`, `Replace`, `ReplaceFails`, `Recheck`,
`RecheckSource`, `SaveApplied`, `Finish` (apply); `StartRollback`, `Inspect`,
`BeginRollback`, `SaveRollingBack`, `Restore`, `RestoreFails`,
`RecheckRollback`, `RecheckRestored`, `SaveRolledBack` (rollback). `Crash` is the
death of the process and also every failed check or durable write after which the code
returns its error and keeps what is durable. `UserEdits` is another program. Two history
variables serve the properties only: `newer[t]` are the files the user touched since
t captured them, `gone` the files that are missing because the user deleted them.

Abstractions. The last check of a file and the rename after it are one step:
the documentation leaves that race to the user
(docs/transactional-edits.md:61-64). The Unix build: no file alias is pending.
The record names one restored identity per file. Not modelled: verification,
commits, capacity, path receipts, who may adopt a record, legacy journals.

`AtomicEdit` says what the owner of the files sees: `Put` replaces all the files
of a transaction in one step, over exactly the contents it was prepared from, and
`Undo` takes them back in one step, while files the user wrote or deleted since
(`newer`) may be kept. Under the mapping, a file that a half-done transaction has replaced
counts with the content its rollback restores; so `Put` happens when `Applied`
is saved, `Undo` when `RollingBack` is (or when a rollback that has published
its marker ends in a conflict), and everything between is invisible.

### 3.5 AgentMailbox and TeamRuntime

State of the mailbox. `queue[a]`, `receipt[m]` and `seen` are `AgentMailbox`;
`state[a]` is the registry's record; `call[a]` is a send between its first checks
and the lifecycle lock, `hand[a]` what a drain returned and nobody has marked
applied. The runtime log is kept as the value that rehydration would fold from
it (`journal`, `order`, `known`), because that is all anybody reads of it.
`given` and `denied` are history.

State of the team. `pc[w]` is the teammate's thread; `recorded`, `kept` and
`pending` are a result in the log, in the roster, and without a confirmed
notification; `todo` is the lead's retry in progress.

Actions. `Reserve` (the id, the recipient, whether it is idle) begins a send.
What follows holds the lifecycle lock, `lock`: `Publish` takes it for room, the
record and the queue. The registry has a lock of its own, so the recipient may be
stopped, end or go idle before it is looked at (a steering command looks only
now) and before it is woken: `KeepLock` and `FreeLock` are the look, the wake,
the second look after a refused one, and the withdrawal, whose record may be lost
(`TryWake`, `EndWake` in the team; a command begins with `Steer`). A report needs
no wake: the lead is never idle.
`Drain`, `Apply`, `RejectUndelivered` and `Rehydrate`
are one operation each. The teammate runs `EndTurn`, `BeginSend`,
`CompleteSend`, `GoIdle`, `Receive`, `Read`, `Resume`, one of the `Leave`s,
`ExitReport`, `Finish`, `EmitEnd`. The lead has `LeadDrain`, `LeadStatus`,
`RetrySettled`, `BeginRetry`, `CompleteRetry`, `LeadRead`, `BeginNote`,
`CompleteNote`. The host spawns, steers and stops. `Restart` ends the process
and rebuilds a new one.

Each append to the log is written, refused and cut away, or fails with an
unknown outcome, after which the writer refuses all others.

`DeliveredInOrder` excepts a steering command that is sent again: when the record of
its rejection was lost, the log keeps the place it had before, and the rebuilt queue
puts it there.

Abstractions. Generations are left out. When a teammate leaves by itself
(failures, idle deadline, a cancelled session) is free. The batch sizes of wake
and retry are one `Batch`, the retry takes all that is pending. The eviction
of old results is left out. The records of states that are not final do not
change what rehydration makes of an agent. The records of one rejection are
all written or all lost. That a reserved id is in use and that its receipt is
unconfirmed are one check of the retry. The locals of a thread that ended are
reset.

### 3.6 DispatchLane and ScriptRun

State. `tickets`, `permits`, `exclusive` are the counts of a
`WorkerSlotCapacity`. `pc`, `task`, `result` are a callback thread, `slot` and
`busy` its `CallbackWorkerSlot`; `host`, `pending`, `tasks`, `replies` the loop of
the run; `terminal`, `inFlight`, `children` the broker's `RunState`; `unproven`
are the effects the journal holds for possible or unknown, `exited` the commands
that answered with an exit status.

Actions. The loop: `Ask`, `ReadReply`, `GuestFinishes`, `SeeCancel`,
`HostFails`. A thread: `Take`, `StartCall` or `Quit`, `Admit`, `EnterLane` or
`GiveUpLane`, `Recheck`, `Deny` or `StartTool`, `Settle`, `Leave`, `Reply`. The
tool: `ToolReturns` or `ToolPanics`, or nothing. An answer is a value, a failure
with a settled effect, the status of a command, which the broker takes for its
outcome without asking the journal (`failed_command`), or one that leaves recovery
to do: an effect that cannot be proved, or a persistence or replay marker, which a
read-only call may carry too and a refusal (`Deny`) as well. The end: `CutOff`, `EndSlot`, `CloseBroker`,
`StopWaiting`, `Report`. `Cancel` and `Revoke` come from outside.

Abstractions. The verdict "Stopped" is a failed or a cancelled run, the outcome
"Failed" one that proves no unknown effect. Bytes are three `Sizes`: a value fits,
exceeds the bound of a child, or the budget of the run. Admission and the ticket of the lane are one step: between them a
thread only runs its own code. The broker's bound on calls in flight is never
reached, because the loop's bound on unanswered calls is the same number.

### 3.7 CancelTree and WorkspaceJobs

State. `flag` and `propagated` are the two flags of a token; `making` and
`binding` say how far `child_token` and `bind_job_book` have come; `todo[k]` is
the stack of the thread that cancels token k. `holder` and `handed` are
`WriteHolder`; `ended` and `leased` the two halves of a job's
`workspace_write`; `book` the job book and `killer` who holds it locked to kill;
`proc`, `stopping` and `installed` the process, the request to its supervisor to
stop it, and whether a kill would reach it; `stopped`, `owners`, `restart`,
`attempts` the record of a managed process and its restart thread; `alive` the
owners' handles, which with the restart threads inside a round keep the `Scope` alive.

Actions. `CheckParent`/`PushChild`, `NameOwner`/`CheckFlag`/`PushCallback`, and
`BeginCancel`, `CancelNext`, `TakeCallbacks`, `KillAll`, `TakeChildren` for the
thread that cancels. A dispatch: `Acquire`, `Launch`, `RegisterJob` and
`HandOver`, or `RegisterManaged`, or `Abandon`. Owners: `Reuse`, `Release`; and `DropOwner`, with `LeaveJob` for each process of
the dropped handle under the book's lock. A kill: `UserKill` or `KillAll`, then `MarkStopped` and `KillJob` per job and
`UnlockBook`. A process: `Exit`, `EndClaim`, `Publish`. The restart thread:
`WatchStops`, `WatchExit`, `GiveUp`, `Authorize`, `Respawn`, `Install`, `Check`,
and `Vanish`: the thread holds weak references between its rounds and returns
without ending the job once the `Scope` is gone. `HolderIsAlive` goes by the status, so
it says nothing of the lease such a job keeps; section 7 does.

Abstractions. Only supervised jobs: a launch without a supervisor gets no lease
(`turn.rs:3385`). Storing the flag and claiming the propagation are one step. A
dispatch without a background process is an `Abandon` before the launch. An
exit with code 0 and one by a stop are not told apart. All owners share one
`Scope`; `shutdown`, which closes it and kills its processes while handles
remain, is left out (`new_session` is a shutdown followed by the drop). The book is empty when
it is bound, and it is not bound again to a later runtime. A job's token does
not exist: jobs are stopped through the book.

## 4. The runs

Bounds are named constants. `CHECK_DEADLOCK FALSE` is given everywhere, because
each of these systems may stop: all calls are over, the bound on prompts is
reached, all transactions are rolled back, all agents and jobs are gone.

| run | instance | what it shows |
|---|---|---|
| `JournalConflict` | 2 threads, a batch that claims everything, its child edit, a rival edit of another session; one owner, one attempt | conflicting actions never overlap (`ExclusiveActions`), an uncertain effect keeps its claim (`UncertainKeepsClaim`); `EffectBarrier` is implemented, with its conflicts (`ImplementsBarrier`) |
| `JournalRetry` | one child launch delivered twice under one caller key, 2 owners, 2 attempts | `AtMostOneEffect`, `SuccessWasDispatched`, `RetryLineage`, `TerminalIsFinal`; an owner may be fenced while its action runs, and then reaches nothing of its attempt (`FencedAttemptIsFrozen`); `EffectBarrier` is implemented, with its keys |
| `Publication` | two messages: an edit with a read, then a script with a call of its own; 2 prompts | every call is answered once, with its committed result, children first, before the next prompt; every replay ends |
| `PublicationBranch` | one message, a read and a script; a journal that may refuse; branches; 3 prompts | the provider is sent pairs, no result is projected twice or lost |
| `EditRecovery` | 2 transactions over 3 files (a write, a deletion, a creation; two writes), two edits of the user, who may delete | `HalfDoneIsMarked`, `UserEditsSurvive`, and `AtomicEdit` is implemented |
| `TeamDelivery` | a lead and a teammate with 2 reports, a steering command tried twice, queues of 1, two failed appends, one restart | `GivenOnce`, `GivenIsJournaled`, `QueueMatchesReceipts`, `ResultAccounted`, `ReceiptForward`, `RefusedStaysOut`, with commands withdrawn after a failed wake |
| `TeamStop` | 3 reports, a note from the lead, queues of 2, drains of 2, one failed append, one restart | messages arrive in order (`DeliveredInOrder`), none that was refused (`RefusedStaysOut`); a stopped teammate ends (`StopEnds`) |
| `ScriptRun` | two reads and a command, 2 callback threads, 2 calls pending at most | `RunsAlone`, `StatusIsHonest`, `ReleasedIsIdle`; every run ends (`RunEnds`); an uncertain outcome, of a read too, lets no other call through (`NothingAfterUncertain`) |
| `WorkspaceJobs` | a shell job and a managed server that restarts once, with two owners; a worker's token, which owns the book, below the run's | `WriterHolds`, `HolderIsAlive`; stops stick (`StopSticks`), cancelling the run ends every process (`CancelEnds`) |
| `PublicationWindow`, `EditMarker`, `WorkspaceLease` | as above, smaller; one server with two owners and one token | the findings of section 7 |

Why these bounds are enough to be interesting. Two threads suffice for every
race of the journal, because each property relates two calls at most; the third
operation of `JournalConflict` is the parent, which is the only exception
to a conflict. Two owners and two attempts contain a fence between any two
transactions of a call and a retry after it; the launch claims no resource, so
only the journal, not a claim, stands against a second one. `Steered` limits
which operations are cancelled or superseded, to bound revisions: both in
`JournalRetry`, none in `JournalConflict`, so conflicts under cancellation, and
conflicts across owners, are left to the theorems of section 5. In the
publication the window of the outbox is 2 or 3 instead of 64, so that a script
fills it. In the edit one file is written by both transactions and one is
created by both, and the user's two edits may fall between any two steps; the
user may delete the file that is written and the one that a transaction deletes
(`Deletable`), the second being what the code cannot tell from its own deletion
(section 7). `EditMarker` needs one edit and one deletable file. The threads
of the journal are symmetric; nothing else is.

In `TeamDelivery` a queue of one is full as soon as a report waits, so the lead
retries against a full queue, against the first send and after the restart; a
failed append may hit any record. A second message in a drain exists only in
`TeamStop`, which is about order: three reports and a drain that hands over
one of two and puts the other back. Steering is left out of that run to keep it
short: it is in `TeamDelivery`, whose command may be withdrawn. The theorems of
section 5 cover the two together.

Two callback threads and three calls put an exclusive request before and behind
a shared one, let one read turn out uncertain beside the other, and leave a call
in the queue when the run ends. A second exclusive call would meet the first as
it meets a read; the theorems cover it. Two jobs are a writer and its rival, two
owners share the server; two tokens are a parent and a child that is being made,
with the book on the child; one restart contains every point at which a stop can
meet the restart thread. `StopSticks` and `CancelEnds` are written with `<>[]`:
the sets they speak of only grow, so they say the same as a leads-to for every
job, and are checked in a fraction of its time.

The passing runs have from 3,500 distinct states (`Publication`) to 1.9 million
(`TeamDelivery`); `ScriptRun` and `WorkspaceJobs` have more than a million. All exhaust
their instance.

`TypeOK` of `TransactionalEdit`, `TeamRuntime` and `ScriptRun` is proved (`TypeCorrect`)
and left out of their runs; that of `WorkspaceJobs` holds in the same instance.

Fairness.

* `ResultPublication` (`ReplayEnds`): weak fairness of `AgentStep`. The agent
  runs its prompt, the replay and the projections on one thread without
  waiting for anybody. Tools, the provider, the journal's refusals and the user
  are owed nothing.
* `TeamRuntime` (`StopEnds`): weak fairness of `WorkerStep(w)` for each
  teammate, which is a thread whose waits are bounded (`wait_for_pending`
  wakes every 100 ms to look for a stop). This includes that its turns end, which a
  turn of a stopped agent does because the stop cancels its token. And of
  `SenderStep`, a sender that holds the lifecycle lock, under which nothing waits.
  The lead and the host are owed nothing else.
* `ScriptRun` (`RunEnds`): weak fairness of the watchdog (`Cancel`, at the
  deadline), of the loop that polls every 10 ms (`SeeCancel`), of the closing steps
  and of each callback thread. Nothing of the guest or of the tools: a tool may
  hang for ever, and the run still ends.
* `WorkspaceJobs` (`StopSticks`, `CancelEnds`): weak fairness of `Progress`, the
  union of what has begun: threads inside an operation, kills, processes that
  are being stopped. In a behaviour these steps are finitely many, so
  fairness of the union is as good as fairness of each, and weaker to assume.
  Nobody has to cancel, launch, release, drop a handle or exit. It does not follow that
  a job gives the workspace back: `CancelEnds` promises that of jobs whose restart
  thread has not vanished (`Attended`), and `WorkspaceLease` shows the other ones.
* The journal states no liveness: no host calls `run_authorized`, the fence or
  the retry outside tests, so nothing obliges an interrupted effect to be
  finalized.

## 5. The proofs

Every safety property of a passing run is a theorem, for every value of the
constants that the named assumption of the module admits:

| module | theorem | states |
|---|---|---|
| `OperationJournalProofs` | `TypeCorrect` | `TypeOK` |
| | `NoDuplicateEffect` | `AtMostOneEffect` |
| | `NoConflictingActions` | `ExclusiveActions` |
| | `ClaimsSurvive` | `UncertainKeepsClaim` |
| | `NoInventedSuccess` | `SuccessWasDispatched` |
| | `RetriesAreProved` | `RetryLineage` |
| | `FencingFreezes` | `FencedAttemptIsFrozen` |
| | `OutcomesAreFinal` | `TerminalIsFinal` |
| `OperationBarrierProofs` | `JournalIsBarrier` | `ImplementsBarrier`, the refinement |
| `ResultPublicationProofs` | `TypeCorrect` | `TypeOK` |
| | `ProviderAlwaysSeesPairs` | `ProviderSeesPairs` |
| | `ProjectedAtMostOnce` | `ProjectedOnce` |
| | `AcknowledgedStaysInSession` | `AcknowledgedIsInSession` |
| | `ChildrenAlwaysFirst` | `ChildrenFirst` |
| | `AnsweredExactlyOnce` | `AnsweredOnce`, if `Steady` |
| | `AlwaysAnsweredBeforePrompt` | `AnsweredBeforePrompt`, if `Steady` |
| | `CommittedIsAlwaysUsed` | `CommittedIsUsed`, if `Steady` |
| `TransactionalEditProofs` | `TypeCorrect` | `TypeOK` |
| | `HalfDoneIsAlwaysMarked` | `HalfDoneIsMarked` |
| | `UserEditsAlwaysSurvive` | `UserEditsSurvive` |
| | `EditIsAtomic` | `ImplementsAtomicEdit`, the refinement |
| `TeamRuntimeProofs` | `TypeCorrect` | `TypeOK` |
| | `GivenOnceAlways` | `GivenOnce` |
| | `QueuesAlwaysMatch` | `QueueMatchesReceipts` |
| | `GivenIsAlwaysJournaled` | `GivenIsJournaled` |
| | `ResultsAlwaysAccounted` | `ResultAccounted` |
| | `RefusedAlwaysStaysOut` | `RefusedStaysOut` |
| | `AlwaysDeliveredInOrder` | `DeliveredInOrder` |
| | `ReceiptsMoveForward` | `ReceiptForward` |
| `ScriptRunProofs` | `TypeCorrect` | `TypeOK` |
| | `RunsAloneAlways` | `RunsAlone` |
| | `NothingStartsAfterUncertain` | `NothingAfterUncertain` |
| | `StatusIsAlwaysHonest` | `StatusIsHonest` |
| | `ReleasedIsAlwaysIdle` | `ReleasedIsIdle` |
| `WorkspaceJobsProofs` | `WriterAlwaysHolds` | `WriterHolds` |
| | `OneWriter` | two jobs never hold the lease |
| | `HolderIsAlwaysAlive` | `HolderIsAlive` |

Each module also proves `Invariance`, that its inductive invariant holds. The
assumptions are those that the modules name (`JournalAssumption`,
`PublicationAssumption`, `EditAssumption`, `MailboxAssumption`,
`TeamAssumption`, `LaneAssumption`, `ScriptAssumption`, `NoOneAssumption`,
`JobsAssumption`, `NoJobAssumption`, `TreeAssumption`): constants have their
types, null values are not members of the sets they extend, bounds are
positive, no call is in a plan twice. TLC evaluates them in the runs.

The proofs have one lemma per action, and under it one step per part of the
invariant; actions that change one row, thread or message go through common
lemmas. Only the few properties that are invariant by themselves are proved
without a strengthening. The inductive invariants, and why each part is there:

**Journal.** `RowsInv`: a row says what its dispatch claim and its owner allow
(`RowsAreSound`), attempts not yet stored are blank (`Unstored`), an attempt
before the latest is a proof that nothing started (`Closed`), owners only get
newer (`OwnersAge`). `ClaimsExclude`: two unresolved claims of different
operations do not overlap unless one is the parent of the other; only
`ClaimDispatch` adds a claim, and its guard is this fact. `CallsInv`: a permit
belongs to a claimed row of its revision and owner (`PermitsAreBacked`), no two
threads hold permits of one attempt (`PermitsAreUnique`), an effect that was
invoked has a durable latch (`EffectsAreLatched`), one operation is admitted per
caller key (`KeysAreUnique`). The refinement needs no more than this: a latch
belongs to the latest attempt, so it maps to the beginning of the operation,
which the barrier allows by `KeysAreUnique` and `ClaimsExclude`; every other
step maps to an outcome, an invocation or a stutter.

**Publication.** `SessionIsSound`, `OutboxIsSound` (a row once, children before
their parent, only of calls that were issued), `HandIsSound` (the batch in hand is
the latest, and a row of a call in hand was committed by this process),
`RowsAreInOrder` (what is being projected), `TalkIsSound` (how well paired the
conversation is in each phase). They hold on all branches and with a journal
that refuses. The last three theorems do not: they are conditional on `Steady`,
which says that the user keeps to one branch, the journal does not refuse, and
the window of the outbox holds the rows of one message with the calls inside
it. TLC refutes `AnsweredBeforePrompt` and `CommittedIsUsed` of an instance with
branches or a refusing journal, and `AnsweredOnce` of one whose window is too
small (`PublicationWindow`, a finding). The run `Publication` is an instance of
`Steady`. Its invariant `SteadyInv` says where the conversation and the file may
differ (`HeardIsFiled`: by the one result between its two writes, which a
replay files first and the turn says first), that calls are open in the last
message only (`OpenIsLast`), that a row of an open call was not projected
(`FileIsStraight`), and which rows may be pending in each phase
(`NothingIsLeft`, `HandIsCommitted`). From it the harness meets no row when it
answers a call.

**Edits.** `WriterIsMarked` (who is half done holds the marker), `FilesAreKnown`,
`GoneIsMissing`, `OwnersAreRecorded` (what a file holds is known to the record of
the transaction that wrote it). The attempt to prove the refinement showed that
it was false beyond the bounds it had been checked with: a user who deletes the
file a transaction deletes is not noticed. `gone` and `newer` were added to the
model for that, and the abstract step says what really happens (section 3.4).

**Team.** `ThreadsAreSound`, and of the mailbox `CallsAreSound` (what a sender
holds), `LockIsSound` (the message of a sender that is about to wake is queued),
`FreeIdsAreUnsent`, `LogAgrees` (the log and the receipts),
`OrderIsSound`, `QueuesAreSound`, `LinesAreInOrder` (what was given, is held and is
queued is one line in the order of sending), `DeniedIsOut`; and
`ResultAccounted`. The restart is the hard step: what rehydration makes of the
log must satisfy all of them again.

**Scripts.** `CallsAreApart`, `LaneIsHeld` (permits are those of the threads in
the lane), `OutcomesAreNew`, `ResultsAreSound`, `UncertainCloses` (an effect that
is not proved has closed admission), `OutcomesAreOwed`, `ReportIsFinal`,
`SlotsAreSound`. The permits are counted with the library's theorems about
finite sets.

**Jobs.** `OneLease`, `BookedJobsHold`, `EndedIsDown`. Nothing about the tree of
tokens is needed, nor of the owners: the lease is safe whatever is cancelled or
dropped when. That a restart thread vanishes breaks no part of it, because it ends
nothing.

What a recursive definition computes for every input is induction over data,
which the provers cannot take from the library, whose theorems have a predicate
as parameter. `SequenceProofs` replaces it by two lemmas about sets of numbers
(`LeastNumber`, `SetInduction`); with them `Keep`, `Pick`, `InsertAt`,
`FlattenSeq` and the lineage of a session are specified for all sequences, by the
least counterexample.

Model-checked only, because the prover handles neither liveness nor `ENABLED`:
`ReplayEnds`, `StopEnds`, `RunEnds`, `StopSticks` and `CancelEnds`.

## 6. Not modelled

`PROJECT.json` says of each component what is modelled, what is planned and what
is left out. Left out for good are: providers, wire protocols, the user
interface, evaluation and telemetry (presentation or I/O without state worth
checking), the permission policy and the selection of context (decision tables
and heuristics over text), git operations of worktrees, and the SQLite session
repository. The rest of the runtime is in the plan.

Of the modelled components, section 3 names what the models leave out. Three
consequences to keep in mind: the journal's claims are as good as the resources
a tool declares, which the model takes as given; and `Crash` in
`TransactionalEdit` keeps every durable write that returned, which a power
failure on Windows does not promise (docs/transactional-edits.md:64-65); and
`WorkspaceJobs` takes the supervisor at its word that a process it was told to
stop ends, which is the operating system's part.

## 7. Findings

Each has a run that ends in a counterexample, and an entry in `PROJECT.json` that
quotes the text it contradicts.

| run | where | what |
|---|---|---|
| `PublicationWindow` | `turn.rs:5677` | the 65th row of a script is outside the window, and the result is published twice |
| `EditMarker` | `runtime/transactions/mod.rs:706` | a crash before the removal of `active.json` leaves a marker that blocks every apply |
| `WorkspaceLease` | `jobs/managed/restarts.rs:142` | the restart thread leaves with the `Scope`, and its job keeps the workspace for ever |

Also noticed while modelling, without a run:

* A refused claim or latch is reported as denied and the attempt stays queued
  with its claim (`runtime/operations/adapters/tools.rs:180`), where
  docs/runtime/unified-execution.md:40-41 has denied operations cancelled.
* A caller key is never free again after a cancellation
  (`runtime/operations/coordinator.rs:64`), where `adapters/agents.rs:232-233`
  says that a later retry can admit the same child.
* After an append whose acknowledgement failed, the replay finds the entry,
  pushes no message, and the harness answers the call as unknown in memory
  (`turn.rs:5461-5481`).
* Rolling back a deletion that was never applied restores a file the user
  deleted (`runtime/transactions/mod.rs:555`).
* docs/runtime/unified-execution.md:28-29 asks for evidence before blocking;
  `BlockRecovery` (`transitions.rs:249`) has none.
* After a restart the lead, like every agent that was live, is restored as
  `Failed` (`runtime/events.rs:56`); `ensure_lead_registered` leaves a record that
  exists alone (`runtime/mod.rs:241-243`), so sends to the lead are refused and
  its pending results are never sent, where `mod.rs:239-240` wants it registered
  and `mailbox.rs:958-959` expects messages to be delivered again.
* A teammate that leaves at its idle deadline ends with the messages it was sent
  still queued and their receipts `queued` (`runtime/team.rs:733-740`): they are
  rejected only when the log is read again.
* The record of `Stopping` is written after the registry is unlocked
  (`runtime/registry.rs:250-261`), so it may follow the record of the end; the
  agent is then restored as `Failed`, not as `Completed`.
* A tool that panics inside a script's call leaves no outcome and does not close
  admission (`codemode/dispatch.rs:615`, `codemode_host/supervisor.rs:572-579`):
  `StatusIsHonest` has to set such calls apart.
* A command that acted and exited non-zero is taken for a success, because its
  status is taken for its outcome (`codemode/dispatch.rs:526-547`), while the
  journal holds its effect for unknown (`runtime/operations/adapters/tools.rs:255-263`):
  `StatusIsHonest` has to set such commands apart. The test at
  tests/codemode_contract.rs:447-448 has it that "an ambiguous effect is never
  success", of reconciliation, which these commands do not reach.
* A launch that fails after its process was started tells the supervisor to stop
  it (`jobs/supervisor/client.rs:344`) and drops the lease at once
  (`jobs/managed.rs:545-549`): another writer may start while the old process
  still runs. `WriterHolds` speaks of registered jobs for that reason.
