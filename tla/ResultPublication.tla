-------------------------- MODULE ResultPublication ---------------------------
(***************************************************************************)
(* How the result of a tool call gets from the operation journal into the  *)
(* conversation.  Two stores are written that no transaction spans: the    *)
(* journal (SQLite), where complete_for_session commits the result and an  *)
(* outbox row together, and the session file (JSONL), an append-only tree  *)
(* of entries whose leaf the agent extends.  The turn projects each row as *)
(* one entry and acknowledges it; what a crash left pending is replayed by *)
(* the next prompt, and a call without any result is answered by the       *)
(* harness ("Outcome unknown", "Not executed").                            *)
(*                                                                         *)
(* One agent owns the session, so its steps are sequential; what comes     *)
(* between them is the parallel end of tool calls, a crash of the process, *)
(* a journal that refuses, and a user who moves to another branch.  Each   *)
(* action is one durable write (or one read that decides) with the memory  *)
(* changes that follow it.  A session append that fails makes the agent    *)
(* refuse every turn until the session is reopened, as Crash does.         *)
(***************************************************************************)
EXTENDS Naturals, Sequences, FiniteSets, SequencesExt, SequenceFilter

CONSTANTS
  Calls,           \* tool calls, each issued once
  Batches,         \* Batches[k]: the calls of the k-th assistant message
  Parent,          \* Parent[c]: the batch or codemode call that c runs inside
  ReadOnly,        \* calls whose success is recorded as KnownNoEffect
  NoCall,
  Window,          \* MAX_OUTBOX_BATCH_SIZE: rows one read of the outbox returns
  JournalMayFail,  \* the journal may refuse a read, a commit or an acknowledgement
  MayNavigate,     \* the user moves between branches
  MaxPrompts       \* bound on the prompts

Issued == UNION {Elements(Batches[k]) : k \in DOMAIN Batches}

ASSUME PublicationAssumption ==
  /\ NoCall \notin Calls
  /\ Parent \in [Calls -> Calls \cup {NoCall}]
  /\ Batches \in Seq(Seq(Calls))
  /\ \A k, l \in DOMAIN Batches : \A i \in DOMAIN Batches[k], j \in DOMAIN Batches[l] :
       Batches[k][i] = Batches[l][j] => k = l /\ i = j
  /\ Issued = {c \in Calls : Parent[c] = NoCall}
  /\ \A c \in Calls \ Issued : Parent[c] \in Issued
  /\ ReadOnly \subseteq Calls
  /\ Window \in Nat \ {0} /\ MaxPrompts \in Nat
  /\ {JournalMayFail, MayNavigate} \subseteq BOOLEAN

-----------------------------------------------------------------------------
VARIABLES
  effect,    \* attempts: effect status of each call, "none" before admission
  outbox,    \* operation_outbox: the calls with a row, in commit order
  acked,     \* the rows that are acknowledged
  file,      \* the session file
  leaf,      \* leaf_id: the entry the next one is appended to, 0 for none
  messages,  \* the conversation the provider would be sent
  phase,     \* where the agent is in its turn
  queue,     \* calls of the batch whose results are not yet delivered
  got,       \* how far each call of the batch is in this process
  todo,      \* rows read from the outbox and not yet projected
  fresh,     \* the call whose projection was appended and not acknowledged
  prompts    \* prompts so far (bound)

journal == <<effect, outbox, acked>>
session == <<file, leaf>>
turn == <<queue, got, prompts>>
vars == <<effect, outbox, acked, file, leaf, messages, phase, queue, got, todo, fresh, prompts>>

Answers == {"none", "actual", "denied", "lost", "unknown", "notExecuted", "stopped"}

Message == [kind : {"prompt", "assistant", "result"}, batch : 0..Len(Batches),
            call : Calls \cup {NoCall}, answer : Answers]

(* "child" is the custom entry operation_result, which is no message;      *)
(* "event" tells an entry whose id is the operation's event id.            *)
Entry == [kind : {"prompt", "assistant", "result", "child"}, batch : 0..Len(Batches),
          call : Calls \cup {NoCall}, answer : Answers, event : BOOLEAN, parent : Nat]

Prompted == [kind |-> "prompt", batch |-> 0, call |-> NoCall, answer |-> "none"]
Reply(k) == [kind |-> "assistant", batch |-> k, call |-> NoCall, answer |-> "none"]
Result(c, a) == [kind |-> "result", batch |-> 0, call |-> c, answer |-> a]

(* Mutant: the leaf moves before the entry takes its parent.               *)
AppendEntryBelowItself(m, kind, event) ==
  /\ leaf' = Len(file) + 1
  /\ file' = Append(file, [kind |-> kind, batch |-> m.batch, call |-> m.call,
                           answer |-> m.answer, event |-> event, parent |-> Len(file) + 1])

(* append_entry: the entry hangs below the leaf and becomes the leaf.      *)
AppendEntry(m, kind, event) ==
  /\ file' = Append(file, [kind |-> kind, batch |-> m.batch, call |-> m.call,
                           answer |-> m.answer, event |-> event, parent |-> leaf])
  /\ leaf' = Len(file) + 1

(* The entries from the root to entry i of session f.                      *)
Lineage(f, i) ==
  LET path[k \in 0..Len(f)] == IF k = 0 THEN <<>> ELSE Append(path[f[k].parent], k)
  IN path[i]

(* messages_from_session.                                                  *)
History(f, i) ==
  LET path == Keep(Lineage(f, i), {k \in 1..Len(f) : f[k].kind # "child"})
  IN [k \in 1..Len(path) |->
        [kind |-> f[path[k]].kind, batch |-> f[path[k]].batch,
         call |-> f[path[k]].call, answer |-> f[path[k]].answer]]

CallsOf(m) == IF m.kind = "assistant" /\ m.batch > 0 THEN Batches[m.batch] ELSE <<>>

(* The calls issued, and those answered, before message n.                 *)
IssuedBefore(s, n) == UNION {Elements(CallsOf(s[i])) : i \in 1..(n - 1)}
AnsweredBefore(s, n) == {s[i].call : i \in {j \in 1..(n - 1) : s[j].kind = "result"}}

IssuedIn(s) == IssuedBefore(s, Len(s) + 1)
AnsweredIn(s) == AnsweredBefore(s, Len(s) + 1)

(* unresolved_tool_calls.                                                  *)
Unresolved(s) == IssuedIn(s) \ AnsweredIn(s)

(* drop_duplicate_tool_results: the first result answered the call.        *)
DropDuplicates(s) ==
  Pick(s, {i \in 1..Len(s) : s[i].kind = "result" => s[i].call \notin AnsweredBefore(s, i)})

(* Mutant: an orphan stays in the conversation.                            *)
WithholdNothing(s) == s

(* reject_orphan_tool_results: a result without its call is withheld when  *)
(* the journal knows the operation.  Every result that can be an orphan    *)
(* here came out of the journal, so the refusal is not modelled.           *)
Withhold(s) ==
  Pick(s, {i \in 1..Len(s) : s[i].kind = "result" => s[i].call \in IssuedBefore(s, i)})

Pending == Keep(outbox, Calls \ acked)

(* pending_outbox_for_consumer_and_session.                                *)
PendingRows == IF Len(Pending) <= Window THEN Pending ELSE SubSeq(Pending, 1, Window)

Projected(c) == {i \in 1..Len(file) : file[i].event /\ file[i].call = c}
OnLineage(c) == Projected(c) \cap Elements(Lineage(file, leaf)) # {}

NotStarted == [c \in Calls |-> "none"]

Init ==
  /\ effect = [c \in Calls |-> "none"]
  /\ outbox = <<>> /\ acked = {}
  /\ file = <<>> /\ leaf = 0 /\ messages = <<>>
  /\ phase = "idle" /\ queue = <<>> /\ got = NotStarted
  /\ todo = <<>> /\ fresh = NoCall /\ prompts = 0
-----------------------------------------------------------------------------
(* The prompt.  prompt_with_origin first closes the calls a restart left   *)
(* unanswered (phases "closing" and "closed"), ignoring an error, then     *)
(* appends the prompt; run_loop_inner replays the outbox ("replaying"),    *)
(* closes again ("reconciling", "reconciled") and goes to the provider.    *)

Replaying == {"closing", "replaying", "reconciling"}

(* Mutant: the calls are answered before the outbox is replayed.           *)
PromptRepairsFirst ==
  /\ phase = "idle"
  /\ prompts < MaxPrompts
  /\ prompts' = prompts + 1
  /\ phase' = IF Unresolved(messages) = {} THEN "asking" ELSE "closed"
  /\ UNCHANGED <<journal, session, messages, queue, got, todo, fresh>>

(* Mutant: the prompt is appended below unanswered calls.                  *)
PromptUnclosed ==
  /\ phase = "idle"
  /\ prompts < MaxPrompts
  /\ prompts' = prompts + 1
  /\ phase' = "asking"
  /\ UNCHANGED <<journal, session, messages, queue, got, todo, fresh>>

Prompt ==
  /\ phase = "idle"
  /\ prompts < MaxPrompts
  /\ prompts' = prompts + 1
  /\ phase' = IF Unresolved(messages) = {} THEN "asking" ELSE "closing"
  /\ UNCHANGED <<journal, session, messages, queue, got, todo, fresh>>

Ask ==
  /\ phase = "asking"
  /\ AppendEntry(Prompted, "prompt", FALSE)
  /\ messages' = Withhold(DropDuplicates(Append(messages, Prompted)))
  /\ phase' = "replaying"
  /\ UNCHANGED <<journal, turn, todo, fresh>>

(* recover_pending_operation_publications: read a window of rows, project  *)
(* them all, read again, until none is pending.                            *)
ReadOutbox ==
  /\ phase \in Replaying /\ todo = <<>>
  /\ \/ /\ PendingRows # <<>>
        /\ todo' = PendingRows
        /\ UNCHANGED <<messages, phase>>
     \/ /\ PendingRows = <<>>
        /\ messages' = IF phase = "replaying" THEN Withhold(messages) ELSE messages
        /\ phase' = CASE phase = "closing" -> "closed"
                      [] phase = "reconciling" -> "reconciled"
                      [] OTHER -> IF Unresolved(messages') = {} THEN "provider" ELSE "reconciling"
        /\ UNCHANGED todo
  /\ UNCHANGED <<journal, session, turn, fresh>>

(* reconcile_unresolved_tool_calls, one call at a time: the last message   *)
(* with an unanswered call, its calls in order, each answer inserted after *)
(* the results that follow the message.  Only at the tail of the session   *)
(* is the answer durable.                                                  *)
RepairAnswer(c) ==
  IF effect[c] \in {"none", "NotStarted", "KnownNoEffect"} THEN "notExecuted" ELSE "unknown"

Repair ==
  /\ phase \in {"closed", "reconciled"}
  /\ \/ LET assistants == {i \in 1..Len(messages) : messages[i].kind = "assistant"}
            open == {i \in assistants : Elements(CallsOf(messages[i])) \cap Unresolved(messages) # {}}
        IN \E i \in open :
             /\ \A j \in open : j <= i
             /\ LET c == Head(Keep(CallsOf(messages[i]), Unresolved(messages)))
                    ends == {j \in i + 1..Len(messages) : messages[j].kind # "result"}
                    at == IF ends = {} THEN Len(messages) + 1
                          ELSE CHOOSE j \in ends : \A k \in ends : j <= k
                    m == Result(c, RepairAnswer(c))
                    durable == at = Len(messages) + 1 /\ \A j \in assistants : j <= i
                IN /\ messages' = InsertAt(messages, at, m)
                   /\ IF durable THEN AppendEntry(m, "result", FALSE) ELSE UNCHANGED session
             /\ UNCHANGED phase
     \/ /\ Unresolved(messages) = {}
        /\ phase' = IF phase = "closed" THEN "asking" ELSE "provider"
        /\ UNCHANGED <<session, messages>>
  /\ UNCHANGED <<journal, turn, todo, fresh>>
-----------------------------------------------------------------------------
(* The projection of a row, in a replay or in the turn that produced it    *)
(* (phase "projecting").  Its entry carries the event id of the attempt.   *)

(* An error of the replay ends the run, or is ignored while closing; an    *)
(* error of the turn fails it (fail_turn): in memory every open call gets  *)
(* an answer.                                                              *)
Stopped(s) ==
  LET dangling == FlattenSeq([i \in 1..Len(s) |-> Keep(CallsOf(s[i]), Unresolved(s))])
  IN s \o [i \in 1..Len(dangling) |-> Result(dangling[i], "stopped")]

GiveUp(s) ==
  /\ phase' = IF phase = "closing" THEN "asking" ELSE "idle"
  /\ messages' = IF phase \in Replaying THEN s ELSE Stopped(s)
  /\ todo' = <<>> /\ fresh' = NoCall
  /\ queue' = <<>> /\ got' = NotStarted

Projecting == phase \in Replaying \cup {"projecting"} /\ todo # <<>>

(* Mutant: the entry is looked for on the current branch only.             *)
UnprojectedOnBranch(c) == ~OnLineage(c)

Unprojected(c) == Projected(c) = {}

(* Mutant: the row is acknowledged before its entry is appended.           *)
AcknowledgeFirst ==
  /\ Projecting /\ fresh = NoCall
  /\ LET c == Head(todo) IN
       /\ Unprojected(c)
       /\ \/ c \notin acked /\ acked' = acked \cup {c} /\ UNCHANGED <<session, fresh>>
          \/ /\ c \in acked
             /\ AppendEntry(Result(c, "actual"), IF Parent[c] = NoCall THEN "result" ELSE "child", TRUE)
             /\ fresh' = c
             /\ UNCHANGED acked
  /\ UNCHANGED <<effect, outbox, messages, phase, turn, todo>>

AppendProjection ==
  /\ Projecting /\ fresh = NoCall
  /\ LET c == Head(todo) IN
       /\ Unprojected(c)
       /\ AppendEntry(Result(c, "actual"), IF Parent[c] = NoCall THEN "result" ELSE "child", TRUE)
       /\ fresh' = c
  /\ UNCHANGED <<journal, messages, phase, turn, todo>>

Advance ==
  /\ todo' = Tail(todo)
  /\ fresh' = NoCall
  /\ IF phase = "projecting" /\ Len(todo) = 1
     THEN phase' = "tools" /\ queue' = Tail(queue)
     ELSE UNCHANGED <<phase, queue>>
  /\ UNCHANGED <<effect, outbox, session, got, prompts>>

(* A replayed result joins the conversation unless its call has one.       *)
Join(c) ==
  messages' = IF phase \in Replaying /\ fresh = c /\ Parent[c] = NoCall
                   /\ c \notin AnsweredIn(messages)
              THEN Append(messages, Result(c, "actual")) ELSE messages

(* Mutant: a row whose entry is already there is not acknowledged.         *)
AcknowledgeFresh ==
  /\ Projecting
  /\ LET c == Head(todo) IN
       /\ OnLineage(c)
       /\ acked' = IF fresh = c THEN acked \cup {c} ELSE acked
       /\ Join(c)
  /\ Advance

Acknowledge ==
  /\ Projecting
  /\ LET c == Head(todo) IN
       /\ OnLineage(c)
       /\ acked' = acked \cup {c}
       /\ Join(c)
  /\ Advance

(* An entry of the event that is not on the current lineage is an error.   *)
RejectProjection ==
  /\ Projecting /\ fresh = NoCall
  /\ ~Unprojected(Head(todo)) /\ ~OnLineage(Head(todo))
  /\ GiveUp(messages)
  /\ UNCHANGED <<journal, session, prompts>>

Deliverable == phase = "tools" /\ \A c \in Elements(queue) : got[c] \notin {"none", "running"}
Said == Append(messages, Result(Head(queue), got[Head(queue)]))

(* The journal refuses the read or the acknowledgement (lock, disk).       *)
JournalRefuses ==
  /\ JournalMayFail
  /\ \/ phase \in Replaying /\ todo = <<>> /\ GiveUp(messages)
     \/ Projecting /\ OnLineage(Head(todo)) /\ GiveUp(messages)
     \/ Deliverable /\ queue # <<>> /\ GiveUp(Said)
  /\ UNCHANGED <<journal, session, prompts>>
-----------------------------------------------------------------------------
(* The turn: the provider answers, the calls run side by side, and when    *)
(* all have ended their results are delivered one by one.                  *)

NextBatch == 1 + Cardinality({i \in 1..Len(file) : file[i].kind = "assistant" /\ file[i].batch > 0})

Respond ==
  /\ phase = "provider"
  /\ \/ /\ NextBatch <= Len(Batches)
        /\ AppendEntry(Reply(NextBatch), "assistant", FALSE)
        /\ messages' = Append(messages, Reply(NextBatch))
        /\ phase' = "tools"
        /\ queue' = Batches[NextBatch]
     \/ /\ AppendEntry(Reply(0), "assistant", FALSE)
        /\ messages' = Append(messages, Reply(0))
        /\ phase' = "idle"
        /\ UNCHANGED queue
  /\ got' = NotStarted
  /\ UNCHANGED <<journal, todo, fresh, prompts>>

(* The calls of the batch in hand and those that run inside them.          *)
InHand(c) ==
  \/ c \in Elements(queue)
  \/ Parent[c] \in Elements(queue) /\ got[Parent[c]] = "running"

Invoke(c) ==
  /\ phase = "tools" /\ InHand(c) /\ got[c] = "none"
  /\ got' = [got EXCEPT ![c] = "running"]
  /\ effect' = [effect EXCEPT ![c] = "Possible"]
  /\ UNCHANGED <<outbox, acked, session, messages, phase, queue, todo, fresh, prompts>>

Deny(c) ==
  /\ phase = "tools" /\ InHand(c) /\ got[c] = "none"
  /\ got' = [got EXCEPT ![c] = "denied"]
  /\ effect' = [effect EXCEPT ![c] = "NotStarted"]
  /\ UNCHANGED <<outbox, acked, session, messages, phase, queue, todo, fresh, prompts>>

Ended(c) == \A d \in Calls : Parent[d] = c => got[d] # "running"

(* complete_for_session: outcome and row in one transaction.               *)
Commit(c) ==
  /\ phase = "tools" /\ got[c] = "running" /\ Ended(c)
  /\ got' = [got EXCEPT ![c] = "actual"]
  /\ effect' = [effect EXCEPT ![c] = IF c \in ReadOnly THEN "KnownNoEffect" ELSE "Possible"]
  /\ outbox' = Append(outbox, c)
  /\ UNCHANGED <<acked, session, messages, phase, queue, todo, fresh, prompts>>

(* The outcome cannot be stored: the tool result blocks the conversation.  *)
LoseCommit(c) ==
  /\ JournalMayFail
  /\ phase = "tools" /\ got[c] = "running" /\ Ended(c)
  /\ got' = [got EXCEPT ![c] = "lost"]
  /\ UNCHANGED <<journal, session, messages, phase, queue, todo, fresh, prompts>>

(* Mutant: the parent's row goes before those of its children.             *)
OwnRowFirst(c) == <<c>> \o Keep(PendingRows, {d \in Calls : Parent[d] = c})

(* persist_operation_chat_result: the rows of the call's children that are *)
(* in the window, then its own.                                            *)
RowsOf(c) == Append(Keep(PendingRows, {d \in Calls : Parent[d] = c}), c)

(* persist_chat of the next result: its rows are projected, or, without a  *)
(* row in the window, it is appended as an ordinary message.               *)
Deliver ==
  /\ Deliverable
  /\ \/ /\ queue = <<>>
        /\ phase' = "provider"
        /\ UNCHANGED <<session, messages, queue, got, todo, fresh>>
     \/ /\ queue # <<>>
        /\ LET c == Head(queue)
           IN CASE got[c] = "lost" -> GiveUp(Said) /\ UNCHANGED session
                [] got[c] # "lost" /\ c \in Elements(PendingRows) ->
                     /\ todo' = RowsOf(c)
                     /\ messages' = Said
                     /\ phase' = "projecting"
                     /\ UNCHANGED <<session, queue, got, fresh>>
                [] OTHER ->
                     /\ AppendEntry(Result(c, got[c]), "result", FALSE)
                     /\ messages' = Said
                     /\ queue' = Tail(queue)
                     /\ UNCHANGED <<phase, got, todo, fresh>>
  /\ UNCHANGED <<journal, prompts>>
-----------------------------------------------------------------------------
(* The process dies and the session is reopened: the leaf is the last      *)
(* entry of the file, the conversation is read back from its lineage.      *)
Crash ==
  /\ phase # "idle" \/ messages # History(file, Len(file))
  /\ leaf' = Len(file)
  /\ messages' = History(file, Len(file))
  /\ phase' = "idle" /\ queue' = <<>> /\ got' = NotStarted
  /\ todo' = <<>> /\ fresh' = NoCall
  /\ UNCHANGED <<journal, file, prompts>>

(* navigate_tree_entry: the leaf moves in memory only.                     *)
Navigate(i) ==
  /\ MayNavigate
  /\ phase = "idle"
  /\ leaf' = IF file[i].kind = "prompt" THEN file[i].parent ELSE i
  /\ leaf' # leaf
  /\ messages' = History(file, leaf')
  /\ UNCHANGED <<journal, file, phase, turn, todo, fresh>>

AgentStep ==
  \/ Ask \/ ReadOutbox \/ Repair
  \/ AppendProjection \/ Acknowledge \/ RejectProjection

Next ==
  \/ Prompt \/ AgentStep \/ JournalRefuses \/ Respond \/ Deliver \/ Crash
  \/ \E c \in Calls : Invoke(c) \/ Deny(c) \/ Commit(c) \/ LoseCommit(c)
  \/ \E i \in 1..Len(file) : Navigate(i)

(* The agent runs its prompt and its projections on one thread without     *)
(* waiting for anyone; tools, the provider and the user owe nothing.       *)
Spec == Init /\ [][Next]_vars /\ WF_vars(AgentStep)
-----------------------------------------------------------------------------
(* Properties.                                                             *)

TypeOK ==
  /\ effect \in [Calls -> {"none", "NotStarted", "Possible", "KnownNoEffect"}]
  /\ outbox \in Seq(Calls) /\ acked \subseteq Elements(outbox)
  /\ file \in Seq(Entry) /\ \A i \in 1..Len(file) : file[i].parent < i
  /\ leaf \in 0..Len(file)
  /\ messages \in Seq(Message)
  /\ phase \in Replaying \cup {"idle", "asking", "closed", "reconciled", "provider",
                               "tools", "projecting"}
  /\ queue \in Seq(Calls) /\ todo \in Seq(Calls) /\ fresh \in Calls \cup {NoCall}
  /\ got \in [Calls -> {"none", "running", "actual", "denied", "lost"}]
  /\ prompts \in 0..MaxPrompts

(* What goes to the provider is paired: every call has one result, after   *)
(* its assistant message, and every result has its call.                   *)
ProviderSeesPairs ==
  phase = "provider" =>
    /\ IssuedIn(messages) \subseteq AnsweredIn(messages)
    /\ \A i \in 1..Len(messages) : messages[i].kind = "result" =>
         messages[i].call \in IssuedBefore(messages, i) \ AnsweredBefore(messages, i)

(* append_entry_once: over crashes and replays, the result of an operation *)
(* is one entry of the session, on whatever branch.                        *)
ProjectedOnce == \A c \in Calls : Cardinality(Projected(c)) <= 1

(* An acknowledged row is in the session: a crash between the append and   *)
(* the acknowledgement may repeat work but never lose a result.            *)
AcknowledgedIsInSession == \A c \in acked : Projected(c) # {}

(* On no branch is a call answered twice: neither by a replay after the    *)
(* harness's own answer nor by an ordinary message beside its projection.  *)
AnsweredOnce ==
  \A i, j \in 1..Len(file) :
    /\ file[i].kind = "result" /\ file[j].kind = "result"
    /\ file[i].call = file[j].call
    /\ i < j
    => i \notin Elements(Lineage(file, j))

(* prompt_with_origin: a call is answered before the next prompt, so the   *)
(* result stays adjacent to its call in the session.                       *)
AnsweredBeforePrompt ==
  \A i \in 1..Len(file) : file[i].kind = "prompt" =>
    IssuedIn(History(file, i)) \subseteq AnsweredIn(History(file, i))

(* The result of a batch follows those of the calls that ran inside it.    *)
ChildrenFirst ==
  \A c \in Elements(outbox) : Parent[c] # NoCall /\ Projected(Parent[c]) # {} =>
    \E i \in Projected(c) : \A j \in Projected(Parent[c]) : i < j

(* A call whose result is committed is answered with it: the harness       *)
(* neither says "Outcome unknown" nor "Not executed" of it.                *)
CommittedIsUsed ==
  \A i \in 1..Len(messages) :
    messages[i].answer \in {"unknown", "notExecuted"} => messages[i].call \notin Elements(outbox)

(* The replay of the outbox ends, whatever rows and entries it finds.      *)
ReplayEnds == phase \in Replaying ~> phase \in {"provider", "idle"}
=============================================================================
