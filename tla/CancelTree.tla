----------------------------- MODULE CancelTree -----------------------------
(***************************************************************************)
(* CancellationToken (runtime/cancellation.rs): a tree of flags.  cancel   *)
(* stores the flag, claims the propagation with a swap, runs the callbacks *)
(* of the token and then cancels its children one after the other, depth   *)
(* first, on the caller's thread.  Meanwhile other threads make children   *)
(* and register callbacks.                                                 *)
(*                                                                         *)
(* The job book is the one callback of the model: bind_job_book hangs it   *)
(* on the token of the runtime that owns the book.                         *)
(***************************************************************************)
EXTENDS Naturals, Sequences, FiniteSets, SequencesExt

CONSTANTS
    Tokens,    \* tokens of the tree, and the threads that cancel them
    Root,      \* the token that is there from the start
    ParentOf,  \* ParentOf[t]: where t is made; the root is its own parent
    BookToken  \* the token the job book is bound to

ASSUME TreeAssumption ==
    /\ {Root, BookToken} \subseteq Tokens
    /\ ParentOf \in [Tokens -> Tokens]

VARIABLES
    flag,       \* tokens whose flag is stored
    propagated, \* tokens whose propagation is claimed
    making,     \* making[t]: how far child_token(t) has come
    children,   \* tokens on the children list of their parent
    binding,    \* how far bind_job_book has come
    callback,   \* is the job book's callback on the token's list?
    todo,       \* todo[k]: tokens the cancelling thread k has still to cancel
    step        \* step[k]: what it does next for the first of them

treeVars == <<flag, propagated, making, children, binding, callback, todo, step>>

TreeTypeOK ==
    /\ flag \subseteq Tokens /\ propagated \subseteq Tokens /\ children \subseteq Tokens
    /\ making \in [Tokens -> {"no", "checked", "made"}]
    /\ binding \in {"no", "owner", "checked", "done"}
    /\ callback \in BOOLEAN
    /\ todo \in [Tokens -> Seq(Tokens)]
    /\ step \in [Tokens -> {"idle", "take", "run", "running", "kids",
                            "flag", "done"}]

TreeInit ==
    /\ flag = {} /\ propagated = {} /\ children = {}
    /\ making = [t \in Tokens |-> IF t = Root THEN "made" ELSE "no"]
    /\ binding = "no"
    /\ callback = FALSE
    /\ todo = [k \in Tokens |-> <<>>]
    /\ step = [k \in Tokens |-> "idle"]

-----------------------------------------------------------------------------
(* child_token: the flag of the parent is read and the child is pushed     *)
(* under the parent's children lock.                                       *)

\* Mutant: the flag is read before the lock is taken.
ChildrenUnlocked(p) == FALSE

ChildrenLocked(p) == \E t \in Tokens : ParentOf[t] = p /\ making[t] = "checked"

CheckParent(t) ==
    /\ making[t] = "no"
    /\ making[ParentOf[t]] = "made"
    /\ ~ChildrenLocked(ParentOf[t])
    /\ IF ParentOf[t] \in flag
       THEN /\ flag' = flag \cup {t}
            /\ propagated' = propagated \cup {t}
            /\ making' = [making EXCEPT ![t] = "made"]
       ELSE /\ making' = [making EXCEPT ![t] = "checked"]
            /\ UNCHANGED <<flag, propagated>>
    /\ UNCHANGED <<children, binding, callback, todo, step>>

PushChild(t) ==
    /\ making[t] = "checked"
    /\ making' = [making EXCEPT ![t] = "made"]
    /\ children' = children \cup {t}
    /\ UNCHANGED <<flag, propagated, binding, callback, todo, step>>

-----------------------------------------------------------------------------
(* on_cancel does the same for callbacks.                                  *)

\* bind_job_book names the owner under the book's lock.
NameOwner ==
    /\ binding = "no" /\ making[BookToken] = "made"
    /\ binding' = "owner"
    /\ UNCHANGED <<flag, propagated, making, children, callback, todo, step>>

\* On a cancelled token the callback would run at once: the book is empty then.
CheckFlag ==
    /\ binding = "owner"
    /\ binding' = IF BookToken \in flag THEN "done" ELSE "checked"
    /\ UNCHANGED <<flag, propagated, making, children, callback, todo, step>>

PushCallback ==
    /\ binding = "checked"
    /\ binding' = "done"
    /\ callback' = TRUE
    /\ UNCHANGED <<flag, propagated, making, children, todo, step>>

-----------------------------------------------------------------------------
(* cancel.                                                                 *)

Current(k) == Head(todo[k])

At(k, s) == step[k] = s

ToStep(k, s) == step' = [step EXCEPT ![k] = s]

\* The thread goes on with the first token of `list`.
GoOn(k, list) ==
    /\ todo' = [todo EXCEPT ![k] = list]
    /\ ToStep(k, IF list = <<>> THEN "done" ELSE "flag")

\* The flag is stored and the propagation is claimed with a swap.  One thread
\* propagates a cancellation; any other one passes the token over.
CancelFirst(k, list) ==
    /\ flag' = flag \cup {Head(list)}
    /\ propagated' = propagated \cup {Head(list)}
    /\ IF Head(list) \in propagated
       THEN GoOn(k, Tail(list))
       ELSE todo' = [todo EXCEPT ![k] = list] /\ ToStep(k, "take")
    /\ UNCHANGED <<making, children, binding, callback>>

BeginCancel(k) ==
    /\ At(k, "idle") /\ making[k] = "made"
    /\ CancelFirst(k, <<k>>)

CancelNext(k) ==
    /\ At(k, "flag")
    /\ CancelFirst(k, todo[k])

\* The callbacks are taken from the list under its lock.
TakeCallbacks(k) ==
    /\ At(k, "take")
    /\ IF Current(k) = BookToken
       THEN /\ binding # "checked"
            /\ ToStep(k, IF callback THEN "run" ELSE "kids")
            /\ callback' = FALSE
       ELSE ToStep(k, "kids") /\ UNCHANGED callback
    /\ UNCHANGED <<flag, propagated, making, children, binding, todo>>

\* The children registered by now, in any order.
Kids(t) == {c \in children : ParentOf[c] = t}

TakeChildren(k) ==
    /\ At(k, "kids")
    /\ ~ChildrenLocked(Current(k))
    /\ GoOn(k, SetToSeq(Kids(Current(k))) \o Tail(todo[k]))
    /\ UNCHANGED <<flag, propagated, making, children, binding, callback>>

MakeStep ==
    \/ \E t \in Tokens : CheckParent(t) \/ PushChild(t)
    \/ NameOwner \/ CheckFlag \/ PushCallback

CancelStep(k) ==
    CancelNext(k) \/ TakeCallbacks(k) \/ TakeChildren(k)
=============================================================================
