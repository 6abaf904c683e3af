---------------------------- MODULE DispatchLane ----------------------------
(***************************************************************************)
(* WorkerSlotCapacity (runtime/capacity.rs): permits handed out first in,  *)
(* first out.  A shared request runs beside other shared ones up to a      *)
(* limit, an exclusive one runs alone.  Every operation is one critical    *)
(* section of the pool's mutex; a waiter retries every 20 ms.              *)
(*                                                                         *)
(* The module has no next-state relation of its own: ScriptRun says who    *)
(* calls these operations.                                                 *)
(***************************************************************************)
EXTENDS Naturals, Sequences, FiniteSets, SequenceFilter

CONSTANTS
    Calls,       \* requests, each made at most once
    Shared,      \* those that ask for shared access; the others run alone
    Parallelism  \* how many shared requests may run at once

ASSUME LaneAssumption ==
    /\ Shared \subseteq Calls
    /\ Parallelism \in Nat \ {0}

VARIABLES
    tickets,   \* WorkerCounts.waiters, oldest first
    permits,   \* requests that hold a permit; WorkerCounts.active counts them
    exclusive  \* WorkerCounts.exclusive

laneVars == <<tickets, permits, exclusive>>

\* The flag outlives no permit, or nobody would ever be admitted again.
LaneTypeOK ==
    /\ tickets \in Seq(Calls)
    /\ permits \subseteq Calls
    /\ exclusive \in BOOLEAN
    /\ exclusive => \E c \in Calls \ Shared : permits = {c}

LaneInit ==
    /\ tickets = <<>>
    /\ permits = {}
    /\ exclusive = FALSE

WaitInLane(c) ==
    /\ tickets' = Append(tickets, c)
    /\ UNCHANGED <<permits, exclusive>>

\* Mutant: a shared request enters beside an exclusive one.
FitsBeside(c) ==
    IF c \in Shared THEN Cardinality(permits) < Parallelism ELSE permits = {}

Fits(c) ==
    /\ ~exclusive
    /\ IF c \in Shared THEN Cardinality(permits) < Parallelism ELSE permits = {}

MayEnter(c) == Fits(c) /\ Head(tickets) = c

Enter(c) ==
    /\ tickets # <<>>
    /\ MayEnter(c)
    /\ tickets' = Tail(tickets)
    /\ permits' = permits \cup {c}
    /\ exclusive' = (c \notin Shared)

LeaveQueue(c) ==
    /\ tickets' = Keep(tickets, Calls \ {c})
    /\ UNCHANGED <<permits, exclusive>>

\* Drop of a WorkerSlotPermit.
DropPermit(c) ==
    /\ permits' = permits \ {c}
    /\ exclusive' = IF c \in Shared THEN exclusive ELSE FALSE
    /\ UNCHANGED tickets
=============================================================================
