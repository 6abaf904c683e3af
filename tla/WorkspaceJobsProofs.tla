------------------------- MODULE WorkspaceJobsProofs -------------------------
(***************************************************************************)
(* Theorems about the right to write the shared workspace, for every set   *)
(* of jobs, owners and cancellation tokens.  Nothing is needed of the      *)
(* cancellation tree: the proofs hold whichever jobs it kills, and when.   *)
(***************************************************************************)
EXTENDS WorkspaceJobs, TLAPS

(* What the claims on the workspace depend on.                             *)
claimVars == <<launch, spaceVars, book, proc, status, restart>>

JobTypes ==
    /\ launch \in [Jobs -> {"idle", "held", "launched", "hand", "done"}]
    /\ holder \in Jobs \cup {NoJob} /\ handed \in BOOLEAN
    /\ book \subseteq Jobs /\ ended \subseteq Jobs /\ leased \subseteq Jobs
    /\ status \in [Jobs -> {"none", "Running", "Over"}]
    /\ proc \in [Jobs -> {"none", "up", "down", "failed"}]
    /\ restart \in [Jobs -> {"none", "watch", "backoff", "fresh", "install",
                             "check", "finish", "gone", "vanished"}]

(* One lease: it belongs to a dispatch that has not handed it over, or to  *)
(* the job it was handed to, and a job that is over gave it back.          *)
Dispatching(j) == launch[j] \in {"held", "launched", "hand"}

OneLease ==
    /\ \A j \in Jobs : Dispatching(j) => holder = j /\ ~handed
    /\ \A j \in leased : /\ holder = j /\ handed
                         /\ launch[j] = "done" /\ j \in book \ ended
    /\ handed => holder \in leased

(* A job in the book that is not over runs and has the lease, or its       *)
(* dispatch has.  Before its dispatch has the lease there is nothing of it.*)
BookedJobsHold ==
    \A j \in Jobs :
        /\ j \in book => launch[j] \in {"hand", "done"}
        /\ launch[j] = "hand" => j \in book
        /\ j \in book \ ended => status[j] = "Running" /\ (launch[j] = "hand" \/ j \in leased)
        /\ launch[j] = "launched" /\ j \notin ended => status[j] = "Running"
        /\ launch[j] \in {"idle", "held"} => status[j] = "none" /\ j \notin ended

(* A job is over when its process has ended and none will be started.      *)
EndedIsDown ==
    \A j \in Jobs :
        /\ restart[j] # "none" => j \in Restarting /\ launch[j] = "done"
        /\ restart[j] \in {"backoff", "fresh", "finish", "gone"} => proc[j] # "up"
        /\ j \in ended => /\ proc[j] # "up"
                          /\ j \in Restarting => restart[j] \in {"finish", "gone"}

IInv == JobTypes /\ OneLease /\ BookedJobsHold /\ EndedIsDown

-----------------------------------------------------------------------------

(* The steps that touch a claim, and all the others together.              *)
ClaimStep ==
    \/ UNCHANGED claimVars
    \/ \E j \in Jobs :
          \/ Acquire(j) \/ Launch(j) \/ Abandon(j) \/ RegisterJob(j) \/ HandOver(j)
          \/ RegisterManaged(j)
          \/ WatchExit(j) \/ GiveUp(j) \/ Authorize(j) \/ Respawn(j) \/ Install(j) \/ Check(j)
          \/ Vanish(j) \/ EndClaim(j) \/ Publish(j)
          \/ \E how \in {"down", "failed"} : Exit(j, how)

(* The cancellation tree, kills, and the owners of a managed process touch *)
(* no claim: they mark records and have supervisors stop processes.        *)
LEMMA NextIsClaimStep == [Next]_vars => ClaimStep
  <1> SUFFICES ASSUME [Next]_vars  PROVE ClaimStep
    OBVIOUS
  <1>1. ASSUME OnlyTree  PROVE UNCHANGED claimVars
    BY <1>1 DEF OnlyTree, claimVars, bookVars, procVars, recordVars
  <1>2. ASSUME NEW k \in Tokens, KillAll(k)  PROVE UNCHANGED claimVars
    BY <1>2 DEF KillAll, bookLocked, claimVars, procVars, recordVars
  <1>3. ASSUME KillStep  PROVE UNCHANGED claimVars
    BY <1>3 DEF KillStep, UnlockBook, MarkStopped, KillJob, LeaveJob, Leave, bookLocked, claimVars,
                bookVars, procVars, recordVars
  <1>4. ASSUME NEW j \in Jobs, WatchStops(j) \/ UserKill(j)  PROVE UNCHANGED claimVars
    BY <1>4 DEF WatchStops, UserKill, bookLocked, claimVars, bookVars, procVars, recordVars
  <1>5. ASSUME NEW j \in Jobs, NEW o \in Owners, Reuse(j, o) \/ Release(j, o)
        PROVE  UNCHANGED claimVars
    BY <1>5 DEF Reuse, Release, Leave, claimVars, bookVars, procVars, recordVars
  <1>6. ASSUME NEW o \in Owners, DropOwner(o)  PROVE UNCHANGED claimVars
    BY <1>6 DEF DropOwner, bookLocked, claimVars, procVars, recordVars
  <1>7. ASSUME UNCHANGED vars  PROVE UNCHANGED claimVars
    BY <1>7 DEF vars, claimVars, bookVars, procVars, recordVars
  <1> QED  BY <1>1, <1>2, <1>3, <1>4, <1>5, <1>6, <1>7
           DEF Next, ClaimStep, LaunchStep, RestartStep, ExitStep

(* The first state.                                                        *)
LEMMA InitSound == Init => IInv
  BY NoJobAssumption DEF Init, IInv, JobTypes, OneLease, BookedJobsHold, EndedIsDown, Dispatching

(* Every step keeps the variables of their kind. *)
LEMMA JobTypesKept ==
  ASSUME IInv, ClaimStep
  PROVE  JobTypes'
  <1> USE JobsAssumption, NoJobAssumption
  <1>1. CASE UNCHANGED claimVars
    BY <1>1 DEF IInv, JobTypes, claimVars, spaceVars
  <1>2. ASSUME NEW j \in Jobs, Acquire(j)  PROVE JobTypes'
    BY <1>2 DEF IInv, JobTypes, Acquire, To, spaceVars, bookVars, procVars,
       recordVars
  <1>3. ASSUME NEW j \in Jobs, Launch(j)  PROVE JobTypes'
    BY <1>3 DEF IInv, JobTypes, Launch, To, spaceVars, bookVars, recordVars
  <1>4. ASSUME NEW j \in Jobs, Abandon(j)  PROVE JobTypes'
    BY <1>4 DEF IInv, JobTypes, Abandon, To, Free, bookVars, recordVars
  <1>5. ASSUME NEW j \in Jobs, RegisterJob(j)  PROVE JobTypes'
    BY <1>5 DEF IInv, JobTypes, RegisterJob, To, spaceVars, recordVars
  <1>6. ASSUME NEW j \in Jobs, HandOver(j)  PROVE JobTypes'
    BY <1>6 DEF IInv, JobTypes, HandOver, Hand, To, Free, bookVars, procVars,
       recordVars
  <1>7. ASSUME NEW j \in Jobs, RegisterManaged(j)  PROVE JobTypes'
    BY <1>7 DEF IInv, JobTypes, RegisterManaged, Hand, To, Free
  <1>8. ASSUME NEW j \in Jobs, WatchExit(j)  PROVE JobTypes'
    BY <1>8 DEF IInv, JobTypes, WatchExit, GoTo, spaceVars, bookVars, procVars
  <1>9. ASSUME NEW j \in Jobs, GiveUp(j)  PROVE JobTypes'
    BY <1>9 DEF IInv, JobTypes, GiveUp, GoTo, spaceVars, bookVars, procVars
  <1>10. ASSUME NEW j \in Jobs, Authorize(j)  PROVE JobTypes'
    BY <1>10 DEF IInv, JobTypes, Authorize, GoTo, spaceVars, bookVars,
       procVars
  <1>11. ASSUME NEW j \in Jobs, Respawn(j)  PROVE JobTypes'
    BY <1>11 DEF IInv, JobTypes, Respawn, GoTo, spaceVars, bookVars, procVars
  <1>12. ASSUME NEW j \in Jobs, Install(j)  PROVE JobTypes'
    BY <1>12 DEF IInv, JobTypes, Install, GoTo, spaceVars, bookVars
  <1>13. ASSUME NEW j \in Jobs, Check(j)  PROVE JobTypes'
    BY <1>13 DEF IInv, JobTypes, Check, GoTo, spaceVars, bookVars
  <1>14. ASSUME NEW j \in Jobs, NEW how \in {"down", "failed"}, Exit(j, how)  PROVE JobTypes'
    BY <1>14 DEF IInv, JobTypes, Exit, spaceVars, bookVars, recordVars
  <1>15. ASSUME NEW j \in Jobs, EndClaim(j)  PROVE JobTypes'
    BY <1>15 DEF IInv, JobTypes, EndClaim, MayFinish, Free, bookVars,
       procVars, recordVars
  <1>16. ASSUME NEW j \in Jobs, Publish(j)  PROVE JobTypes'
    BY <1>16 DEF IInv, JobTypes, Publish, spaceVars, bookVars, procVars
  <1>17. ASSUME NEW j \in Jobs, Vanish(j)  PROVE JobTypes'
    BY <1>17 DEF IInv, JobTypes, Vanish, GoTo,
       spaceVars, bookVars, procVars
  <1> QED  BY <1>1, <1>2, <1>3, <1>4, <1>5, <1>6, <1>7, <1>8, <1>9, <1>10,
     <1>11, <1>12, <1>13, <1>14, <1>15, <1>16, <1>17 DEF ClaimStep

(* Acquire takes the lease only when nobody has it; who drops it, had it. *)
LEMMA OneLeaseKept ==
  ASSUME IInv, ClaimStep
  PROVE  OneLease'
  <1> USE JobsAssumption, NoJobAssumption
  <1>1. CASE UNCHANGED claimVars
    BY <1>1 DEF IInv, JobTypes, OneLease, Dispatching, claimVars, spaceVars
  <1>2. ASSUME NEW j \in Jobs, Acquire(j)  PROVE OneLease'
    BY <1>2 DEF IInv, JobTypes, OneLease, Dispatching, BookedJobsHold,
       EndedIsDown, Acquire, To, spaceVars, bookVars, procVars, recordVars
  <1>3. ASSUME NEW j \in Jobs, Launch(j)  PROVE OneLease'
    BY <1>3 DEF IInv, JobTypes, OneLease, Dispatching, Launch, To, spaceVars,
       bookVars, recordVars
  <1>4. ASSUME NEW j \in Jobs, Abandon(j)  PROVE OneLease'
    BY <1>4 DEF IInv, JobTypes, OneLease, Dispatching, BookedJobsHold,
       EndedIsDown, Abandon, To, Free, bookVars, recordVars
  <1>5. ASSUME NEW j \in Jobs, RegisterJob(j)  PROVE OneLease'
    BY <1>5 DEF IInv, JobTypes, OneLease, Dispatching, BookedJobsHold,
       EndedIsDown, RegisterJob, To, spaceVars, recordVars
  <1>6. ASSUME NEW j \in Jobs, HandOver(j)  PROVE OneLease'
    BY <1>6 DEF IInv, JobTypes, OneLease, Dispatching, BookedJobsHold,
       EndedIsDown, HandOver, Hand, To, Free, bookVars, procVars, recordVars
  <1>7. ASSUME NEW j \in Jobs, RegisterManaged(j)  PROVE OneLease'
    BY <1>7 DEF IInv, JobTypes, OneLease, Dispatching, BookedJobsHold,
       EndedIsDown, RegisterManaged, Hand, To, Free
  <1>8. ASSUME NEW j \in Jobs, WatchExit(j)  PROVE OneLease'
    BY <1>8 DEF IInv, JobTypes, OneLease, Dispatching, WatchExit, GoTo,
       spaceVars, bookVars, procVars
  <1>9. ASSUME NEW j \in Jobs, GiveUp(j)  PROVE OneLease'
    BY <1>9 DEF IInv, JobTypes, OneLease, Dispatching, GiveUp, GoTo,
       spaceVars, bookVars, procVars
  <1>10. ASSUME NEW j \in Jobs, Authorize(j)  PROVE OneLease'
    BY <1>10 DEF IInv, JobTypes, OneLease, Dispatching, Authorize, GoTo,
       spaceVars, bookVars, procVars
  <1>11. ASSUME NEW j \in Jobs, Respawn(j)  PROVE OneLease'
    BY <1>11 DEF IInv, JobTypes, OneLease, Dispatching, Respawn, GoTo,
       spaceVars, bookVars, procVars
  <1>12. ASSUME NEW j \in Jobs, Install(j)  PROVE OneLease'
    BY <1>12 DEF IInv, JobTypes, OneLease, Dispatching, Install, GoTo,
       spaceVars, bookVars
  <1>13. ASSUME NEW j \in Jobs, Check(j)  PROVE OneLease'
    BY <1>13 DEF IInv, JobTypes, OneLease, Dispatching, Check, GoTo,
       spaceVars, bookVars
  <1>14. ASSUME NEW j \in Jobs, NEW how \in {"down", "failed"}, Exit(j, how)  PROVE OneLease'
    BY <1>14 DEF IInv, JobTypes, OneLease, Dispatching, Exit, spaceVars,
       bookVars, recordVars
  <1>15. ASSUME NEW j \in Jobs, EndClaim(j)  PROVE OneLease'
    BY <1>15 DEF IInv, JobTypes, OneLease, Dispatching, BookedJobsHold,
       EndedIsDown, EndClaim, MayFinish, Free, bookVars, procVars, recordVars
  <1>16. ASSUME NEW j \in Jobs, Publish(j)  PROVE OneLease'
    BY <1>16 DEF IInv, JobTypes, OneLease, Dispatching, Publish, spaceVars,
       bookVars, procVars
  <1>17. ASSUME NEW j \in Jobs, Vanish(j)  PROVE OneLease'
    BY <1>17 DEF IInv, JobTypes, OneLease, Dispatching, Vanish, GoTo,
       spaceVars, bookVars, procVars
  <1> QED  BY <1>1, <1>2, <1>3, <1>4, <1>5, <1>6, <1>7, <1>8, <1>9, <1>10,
     <1>11, <1>12, <1>13, <1>14, <1>15, <1>16, <1>17 DEF ClaimStep

(* RegisterJob and RegisterManaged put a job into the book while its dispatch
   has the lease; Hand gives it to a job that runs. *)
LEMMA BookedJobsHoldKept ==
  ASSUME IInv, ClaimStep
  PROVE  BookedJobsHold'
  <1> USE JobsAssumption, NoJobAssumption
  <1>1. CASE UNCHANGED claimVars
    BY <1>1 DEF IInv, JobTypes, BookedJobsHold, claimVars, spaceVars
  <1>2. ASSUME NEW j \in Jobs, Acquire(j)  PROVE BookedJobsHold'
    BY <1>2 DEF IInv, JobTypes, BookedJobsHold, OneLease, Dispatching,
       EndedIsDown, Acquire, To, spaceVars, bookVars, procVars, recordVars
  <1>3. ASSUME NEW j \in Jobs, Launch(j)  PROVE BookedJobsHold'
    BY <1>3 DEF IInv, JobTypes, BookedJobsHold, OneLease, Dispatching,
       EndedIsDown, Launch, To, spaceVars, bookVars, recordVars
  <1>4. ASSUME NEW j \in Jobs, Abandon(j)  PROVE BookedJobsHold'
    BY <1>4 DEF IInv, JobTypes, BookedJobsHold, OneLease, Dispatching,
       EndedIsDown, Abandon, To, Free, bookVars, recordVars
  <1>5. ASSUME NEW j \in Jobs, RegisterJob(j)  PROVE BookedJobsHold'
    BY <1>5 DEF IInv, JobTypes, BookedJobsHold, OneLease, Dispatching,
       EndedIsDown, RegisterJob, To, spaceVars, recordVars
  <1>6. ASSUME NEW j \in Jobs, HandOver(j)  PROVE BookedJobsHold'
    BY <1>6 DEF IInv, JobTypes, BookedJobsHold, OneLease, Dispatching,
       EndedIsDown, HandOver, Hand, To, Free, bookVars, procVars, recordVars
  <1>7. ASSUME NEW j \in Jobs, RegisterManaged(j)  PROVE BookedJobsHold'
    BY <1>7 DEF IInv, JobTypes, BookedJobsHold, OneLease, Dispatching,
       EndedIsDown, RegisterManaged, Hand, To, Free
  <1>8. ASSUME NEW j \in Jobs, WatchExit(j)  PROVE BookedJobsHold'
    BY <1>8 DEF IInv, JobTypes, BookedJobsHold, WatchExit, GoTo, spaceVars,
       bookVars, procVars
  <1>9. ASSUME NEW j \in Jobs, GiveUp(j)  PROVE BookedJobsHold'
    BY <1>9 DEF IInv, JobTypes, BookedJobsHold, GiveUp, GoTo, spaceVars,
       bookVars, procVars
  <1>10. ASSUME NEW j \in Jobs, Authorize(j)  PROVE BookedJobsHold'
    BY <1>10 DEF IInv, JobTypes, BookedJobsHold, Authorize, GoTo, spaceVars,
       bookVars, procVars
  <1>11. ASSUME NEW j \in Jobs, Respawn(j)  PROVE BookedJobsHold'
    BY <1>11 DEF IInv, JobTypes, BookedJobsHold, Respawn, GoTo, spaceVars,
       bookVars, procVars
  <1>12. ASSUME NEW j \in Jobs, Install(j)  PROVE BookedJobsHold'
    BY <1>12 DEF IInv, JobTypes, BookedJobsHold, Install, GoTo, spaceVars,
       bookVars
  <1>13. ASSUME NEW j \in Jobs, Check(j)  PROVE BookedJobsHold'
    BY <1>13 DEF IInv, JobTypes, BookedJobsHold, Check, GoTo, spaceVars,
       bookVars
  <1>14. ASSUME NEW j \in Jobs, NEW how \in {"down", "failed"}, Exit(j, how)  PROVE BookedJobsHold'
    BY <1>14 DEF IInv, JobTypes, BookedJobsHold, Exit, spaceVars, bookVars,
       recordVars
  <1>15. ASSUME NEW j \in Jobs, EndClaim(j)  PROVE BookedJobsHold'
    BY <1>15 DEF IInv, JobTypes, BookedJobsHold, OneLease, Dispatching,
       EndedIsDown, EndClaim, MayFinish, Free, bookVars, procVars, recordVars
  <1>16. ASSUME NEW j \in Jobs, Publish(j)  PROVE BookedJobsHold'
    BY <1>16 DEF IInv, JobTypes, BookedJobsHold, OneLease, Dispatching,
       EndedIsDown, Publish, spaceVars, bookVars, procVars
  <1>17. ASSUME NEW j \in Jobs, Vanish(j)  PROVE BookedJobsHold'
    BY <1>17 DEF IInv, JobTypes, BookedJobsHold, Vanish, GoTo,
       spaceVars, bookVars, procVars
  <1> QED  BY <1>1, <1>2, <1>3, <1>4, <1>5, <1>6, <1>7, <1>8, <1>9, <1>10,
     <1>11, <1>12, <1>13, <1>14, <1>15, <1>16, <1>17 DEF ClaimStep

(* EndClaim comes after the last exit, and no process is started for the job
   again. *)
LEMMA EndedIsDownKept ==
  ASSUME IInv, ClaimStep
  PROVE  EndedIsDown'
  <1> USE JobsAssumption, NoJobAssumption
  <1>1. CASE UNCHANGED claimVars
    BY <1>1 DEF IInv, JobTypes, EndedIsDown, claimVars, spaceVars
  <1>2. ASSUME NEW j \in Jobs, Acquire(j)  PROVE EndedIsDown'
    BY <1>2 DEF IInv, JobTypes, EndedIsDown, OneLease, BookedJobsHold,
       Dispatching, Acquire, To, spaceVars, bookVars, procVars, recordVars
  <1>3. ASSUME NEW j \in Jobs, Launch(j)  PROVE EndedIsDown'
    BY <1>3 DEF IInv, JobTypes, EndedIsDown, OneLease, BookedJobsHold,
       Dispatching, Launch, To, spaceVars, bookVars, recordVars
  <1>4. ASSUME NEW j \in Jobs, Abandon(j)  PROVE EndedIsDown'
    BY <1>4 DEF IInv, JobTypes, EndedIsDown, OneLease, BookedJobsHold,
       Dispatching, Abandon, To, Free, bookVars, recordVars
  <1>5. ASSUME NEW j \in Jobs, RegisterJob(j)  PROVE EndedIsDown'
    BY <1>5 DEF IInv, JobTypes, EndedIsDown, OneLease, BookedJobsHold,
       Dispatching, RegisterJob, To, spaceVars, recordVars
  <1>6. ASSUME NEW j \in Jobs, HandOver(j)  PROVE EndedIsDown'
    BY <1>6 DEF IInv, JobTypes, EndedIsDown, OneLease, BookedJobsHold,
       Dispatching, HandOver, Hand, To, Free, bookVars, procVars, recordVars
  <1>7. ASSUME NEW j \in Jobs, RegisterManaged(j)  PROVE EndedIsDown'
    BY <1>7 DEF IInv, JobTypes, EndedIsDown, OneLease, BookedJobsHold,
       Dispatching, RegisterManaged, Hand, To, Free
  <1>8. ASSUME NEW j \in Jobs, WatchExit(j)  PROVE EndedIsDown'
    BY <1>8 DEF IInv, JobTypes, EndedIsDown, WatchExit, GoTo, spaceVars,
       bookVars, procVars
  <1>9. ASSUME NEW j \in Jobs, GiveUp(j)  PROVE EndedIsDown'
    BY <1>9 DEF IInv, JobTypes, EndedIsDown, GiveUp, GoTo, spaceVars,
       bookVars, procVars
  <1>10. ASSUME NEW j \in Jobs, Authorize(j)  PROVE EndedIsDown'
    BY <1>10 DEF IInv, JobTypes, EndedIsDown, Authorize, GoTo, spaceVars,
       bookVars, procVars
  <1>11. ASSUME NEW j \in Jobs, Respawn(j)  PROVE EndedIsDown'
    BY <1>11 DEF IInv, JobTypes, EndedIsDown, OneLease, BookedJobsHold,
       Dispatching, Respawn, GoTo, spaceVars, bookVars, procVars
  <1>12. ASSUME NEW j \in Jobs, Install(j)  PROVE EndedIsDown'
    BY <1>12 DEF IInv, JobTypes, EndedIsDown, Install, GoTo, spaceVars,
       bookVars
  <1>13. ASSUME NEW j \in Jobs, Check(j)  PROVE EndedIsDown'
    BY <1>13 DEF IInv, JobTypes, EndedIsDown, Check, GoTo, spaceVars, bookVars
  <1>14. ASSUME NEW j \in Jobs, NEW how \in {"down", "failed"}, Exit(j, how)  PROVE EndedIsDown'
    BY <1>14 DEF IInv, JobTypes, EndedIsDown, Exit, spaceVars, bookVars,
       recordVars
  <1>15. ASSUME NEW j \in Jobs, EndClaim(j)  PROVE EndedIsDown'
    BY <1>15 DEF IInv, JobTypes, EndedIsDown, OneLease, BookedJobsHold,
       Dispatching, EndClaim, MayFinish, Free, bookVars, procVars, recordVars
  <1>16. ASSUME NEW j \in Jobs, Publish(j)  PROVE EndedIsDown'
    BY <1>16 DEF IInv, JobTypes, EndedIsDown, OneLease, BookedJobsHold,
       Dispatching, Publish, spaceVars, bookVars, procVars
  <1>17. ASSUME NEW j \in Jobs, Vanish(j)  PROVE EndedIsDown'
    BY <1>17 DEF IInv, JobTypes, EndedIsDown, Vanish, GoTo,
       spaceVars, bookVars, procVars
  <1> QED  BY <1>1, <1>2, <1>3, <1>4, <1>5, <1>6, <1>7, <1>8, <1>9, <1>10,
     <1>11, <1>12, <1>13, <1>14, <1>15, <1>16, <1>17 DEF ClaimStep

-----------------------------------------------------------------------------
(* The inductive invariant holds of every reachable state.                 *)
THEOREM Invariance == Spec => []IInv
  <1>1. IInv /\ [Next]_vars => IInv'
    BY NextIsClaimStep, JobTypesKept, OneLeaseKept, BookedJobsHoldKept, EndedIsDownKept
    DEF IInv
  <1> QED  BY <1>1, InitSound, PTL DEF Spec

(* A registered job whose process lives holds the workspace, from its      *)
(* registration over every restart to its last exit (acquire_shared_write).*)
THEOREM WriterAlwaysHolds == Spec => []WriterHolds
  <1>1. IInv => WriterHolds
    <2> SUFFICES ASSUME IInv, NEW j \in book, proc[j] = "up"  PROVE holder = j
      BY DEF WriterHolds
    <2>1. j \in Jobs /\ j \notin ended
      BY DEF IInv, JobTypes, EndedIsDown
    <2>2. launch[j] = "hand" \/ j \in leased
      BY <2>1 DEF IInv, BookedJobsHold
    <2> QED  BY <2>1, <2>2 DEF IInv, OneLease, Dispatching
  <1> QED  BY <1>1, Invariance, PTL

(* Two registered jobs never run at once: of the processes in the book at  *)
(* most one lives, whatever is launched, killed and restarted.             *)
THEOREM OneWriter ==
  Spec => [](\A i, j \in book : proc[i] = "up" /\ proc[j] = "up" => i = j)
  <1>1. WriterHolds => \A i, j \in book : proc[i] = "up" /\ proc[j] = "up" => i = j
    BY DEF WriterHolds
  <1> QED  BY <1>1, WriterAlwaysHolds, PTL

(* The workspace is never held by a job that is over (hold_shared_write,   *)
(* finish_shared).  It may be held by one whose restart thread left without  *)
(* ending it: that job stays in the book and Running.                      *)
THEOREM HolderIsAlwaysAlive == Spec => []HolderIsAlive
  <1>1. IInv => HolderIsAlive
    BY DEF IInv, JobTypes, OneLease, BookedJobsHold, HolderIsAlive
  <1> QED  BY <1>1, Invariance, PTL
=============================================================================
