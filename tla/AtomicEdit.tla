------------------------------ MODULE AtomicEdit ------------------------------
(***************************************************************************)
(* What a transactional edit promises the owner of the files: the edit of  *)
(* all its files appears in one step, over exactly the contents it was     *)
(* prepared from, and is taken back in one step; what the user writes in   *)
(* between stays.                                                          *)
(***************************************************************************)
CONSTANTS
  Files, Txns,
  Contents,          \* what a file may hold
  UserContents,      \* what the user may write
  Touched(_),        \* the files of a transaction
  Proposal(_, _)     \* what a transaction puts in a file

VARIABLES
  tree,  \* the content of each file
  base,  \* the contents each transaction was prepared from
  newer  \* newer[t]: files the user has written or deleted since

vars == <<tree, base, newer>>

Init ==
  /\ tree \in [Files -> Contents]
  /\ base \in [Txns -> [Files -> Contents]]
  /\ newer = [t \in Txns |-> {}]

Prepare(t, f, c) ==
  /\ base' = [base EXCEPT ![t][f] = c]
  /\ newer' = [newer EXCEPT ![t] = @ \ {f}]
  /\ UNCHANGED tree

Edit(f, c) ==
  /\ tree' = [tree EXCEPT ![f] = c]
  /\ newer' = [t \in Txns |-> newer[t] \cup {f}]
  /\ UNCHANGED base

(* The user has written or deleted these meanwhile, and may keep them so.  *)
Kept(t) == {f \in Touched(t) \cap newer[t] : tree[f] \in UserContents}

Put(t) ==
  \E kept \in SUBSET Kept(t) :
    /\ \A f \in Touched(t) \ kept : tree[f] = base[t][f]
    /\ tree' = [f \in Files |-> IF f \in Touched(t) \ kept THEN Proposal(t, f) ELSE tree[f]]
    /\ UNCHANGED <<base, newer>>

Undo(t) ==
  \E kept \in SUBSET Kept(t) :
    /\ \A f \in Touched(t) \ kept : tree[f] \in {base[t][f], Proposal(t, f)}
    /\ tree' = [f \in Files |-> IF f \in Touched(t) \ kept THEN base[t][f] ELSE tree[f]]
    /\ UNCHANGED <<base, newer>>

Next ==
  \/ \E t \in Txns, f \in Files, c \in Contents : Prepare(t, f, c)
  \/ \E f \in Files, c \in UserContents : Edit(f, c)
  \/ \E t \in Txns : Put(t) \/ Undo(t)

Spec == Init /\ [][Next]_vars
=============================================================================
