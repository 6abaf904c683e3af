--------------------------- MODULE SequenceFilter ---------------------------
(***************************************************************************)
(* Vec::retain and Iterator::filter, as a recursion that the proofs can    *)
(* unfold.                                                                 *)
(***************************************************************************)
EXTENDS Naturals, Sequences

Elements(s) == {s[i] : i \in 1..Len(s)}

\* The elements of `s` that belong to `S`, in their order.
Keep(s, S) ==
    LET kept[n \in 0..Len(s)] ==
            IF n = 0 THEN <<>>
            ELSE IF s[n] \in S THEN Append(kept[n - 1], s[n]) ELSE kept[n - 1]
    IN kept[Len(s)]

\* The elements of `s` at the positions `I`, in their order.
Pick(s, I) ==
    LET at == Keep([i \in 1..Len(s) |-> i], I)
    IN [k \in 1..Len(at) |-> s[at[k]]]
=============================================================================
