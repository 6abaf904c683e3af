------------------------ MODULE MCTransactionalEdit -------------------------
(* Instances of TransactionalEdit for TLC.                                 *)
EXTENDS TransactionalEdit, TLC

CONSTANTS t1, t2, fileA, fileB, fileC

(* One transaction writes, deletes and creates a file, the other writes    *)
(* two of these.                                                           *)
RivalOrder == t1 :> <<fileA, fileB, fileC>> @@ t2 :> <<fileC, fileA>>
RivalDeletes == t1 :> {fileB} @@ t2 :> {}
=============================================================================
