SPECIFICATION Spec
CHECK_DEADLOCK FALSE
CONSTANTS
  t1 = t1 t2 = t2 fileA = fileA fileB = fileB fileC = fileC
  Files = {fileA, fileB, fileC}
  Txns = {t1, t2}
  NoTxn = noTxn
  Order <- RivalOrder
  Deletes <- RivalDeletes
  Existing = {fileA, fileB}
  Deletable = {fileA, fileB}
  MaxEdits = 2
INVARIANT
  HalfDoneIsMarked
PROPERTIES
  UserEditsSurvive ImplementsAtomicEdit
