SPECIFICATION Spec
CHECK_DEADLOCK FALSE
CONSTANTS
  edit = edit read = read script = script step1 = step1 step2 = step2
  NoCall = noCall
  Calls = {edit, read, script, step1}
  Batches <- MixedBatches
  Parent <- MixedParent
  ReadOnly = {read}
  Window = 3
  JournalMayFail = FALSE
  MayNavigate = FALSE
  MaxPrompts = 2
INVARIANTS
  TypeOK AnsweredOnce AnsweredBeforePrompt ChildrenFirst CommittedIsUsed
PROPERTY
  ReplayEnds
