SPECIFICATION Spec
CHECK_DEADLOCK FALSE
CONSTANTS
  edit = edit read = read script = script step1 = step1 step2 = step2
  NoCall = noCall
  Calls = {script, step1, step2}
  Batches <- ScriptBatches
  Parent <- ScriptParent
  ReadOnly = {step1}
  Window = 2
  JournalMayFail = FALSE
  MayNavigate = FALSE
  MaxPrompts = 2
INVARIANTS
  AnsweredOnce
