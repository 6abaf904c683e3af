SPECIFICATION Spec
CHECK_DEADLOCK FALSE
CONSTANTS
  edit = edit read = read script = script step1 = step1 step2 = step2
  NoCall = noCall
  Calls = {read, script, step1}
  Batches <- BranchBatches
  Parent <- BranchParent
  ReadOnly = {read}
  Window = 3
  JournalMayFail = TRUE
  MayNavigate = TRUE
  MaxPrompts = 3
INVARIANTS
  ProviderSeesPairs ProjectedOnce AcknowledgedIsInSession
