SPECIFICATION Spec
SYMMETRY ThreadSymmetry
CHECK_DEADLOCK FALSE
CONSTANTS
  batch = batch child = child rival = rival launch = launch again = again
  w1 = w1 w2 = w2 root1 = root1 root2 = root2 k1 = k1 k2 = k2 k3 = k3
  x1 = x1 x2 = x2 fileA = fileA star = star noOp = noOp noWire = noWire t1 = t1 t2 = t2
  Threads = {t1, t2}
  Roots = {root1, root2}
  Keys = {k1, k2, k3}
  Wires = {x1, x2}
  Resources = {fileA}
  Wildcard = star
  NoOp = noOp
  NoWire = noWire
  Ops = {launch, again}
  Plan <- LaunchPlan
  Owners = {w1, w2}
  Generation <- TwoGenerations
  MaxAttempts = 2
  Steered = {launch, again}
INVARIANTS
  TypeOK
  AtMostOneEffect
  SuccessWasDispatched
  RetryLineage
PROPERTIES
  ImplementsBarrier
  FencedAttemptIsFrozen
  TerminalIsFinal
