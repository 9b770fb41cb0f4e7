CONSTANTS
  h1 = h1
  h2 = h2
  h3 = h3
  p1 = p1
  a = a
  b = b
  ghost = ghost
  Star = Star
  NoHook = NoHook
  NoRun = NoRun
  HookNames = {h1, h2, h3}
  StateNames = {a, b, ghost}
  KnownStates = {a, b}
  HasTable = TRUE
  Patterns <- MCPatterns
  Executors = {p1}
  MaxSeq = 3
SYMMETRY Symmetry
SPECIFICATION Spec
INVARIANTS
  TypeOK
  IndexMatchesHooks
  SequenceNumbersOrderHooks
PROPERTY ImplementsHookList
