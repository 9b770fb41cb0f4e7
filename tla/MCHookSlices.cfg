CONSTANTS
  HookNames = {h1, h2, h3}
  Executors = {p1}
  MaxArrays = 3
  MaxCap = 3
  NoEntry = NoEntry
  NoRun = NoRun
SPECIFICATION Spec
INVARIANTS
  TypeOK
  SnapshotsStable
PROPERTY ImplementsHookList
