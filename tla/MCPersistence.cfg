CONSTANTS
  a = a
  b = b
  u = u
  x = x
  y = y
  s = s
  NoState = NoState
  h = h
  HookNames = {h}
  Names = {a, b, u, x, y, s}
  InvalidNames = {s}
  Coerce <- MCCoerce
  Inputs <- MCInputs
SPECIFICATION Spec
INVARIANTS
  TypeOK
  RestoreNeverFails
  RestoredAllowsTheSame
PROPERTY RestoredSavesStateAndTable
