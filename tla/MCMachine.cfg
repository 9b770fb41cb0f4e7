CONSTANTS
  p1 = p1
  p2 = p2
  p3 = p3
  idle = idle
  run = run
  stop = stop
  ghost = ghost
  star = star
  NoProc = NoProc
  NoCall = NoCall
  NoName = NoName
  Procs = {p1, p2}
  Names <- MCNames
  InvalidNames <- MCInvalidNames
  Config <- MCConfig
  Calls <- AllCalls
SYMMETRY Symmetry
SPECIFICATION Spec
INVARIANTS
  TypeOK
  StateDefined
  HooksSeeCurrentState
  PostHooksFollowEveryChange
  MarshalReadsStableState
PROPERTIES
  ChangesAreLegal
