CONSTANTS
  Machines = {m1, m2, m3, m4}
  Addresses = {a1, a2, a3}
  NoAddress = NoAddress
  NoMachine = NoMachine
SPECIFICATION Spec
INVARIANTS
  TypeOK
  FailuresComeFromReuse
  NoRivalHooks
