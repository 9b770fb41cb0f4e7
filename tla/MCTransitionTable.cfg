CONSTANTS
  a = a
  b = b
  blank = blank
  Names = {a, b, blank}
  InvalidNames = {blank}
  Inputs <- MCInputs
  MaxWrites = 2
SPECIFICATION Spec
INVARIANTS
  TypeOK
  TableAgrees
  ViewsAgree
