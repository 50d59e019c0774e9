SPECIFICATION Spec
CONSTANTS
  Programs = {p, q}
  NoOne = NoOne
  Accesses <- MCAccesses
  Failures <- MCFailures
  MaxStarts = 3
  MaxMishaps = 1
SYMMETRY Symmetry
CHECK_DEADLOCK FALSE
INVARIANT AccessesKept
PROPERTIES
  UpgradeCompletes
