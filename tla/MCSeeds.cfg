CONSTANTS
  c1 = c1
  c2 = c2
  Creators <- MCCreators
  DemoCount = 2
  StressCount = 2
  MaxRuns = 3
  MaxId = 8
SPECIFICATION Spec
SYMMETRY Symmetry
CHECK_DEADLOCK FALSE
INVARIANTS
  ReferencesResolve
  NumbersGoOn
  StressIsWhole
PROPERTY
  StressSparesOthers
