SPECIFICATION Spec
CONSTANTS
  MaxTime    = 4
  MaxVersion = 3
INVARIANTS
  RunsTheSource
