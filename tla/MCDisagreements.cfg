SPECIFICATION Spec
CONSTANTS
  strlen              <- MCstrlen
  IntBits             = 11
  STACKSIZE           = 40
  FUNCTION_STACK_SIZE = 6
  Programs            <- Disagreements
INVARIANTS
  EndsAsMeant
