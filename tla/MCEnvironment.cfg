SPECIFICATION Spec
CONSTANTS
  Names     <- MCNames
  Values    = {v1, v2}
  Undef     = Undef
  ENVSIZE   = 2
  CharRange = 8
INVARIANTS
  EnvSound
PROPERTIES
  ImplementsBindings
