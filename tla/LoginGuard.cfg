\* Three attempts for one address, two of them in a window, two failures to the lock.
CONSTANTS
  ada = ada
  Requests = {a1, a2, a3}
  KeyOf <- MCKeyOf
  Rpm = 2
  Window = 1
  Keyed = TRUE
  MaxClock = 3
  Threshold = 2
  LockWindow = 2
  CountWindow = 1
  MaxFaults = 1
SPECIFICATION Spec
SYMMETRY Symmetry
INVARIANTS
  TypeOK
  LockHolds
PROPERTIES
  SameAsMiddleware
CHECK_DEADLOCK FALSE
