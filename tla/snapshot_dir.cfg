SPECIFICATION Spec
CONSTANTS
  r1 = r1
  None = None
  Restores = {r1}
  MaxVcpus = 2
  MaxAttempts = 2
INVARIANTS
  
  
  RefusedForCause
CHECK_DEADLOCK FALSE
