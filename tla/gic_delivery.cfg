CONSTANTS
  CPUS = 2
  SGIS = 1
  PRIVATE = 2
  NUM_INTID = 3
  IDLE_PRIO = 2
  MaxEvents = 2
  MaxWrites = 1
SPECIFICATION FairSpec
INVARIANTS HandledOnce PreemptsStrictly RoundTrip
PROPERTIES DevicesServed SgisHeard SgiTaken CpuOnStarts
