CONSTANTS
  h1 = h1  h2 = h2  r1 = r1  ta = ta
  v1 = v1  v2 = v2  v3 = v3
  NoVm = NoVm
  Handlers = {h1}
  Refillers = {r1}
  Templates = {ta}
  Ram <- OneTemplate
  Budget = 2
  PoolTarget = 1
  Vms = {v1, v2}
  Requests = {"one_shot", "detached", "fork", "fork_i", "exec", "shutdown"}
  IoFails = FALSE
SPECIFICATION FairSpec
INVARIANT EntryOwned
PROPERTIES KilledGoes 
CHECK_DEADLOCK FALSE
