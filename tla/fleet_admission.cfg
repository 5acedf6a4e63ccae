CONSTANTS
  h1 = h1  h2 = h2  r1 = r1  ta = ta
  v1 = v1  v2 = v2  v3 = v3
  NoVm = NoVm
  Handlers = {h1, h2}
  Refillers = {r1}
  Templates = {ta}
  Ram <- OneTemplate
  Budget = 2
  PoolTarget = 1
  Vms = {v1, v2, v3}
  Requests = {"one_shot", "fork"}
  IoFails = TRUE
SPECIFICATION Spec
SYMMETRY Symmetry
INVARIANTS BudgetRespected OneOwner EvictsOnlyUnreleased UnlistedAreDoomed
CHECK_DEADLOCK FALSE
