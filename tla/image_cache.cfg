SPECIFICATION Spec
CONSTANTS
  p1 = p1
  p2 = p2
  tt = tt
  tu = tu
  tv = tv
  tw = tw
  tx = tx
  tar = tar
  A = A
  B = B
  C = C
  D = D
  E = E
  l1 = l1
  l2 = l2
  l3 = l3
  l4 = l4
  l5 = l5
  None = None
  Procs = {p1, p2}
  Tags = {tt, tu, tv, tw, tx}
  Tars = {tar}
  Ids = {A, B, C, D, E}
  Serves <- MCServes
  LayersOf <- MCLayersOf
  Scenarios <- MCScenarios
  Chunks = 2
  MaxBytes = 3
INVARIANTS
  
  HitsComplete
  AnswersRight
PROPERTIES
  BuildsEnd
CHECK_DEADLOCK FALSE
