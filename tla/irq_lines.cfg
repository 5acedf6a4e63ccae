CONSTANTS
  c1 = c1  c2 = c2
  Vcpus = {c1, c2}
  Console = Console
  Nobody = Nobody
  MaxRx = 2
  MaxTargets = 2
SPECIFICATION Spec
INVARIANTS UartLineCurrent CompletionKeepsLine
SYMMETRY Symmetry
