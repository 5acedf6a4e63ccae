CONSTANTS
  p = p  s1 = s1  s2 = s2
  Primary = p
  Secondaries = {s1, s2}
  Backend = "kvm"
  HasControl = TRUE
  Pooled = TRUE
  Frames = {"balloon", "pause", "resume"}
  MaxFrames = 2
  PayloadLen = 2
  Snapshot = TRUE
  Deadline = TRUE
SPECIFICATION Spec
SYMMETRY Symmetry
INVARIANTS SnapshotConsistent 
CHECK_DEADLOCK FALSE
