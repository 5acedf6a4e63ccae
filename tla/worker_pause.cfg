CONSTANTS
  p = p  s1 = s1  s2 = s2
  Primary = p
  Secondaries = {s1}
  Backend = "hvf"
  HasControl = TRUE
  Pooled = FALSE
  Frames = {"balloon", "pause", "resume"}
  MaxFrames = 3
  PayloadLen = 2
  Snapshot = TRUE
  Deadline = FALSE
SPECIFICATION FairSpec
INVARIANTS FramesIntact SnapshotSucceeds
PROPERTIES ListedIsTrue StopJoins
CHECK_DEADLOCK FALSE
