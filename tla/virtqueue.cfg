CONSTANTS
  t1 = t1  t2 = t2
  None = None
  Kinds = {"blk", "rng", "balloon"}
  QSZ = 4
  IdxMod = 8
  Tags = {t1, t2}
  Sectors = {0}
  Vals = {0, 1}
  Ordered = TRUE
  MaxResets = 1
  MaxForks = 1
SPECIFICATION FairSpec
 
PROPERTIES StoreSpec RequestsReturn
CHECK_DEADLOCK FALSE
