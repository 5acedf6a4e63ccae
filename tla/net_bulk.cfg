SPECIFICATION Spec
CONSTANTS
  ca = ca
  cb = cb
  cd = cd
  ce = ce
  cx = cx
  ci = ci
  q1 = q1
  q2 = q2
  pg = pg
  pf = pf
  ea = ea
  eb = eb
  ed = ed
  ee = ee
  ex = ex
  Out = {ca, cb, cd, ce, cx}
  In = {ci}
  Queries = {q1, q2}
  Scenarios <- MCBulk
  Port <- MCPort
  Ext <- MCExt
  Class <- MCClass
  AllowPrivate = FALSE
  Dns = Dns
  None = None
  MAX_FLOWS = 2
  MAX_PENDING_DNS = 2
  EphPorts = 8
  TxBuf = 4
  ReadMax = 2
  HostBuf = 1
  Buffers = 1
  Rate = 2
  HostUnits <- MCBulkUnits
  GuestUnits <- MCGuestUnits
  Closers = {ca, cb, ci}
  Flaky = {ca}
  MaxRefused = 1
  MaxLost = 1
  MaxQueued = 2
INVARIANT
  StreamIntact
CHECK_DEADLOCK FALSE
