CONSTANTS
  Wrap = 4
  BUF_ALLOC = 2
  GuestBuf = 2
  MaxPayload = 1
  GuestBytes = 5
  HostBytes = 5
  MaxTx = 2
  MaxAsks = 1
  Nothing = Nothing
SPECIFICATION FairSpec
INVARIANTS CreditRespected HostBytesDelivered
PROPERTIES BytesFlow
CHECK_DEADLOCK FALSE
