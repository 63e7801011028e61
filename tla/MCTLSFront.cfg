SPECIFICATION FairSpec
CONSTANTS
  RandomBytes = 0
  Conns = {c1, c2, c3}
  Records <- MCRecords
  Timeout = 2
  Requests <- MCRequests
  Listed <- MCListed
INVARIANTS
  TypeOK
  WaitBound
  OwnFingerprint
PROPERTY
  EveryConnectionIsReached
