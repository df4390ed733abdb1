\* Three owners that call start() and stop() at any time.
CONSTANTS
  o1 = o1
  o2 = o2
  o3 = o3
  h1 = h1
  h2 = h2
  h3 = h3
  Owner = {o1, o2, o3}
  Handle = {h1, h2, h3}
  NoTid = NoTid
SPECIFICATION FairSpec
INVARIANTS
  TypeOK
  OneThread
  QuietWhenStopped
  NoReapedHandle
PROPERTIES
  CallsComplete
  ImplementsService
