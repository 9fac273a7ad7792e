SPECIFICATION FairSpec
CONSTANTS
  g1 = g1
  g2 = g2
  d1 = d1
  d2 = d2
  Guest = {g1, g2}
  Queue = {q1}
  Job = {d1, d2}
  Owner <- MCOwner
  Image = {i1}
  NoImage = NoImage
  NTags = 2
  RawTag = {0, 1, 2}
  Mask = {{0}, {1, 2}}
  Requested = 9
  MaxWorkers = 2
  MaxPushes = 2
INVARIANTS
  PendingExact
  StartedInOrder
  WorkersWoken
  SyncersWoken
  DescriptorStable
PROPERTIES
  JobFinishes
  SyncReturns
  KeepsPromise
