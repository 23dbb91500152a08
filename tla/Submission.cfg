SPECIFICATION FairSpec
CONSTANTS
  r1 = r1
  r2 = r2
  here = here
  there = there
  NoKey = NoKey
  Unanswered = Unanswered
  Conflict = Conflict
  Error = Error
  Keys = {k1, k0}
  EmptyKey = k0
  Requests <- TwoRequests
  Workers = {w1, w2}
  Bodies <- SeveralBodies
INVARIANTS
  TypeOK
  KeyNamesOneJob
  ReplayMatchesDocuments
  EnqueuedIsReady
PROPERTIES
  HandedOver
  CreatedIsSent
