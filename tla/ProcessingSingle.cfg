\* One copy of the message: a crash and an exception at every point and one retry
\* - the exception costs one attempt - but never two workers on the job.
SPECIFICATION FairSpec
CONSTANTS
  d1 = d1
  d2 = d2
  m1 = m1
  m2 = m2
  NoDoc = NoDoc
  Docs <- TwoDocuments
  Unreadable <- Nothing
  Messages <- OneCopy
  Sent = m1
  MaxRetries = 1
  MaxFaults = 1
  MaxCrashes = 1
INVARIANTS
  TerminalTruth
  IndexedIsSearchable
  CompletedEventIsTrue
  StreamInOrder
PROPERTIES
  JobFinishes
  FinishedIsFinal
  FollowsLifecycle
