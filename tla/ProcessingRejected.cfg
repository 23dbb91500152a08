\* One of two documents cannot be parsed; nothing else goes wrong.
SPECIFICATION FairSpec
CONSTANTS
  d1 = d1
  d2 = d2
  m1 = m1
  m2 = m2
  NoDoc = NoDoc
  Docs <- TwoDocuments
  Unreadable <- OneDocument
  Messages <- OneCopy
  Sent = m1
  MaxRetries = 2
  MaxFaults = 0
  MaxCrashes = 0
PROPERTIES
  JobFinishes
