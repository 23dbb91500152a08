\* One of two documents fails, nothing else goes wrong.
SPECIFICATION StreamSpec
CONSTANTS
  d1 = d1
  d2 = d2
  m1 = m1
  c1 = c1
  NoDoc = NoDoc
  Docs <- TwoDocuments
  Unreadable <- Nothing
  Messages <- OneCopy
  Sent = m1
  MaxRetries = 0
  MaxFaults = 1
  MaxCrashes = 0
  Clients <- OneClient
  Count = 2
INVARIANTS
  EndOfStreamIsEndOfJob
