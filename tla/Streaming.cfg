\* One document, one fault, one crash; the client drops and resumes at will.
SPECIFICATION StreamFairSpec
CONSTANTS
  d1 = d1
  d2 = d2
  m1 = m1
  c1 = c1
  NoDoc = NoDoc
  Docs <- OneDocument
  Unreadable <- Nothing
  Messages <- OneCopy
  Sent = m1
  MaxRetries = 0
  MaxFaults = 1
  MaxCrashes = 1
  Clients <- OneClient
  Count = 2
INVARIANTS
  StreamTypeOK
  ResumeIsSeamless
  CompletedIsTrue
  EndHasEverything
PROPERTIES
  ClientIsReleased
