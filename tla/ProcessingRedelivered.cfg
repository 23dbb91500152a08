\* Two copies of the message at once; no fault, the retries of the actor.
SPECIFICATION Spec
CONSTANTS
  d1 = d1
  d2 = d2
  m1 = m1
  m2 = m2
  NoDoc = NoDoc
  Docs <- OneDocument
  Unreadable <- Nothing
  Messages <- TwoCopies
  Sent = m1
  MaxRetries = 5
  MaxFaults = 0
  MaxCrashes = 0
INVARIANTS
  CompletedStaysSearchable
