\* A redelivered copy of the message runs beside the first; the document is
\* rejected on every attempt.
SPECIFICATION FairSpec
CONSTANTS
  d1 = d1
  d2 = d2
  m1 = m1
  m2 = m2
  NoDoc = NoDoc
  Docs <- OneDocument
  Unreadable <- OneDocument
  Messages <- TwoCopies
  Sent = m1
  MaxRetries = 1
  MaxFaults = 1
  MaxCrashes = 0
INVARIANTS
  TypeOK
  AuditGapless
  StreamIsAudited
PROPERTIES
  EventuallySettled
  EveryStepCounts
