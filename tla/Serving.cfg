\* One API process with a readiness probe and one worker start at the same
\* time, with settings that may disagree; a fault and a crash at any point.
SPECIFICATION ServingFairSpec
CONSTANTS
  api = api
  worker = worker
  probe = probe
  c1 = c1
  n1 = n1
  Apis <- OneApi
  Workers <- OneWorker
  Probes <- OneProbe
  Server <- TheServer
  Dims = {1, 2}
  NoCollection = NoCollection
  MaxFaults = 1
  MaxCrashes = 1
  Chunks <- OneChunk
  Namespaces <- OneNamespace
  NamespaceOf <- Home
  Score <- Similarity
  Size <- Characters
  TopK = {1}
  MinScore = 2
  MaxContext = 4
  Answers <- OneAnswer
  BatchSize = 2
  MaxChunks = 3
  Api = api
  Worker = worker
INVARIANTS
  ServingTypeOK
  StartedIsUsable
  IndexIsMade
  EveryChunkEmbedded
PROPERTIES
  AllStart
  QueryIsAnswered
