\* Every answer of up to six characters over contexts of one or two chunks.
SPECIFICATION RetrievalSpec
CONSTANTS
  c1 = c1
  c2 = c2
  c3 = c3
  c4 = c4
  c5 = c5
  n1 = n1
  n2 = n2
  Chunks <- FiveChunks
  Namespaces <- TwoNamespaces
  NamespaceOf <- Home
  Score <- Similarity
  Size <- Characters
  TopK = {1, 3}
  MinScore = 2
  MaxContext = 4
  Answers <- ShortAnswers
INVARIANTS
  CitationsAreGrounded
  ContextIsLongestPrefix
  CitationsFollowLabels
  OnlyFalseLabelsRemoved
  LabelsNameSources
