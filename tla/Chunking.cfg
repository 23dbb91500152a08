SPECIFICATION Spec
CONSTANTS
  Settings <- ModerateSettings
  MaxLength = 8
INVARIANTS
  TypeOK
  Coverage
  ChunksProgress
  PageOfLastMarker
PROPERTIES
  StartAdvances
