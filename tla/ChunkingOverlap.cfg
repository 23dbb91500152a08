SPECIFICATION Spec
CONSTANTS
  Settings <- LargeOverlap
  MaxLength = 6
PROPERTIES
  StartAdvances
