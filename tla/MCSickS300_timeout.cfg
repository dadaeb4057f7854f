SPECIFICATION Spec
CONSTANTS
  Kinds <- OneKind
  MaxCaptures = 2
  Timeout = 1
  MaxActivations = 1
PROPERTIES
  CommErrorMeansSilence
