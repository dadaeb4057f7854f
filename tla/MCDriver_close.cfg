SPECIFICATION Spec
CONSTANTS
  Kinds <- OneKind
  MaxCaptures = 2
  Timeout = 1
  MaxActivations = 2
  MaxDescriptors = 2
  MaxBytes = 1
  SettingsMayFail = FALSE
INVARIANTS
  PortReleased
