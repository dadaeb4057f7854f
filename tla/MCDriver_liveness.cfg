SPECIFICATION FairSpec
CONSTANTS
  Kinds <- OneKind
  MaxCaptures = 2
  Timeout = 0
  MaxActivations = 2
  MaxDescriptors = 2
  MaxBytes = 1
  SettingsMayFail = FALSE
INVARIANTS
  TypeOK
  DeviceIsOpen
  OnlyOverwrittenLeak
  ReadEndsByItself
PROPERTIES
  PortStaysWhileReading
  JoinedThreadEnds
  ReadReturns
  DeactivationCompletes
  DestructionCompletes
  SilenceReported
  ScanPublished
