SPECIFICATION Spec
CONSTANTS
  Kinds <- TwoKinds
  MaxCaptures = 3
  TelegramSize = 3
  MaxNoise = 0
  BufSize = 6
  TtySize = 6
INVARIANTS
  NoScanLeftBehind
  IInv
PROPERTIES
  ImplementsSource
