SPECIFICATION FairSpec
CONSTANTS
  Kinds <- OneKind
  MaxCaptures = 3
  TelegramSize = 2
  MaxNoise = 2
  BufSize = 5
  TtySize = 5
INVARIANTS
  TypeOK
  StreamInOrder
PROPERTIES
  ReachedScanIsReturned
  LosesNoTwoInARow
  Resynchronises
