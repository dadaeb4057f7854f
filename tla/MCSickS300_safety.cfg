SPECIFICATION Spec
CONSTANTS
  Kinds <- AllKinds
  MaxCaptures = 3
  Timeout = 1
  MaxActivations = 2
INVARIANTS
  TypeOK
  IInv
  NeverAborts
  ScannerNotShared
  ReadsOpenPort
  PublishesNewScans
  PublishesWhatWasScanned
PROPERTIES
  MailboxKeepsNewest
  SilenceNeverMissed
  ImplementsTopics
