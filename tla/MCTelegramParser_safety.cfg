SPECIFICATION Spec
CONSTANTS
  Payloads <- FewPoints
  Addresses = {7, 8}
  DEVICE_ADDR = 7
  Fields = {1, 2}
  Sizes <- SomeSizes
  Received <- AroundTheEnds
  SizeWidth = 65536
INVARIANTS
  TypeOK
  AcceptsCompleteTelegrams
  MembersDescribeAccepted
