CONSTANTS
  UInt16Max = 65535
  Int16Max = 15
  UInt32Max = 90
  LongLongMax = 400
  LongMax = 40
  UIntMax = 2
  ULongMax = 9000
  DoubleMax = 2000000
  IcaoMax = 1
  Absent = Absent
  Address <- MCAddress
  MsgType <- MCMsgType
  Lines <- MCLines
SPECIFICATION Spec
INVARIANTS
  TypeOK
  MessagesAsAssumed
  RecordFollowsFeed
  ReportAccurate
