SPECIFICATION FairSpec
CONSTANTS
  StorageSize = 3
  Segments <- MCSegments
  HeapSessions = 2
  MaxSegments = 4
  MaxRepeated = 2
INVARIANTS
  TypeOK
  SessionMatchesConnection
  EchoIsComplete
  HangsOnlyIfOverfull
PROPERTY CompleteLineEchoed
