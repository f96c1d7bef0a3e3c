SPECIFICATION Spec
CONSTANTS
  StorageSize = 3
  Segments <- MCSegments
  HeapSessions = 2
  MaxSegments = 4
  MaxRepeated = 0
INVARIANT CallbacksReturn
