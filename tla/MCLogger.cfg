CONSTANTS
  t1 = t1
  t2 = t2
  Loads <- MCLoads
  Consumer = c
  m_set_level = 2
  MaxMessages = 1
SPECIFICATION FairSpec
CHECK_DEADLOCK FALSE
INVARIANTS
  RaceOnlyAfterTheft
  NoMessageLost
  BatchesInOrder
  OneBatchPastLimit
PROPERTIES
  EveryBatchWritten
