\* Three stored messages, two faults, an Applier that may fail.
CONSTANTS
  Messages <- MCMessages
  NoId = 0
  ApplierMayFail = TRUE
  MaxMessages = 3
  MaxFaults = 2
SPECIFICATION FairSpec
INVARIANTS TypeOK AppliedAtMostOnce AckedAreProcessed LossNeedsFault
PROPERTY ValidAreAcked
CHECK_DEADLOCK FALSE
