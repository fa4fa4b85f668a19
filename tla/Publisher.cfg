\* Batches of two, four rows, two seconds, two faults; status changes have
\* no route and stop the batches they stand in.
CONSTANTS
  Rows <- MCRows
  Routes <- createdOnly
  Seconds = {0, 1}
  BatchSize = 2
  MaxEvents = 4
  MaxFaults = 2
SPECIFICATION FairSpec
INVARIANTS MarkedAreStored DuplicatesNeedFaults PublishedInOrder
PROPERTY EveryRowPublished
CHECK_DEADLOCK FALSE
