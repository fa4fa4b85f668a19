\* One call in flight, two events, one fault in each of publisher and worker.
CONSTANTS
  Requests = {r1}
  Handlers = {h1}
  MaxTime = 0
  MaxEvents = 2
  NoEvent = NoEvent
  BatchSize = 2
  MaxPublisherFaults = 1
  MaxWorkerFaults = 1
SPECIFICATION FairSpec
PROPERTIES DeliveryPromise PublisherAssumptions WorkerAssumptions CreationsTakeEffect
CHECK_DEADLOCK FALSE
