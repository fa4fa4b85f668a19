\* Two operators change the status of one request at the same time.
CONSTANTS
  Requests = {r1}
  Handlers = {h1, h2}
  MaxTime = 0
  MaxEvents = 5
  NoEvent = NoEvent
SPECIFICATION Spec
PROPERTY OnlyLegalTransitions
