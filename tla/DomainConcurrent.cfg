\* Two calls in flight, two requests, two clock readings, four commits.
CONSTANTS
  Requests = {r1, r2}
  Handlers = {h1, h2}
  MaxTime = 1
  MaxEvents = 4
  NoEvent = NoEvent
SPECIFICATION Spec
SYMMETRY Symmetry
INVARIANTS TypeOK TableMatchesOutbox CreatedFirst PreviousStatusWasReal
