\* One HTTP request at a time, two rows, two clock readings, three commits,
\* titles around a limit of one rune, lists around a limit of two rows.
CONSTANTS
  Ids <- MCIds
  Handlers = {h1}
  MaxTime = 1
  MaxEvents = 3
  NoEvent = NoEvent
  Subjects <- MCSubjects
  Operators <- MCOperators
  MaxTitle = 1
  DefaultList = 1
  MaxList = 2
SPECIFICATION Spec
INVARIANTS AnswersTellTheTruth CreateChecksAgree UsersSeeTheirOwn 
