\* Two branches, two files, two transient failures.
CONSTANTS
  Branches = {A, B}
  Paths = {p, q}
  Main = main
  NoPull = NoPull
  MaxVersion = 2
  MaxGitFaults = 2
SPECIFICATION PullSpec
SYMMETRY Symmetry
INVARIANTS ReturnedIsPublished RetryGetsAsFar ForeignFilesNeedCause
PROPERTY RepeatChangesNothing
