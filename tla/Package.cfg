\* Pauses, failures, crashes and orphaned converters; the job stops when done.
SPECIFICATION FairSpec
CONSTANTS
  Converters = {p1, p2}
  Settings <- AllSettings
CHECK_DEADLOCK FALSE
INVARIANTS
  CompletedIsUsable
  PublishedHasItsKey
PROPERTIES
  Completes
