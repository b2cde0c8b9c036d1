\* One entry, one exit and one run; two pages and a position to spare.
SPECIFICATION Spec
CONSTANTS
  Calls = {e, run, 1}
  Entries = {e}
  Exits = {1}
  MaxRetries = 1
  MaxPolls = 2
  PageSize = 2
  MaxPages = 1
  Threshold = 1
  MaxId = 4
INVARIANTS ListsAllHeld
PROPERTIES KeepsOrderPromise ListingsEnd
