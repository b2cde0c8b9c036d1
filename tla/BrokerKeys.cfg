\* One run, and GMO that rejects the keys.
SPECIFICATION Spec
CONSTANTS
  Calls = {run}
  Entries = {}
  Exits = {}
  MaxRetries = 3
  MaxPolls = 20
  PageSize = 100
  MaxPages = 100
  Threshold = 3
  MaxId = 1
INVARIANT RejectedKeysStopEntries
