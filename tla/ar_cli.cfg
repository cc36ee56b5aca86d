SPECIFICATION Spec
CONSTANTS
  Accounts = {a}
  FromBlock = 1
  BatchSize = 2
  ArKey <- Key
  MaxBlocks = 3
  MaxFaults = 1
INVARIANTS EventsBelowCheckpoint KeysBelowCheckpoint
PROPERTIES KeysErasedOnlyAtCheckpoint EventsAreMatched
