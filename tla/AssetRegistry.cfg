\* One user asset, one derived content under two keys, two calls, two drains.
SPECIFICATION FairSpec
CONSTANTS
  Asset = {"photo"}
  Derived = {"page"}
  Derivation = {"first", "second"}
  Call = {"one", "two"}
  Drainer = {"timer", "deletion"}
  MaxFaults = 1
INVARIANTS ReadyHasBytes NothingStray
PROPERTIES QueuedGoes
CHECK_DEADLOCK FALSE
