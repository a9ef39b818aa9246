\* An owner and a device that is linked, which has a second tab.
SPECIFICATION DeviceSpec
CONSTANTS
  Bootstrap = {"own", "guest"}
  Owner = "own"
  Lingering = {"guest"}
  Capability = {"link"}
  Call = {"one", "two"}
  MaxCalls = 5
INVARIANTS MembersAreRightful DeletionIsFinal RetryAgrees
PROPERTIES NothingAbandoned EveryCallSettles
CHECK_DEADLOCK FALSE
