\* Two Sets next to the two sync goroutines, two failures of the transport, one kind of fault.
CONSTANTS
  Callers = {"dmutex", "tmMutex"}
  MaxSets = 2
  MaxDrops = 2
  MaxEvents = 3
  Modes = {"running", "candidate"}
  Faults = {"none", "restart", "refuse", "stop"}
SPECIFICATION MCSpec
INVARIANTS DriverInv RefusedStaysOut
PROPERTIES OkMeansCommitted Recovers
CHECK_DEADLOCK FALSE
