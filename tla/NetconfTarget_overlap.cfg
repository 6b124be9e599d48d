\* Two Sets that overlap, without faults.
CONSTANTS
  Callers = {"dmutex", "tmMutex"}
  MaxSets = 2
  MaxDrops = 0
  MaxEvents = 2
  Modes = {"candidate"}
  Faults = {"none"}
SPECIFICATION MCSpec
PROPERTY EveryOkIsCommitted
CHECK_DEADLOCK FALSE
