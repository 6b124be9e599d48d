\* Two Sets without faults.
CONSTANTS
  Callers = {"dmutex", "tmMutex"}
  MaxSets = 2
  MaxDrops = 0
  MaxEvents = 2
  Modes = {"candidate"}
  Faults = {"none"}
SPECIFICATION MCSpec
INVARIANT CandidateIsDiscarded
CHECK_DEADLOCK FALSE
