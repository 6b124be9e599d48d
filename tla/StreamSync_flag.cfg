\* One notification and two SyncResponses without faults.
CONSTANTS
  Leafs = {l1}
  MaxNotes = 1
  MaxSyncs = 2
  WorkerCounts = {1}
  ChanSize = 1
  Faults = {"none"}
SPECIFICATION Spec
INVARIANT FlagCoversCommits
CHECK_DEADLOCK FALSE
