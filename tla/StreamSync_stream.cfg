\* Two notifications on two leafs, two SyncResponses, a channel of one, one fault at a time.
CONSTANTS
  Leafs = {l1, l2}
  MaxNotes = 2
  MaxSyncs = 2
  WorkerCounts = {1, 2}
  ChanSize = 1
  Faults = {"none", "cancel", "stream", "tree", "apply", "schema"}
SPECIFICATION Spec
INVARIANTS CommitInv RunningFollowsDevice
PROPERTIES FeedsRunning NotesProgress
CHECK_DEADLOCK FALSE
