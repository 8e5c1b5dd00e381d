SPECIFICATION Spec
CONSTANTS
  MaxAttempts = 3
  Sends = 3
  Troubles = {"crash", "throw", "early", "lease", "stop"}
  MaxFaults = 3
  Graphs <- MCGraphs
  Runnable <- MCRunnable
INVARIANT OrderIsCanonical
INVARIANT OneAttemptInOrder
INVARIANT BilledOnce
INVARIANT StatusIsHonest
PROPERTY QueuedIsTaken
CHECK_DEADLOCK FALSE
