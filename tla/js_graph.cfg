SPECIFICATION Spec
CONSTANTS
  j1 = j1  j2 = j2  j3 = j3  j4 = j4
  Jobs = {j1, j2, j3, j4}
  Graphs <- OnlyDiamond
  Affinity <- AllAnywhere
  Spawned <- None
  Preemptible <- None
  PreemptIdle = FALSE
  Barriers <- None
  NoBarrier = NoBarrier
  ThreadCount = 3
  MaxStealingAttempts = 1
  QueueSize = 4
  SizeMax = 7
  NoThread = NoThread
  NoJob = NoJob
SYMMETRY SwapMiddle
INVARIANT TypeOK
INVARIANT ExclusiveExecution
INVARIANT DependencyOrder
INVARIANT PendingSound
PROPERTY LifeCycle
