SPECIFICATION FairSpec
CONSTANTS
  j1 = j1  j2 = j2  j3 = j3  j4 = j4
  Jobs = {j1, j2, j3, j4}
  Graphs <- OnlyCouple
  Affinity <- Pinned
  Spawned = {j4}
  Preemptible = {j3}
  PreemptIdle = FALSE
  Barriers = {b1}
  NoBarrier = NoBarrier
  ThreadCount = 2
  MaxStealingAttempts = 1
  QueueSize = 4
  SizeMax = 7
  NoThread = NoThread
  NoJob = NoJob
INVARIANT CountersSound
INVARIANT AffinityRespected
PROPERTY ImplementsTaskGraph
PROPERTY WaitTerminates
PROPERTY ShutdownTerminates
