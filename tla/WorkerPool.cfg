\* Safety, refinement and liveness of the worker pool.
SPECIFICATION FairSpec
CONSTANTS
  j1 = j1
  j2 = j2
  j3 = j3
  j4 = j4
  w1 = w1
  w2 = w2
  c1 = c1
  c2 = c2
  NoJob = NoJob
  Jobs <- MCJobs
  Stubborn <- MCStubborn
  Workers <- MCWorkers
  Closers <- MCClosers
  QueueSize = 2
INVARIANTS
  TypeOK
  ChannelNeverPanics
  EveryJobInOnePlace
  ShutdownReturnsDrained
PROPERTIES
  ImplementsJobService
  ShutdownReturns
  QueueMoves
