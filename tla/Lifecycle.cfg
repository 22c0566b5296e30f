\* Starts, migrations, shutdowns, crashes and upgrades of the process.
SPECIFICATION FairLifecycleSpec
CONSTANTS
  j1 = j1
  j2 = j2
  j3 = j3
  w1 = w1
  NoTx = NoTx
  NoJob = NoJob
  Jobs <- MCJobs
  Workers <- MCWorkers
  QueueSize = 1
  Builds <- MCBuilds
  Once <- MCOnce
  MaxTrouble = 4
INVARIANTS
  LifecycleTypeOK
  SchemaMatchesRecord
  WorksOnlyReady
PROPERTIES
  SignalStops
  StartsAgain
