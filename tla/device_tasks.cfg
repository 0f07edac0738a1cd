CONSTANTS
  Patches <- LifePatches
  MaxFaults = 2
SPECIFICATION FairSpec
INVARIANT OneKeyPerFault
PROPERTY SchedulerRuns
PROPERTY RequestsFinish
