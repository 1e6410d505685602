CONSTANTS
  Task = {"default", "listener", "dispatcher", "uart", "i2c"}
  MaxJobs = 1
SPECIFICATION FairSpec
INVARIANTS TypeOK ComparesOwnBuffers LogComplete AllocatorGuarded HaltsAtBootOnly WaiterServed
PROPERTIES NoInversion EveryJobEnds
CHECK_DEADLOCK FALSE
