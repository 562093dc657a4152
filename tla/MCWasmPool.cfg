CONSTANTS
  Threads = {t1, t2}
  Lens = {1, 2}
  Faults = {"alloc", "guest", "new"}
  MaxInstances = 4
  MaxCalls = 3
  MaxFaults = 2
  MaxBuffers = 1
SPECIFICATION FairSpec
INVARIANTS TypeOK PoolOwnership InstancesKept BrokenRetired PoolBounded AreaFits NoAreaLeaks
PROPERTIES CallReturns
