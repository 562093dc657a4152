CONSTANTS
  Threads = {t1}
  Lens = {1, 2, 3}
  Faults = {}
  MaxInstances = 1
  MaxCalls = 3
  MaxFaults = 0
  MaxBuffers = 1
SPECIFICATION Spec
INVARIANT DeallocMatches
