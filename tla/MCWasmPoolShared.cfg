CONSTANTS
  Threads = {t1, t2}
  Lens = {1, 2}
  Faults = {}
  MaxInstances = 2
  MaxCalls = 2
  MaxFaults = 0
  MaxBuffers = 1
SPECIFICATION Spec
INVARIANT IterAreaLive
