SPECIFICATION Spec
CONSTANTS
  d1 = d1
  r1 = r1
  r2 = r2
  x1 = x1
  x2 = x2
  llamacpp = llamacpp
  onnx = onnx
  Unused = Unused
  Gone = Gone
  NoMutex = NoMutex
  NoId = NoId
  Ids <- MCIds
  Reqs <- OneReq
  Mutexes <- MCMutexes
  Runtimes <- OneRuntime
  Fields <- TwoFields
  Values <- MCValues
  Ops <- AllOps
  Faults <- BootFaults
INVARIANTS
  NoZombie
  
