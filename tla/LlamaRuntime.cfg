SPECIFICATION Spec
CONSTANTS
  m1 = m1
  m2 = m2
  i1 = i1
  i2 = i2
  i3 = i3
  p1 = p1
  p2 = p2
  NoInst = NoInst
  NoPort = NoPort
  NoModel = NoModel
  c1 = c1
  Models <- MCModels
  Insts <- MCInsts
  Ports <- MCPorts
  PortsOf <- MCPortsOf
  Clients <- MCClients
  Faults <- HandledFaults
SYMMETRY MCSymmetry
INVARIANTS
  DistinctPorts
  RequestsArrive
  ShutdownStopsAll
  Tracked
  NoPortLeak
PROPERTIES
  ImplementsLifecycle
