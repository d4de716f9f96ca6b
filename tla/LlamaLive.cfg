SPECIFICATION FairSpec
CONSTANTS
  m1 = m1
  m2 = m2
  i1 = i1
  i2 = i2
  i3 = i3
  p1 = p1
  p2 = p2
  NoInst = NoInst
  NoPort = NoPort
  NoModel = NoModel
  c1 = c1
  Models <- MCModels1
  Insts <- MCInsts2
  Ports <- MCPorts1
  PortsOf <- MCPortsOf1
  Clients <- MCNoClients
  Faults <- AllFaults
PROPERTIES
  PortsComeBack
  OperationsReturn
