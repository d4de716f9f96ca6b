SPECIFICATION PortsFairSpec
CONSTANTS
  RangeStart = 2
  RangeEnd = 4
  FixedPorts = {6}
  c1 = c1
  c2 = c2
  Clients <- MCClients
  Nobody = Nobody
INVARIANTS
  NoFalseExhaustion
PROPERTIES
  ImplementsPool
