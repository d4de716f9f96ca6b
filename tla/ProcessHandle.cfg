SPECIFICATION Spec
CONSTANTS
  t1 = t1
  t2 = t2
  Callers <- MCCallers
  PipeCap = 1
  MaxLines = 2
  Faults <- EveryFault
INVARIANTS
  AllLinesDelivered
  TerminatedIsGone
PROPERTIES
  ExitIsNoticed
  TerminateReturns
