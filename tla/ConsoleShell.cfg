SPECIFICATION LiveSpec
CONSTANTS
  Keys = {k}
  NoKey = NoKey
  Nothing = Nothing
  MaxFlight <- MCMaxFlight
  MaxMoves <- MCMaxMoves
  MaxChanges <- MCMaxChanges
INVARIANTS
  OneQuery
PROPERTIES
  TelemetryForward
  ShellCatchesUp
CHECK_DEADLOCK FALSE
