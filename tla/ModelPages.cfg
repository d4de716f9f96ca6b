SPECIFICATION LiveSpec
CONSTANTS
  Ids = {a}
  Values = {old, new}
  old = old
  Empty = Empty
  Gone = Gone
  Loading = Loading
  Idle = Idle
  New = New
  NoAnswer = NoAnswer
  Filters <- MCFilters
  FirstModels <- MCFirstModels
  OutsideStates <- MCOutsideStates
  FirstPages <- MCFirstPages
  MaxFlight <- MCMaxFlight
  MaxMoves <- MCMaxMoves
  MaxChanges <- MCMaxChanges
INVARIANTS
  OneLoop
  FormKeepsEdits
CHECK_DEADLOCK FALSE
PROPERTIES
  PagesCatchUp
  ButtonsComeBack
