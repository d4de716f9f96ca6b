SPECIFICATION Spec
CONSTANTS
  Cap <- MCCap
  Replay <- MCReplay
  QueueCap <- MCQueueCap
  WireCap <- MCWireCap
  MaxShown <- MCMaxShown
  MaxLines <- MCMaxLines
  MaxBoots <- MCMaxBoots
  MaxFaults <- MCMaxFaults
INVARIANTS
  ShownIsLog
  OneStream
PROPERTIES
  ViewerCatchesUp
  DrainEnds
