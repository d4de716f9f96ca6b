SPECIFICATION ViewSpec
CONSTANTS
  d1 = d1
  b1 = b1
  b2 = b2
  t1 = t1
  s1 = s1
  Ids <- MCIds
  Bufs <- MCBufs
  Runtimes <- MCRuntimes
  Subs <- MCSubs
  Cap = 2
  QueueCap = 1
  Replays <- MCReplays
  MaxLines = 2
  None = None
  MaxView <- MCMaxView
  KeepView <- MCKeepView
  Replay <- MCReplay
  MaxBreaks <- MCMaxBreaks
SYMMETRY MCSymmetry
INVARIANTS
  ViewFollows
  NoGap
  MirrorFollows
