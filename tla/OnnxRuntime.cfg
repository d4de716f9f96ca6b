SPECIFICATION FairSpec
CONSTANTS
  m1 = m1
  m2 = m2
  s1 = s1
  s2 = s2
  s3 = s3
  c1 = c1
  c2 = c2
  NoSession = NoSession
  NoModel = NoModel
  Models <- MCModels
  TextModels <- MCText
  Sessions <- MCSessions
  Clients <- MCClients
  Overrun = FALSE
INVARIANTS
  NoUseAfterDestroy
  OpenTracked
  ShutdownClosesAll
PROPERTIES
  CallsReturn
