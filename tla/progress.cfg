SPECIFICATION FairSpec
CONSTANTS
  Probes = {q1}
  MaxSteps = 8
  MaxActions = 1
  Options <- MCOptions
  a = a
  b = b
  c = c
  h1 = h1
  h2 = h2
  p1 = p1
  p2 = p2
  Tokens <- MCTokens
  LabelOf <- MCLabelOf
  HostOf <- MCHostOf
  PathOf <- MCPathOf
  Stored <- MCStored
  Workers = 2
  None = None
  Torn = Torn
  OldKey = OldKey
  Conns = {c1}
  MaxBytes = 1
CHECK_DEADLOCK FALSE
INVARIANTS FleetIsSound
PROPERTIES RunEnds FleetEnds HangUpClosesPair
