SPECIFICATION Spec
CONSTANTS
  MaxTurns = 2
  MaxCommands = 2
  MaxStreams = 5
  Ident <- MCIdent
  None = None
INVARIANT LoopIsHeard
CHECK_DEADLOCK FALSE
