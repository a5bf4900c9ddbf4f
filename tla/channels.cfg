SPECIFICATION Spec
CONSTANTS
  None = None
  MaxTurns = 3
  MaxCommands = 2
  MaxStreams = 6
  Ident <- MCIdent
  Consoles = {"posix", "nt"}
  Strokes = {"a", "e2", " ", "up", "down", "left", "right", "home", "delete", "enter", "backspace", "esc", "ctrl_a", "ctrl_k", "ctrl_w"}
  MaxStrokes = 4
  Cmds = {"fru", "dump", "/dump", "pci", "cat", "wipe"}
  Wires = {"fru", "/dump", "pci", "cat", "wipe"}
  SudoWires = {"fru"}
  Denied = {"cat"}
  Gated = {"wipe"}
  WireOf <- MCWireOf
  Endings <- MCEndings
  ProgramOf <- MCProgramOf
  Table <- MCTable
  Missing <- MCMissing
  Services <- MCServices
  Plans <- MCPlans
  SetupOf <- MCSetupOf
  ModelProbe = "fru"
  Chain = {"/dump"}
  MaxLate = 2
  MaxCalls = 2
  Users = {"run", "probe"}
  Labels = {"fans", "nvme"}
  Numberings <- MCNumberings
  MaxRuns = 2
  MaxLaunches = 2
  Conns = {c1}
  MaxBytes = 2
INVARIANTS TypeOK NeverFedBack LineIsTyped OutputIsItsOwn SpokenToTheNode NothingLeftOpen RanWhatItSays
PROPERTIES Relays
