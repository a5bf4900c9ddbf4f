SPECIFICATION Spec
CONSTANTS
  Consoles = {"posix", "nt"}
  Strokes = {"a", "e2", " ", "up", "down", "left", "right", "home", "delete", "enter", "backspace", "esc", "ctrl_a", "ctrl_k", "ctrl_w"}
  MaxStrokes = 4
INVARIANTS KeysAreNotText
CHECK_DEADLOCK FALSE
