SPECIFICATION Spec
CONSTANTS
  MaxLines = 2
  Kinds = {"msg"}
  MaxTools = 1
  MaxQuestions = 0
  Paths = {}
  NoPath = NoPath
PROPERTIES EventsShown
