SPECIFICATION Spec
CONSTANTS
  MaxLines = 1
  Kinds = {"msg"}
  MaxTools = 1
  MaxQuestions = 0
  Paths = {p, q}
  NoPath = NoPath
INVARIANTS SecretMatchesPath
