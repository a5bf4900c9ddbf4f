SPECIFICATION Spec
CONSTANTS
  MaxLines = 3
  Kinds = {"msg", "context", "stop", "resume", "quit"}
  MaxTools = 1
  MaxQuestions = 2
  Paths = {}
  NoPath = NoPath
INVARIANTS OneWorker SeededOnce
PROPERTIES ReapedTurnHadNoReport AnswerTakenOnce
