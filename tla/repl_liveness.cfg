SPECIFICATION FairSpec
CONSTANTS
  MaxLines = 2
  Kinds = {"msg", "stop", "quit"}
  MaxTools = 1
  MaxQuestions = 1
  Paths = {p}
  NoPath = NoPath
PROPERTIES StopEndsTurn TurnReleased CredentialServed
