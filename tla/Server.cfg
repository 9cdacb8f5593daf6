SPECIFICATION Spec
CONSTANTS
  Chars <- MCChars
  Blank <- MCBlank
  Newline <- MCNewline
  CharsPerToken = 2
  Documents <- MCDocuments
  Sizes <- MCSizes
  Name <- MCName
  Nobody = "none"
  Anything = "none"
  Questions <- MCQuestions
  Repos = {"repo"}
  Sources = {"mcp/a", "mcp/b"}
  CacheTtl = 1
  MaxRead = 1
  MaxCall = 1
  Requests = {1, 2}
  MaxDeliveries = 2
  MaxStates = 3
  MaxAge = 1
  Connections = {c1, c2}
  MaxTokens = 3
  Tools = {"get_page", "get_and_set"}
  ReadNames = {"get_page", "get_and_set"}
  WriteNames = {"get_and_set"}
  MaxSyncs = 1
SYMMETRY Symmetry
INVARIANTS ReassemblesExactly ChunksFit EvidenceLines RelatedExactly StatusJustified
INVARIANTS CodesReachTheirLogin OneAnswerEach WorksUnattended NoWriteIsCalled CheckedBeforeCalled
PROPERTY AnswersStayInScope
CHECK_DEADLOCK FALSE
