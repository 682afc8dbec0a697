SPECIFICATION InvokeSpec
CONSTANTS
  Document <- MCDocument
  Pieces = {"head", "tail"}
  MaxEvents = 3
  MaxOutput = 4
INVARIANTS AnswerIsWhole
PROPERTIES InvokeEnds
CHECK_DEADLOCK FALSE
