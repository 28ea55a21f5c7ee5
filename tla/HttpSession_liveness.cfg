SPECIFICATION FairSpec
CONSTANTS
  Shapes <- LiveShapes
  Answers <- LiveAnswers
  MaxRequests = 2
  RequestTimeout = TRUE
  Tls = TRUE
PROPERTIES SessionEnds AnswerIsWritten
