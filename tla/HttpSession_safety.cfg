SPECIFICATION Spec
CONSTANTS
  Shapes <- PlainShapes
  Answers <- MCAnswers
  MaxRequests = 2
  RequestTimeout = TRUE
  Tls = FALSE
INVARIANTS TypeOK Framing InOrder BodyIntegrity CloseIsLast DeadlineCovers
PROPERTIES ExchangeSpec
