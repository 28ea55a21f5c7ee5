SPECIFICATION Spec
CONSTANTS
  Shapes <- Posts
  Answers <- LiveAnswers
  MaxRequests = 2
  RequestTimeout = TRUE
  Tls = FALSE
INVARIANT AnswersEndOnce
