SPECIFICATION Spec
CONSTANTS
  Shapes <- UnroutedUpgrade
  Answers <- LiveAnswers
  MaxRequests = 2
  RequestTimeout = TRUE
  Tls = FALSE
INVARIANT CallbackIsSet
