CONSTANTS
  Scripts <- MCScripts
  Responses <- MCResponses
SPECIFICATION FramingSpec
CHECK_DEADLOCK FALSE
INVARIANTS
  OutputExact
  ObservedExact
  CompleteExactly
