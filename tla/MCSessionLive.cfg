CONSTANTS
  Modes = {"off", "detect", "replace"}
  Provider = "anthropic"
  Convs = {k1, k2}
  SessionUuid = session
  None = None
  MaxTurns = 2
  MaxDeltas = 1
  MaxBuffer = 1
  SplitTerminator = FALSE
  Bodyless = FALSE
SPECIFICATION LiveSpec
INVARIANTS
  ResponseWellFramed
  NothingWithheld
PROPERTIES
  ClientCloseEndsSession
  UpstreamLossEndsSession
