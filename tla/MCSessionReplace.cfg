CONSTANTS
  Modes = {"replace"}
  Provider = "anthropic"
  Convs = {k1, k2}
  SessionUuid = session
  None = None
  MaxTurns = 3
  MaxDeltas = 2
  MaxBuffer = 0
  SplitTerminator = FALSE
  Bodyless = TRUE
SPECIFICATION Spec
INVARIANTS
  ResponseWellFramed
  TextReversed
  StoredUnderOwnConversation
  VaultSavedWithItsConversation
  StoredBeforeComplete
  NothingWithheld
