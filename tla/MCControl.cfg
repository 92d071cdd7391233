CONSTANTS
  Models = {m1}
  AutoModel = m1
  None = None
  Bad = Bad
  Ner = Ner
  Tasks = {t1, t2}
  Downloads = {d1, d2}
  Children = {c1, c2, c3}
  Patches <- MCPatches
  MaxRequests = 3
  MaxCommands = 1
  CliLevels = {"detect-only", "three"}
  CliChoices <- MCChoices
  UserFiles <- MCFiles
  MaxStops = 1
SPECIFICATION Spec
SYMMETRY Symmetry
INVARIANTS
  DiskIsMemory
  TiersValid
  NoOrphanSidecar
  TrackedIsRunning
  LevelShown
CHECK_DEADLOCK FALSE
