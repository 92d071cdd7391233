CONSTANTS
  Tasks = {t1}
  Convs = {k1, k2}
  Fingerprints = {f1}
  Vaults = {v1, v2}
  None = None
  MaxDay = 1
  MaxHistory = 2
  MaxTurns = 3
SPECIFICATION Spec
SYMMETRY Symmetry
INVARIANTS LoadReturnsLastSave HistoryStoredOnce
