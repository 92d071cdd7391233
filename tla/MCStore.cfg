CONSTANTS
  Tasks = {t1, t2}
  Convs = {k1, k2}
  Fingerprints = {f1}
  Vaults = {v1}
  None = None
  MaxDay = 1
  MaxHistory = 1
  MaxTurns = 3
SPECIFICATION Spec
SYMMETRY Symmetry
INVARIANT StoreInv
PROPERTIES LinesNeverLost VaultLineStays
