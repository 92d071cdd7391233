CONSTANTS
  Conns = {c1, c2}
  Convs = {k1}
  Handles = {h1, h2, h3, h4, h5}
  Originals = {o1, o2}
  None = None
  TTLCoversTurn = TRUE
SPECIFICATION Spec
SYMMETRY Symmetry
INVARIANTS
  RegistryInv
  OneVaultPerKey
  NoSharedVault
  MappingsReachable
