CONSTANTS
  Tasks = {t1, t2}
  Originals = {o1, o2}
  Displays = {d1, d2, d3}
  Word = Word
  Close = Close
  MaxEntries = 2
  MaxCells = 3
SPECIFICATION Spec
SYMMETRY Symmetry
INVARIANTS
  EchoRestored
  FoundIsReplaced
  VaultSound
