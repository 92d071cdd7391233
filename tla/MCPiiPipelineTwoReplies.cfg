CONSTANTS
  Tasks = {t1}
  Originals = {o1, o2}
  Displays = {d1, d2, d3}
  Word = Word
  Close = Close
  MaxEntries = 1
  MaxCells = 2
SPECIFICATION Spec
SYMMETRY Symmetry
INVARIANTS
  SlmTokensKnown
