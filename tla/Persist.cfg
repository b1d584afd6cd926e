CONSTANTS
  w1 = w1
  w2 = w2
  w3 = w3
  i1 = i1
  i2 = i2
  i3 = i3
  i4 = i4
  None = None
  Writer <- ThreeWriters
  Inode <- FourInodes
  Size <- Sizes
  MaxVersion = 3
  Discipline = {"exclusive", "spaced"}
  MaxRestarts = 2

SPECIFICATION Spec
SYMMETRY Symmetry

INVARIANTS
  FileWhole

PROPERTIES
  AtomicSaves
