SPECIFICATION Spec
CONSTANTS
  MEMBLOCK_NUMBER = 3
  Tasks = {t1, t2, t3}
  Cells = {c1, c2}
  NULL = NULL
SYMMETRY Symmetric
INVARIANTS NoLeak SingleOwner
