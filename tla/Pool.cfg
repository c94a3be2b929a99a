SPECIFICATION Spec
CONSTANTS
  Procs = {g1, g2, g3}
  g1 = g1
  g2 = g2
  g3 = g3
  Item = {a, b, c, d}
  a = a
  b = b
  c = c
  d = d
  Pointer = {p1, p2, p3, p4}
  p1 = p1
  p2 = p2
  p3 = p3
  p4 = p4
  Zero = Zero
  Nil = Nil
SYMMETRY Symmetry
INVARIANTS TypeOK PointersAreSpare
PROPERTY ImplementsItemPool
