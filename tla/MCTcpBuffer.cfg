CONSTANTS
  a = a
  z = z
  Bytes = {a, z}
  Zero = z
  InitSize = 6
  MaxPiece = 3
  MaxSize = 18
  Roles = {"in", "out"}
SPECIFICATION Spec
INVARIANTS
  TypeOK
  IndicesInBounds
  ContentIsExpected
