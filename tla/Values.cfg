SPECIFICATION Spec
CONSTANTS
  Names = {"a", "b"}
  IntMax = 3
  ByteVals = 4
  MaxLen = 2
  Ops <- AllOps
INVARIANTS TypeOK DeclKept CmpCoherent
