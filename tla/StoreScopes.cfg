SPECIFICATION Spec
CONSTANTS
  Names = {"a", "b"}
  Fields = {"x"}
  ConstFields = {}
  Kinds = {"const", "block", "call"}
  MaxCells = 3
  MaxArrays = 0
  MaxFrames = 3
VIEW View
INVARIANTS TypeOK
PROPERTIES CallersKept ConstKept
