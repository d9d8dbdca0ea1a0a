SPECIFICATION Spec
CONSTANTS
  Names = {"a", "b"}
  Fields = {"x", "y"}
  ConstFields = {"y"}
  Kinds = {"struct", "array"}
  MaxCells = 6
  MaxArrays = 1
  MaxFrames = 1
VIEW View
INVARIANTS Forest
PROPERTIES ConstFieldsKept
