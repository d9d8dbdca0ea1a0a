SPECIFICATION Spec
CONSTANTS
  Names = {"a", "b"}
  Fields = {"x"}
  ConstFields = {}
  Kinds = {"struct", "ref", "call"}
  MaxCells = 3
  MaxArrays = 0
  MaxFrames = 2
VIEW View
INVARIANTS Forest Acyclic
