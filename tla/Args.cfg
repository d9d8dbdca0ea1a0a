SPECIFICATION Spec
CONSTANTS
  Names = {"a", "b", "r"}
  Funcs <- SomeFuncs
  Plains = {"p", "q"}
  NoName = "none"
  MaxArgs = 3
  MaxItems = 2
  MaxCalls = 2
INVARIANTS TypeOK SlotsSet NamedVaLast BoundAsMeant
