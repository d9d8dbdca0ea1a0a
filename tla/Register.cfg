CONSTANTS
  Items <- AllItems
  MaxItems = 4
SPECIFICATION Spec
INVARIANTS TypeOK OneArrayType NoCrash RedefinitionFound
CHECK_DEADLOCK FALSE
