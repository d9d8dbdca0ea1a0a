CONSTANTS
  Vocabularies <- AllVocabularies
  MaxStack = 5
SPECIFICATION Spec
PROPERTY NestedFunc
CHECK_DEADLOCK FALSE
