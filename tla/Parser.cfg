CONSTANTS
  Vocabularies <- AllVocabularies
  MaxStack = 7
SPECIFICATION Spec
INVARIANTS TypeOK Grouped PostfixFirst NodesFit Balanced
PROPERTY Terminates
CHECK_DEADLOCK FALSE
