CONSTANTS
  Vocabularies <- AllVocabularies
  MaxText = 6
  MaxArgs = 2
SPECIFICATION Spec
INVARIANTS TypeOK TextKept ArgsOnce InBounds
PROPERTY Advances
CHECK_DEADLOCK FALSE
