SPECIFICATION Spec
CONSTANTS
  MaxItems = 2
  MaxUnnamed = 1
  Amounts <- OneOrTwo
CHECK_DEADLOCK FALSE
INVARIANT TranslationKeepsQuantities
