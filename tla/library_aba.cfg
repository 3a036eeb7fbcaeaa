SPECIFICATION Spec
CONSTANTS
  d1 = d1 d2 = d2
  Devices <- TwoDevices
  MaxDrafts = 4
  MaxLives = 2
SYMMETRY Interchangeable
CHECK_DEADLOCK FALSE
INVARIANT SavesOverWhatWasRead
