SPECIFICATION Spec
CONSTANTS
  Rows = {1, 2}
  Cols = {1, 2}
  Kind <- KindTwoByTwo
  KB_RM_GHOST_KEY_EN = TRUE
  KB_RETURN_KEY_MAX = 1
  Calls <- ThreeCalls
  MaxMove = 5
INVARIANTS TypeOK NewestIsCurrent StoppedReleased
PROPERTIES NoGhostKey RingIsFifo SettledKeysReported
