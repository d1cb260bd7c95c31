CONSTANTS
  Channels = {1, 3, 6}
  Frames = {1, 2}
  Levels = {10, 52, 61, 62}
SPECIFICATION CodecsSpec
CHECK_DEADLOCK FALSE
INVARIANTS
  FormatsInverse
  PlanesInPlace
  CapsAgree
  DecodersFound
