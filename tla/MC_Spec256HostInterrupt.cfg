CONSTANTS
  PayloadBytes = {0, 78}
  BASE_PAYLOAD_SIZE = 1
  BACKGROUND_SIZE = 1
  MAX_BACKGROUNDS = 1
  KeyCounts = {0, 5}
  Room = 3
  MaxSends = 1
  MaxLost = 0
  MaxEvents = 2
  MaxStray = 1
  Codes = {99, 42, 14, 56, 100}
  Bits = {1, 2}
SPECIFICATION HostSpec
INVARIANTS NothingLeftLatched
CHECK_DEADLOCK FALSE
