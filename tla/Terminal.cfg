SPECIFICATION Spec
CONSTANTS
  INT_MAX = 127
  PRINT_SIZE = 8
  SCREEN_WIDTH = 24
  SCREEN_HEIGHT = 5
  CHAR_WIDTH = 2
  CHAR_HEIGHT = 1
  BIG_FONT_SIZE = 2
  CLOCK_X = 2
  CLOCK_Y = 2
  CLOCK_LENGTH = 5
  KEYBOARD_SIZE = 3
  LINE_SIZE = 7
  unshifted_keys <- Unshifted
  shifted_keys <- Shifted
  Pressed <- PressedAt
  Command <- Commands
  MaxTyped = 5
  MaxAskew = 2
  MaxOutput = 1
  Workload = {}
INVARIANTS BufferIsString    NumbersSurvive KeysInOrder
