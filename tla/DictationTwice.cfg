SPECIFICATION DictationSpec
CONSTANTS
  Presses = {1, 2}
  NoPress = 0
CHECK_DEADLOCK FALSE
INVARIANTS
  AudioIsRemoved
