SPECIFICATION Spec
CONSTANTS
  Blocks = 8
  Stimuli <- MCMixed
  Char <- MCChar
  KeyOf <- MCKeyOf
  Shifted <- MCShifted
  Size = 3
  Lines <- MCMixedLines
  Presses <- MCMixedPresses
  Unplugs = 1
INVARIANTS UsbSemAccounting MouseReleaseComing KeyReleaseComing
PROPERTIES StringReadInside
CHECK_DEADLOCK FALSE
