SPECIFICATION FairSpec
CONSTANTS
  Blocks = 6
  Stimuli <- MCType
  Char <- MCChar
  KeyOf <- MCKeyOf
  Shifted <- MCShifted
  Size = 6
  Lines <- MCTypeLines
  Presses <- MCTypePresses
  Unplugs = 0
INVARIANTS TypedBack
PROPERTIES KeysReleased ComesToRest
CHECK_DEADLOCK FALSE
