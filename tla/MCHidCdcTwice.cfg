SPECIFICATION Spec
CONSTANTS
  Blocks = 4
  Stimuli <- MCTwice
  Char <- MCChar
  KeyOf <- MCKeyOf
  Shifted <- MCShifted
  Size = 3
  Lines <- MCTwiceLines
  Presses <- MCTwicePresses
  Unplugs = 0
INVARIANTS TypedBack
CHECK_DEADLOCK FALSE
