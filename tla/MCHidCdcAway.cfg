SPECIFICATION FairSpec
CONSTANTS
  Blocks = 4
  Stimuli <- MCAway
  Char <- MCChar
  KeyOf <- MCKeyOf
  Shifted <- MCShifted
  Size = 3
  Lines <- MCTwiceLines
  Presses <- MCAwayPresses
  Unplugs = 1
PROPERTIES ComesToRest
CHECK_DEADLOCK FALSE
