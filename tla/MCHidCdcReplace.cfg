SPECIFICATION FairSpec
CONSTANTS
  Blocks = 5
  Stimuli <- MCTwice
  Char <- MCChar
  KeyOf <- MCKeyOf
  Shifted <- MCShifted
  Size = 4
  Lines <- MCReplaceLines
  Presses <- MCReplacePresses
  Unplugs = 0
PROPERTIES KeysReleased
CHECK_DEADLOCK FALSE
