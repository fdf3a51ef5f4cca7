SPECIFICATION Spec
CONSTANTS
  a = a
  r = r
  Images <- MCImages
  Recovery <- r
  Length <- MCLength
  Size = 3
  PageSize = 2
  Header = 0
  Tries = 2
  MaxResets = 3
  MaxFaults = 0
  Blank = blank
  Junk = junk
INVARIANT RecoveryKept
