SPECIFICATION MCSpec
CONSTANTS
  a = a
  r = r
  Images <- MCImages
  Recovery <- r
  Length <- MCLength
  Size = 3
  PageSize = 2
  Header = 0
  Tries = 2
  MaxResets = 2
  MaxFaults = 1
  Blank = blank
  Junk = junk
  Params = {"version", "port", "tag"}
  Version = "version"
  DefaultSeq <- MCDefaultSeq
  Settable = {"port", "tag"}
  Erasable = {"version", "tag"}
  NBlocks <- MCNBlocks
  Data = {0, 1}
  Zero = 0
  Types = {1, 2}
  NSlots = 4
  MaxVersion = 3
  MaxLosses = 2
INVARIANTS NeverBricked AppIntact ErasedIsBlank StoreSound
PROPERTIES OnlyWhenAsked ImplementsStore Completes
