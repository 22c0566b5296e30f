\* One attachment: the file, the sides, the search over the qualities.
SPECIFICATION FairSpec
CONSTANTS
  Lengths <- MCLengths
  MaxInput = 2
  MaxPixels = 20000
  Images <- MCImages
  Boxes <- MCBoxes
  Qualities <- MCQualities
  MinQuality = 40
  MinSide = 32
  MaxAttempts = 12
INVARIANTS
  TypeOK
  WholeFileOnly
  SizeAsConfigured
  ResultAsConfigured
  NoFalseBlame
PROPERTIES
  Terminates
