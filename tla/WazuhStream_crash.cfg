\* Two sources, no rotation, a line that does not parse, a preview page, up to two kills; the abstract promise.
CONSTANTS
  a = a
  b = b
  Paths = {a, b}
  MaxGen = 0
  Ends <- TwoEnds
  Blank <- TwoBlank
  Size <- TwoSize
  Bad <- LastBad
  Torn = Torn
  MaxCrashes = 2
  Preview = TRUE
SPECIFICATION FairSpec
INVARIANTS TypeOK CopiesBoundedByCrashes BadLineBlocks
PROPERTIES ImplementsFairDelivery
