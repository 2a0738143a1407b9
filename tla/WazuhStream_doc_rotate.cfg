\* Two sources, one of its files rotated, no kill.
CONSTANTS
  a = a
  b = b
  Paths = {a, b}
  MaxGen = 1
  Ends <- TwoEnds
  Blank <- TwoBlank
  Size <- TwoSize
  Bad <- NoneBad
  Torn = Torn
  MaxCrashes = 0
  Preview = FALSE
SPECIFICATION Spec
INVARIANTS NewLinesConverted
