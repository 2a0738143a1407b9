\* Two sources, no rotation, one kill.
CONSTANTS
  a = a
  b = b
  Paths = {a, b}
  MaxGen = 0
  Ends <- TwoEnds
  Blank <- TwoBlank
  Size <- TwoSize
  Bad <- NoneBad
  Torn = Torn
  MaxCrashes = 1
  Preview = FALSE
SPECIFICATION Spec
INVARIANTS PassedThrough
