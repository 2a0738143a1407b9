\* Two sources, each rotated up to once, at most one kill.
CONSTANTS
  a = a
  b = b
  Paths = {a, b}
  MaxGen = 1
  Ends <- TwoEnds
  Blank <- TwoBlank
  Size <- TwoSize
  Bad <- NoneBad
  Torn = Torn
  MaxCrashes = 1
  Preview = FALSE
SPECIFICATION Spec
INVARIANTS NothingSkipped OffsetsSplitNoLine
