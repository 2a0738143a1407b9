\* File and collector, one source rotated up to twice, one kill, one failed post.
CONSTANTS
  a = a
  Paths = {a}
  MaxGen = 2
  Ends <- TwoEnds
  Blank <- NoBlank
  Size <- TwoSize
  Bad <- NoneBad
  Torn = Torn
  MaxCrashes = 1
  MaxFailures = 1
  ToFile = TRUE
  ToHec = TRUE
SPECIFICATION FairSpec
INVARIANTS NothingSkipped CopiesBounded
PROPERTIES CompleteLinesIndexed
