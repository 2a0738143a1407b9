\* Two syncs of one sensor and a run from a shell, two summaries, two downloads, no
\* dashboard, one crash of the web process.
CONSTANTS
  s1 = s1
  s2 = s2
  hand = hand
  cowrie = cowrie
  tpot = tpot
  Runs = {s1, s2, hand}
  Syncs = {s1, s2}
  Reports = {cowrie, tpot}
  Target <- OwnTarget
  NoRun = NoRun
  Threads = {t1, t2}
  Viewers = {}
  MaxManual = 0
  MaxCrashes = 1
  Requests = {q1, q2}
  NoSummary = NoSummary
  Downloads = {d1, d2}
  NoTable = NoTable
  MaxClicks = 3
SYMMETRY Alike
SPECIFICATION WebSpec
CHECK_DEADLOCK FALSE
INVARIANTS SyncsTakeTurns FlagMeansAtWork DownloadCurrent
