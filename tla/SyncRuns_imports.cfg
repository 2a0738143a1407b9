\* Two syncs of one sensor, one dashboard, one import by hand, no crash.
CONSTANTS
  s1 = s1
  s2 = s2
  hand = hand
  cowrie = cowrie
  tpot = tpot
  Runs = {s1, s2}
  Syncs = {s1, s2}
  Reports = {cowrie}
  Target <- SameTarget
  NoRun = NoRun
  Threads = {t1, t2}
  Viewers = {v1}
  MaxManual = 1
  MaxCrashes = 0
SYMMETRY Alike
SPECIFICATION Spec
CHECK_DEADLOCK FALSE
INVARIANTS FlagGuardsOneThread OneRowPerReport SyncedReportIsCurrent
