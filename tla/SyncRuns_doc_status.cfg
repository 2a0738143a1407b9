\* Two syncs, no dashboard, no crash.
CONSTANTS
  s1 = s1
  s2 = s2
  hand = hand
  cowrie = cowrie
  tpot = tpot
  Runs = {s1, s2}
  Syncs = {s1, s2}
  Reports = {cowrie}
  Target <- SameTarget
  NoRun = NoRun
  Threads = {t1, t2}
  Viewers = {}
  MaxManual = 0
  MaxCrashes = 0
SPECIFICATION FairSpec
CHECK_DEADLOCK FALSE
PROPERTIES StatusUpdates
