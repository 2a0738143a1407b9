\* One sync, a dashboard, one crash of the web process.
CONSTANTS
  s1 = s1
  s2 = s2
  hand = hand
  cowrie = cowrie
  tpot = tpot
  Runs = {s1}
  Syncs = {s1}
  Reports = {cowrie, tpot}
  Target <- OwnTarget
  NoRun = NoRun
  Threads = {t1}
  Viewers = {v1}
  MaxManual = 0
  MaxCrashes = 1
SPECIFICATION FairSpec
CHECK_DEADLOCK FALSE
PROPERTIES LatestShownInTheEnd
