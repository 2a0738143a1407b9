SPECIFICATION Spec
CONSTANTS
  None = None
  Pids = {p1}
  Programs = {"script"}
  Tools = {"curl"}
  Shells = {"script"}
  UrlUsers = {"script"}
  Calls <- MCCalls
  WatchedPaths = {"watched"}
  SensitivePaths = {"watched"}
  PublicPeers = {"public"}
  SuspiciousPorts = {4444}
  RingSize = 2
  MaxCalls = 3
  MaxJobs = 2
INVARIANTS
  EventsAccounted StreamAheadByOne EventHasOneRow ImportRestores OutputIsStream EventReportsCall
PROPERTIES
  CaptureEnds
CHECK_DEADLOCK FALSE
