SPECIFICATION Spec
CONSTANTS
  MaxWindows = 4
  Scores = {0, 20, 40}
  Shares <- MCShares
  FprTarget = 50
  PerDay = 1
  Durations = {0, 1}
  ModelIds = {m1}
  Windows = {w1, w2}
  Levels <- MCLevels
  Margins = {5}
  None = None
  MaxCommands = 4
  attacker = attacker
  outside = outside
  inner = inner
  Addresses = {attacker, outside, inner}
  Private = {inner}
  Absent = Absent
  Events <- MCEvents
  WindowSizes = {2, 3}
  Networks <- MCNetworks
  SensorHost = SensorHost
  MaxFiles = 2
  MaxLines = 2
  publicIp = publicIp
  innerIp = innerIp
  publicName = publicName
  reservedName = reservedName
  digest = digest
  PublicIps = {publicIp}
  InnerIps = {innerIp}
  Names = {publicName, reservedName}
  ReservedNames = {reservedName}
  Hashes = {digest}
  Sightings <- MCSightings
  MaxExchanges = 4
  MaxExchanged = 2
INVARIANTS
  PartsInOrder
  BudgetKept
  StoreShowsLastScoring
  SeverityFollowsThreshold
  SplitNeverScoresHigher
  EvidenceHasActor
  TrafficConserved
  LabelFollowsEvidence
  LinesAccounted
  AddressKept
  OwnNetworkNotListed
  KeysUnique
  BodyFitsUrl
CHECK_DEADLOCK FALSE
