CONSTANTS
  Listings <- MCListings
  Catalogs <- MCCatalogs
  Completeness <- MCCompleteness
  MaxRuns = 2
  PageLimit = 2
  Times = {0, 2}
  Depth <- MCDepth
  Options <- MCOptions
  Pages <- MCPages
  Answers <- MCAnswers
  ProbeLimit = 1
  MaxRefreshes = 1
  MaxCollectFaults = 1
  Sources <- MCSources
  Moments = {2}
  BatchSize = 1
  MaxGrowth = 1
  MaxRestarts = 2
  MaxStops = 1
  Tables = {"audit", "outbox", "cycles"}
  Retention = 1
  Clock = {0, 2}
  MaxRows = 2
  MaxKeeps = 2
  MaxKeepFaults = 1
  h1 = h1
  h2 = h2
  Hosts = {h1, h2}
  Releases <- MCReleases
  Statements = 2
  MaxBootstraps = 4
  MaxBreaks = 1
  Cards <- MCCards
  Roots <- MCRoots
  Shelves <- MCShelves
  Replies = {"sold", "active"}
  Requests <- MCRequests
  PageSize = 1
  RowLimit = 2
  Support = 2
  Contexts <- MCContexts
  MaxEvents = 3
  MaxDuring = 1
  LaneNames = {"frontier", "deep"}
  Default = "frontier"
  Planes = {"sqlite", "postgres"}
  Crews <- MCCrews
  Phases <- MCPhases
  Pasts <- MCPasts
  MaxCycles = 2
  MaxLaunches = 2
  MaxOrders = 1
  MaxMishaps = 1
  Ledgers <- MCLedgers
  Routes <- MCRoutes
  Shows <- MCShows
  Sayings = {"sold"}
  MaxProbes = 1
  MaxFills = 1
  MaxDuringFill = 1
  MaxTurns = 1
  MaxSlips = 1
SPECIFICATION JobsSpec
INVARIANTS
  JobsTypeOK
  StoresOrdered ObservationsSummarise TotalsHonest QueriesAgree
  BackfillComplete OwedReadable
  ArchivedBeforeGone ControllerFound
  HealthyMeansBuilt
  ExplorerCoherent ServersAgree ScoresAgree
  SingletonFollows StatusHonest
  InStep CountsTell
PROPERTIES
  LakeImmutable VersionsInOrder
CHECK_DEADLOCK FALSE
