SPECIFICATION MCSpec
CONSTANTS
  U32Max = 63
  Snapshot <- Snapshots0
  Text = {"t"}
  MaxMarks = 2
  TopN = 2
  MaxFrames = 3
  MapLines <- NameMap
  Width = 32
  Height = 3
  BarWidth = 3
  HeatTop = 3
  BucketLimits <- SomeLimits
  Written <- SomeSnapshots
  Capacities = {35, 36, 60, 83, 84}
  FileMaps <- SomeMaps
  Flips <- SomeFlips
  Tails <- SomeTails
CHECK_DEADLOCK FALSE
INVARIANTS
  HotspotsCountRecords
  DiffExact
  RunShown
  ChartsExact
  SnapshotRoundTrip
  DamageTold
  LuckToldToo
