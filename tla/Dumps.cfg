SPECIFICATION MCSpec
CONSTANTS
  U32Max = 1048575
  Heaps <- SomeHeaps
  OkMax = 200
  WarnMax = 500
  TickMax = 3
  Period = 2
  MaxGap = 6
  MaxHotspots = 3
  File = {1, 2}
  FileId <- MCFileId
  Line = {7, 8, 9}
  LineMax = 65535
  DumpLimit = 2
  DumpSite <- SomeSites
  DumpBytes <- SomeBytes
  MaxEvents = 4
INVARIANTS
  FragSound
  HealthMatches
  TelemetryPaced
  QuietDumpSorted
  HotspotsPrintedOnce
