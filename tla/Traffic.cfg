SPECIFICATION MCSpec
CONSTANTS
  Nodes = {n1}
  Rules = {"a", "b"}
  Boundaries <- MCBoundaries
  Scenarios <- MCScenarios
  Deltas = {2}
  Settle = 1
  Chunk = 2
  Overlap = 2
  RepairChunk = 2
  RebuildChunk = 2
  MaxGap = 1
  Grace = 1
  SourceRetention = 4
  TrafficRetention = 5
  MaxSteps = 2
  MaxRepairSteps = 2
  MaxInt64 = 9
  MinP95Samples = 20
  DayBuckets = 3
INVARIANTS
  UsageCountsOnce
  CurrentCycleCovered
  
  
  CyclesPartition
  
PROPERTIES
  ChangedCyclesAreRepaired
CHECK_DEADLOCK FALSE
