CONSTANTS
  N = 1
  MaxChunks = 2
  MaxItems = 2
  MaxRetained = 2
  HighWater = 3
  Scenarios <- MCScenarios
SPECIFICATION DeliverySpec
INVARIANTS NoFactIsDropped EntriesAreTrue SnapshotsRepair
PROPERTIES DurableEventsAreReplayed FinalEntriesStay
CHECK_DEADLOCK FALSE
