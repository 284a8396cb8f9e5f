\* Three requests, a channel of one place, two days of buckets.
SPECIFICATION Spec
CONSTANTS
  r1 = r1
  r2 = r2
  r3 = r3
  Requests <- MCRequests
  Prepared <- MCPrepared
  Usages <- MCUsages
  NoUsage = noUsage
  None = none
  MaxCount = 20
  Capacity = 1
  MaxDays = 2
  LastDay = 3
SYMMETRY Symmetry
INVARIANTS TypeOK ObservedOnce StoreFollowsSession CleanExitIsDurable SummaryCoherent
PROPERTIES DiskNeverGoesBack TodayIsCounted
