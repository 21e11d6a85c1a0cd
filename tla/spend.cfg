CONSTANTS
  Day = 2
  Week = 7
  Month = 2
  Hour = 2
  Pods = {1}
  Foreign = {2}
  Rate <- RateOf
  Zones = {"utc", "ahead"}
  DiskRate = 2
  Offset <- OffsetOf
  Readers = {scheduler, app}
  CacheAge = 2
  RetryAge = 1
  Horizon = 4
SPECIFICATION Spec
SYMMETRY Alike
INVARIANTS TypeOK NeverInflated CoversWhatIsUp BreakdownsAddUp
PROPERTIES RequestsAreSpaced
