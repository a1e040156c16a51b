SPECIFICATION FairSpec
CONSTANTS
  Exports = {1, 2}
  Payments = {3, 4}
  Shares = {5}
  Workers = {1, 2}
  MaxAttempts = 2
  BatchSize = 2
  MaxEvents = 2
  MaxCrashes = 1
CHECK_DEADLOCK FALSE
INVARIANTS ExclusiveDispatch OneLiveArchive CacheExact
PROPERTIES EventsSettle DeliveryPromised
