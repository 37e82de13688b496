\* Two shards share an endpoint, which comes and goes.
SPECIFICATION BreakerFairSpec
CONSTANTS
  Caller = {c1, c2}
  Threshold = 3
  RetryLimit = 1
  MaxCount = 4
INVARIANT OpenNeedsFailures
PROPERTIES
  Spared
  Recovers
