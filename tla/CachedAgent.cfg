\* Two callers, with and without a cache, under fairness.
CONSTANTS
  Caller = {c1, c2}
  Lifetime = {0, 2}
  MaxEpoch = 2
  None = None
SPECIFICATION FairSpec
INVARIANTS
  MonotoneReads
  NoErrorOnceListed
PROPERTIES
  OneListPerInterval
  EveryCallReturns
