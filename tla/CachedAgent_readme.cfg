\* Two callers; the README's account of an agent that starts late.
CONSTANTS
  Caller = {c1, c2}
  Lifetime = {2}
  MaxEpoch = 1
  None = None
SPECIFICATION FairSpec
INVARIANT RequestsFailOnlyWhileUnavailable
