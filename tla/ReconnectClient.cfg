\* Two requests, three dials, under fairness.
CONSTANTS
  Caller = {c1, c2}
  Closer = Closer
  MaxConn = 3
  None = None
SPECIFICATION FairSpec
INVARIANTS
  NoConnectionLeaks
  CurrentIsOpen
  OnlyBrokenReplaced
  SignSentOnce
PROPERTIES
  RequestsReturn
  CancelCloses
