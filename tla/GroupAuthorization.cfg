\* Two clients and the startup listing, three key sets, under fairness; listings and
\* selectors of three, over two key blobs under two comments.
CONSTANTS
  work = work
  workAgain = workAgain
  home = home
  blobW = blobW
  blobH = blobH
  byComment = byComment
  byPrint = byPrint
  Client = {c1, c2}
  Startup = Startup
  Key = {work, workAgain, home}
  Blob = {blobW, blobH}
  BlobOf <- MCBlobOf
  Matcher = {byComment, byPrint}
  Selects <- MCSelects
  MaxEpoch = 3
  Offers <- MCOffers
  None = None
  Listing = Listing
  KeyBlob = {blobW, blobH}
  Comment = {k1, k2}
  MaxKeys = 3
  MaxMatchers = 3
SPECIFICATION GroupOrResolve
INVARIANTS
  OneRefresh
  FreshAnswers
  UnmatchedTracksSnapshot
  ConfiguredOrder
PROPERTIES
  ImplementsView
  Answered
