\* -m 2: each URI is requested twice and path_cache stays empty, so every
\* copy of page a requests the assets it links, again; against a server that
\* resets streams and sends bodies the inflater rejects, with an output
\* threshold of zero so that sendcb returns WOULDBLOCK after every frame.
CONSTANTS
  Uris <- MCUris
  UriParts <- MCUriParts
  Links <- MCLinksOne
  UserUris <- MCUserOne
  Multiply = 2
  GetAssets = TRUE
  Faults = {"rst", "badgzip"}
  PushIds = {}
  Thres = 0
  MaxChunks = 1
  MaxInFlight = 2
  TimeoutSet = FALSE
SPECIFICATION FairSpec
INVARIANTS
  UniqueStreamBinding
  CompleteAccounting
  GoawayAfterAllDone
PROPERTIES
  ProcessedThenExit
  DoneLeadsToGoaway
\* the program exits once disconnect() has ended the event loop
CHECK_DEADLOCK FALSE
