\* One session against a server that resets streams, sends gzip bodies the
\* inflater rejects, pushes streams and fails the connection (a GOAWAY, an
\* invalid frame), over a network that ends the connection (EOF, an error)
\* or times it out.  Page a links itself, c and a page of another origin.
CONSTANTS
  Uris <- MCUris
  UriParts <- MCUriParts
  Links <- MCLinks
  UserUris <- MCUserOne
  Multiply = 1
  GetAssets = TRUE
  Faults = {"rst", "badgzip", "goaway", "garbage", "eof", "neterror"}
  PushIds = {2}
  Thres = 1
  MaxChunks = 2
  MaxInFlight = 3
  TimeoutSet = TRUE
SPECIFICATION Spec
INVARIANTS
  TypeOK
  UniqueStreamBinding
  CompleteAccounting
  GoawayAfterAllDone
  NoDuplicateRequests
PROPERTIES
  LifecycleRefined
\* the program exits once disconnect() has ended the event loop
CHECK_DEADLOCK FALSE
