\* -m 0: communicate() admits no request at all.
CONSTANTS
  Uris <- MCUris
  UriParts <- MCUriParts
  Links <- MCLinksOne
  UserUris <- MCUserOne
  Multiply = 0
  GetAssets = TRUE
  Faults = {}
  PushIds = {}
  Thres = 1
  MaxChunks = 1
  MaxInFlight = 1
  TimeoutSet = FALSE
SPECIFICATION FairSpec
PROPERTIES
  DoneLeadsToGoaway
CHECK_DEADLOCK FALSE
