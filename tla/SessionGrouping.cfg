CONSTANTS
  Schemes <- MCSchemes
  Hosts = {"h1", "h2"}
  Ports <- MCPorts
  MaxUris = 3
SPECIFICATION Spec
\* run() returns after the last URI
CHECK_DEADLOCK FALSE
INVARIANTS
  TypeOK
  SessionTargetsMatch
  EveryUriOnce
