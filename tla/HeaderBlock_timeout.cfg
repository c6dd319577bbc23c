\* every command line of at most two options (-H, -t, -w, -m, -d, --no-tls,
\* -h or an unknown one), over every shape of URI
CONSTANTS
  Names <- MCNames
  NameOrder <- MCNameOrder
  Lower <- MCLower
  Values = {"v1", "v2"}
  Hosts = {"h"}
  NumArgs <- MCNumArgs
  MaxDigits = 2
  MaxArgs = 2
SPECIFICATION Spec
INVARIANTS
  TimeoutInSeconds
