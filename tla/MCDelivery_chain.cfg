SPECIFICATION FairConnection
CONSTANTS
  s1 = s1
  s2 = s2
  s3 = s3
  null = null
  NoSocket = null
  WASocket <- MCSocket
  MaxTimer = 2
INVARIANTS
  OneChain
PROPERTIES
  Reconnects
