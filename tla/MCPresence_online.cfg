\* Two devices of one user, or one that reconnects.
CONSTANTS
  Socket = {s1, s2}
  Logout = Logout
SPECIFICATION FairSpec
INVARIANTS TypeOK DisconnectedStayOut LastOneOut
PROPERTIES GoesOffline
CHECK_DEADLOCK FALSE
