\* Every accepted call ends: two orders, two calls, one possible range.
CONSTANTS
  Order = {o1, o2}
  Worker = {w1}
  Client = {c1}
  Request = {r1, r2}
  Time <- TwoInstants
  MaxDay = 1
  Rate <- OneRate
  Nobody = Nobody
  NoRow = NoRow
  NoJob = NoJob
SPECIFICATION FairSpec
PROPERTIES CallsEnd
CHECK_DEADLOCK FALSE
