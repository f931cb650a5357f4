\* One call at a time, two orders, two days, two ratings.
CONSTANTS
  Order = {o1, o2}
  Worker = {w1}
  Client = {c1}
  Request = {r1}
  Time <- TwoInstants
  MaxDay = 1
  Rate <- TwoRates
  Nobody = Nobody
  NoRow = NoRow
  NoJob = NoJob
SPECIFICATION SerialSpec
INVARIANT WorkMatchesOrder
PROPERTIES FollowsTables
CHECK_DEADLOCK FALSE
