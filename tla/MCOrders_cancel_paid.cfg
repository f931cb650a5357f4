\* A cancellation decided before the payment lands after it.
CONSTANTS
  Order = {o1}
  Worker = {w1}
  Client = {c1}
  Request = {r1, r2}
  Time <- TwoInstants
  MaxDay = 0
  Rate <- OneRate
  Nobody = Nobody
  NoRow = NoRow
  NoJob = NoJob
SPECIFICATION Spec
PROPERTIES CancelOnlyCancellable
CHECK_DEADLOCK FALSE
