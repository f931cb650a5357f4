\* Two orders of two workers, two calls at a time.
CONSTANTS
  Order = {o1, o2}
  Worker = {w1, w2}
  Client = {c1}
  Request = {r1, r2}
  Time <- Instants
  MaxDay = 0
  Rate <- OneRate
  Nobody = Nobody
  NoRow = NoRow
  NoJob = NoJob
SPECIFICATION Spec
SYMMETRY Symmetric
INVARIANTS TypeOK NoDoubleBooking SlotsMatchOrders RatingsCounted
PROPERTIES SlotReleasedOnlyByCancel ImplementsCalendar
CHECK_DEADLOCK FALSE
