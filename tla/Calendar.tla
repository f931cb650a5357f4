------------------------------ MODULE Calendar ------------------------------
(***************************************************************************)
(* What the booking of time slots promises, without requests, locks or     *)
(* order statuses: every order holds at most one booking, and a worker is  *)
(* never booked twice at the same time.                                    *)
(***************************************************************************)
EXTENDS OrderRules

CONSTANTS Order, Worker, Time

VARIABLE booked

Booking == [order : Order, worker : Worker, start : Time, end : Time]

Clash(a, b) ==
  /\ a.worker = b.worker
  /\ HasOverlap(a.start, a.end, b.start, b.end)

Init == booked = {}

Book(b) ==
  /\ b.start < b.end
  /\ \A other \in booked : other.order # b.order /\ ~Clash(b, other)
  /\ booked' = booked \cup {b}

Release(o) == booked' = {b \in booked : b.order # o}

Next ==
  \/ \E b \in Booking : Book(b)
  \/ \E o \in Order : Release(o)

Spec == Init /\ [][Next]_booked

\* No worker is promised to two orders at overlapping times, and no order is
\* booked twice (WorkerOccupiedTimeSlot, specifyTimeRange).
NoDoubleBooking ==
  \A a, b \in booked : a # b => a.order # b.order /\ ~Clash(a, b)
=============================================================================
