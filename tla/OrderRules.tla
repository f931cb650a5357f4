----------------------------- MODULE OrderRules -----------------------------
(***************************************************************************)
(* The pure rules the order service consults: the two status tables of     *)
(* utils/stateMachine.ts and the half-open overlap test of                 *)
(* utils/overlapCheck.ts.                                                  *)
(***************************************************************************)
EXTENDS Integers

OrderStatus == {"PENDING", "TIME_SPECIFIED", "PRICE_AGREED", "PAID",
                "COMPLETED", "CANCELLED"}

WorkStatus == {"PENDING", "WAITING_FOR_WORK", "STARTED", "DONE"}

\* ORDER_TRANSITIONS: the statuses an order may move to from each status.
OrderTransitions ==
  [PENDING        |-> {"TIME_SPECIFIED", "PRICE_AGREED", "CANCELLED"},
   TIME_SPECIFIED |-> {"PRICE_AGREED", "CANCELLED"},
   PRICE_AGREED   |-> {"PAID", "CANCELLED"},
   PAID           |-> {"COMPLETED"},
   COMPLETED      |-> {},
   CANCELLED      |-> {}]

\* WORK_TRANSITIONS
WorkTransitions ==
  [PENDING          |-> {"WAITING_FOR_WORK"},
   WAITING_FOR_WORK |-> {"STARTED"},
   STARTED          |-> {"DONE"},
   DONE             |-> {}]

CanTransitionOrderStatus(current, next) == next \in OrderTransitions[current]
CanTransitionWorkStatus(current, next) == next \in WorkTransitions[current]

\* hasOverlap: two half-open ranges [start, end) meet.
HasOverlap(newStart, newEnd, existingStart, existingEnd) ==
  newStart < existingEnd /\ newEnd > existingStart
=============================================================================
