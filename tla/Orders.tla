------------------------------- MODULE Orders -------------------------------
(***************************************************************************)
(* The order lifecycle of services/OrderService.ts over the tables orders, *)
(* worker_occupied_time_slots and worker_profiles.                         *)
(*                                                                         *)
(* A call is a process of Request.  It first reads the order row outside   *)
(* any transaction and decides; later, after at least one await, it writes *)
(* what it decided.  A transaction's writes become visible in one step,    *)
(* its commit; specifyTimeRange also holds the worker's advisory lock      *)
(* between SpecifyLock and the end of its transaction.  A check that fails *)
(* before anything is written answers with an error and leaves no trace: a *)
(* stuttering step.                                                        *)
(*                                                                         *)
(* No code of the repository negotiates a price, takes a payment or        *)
(* schedules the work; those steps and the arrival of new rows are         *)
(* external actions that follow the transition tables.                     *)
(***************************************************************************)
EXTENDS OrderRules, FiniteSets

CONSTANTS
  Order,    \* ids of order rows
  Worker,   \* ids of worker profiles
  Client,   \* ids of client profiles
  Request,  \* concurrent calls of the API
  Time,     \* instants a time range may name
  MaxDay,   \* bound on the calendar days that pass
  Rate,     \* the ratings a client may give
  Nobody,   \* "the advisory lock is free"
  NoRow,    \* "the table has no such order"
  NoJob     \* "the call has not been made"

VARIABLES
  order,    \* order[o]: the row of table orders
  slots,    \* the rows of worker_occupied_time_slots
  profile,  \* profile[w]: rating total and completedJobsCount of a worker
  lock,     \* lock[w]: who holds pg_advisory_xact_lock(hashtext(w))
  pc,       \* pc[r]: how far call r got
  job,      \* job[r]: what call r was asked to do
  today     \* the current UTC day

tables == <<order, slots, profile>>
vars == <<order, slots, profile, lock, pc, job, today>>

----------------------------------------------------------------------------
\* State

Day == 0..MaxDay
NoTime == -1
NoRate == -1

Row == [status : OrderStatus, work : WorkStatus, worker : Worker,
        client : Client, day : Day, end : Time \cup {NoTime},
        rate : Rate \cup {NoRate}]

\* schema.prisma's defaults for a new row.
NewRow(w, c, day) ==
  [status |-> "PENDING", work |-> "PENDING", worker |-> w, client |-> c,
   day |-> day, end |-> NoTime, rate |-> NoRate]

Slot == [order : Order, worker : Worker, start : Time, end : Time]

\* WorkerProfile.rate is the mean total / jobs; addRating keeps both.
Profile == [total : Nat, jobs : Nat]

RowJob == [op : {"cancel", "start", "finish"}, order : Order]
SpecifyJob ==
  [op : {"specify"}, order : Order, worker : Worker, start : Time, end : Time]
RateJob == [op : {"rate"}, order : Order, rate : Rate]
Job == RowJob \cup SpecifyJob \cup RateJob

Stage == {"idle", "checked", "locked", "clear"}

ASSUME OrdersAssumption ==
  /\ Time \subseteq Nat
  /\ Rate \subseteq 1..5
  /\ MaxDay \in Nat
  /\ Nobody \notin Request
  /\ NoRow \notin Row
  /\ NoJob \notin Job

TypeOK ==
  /\ order \in [Order -> Row \cup {NoRow}]
  /\ slots \subseteq Slot
  /\ profile \in [Worker -> Profile]
  /\ lock \in [Worker -> Request \cup {Nobody}]
  /\ pc \in [Request -> Stage]
  /\ job \in [Request -> Job \cup {NoJob}]
  /\ today \in Day

Exists(o) == order[o] # NoRow

Init ==
  /\ order = [o \in Order |-> NoRow]
  /\ slots = {}
  /\ profile = [w \in Worker |-> [total |-> 0, jobs |-> 0]]
  /\ lock = [w \in Worker |-> Nobody]
  /\ pc = [r \in Request |-> "idle"]
  /\ job = [r \in Request |-> NoJob]
  /\ today = 0

----------------------------------------------------------------------------
\* How a call starts, moves and ends

Accept(r, j) ==
  /\ pc[r] = "idle"
  /\ pc' = [pc EXCEPT ![r] = "checked"]
  /\ job' = [job EXCEPT ![r] = j]
  /\ UNCHANGED <<order, slots, profile, lock, today>>

At(r, op, stage) == pc[r] = stage /\ job[r].op = op

Finish(r) ==
  /\ pc' = [pc EXCEPT ![r] = "idle"]
  /\ job' = [job EXCEPT ![r] = NoJob]

\* A transaction's advisory locks go with it, committed or rolled back.
FreeLocks_Leaked(r) == UNCHANGED lock
FreeLocks(r) ==
  lock' = [w \in Worker |-> IF lock[w] = r THEN Nobody ELSE lock[w]]

----------------------------------------------------------------------------
\* cancelOrder

CancelRead_AnyStatus(r, o, c) ==
  /\ Exists(o)
  /\ order[o].client = c
  /\ Accept(r, [op |-> "cancel", order |-> o])
CancelRead(r, o, c) ==
  /\ Exists(o)
  /\ order[o].client = c
  /\ CanTransitionOrderStatus(order[o].status, "CANCELLED")
  /\ Accept(r, [op |-> "cancel", order |-> o])

\* deleteByOrderId
SlotsWithout_Kept(o) == slots
SlotsWithout(o) == {s \in slots : s.order # o}

CancelCommit(r) ==
  LET o == job[r].order IN
  /\ At(r, "cancel", "checked")
  /\ order' = [order EXCEPT ![o].status = "CANCELLED"]
  /\ slots' = SlotsWithout(o)
  /\ Finish(r)
  /\ UNCHANGED <<profile, lock, today>>

----------------------------------------------------------------------------
\* specifyTimeRange

SpecifyRead(r, o, w, start, end) ==
  /\ Exists(o)
  /\ start < end
  /\ order[o].worker = w
  /\ CanTransitionOrderStatus(order[o].status, "TIME_SPECIFIED")
  /\ Accept(r, [op |-> "specify", order |-> o, worker |-> w,
                start |-> start, end |-> end])

SpecifyLock_Unguarded(r) ==
  /\ At(r, "specify", "checked")
  /\ lock' = [lock EXCEPT ![job[r].worker] = r]
  /\ pc' = [pc EXCEPT ![r] = "locked"]
  /\ UNCHANGED <<order, slots, profile, job, today>>
SpecifyLock(r) ==
  /\ At(r, "specify", "checked")
  /\ lock[job[r].worker] = Nobody
  /\ lock' = [lock EXCEPT ![job[r].worker] = r]
  /\ pc' = [pc EXCEPT ![r] = "locked"]
  /\ UNCHANGED <<order, slots, profile, job, today>>

\* The loop over the worker's existing slots finds one that overlaps.
Overlapping_StartsInside(j) ==
  \E s \in slots :
    s.worker = j.worker /\ s.start <= j.start /\ j.start < s.end
Overlapping(j) ==
  \E s \in slots :
    s.worker = j.worker /\ HasOverlap(j.start, j.end, s.start, s.end)

SpecifyClear(r) ==
  /\ At(r, "specify", "locked")
  /\ ~Overlapping(job[r])
  /\ pc' = [pc EXCEPT ![r] = "clear"]
  /\ UNCHANGED <<order, slots, profile, lock, job, today>>

\* 409: the exception rolls the transaction back.
SpecifyConflict(r) ==
  /\ At(r, "specify", "locked")
  /\ Overlapping(job[r])
  /\ FreeLocks(r)
  /\ Finish(r)
  /\ UNCHANGED <<order, slots, profile, today>>

\* WorkerOccupiedTimeSlot.orderId is unique.
HasSlot(o) == \E s \in slots : s.order = o

SpecifyDuplicate(r) ==
  /\ At(r, "specify", "clear")
  /\ HasSlot(job[r].order)
  /\ FreeLocks(r)
  /\ Finish(r)
  /\ UNCHANGED <<order, slots, profile, today>>

SpecifyCommit_NoUnique(r) ==
  LET j == job[r] IN
  /\ At(r, "specify", "clear")
  /\ slots' = {s \in slots : s.order # j.order} \cup
                {[order |-> j.order, worker |-> j.worker,
                  start |-> j.start, end |-> j.end]}
  /\ order' = [order EXCEPT ![j.order].status = "TIME_SPECIFIED",
                            ![j.order].end = j.end]
  /\ FreeLocks(r)
  /\ Finish(r)
  /\ UNCHANGED <<profile, today>>
SpecifyCommit(r) ==
  LET j == job[r] IN
  /\ At(r, "specify", "clear")
  /\ ~HasSlot(j.order)
  /\ slots' = slots \cup {[order |-> j.order, worker |-> j.worker,
                           start |-> j.start, end |-> j.end]}
  /\ order' = [order EXCEPT ![j.order].status = "TIME_SPECIFIED",
                            ![j.order].end = j.end]
  /\ FreeLocks(r)
  /\ Finish(r)
  /\ UNCHANGED <<profile, today>>

----------------------------------------------------------------------------
\* startWork and finishWork.  workStartedAt and workFinishedAt are left out:
\* both are taken from the clock together with the checks.

StartRead(r, o, w) ==
  /\ Exists(o)
  /\ order[o].worker = w
  /\ order[o].status = "PAID"
  /\ CanTransitionWorkStatus(order[o].work, "STARTED")
  /\ today = order[o].day
  /\ Accept(r, [op |-> "start", order |-> o])

StartUpdate(r) ==
  /\ At(r, "start", "checked")
  /\ order' = [order EXCEPT ![job[r].order].work = "STARTED"]
  /\ Finish(r)
  /\ UNCHANGED <<slots, profile, lock, today>>

FinishRead_OrderOnly(r, o, w) ==
  /\ Exists(o)
  /\ order[o].worker = w
  /\ CanTransitionOrderStatus(order[o].status, "COMPLETED")
  /\ Accept(r, [op |-> "finish", order |-> o])
FinishRead(r, o, w) ==
  /\ Exists(o)
  /\ order[o].worker = w
  /\ CanTransitionWorkStatus(order[o].work, "DONE")
  /\ CanTransitionOrderStatus(order[o].status, "COMPLETED")
  /\ Accept(r, [op |-> "finish", order |-> o])

FinishCommit_SwappedStatus(r) ==
  /\ At(r, "finish", "checked")
  /\ order' = [order EXCEPT ![job[r].order].status = "DONE",
                            ![job[r].order].work = "COMPLETED"]
  /\ Finish(r)
  /\ UNCHANGED <<slots, profile, lock, today>>
FinishCommit(r) ==
  /\ At(r, "finish", "checked")
  /\ order' = [order EXCEPT ![job[r].order].status = "COMPLETED",
                            ![job[r].order].work = "DONE"]
  /\ Finish(r)
  /\ UNCHANGED <<slots, profile, lock, today>>

----------------------------------------------------------------------------
\* rateOrder

RateRead(r, o, c, rate) ==
  /\ Exists(o)
  /\ order[o].client = c
  /\ order[o].status = "COMPLETED"
  /\ order[o].rate = NoRate
  /\ Accept(r, [op |-> "rate", order |-> o, rate |-> rate])

\* addRating: mean' = (mean * jobs + rate) / (jobs + 1) and jobs' = jobs + 1.
AddRating_CountOnce(w, rate) ==
  profile' = [profile EXCEPT ![w].total = @ + rate, ![w].jobs = 1]
AddRating(w, rate) ==
  profile' = [profile EXCEPT ![w].total = @ + rate, ![w].jobs = @ + 1]

RateCommit(r) ==
  LET o == job[r].order IN
  /\ At(r, "rate", "checked")
  /\ order' = [order EXCEPT ![o].rate = job[r].rate]
  /\ AddRating(order[o].worker, job[r].rate)
  /\ Finish(r)
  /\ UNCHANGED <<slots, lock, today>>

----------------------------------------------------------------------------
\* The server or its connection dies under a call: nothing it has not
\* committed is kept, and its locks are freed.

Fail(r) ==
  /\ pc[r] # "idle"
  /\ FreeLocks(r)
  /\ Finish(r)
  /\ UNCHANGED <<order, slots, profile, today>>

----------------------------------------------------------------------------
\* External actions

\* A row reaches the table (schema.prisma's defaults; startDate not past).
InsertOrder(o, w, c, day) ==
  /\ ~Exists(o)
  /\ day >= today
  /\ order' = [order EXCEPT ![o] = NewRow(w, c, day)]
  /\ UNCHANGED <<slots, profile, lock, pc, job, today>>

\* Negotiation and payment move an order along the table's edges.
MoveOrder(o, next) ==
  /\ Exists(o)
  /\ CanTransitionOrderStatus(order[o].status, next)
  /\ order' = [order EXCEPT ![o].status = next]
  /\ UNCHANGED <<slots, profile, lock, pc, job, today>>

AgreePrice(o) == MoveOrder(o, "PRICE_AGREED")
Pay(o) == MoveOrder(o, "PAID")

ScheduleWork(o) ==
  /\ Exists(o)
  /\ order[o].status = "PAID"
  /\ CanTransitionWorkStatus(order[o].work, "WAITING_FOR_WORK")
  /\ order' = [order EXCEPT ![o].work = "WAITING_FOR_WORK"]
  /\ UNCHANGED <<slots, profile, lock, pc, job, today>>

NextDay ==
  /\ today < MaxDay
  /\ today' = today + 1
  /\ UNCHANGED <<order, slots, profile, lock, pc, job>>

----------------------------------------------------------------------------
\* The specification

Call(r) ==
  \E o \in Order :
    \/ \E c \in Client : CancelRead(r, o, c)
    \/ \E w \in Worker, start, end \in Time : SpecifyRead(r, o, w, start, end)
    \/ \E w \in Worker : StartRead(r, o, w)
    \/ \E w \in Worker : FinishRead(r, o, w)
    \/ \E c \in Client, rate \in Rate : RateRead(r, o, c, rate)

\* What a call does by itself once it has been accepted, the wait for the
\* advisory lock apart.
Proceed(r) ==
  \/ CancelCommit(r)
  \/ SpecifyClear(r)
  \/ SpecifyConflict(r)
  \/ SpecifyDuplicate(r)
  \/ SpecifyCommit(r)
  \/ StartUpdate(r)
  \/ FinishCommit(r)
  \/ RateCommit(r)

External ==
  \/ \E o \in Order, w \in Worker, c \in Client, day \in Day :
       InsertOrder(o, w, c, day)
  \/ \E o \in Order : AgreePrice(o)
  \/ \E o \in Order : Pay(o)
  \/ \E o \in Order : ScheduleWork(o)
  \/ NextDay

Next ==
  \/ \E r \in Request : Call(r)
  \/ \E r \in Request : Proceed(r)
  \/ \E r \in Request : SpecifyLock(r)
  \/ \E r \in Request : Fail(r)
  \/ External

Spec == Init /\ [][Next]_vars

\* Node runs every accepted call on, and PostgreSQL grants an advisory lock
\* to its waiters in turn, so a waiter the lock keeps becoming free for gets
\* it.  Nothing obliges a client to call, or a call to fail.
Fairness ==
  \A r \in Request : WF_vars(Proceed(r)) /\ SF_vars(SpecifyLock(r))

FairSpec == Spec /\ Fairness

\* Calls one at a time, the rest of the world still while one runs: what the
\* unit tests of tests/services/OrderService.test.ts exercise.
Quiet == \A r \in Request : pc[r] = "idle"

SerialNext ==
  \/ Quiet /\ \E r \in Request : Call(r)
  \/ \E r \in Request : Proceed(r)
  \/ \E r \in Request : SpecifyLock(r)
  \/ \E r \in Request : Fail(r)
  \/ Quiet /\ External

SerialSpec == Init /\ [][SerialNext]_vars

----------------------------------------------------------------------------
\* Properties of concurrent calls

\* A worker's occupied slots never overlap, however many time ranges are
\* being specified for the worker at once (specifyTimeRange, advisory lock).
NoDoubleBooking ==
  \A s, t \in slots :
    s # t /\ s.worker = t.worker => ~HasOverlap(s.start, s.end, t.start, t.end)

\* A slot belongs to one live order of the same worker, and an order whose
\* time is specified has the slot that ends when the order does: the pairs of
\* writes of cancelOrder and specifyTimeRange are never seen half done, also
\* when one overtakes the other or a call dies.
SlotsMatchOrders ==
  /\ \A s \in slots :
       /\ Exists(s.order)
       /\ order[s.order].worker = s.worker
       /\ order[s.order].status \notin {"PENDING", "CANCELLED"}
       /\ order[s.order].end = s.end
  /\ \A s, t \in slots : s.order = t.order => s = t
  /\ \A o \in Order : Exists(o) /\ order[o].status = "TIME_SPECIFIED" => HasSlot(o)

\* A worker's time is given back only by cancelling the order: no other step,
\* and no second time range, moves or removes an occupied slot.
SlotReleasedOnlyByCancel ==
  [][\A s \in slots :
       s \in slots' \/ order'[s.order].status = "CANCELLED"]_vars

\* No rating is lost: every order that carries a rating has been counted in
\* its worker's completedJobsCount (rateOrder and addRating commit together).
RatedOrders(w) ==
  {o \in Order : Exists(o) /\ order[o].worker = w /\ order[o].rate # NoRate}
RatingsCounted ==
  \A w \in Worker : Cardinality(RatedOrders(w)) <= profile[w].jobs

\* Every accepted call ends: the advisory lock is always given back, on
\* success, on conflict and on failure.
CallsEnd == \A r \in Request : pc[r] # "idle" ~> pc[r] = "idle"

\* specifyTimeRange implements the booking of an abstract calendar.
C == INSTANCE Calendar WITH booked <- slots
ImplementsCalendar == C!Spec

----------------------------------------------------------------------------
\* Properties of calls made one at a time

\* Both statuses only ever follow the edges of the transition tables.
FollowsTables ==
  [][\A o \in Order : Exists(o) =>
       /\ order[o].status # order'[o].status =>
            CanTransitionOrderStatus(order[o].status, order'[o].status)
       /\ order[o].work # order'[o].work =>
            CanTransitionWorkStatus(order[o].work, order'[o].work)]_vars

\* Work is planned, under way or done only for an order that was paid, and an
\* order is completed exactly when its work is done.
WorkMatchesOrder ==
  \A o \in Order : Exists(o) =>
    /\ order[o].work # "PENDING" => order[o].status \in {"PAID", "COMPLETED"}
    /\ order[o].status = "COMPLETED" <=> order[o].work = "DONE"

----------------------------------------------------------------------------
\* What the documentation says of a call and overlapping calls may break

\* orders.docs.ts:128 "only while the order is in a cancellable state".
CancelOnlyCancellable ==
  [][\A o \in Order : Exists(o) =>
       (order[o].status # "CANCELLED" /\ order'[o].status = "CANCELLED" =>
         CanTransitionOrderStatus(order[o].status, "CANCELLED"))]_vars
=============================================================================
