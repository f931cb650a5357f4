---------------------------- MODULE Orders_proofs ----------------------------
(***************************************************************************)
(* Theorems about Orders, for any sets of orders, workers and calls.       *)
(***************************************************************************)
EXTENDS Orders, FiniteSetTheorems, TLAPS

\* hasOverlap is true exactly when some instant lies in both half-open ranges.
LEMMA OverlapMeaning ==
  ASSUME NEW a \in Int, NEW b \in Int, NEW c \in Int, NEW d \in Int,
         a < b, c < d
  PROVE  HasOverlap(a, b, c, d) <=>
           \E t \in Int : a <= t /\ t < b /\ c <= t /\ t < d
<1>1. ASSUME HasOverlap(a, b, c, d)
      PROVE  \E t \in Int : a <= t /\ t < b /\ c <= t /\ t < d
  <2>1. CASE a <= c
    BY <1>1, <2>1 DEF HasOverlap
  <2>2. CASE c < a
    BY <1>1, <2>2 DEF HasOverlap
  <2> QED BY <2>1, <2>2
<1>2. ASSUME NEW t \in Int, a <= t, t < b, c <= t, t < d
      PROVE  HasOverlap(a, b, c, d)
  BY <1>2 DEF HasOverlap
<1> QED BY <1>1, <1>2

\* The order in which the two ranges are compared does not matter.
LEMMA OverlapSymmetric ==
  ASSUME NEW a \in Int, NEW b \in Int, NEW c \in Int, NEW d \in Int
  PROVE  HasOverlap(a, b, c, d) <=> HasOverlap(c, d, a, b)
BY DEF HasOverlap

LEMMA TimeIsInt == \A t \in Time : t \in Int
BY OrdersAssumption

----------------------------------------------------------------------------
\* Types

\* A call under way knows what it was asked, about an order that is there.
JobInv ==
  /\ \A r \in Request :
       pc[r] # "idle" => job[r] \in Job /\ Exists(job[r].order)
  /\ \A r \in Request : pc[r] \in {"locked", "clear"} => job[r].op = "specify"

TypeInv == TypeOK /\ JobInv

\* What a step of an accepted call may rely on.
LEMMA JobTyped ==
  ASSUME TypeInv, NEW r \in Request, NEW op, NEW stage,
         At(r, op, stage), stage # "idle"
  PROVE  /\ job[r] \in Job
         /\ job[r].order \in Order
         /\ order[job[r].order] \in Row
         /\ op = "specify" => job[r] \in SpecifyJob
         /\ op = "rate" => job[r] \in RateJob
BY DEF TypeInv, TypeOK, JobInv, At, Exists, Job, RowJob, SpecifyJob, RateJob

\* Orders stay in the table, and the rows stay well formed.
RowsKept ==
  /\ order' \in [Order -> Row \cup {NoRow}]
  /\ \A o \in Order : Exists(o) => order'[o] # NoRow

\* Writing a well formed row over an order's row.
LEMMA WriteRow ==
  ASSUME TypeOK, NEW o \in Order, NEW row \in Row,
         order' = [order EXCEPT ![o] = row]
  PROVE  RowsKept
BY OrdersAssumption DEF TypeOK, RowsKept, Exists

LEMMA AcceptTyped ==
  ASSUME TypeInv, NEW r \in Request, NEW j \in Job, Accept(r, j),
         Exists(j.order)
  PROVE  TypeInv'
BY DEF Accept, TypeInv, TypeOK, JobInv, Stage, Exists

LEMMA FinishTyped ==
  ASSUME TypeInv, NEW r \in Request, Finish(r), RowsKept
  PROVE  /\ pc' \in [Request -> Stage]
         /\ job' \in [Request -> Job \cup {NoJob}]
         /\ JobInv'
BY DEF Finish, TypeInv, TypeOK, JobInv, Stage, RowsKept, Exists, Job, RowJob,
       SpecifyJob, RateJob

LEMMA FreeLocksTyped ==
  ASSUME TypeInv, NEW r \in Request, FreeLocks(r)
  PROVE  lock' \in [Worker -> Request \cup {Nobody}]
BY DEF FreeLocks, TypeInv, TypeOK

LEMMA CallTyped ==
  ASSUME TypeInv, NEW r \in Request, Call(r)
  PROVE  TypeInv'
<1>1. PICK o \in Order :
        \/ \E c \in Client : CancelRead(r, o, c)
        \/ \E w \in Worker, start, end \in Time :
             SpecifyRead(r, o, w, start, end)
        \/ \E w \in Worker : StartRead(r, o, w)
        \/ \E w \in Worker : FinishRead(r, o, w)
        \/ \E c \in Client, rate \in Rate : RateRead(r, o, c, rate)
  BY DEF Call
<1>2. ASSUME NEW c \in Client, CancelRead(r, o, c)
      PROVE  TypeInv'
  BY <1>2, AcceptTyped DEF CancelRead, Job, RowJob
<1>3. ASSUME NEW w \in Worker, NEW start \in Time, NEW end \in Time,
             SpecifyRead(r, o, w, start, end)
      PROVE  TypeInv'
  BY <1>3, AcceptTyped DEF SpecifyRead, Job, SpecifyJob
<1>4. ASSUME NEW w \in Worker, StartRead(r, o, w)
      PROVE  TypeInv'
  BY <1>4, AcceptTyped DEF StartRead, Job, RowJob
<1>5. ASSUME NEW w \in Worker, FinishRead(r, o, w)
      PROVE  TypeInv'
  BY <1>5, AcceptTyped DEF FinishRead, Job, RowJob
<1>6. ASSUME NEW c \in Client, NEW rate \in Rate, RateRead(r, o, c, rate)
      PROVE  TypeInv'
  BY <1>6, AcceptTyped DEF RateRead, Job, RateJob
<1> QED BY <1>1, <1>2, <1>3, <1>4, <1>5, <1>6

\* The steps that write an order's row and end the call.
LEMMA ProceedRows ==
  ASSUME TypeInv, NEW r \in Request, Proceed(r)
  PROVE  RowsKept
<1> DEFINE o == job[r].order
           row == order[o]
<1>1. CASE CancelCommit(r)
  <2>1. o \in Order /\ row \in Row
    BY <1>1, JobTyped DEF CancelCommit
  <2>2. [row EXCEPT !.status = "CANCELLED"] \in Row
    BY <2>1 DEF Row, OrderStatus
  <2>3. order' = [order EXCEPT ![o] = [row EXCEPT !.status = "CANCELLED"]]
    BY <1>1, <2>1 DEF CancelCommit
  <2> QED BY <2>1, <2>2, <2>3, WriteRow DEF TypeInv
<1>2. CASE SpecifyCommit(r)
  <2> DEFINE new == [row EXCEPT !.status = "TIME_SPECIFIED", !.end = job[r].end]
  <2>1. o \in Order /\ row \in Row /\ job[r].end \in Time
    BY <1>2, JobTyped DEF SpecifyCommit, SpecifyJob
  <2>2. new \in Row
    BY <2>1 DEF Row, OrderStatus
  <2>3. order' = [order EXCEPT ![o] = new]
    BY <1>2, <2>1 DEF SpecifyCommit
  <2> QED BY <2>1, <2>2, <2>3, WriteRow DEF TypeInv
<1>3. CASE StartUpdate(r)
  <2>1. o \in Order /\ row \in Row
    BY <1>3, JobTyped DEF StartUpdate
  <2>2. [row EXCEPT !.work = "STARTED"] \in Row
    BY <2>1 DEF Row, WorkStatus
  <2>3. order' = [order EXCEPT ![o] = [row EXCEPT !.work = "STARTED"]]
    BY <1>3, <2>1 DEF StartUpdate
  <2> QED BY <2>1, <2>2, <2>3, WriteRow DEF TypeInv
<1>4. CASE FinishCommit(r)
  <2> DEFINE new == [row EXCEPT !.status = "COMPLETED", !.work = "DONE"]
  <2>1. o \in Order /\ row \in Row
    BY <1>4, JobTyped DEF FinishCommit
  <2>2. new \in Row
    BY <2>1 DEF Row, OrderStatus, WorkStatus
  <2>3. order' = [order EXCEPT ![o] = new]
    BY <1>4, <2>1 DEF FinishCommit
  <2> QED BY <2>1, <2>2, <2>3, WriteRow DEF TypeInv
<1>5. CASE RateCommit(r)
  <2>1. o \in Order /\ row \in Row /\ job[r].rate \in Rate
    BY <1>5, JobTyped DEF RateCommit, RateJob
  <2>2. [row EXCEPT !.rate = job[r].rate] \in Row
    BY <2>1 DEF Row
  <2>3. order' = [order EXCEPT ![o] = [row EXCEPT !.rate = job[r].rate]]
    BY <1>5, <2>1 DEF RateCommit
  <2> QED BY <2>1, <2>2, <2>3, WriteRow DEF TypeInv
<1>6. CASE SpecifyClear(r) \/ SpecifyConflict(r) \/ SpecifyDuplicate(r)
  BY <1>6 DEF SpecifyClear, SpecifyConflict, SpecifyDuplicate, RowsKept,
              TypeInv, TypeOK, Exists
<1> QED BY <1>1, <1>2, <1>3, <1>4, <1>5, <1>6 DEF Proceed

LEMMA ProceedTyped ==
  ASSUME TypeInv, NEW r \in Request, Proceed(r)
  PROVE  TypeInv'
<1> USE OrdersAssumption
<1>1. RowsKept
  BY ProceedRows
<1>2. CASE CancelCommit(r)
  BY <1>1, <1>2, FinishTyped
     DEF CancelCommit, SlotsWithout, TypeInv, TypeOK, RowsKept
<1>3. CASE SpecifyClear(r)
  BY <1>3 DEF SpecifyClear, At, TypeInv, TypeOK, JobInv, Stage, Exists
<1>4. CASE SpecifyConflict(r)
  BY <1>1, <1>4, FinishTyped, FreeLocksTyped
     DEF SpecifyConflict, TypeInv, TypeOK, RowsKept
<1>5. CASE SpecifyDuplicate(r)
  BY <1>1, <1>5, FinishTyped, FreeLocksTyped
     DEF SpecifyDuplicate, TypeInv, TypeOK, RowsKept
<1>6. CASE SpecifyCommit(r)
  <2>1. job[r] \in SpecifyJob
    BY <1>6, JobTyped DEF SpecifyCommit
  <2>2. slots' \subseteq Slot
    BY <1>6, <2>1 DEF SpecifyCommit, SpecifyJob, Slot, TypeInv, TypeOK
  <2> QED
    BY <1>1, <1>6, <2>2, FinishTyped, FreeLocksTyped
       DEF SpecifyCommit, TypeInv, TypeOK, RowsKept
<1>7. CASE StartUpdate(r)
  BY <1>1, <1>7, FinishTyped DEF StartUpdate, TypeInv, TypeOK, RowsKept
<1>8. CASE FinishCommit(r)
  BY <1>1, <1>8, FinishTyped DEF FinishCommit, TypeInv, TypeOK, RowsKept
<1>9. CASE RateCommit(r)
  <2> DEFINE w == order[job[r].order].worker
  <2>1. w \in Worker /\ job[r].rate \in Nat
    BY <1>9, JobTyped DEF RateCommit, RateJob, Row
  <2>2. profile' \in [Worker -> Profile]
    BY <1>9, <2>1 DEF RateCommit, AddRating, Profile, TypeInv, TypeOK
  <2> QED
    BY <1>1, <1>9, <2>2, FinishTyped DEF RateCommit, TypeInv, TypeOK, RowsKept
<1> QED
  BY <1>2, <1>3, <1>4, <1>5, <1>6, <1>7, <1>8, <1>9 DEF Proceed

LEMMA ExternalTyped ==
  ASSUME TypeInv, External
  PROVE  TypeInv'
<1> USE OrdersAssumption
<1>1. ASSUME NEW o \in Order, NEW row \in Row,
             order' = [order EXCEPT ![o] = row],
             UNCHANGED <<slots, profile, lock, pc, job, today>>
      PROVE  TypeInv'
  BY <1>1, WriteRow DEF RowsKept, TypeInv, TypeOK, JobInv, Exists, Job, RowJob,
                        SpecifyJob, RateJob
<1>2. ASSUME NEW o \in Order, NEW w \in Worker, NEW c \in Client, NEW day \in Day,
             InsertOrder(o, w, c, day)
      PROVE  TypeInv'
  <2>1. NewRow(w, c, day) \in Row
    BY DEF NewRow, Row, OrderStatus, WorkStatus
  <2> QED BY <1>1, <1>2, <2>1 DEF InsertOrder
<1>3. ASSUME NEW o \in Order, NEW next \in OrderStatus, MoveOrder(o, next)
      PROVE  TypeInv'
  <2> DEFINE new == [order[o] EXCEPT !.status = next]
  <2>1. order[o] \in Row
    BY <1>3 DEF MoveOrder, Exists, TypeInv, TypeOK
  <2>2. new \in Row
    BY <2>1 DEF Row
  <2>3. order' = [order EXCEPT ![o] = new]
    BY <1>3 DEF MoveOrder
  <2> QED BY <1>1, <1>3, <2>2, <2>3 DEF MoveOrder
<1>4. ASSUME NEW o \in Order, ScheduleWork(o)
      PROVE  TypeInv'
  <2> DEFINE new == [order[o] EXCEPT !.work = "WAITING_FOR_WORK"]
  <2>1. order[o] \in Row
    BY <1>4 DEF ScheduleWork, Exists, TypeInv, TypeOK
  <2>2. new \in Row
    BY <2>1 DEF Row, WorkStatus
  <2>3. order' = [order EXCEPT ![o] = new]
    BY <1>4 DEF ScheduleWork
  <2> QED BY <1>1, <1>4, <2>2, <2>3 DEF ScheduleWork
<1>5. CASE NextDay
  BY <1>5 DEF NextDay, Day, TypeInv, TypeOK, JobInv, Exists
<1> QED
  BY <1>2, <1>3, <1>4, <1>5 DEF External, AgreePrice, Pay, OrderStatus

LEMMA TypeStep == TypeInv /\ [Next]_vars => TypeInv'
<1> SUFFICES ASSUME TypeInv, [Next]_vars
             PROVE  TypeInv'
  OBVIOUS
<1>1. ASSUME NEW r \in Request, SpecifyLock(r)
      PROVE  TypeInv'
  BY <1>1, JobTyped
     DEF SpecifyLock, At, SpecifyJob, TypeInv, TypeOK, JobInv, Stage, Exists
<1>2. ASSUME NEW r \in Request, Fail(r)
      PROVE  TypeInv'
  <2>1. RowsKept
    BY <1>2 DEF Fail, RowsKept, TypeInv, TypeOK, Exists
  <2> QED
    BY <1>2, <2>1, FinishTyped, FreeLocksTyped DEF Fail, TypeInv, TypeOK
<1>3. CASE UNCHANGED vars
  BY <1>3 DEF vars, TypeInv, TypeOK, JobInv, Exists
<1> QED
  BY <1>1, <1>2, <1>3, CallTyped, ProceedTyped, ExternalTyped DEF Next

LEMMA TypeInit == Init => TypeInv
BY OrdersAssumption
   DEF Init, TypeInv, TypeOK, JobInv, Profile, Stage, Day

\* Every variable always has its type.
THEOREM TypeCorrect == Spec => []TypeOK
<1>1. Spec => []TypeInv
  BY TypeInit, TypeStep, PTL DEF Spec
<1>2. TypeInv => TypeOK
  BY DEF TypeInv
<1> QED BY <1>1, <1>2, PTL

----------------------------------------------------------------------------
\* No double booking.  A call past SpecifyClear has found the worker's slots
\* clear of its range.  That stays true until it commits because only a call
\* that holds the worker's lock adds a slot for the worker.

LockInv ==
  \A r \in Request :
    pc[r] \in {"locked", "clear"} => lock[job[r].worker] = r

RangeInv ==
  /\ \A r \in Request :
       pc[r] # "idle" /\ job[r].op = "specify" => job[r].start < job[r].end
  /\ \A s \in slots : s.start < s.end

ClearInv == \A r \in Request : pc[r] = "clear" => ~Overlapping(job[r])

BookingInv ==
  TypeInv /\ LockInv /\ RangeInv /\ ClearInv /\ C!NoDoubleBooking

\* A step that adds no slot keeps every call's finding.
LEMMA FewerSlots ==
  ASSUME BookingInv, slots' \subseteq slots
  PROVE  /\ \A s \in slots' : s.start < s.end
         /\ C!NoDoubleBooking'
         /\ \A j : ~Overlapping(j) => ~Overlapping(j)'
BY DEF BookingInv, RangeInv, Overlapping, C!NoDoubleBooking, C!Clash

\* A call that ends, giving its locks back or not, disturbs no other call.
LEMMA EndKeeps ==
  ASSUME BookingInv, NEW r \in Request, Finish(r), slots' \subseteq slots,
         TypeInv', FreeLocks(r) \/ UNCHANGED lock
  PROVE  BookingInv'
<1>1. \A q \in Request : q # r => pc'[q] = pc[q] /\ job'[q] = job[q]
  BY DEF Finish, BookingInv, TypeInv, TypeOK
<1>2. pc'[r] = "idle"
  BY DEF Finish, BookingInv, TypeInv, TypeOK
<1>3. \A q \in Request : q # r /\ pc'[q] # "idle" => job[q] \in Job
  BY <1>1 DEF BookingInv, TypeInv, JobInv
<1>4. LockInv'
  <2> SUFFICES ASSUME NEW q \in Request, pc'[q] \in {"locked", "clear"}
               PROVE  lock'[job'[q].worker] = q
    BY DEF LockInv
  <2>1. q # r /\ pc[q] = pc'[q] /\ job'[q] = job[q]
    BY <1>1, <1>2
  <2>2. lock[job[q].worker] = q
    BY <2>1 DEF BookingInv, LockInv
  <2>3. job[q].worker \in Worker
    BY <2>1, <1>3 DEF BookingInv, TypeInv, JobInv, Job, RowJob, SpecifyJob, RateJob
  <2> QED BY <2>1, <2>2, <2>3 DEF FreeLocks
<1>5. RangeInv'
  BY <1>1, <1>2, FewerSlots DEF RangeInv, BookingInv
<1>6. ClearInv'
  BY <1>1, <1>2, FewerSlots DEF ClearInv, BookingInv
<1> QED BY <1>4, <1>5, <1>6, FewerSlots DEF BookingInv

\* A call that is accepted has looked at no slot yet.
LEMMA AcceptKeeps ==
  ASSUME BookingInv, NEW r \in Request, NEW j \in Job, Accept(r, j),
         j.op = "specify" => j.start < j.end, TypeInv'
  PROVE  BookingInv'
<1>1. \A q \in Request : q # r => pc'[q] = pc[q] /\ job'[q] = job[q]
  BY DEF Accept, BookingInv, TypeInv, TypeOK
<1>2. pc'[r] = "checked" /\ job'[r] = j
  BY DEF Accept, BookingInv, TypeInv, TypeOK
<1>3. slots' = slots /\ lock' = lock
  BY DEF Accept
<1>4. LockInv'
  BY <1>1, <1>2, <1>3 DEF LockInv, BookingInv
<1>5. RangeInv'
  BY <1>1, <1>2, <1>3 DEF RangeInv, BookingInv
<1>6. ClearInv'
  BY <1>1, <1>2, <1>3, FewerSlots DEF ClearInv, BookingInv
<1> QED BY <1>4, <1>5, <1>6, <1>3, FewerSlots DEF BookingInv

\* The step that books.
LEMMA CommitKeeps ==
  ASSUME BookingInv, NEW r \in Request, SpecifyCommit(r), TypeInv'
  PROVE  BookingInv'
<1> DEFINE j == job[r]
           new == [order |-> j.order, worker |-> j.worker,
                   start |-> j.start, end |-> j.end]
<1>1. j \in SpecifyJob
  BY JobTyped DEF SpecifyCommit, BookingInv
<1>2. slots' = slots \cup {new} /\ ~HasSlot(j.order)
  BY DEF SpecifyCommit
<1>3. \A q \in Request : q # r => pc'[q] = pc[q] /\ job'[q] = job[q]
  BY DEF SpecifyCommit, Finish, BookingInv, TypeInv, TypeOK
<1>4. pc'[r] = "idle"
  BY DEF SpecifyCommit, Finish, BookingInv, TypeInv, TypeOK
<1>5. lock[j.worker] = r /\ j.start < j.end /\ ~Overlapping(j)
  BY DEF SpecifyCommit, At, BookingInv, LockInv, RangeInv, ClearInv
<1>6. LockInv'
  <2> SUFFICES ASSUME NEW q \in Request, pc'[q] \in {"locked", "clear"}
               PROVE  lock'[job'[q].worker] = q
    BY DEF LockInv
  <2>1. q # r /\ pc[q] = pc'[q] /\ job'[q] = job[q]
    BY <1>3, <1>4
  <2>2. lock[job[q].worker] = q
    BY <2>1 DEF BookingInv, LockInv
  <2>3. job[q].worker \in Worker
    BY <2>1 DEF BookingInv, TypeInv, JobInv, Job, RowJob, SpecifyJob, RateJob
  <2> QED BY <2>1, <2>2, <2>3 DEF SpecifyCommit, FreeLocks
<1>7. RangeInv'
  BY <1>2, <1>3, <1>4, <1>5 DEF RangeInv, BookingInv
<1>8. ClearInv'
  <2> SUFFICES ASSUME NEW q \in Request, pc'[q] = "clear",
                      NEW s \in slots', s.worker = job'[q].worker
               PROVE  ~HasOverlap(job'[q].start, job'[q].end, s.start, s.end)
    BY DEF ClearInv, Overlapping
  <2>1. q # r /\ pc[q] = "clear" /\ job'[q] = job[q]
    BY <1>3, <1>4
  <2>2. lock[job[q].worker] = q
    BY <2>1 DEF BookingInv, LockInv
  <2>3. s # new
    BY <1>5, <2>1, <2>2
  <2> QED BY <1>2, <2>1, <2>3 DEF BookingInv, ClearInv, Overlapping
<1>9. C!NoDoubleBooking'
  <2>1. \A s \in slots : s.order # new.order /\ ~C!Clash(new, s)
    BY <1>2, <1>5
       DEF HasSlot, Overlapping, C!Clash, C!HasOverlap, HasOverlap
  <2>2. \A s \in slots : ~C!Clash(s, new)
    <3> SUFFICES ASSUME NEW s \in slots, s.worker = new.worker
                 PROVE  ~HasOverlap(s.start, s.end, new.start, new.end)
      BY DEF C!Clash, C!HasOverlap, HasOverlap
    <3>1. s.start \in Int /\ s.end \in Int
      BY TimeIsInt DEF BookingInv, TypeInv, TypeOK, Slot
    <3>2. new.start \in Int /\ new.end \in Int
      BY <1>1, TimeIsInt DEF SpecifyJob
    <3>3. ~HasOverlap(new.start, new.end, s.start, s.end)
      BY <1>2, <1>5 DEF Overlapping
    <3> QED BY <3>1, <3>2, <3>3, OverlapSymmetric
  <2> QED BY <1>2, <2>1, <2>2 DEF BookingInv, C!NoDoubleBooking
<1> QED BY <1>6, <1>7, <1>8, <1>9 DEF BookingInv

LEMMA BookingStep == BookingInv /\ [Next]_vars => BookingInv'
<1> SUFFICES ASSUME BookingInv, [Next]_vars
             PROVE  BookingInv'
  OBVIOUS
<1>1. TypeInv'
  BY TypeStep DEF BookingInv
<1>2. ASSUME NEW r \in Request, Call(r)
      PROVE  BookingInv'
  BY <1>1, <1>2, AcceptKeeps
     DEF Call, CancelRead, SpecifyRead, StartRead, FinishRead, RateRead, Job,
         RowJob, SpecifyJob, RateJob
<1>3. ASSUME NEW r \in Request, Proceed(r)
      PROVE  BookingInv'
  <2>1. CASE CancelCommit(r) \/ StartUpdate(r) \/ FinishCommit(r) \/ RateCommit(r)
    BY <1>1, <2>1, EndKeeps
       DEF CancelCommit, StartUpdate, FinishCommit, RateCommit, SlotsWithout
  <2>2. CASE SpecifyConflict(r) \/ SpecifyDuplicate(r)
    BY <1>1, <2>2, EndKeeps DEF SpecifyConflict, SpecifyDuplicate
  <2>3. CASE SpecifyClear(r)
    <3>1. pc' = [pc EXCEPT ![r] = "clear"] /\ pc[r] = "locked"
      BY <2>3 DEF SpecifyClear, At
    <3>2. slots' = slots /\ lock' = lock /\ job' = job
      BY <2>3 DEF SpecifyClear
    <3>3. ~Overlapping(job[r])
      BY <2>3 DEF SpecifyClear
    <3> QED
      BY <1>1, <3>1, <3>2, <3>3
         DEF BookingInv, TypeInv, TypeOK, LockInv, RangeInv, ClearInv,
             Overlapping, C!NoDoubleBooking, C!Clash
  <2>4. CASE SpecifyCommit(r)
    BY <1>1, <2>4, CommitKeeps
  <2> QED BY <1>3, <2>1, <2>2, <2>3, <2>4 DEF Proceed
<1>4. ASSUME NEW r \in Request, SpecifyLock(r)
      PROVE  BookingInv'
  <2>1. job[r] \in SpecifyJob /\ pc[r] = "checked"
    BY <1>4, JobTyped DEF SpecifyLock, At, BookingInv
  <2>2. lock[job[r].worker] = Nobody /\ lock' = [lock EXCEPT ![job[r].worker] = r]
    BY <1>4 DEF SpecifyLock
  <2>3. pc' = [pc EXCEPT ![r] = "locked"] /\ job' = job /\ slots' = slots
    BY <1>4 DEF SpecifyLock
  <2>4. LockInv'
    BY <2>1, <2>2, <2>3, OrdersAssumption
       DEF LockInv, SpecifyJob, BookingInv, TypeInv, TypeOK
  <2> QED
    BY <1>1, <2>1, <2>3, <2>4
       DEF BookingInv, TypeInv, TypeOK, RangeInv, ClearInv, Overlapping,
           C!NoDoubleBooking, C!Clash
<1>5. ASSUME NEW r \in Request, Fail(r)
      PROVE  BookingInv'
  BY <1>1, <1>5, EndKeeps DEF Fail
<1>6. CASE External \/ UNCHANGED vars
  <2>1. UNCHANGED <<slots, lock, pc, job>>
    BY <1>6 DEF External, InsertOrder, AgreePrice, Pay, MoveOrder, ScheduleWork,
                NextDay, vars
  <2> QED
    BY <1>1, <2>1 DEF BookingInv, LockInv, RangeInv, ClearInv, Overlapping,
                      C!NoDoubleBooking, C!Clash
<1> QED BY <1>2, <1>3, <1>4, <1>5, <1>6 DEF Next

LEMMA BookingInit == Init => BookingInv
BY TypeInit
   DEF Init, BookingInv, LockInv, RangeInv, ClearInv, Overlapping,
       C!NoDoubleBooking

\* However many calls specify time ranges for a worker at once, the worker's
\* occupied slots never overlap.
THEOREM NeverDoubleBooked == Spec => []NoDoubleBooking
<1>1. Spec => []BookingInv
  BY BookingInit, BookingStep, PTL DEF Spec
<1>2. BookingInv => NoDoubleBooking
  BY DEF BookingInv, NoDoubleBooking, C!NoDoubleBooking, C!Clash, C!HasOverlap,
         HasOverlap
<1> QED BY <1>1, <1>2, PTL

----------------------------------------------------------------------------
\* Slots and orders agree.  A time range is specified by the order's worker,
\* and an order never changes hands.

OwnerInv ==
  \A r \in Request :
    pc[r] # "idle" /\ job[r].op = "specify" =>
      order[job[r].order].worker = job[r].worker

MatchInv == TypeInv /\ OwnerInv /\ SlotsMatchOrders

\* What a write to an order's row must respect while the slots stay.
Respects(row, new) ==
  /\ new.worker = row.worker /\ new.end = row.end
  /\ \/ new.status = row.status
     \/ new.status \notin {"PENDING", "CANCELLED", "TIME_SPECIFIED"}

\* A step that leaves the slots alone and respects the rows it writes keeps the
\* agreement.
LEMMA RespectfulStep ==
  ASSUME MatchInv, TypeInv', RowsKept, slots' = slots,
         \A o \in Order : Exists(o) => Respects(order[o], order'[o]),
         \A o \in Order : ~Exists(o) =>
           order'[o] = NoRow \/ order'[o].status = "PENDING",
         \A q \in Request :
           pc'[q] # "idle" /\ job'[q].op = "specify" =>
             \/ pc[q] # "idle" /\ job'[q] = job[q]
             \/ /\ job'[q].order \in Order /\ Exists(job'[q].order)
                /\ order[job'[q].order].worker = job'[q].worker
  PROVE  MatchInv'
<1>1. OwnerInv'
  <2> SUFFICES ASSUME NEW q \in Request, pc'[q] # "idle", job'[q].op = "specify"
               PROVE  order'[job'[q].order].worker = job'[q].worker
    BY DEF OwnerInv
  <2>1. CASE pc[q] # "idle" /\ job'[q] = job[q]
    BY <2>1 DEF MatchInv, TypeInv, JobInv, OwnerInv, Respects, Job, RowJob,
                SpecifyJob, RateJob
  <2>2. CASE /\ job'[q].order \in Order /\ Exists(job'[q].order)
             /\ order[job'[q].order].worker = job'[q].worker
    BY <2>2 DEF Respects
  <2> QED BY <2>1, <2>2
<1>2. SlotsMatchOrders'
  <2>1. \A s \in slots :
          /\ s.order \in Order
          /\ Exists(s.order)
          /\ order[s.order].worker = s.worker
          /\ order[s.order].status \notin {"PENDING", "CANCELLED"}
          /\ order[s.order].end = s.end
    BY DEF MatchInv, SlotsMatchOrders, TypeInv, TypeOK, Slot
  <2>2. \A o \in Order : Exists(o) => order'[o] # NoRow
    BY DEF RowsKept
  <2>3. \A s \in slots :
          /\ order'[s.order] # NoRow
          /\ order'[s.order].worker = s.worker
          /\ order'[s.order].status \notin {"PENDING", "CANCELLED"}
          /\ order'[s.order].end = s.end
    BY <2>1, <2>2 DEF Respects
  <2>4. \A o \in Order :
          order'[o] # NoRow /\ order'[o].status = "TIME_SPECIFIED" =>
            Exists(o) /\ order[o].status = "TIME_SPECIFIED"
    BY DEF Respects
  <2> QED BY <2>3, <2>4 DEF MatchInv, SlotsMatchOrders, Exists, HasSlot
<1> QED BY <1>1, <1>2 DEF MatchInv

\* The steps of accepted calls that write one row and leave the slots alone.
LEMMA MatchProceed ==
  ASSUME MatchInv, TypeInv', NEW r \in Request,
         StartUpdate(r) \/ FinishCommit(r) \/ RateCommit(r)
  PROVE  MatchInv'
<1> DEFINE o == job[r].order
<1>1. o \in Order /\ order[o] \in Row
  BY JobTyped DEF StartUpdate, FinishCommit, RateCommit, MatchInv
<1>2. \A p \in Order : Exists(p) => Respects(order[p], order'[p])
  BY <1>1 DEF StartUpdate, FinishCommit, RateCommit, Respects, Row, MatchInv,
              TypeInv, TypeOK, Exists
<1>3. \A p \in Order : ~Exists(p) => order'[p] = NoRow
  BY <1>1, OrdersAssumption
     DEF StartUpdate, FinishCommit, RateCommit, MatchInv, TypeInv, TypeOK, Exists
<1>4. \A q \in Request : pc'[q] # "idle" => pc[q] # "idle" /\ job'[q] = job[q]
  BY DEF StartUpdate, FinishCommit, RateCommit, Finish, MatchInv, TypeInv, TypeOK
<1>5. RowsKept /\ slots' = slots
  BY ProceedRows DEF Proceed, StartUpdate, FinishCommit, RateCommit, MatchInv
<1> QED BY <1>2, <1>3, <1>4, <1>5, RespectfulStep

LEMMA MatchExternal ==
  ASSUME MatchInv, TypeInv', External
  PROVE  MatchInv'
<1>1. UNCHANGED <<slots, pc, job>>
  BY DEF External, InsertOrder, AgreePrice, Pay, MoveOrder, ScheduleWork, NextDay
<1>2. \A p \in Order :
        /\ Exists(p) => order'[p] # NoRow /\ Respects(order[p], order'[p])
        /\ ~Exists(p) => order'[p] = NoRow \/ order'[p].status = "PENDING"
  <2>1. ASSUME NEW o \in Order, NEW w \in Worker, NEW c \in Client,
               NEW day \in Day, InsertOrder(o, w, c, day), NEW p \in Order
        PROVE  /\ Exists(p) => order'[p] # NoRow /\ Respects(order[p], order'[p])
               /\ ~Exists(p) => order'[p] = NoRow \/ order'[p].status = "PENDING"
    BY <2>1 DEF InsertOrder, NewRow, Respects, Exists, MatchInv, TypeInv, TypeOK
  <2>2. ASSUME NEW o \in Order, NEW next \in {"PRICE_AGREED", "PAID"},
               MoveOrder(o, next), NEW p \in Order
        PROVE  /\ Exists(p) => order'[p] # NoRow /\ Respects(order[p], order'[p])
               /\ ~Exists(p) => order'[p] = NoRow
    <3>1. order[o] \in Row
      BY <2>2 DEF MoveOrder, Exists, MatchInv, TypeInv, TypeOK
    <3>2. [order[o] EXCEPT !.status = next] \in Row
      BY <3>1 DEF Row, OrderStatus
    <3>3. order' = [order EXCEPT ![o] = [order[o] EXCEPT !.status = next]]
      BY <2>2 DEF MoveOrder
    <3> QED
      BY <2>2, <3>1, <3>2, <3>3, OrdersAssumption
         DEF Respects, Exists, MatchInv, TypeInv, TypeOK, Row
  <2>3. ASSUME NEW o \in Order, ScheduleWork(o), NEW p \in Order
        PROVE  /\ Exists(p) => order'[p] # NoRow /\ Respects(order[p], order'[p])
               /\ ~Exists(p) => order'[p] = NoRow
    <3> DEFINE new == [order[o] EXCEPT !.work = "WAITING_FOR_WORK"]
    <3>1. order[o] \in Row
      BY <2>3 DEF ScheduleWork, Exists, MatchInv, TypeInv, TypeOK
    <3>2. new \in Row
      BY <3>1 DEF Row, WorkStatus
    <3>3. order' = [order EXCEPT ![o] = new]
      BY <2>3 DEF ScheduleWork
    <3> QED
      BY <2>3, <3>1, <3>2, <3>3, OrdersAssumption
         DEF Respects, Exists, MatchInv, TypeInv, TypeOK, Row
  <2>4. CASE NextDay
    BY <2>4 DEF NextDay, Respects, Exists
  <2> QED BY <2>1, <2>2, <2>3, <2>4 DEF External, AgreePrice, Pay
<1>3. RowsKept
  BY <1>2 DEF RowsKept, TypeInv, TypeOK
<1> QED BY <1>1, <1>2, <1>3, RespectfulStep

LEMMA MatchCancel ==
  ASSUME MatchInv, TypeInv', NEW r \in Request, CancelCommit(r)
  PROVE  MatchInv'
<1> DEFINE o == job[r].order
<1>1. o \in Order /\ order[o] \in Row
  BY JobTyped DEF CancelCommit, MatchInv
<1>2. slots' = {s \in slots : s.order # o}
  BY DEF CancelCommit, SlotsWithout
<1>3. order' = [order EXCEPT ![o] = [order[o] EXCEPT !.status = "CANCELLED"]]
  BY <1>1 DEF CancelCommit
<1>4. /\ order'[o].status = "CANCELLED"
      /\ order'[o].worker = order[o].worker
      /\ \A p \in Order : p # o => order'[p] = order[p]
  BY <1>1, <1>3 DEF Row, MatchInv, TypeInv, TypeOK
<1>5. OwnerInv'
  <2> SUFFICES ASSUME NEW q \in Request, pc'[q] # "idle", job'[q].op = "specify"
               PROVE  order'[job'[q].order].worker = job'[q].worker
    BY DEF OwnerInv
  <2>1. pc[q] # "idle" /\ job'[q] = job[q]
    BY DEF CancelCommit, Finish, MatchInv, TypeInv, TypeOK
  <2>2. job[q].order \in Order /\ order[job[q].order].worker = job[q].worker
    BY <2>1 DEF MatchInv, TypeInv, JobInv, OwnerInv, Job, RowJob, SpecifyJob, RateJob
  <2> QED BY <1>4, <2>1, <2>2
<1>6. SlotsMatchOrders'
  <2>1. \A s \in slots' : s \in slots /\ s.order \in Order /\ s.order # o
    BY <1>2 DEF MatchInv, TypeInv, TypeOK, Slot
  <2>2. \A p \in Order :
          Exists(p)' /\ order'[p].status = "TIME_SPECIFIED" =>
            p # o /\ Exists(p) /\ order[p].status = "TIME_SPECIFIED"
    BY <1>4 DEF Exists
  <2>3. \A p \in Order : p # o /\ HasSlot(p) => HasSlot(p)'
    BY <1>2 DEF HasSlot
  <2> QED
    BY <1>4, <2>1, <2>2, <2>3 DEF MatchInv, SlotsMatchOrders, Exists
<1> QED BY <1>5, <1>6 DEF MatchInv

LEMMA MatchCommit ==
  ASSUME MatchInv, TypeInv', NEW r \in Request, SpecifyCommit(r)
  PROVE  MatchInv'
<1> DEFINE o == job[r].order
           new == [order |-> o, worker |-> job[r].worker,
                   start |-> job[r].start, end |-> job[r].end]
<1>1. o \in Order /\ order[o] \in Row /\ job[r] \in SpecifyJob
  BY JobTyped DEF SpecifyCommit, MatchInv
<1>2. slots' = slots \cup {new} /\ ~HasSlot(o)
  BY DEF SpecifyCommit
<1>3. order' = [order EXCEPT ![o] = [order[o] EXCEPT !.status = "TIME_SPECIFIED",
                                                     !.end = job[r].end]]
  BY <1>1 DEF SpecifyCommit
<1>4. /\ order'[o].status = "TIME_SPECIFIED" /\ order'[o].end = job[r].end
      /\ order'[o].worker = order[o].worker
      /\ \A p \in Order : p # o => order'[p] = order[p]
  BY <1>1, <1>3 DEF Row, MatchInv, TypeInv, TypeOK
<1>5. OwnerInv'
  <2> SUFFICES ASSUME NEW q \in Request, pc'[q] # "idle", job'[q].op = "specify"
               PROVE  order'[job'[q].order].worker = job'[q].worker
    BY DEF OwnerInv
  <2>1. pc[q] # "idle" /\ job'[q] = job[q]
    BY DEF SpecifyCommit, Finish, MatchInv, TypeInv, TypeOK
  <2>2. job[q].order \in Order /\ order[job[q].order].worker = job[q].worker
    BY <2>1 DEF MatchInv, TypeInv, JobInv, OwnerInv, Job, RowJob, SpecifyJob, RateJob
  <2> QED BY <1>4, <2>1, <2>2
<1>6. SlotsMatchOrders'
  <2>1. order[o].worker = job[r].worker
    BY DEF SpecifyCommit, At, MatchInv, OwnerInv
  <2>2. \A s \in slots : s.order \in Order /\ s.order # o
    BY <1>2 DEF HasSlot, MatchInv, TypeInv, TypeOK, Slot
  <2>3. order'[o] # NoRow
    BY <1>1, ProceedRows DEF Proceed, RowsKept, Exists, MatchInv, TypeInv, JobInv,
                             SpecifyCommit, At
  <2>4. /\ \E s \in slots' : s.order = o
        /\ \A p \in Order : HasSlot(p) => HasSlot(p)'
    <3>1. new \in slots' /\ new.order = o /\ slots \subseteq slots'
      BY <1>2
    <3> HIDE DEF new, o
    <3> QED BY <3>1 DEF HasSlot
  <2>5. \A p \in Order :
          Exists(p)' /\ order'[p].status = "TIME_SPECIFIED" =>
            \/ p = o
            \/ Exists(p) /\ order[p].status = "TIME_SPECIFIED"
    BY <1>4 DEF Exists
  <2>6. \A p \in Order :
          Exists(p)' /\ order'[p].status = "TIME_SPECIFIED" => HasSlot(p)'
    BY <2>4, <2>5 DEF HasSlot, MatchInv, SlotsMatchOrders
  <2>7. \A s \in slots' : \/ s = new
                          \/ s \in slots /\ s.order \in Order /\ s.order # o
    BY <1>2, <2>2
  <2> QED
    BY <1>4, <2>1, <2>3, <2>6, <2>7 DEF MatchInv, SlotsMatchOrders, Exists
<1> QED BY <1>5, <1>6 DEF MatchInv

LEMMA MatchStep == MatchInv /\ [Next]_vars => MatchInv'
<1> SUFFICES ASSUME MatchInv, [Next]_vars
             PROVE  MatchInv'
  OBVIOUS
<1>1. TypeInv'
  BY TypeStep DEF MatchInv
<1>2. ASSUME UNCHANGED <<order, slots>>,
             \A q \in Request : pc'[q] # "idle" =>
               \/ pc[q] # "idle" /\ job'[q] = job[q]
               \/ job'[q].op # "specify"
               \/ /\ job'[q].order \in Order /\ Exists(job'[q].order)
                  /\ order[job'[q].order].worker = job'[q].worker
      PROVE  MatchInv'
  <2>1. RowsKept
    BY <1>2 DEF RowsKept, Exists, MatchInv, TypeInv, TypeOK
  <2>2. \A o \in Order : /\ Exists(o) => Respects(order[o], order'[o])
                         /\ ~Exists(o) => order'[o] = NoRow
    BY <1>2 DEF Respects, Exists
  <2> QED BY <1>1, <1>2, <2>1, <2>2, RespectfulStep
<1>3. ASSUME NEW r \in Request, Call(r)
      PROVE  MatchInv'
  <2>1. ASSUME NEW j, Accept(r, j),
               \/ j.op # "specify"
               \/ /\ j.order \in Order /\ Exists(j.order)
                  /\ order[j.order].worker = j.worker
        PROVE  MatchInv'
    <3>1. UNCHANGED <<order, slots>>
      BY <2>1 DEF Accept
    <3>2. /\ job'[r] = j
          /\ \A q \in Request : q # r => pc'[q] = pc[q] /\ job'[q] = job[q]
      BY <2>1 DEF Accept, MatchInv, TypeInv, TypeOK
    <3> QED BY <1>2, <2>1, <3>1, <3>2
  <2>2. ASSUME NEW o \in Order, NEW c \in Client, CancelRead(r, o, c)
        PROVE  MatchInv'
    BY <2>1, <2>2 DEF CancelRead
  <2>3. ASSUME NEW o \in Order, NEW w \in Worker, NEW start \in Time,
               NEW end \in Time, SpecifyRead(r, o, w, start, end)
        PROVE  MatchInv'
    BY <2>1, <2>3 DEF SpecifyRead
  <2>4. ASSUME NEW o \in Order, NEW w \in Worker,
               StartRead(r, o, w) \/ FinishRead(r, o, w)
        PROVE  MatchInv'
    BY <2>1, <2>4 DEF StartRead, FinishRead
  <2>5. ASSUME NEW o \in Order, NEW c \in Client, NEW rate \in Rate,
               RateRead(r, o, c, rate)
        PROVE  MatchInv'
    BY <2>1, <2>5 DEF RateRead
  <2> QED BY <1>3, <2>2, <2>3, <2>4, <2>5 DEF Call
<1>4. ASSUME NEW r \in Request, Proceed(r)
      PROVE  MatchInv'
  <2>1. CASE SpecifyClear(r) \/ SpecifyConflict(r) \/ SpecifyDuplicate(r)
    <3>1. UNCHANGED <<order, slots>>
      BY <2>1 DEF SpecifyClear, SpecifyConflict, SpecifyDuplicate
    <3>2. \A q \in Request : pc'[q] # "idle" => pc[q] # "idle" /\ job'[q] = job[q]
      BY <2>1 DEF SpecifyClear, SpecifyConflict, SpecifyDuplicate, Finish, At,
                  MatchInv, TypeInv, TypeOK
    <3> QED BY <1>2, <3>1, <3>2
  <2> QED
    BY <1>1, <1>4, <2>1, MatchCancel, MatchCommit, MatchProceed DEF Proceed
<1>5. ASSUME NEW r \in Request, SpecifyLock(r) \/ Fail(r)
      PROVE  MatchInv'
  <2>1. UNCHANGED <<order, slots>>
    BY <1>5 DEF SpecifyLock, Fail
  <2>2. \A q \in Request : pc'[q] # "idle" => pc[q] # "idle" /\ job'[q] = job[q]
    BY <1>5 DEF SpecifyLock, Fail, Finish, At, MatchInv, TypeInv, TypeOK
  <2> QED BY <1>2, <2>1, <2>2
<1>6. CASE UNCHANGED vars
  BY <1>2, <1>6 DEF vars
<1> QED BY <1>1, <1>3, <1>4, <1>5, <1>6, MatchExternal DEF Next

LEMMA MatchInit == Init => MatchInv
BY TypeInit DEF Init, MatchInv, OwnerInv, SlotsMatchOrders, Exists, HasSlot

\* Slots and orders always agree, whatever calls overtake each other or die.
THEOREM SlotsAlwaysMatch == Spec => []SlotsMatchOrders
<1>1. Spec => []MatchInv
  BY MatchInit, MatchStep, PTL DEF Spec
<1>2. MatchInv => SlotsMatchOrders
  BY DEF MatchInv
<1> QED BY <1>1, <1>2, PTL

----------------------------------------------------------------------------
\* Refinement of Calendar

\* A booking changes by one commit of specifyTimeRange, which books a range
\* that clashes with none, or of cancelOrder, which releases the order.
LEMMA CalendarStep ==
  BookingInv /\ [Next]_vars => [C!Next]_slots
<1> SUFFICES ASSUME BookingInv, [Next]_vars, slots' # slots
             PROVE  C!Next
  OBVIOUS
<1>1. PICK r \in Request : CancelCommit(r) \/ SpecifyCommit(r)
  BY DEF Next, Call, Proceed, External, vars, CancelRead, SpecifyRead, StartRead,
         FinishRead, RateRead, Accept, SpecifyClear, SpecifyConflict,
         SpecifyDuplicate, StartUpdate, FinishCommit, RateCommit, SpecifyLock,
         Fail, InsertOrder, AgreePrice, Pay, MoveOrder, ScheduleWork, NextDay
<1>2. CASE CancelCommit(r)
  <2>1. job[r].order \in Order
    BY <1>2, JobTyped DEF CancelCommit, BookingInv
  <2>2. C!Release(job[r].order)
    BY <1>2 DEF CancelCommit, SlotsWithout, C!Release
  <2> QED BY <2>1, <2>2 DEF C!Next
<1>3. CASE SpecifyCommit(r)
  <2> DEFINE new == [order |-> job[r].order, worker |-> job[r].worker,
                     start |-> job[r].start, end |-> job[r].end]
  <2>1. job[r] \in SpecifyJob
    BY <1>3, JobTyped DEF SpecifyCommit, BookingInv
  <2>2. new \in C!Booking
    BY <2>1 DEF SpecifyJob, C!Booking
  <2>3. job[r].start < job[r].end /\ ~Overlapping(job[r])
    BY <1>3 DEF SpecifyCommit, At, BookingInv, RangeInv, ClearInv
  <2>4. slots' = slots \cup {new} /\ ~HasSlot(job[r].order)
    BY <1>3 DEF SpecifyCommit
  <2>5. \A s \in slots : s.order # new.order /\ ~C!Clash(new, s)
    BY <2>3, <2>4 DEF HasSlot, Overlapping, C!Clash, C!HasOverlap, HasOverlap
  <2>6. C!Book(new)
    BY <2>3, <2>4, <2>5 DEF C!Book
  <2> QED BY <2>2, <2>6 DEF C!Next
<1> QED BY <1>1, <1>2, <1>3

\* The order service implements the abstract calendar of bookings.
THEOREM CalendarImplemented == Spec => ImplementsCalendar
<1>1. Init => C!Init
  BY DEF Init, C!Init
<1>2. Spec => []BookingInv
  BY BookingInit, BookingStep, PTL DEF Spec
<1> QED
  BY <1>1, <1>2, CalendarStep, PTL DEF Spec, ImplementsCalendar, C!Spec

\* Only a cancellation gives a worker's time back.
THEOREM ReleasedOnlyByCancel == Spec => SlotReleasedOnlyByCancel
<1>1. MatchInv /\ [Next]_vars =>
        [\A s \in slots :
           s \in slots' \/ order'[s.order].status = "CANCELLED"]_vars
  <2> SUFFICES ASSUME MatchInv, [Next]_vars, NEW s \in slots, s \notin slots'
               PROVE  order'[s.order].status = "CANCELLED"
    OBVIOUS
  <2>1. PICK r \in Request : CancelCommit(r)
    BY DEF Next, Call, Proceed, External, vars, CancelRead, SpecifyRead, StartRead,
           FinishRead, RateRead, Accept, SpecifyClear, SpecifyConflict,
           SpecifyDuplicate, SpecifyCommit, StartUpdate, FinishCommit, RateCommit,
           SpecifyLock, Fail, InsertOrder, AgreePrice, Pay, MoveOrder,
           ScheduleWork, NextDay
  <2>2. s.order = job[r].order
    BY <2>1 DEF CancelCommit, SlotsWithout
  <2>3. job[r].order \in Order /\ order[job[r].order] \in Row
    BY <2>1, JobTyped DEF CancelCommit, MatchInv
  <2>4. order' = [order EXCEPT ![job[r].order] =
                    [order[job[r].order] EXCEPT !.status = "CANCELLED"]]
    BY <2>1, <2>3 DEF CancelCommit
  <2> QED BY <2>2, <2>3, <2>4 DEF Row, MatchInv, TypeInv, TypeOK
<1>2. Spec => []MatchInv
  BY MatchInit, MatchStep, PTL DEF Spec
<1> QED BY <1>1, <1>2, PTL DEF Spec, SlotReleasedOnlyByCancel
----------------------------------------------------------------------------
\* Ratings.  Orders are rated one at a time, so those of a worker are finitely
\* many however many orders there are, and each step that adds one counts it.

CountInv ==
  \A w \in Worker :
    /\ IsFiniteSet(RatedOrders(w))
    /\ Cardinality(RatedOrders(w)) <= profile[w].jobs

RatingInv == TypeInv /\ CountInv

\* A row keeps its worker and its rating.
SameRating(old, new) == new.worker = old.worker /\ new.rate = old.rate

RatingsKept ==
  /\ UNCHANGED profile
  /\ \A o \in Order :
       /\ Exists(o) => order'[o] # NoRow /\ SameRating(order[o], order'[o])
       /\ ~Exists(o) => order'[o] = NoRow \/ order'[o].rate = NoRate

\* A step that rates nothing leaves the counts alone.
LEMMA UnratedStep ==
  ASSUME RatingInv, TypeInv', RatingsKept
  PROVE  RatingInv'
<1>1. \A w \in Worker : RatedOrders(w)' = RatedOrders(w)
  BY DEF RatingsKept, RatedOrders, Exists, SameRating
<1> QED BY <1>1 DEF RatingInv, CountInv, RatingsKept

\* addRating counts one more job, of that worker only.
LEMMA Counted ==
  ASSUME TypeOK, NEW v \in Worker, NEW rate, AddRating(v, rate)
  PROVE  /\ profile'[v].jobs = profile[v].jobs + 1
         /\ \A w \in Worker : w # v => profile'[w] = profile[w]
         /\ profile[v].jobs \in Nat
<1>1. profile \in [Worker -> Profile] /\ profile[v] \in Profile
  BY DEF TypeOK
<1>2. profile' = [profile EXCEPT ![v].total = @ + rate, ![v].jobs = @ + 1]
  BY DEF AddRating
<1>3. profile[v].jobs \in Nat /\ "jobs" \in DOMAIN profile[v]
  BY <1>1 DEF Profile
<1>4. \A w \in Worker : w # v => profile'[w] = profile[w]
  BY <1>1, <1>2
<1>5. profile'[v].jobs = profile[v].jobs + 1
  BY <1>1, <1>2, <1>3
<1> QED BY <1>3, <1>4, <1>5

\* The step that rates: at most one order joins those of one worker.
LEMMA RateStep ==
  ASSUME RatingInv, TypeInv', NEW r \in Request, RateCommit(r)
  PROVE  RatingInv'
<1> DEFINE o == job[r].order
           v == order[o].worker
<1>1. o \in Order /\ order[o] \in Row /\ Exists(o) /\ job[r].rate \in Rate
  BY JobTyped, OrdersAssumption DEF RateCommit, RateJob, RatingInv, Exists
<1>2. order' = [order EXCEPT ![o] = [order[o] EXCEPT !.rate = job[r].rate]]
  BY <1>1 DEF RateCommit
<1>3. order'[o].worker = v /\ \A p \in Order : p # o => order'[p] = order[p]
  BY <1>1, <1>2 DEF Row, RatingInv, TypeInv, TypeOK
<1>4. v \in Worker
  BY <1>1 DEF Row
<1>5. /\ profile'[v].jobs = profile[v].jobs + 1
      /\ \A w \in Worker : w # v => profile'[w] = profile[w]
      /\ profile[v].jobs \in Nat
  BY <1>4, Counted DEF RateCommit, RatingInv, TypeInv
<1>6. ASSUME NEW w \in Worker
      PROVE  IsFiniteSet(RatedOrders(w)') /\ Cardinality(RatedOrders(w)') <= profile'[w].jobs
  <2>1. CASE w = v
    <3>1. RatedOrders(w)' \subseteq RatedOrders(w) \cup {o}
      BY <1>3 DEF RatedOrders, Exists
    <3>2. IsFiniteSet(RatedOrders(w)) /\ Cardinality(RatedOrders(w)) <= profile[v].jobs
      BY <2>1 DEF RatingInv, CountInv
    <3>3. /\ IsFiniteSet(RatedOrders(w) \cup {o})
          /\ Cardinality(RatedOrders(w) \cup {o}) <= Cardinality(RatedOrders(w)) + 1
          /\ Cardinality(RatedOrders(w)) \in Nat
          /\ Cardinality(RatedOrders(w) \cup {o}) \in Nat
      <4>1. Cardinality(RatedOrders(w)) \in Nat
        BY <3>2, FS_CardinalityType
      <4>2. /\ IsFiniteSet(RatedOrders(w) \cup {o})
            /\ Cardinality(RatedOrders(w) \cup {o}) =
                 IF o \in RatedOrders(w) THEN Cardinality(RatedOrders(w))
                 ELSE Cardinality(RatedOrders(w)) + 1
        BY <3>2, FS_AddElement
      <4> HIDE DEF o
      <4> QED BY <4>1, <4>2
    <3>4. /\ IsFiniteSet(RatedOrders(w)')
          /\ Cardinality(RatedOrders(w)') <= Cardinality(RatedOrders(w) \cup {o})
          /\ Cardinality(RatedOrders(w)') \in Nat
      BY <3>1, <3>3, FS_Subset, FS_CardinalityType
    <3> QED BY <3>2, <3>3, <3>4, <2>1, <1>5
  <2>2. CASE w # v
    <3>1. RatedOrders(w)' = RatedOrders(w)
      BY <1>1, <1>3, <2>2 DEF RatedOrders, Exists
    <3> QED BY <3>1, <2>2, <1>5 DEF RatingInv, CountInv
  <2> QED BY <2>1, <2>2
<1> QED BY <1>6 DEF RatingInv, CountInv

\* Nothing but a rating's commit touches ratings, counts or who works for whom.
LEMMA OnlyRatingsRate ==
  ASSUME TypeInv, [Next]_vars, \A r \in Request : ~RateCommit(r)
  PROVE  RatingsKept
<1> USE DEF SameRating
<1>1. TypeInv
  OBVIOUS
<1>2. ASSUME UNCHANGED <<order, profile>>
      PROVE  RatingsKept
  BY <1>2 DEF RatingsKept, Exists
<1>3. ASSUME UNCHANGED profile, NEW o \in Order, Exists(o), NEW row \in Row,
             order' = [order EXCEPT ![o] = row], SameRating(order[o], row)
      PROVE  RatingsKept
  BY <1>1, <1>3, OrdersAssumption DEF RatingsKept, Exists, TypeInv, TypeOK
<1>4. ASSUME NEW r \in Request, Proceed(r)
      PROVE  RatingsKept
  <2> DEFINE o == job[r].order
             row == order[o]
  <2>1. CASE CancelCommit(r)
    <3>1. o \in Order /\ row \in Row /\ Exists(o)
      BY <1>1, <2>1, JobTyped, OrdersAssumption DEF CancelCommit, Exists
    <3>2. [row EXCEPT !.status = "CANCELLED"] \in Row
      BY <3>1 DEF Row, OrderStatus
    <3>3. order' = [order EXCEPT ![o] = [row EXCEPT !.status = "CANCELLED"]]
      BY <2>1, <3>1 DEF CancelCommit
    <3> QED BY <1>3, <2>1, <3>1, <3>2, <3>3 DEF CancelCommit, Row
  <2>2. CASE SpecifyCommit(r)
    <3> DEFINE new == [row EXCEPT !.status = "TIME_SPECIFIED", !.end = job[r].end]
    <3>1. o \in Order /\ row \in Row /\ Exists(o) /\ job[r].end \in Time
      BY <1>1, <2>2, JobTyped, OrdersAssumption DEF SpecifyCommit, SpecifyJob, Exists
    <3>2. new \in Row
      BY <3>1 DEF Row, OrderStatus
    <3>3. order' = [order EXCEPT ![o] = new]
      BY <2>2, <3>1 DEF SpecifyCommit
    <3> QED BY <1>3, <2>2, <3>1, <3>2, <3>3 DEF SpecifyCommit, Row
  <2>3. CASE StartUpdate(r)
    <3>1. o \in Order /\ row \in Row /\ Exists(o)
      BY <1>1, <2>3, JobTyped, OrdersAssumption DEF StartUpdate, Exists
    <3>2. [row EXCEPT !.work = "STARTED"] \in Row
      BY <3>1 DEF Row, WorkStatus
    <3>3. order' = [order EXCEPT ![o] = [row EXCEPT !.work = "STARTED"]]
      BY <2>3, <3>1 DEF StartUpdate
    <3> QED BY <1>3, <2>3, <3>1, <3>2, <3>3 DEF StartUpdate, Row
  <2>4. CASE FinishCommit(r)
    <3> DEFINE new == [row EXCEPT !.status = "COMPLETED", !.work = "DONE"]
    <3>1. o \in Order /\ row \in Row /\ Exists(o)
      BY <1>1, <2>4, JobTyped, OrdersAssumption DEF FinishCommit, Exists
    <3>2. new \in Row
      BY <3>1 DEF Row, OrderStatus, WorkStatus
    <3>3. order' = [order EXCEPT ![o] = new]
      BY <2>4, <3>1 DEF FinishCommit
    <3> QED BY <1>3, <2>4, <3>1, <3>2, <3>3 DEF FinishCommit, Row
  <2>5. ~RateCommit(r)
    OBVIOUS
  <2>6. CASE SpecifyClear(r) \/ SpecifyConflict(r) \/ SpecifyDuplicate(r)
    BY <1>2, <2>6 DEF SpecifyClear, SpecifyConflict, SpecifyDuplicate
  <2> QED BY <1>4, <2>1, <2>2, <2>3, <2>4, <2>5, <2>6 DEF Proceed
<1>5. ASSUME NEW o \in Order, NEW w \in Worker, NEW c \in Client, NEW day \in Day,
             InsertOrder(o, w, c, day)
      PROVE  RatingsKept
  <2>1. order' = [order EXCEPT ![o] = NewRow(w, c, day)] /\ ~Exists(o)
    BY <1>5 DEF InsertOrder
  <2>2. NewRow(w, c, day).rate = NoRate
    BY DEF NewRow
  <2>3. order \in [Order -> Row \cup {NoRow}] /\ UNCHANGED profile
    BY <1>1, <1>5 DEF TypeInv, TypeOK, InsertOrder
  <2> QED BY <1>1, <2>1, <2>2, <2>3 DEF RatingsKept, Exists
<1>6. ASSUME NEW o \in Order, NEW next \in OrderStatus, MoveOrder(o, next)
      PROVE  RatingsKept
  <2> DEFINE new == [order[o] EXCEPT !.status = next]
  <2>1. order[o] \in Row /\ Exists(o)
    BY <1>1, <1>6 DEF MoveOrder, Exists, TypeInv, TypeOK
  <2>2. new \in Row /\ order' = [order EXCEPT ![o] = new]
    BY <1>6, <2>1 DEF MoveOrder, Row
  <2> QED BY <1>3, <1>6, <2>1, <2>2 DEF MoveOrder, Row
<1>7. ASSUME NEW o \in Order, ScheduleWork(o)
      PROVE  RatingsKept
  <2> DEFINE new == [order[o] EXCEPT !.work = "WAITING_FOR_WORK"]
  <2>1. order[o] \in Row /\ Exists(o)
    BY <1>1, <1>7 DEF ScheduleWork, Exists, TypeInv, TypeOK
  <2>2. new \in Row /\ order' = [order EXCEPT ![o] = new]
    BY <1>7, <2>1 DEF ScheduleWork, Row, WorkStatus
  <2> QED BY <1>3, <1>7, <2>1, <2>2 DEF ScheduleWork, Row
<1>8. CASE External
  <2>1. CASE NextDay
    BY <1>2, <2>1 DEF NextDay
  <2> QED
    BY <1>5, <1>6, <1>7, <1>8, <2>1 DEF External, AgreePrice, Pay, OrderStatus
<1>9. ASSUME NEW r \in Request, Call(r) \/ SpecifyLock(r) \/ Fail(r)
      PROVE  RatingsKept
  BY <1>2, <1>9 DEF Call, CancelRead, SpecifyRead, StartRead, FinishRead, RateRead,
                    Accept, SpecifyLock, Fail
<1>10. CASE UNCHANGED vars
  BY <1>2, <1>10 DEF vars
<1> QED BY <1>4, <1>8, <1>9, <1>10 DEF Next

LEMMA RatingStep == RatingInv /\ [Next]_vars => RatingInv'
BY TypeStep, OnlyRatingsRate, UnratedStep, RateStep DEF RatingInv

LEMMA RatingInit == Init => RatingInv
<1> SUFFICES ASSUME Init, NEW w \in Worker
             PROVE  IsFiniteSet(RatedOrders(w)) /\ Cardinality(RatedOrders(w)) <= profile[w].jobs
  BY TypeInit DEF RatingInv, CountInv
<1>1. RatedOrders(w) = {} /\ profile[w].jobs = 0
  BY DEF Init, RatedOrders, Exists
<1> QED BY <1>1, FS_EmptySet

\* No rating is lost, however many calls rate at once: an order that carries one
\* has been counted for its worker.
THEOREM NoRatingLost == Spec => []RatingsCounted
<1>1. Spec => []RatingInv
  BY RatingInit, RatingStep, PTL DEF Spec
<1>2. RatingInv => RatingsCounted
  BY DEF RatingInv, CountInv, RatingsCounted
<1> QED BY <1>1, <1>2, PTL

----------------------------------------------------------------------------
\* Calls made one at a time.  What a call decided on the row it read is still
\* so when it writes, since nothing moves in between; so every row written is
\* one step along the tables from the row it replaces.

Lonely == \A q, r \in Request : pc[q] # "idle" /\ pc[r] # "idle" => q = r

\* What call r found when it was accepted
StillSo(r) ==
  LET row == order[job[r].order] IN
  /\ job[r].op = "cancel" => CanTransitionOrderStatus(row.status, "CANCELLED")
  /\ job[r].op = "specify" => CanTransitionOrderStatus(row.status, "TIME_SPECIFIED")
  /\ job[r].op = "start" =>
       row.status = "PAID" /\ CanTransitionWorkStatus(row.work, "STARTED")
  /\ job[r].op = "finish" =>
       /\ CanTransitionWorkStatus(row.work, "DONE")
       /\ CanTransitionOrderStatus(row.status, "COMPLETED")
  /\ job[r].op = "rate" => row.rate = NoRate

DecidedInv == \A r \in Request : pc[r] # "idle" => StillSo(r)

\* WorkMatchesOrder of one row
Agrees(row) ==
  /\ row.work # "PENDING" => row.status \in {"PAID", "COMPLETED"}
  /\ row.status = "COMPLETED" <=> row.work = "DONE"

\* One step along the tables
Along(old, new) ==
  /\ old.status # new.status => CanTransitionOrderStatus(old.status, new.status)
  /\ old.work # new.work => CanTransitionWorkStatus(old.work, new.work)
  /\ Agrees(new)

SerialInv == TypeInv /\ Lonely /\ DecidedInv /\ WorkMatchesOrder

LEMMA SerialIsNext == [SerialNext]_vars => [Next]_vars
BY DEF SerialNext, Next

LEMMA RowsAgree == SerialInv => \A o \in Order : Exists(o) => Agrees(order[o])
BY DEF SerialInv, WorkMatchesOrder, Agrees

\* What a step of the serial specification does to the rows
RowsAlong ==
  \A o \in Order :
    /\ Exists(o) => order'[o] # NoRow /\ Along(order[o], order'[o])
    /\ ~Exists(o) => order'[o] = NoRow \/ Agrees(order'[o])

LEMMA SameRows == SerialInv /\ UNCHANGED order => RowsAlong
BY RowsAgree DEF RowsAlong, Along, Exists

LEMMA OneRow ==
  ASSUME SerialInv, NEW o \in Order, Exists(o), NEW row \in Row,
         order' = [order EXCEPT ![o] = row], Along(order[o], row)
  PROVE  RowsAlong
<1>1. \A p \in Order : p # o => order'[p] = order[p]
  BY DEF SerialInv, TypeInv, TypeOK
<1>2. order'[o] = row /\ row # NoRow
  BY OrdersAssumption DEF SerialInv, TypeInv, TypeOK
<1> QED BY <1>1, <1>2, RowsAgree DEF RowsAlong, Along, Exists

\* A call's write, by what the call found.
LEMMA ProceedAlong ==
  ASSUME SerialInv, NEW r \in Request, Proceed(r)
  PROVE  RowsAlong
<1> USE DEF CanTransitionOrderStatus, CanTransitionWorkStatus, OrderTransitions,
            WorkTransitions
<1> DEFINE o == job[r].order
           row == order[o]
<1>1. ASSUME NEW op, NEW stage, At(r, op, stage), stage # "idle"
      PROVE  /\ o \in Order /\ row \in Row /\ Exists(o) /\ Agrees(row) /\ StillSo(r)
             /\ row.status \in OrderStatus /\ row.work \in WorkStatus
             /\ job[r].op = op
             /\ op = "specify" => job[r].end \in Time
             /\ op = "rate" => job[r].rate \in Rate
  <2>1. o \in Order /\ row \in Row /\ Exists(o)
    BY <1>1, JobTyped, OrdersAssumption DEF SerialInv, Exists
  <2>2. op = "specify" => job[r].end \in Time
    BY <1>1, JobTyped DEF SerialInv, SpecifyJob
  <2>3. op = "rate" => job[r].rate \in Rate
    BY <1>1, JobTyped DEF SerialInv, RateJob
  <2>4. Agrees(row) /\ StillSo(r) /\ job[r].op = op
    BY <1>1, <2>1, RowsAgree DEF SerialInv, DecidedInv, At
  <2> QED BY <2>1, <2>2, <2>3, <2>4 DEF Row
<1>2. CASE CancelCommit(r)
  <2> DEFINE new == [row EXCEPT !.status = "CANCELLED"]
  <2>1. At(r, "cancel", "checked") /\ order' = [order EXCEPT ![o] = new]
    BY <1>2, <1>1 DEF CancelCommit
  <2>2. /\ new \in Row /\ new.status = "CANCELLED" /\ new.work = row.work
        /\ "CANCELLED" \in OrderTransitions[row.status]
    BY <2>1, <1>1 DEF Row, OrderStatus, StillSo
  <2>3. row.work = "PENDING"
    BY <2>1, <2>2, <1>1 DEF Agrees, OrderStatus
  <2>4. Along(row, new)
    BY <2>2, <2>3 DEF Along, Agrees
  <2> QED BY <2>1, <2>2, <2>4, <1>1, OneRow
<1>3. CASE SpecifyCommit(r)
  <2> DEFINE new == [row EXCEPT !.status = "TIME_SPECIFIED", !.end = job[r].end]
  <2>1. At(r, "specify", "clear") /\ order' = [order EXCEPT ![o] = new]
    BY <1>3, <1>1 DEF SpecifyCommit
  <2>2. /\ new \in Row /\ new.status = "TIME_SPECIFIED" /\ new.work = row.work
        /\ "TIME_SPECIFIED" \in OrderTransitions[row.status]
    BY <2>1, <1>1 DEF Row, OrderStatus, StillSo
  <2>3. row.work = "PENDING"
    BY <2>1, <2>2, <1>1 DEF Agrees, OrderStatus
  <2>4. Along(row, new)
    BY <2>2, <2>3 DEF Along, Agrees
  <2> QED BY <2>1, <2>2, <2>4, <1>1, OneRow
<1>4. CASE StartUpdate(r)
  <2> DEFINE new == [row EXCEPT !.work = "STARTED"]
  <2>1. At(r, "start", "checked") /\ order' = [order EXCEPT ![o] = new]
    BY <1>4, <1>1 DEF StartUpdate
  <2>2. /\ new \in Row /\ new.status = "PAID" /\ row.status = "PAID"
        /\ new.work = "STARTED" /\ "STARTED" \in WorkTransitions[row.work]
    BY <2>1, <1>1 DEF Row, WorkStatus, StillSo
  <2>3. Along(row, new)
    BY <2>2 DEF Along, Agrees
  <2> QED BY <2>1, <2>2, <2>3, <1>1, OneRow
<1>5. CASE FinishCommit(r)
  <2> DEFINE new == [row EXCEPT !.status = "COMPLETED", !.work = "DONE"]
  <2>1. At(r, "finish", "checked") /\ order' = [order EXCEPT ![o] = new]
    BY <1>5, <1>1 DEF FinishCommit
  <2>2. /\ new \in Row /\ new.status = "COMPLETED" /\ new.work = "DONE"
        /\ "DONE" \in WorkTransitions[row.work]
        /\ "COMPLETED" \in OrderTransitions[row.status]
    BY <2>1, <1>1 DEF Row, OrderStatus, WorkStatus, StillSo
  <2>3. Along(row, new)
    BY <2>2 DEF Along, Agrees
  <2> QED BY <2>1, <2>2, <2>3, <1>1, OneRow
<1>6. CASE RateCommit(r)
  <2> DEFINE new == [row EXCEPT !.rate = job[r].rate]
  <2>1. At(r, "rate", "checked") /\ order' = [order EXCEPT ![o] = new]
    BY <1>6, <1>1 DEF RateCommit
  <2>2. new \in Row /\ new.status = row.status /\ new.work = row.work
    BY <2>1, <1>1 DEF Row
  <2>3. Along(row, new)
    BY <2>1, <2>2, <1>1 DEF Along, Agrees
  <2> QED BY <2>1, <2>2, <2>3, <1>1, OneRow
<1>7. CASE SpecifyClear(r) \/ SpecifyConflict(r) \/ SpecifyDuplicate(r)
  BY <1>7, SameRows DEF SpecifyClear, SpecifyConflict, SpecifyDuplicate
<1> QED BY <1>2, <1>3, <1>4, <1>5, <1>6, <1>7 DEF Proceed

LEMMA ExternalAlong ==
  ASSUME SerialInv, External
  PROVE  RowsAlong
<1> USE DEF CanTransitionOrderStatus, CanTransitionWorkStatus, OrderTransitions,
            WorkTransitions
<1>1. ASSUME NEW o \in Order, NEW w \in Worker, NEW c \in Client, NEW day \in Day,
             InsertOrder(o, w, c, day)
      PROVE  RowsAlong
  <2>1. order' = [order EXCEPT ![o] = NewRow(w, c, day)] /\ ~Exists(o)
    BY <1>1 DEF InsertOrder
  <2>2. Agrees(NewRow(w, c, day))
    BY DEF NewRow, Agrees
  <2>3. \A p \in Order : p # o => order'[p] = order[p]
    BY <2>1 DEF SerialInv, TypeInv, TypeOK
  <2>4. order'[o] = NewRow(w, c, day)
    BY <2>1 DEF SerialInv, TypeInv, TypeOK
  <2> QED BY <2>1, <2>2, <2>3, <2>4, RowsAgree DEF RowsAlong, Along, Exists
<1>2. ASSUME NEW o \in Order, NEW next \in {"PRICE_AGREED", "PAID"}, MoveOrder(o, next)
      PROVE  RowsAlong
  <2> DEFINE row == order[o]
             new == [row EXCEPT !.status = next]
  <2>1. row \in Row /\ Exists(o) /\ order' = [order EXCEPT ![o] = new]
    BY <1>2 DEF MoveOrder, Exists, SerialInv, TypeInv, TypeOK
  <2>2. /\ new \in Row /\ new.status = next /\ new.work = row.work
        /\ next \in OrderTransitions[row.status]
        /\ row.status \in OrderStatus
    BY <1>2, <2>1 DEF MoveOrder, Row, OrderStatus
  <2>3. row.work = "PENDING"
    BY <2>1, <2>2, RowsAgree DEF Agrees, OrderStatus
  <2>4. Along(row, new)
    BY <2>2, <2>3 DEF Along, Agrees
  <2> QED BY <2>1, <2>2, <2>4, OneRow
<1>3. ASSUME NEW o \in Order, ScheduleWork(o)
      PROVE  RowsAlong
  <2> DEFINE row == order[o]
             new == [row EXCEPT !.work = "WAITING_FOR_WORK"]
  <2>1. row \in Row /\ Exists(o) /\ order' = [order EXCEPT ![o] = new]
    BY <1>3 DEF ScheduleWork, Exists, SerialInv, TypeInv, TypeOK
  <2>2. /\ new \in Row /\ new.status = "PAID" /\ row.status = "PAID"
        /\ new.work = "WAITING_FOR_WORK"
        /\ "WAITING_FOR_WORK" \in WorkTransitions[row.work]
    BY <1>3, <2>1 DEF ScheduleWork, Row, WorkStatus
  <2>3. Along(row, new)
    BY <2>2 DEF Along, Agrees
  <2> QED BY <2>1, <2>2, <2>3, OneRow
<1>4. CASE NextDay
  BY <1>4, SameRows DEF NextDay
<1> QED BY <1>1, <1>2, <1>3, <1>4 DEF External, AgreePrice, Pay

LEMMA SerialRows == SerialInv /\ [SerialNext]_vars => RowsAlong
<1> SUFFICES ASSUME SerialInv, [SerialNext]_vars
             PROVE  RowsAlong
  OBVIOUS
<1>1. ASSUME NEW r \in Request, Call(r) \/ SpecifyLock(r) \/ Fail(r)
      PROVE  UNCHANGED order
  BY <1>1 DEF Call, CancelRead, SpecifyRead, StartRead, FinishRead, RateRead,
              Accept, SpecifyLock, Fail
<1>2. UNCHANGED vars => UNCHANGED order
  BY DEF vars
<1> QED BY <1>1, <1>2, SameRows, ProceedAlong, ExternalAlong DEF SerialNext

\* A call is accepted when no other is under way, with what it has just read.
LEMMA CallDecides ==
  ASSUME SerialInv, Quiet, NEW r \in Request, Call(r)
  PROVE  Lonely' /\ DecidedInv'
<1>1. ASSUME NEW j, Accept(r, j), UNCHANGED order => StillSo(r)'
      PROVE  Lonely' /\ DecidedInv'
  <2>1. \A q \in Request : q # r => pc'[q] = "idle"
    BY <1>1 DEF Accept, Quiet, SerialInv, TypeInv, TypeOK
  <2> QED BY <1>1, <2>1 DEF Lonely, DecidedInv, Accept
<1>2. \A j : Accept(r, j) => job'[r] = j
  BY DEF Accept, SerialInv, TypeInv, TypeOK
<1>3. ASSUME NEW o \in Order, NEW c \in Client, CancelRead(r, o, c)
      PROVE  Lonely' /\ DecidedInv'
  BY <1>1, <1>2, <1>3 DEF CancelRead, StillSo
<1>4. ASSUME NEW o \in Order, NEW w \in Worker, NEW start \in Time, NEW end \in Time,
             SpecifyRead(r, o, w, start, end)
      PROVE  Lonely' /\ DecidedInv'
  BY <1>1, <1>2, <1>4 DEF SpecifyRead, StillSo
<1>5. ASSUME NEW o \in Order, NEW w \in Worker, StartRead(r, o, w)
      PROVE  Lonely' /\ DecidedInv'
  BY <1>1, <1>2, <1>5 DEF StartRead, StillSo
<1>6. ASSUME NEW o \in Order, NEW w \in Worker, FinishRead(r, o, w)
      PROVE  Lonely' /\ DecidedInv'
  BY <1>1, <1>2, <1>6 DEF FinishRead, StillSo
<1>7. ASSUME NEW o \in Order, NEW c \in Client, NEW rate \in Rate,
             RateRead(r, o, c, rate)
      PROVE  Lonely' /\ DecidedInv'
  BY <1>1, <1>2, <1>7 DEF RateRead, StillSo
<1> QED BY <1>3, <1>4, <1>5, <1>6, <1>7 DEF Call

\* The call under way is the only one: it ends, or changes no row.
LEMMA RunDecides ==
  ASSUME SerialInv, NEW r \in Request,
         Proceed(r) \/ SpecifyLock(r) \/ Fail(r)
  PROVE  Lonely' /\ DecidedInv'
<1>1. ASSUME pc[r] # "idle", Finish(r)
      PROVE  Lonely' /\ DecidedInv'
  <2>1. \A q \in Request : pc'[q] = "idle"
    BY <1>1 DEF Finish, SerialInv, TypeInv, TypeOK, Lonely
  <2> QED BY <2>1 DEF Lonely, DecidedInv
<1>2. ASSUME pc[r] # "idle", NEW stage, pc' = [pc EXCEPT ![r] = stage],
             UNCHANGED <<order, job>>
      PROVE  Lonely' /\ DecidedInv'
  <2>1. \A q \in Request : pc'[q] # "idle" => pc[q] # "idle"
    BY <1>2 DEF SerialInv, TypeInv, TypeOK
  <2> QED BY <1>2, <2>1 DEF Lonely, DecidedInv, StillSo, SerialInv
<1>3. CASE SpecifyClear(r)
  BY <1>2, <1>3 DEF SpecifyClear, At
<1>4. CASE SpecifyLock(r)
  BY <1>2, <1>4 DEF SpecifyLock, At
<1>5. CASE CancelCommit(r) \/ SpecifyConflict(r) \/ SpecifyDuplicate(r) \/
           SpecifyCommit(r) \/ StartUpdate(r) \/ FinishCommit(r) \/ RateCommit(r)
  BY <1>1, <1>5 DEF CancelCommit, SpecifyConflict, SpecifyDuplicate, SpecifyCommit,
                    StartUpdate, FinishCommit, RateCommit, At
<1>6. CASE Fail(r)
  BY <1>1, <1>6 DEF Fail
<1> QED BY <1>3, <1>4, <1>5, <1>6 DEF Proceed

LEMMA SerialStep == SerialInv /\ [SerialNext]_vars => SerialInv'
<1> SUFFICES ASSUME SerialInv, [SerialNext]_vars
             PROVE  SerialInv'
  OBVIOUS
<1>1. TypeInv'
  BY SerialIsNext, TypeStep DEF SerialInv
<1>2. WorkMatchesOrder'
  <2>1. RowsAlong
    BY SerialRows
  <2>2. \A o \in Order : order'[o] # NoRow => Agrees(order'[o])
    BY <2>1 DEF RowsAlong, Along
  <2> QED BY <2>2 DEF WorkMatchesOrder, Agrees, Exists
<1>3. Lonely' /\ DecidedInv'
  <2>1. CASE Quiet /\ External
    <3>1. UNCHANGED pc
      BY <2>1 DEF External, InsertOrder, AgreePrice, Pay, MoveOrder, ScheduleWork,
                  NextDay
    <3> QED BY <2>1, <3>1 DEF Quiet, Lonely, DecidedInv
  <2>2. CASE UNCHANGED vars
    BY <2>2 DEF vars, SerialInv, Lonely, DecidedInv, StillSo
  <2> QED BY <2>1, <2>2, CallDecides, RunDecides DEF SerialNext
<1> QED BY <1>1, <1>2, <1>3 DEF SerialInv

LEMMA SerialInit == Init => SerialInv
BY TypeInit DEF Init, SerialInv, Lonely, DecidedInv, WorkMatchesOrder, Exists

\* Made one at a time, the calls keep work and order together: work is planned
\* only for a paid order, and both are finished at once.
THEOREM WorkAndOrderAgree == SerialSpec => []WorkMatchesOrder
<1>1. SerialSpec => []SerialInv
  BY SerialInit, SerialStep, PTL DEF SerialSpec
<1>2. SerialInv => WorkMatchesOrder
  BY DEF SerialInv
<1> QED BY <1>1, <1>2, PTL

\* Made one at a time, the calls move both statuses along their tables only.
THEOREM TablesFollowed == SerialSpec => FollowsTables
<1>1. SerialInv /\ [SerialNext]_vars =>
        [\A o \in Order : Exists(o) =>
           /\ order[o].status # order'[o].status =>
                CanTransitionOrderStatus(order[o].status, order'[o].status)
           /\ order[o].work # order'[o].work =>
                CanTransitionWorkStatus(order[o].work, order'[o].work)]_vars
  BY SerialRows DEF RowsAlong, Along
<1>2. SerialSpec => []SerialInv
  BY SerialInit, SerialStep, PTL DEF SerialSpec
<1> QED BY <1>1, <1>2, PTL DEF SerialSpec, FollowsTables

\* Made one at a time, a cancellation only cancels what orders.docs.ts:128 says
\* it does; the run cancel_paid shows what an overtaken one does instead.
THEOREM CancelsOnlyCancellable == SerialSpec => CancelOnlyCancellable
<1>1. SerialInv /\ [SerialNext]_vars =>
        [\A o \in Order : Exists(o) =>
           (order[o].status # "CANCELLED" /\ order'[o].status = "CANCELLED" =>
              CanTransitionOrderStatus(order[o].status, "CANCELLED"))]_vars
  BY SerialRows DEF RowsAlong, Along
<1>2. SerialSpec => []SerialInv
  BY SerialInit, SerialStep, PTL DEF SerialSpec
<1> QED BY <1>1, <1>2, PTL DEF SerialSpec, CancelOnlyCancellable

----------------------------------------------------------------------------
\* Made one at a time, a call that rates finds its order unrated: the count is
\* then exact, where overlapping calls may only count too often.

ExactlyCounted ==
  \A w \in Worker :
    IsFiniteSet(RatedOrders(w)) /\ Cardinality(RatedOrders(w)) = profile[w].jobs

LEMMA ExactUnrated ==
  ASSUME ExactlyCounted, RatingsKept
  PROVE  ExactlyCounted'
<1>1. \A w \in Worker : RatedOrders(w)' = RatedOrders(w)
  BY DEF RatingsKept, RatedOrders, Exists, SameRating
<1> QED BY <1>1 DEF ExactlyCounted, RatingsKept

LEMMA ExactRate ==
  ASSUME SerialInv, ExactlyCounted, NEW r \in Request, RateCommit(r)
  PROVE  ExactlyCounted'
<1>1. PICK o \in Order : o = job[r].order
  BY JobTyped DEF RateCommit, SerialInv
<1>2. order[o] \in Row /\ Exists(o) /\ job[r].rate \in Rate
  BY <1>1, JobTyped, OrdersAssumption DEF RateCommit, RateJob, SerialInv, Exists
<1>3. PICK v \in Worker : v = order[o].worker
  BY <1>2 DEF Row
<1>4. order' = [order EXCEPT ![o] = [order[o] EXCEPT !.rate = job[r].rate]]
  BY <1>1, <1>2 DEF RateCommit
<1>5. /\ order'[o].worker = v /\ order'[o].rate = job[r].rate
      /\ order'[o] \in Row
      /\ \A p \in Order : p # o => order'[p] = order[p]
  BY <1>2, <1>3, <1>4 DEF Row, SerialInv, TypeInv, TypeOK
<1>6. /\ profile'[v].jobs = profile[v].jobs + 1
      /\ \A w \in Worker : w # v => profile'[w] = profile[w]
      /\ profile[v].jobs \in Nat
  BY <1>1, <1>3, Counted DEF RateCommit, SerialInv, TypeInv
<1>7. order[o].rate = NoRate /\ job[r].rate # NoRate /\ order'[o] # NoRow
  BY <1>1, <1>2, <1>5, OrdersAssumption
     DEF RateCommit, At, SerialInv, DecidedInv, StillSo, NoRate
<1>8. RatedOrders(v)' = RatedOrders(v) \cup {o} /\ o \notin RatedOrders(v)
  BY <1>5, <1>7 DEF RatedOrders, Exists
<1>9. \A w \in Worker : w # v => RatedOrders(w)' = RatedOrders(w)
  BY <1>2, <1>3, <1>5 DEF RatedOrders, Exists
<1>10. IsFiniteSet(RatedOrders(v)) /\ Cardinality(RatedOrders(v)) = profile[v].jobs
  BY DEF ExactlyCounted
<1>11. /\ IsFiniteSet(RatedOrders(v) \cup {o})
       /\ Cardinality(RatedOrders(v) \cup {o}) = Cardinality(RatedOrders(v)) + 1
  BY <1>8, <1>10, FS_AddElement
<1>12. ASSUME NEW w \in Worker
       PROVE  IsFiniteSet(RatedOrders(w)') /\ Cardinality(RatedOrders(w)') = profile'[w].jobs
  <2>1. CASE w = v
    BY <2>1, <1>6, <1>8, <1>10, <1>11
  <2>2. CASE w # v
    BY <2>2, <1>6, <1>9 DEF ExactlyCounted
  <2> QED BY <2>1, <2>2
<1> QED BY <1>12 DEF ExactlyCounted

\* Made one at a time, the calls rate no order twice: a worker's completed jobs
\* are exactly his rated orders (OrderService.ts:295).
THEOREM RatedExactlyOnce == SerialSpec => []ExactlyCounted
<1>1. Init => ExactlyCounted
  <2> SUFFICES ASSUME Init, NEW w \in Worker
               PROVE  IsFiniteSet(RatedOrders(w)) /\ Cardinality(RatedOrders(w)) = profile[w].jobs
    BY DEF ExactlyCounted
  <2>1. RatedOrders(w) = {} /\ profile[w].jobs = 0
    BY DEF Init, RatedOrders, Exists
  <2> QED BY <2>1, FS_EmptySet
<1>2. SerialInv /\ ExactlyCounted /\ [SerialNext]_vars => ExactlyCounted'
  BY SerialIsNext, OnlyRatingsRate, ExactUnrated, ExactRate DEF SerialInv
<1>3. SerialSpec => []SerialInv
  BY SerialInit, SerialStep, PTL DEF SerialSpec
<1> QED BY <1>1, <1>2, <1>3, PTL DEF SerialSpec

=============================================================================
