--------------------------- MODULE Directory_proofs ---------------------------
(***************************************************************************)
(* Theorems about Directory, for any tables, limits and number of calls.   *)
(***************************************************************************)
EXTENDS Directory, FiniteSetTheorems, TLAPS

----------------------------------------------------------------------------
\* What one page adds

LEMMA RowsFinite ==
  ASSUME NEW S \in SUBSET Id
  PROVE  IsFiniteSet(S) /\ Cardinality(S) \in Nat
BY DirectoryAssumption, FS_Subset, FS_CardinalityType

\* A page is rows of the list, as many as are left, or as it takes.
LEMMA CutSize ==
  ASSUME NEW S \in SUBSET Id, NEW skip \in Nat, NEW take \in Nat,
         NEW P \in Cut(S, skip, take)
  PROVE  /\ P \subseteq S /\ P \in SUBSET Id /\ Cardinality(P) \in Nat
         /\ skip <= Cardinality(S) /\ Cardinality(S) - skip < take =>
              Cardinality(P) = Cardinality(S) - skip
         /\ skip <= Cardinality(S) /\ Cardinality(S) - skip >= take =>
              Cardinality(P) = take
         /\ skip > Cardinality(S) => Cardinality(P) = 0
<1>1. P \subseteq S /\ Cardinality(P) = Least(take, Most(0, Cardinality(S) - skip))
  BY DEF Cut
<1>2. P \in SUBSET Id
  BY <1>1
<1>3. Cardinality(S) \in Nat /\ Cardinality(P) \in Nat
  BY <1>2, RowsFinite
<1> QED BY <1>1, <1>2, <1>3 DEF Least, Most

\* A page with as many rows as the list is the list.
LEMMA WholePage ==
  ASSUME NEW S \in SUBSET Id, NEW P \in SUBSET S, Cardinality(P) = Cardinality(S)
  PROVE  P = S
BY RowsFinite, FS_Subset

\* A page that says there are more is full, and there are; the last one holds
\* what the pages before it left.
Advances(S, asked, limit, answer) ==
  /\ answer.page \subseteq S
  /\ answer.hasNext =>
       Cardinality(answer.page) = limit /\ asked * limit < Cardinality(S)
  /\ ~answer.hasNext =>
       (asked - 1) * limit + Cardinality(answer.page) = Cardinality(S)

LEMMA QuotientBound ==
  ASSUME NEW a \in Nat, NEW n \in Nat, NEW d \in Nat \ {0}, a * d <= n
  PROVE  a <= n \div d
<1> DEFINE q == n \div d
<1>1. q \in Nat /\ n < d * (q + 1)
  <2>1. n = d * q + (n % d) /\ (n % d) < d /\ (n % d) \in Nat /\ q \in Nat
    OBVIOUS
  <2>2. d * (q + 1) = d * q + d
    BY <2>1
  <2> QED BY <2>1, <2>2
<1> HIDE DEF q
<1>2. ASSUME q + 1 <= a
      PROVE  FALSE
  <2>1. PICK e \in Nat : a = q + 1 + e
    BY <1>1, <1>2
  <2>2. a * d = d * (q + 1) + e * d /\ e * d \in Nat
    BY <1>1, <2>1
  <2> QED BY <1>1, <2>2
<1>3. a <= q
  BY <1>1, <1>2
<1> QED BY <1>3 DEF q

\* A page that is asked for because the one before said so is not clamped.
LEMMA PageAsked ==
  ASSUME NEW total \in Nat, NEW limit \in Nat \ {0}, NEW asked \in Nat \ {0},
         asked = 1 \/ (asked - 1) * limit < total
  PROVE  HandlePagination(total, asked, limit) =
           [skip |-> (asked - 1) * limit, take |-> limit,
            hasNext |-> asked * limit < total]
<1>1. PagesOf(total, limit) \in Nat
  BY DEF PagesOf
<1>2. asked <= Most(1, PagesOf(total, limit))
  <2>1. CASE asked = 1
    BY <1>1, <2>1 DEF Most
  <2>2. CASE (asked - 1) * limit < total
    <3>1. asked * limit = (asked - 1) * limit + limit
      OBVIOUS
    <3>2. (asked - 1) * limit \in Nat /\ asked * limit \in Nat
      OBVIOUS
    <3>3. asked * limit <= total + limit - 1
      BY <2>2, <3>1, <3>2
    <3>4. asked <= PagesOf(total, limit)
      BY <3>3, QuotientBound DEF PagesOf
    <3> QED BY <1>1, <3>4 DEF Most
  <2> QED BY <2>1, <2>2
<1>3. Least(Most(asked, 1), Most(1, PagesOf(total, limit))) = asked
  BY <1>1, <1>2 DEF Least, Most
<1> QED BY <1>3 DEF HandlePagination

LEMMA PagedAdvances ==
  ASSUME NEW S \in SUBSET Id, NEW limit \in Nat \ {0}, NEW asked \in Nat \ {0},
         asked = 1 \/ (asked - 1) * limit < Cardinality(S),
         NEW answer \in PagedList(S, asked, limit)
  PROVE  Advances(S, asked, limit, answer)
<1> DEFINE skip == (asked - 1) * limit
           n == Cardinality(S)
           p == HandlePagination(n, asked, limit)
<1>1. n \in Nat
  BY RowsFinite
<1>2. asked * limit = skip + limit /\ skip \in Nat /\ skip <= n
  <2>1. asked = 1 => skip = 0
    OBVIOUS
  <2>2. skip \in Nat /\ asked * limit = skip + limit
    OBVIOUS
  <2> QED BY <1>1, <2>1, <2>2
<1>3. p = [skip |-> skip, take |-> limit, hasNext |-> asked * limit < n]
  BY <1>1, PageAsked
<1> HIDE DEF p, skip, n
<1>4. p.skip = skip /\ p.take = limit /\ (p.hasNext <=> asked * limit < n)
  BY <1>3
<1>5. answer.page \in Cut(S, skip, limit) /\ (answer.hasNext <=> asked * limit < n)
  BY <1>4 DEF PagedList, p, n
<1>6. /\ answer.page \subseteq S /\ Cardinality(answer.page) \in Nat
      /\ n - skip < limit => Cardinality(answer.page) = n - skip
      /\ n - skip >= limit => Cardinality(answer.page) = limit
  BY <1>2, <1>5, CutSize DEF n
<1> QED BY <1>1, <1>2, <1>5, <1>6 DEF Advances, skip, n

\* searchWorkers, by one row more than the page holds.
LEMMA SearchAdvances ==
  ASSUME NEW S \in SUBSET Id, NEW limit \in Nat \ {0}, NEW asked \in Nat \ {0},
         asked = 1 \/ (asked - 1) * limit < Cardinality(S),
         NEW answer \in SearchPage(S, asked, limit)
  PROVE  Advances(S, asked, limit, answer)
<1> DEFINE skip == (asked - 1) * limit
           n == Cardinality(S)
<1>1. n \in Nat
  BY RowsFinite
<1>2. asked * limit = skip + limit /\ skip \in Nat /\ skip <= n
  <2>1. asked = 1 => skip = 0
    OBVIOUS
  <2>2. skip \in Nat /\ asked * limit = skip + limit
    OBVIOUS
  <2> QED BY <1>1, <2>1, <2>2
<1>3. PICK fetched \in Cut(S, skip, limit + 1) :
        answer \in [page : Cut(fetched, 0, limit), hasNext : {Cardinality(fetched) > limit}]
  BY DEF SearchPage
<1> HIDE DEF skip, n
<1>4. /\ answer.page \in Cut(fetched, 0, limit)
      /\ answer.hasNext <=> Cardinality(fetched) > limit
  BY <1>3
<1>5. /\ fetched \subseteq S /\ fetched \in SUBSET Id /\ Cardinality(fetched) \in Nat
      /\ n - skip < limit + 1 => Cardinality(fetched) = n - skip
      /\ n - skip >= limit + 1 => Cardinality(fetched) = limit + 1
  BY <1>2, CutSize DEF n
<1>6. /\ answer.page \subseteq fetched /\ Cardinality(answer.page) \in Nat
      /\ Cardinality(fetched) < limit => Cardinality(answer.page) = Cardinality(fetched)
      /\ Cardinality(fetched) >= limit => Cardinality(answer.page) = limit
  BY <1>4, <1>5, CutSize
<1> QED BY <1>1, <1>2, <1>4, <1>5, <1>6 DEF Advances, skip, n

----------------------------------------------------------------------------
\* The types

\* What a call of some operations carries
PickJob(ops, S, T) ==
  [op : ops, row : Profile, picks : SUBSET S, also : SUBSET T]
RowJob(ops, S) == [op : ops, row : S, picks : SUBSET Id, also : SUBSET {}]

TableJob ==
  PickJob(GovernmentOps, Government, {}) \cup PickJob(PairOps, Pair, {})
    \cup PickJob(ClearOps, {}, {})
    \cup PickJob({"removeMains"}, Specialization, Pair)
    \cup RowJob(DeleteOps, Government \cup Specialization \cup Sub)
    \cup RowJob(UpdateOps, Government \cup Specialization)
    \cup RowJob({"createSub"}, Sub)
OrderJob == PickJob({"createOrder"}, Sub, {})
HoursJob == PickJob({"replaceWorkingHours"}, Day, Day)

JobAt(stage, j) ==
  /\ stage \in {"find", "again", "write"} => j \in TableJob \cup OrderJob
  /\ stage \in {"location", "count"} => j \in OrderJob
  /\ stage \in {"hours", "orders", "replace"} => j \in HoursJob

TablesOK ==
  /\ rows \in [Id -> {"unborn", "stored", "deleted"}]
  /\ \A c \in Stored(City) : rows[GovernmentOf[c]] = "stored"
  /\ \A s \in Stored(Sub) : rows[MainOf[s]] = "stored"
  /\ workGovernments \subseteq Stored(Profile) \X Stored(Government)
  /\ chosen \subseteq [worker : Stored(Profile), main : Stored(Specialization),
                       sub : Stored(Sub)]
  /\ \A c, d \in chosen : c.worker = d.worker /\ c.sub = d.sub => c = d
  /\ unread \subseteq Stored(Entry)

DaysOK ==
  /\ hours \in [Profile -> SUBSET Day]
  /\ active \in [Profile -> SUBSET Day]
  /\ overtaken \subseteq Request

CallsOK ==
  /\ pc \in [Request -> Stage]
  /\ job \in [Request -> {NoJob} \cup TableJob \cup OrderJob \cup HoursJob]
  /\ \A r \in Request : JobAt(pc[r], job[r])

WalkOK == walk \in Walk \cup {NoWalk}

\* The inductive form of TypeOK: a call carries what its operation expects at
\* the stage it has reached.
TypeInv == TablesOK /\ DaysOK /\ CallsOK /\ WalkOK

LEMMA TypeInvTypes == TypeInv => TypeOK
BY DEF TypeInv, TablesOK, DaysOK, CallsOK, WalkOK, TypeOK

\* Every request is an Accept of a call that is idle.
LEMMA CallAccepts ==
  ASSUME NEW r \in Request, Call(r)
  PROVE  \E stage \in {"find", "hours", "location"},
            j \in TableJob \cup OrderJob \cup HoursJob :
           /\ pc[r] = "idle" /\ JobAt(stage, j)
           /\ pc' = [pc EXCEPT ![r] = stage]
           /\ job' = [job EXCEPT ![r] = j]
           /\ UNCHANGED <<rows, links, days, unread, walk>>
<1> DEFINE Goal(stage, j) ==
      /\ pc[r] = "idle"
      /\ pc' = [pc EXCEPT ![r] = stage]
      /\ job' = [job EXCEPT ![r] = j]
      /\ UNCHANGED <<rows, links, days, unread, walk>>
<1>1. ASSUME NEW stage, NEW op, NEW row, NEW picks, NEW also,
             Accept(r, stage, op, row, picks, also)
      PROVE  Goal(stage, [op |-> op, row |-> row, picks |-> picks, also |-> also])
  BY <1>1 DEF Accept
<1> HIDE DEF Goal
<1>2. SUFFICES \/ \E j \in TableJob : Goal("find", j)
               \/ \E j \in HoursJob : Goal("hours", j)
               \/ \E j \in OrderJob : Goal("location", j)
  BY DEF JobAt, Goal
<1>3. ASSUME NEW w \in Profile, NEW op \in GovernmentOps,
             NEW picks \in Picks(Government), AskGovernments(r, w, op, picks)
      PROVE  \E j \in TableJob : Goal("find", j)
  <2> DEFINE j == [op |-> op, row |-> w, picks |-> picks, also |-> {}]
  <2>1. j \in PickJob(GovernmentOps, Government, {})
    BY DEF PickJob, Picks
  <2>2. Goal("find", j)
    BY <1>1, <1>3 DEF AskGovernments
  <2> HIDE DEF j
  <2> QED BY <2>1, <2>2 DEF TableJob
<1>4. ASSUME NEW w \in Profile, NEW picks \in Picks(Pair),
             AskSpecializations(r, w, "addSpecializations", picks)
      PROVE  \E j \in TableJob : Goal("find", j)
  <2> DEFINE j == [op |-> "addSpecializations", row |-> w, picks |-> picks, also |-> {}]
  <2>1. j \in PickJob(PairOps, Pair, {})
    BY DEF PickJob, PairOps, Picks
  <2>2. Goal("find", j)
    BY <1>1, <1>4 DEF AskSpecializations
  <2> HIDE DEF j
  <2> QED BY <2>1, <2>2 DEF TableJob
<1>5. ASSUME NEW w \in Profile, NEW op \in ClearOps, AskClear(r, w, op)
      PROVE  \E j \in TableJob : Goal("find", j)
  <2> DEFINE j == [op |-> op, row |-> w, picks |-> {}, also |-> {}]
  <2>1. j \in PickJob(ClearOps, {}, {})
    BY DEF PickJob
  <2>2. Goal("find", j)
    BY <1>1, <1>5 DEF AskClear
  <2> HIDE DEF j
  <2> QED BY <2>1, <2>2 DEF TableJob
<1>6. ASSUME NEW w \in Profile, NEW mains \in SUBSET Specialization,
             NEW pairs \in Picks(Pair) \cup {{}}, AskRemove(r, w, mains, pairs)
      PROVE  \E j \in TableJob : Goal("find", j)
  <2> DEFINE j == [op |-> "removeMains", row |-> w, picks |-> mains, also |-> pairs]
  <2>1. j \in PickJob({"removeMains"}, Specialization, Pair)
    BY DEF PickJob, Picks
  <2>2. Goal("find", j)
    BY <1>1, <1>6 DEF AskRemove
  <2> HIDE DEF j
  <2> QED BY <2>1, <2>2 DEF TableJob
<1>7. ASSUME NEW w \in Profile, NEW picks \in Picks(Day), AskHours(r, w, picks)
      PROVE  \E j \in HoursJob : Goal("hours", j)
  <2> DEFINE j == [op |-> "replaceWorkingHours", row |-> w, picks |-> picks, also |-> {}]
  <2>1. j \in HoursJob
    BY DEF HoursJob, PickJob, Picks
  <2>2. Goal("hours", j)
    BY <1>1, <1>7 DEF AskHours
  <2> HIDE DEF j
  <2> QED BY <2>1, <2>2
<1>8. ASSUME NEW x \in Government \cup Specialization \cup Sub, NEW op \in DeleteOps,
             NEW parent \in Government \cup Specialization, AskDelete(r, x, op, parent)
      PROVE  \E j \in TableJob : Goal("find", j)
  <2> DEFINE j == [op |-> op, row |-> x, picks |-> {parent}, also |-> {}]
  <2>1. j \in RowJob(DeleteOps, Government \cup Specialization \cup Sub)
    BY DEF RowJob, Id
  <2>2. Goal("find", j)
    BY <1>1, <1>8 DEF AskDelete
  <2> HIDE DEF j
  <2> QED BY <2>1, <2>2 DEF TableJob
<1>9. ASSUME NEW s \in Sub, AskCreateSub(r, s)
      PROVE  \E j \in TableJob : Goal("find", j)
  <2> DEFINE j == [op |-> "createSub", row |-> s, picks |-> {}, also |-> {}]
  <2>1. j \in RowJob({"createSub"}, Sub)
    BY DEF RowJob
  <2>2. Goal("find", j)
    BY <1>1, <1>9 DEF AskCreateSub
  <2> HIDE DEF j
  <2> QED BY <2>1, <2>2 DEF TableJob
<1>10. ASSUME NEW x \in Government \cup Specialization, NEW op \in UpdateOps,
              AskUpdate(r, x, op)
      PROVE  \E j \in TableJob : Goal("find", j)
  <2> DEFINE j == [op |-> op, row |-> x, picks |-> {}, also |-> {}]
  <2>1. j \in RowJob(UpdateOps, Government \cup Specialization)
    BY DEF RowJob
  <2>2. Goal("find", j)
    BY <1>1, <1>10 DEF AskUpdate
  <2> HIDE DEF j
  <2> QED BY <2>1, <2>2 DEF TableJob
<1>11. ASSUME NEW w \in Profile, NEW s \in Sub, AskOrder(r, w, s)
      PROVE  \E j \in OrderJob : Goal("location", j)
  <2> DEFINE j == [op |-> "createOrder", row |-> w, picks |-> {s}, also |-> {}]
  <2>1. j \in OrderJob
    BY DEF OrderJob, PickJob
  <2>2. Goal("location", j)
    BY <1>1, <1>11 DEF AskOrder
  <2> HIDE DEF j
  <2> QED BY <2>1, <2>2
<1>12. /\ "deleteGovernment" \in DeleteOps /\ "deleteSpecialization" \in DeleteOps
       /\ "deleteSub" \in DeleteOps /\ "updateGovernment" \in UpdateOps
       /\ "updateSpecialization" \in UpdateOps
  BY DEF DeleteOps, UpdateOps
<1> QED BY <1>3, <1>4, <1>5, <1>6, <1>7, <1>8, <1>9, <1>10, <1>11, <1>12 DEF Call

LEMMA CallsSet ==
  ASSUME CallsOK, NEW r \in Request, NEW stage \in Stage,
         NEW j \in {NoJob} \cup TableJob \cup OrderJob \cup HoursJob, JobAt(stage, j),
         pc' = [pc EXCEPT ![r] = stage], job' = [job EXCEPT ![r] = j]
  PROVE  CallsOK'
<1>1. \A q \in Request : pc'[q] = IF q = r THEN stage ELSE pc[q]
  BY DEF CallsOK
<1>2. \A q \in Request : job'[q] = IF q = r THEN j ELSE job[q]
  BY DEF CallsOK
<1>3. pc' \in [Request -> Stage]
  BY DEF CallsOK
<1>4. job' \in [Request -> {NoJob} \cup TableJob \cup OrderJob \cup HoursJob]
  BY DEF CallsOK
<1>5. \A q \in Request : JobAt(pc'[q], job'[q])
  BY <1>1, <1>2 DEF CallsOK
<1> QED BY <1>3, <1>4, <1>5 DEF CallsOK, JobAt

LEMMA CallsMove ==
  ASSUME CallsOK, NEW r \in Request, NEW stage \in Stage, JobAt(stage, job[r]),
         Move(r, stage)
  PROVE  CallsOK'
<1>1. job' = [job EXCEPT ![r] = job[r]] /\ pc' = [pc EXCEPT ![r] = stage]
  BY DEF Move, CallsOK
<1>2. job[r] \in {NoJob} \cup TableJob \cup OrderJob \cup HoursJob
  BY DEF CallsOK
<1> QED BY <1>1, <1>2, CallsSet

LEMMA CallsEnded ==
  ASSUME CallsOK, NEW r \in Request, End(r)
  PROVE  CallsOK'
<1>1. "idle" \in Stage /\ JobAt("idle", NoJob)
  BY DEF Stage, JobAt
<1> QED BY <1>1, CallsSet DEF End

\* What the operation of a call says of its row and picks
LEMMA JobKinds ==
  ASSUME CallsOK, NEW r \in Request, pc[r] \in {"find", "again", "write"}
  PROVE  /\ job[r].op \in DeleteOps => job[r].row \in Government \cup Specialization \cup Sub
         /\ job[r].op = "createSub" => job[r].row \in Sub
         /\ job[r].op \in GovernmentOps => job[r].row \in Profile
         /\ job[r].op = "addSpecializations" => job[r] \in PickJob(PairOps, Pair, {})
         /\ job[r].op = "createOrder" => job[r] \in OrderJob
         /\ job[r].op \in {"clearSpecializations", "removeMains", "removeSubs"} =>
              job[r].row \in Profile /\ job[r].also \subseteq Pair
<1>1. job[r] \in TableJob \cup OrderJob
  BY DEF CallsOK, JobAt
<1> QED BY <1>1 DEF TableJob, OrderJob, PickJob, RowJob, DeleteOps, UpdateOps,
                    GovernmentOps, PairOps, ClearOps

LEMMA TypeCalls ==
  ASSUME TypeInv, [Next]_vars
  PROVE  CallsOK'
<1> USE DEF TypeInv
<1>1. CASE UNCHANGED <<pc, job>>
  BY <1>1 DEF CallsOK, JobAt
<1>2. ASSUME NEW r \in Request, Call(r)
      PROVE  CallsOK'
  BY <1>2, CallAccepts, CallsSet DEF Stage
<1>3. ASSUME NEW r \in Request, Proceed(r)
      PROVE  CallsOK'
  <2>1. CASE End(r)
    BY <2>1, CallsEnded
  <2>2. CASE FindRow(r)
    <3>1. PICK stage \in {"again", "write"} : Move(r, stage)
      BY <2>2 DEF FindRow
    <3>2. JobAt(stage, job[r]) /\ stage \in Stage
      BY <2>2, <3>1 DEF FindRow, CallsOK, JobAt, Stage
    <3> QED BY <3>1, <3>2, CallsMove
  <2>3. CASE FindAgain(r)
    <3>1. JobAt("write", job[r]) /\ "write" \in Stage
      BY <2>3 DEF FindAgain, CallsOK, JobAt, Stage
    <3> QED BY <2>1, <2>3, <3>1, CallsMove DEF FindAgain, Answer
  <2>4. CASE FindLocation(r)
    <3>1. JobAt("write", job[r]) /\ "write" \in Stage
      BY <2>4 DEF FindLocation, At, CallsOK, JobAt, Stage
    <3> QED BY <2>4, <3>1, CallsMove DEF FindLocation
  <2>5. CASE OrderInsert(r)
    <3>1. JobAt("count", job[r]) /\ "count" \in Stage
      BY <2>5, JobKinds DEF OrderInsert, At, JobAt, Stage
    <3> QED BY <2>5, <3>1, CallsMove DEF OrderInsert
  <2>6. CASE ReadHours(r)
    <3> DEFINE j == [job[r] EXCEPT !.also = hours[job[r].row]]
    <3>1. job[r] \in HoursJob /\ hours[job[r].row] \in SUBSET Day
      BY <2>6 DEF ReadHours, CallsOK, JobAt, DaysOK, HoursJob, PickJob
    <3>2. j \in HoursJob
      BY <3>1 DEF HoursJob, PickJob
    <3>3. job' = [job EXCEPT ![r] = j]
      BY <2>6 DEF ReadHours, CallsOK
    <3> HIDE DEF j
    <3>4. PICK stage \in {"replace", "orders"} : pc' = [pc EXCEPT ![r] = stage]
      BY <2>6 DEF ReadHours
    <3>5. JobAt(stage, j) /\ stage \in Stage
      BY <3>2, <3>4 DEF JobAt, Stage
    <3> QED BY <3>2, <3>3, <3>4, <3>5, CallsSet
  <2>7. CASE ReadOrders(r)
    <3>1. JobAt("replace", job[r]) /\ "replace" \in Stage
      BY <2>7 DEF ReadOrders, CallsOK, JobAt, Stage
    <3> QED BY <2>1, <2>7, <3>1, CallsMove DEF ReadOrders, Answer
  <2>8. CASE RemoveSpecializations(r)
    <3> DEFINE j == [job[r] EXCEPT !.op = "removeSubs", !.picks = job[r].also, !.also = {}]
    <3>1. job[r] \in TableJob \cup OrderJob
      BY <2>8 DEF RemoveSpecializations, CallsOK, JobAt
    <3>2. job[r].row \in Profile /\ job[r].also \subseteq Pair
      BY <2>8, JobKinds DEF RemoveSpecializations
    <3>4. j \in PickJob(PairOps, Pair, {})
      <4>1. ASSUME NEW A, NEW B, NEW C, NEW D,
                   job[r] \in [op : A, row : B, picks : C, also : D]
            PROVE  j \in [op : PairOps, row : {job[r].row}, picks : {job[r].also},
                          also : SUBSET {}]
        BY <4>1 DEF PairOps
      <4>2. j \in [op : PairOps, row : {job[r].row}, picks : {job[r].also}, also : SUBSET {}]
        <5> HIDE DEF j
        <5> QED BY <3>1, <4>1 DEF TableJob, OrderJob, PickJob, RowJob
      <4> HIDE DEF j
      <4> QED BY <3>2, <4>2 DEF PickJob
    <3> HIDE DEF j
    <3>5. j \in TableJob
      BY <3>4 DEF TableJob
    <3>6. JobAt("find", j) /\ "find" \in Stage
      BY <3>5 DEF JobAt, Stage
    <3>7. End(r) \/ (pc' = [pc EXCEPT ![r] = "find"] /\ job' = [job EXCEPT ![r] = j])
      BY <2>8 DEF RemoveSpecializations, j
    <3> QED BY <2>1, <3>5, <3>6, <3>7, CallsSet
  <2> QED
    BY <1>3, <2>1, <2>2, <2>3, <2>4, <2>5, <2>6, <2>7, <2>8
    DEF Proceed, FindNone, Answer, DeleteRow, UpdateRow, UpdateGovernment,
        UpdateSpecialization, CreateSub, AddGovernments,
        RemoveGovernments, AddSpecializations, NoLocation, OrderCount, ReplaceHours, Fail
<1> QED
  BY <1>1, <1>2, <1>3
  DEF Next, Create, Open, Turn, Close, External, SeedCity, CreateProfile, DeleteProfile,
      Message, Bind, Release, vars

\* Tables shrink by rows nothing stored refers to.
LEMMA DeleteKeeps ==
  ASSUME TablesOK, NEW gone, gone \cap Entry = {},
         \A c \in Stored(City) : GovernmentOf[c] \in gone => c \in gone,
         \A s \in Stored(Sub) : MainOf[s] \in gone => s \in gone,
         \A c \in chosen : c.main \notin gone,
         Delete(gone), unread' = unread
  PROVE  TablesOK'
<1>1. /\ rows' \in [Id -> {"unborn", "stored", "deleted"}]
      /\ \A x \in Id : rows'[x] = IF x \in gone THEN "deleted" ELSE rows[x]
  BY DEF Delete, TablesOK
<1>2. ASSUME NEW S \in SUBSET Id
      PROVE  Stored(S)' = Stored(S) \ gone
  BY <1>1 DEF Stored
<1>3. City \subseteq Id /\ Sub \subseteq Id /\ Profile \subseteq Id
      /\ Government \subseteq Id /\ Specialization \subseteq Id /\ Entry \subseteq Id
  BY DEF Id
<1>4. \A c \in Stored(City)' : rows'[GovernmentOf[c]] = "stored"
  BY <1>1, <1>2, <1>3, DirectoryAssumption DEF TablesOK, Stored
<1>5. \A s \in Stored(Sub)' : rows'[MainOf[s]] = "stored"
  BY <1>1, <1>2, <1>3, DirectoryAssumption DEF TablesOK, Stored
<1>6. workGovernments' \subseteq Stored(Profile)' \X Stored(Government)'
  BY <1>2, <1>3 DEF TablesOK, Delete
<1>7. /\ chosen' \subseteq [worker : Stored(Profile)', main : Stored(Specialization)',
                            sub : Stored(Sub)']
      /\ \A c, d \in chosen' : c.worker = d.worker /\ c.sub = d.sub => c = d
  BY <1>2, <1>3 DEF TablesOK, Delete
<1>8. unread' \subseteq Stored(Entry)'
  <2>1. Stored(Entry) \cap gone = {}
    BY DEF Stored
  <2> QED BY <1>2, <1>3, <2>1 DEF TablesOK
<1> QED BY <1>1, <1>4, <1>5, <1>6, <1>7, <1>8 DEF TablesOK

\* A row is added whose government or specialization is there.
LEMMA StoreKeeps ==
  ASSUME TablesOK, NEW x \in Id, Store(x), UNCHANGED <<links, unread>>,
         x \in City => rows[GovernmentOf[x]] = "stored",
         x \in Sub => rows[MainOf[x]] = "stored"
  PROVE  TablesOK'
<1>1. /\ rows' \in [Id -> {"unborn", "stored", "deleted"}]
      /\ \A y \in Id : rows'[y] = IF y = x THEN "stored" ELSE rows[y]
      /\ rows[x] = "unborn"
  BY DEF Store, TablesOK
<1>2. ASSUME NEW S \in SUBSET Id
      PROVE  Stored(S)' = Stored(S) \cup (S \cap {x})
  BY <1>1 DEF Stored
<1>3. City \subseteq Id /\ Sub \subseteq Id /\ Profile \subseteq Id
      /\ Government \subseteq Id /\ Specialization \subseteq Id /\ Entry \subseteq Id
  BY DEF Id
<1>4. \A c \in Stored(City)' : rows'[GovernmentOf[c]] = "stored"
  BY <1>1, <1>2, <1>3, DirectoryAssumption DEF TablesOK, Stored
<1>5. \A s \in Stored(Sub)' : rows'[MainOf[s]] = "stored"
  BY <1>1, <1>2, <1>3, DirectoryAssumption DEF TablesOK, Stored
<1>6. workGovernments' \subseteq Stored(Profile)' \X Stored(Government)'
  BY <1>2, <1>3 DEF TablesOK, links
<1>7. /\ chosen' \subseteq [worker : Stored(Profile)', main : Stored(Specialization)',
                            sub : Stored(Sub)']
      /\ \A c, d \in chosen' : c.worker = d.worker /\ c.sub = d.sub => c = d
  BY <1>2, <1>3 DEF TablesOK, links
<1>8. unread' \subseteq Stored(Entry)'
  BY <1>2, <1>3 DEF TablesOK
<1> QED BY <1>1, <1>4, <1>5, <1>6, <1>7, <1>8 DEF TablesOK

LEMMA PairFinite == IsFiniteSet(Pair)
<1> DEFINE f == [p \in Specialization \X Sub |-> [main |-> p[1], sub |-> p[2]]]
<1>1. IsFiniteSet(Specialization) /\ IsFiniteSet(Sub)
  BY RowsFinite DEF Id
<1>2. IsFiniteSet(Specialization \X Sub)
  BY <1>1, FS_Product
<1>3. f \in Surjection(Specialization \X Sub, Pair)
  <2>1. f \in [Specialization \X Sub -> Pair]
    BY DEF Pair
  <2>2. ASSUME NEW q \in Pair
        PROVE  \E p \in Specialization \X Sub : f[p] = q
    <3>1. <<q.main, q.sub>> \in Specialization \X Sub /\ f[<<q.main, q.sub>>] = q
      BY DEF Pair
    <3> QED BY <3>1
  <2> QED BY <2>1, <2>2 DEF Surjection
<1> QED BY <1>2, <1>3, FS_Surjection

\* What createMany skips leaves one row for each sub-specialization.
LEMMA OneOfEach ==
  ASSUME NEW new \in SUBSET Pair, NEW p \in new, NEW q \in new, p.sub = q.sub,
         Cardinality({o \in new : o.sub = p.sub}) = 1
  PROVE  p = q
<1> DEFINE T == {o \in new : o.sub = p.sub}
<1>1. p \in T /\ q \in T /\ Cardinality(T) = 1
  OBVIOUS
<1>2. IsFiniteSet(T)
  BY PairFinite, FS_Subset
<1> HIDE DEF T
<1>3. PICK o : T = {o}
  BY <1>1, <1>2, FS_Singleton
<1> QED BY <1>1, <1>3

\* What a step does to the tables
LEMMA TableSteps ==
  ASSUME [Next]_vars
  PROVE  \/ UNCHANGED <<rows, links, unread>> /\ walk' = walk
         \/ UNCHANGED <<rows, links, unread>> /\ (Turn \/ Close)
         \/ \E list \in Listing, limit \in Limit : Open(list, limit)
         \/ \E r \in Request :
              \/ DeleteRow(r) \/ CreateSub(r)
              \/ AddGovernments(r) \/ RemoveGovernments(r)
              \/ AddSpecializations(r) \/ RemoveSpecializations(r)
         \/ \E x \in Government \cup Specialization \cup Profile \cup Entry : Create(x)
         \/ \E c \in City : SeedCity(c)
         \/ \E w \in Profile : DeleteProfile(w)
         \/ \E e \in Entry : Message(e)
<1> DEFINE Same == UNCHANGED <<rows, links, unread>> /\ walk' = walk
<1>1. ASSUME NEW r \in Request, Call(r)
      PROVE  Same
  BY <1>1, CallAccepts
<1>2. ASSUME NEW r \in Request,
             \/ FindRow(r) \/ FindNone(r) \/ FindAgain(r) \/ FindLocation(r)
             \/ NoLocation(r) \/ OrderInsert(r) \/ OrderCount(r)
             \/ UpdateGovernment(r) \/ UpdateSpecialization(r)
             \/ ReadHours(r) \/ ReadOrders(r) \/ ReplaceHours(r) \/ Fail(r)
      PROVE  Same
  BY <1>2 DEF FindRow, FindNone, FindAgain, FindLocation, NoLocation, OrderInsert,
              UpdateRow, UpdateGovernment, UpdateSpecialization, OrderCount, ReadHours, ReadOrders, ReplaceHours, Fail, Answer, Move
<1>3. ASSUME NEW w \in Profile, NEW d \in Day, Bind(w, d) \/ Release(w, d)
      PROVE  Same
  BY <1>3 DEF Bind, Release
<1>4. CASE UNCHANGED vars
  BY <1>4 DEF vars
<1>5. Turn \/ Close => UNCHANGED <<rows, links, unread>>
  BY DEF Turn, Close
<1> HIDE DEF Same
<1>6. Next => Same \/ (\E r \in Request :
              \/ DeleteRow(r) \/ CreateSub(r)
              \/ AddGovernments(r) \/ RemoveGovernments(r)
              \/ AddSpecializations(r) \/ RemoveSpecializations(r))
         \/ (\E x \in Government \cup Specialization : Create(x))
         \/ (\E list \in Listing, limit \in Limit : Open(list, limit))
         \/ Turn \/ Close \/ External
  BY <1>1, <1>2 DEF Next, Proceed
<1>7. External => Same \/ (\E x \in Profile \cup Entry : Create(x))
         \/ (\E c \in City : SeedCity(c))
         \/ (\E w \in Profile : DeleteProfile(w))
         \/ (\E e \in Entry : Message(e))
  BY <1>3 DEF External, CreateProfile
<1> QED BY <1>4, <1>5, <1>6, <1>7 DEF Same

LEMMA TypeTables ==
  ASSUME TypeInv, [Next]_vars
  PROVE  TablesOK'
<1> USE DEF TypeInv
<1>1. ASSUME UNCHANGED <<rows, links, unread>>
      PROVE  TablesOK'
  BY <1>1 DEF TablesOK, Stored, links
<1>2. ASSUME NEW r \in Request, DeleteRow(r)
      PROVE  TablesOK'
  <2> DEFINE x == job[r].row
  <2>1. x \in Government \cup Specialization \cup Sub
    BY <1>2, JobKinds DEF DeleteRow
  <2>2. /\ \A c \in chosen : c.main # x
        /\ Delete(Cascade(x)) /\ unread' = unread
    BY <1>2 DEF DeleteRow
  <2> HIDE DEF x
  <2>3. Cascade(x) \cap Entry = {}
    BY <2>1, DirectoryAssumption DEF Cascade, Stored
  <2>4. \A c \in Stored(City) : GovernmentOf[c] \in Cascade(x) => c \in Cascade(x)
    BY DirectoryAssumption DEF Cascade, Stored
  <2>5. \A s \in Stored(Sub) : MainOf[s] \in Cascade(x) => s \in Cascade(x)
    BY DirectoryAssumption DEF Cascade, Stored
  <2>6. \A c \in chosen : c.main \notin Cascade(x)
    <3>1. \A c \in chosen : c.main \in Specialization
      BY DEF TablesOK, Stored
    <3>2. Cascade(x) \cap Specialization \subseteq {x}
      BY DirectoryAssumption DEF Cascade, Stored
    <3> QED BY <2>2, <3>1, <3>2
  <2> QED BY <2>2, <2>3, <2>4, <2>5, <2>6, DeleteKeeps
<1>3. ASSUME NEW w \in Profile, DeleteProfile(w)
      PROVE  TablesOK'
  <2>1. Delete({w}) /\ unread' = unread
    BY <1>3 DEF DeleteProfile
  <2>2. {w} \cap Entry = {}
    BY DirectoryAssumption
  <2>3. \A c \in Stored(City) : GovernmentOf[c] \notin {w}
    BY DirectoryAssumption DEF Stored
  <2>4. \A s \in Stored(Sub) : MainOf[s] \notin {w}
    BY DirectoryAssumption DEF Stored
  <2>5. \A c \in chosen : c.main \notin {w}
    BY DirectoryAssumption DEF TablesOK, Stored
  <2> QED BY <2>1, <2>2, <2>3, <2>4, <2>5, DeleteKeeps
<1>5. ASSUME NEW r \in Request, CreateSub(r)
      PROVE  TablesOK'
  <2>1. job[r].row \in Sub
    BY <1>5, JobKinds DEF CreateSub, At
  <2>2. job[r].row \in Id /\ job[r].row \notin City
    BY <2>1, DirectoryAssumption DEF Id
  <2> QED BY <1>5, <2>2, StoreKeeps DEF CreateSub
<1>6. ASSUME NEW x \in Government \cup Specialization \cup Profile \cup Entry, Create(x)
      PROVE  TablesOK'
  <2>1. x \in Id /\ x \notin City /\ x \notin Sub
    BY DirectoryAssumption DEF Id
  <2> QED BY <1>6, <2>1, StoreKeeps DEF Create
<1>7. ASSUME NEW c \in City, SeedCity(c)
      PROVE  TablesOK'
  <2>1. c \in Id /\ c \notin Sub
    BY DirectoryAssumption DEF Id
  <2> QED BY <1>7, <2>1, StoreKeeps DEF SeedCity, Create
<1>8. ASSUME NEW e \in Entry, Message(e)
      PROVE  TablesOK'
  <2>1. UNCHANGED <<rows, links>> /\ unread' \subseteq Stored(Entry)
    BY <1>8 DEF Message, TablesOK, Stored
  <2>2. Stored(Entry)' = Stored(Entry)
    BY <2>1 DEF Stored
  <2> QED BY <2>1, <2>2 DEF TablesOK, Stored, links
<1>9. ASSUME NEW r \in Request, AddGovernments(r)
      PROVE  TablesOK'
  <2>1. job[r].row \in Stored(Profile) /\ job[r].picks \subseteq Stored(Government)
    BY <1>9, JobKinds DEF AddGovernments, At, GovernmentOps, Stored
  <2>2. workGovernments' \subseteq Stored(Profile) \X Stored(Government)
    BY <1>9, <2>1 DEF AddGovernments, TablesOK
  <2>3. UNCHANGED <<rows, chosen, unread>>
    BY <1>9 DEF AddGovernments
  <2> QED BY <2>2, <2>3 DEF TablesOK, Stored
<1>10. ASSUME NEW r \in Request, RemoveGovernments(r)
       PROVE  TablesOK'
  <2>1. UNCHANGED <<rows, chosen, unread>> /\ workGovernments' \subseteq workGovernments
    BY <1>10 DEF RemoveGovernments
  <2> QED BY <2>1 DEF TablesOK, Stored
<1>11. ASSUME NEW r \in Request, AddSpecializations(r)
       PROVE  TablesOK'
  <2> DEFINE w == job[r].row
             picks == job[r].picks
             had == {c.sub : c \in {d \in chosen : d.worker = w}}
  <2>1. /\ w \in Profile /\ rows[w] = "stored" /\ picks \in SUBSET Pair
        /\ \A p \in picks : rows[p.main] = "stored" /\ rows[p.sub] = "stored"
    BY <1>11, JobKinds DEF AddSpecializations, At, PickJob
  <2>2. UNCHANGED <<rows, workGovernments, unread>>
    BY <1>11 DEF AddSpecializations
  <2>3. PICK new \in SUBSET picks :
          /\ \A s \in {p.sub : p \in picks} \ had :
               Cardinality({p \in new : p.sub = s}) = 1
          /\ \A p \in new : p.sub \notin had
          /\ chosen' = chosen \cup
               {[worker |-> w, main |-> p.main, sub |-> p.sub] : p \in new}
    BY <1>11 DEF AddSpecializations
  <2> DEFINE added == {[worker |-> w, main |-> p.main, sub |-> p.sub] : p \in new}
  <2>4. added \subseteq [worker : Stored(Profile), main : Stored(Specialization),
                         sub : Stored(Sub)]
    BY <2>1 DEF Pair, Stored
  <2>5. \A c, d \in chosen' : c.worker = d.worker /\ c.sub = d.sub => c = d
    <3>1. \A p, q \in new : p.sub = q.sub => p = q
      <4> SUFFICES ASSUME NEW p \in new, NEW q \in new, p.sub = q.sub
                   PROVE  p = q
        OBVIOUS
      <4>1. Cardinality({o \in new : o.sub = p.sub}) = 1
        BY <2>3
      <4>2. new \in SUBSET Pair
        BY <2>1
      <4> QED BY <4>1, <4>2, OneOfEach
    <3>2. \A c, d \in added : c.sub = d.sub => c = d
      BY <3>1
    <3>3. \A c \in chosen : c.worker = w => c.sub \in had
      OBVIOUS
    <3>4. \A d \in added : d.worker = w /\ d.sub \notin had
      BY <2>3
    <3>5. \A c, d \in chosen : c.worker = d.worker /\ c.sub = d.sub => c = d
      BY DEF TablesOK
    <3>6. chosen' = chosen \cup added
      BY <2>3
    <3> HIDE DEF w, had, added
    <3> QED BY <3>2, <3>3, <3>4, <3>5, <3>6
  <2>6. chosen' \subseteq [worker : Stored(Profile), main : Stored(Specialization),
                           sub : Stored(Sub)]
    BY <2>3, <2>4 DEF TablesOK
  <2> QED BY <2>2, <2>5, <2>6 DEF TablesOK, Stored
<1>12. ASSUME NEW r \in Request, RemoveSpecializations(r)
       PROVE  TablesOK'
  <2>1. UNCHANGED <<rows, workGovernments, unread>> /\ chosen' \subseteq chosen
    BY <1>12 DEF RemoveSpecializations
  <2> QED BY <2>1 DEF TablesOK, Stored
<1>13. ASSUME NEW list \in Listing, NEW limit \in Limit, Open(list, limit)
       PROVE  TablesOK'
  BY <1>1, <1>13 DEF Open
<1> QED BY <1>1, <1>2, <1>3, <1>5, <1>6, <1>7, <1>8, <1>9, <1>10, <1>11, <1>12,
           <1>13, TableSteps

\* What a step does to the days and to who is replacing them
LEMMA DaySteps ==
  ASSUME CallsOK, [Next]_vars
  PROVE  \/ UNCHANGED <<days, pc, job>>
         \/ \E r \in Request :
              /\ UNCHANGED days
              /\ pc'[r] \notin {"orders", "replace"}
              /\ \A q \in Request \ {r} : pc'[q] = pc[q] /\ job'[q] = job[q]
         \/ \E r \in Request : ReadHours(r) \/ ReadOrders(r) \/ ReplaceHours(r)
         \/ \E w \in Profile, d \in Day : Bind(w, d) \/ Release(w, d)
<1> DEFINE Elsewhere(r) ==
      /\ UNCHANGED days
      /\ pc'[r] \notin {"orders", "replace"}
      /\ \A q \in Request \ {r} : pc'[q] = pc[q] /\ job'[q] = job[q]
<1>1. ASSUME NEW r \in Request, UNCHANGED days, NEW stage \in Stage \ {"orders", "replace"},
             NEW j, pc' = [pc EXCEPT ![r] = stage], job' = job \/ job' = [job EXCEPT ![r] = j]
      PROVE  Elsewhere(r)
  BY <1>1 DEF CallsOK
<1> HIDE DEF Elsewhere
<1>2. ASSUME NEW r \in Request, End(r), UNCHANGED days
      PROVE  Elsewhere(r)
  BY <1>1, <1>2 DEF End, Stage
<1>3. ASSUME NEW r \in Request, NEW stage \in Stage \ {"orders", "replace"}, Move(r, stage)
      PROVE  Elsewhere(r)
  BY <1>1, <1>3 DEF Move
<1>4. ASSUME NEW r \in Request, Answer(r)
      PROVE  Elsewhere(r)
  BY <1>2, <1>4 DEF Answer
<1>5. ASSUME NEW r \in Request, Call(r)
      PROVE  Elsewhere(r)
  <2>1. PICK stage \in {"find", "hours", "location"}, j \in TableJob \cup OrderJob \cup HoursJob :
          /\ pc' = [pc EXCEPT ![r] = stage]
          /\ job' = [job EXCEPT ![r] = j]
          /\ UNCHANGED <<rows, links, days, unread, walk>>
    BY <1>5, CallAccepts
  <2> QED BY <1>1, <2>1 DEF Stage
<1>6. ASSUME NEW r \in Request,
             \/ FindRow(r) \/ FindNone(r) \/ FindAgain(r) \/ FindLocation(r)
             \/ NoLocation(r) \/ OrderInsert(r) \/ OrderCount(r) \/ Fail(r)
      PROVE  Elsewhere(r)
  <2>1. {"again", "write", "count"} \subseteq Stage \ {"orders", "replace"}
    BY DEF Stage
  <2> QED BY <1>3, <1>4, <1>6, <2>1 DEF FindRow, FindNone, FindAgain, FindLocation,
            NoLocation, OrderInsert, OrderCount, Fail
<1>7. ASSUME NEW r \in Request,
             \/ DeleteRow(r) \/ UpdateGovernment(r) \/ UpdateSpecialization(r)
             \/ CreateSub(r)
             \/ AddGovernments(r) \/ RemoveGovernments(r) \/ AddSpecializations(r)
      PROVE  Elsewhere(r)
  BY <1>2, <1>7 DEF DeleteRow, UpdateRow, UpdateGovernment, UpdateSpecialization,
                    CreateSub, AddGovernments, RemoveGovernments,
                    AddSpecializations
<1>8. ASSUME NEW r \in Request, RemoveSpecializations(r)
      PROVE  Elsewhere(r)
  <2>1. UNCHANGED days
    BY <1>8 DEF RemoveSpecializations
  <2>2. End(r) \/ (\E j : pc' = [pc EXCEPT ![r] = "find"] /\ job' = [job EXCEPT ![r] = j])
    BY <1>8 DEF RemoveSpecializations
  <2> QED BY <1>1, <1>2, <2>1, <2>2 DEF Stage
<1>9. CASE UNCHANGED vars
  BY <1>9 DEF vars
<1>10. (Turn \/ Close) => UNCHANGED <<days, pc, job>>
  BY DEF Turn, Close
<1>11. \A list, limit : Open(list, limit) => UNCHANGED <<days, pc, job>>
  BY DEF Open
<1>12. \A x : Create(x) => UNCHANGED <<days, pc, job>>
  BY DEF Create
<1>13. \A x : SeedCity(x) \/ CreateProfile(x) \/ DeleteProfile(x) \/ Message(x)
          => UNCHANGED <<days, pc, job>>
  BY <1>12 DEF SeedCity, CreateProfile, DeleteProfile, Message, days
<1>14. External => \/ UNCHANGED <<days, pc, job>>
                   \/ \E w \in Profile, d \in Day : Bind(w, d) \/ Release(w, d)
  BY <1>12, <1>13 DEF External
<1>15. Next => \/ UNCHANGED <<days, pc, job>>
               \/ \E r \in Request : Elsewhere(r)
               \/ \E r \in Request : ReadHours(r) \/ ReadOrders(r) \/ ReplaceHours(r)
               \/ External
  BY <1>5, <1>6, <1>7, <1>8, <1>10, <1>11, <1>12 DEF Next, Proceed
<1> QED BY <1>9, <1>14, <1>15 DEF Elsewhere

LEMMA HoursCall ==
  ASSUME CallsOK, NEW r \in Request, pc[r] \in {"hours", "orders", "replace"}
  PROVE  /\ job[r].row \in Profile
         /\ job[r].picks \in SUBSET Day /\ job[r].also \in SUBSET Day
BY DEF CallsOK, JobAt, HoursJob, PickJob

LEMMA TypeDays ==
  ASSUME TypeInv, [Next]_vars
  PROVE  DaysOK'
<1> USE DEF TypeInv
<1>1. ASSUME UNCHANGED days
      PROVE  DaysOK'
  BY <1>1 DEF DaysOK, days
<1>2. ASSUME NEW r \in Request, ReadHours(r) \/ ReadOrders(r) \/ ReplaceHours(r)
      PROVE  DaysOK'
  BY <1>2, HoursCall DEF ReadHours, ReadOrders, ReplaceHours, Move, Answer, DaysOK, days
<1>3. ASSUME NEW w \in Profile, NEW d \in Day, Bind(w, d) \/ Release(w, d)
      PROVE  DaysOK'
  BY <1>3 DEF Bind, Release, DaysOK
<1> QED BY <1>1, <1>2, <1>3, DaySteps

----------------------------------------------------------------------------
\* A reader's walk

LEMMA SameRows ==
  ASSUME UNCHANGED <<rows, links, unread>>
  PROVE  \A list : Rows(list)' = Rows(list) /\ Answering(list)' = Answering(list)
<1>1. \A S : Stored(S)' = Stored(S)
  BY DEF Stored
<1>2. workGovernments' = workGovernments /\ chosen' = chosen /\ unread' = unread
  BY DEF links
<1>3. \A g : CitiesOf(g)' = CitiesOf(g) /\ SubsOf(g)' = SubsOf(g) /\ Serving(g)' = Serving(g)
  BY <1>1, <1>2 DEF CitiesOf, SubsOf, Serving
<1>4. \A w : GovernmentsOf(w)' = GovernmentsOf(w) /\ ChosenBy(w)' = ChosenBy(w)
  BY <1>2 DEF GovernmentsOf, ChosenBy
<1>5. \A w : MainsOf(w)' = MainsOf(w)
  BY <1>4 DEF MainsOf
<1>6. \A w : TreeOf(w)' = TreeOf(w)
  BY <1>3, <1>5 DEF TreeOf
<1>7. \A m : WorkersOfMain(m)' = WorkersOfMain(m) /\ WorkersOfSub(m)' = WorkersOfSub(m)
  BY <1>1, <1>4 DEF WorkersOfMain, WorkersOfSub
<1>8. \A q : Searched(q)' = Searched(q)
  BY <1>3, <1>7 DEF Searched
<1>9. \A list : Answering(list)' = Answering(list)
  BY <1>1 DEF Answering
<1> QED BY <1>1, <1>2, <1>3, <1>4, <1>5, <1>6, <1>8, <1>9 DEF Rows, Specializations, Orders

LEMMA RowsOfTables ==
  ASSUME TablesOK, NEW list \in Listing
  PROVE  Rows(list) \in SUBSET Id
<1>1. \A S : Stored(S) \subseteq S
  BY DEF Stored
<1>2. \A w : ChosenBy(w) \subseteq chosen
  BY DEF ChosenBy
<1>3. \A w : MainsOf(w) \subseteq Specialization
  BY <1>1, <1>2 DEF MainsOf, TablesOK
<1>4. \A g : CitiesOf(g) \subseteq City /\ SubsOf(g) \subseteq Sub
             /\ GovernmentsOf(g) \subseteq Government /\ Serving(g) \subseteq Profile
  BY <1>1 DEF CitiesOf, SubsOf, GovernmentsOf, Serving
<1>5. \A w : TreeOf(w) \subseteq Sub
  BY <1>4 DEF TreeOf
<1>6. \A q : Searched(q) \subseteq Profile
  BY <1>4 DEF Searched
<1>7. unread \subseteq Entry
  BY <1>1 DEF TablesOK
<1> QED BY <1>1, <1>3, <1>4, <1>5, <1>6, <1>7 DEF Rows, Id, Specializations, Orders

LEMMA AnswersListed ==
  ASSUME NEW list \in Listing, NEW other \in Answering(list)
  PROVE  /\ other \in Listing /\ other[1] = list[1]
         /\ list[1] # "workGovernments" => other = list
BY DEF Answering, Listing, Stored

\* A reader of a list that is cut into pages, who has not come to its end, was
\* given a full page by each page so far, and was told that there are more.
SoFar(S, v) ==
  v.list[1] \in CutLists =>
    /\ v.given = (v.page - 1) * v.limit
    /\ v.page = 1 \/ (v.page - 1) * v.limit < Cardinality(S)

\* The inductive form of PagesAddUp
WalkInv ==
  walk # NoWalk =>
    /\ walk \in Walk /\ walk.page # 0
    /\ ~walk.done => SoFar(Rows(walk.list), walk)
    /\ PagesAddUp
    /\ walk.seen \subseteq UNION {Rows(list) : list \in Answering(walk.list)}

\* The answer to a reader shows rows of the list only.  A list that is cut
\* advances; of another he has seen all, or of the conversations the unread
\* ones of one page, when there are no more.
LEMMA PageAdvances ==
  ASSUME TablesOK, NEW list \in Listing, NEW limit \in Nat \ {0}, NEW asked \in Nat \ {0},
         list[1] \in CutLists =>
           asked = 1 \/ (asked - 1) * limit < Cardinality(Rows(list)),
         NEW answer \in Page(list, asked, limit)
  PROVE  /\ answer.page \subseteq Rows(list)
         /\ list[1] \in CutLists => Advances(Rows(list), asked, limit, answer)
         /\ ~answer.hasNext /\ list[1] \notin CutLists =>
              \/ Rows(list) \subseteq answer.page
              \/ list[1] = "unread" /\ Cardinality(Stored(Entry)) > DefaultLimit
<1> DEFINE S == Rows(list)
<1>1. S \in SUBSET Id
  BY RowsOfTables
<1> HIDE DEF S
<1>9. DefaultLimit \in Nat \ {0} /\ 1 \in Nat \ {0} /\ (1 - 1) * DefaultLimit = 0
  BY DirectoryAssumption
<1>2. CASE list[1] \in CutLists
  <2>1. asked = 1 \/ (asked - 1) * limit < Cardinality(S)
    BY <1>2 DEF S
  <2>2. CASE list[1] # "workers"
    <3>1. answer \in PagedList(S, asked, limit)
      BY <1>2, <2>2 DEF Page, S, CutLists
    <3> QED BY <1>1, <1>2, <2>1, <3>1, PagedAdvances DEF S, Advances
  <2>3. CASE list[1] = "workers"
    <3>1. answer \in SearchPage(S, asked, limit)
      BY <2>3 DEF Page, S
    <3> QED BY <1>1, <1>2, <2>1, <3>1, SearchAdvances DEF S, Advances
  <2> QED BY <2>2, <2>3
<1>3. CASE list[1] = "conversations"
  <2>1. answer \in PagedList(S, 1, DefaultLimit)
    BY <1>3 DEF Page, S, FirstPage
  <2>2. Advances(S, 1, DefaultLimit, answer)
    BY <1>1, <1>9, <2>1, PagedAdvances
  <2>3. ~answer.hasNext => Cardinality(answer.page) = Cardinality(S)
    <3>1. answer.page \in SUBSET Id
      BY <1>1, <2>2 DEF Advances
    <3>2. Cardinality(answer.page) \in Nat
      BY <3>1, RowsFinite
    <3> QED BY <1>9, <2>2, <3>2 DEF Advances
  <2>4. answer.page \subseteq S /\ (~answer.hasNext => S \subseteq answer.page)
    BY <1>1, <2>2, <2>3, WholePage DEF Advances
  <2> QED BY <1>3, <2>4 DEF CutLists, S
<1>4. CASE list[1] = "unread"
  <2> DEFINE all == Stored(Entry)
  <2>1. answer \in Summary(all) /\ S = unread
    BY <1>4 DEF Page, S, Rows, Specializations, Orders
  <2>2. PICK first \in PagedList(all, 1, DefaultLimit) :
          answer.page = {e \in first.page : e \in unread}
    BY <2>1 DEF Summary, FirstPage, IsUnread
  <2>3. all \in SUBSET Id /\ unread \subseteq all
    BY DEF TablesOK, Stored, Id
  <2> HIDE DEF all
  <2>4. Advances(all, 1, DefaultLimit, first)
    BY <1>9, <2>3, PagedAdvances
  <2>5. ASSUME ~(Cardinality(all) > DefaultLimit)
        PROVE  all \subseteq first.page
    <3>1. first.page \in SUBSET Id
      BY <2>3, <2>4 DEF Advances
    <3>2. Cardinality(all) \in Nat /\ Cardinality(first.page) \in Nat
      BY <2>3, <3>1, RowsFinite
    <3>3. 1 * DefaultLimit = DefaultLimit
      BY <1>9
    <3>4. ~first.hasNext
      BY <1>9, <2>4, <2>5, <3>2, <3>3 DEF Advances
    <3>5. Cardinality(first.page) = Cardinality(all)
      BY <1>9, <2>4, <3>2, <3>4 DEF Advances
    <3> QED BY <2>3, <2>4, <3>5, WholePage DEF Advances
  <2> QED BY <1>4, <2>1, <2>2, <2>3, <2>5 DEF CutLists, S, all
<1>5. CASE list[1] \in {"workGovernments", "chosen"}
  <2>1. answer.page = S
    BY <1>5 DEF Page, S, WholeList
  <2> QED BY <1>5, <2>1 DEF CutLists, S
<1>6. CASE list[1] = "tree"
  <2>1. answer.page = S
    BY <1>6 DEF Page, S
  <2> QED BY <1>6, <2>1 DEF CutLists, S
<1>8. list[1] \in CutLists \cup {"conversations", "unread", "workGovernments", "chosen",
                                 "tree"}
  BY DEF Listing, CutLists
<1> QED BY <1>2, <1>3, <1>4, <1>5, <1>6, <1>8

LEMMA TurnAdvances ==
  ASSUME TablesOK, WalkInv, Turn
  PROVE  WalkInv' /\ WalkOK'
<1>1. /\ walk # NoWalk /\ walk \in Walk /\ ~walk.done /\ walk.page \in Nat \ {0}
      /\ walk.list \in Listing /\ walk.limit \in Nat \ {0} /\ walk.given \in Nat
      /\ UNCHANGED <<rows, links, unread>>
  BY DirectoryAssumption DEF Turn, WalkInv, Walk
<1> DEFINE old == walk.list
           asked == walk.page
           limit == walk.limit
<1>2. PICK list \in Answering(old) :
        \E answer \in Page(list, asked, limit) :
          walk' = [walk EXCEPT !.seen = @ \cup answer.page,
                               !.given = @ + Cardinality(answer.page),
                               !.page = IF answer.hasNext THEN @ + 1 ELSE @,
                               !.done = ~answer.hasNext]
  BY DEF Turn
<1> PICK answer \in Page(list, asked, limit) :
          walk' = [walk EXCEPT !.seen = @ \cup answer.page,
                               !.given = @ + Cardinality(answer.page),
                               !.page = IF answer.hasNext THEN @ + 1 ELSE @,
                               !.done = ~answer.hasNext]
  BY <1>2
<1>3. /\ walk'.list = old /\ walk'.limit = limit
      /\ walk'.seen = walk.seen \cup answer.page
      /\ walk'.given = walk.given + Cardinality(answer.page)
      /\ walk'.page = IF answer.hasNext THEN asked + 1 ELSE asked
      /\ walk'.done <=> ~answer.hasNext
      /\ walk' \in [list : {old}, limit : {limit}, page : {walk'.page}, seen : {walk'.seen},
                    given : {walk'.given}, done : BOOLEAN]
  BY <1>1 DEF Walk
<1>4. list \in Listing /\ list[1] = old[1] /\ (old[1] # "workGovernments" => list = old)
  BY <1>1, AnswersListed
<1>5. old[1] \in CutLists => list = old
  BY <1>4 DEF CutLists
<1>6. SoFar(Rows(old), walk)
  BY <1>1 DEF WalkInv
<1> DEFINE S == Rows(list)
<1>7. /\ answer.page \subseteq S
      /\ old[1] \in CutLists => Advances(S, asked, limit, answer)
      /\ ~answer.hasNext /\ old[1] \notin CutLists =>
           \/ S \subseteq answer.page
           \/ old[1] = "unread" /\ Cardinality(Stored(Entry)) > DefaultLimit
  BY <1>1, <1>4, <1>5, <1>6, PageAdvances DEF SoFar
<1>8. S \in SUBSET Id /\ Cardinality(S) \in Nat /\ Cardinality(answer.page) \in Nat
  <2>1. S \in SUBSET Id /\ answer.page \in SUBSET Id
    BY <1>4, <1>7, RowsOfTables
  <2> QED BY <2>1, RowsFinite
<1> DEFINE all == Answering(old)
<1>9. walk.seen \subseteq UNION {Rows(l) : l \in all}
  BY <1>1 DEF WalkInv
<1>10. walk'.seen \subseteq UNION {Rows(l) : l \in all}
  BY <1>3, <1>7, <1>9
<1>11. \A l : Rows(l)' = Rows(l) /\ Answering(l)' = Answering(l)
  BY <1>1, SameRows
<1>12. Stored(Entry)' = Stored(Entry)
  BY <1>1 DEF Stored
<1> HIDE DEF S, old, asked, limit, all
<1>13. walk' \in Walk
  <2>1. walk'.page \in Nat /\ walk'.given \in Nat
    BY <1>1, <1>3, <1>8 DEF asked
  <2>2. walk'.seen \subseteq Id
    BY <1>1, <1>3, <1>7, <1>8 DEF Walk
  <2> QED BY <1>1, <1>3, <2>1, <2>2 DEF Walk, old, limit
<1>14. walk'.page # 0
  BY <1>1, <1>3 DEF asked
\* What he had been given by the pages before this one.
<1>15. old[1] \in CutLists =>
         S = Rows(old) /\ walk.given = (asked - 1) * limit
           /\ Advances(S, asked, limit, answer)
  BY <1>5, <1>6, <1>7 DEF SoFar, S, old, asked, limit
<1>16. asked \in Nat \ {0} /\ limit \in Nat \ {0} /\ (asked - 1) * limit \in Nat
       /\ asked * limit = (asked - 1) * limit + limit
  <2>1. asked \in Nat \ {0} /\ limit \in Nat \ {0}
    BY <1>1 DEF asked, limit
  <2> QED BY <2>1
<1>17. ~walk'.done => SoFar(Rows(old), walk')
  <2> SUFFICES ASSUME answer.hasNext, old[1] \in CutLists
               PROVE  /\ walk'.given = (walk'.page - 1) * limit
                      /\ (walk'.page - 1) * limit < Cardinality(S)
    BY <1>3, <1>15 DEF SoFar
  <2>1. walk'.page - 1 = asked
    BY <1>3, <1>16
  <2>2. walk'.given = asked * limit /\ asked * limit < Cardinality(S)
    BY <1>3, <1>15, <1>16 DEF Advances
  <2> QED BY <2>1, <2>2
<1>18. walk'.done /\ old[1] \in CutLists => walk'.given = Cardinality(S)
  BY <1>3, <1>15, <1>16 DEF Advances
<1>19. ASSUME walk'.done, walk'.page = 1 \/ old[1] \notin CutLists
       PROVE  \/ \E l \in all : Rows(l) \subseteq walk'.seen
              \/ old[1] = "unread" /\ Cardinality(Stored(Entry)) > DefaultLimit
  <2>1. CASE old[1] \in CutLists
    <3>1. asked = 1 /\ ~answer.hasNext
      BY <1>3, <1>19, <2>1
    <3>2. (asked - 1) * limit = 0
      BY <1>16, <3>1
    <3>3. answer.page \in SUBSET S /\ Cardinality(answer.page) = Cardinality(S)
      BY <1>8, <1>15, <2>1, <3>1, <3>2 DEF Advances
    <3>4. answer.page = S
      BY <1>8, <3>3, WholePage
    <3> QED BY <1>3, <3>4 DEF S, all
  <2>2. CASE old[1] \notin CutLists
    BY <1>3, <1>7, <1>19, <2>2 DEF S, all
  <2> QED BY <2>1, <2>2
<1>20. PagesAddUp'
  BY <1>3, <1>10, <1>11, <1>12, <1>15, <1>18, <1>19 DEF PagesAddUp, old, all
<1> QED
  BY <1>3, <1>10, <1>11, <1>13, <1>14, <1>17, <1>20 DEF WalkInv, WalkOK, old, all

LEMMA WalkSteps ==
  ASSUME TablesOK, WalkOK, WalkInv, [Next]_vars
  PROVE  WalkInv' /\ WalkOK'
<1>1. CASE walk' = NoWalk
  BY <1>1 DEF WalkInv, WalkOK
<1>2. CASE UNCHANGED <<rows, links, unread>> /\ walk' = walk
  <2>1. \A l : Rows(l)' = Rows(l) /\ Answering(l)' = Answering(l)
    BY <1>2, SameRows
  <2>2. Stored(Entry)' = Stored(Entry)
    BY <1>2 DEF Stored
  <2> QED BY <1>2, <2>1, <2>2 DEF WalkInv, PagesAddUp, WalkOK, SoFar
<1>3. CASE Turn
  BY <1>3, TurnAdvances
<1>4. ASSUME NEW list \in Listing, NEW limit \in Limit, Open(list, limit)
      PROVE  WalkInv' /\ WalkOK'
  <2>1. /\ walk' = [list |-> list, limit |-> limit, page |-> 1, seen |-> {},
                    given |-> 0, done |-> FALSE]
        /\ UNCHANGED <<rows, links, unread>>
    BY <1>4 DEF Open
  <2>2. walk' \in Walk /\ walk'.page = 1 /\ walk'.seen = {} /\ ~walk'.done
        /\ walk'.given = 0 /\ walk'.list = list /\ walk'.limit = limit
    BY <2>1 DEF Walk
  <2>3. \A l : Rows(l)' = Rows(l)
    BY <2>1, SameRows
  <2>5. (1 - 1) * limit = 0
    BY DirectoryAssumption
  <2>6. SoFar(Rows(list), walk')
    BY <2>2, <2>5 DEF SoFar
  <2> QED BY <2>2, <2>3, <2>6 DEF WalkInv, PagesAddUp, WalkOK
<1>5. ASSUME \/ \E r \in Request :
                  \/ DeleteRow(r) \/ CreateSub(r)
                  \/ AddGovernments(r) \/ RemoveGovernments(r)
                  \/ AddSpecializations(r) \/ RemoveSpecializations(r)
             \/ \E x \in Government \cup Specialization \cup Profile \cup Entry : Create(x)
             \/ \E c \in City : SeedCity(c)
             \/ \E w \in Profile : DeleteProfile(w)
             \/ \E e \in Entry : Message(e)
      PROVE  walk' = NoWalk
  BY <1>5 DEF DeleteRow, CreateSub, AddGovernments, RemoveGovernments, AddSpecializations, RemoveSpecializations, Create, SeedCity, DeleteProfile, Message,
     Delete, Store
<1>6. Close => walk' = NoWalk
  BY DEF Close
<1> QED BY <1>1, <1>2, <1>3, <1>4, <1>5, <1>6, TableSteps

\* The inductive invariant: the types with what a call carries, and what a
\* reader has seen so far.
DirectoryInv == TypeInv /\ WalkInv

LEMMA DirectoryStarts == Init => DirectoryInv
<1> SUFFICES ASSUME Init PROVE DirectoryInv
  OBVIOUS
<1>1. TablesOK /\ WalkOK
  BY DEF Init, TablesOK, WalkOK, Stored, Id
<1>2. DaysOK
  BY DEF Init, DaysOK
<1>3. CallsOK
  BY DEF Init, CallsOK, Stage, JobAt
<1>4. WalkInv
  BY DEF Init, WalkInv
<1> QED BY <1>1, <1>2, <1>3, <1>4 DEF DirectoryInv, TypeInv

LEMMA DirectoryGoesOn == DirectoryInv /\ [Next]_vars => DirectoryInv'
<1> SUFFICES ASSUME DirectoryInv, [Next]_vars
             PROVE  DirectoryInv'
  OBVIOUS
<1>1. TypeInv /\ WalkInv /\ TablesOK /\ WalkOK
  BY DEF DirectoryInv, TypeInv
<1>2. TablesOK' /\ DaysOK' /\ CallsOK'
  BY <1>1, TypeTables, TypeDays, TypeCalls
<1>3. WalkInv' /\ WalkOK'
  BY <1>1, WalkSteps
<1> QED BY <1>2, <1>3 DEF DirectoryInv, TypeInv

\* The keys between the tables of the catalogue hold whatever calls overlap,
\* nothing is linked twice (createMany skips what a worker has), and calls and
\* readers hold values of their types.
THEOREM DirectoryTyped == Spec => []TypeOK
<1>1. DirectoryInv => TypeOK
  BY TypeInvTypes DEF DirectoryInv
<1> QED BY <1>1, DirectoryStarts, DirectoryGoesOn, PTL DEF Spec

\* Whoever follows hasNext to its end is given as many rows as the list has, and
\* sees all of it where one page is all, whichever way findMany, searchWorkers
\* and the rest cut it and whatever order each query puts the rows in (tables
\* that stand still under him).
THEOREM PagesAlwaysAddUp == Spec => []PagesAddUp
<1>1. DirectoryInv => PagesAddUp
  BY DEF DirectoryInv, WalkInv, PagesAddUp
<1> QED BY <1>1, DirectoryStarts, DirectoryGoesOn, PTL DEF Spec

----------------------------------------------------------------------------
\* Working hours

\* What a replacement has read still holds, unless it has been overtaken.
HoursInv ==
  \A r \in Request : r \notin overtaken =>
    /\ pc[r] \in {"orders", "replace"} => hours[job[r].row] = job[r].also
    /\ pc[r] = "replace" => Removed(job[r]) \cap active[job[r].row] = {}

LEMMA HoursSteps ==
  ASSUME TypeInv, HoursInv, [Next]_vars
  PROVE  HoursInv'
<1> USE DEF TypeInv
<1>1. CASE UNCHANGED <<days, pc, job>>
  BY <1>1 DEF HoursInv, days, Removed
<1>2. ASSUME NEW r \in Request,
             UNCHANGED days,
             pc'[r] \notin {"orders", "replace"},
             \A q \in Request \ {r} : pc'[q] = pc[q] /\ job'[q] = job[q]
      PROVE  HoursInv'
  <2> SUFFICES ASSUME NEW q \in Request, q \notin overtaken', q # r
               PROVE  /\ pc'[q] \in {"orders", "replace"} => hours'[job'[q].row] = job'[q].also
                      /\ pc'[q] = "replace" => Removed(job'[q]) \cap active'[job'[q].row] = {}
    BY <1>2 DEF HoursInv, Removed
  <2> QED BY <1>2 DEF HoursInv, days
<1>3. ASSUME NEW r \in Request, ReadHours(r)
      PROVE  HoursInv'
  <2>1. /\ pc[r] = "hours" /\ UNCHANGED <<hours, active>> /\ overtaken' = overtaken \ {r}
        /\ pc'[r] = IF hours[job[r].row] \subseteq job[r].picks THEN "replace" ELSE "orders"
        /\ \A q \in Request \ {r} : pc'[q] = pc[q] /\ job'[q] = job[q]
    BY <1>3 DEF ReadHours, CallsOK
  <2>2. /\ job'[r].row = job[r].row /\ job'[r].picks = job[r].picks
        /\ job'[r].also = hours[job[r].row]
    <3>1. job[r] \in HoursJob
      BY <2>1 DEF CallsOK, JobAt
    <3>2. job'[r] = [job[r] EXCEPT !.also = hours[job[r].row]]
      BY <1>3 DEF ReadHours, CallsOK
    <3> QED BY <3>1, <3>2 DEF HoursJob, PickJob
  <2>3. pc'[r] = "replace" => Removed(job'[r]) = {}
    BY <2>1, <2>2 DEF Removed
  <2> SUFFICES ASSUME NEW q \in Request, q \notin overtaken'
               PROVE  /\ pc'[q] \in {"orders", "replace"} => hours'[job'[q].row] = job'[q].also
                      /\ pc'[q] = "replace" => Removed(job'[q]) \cap active'[job'[q].row] = {}
    BY DEF HoursInv, Removed
  <2>4. CASE q = r
    BY <2>1, <2>2, <2>3, <2>4
  <2>5. CASE q # r
    BY <2>1, <2>5 DEF HoursInv
  <2> QED BY <2>4, <2>5
<1>4. ASSUME NEW r \in Request, ReadOrders(r)
      PROVE  HoursInv'
  <2>1. CASE Answer(r)
    <3>1. UNCHANGED days /\ pc'[r] = "idle"
          /\ \A q \in Request \ {r} : pc'[q] = pc[q] /\ job'[q] = job[q]
      BY <2>1 DEF Answer, End, CallsOK
    <3> QED BY <1>2, <3>1
  <2>2. CASE Removed(job[r]) \cap active[job[r].row] = {} /\ Move(r, "replace")
    <3>1. /\ UNCHANGED <<days, job>> /\ pc[r] = "orders"
          /\ \A q \in Request : pc'[q] = IF q = r THEN "replace" ELSE pc[q]
      BY <1>4, <2>2 DEF Move, CallsOK, ReadOrders
    <3> QED BY <2>2, <3>1 DEF HoursInv, days, Removed
  <2> QED BY <1>4, <2>1, <2>2 DEF ReadOrders
<1>5. ASSUME NEW r \in Request, ReplaceHours(r)
      PROVE  HoursInv'
  <2> DEFINE w == job[r].row
  <2>1. /\ UNCHANGED active /\ pc'[r] = "idle"
        /\ \A q \in Request \ {r} : pc'[q] = pc[q] /\ job'[q] = job[q]
        /\ \A v \in Profile \ {w} : hours'[v] = hours[v]
        /\ \A q \in Request \ {r} : q \notin overtaken' => q \notin overtaken
        /\ \A q \in Request \ {r} :
             pc[q] \in {"orders", "replace"} /\ job[q].row = w => q \in overtaken'
    BY <1>5 DEF ReplaceHours, End, CallsOK, DaysOK
  <2> SUFFICES ASSUME NEW q \in Request, q \notin overtaken', pc'[q] \in {"orders", "replace"}
               PROVE  /\ hours'[job'[q].row] = job'[q].also
                      /\ pc'[q] = "replace" => Removed(job'[q]) \cap active'[job'[q].row] = {}
    BY DEF HoursInv, Removed
  <2>2. q # r /\ pc[q] \in {"orders", "replace"} /\ job'[q] = job[q]
    BY <2>1
  <2>3. job[q].row \in Profile \ {w}
    BY <2>1, <2>2, HoursCall
  <2> QED BY <2>1, <2>2, <2>3 DEF HoursInv
<1>6. ASSUME NEW w \in Profile, NEW d \in Day, Bind(w, d)
      PROVE  HoursInv'
  <2>1. /\ UNCHANGED <<hours, pc, job>> /\ overtaken \subseteq overtaken'
        /\ \A v \in Profile : active'[v] = IF v = w THEN active[v] \cup {d} ELSE active[v]
        /\ \A q \in Request :
             pc[q] = "replace" /\ job[q].row = w /\ d \in Removed(job[q]) => q \in overtaken'
    BY <1>6 DEF Bind, DaysOK
  <2> SUFFICES ASSUME NEW q \in Request, q \notin overtaken', pc[q] \in {"orders", "replace"}
               PROVE  /\ hours[job[q].row] = job[q].also
                      /\ pc[q] = "replace" => Removed(job[q]) \cap active'[job[q].row] = {}
    BY <2>1 DEF HoursInv, Removed
  <2>2. job[q].row \in Profile
    BY HoursCall
  <2> QED BY <2>1, <2>2 DEF HoursInv
<1>7. ASSUME NEW w \in Profile, NEW d \in Day, Release(w, d)
      PROVE  HoursInv'
  <2>1. /\ UNCHANGED <<hours, pc, job, overtaken>>
        /\ \A v \in Profile : active'[v] \subseteq active[v]
    BY <1>7 DEF Release, DaysOK
  <2>2. \A q \in Request : pc[q] \in {"orders", "replace"} => job[q].row \in Profile
    BY HoursCall
  <2> QED BY <2>1, <2>2 DEF HoursInv, Removed
<1> QED BY <1>1, <1>2, <1>3, <1>4, <1>5, <1>6, <1>7, DaySteps

\* A replacement that nobody has overtaken closes only days it looked at, on
\* which no order bound the worker then or since.
LEMMA ClosesFreeDays ==
  ASSUME TypeInv, HoursInv, [Next]_vars, NEW r \in Request,
         pc[r] = "replace", pc'[r] = "idle", r \notin overtaken
  PROVE  (hours[job[r].row] \ hours'[job[r].row]) \cap active[job[r].row] = {}
<1> USE DEF TypeInv
<1>1. CASE UNCHANGED hours
  BY <1>1
<1>2. ASSUME NEW q \in Request, ReadHours(q) \/ ReadOrders(q)
      PROVE  UNCHANGED hours
  BY <1>2 DEF ReadHours, ReadOrders, Move, Answer, days
<1>3. ASSUME NEW q \in Request, ReplaceHours(q), q # r
      PROVE  FALSE
  BY <1>3 DEF ReplaceHours, End, CallsOK
<1>4. CASE ReplaceHours(r)
  <2>1. job[r].row \in Profile
    BY HoursCall
  <2>2. hours'[job[r].row] = job[r].picks
    BY <1>4, <2>1 DEF ReplaceHours, DaysOK
  <2>3. hours[job[r].row] = job[r].also /\ Removed(job[r]) \cap active[job[r].row] = {}
    BY DEF HoursInv
  <2> QED BY <2>2, <2>3 DEF Removed
<1>5. \A w, d : Bind(w, d) \/ Release(w, d) => UNCHANGED hours
  BY DEF Bind, Release
<1> QED BY <1>1, <1>2, <1>3, <1>4, <1>5, DaySteps DEF days

\* replaceWorkingHours closes no day an order binds the worker to, unless an
\* order or another replacement came between its reads and its write.
THEOREM BoundDaysOpen == Spec => BoundDaysStayOpen
<1>1. Init => HoursInv
  BY DEF Init, HoursInv
<1>2. DirectoryInv /\ HoursInv /\ [Next]_vars => HoursInv'
  BY HoursSteps DEF DirectoryInv
<1>3. DirectoryInv /\ HoursInv /\ [Next]_vars =>
        [\A r \in Request :
           pc[r] = "replace" /\ pc'[r] = "idle" /\ r \notin overtaken =>
             LET w == job[r].row IN (hours[w] \ hours'[w]) \cap active[w] = {}]_vars
  BY ClosesFreeDays DEF DirectoryInv
<1> QED BY <1>1, <1>2, <1>3, DirectoryStarts, DirectoryGoesOn, PTL DEF Spec, BoundDaysStayOpen

=============================================================================
