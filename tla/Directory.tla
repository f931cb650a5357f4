----------------------------- MODULE Directory -----------------------------
(***************************************************************************)
(* What clients choose workers by: the catalogue of governments, cities,   *)
(* specializations and sub-specializations, what each worker profile picks *)
(* from it, the days it works, and the lists and the search that read all  *)
(* this page by page.                                                      *)
(*                                                                         *)
(* Every operation looks its row up, and writes one or two awaits later    *)
(* without a transaction; only replaceWorkingHours has one, at READ        *)
(* COMMITTED.  The writes to the catalogue are operations of the services: *)
(* their routes admit nobody (module Routes), seeds and operators change   *)
(* the tables all the same.  Names, images and coordinates are left out.   *)
(***************************************************************************)
EXTENDS Integers, FiniteSets

CONSTANTS
  Government, City, Specialization, Sub, Profile,  \* ids of rows
  Entry,         \* rows of another table listed page by page: a user's orders,
                 \* locations or conversations
  GovernmentOf,  \* the governmentId of a city
  MainOf,        \* the mainSpecializationId of a sub-specialization
  Day,           \* days of the week
  Limit,         \* the limits a reader asks for
  DefaultLimit,  \* the limit of a reader who asks for none
  MaxPicks,      \* bound on the ids one request names
  MaxPage,       \* bound on the pages a reader asks for
  Request,       \* concurrent calls
  NoJob,         \* "the call has not been made"
  NoRow,         \* "the list is not restricted by such a row"
  NoWalk         \* "nobody walks through a list"

VARIABLES
  rows,            \* rows[x]: "unborn", "stored" or "deleted"
  workGovernments, \* the pairs of the table _GovernmentToWorkerProfile
  chosen,          \* the rows of chosen_specializations
  hours,           \* hours[w]: daysOfWeek of w's working hours, {} for no row
  active,          \* active[w]: days of w's orders that bind him
  overtaken,       \* replacements whose reads another one, or a new order on
                   \* a day they remove, has overtaken (history)
  pc, job,         \* pc[r], job[r]: how far call r got, and what it is
  unread,          \* conversations with messages their user has not read
  walk             \* a reader going through the pages of one list

links == <<workGovernments, chosen>>
days == <<hours, active, overtaken>>
vars == <<rows, links, days, pc, job, unread, walk>>

----------------------------------------------------------------------------
\* State

Id == Government \cup City \cup Specialization \cup Sub \cup Profile \cup Entry

Pair == [main : Specialization, sub : Sub]
Choice == [worker : Profile, main : Specialization, sub : Sub]

Picks(S) == {P \in SUBSET S : P # {} /\ Cardinality(P) <= MaxPicks}

\* "again" is the second look of a deletion, at the row the service has seen.
Stage == {"idle", "find", "again", "write", "location", "count", "hours",
          "orders", "replace"}

GovernmentOps == {"addGovernments", "removeGovernments"}
PairOps == {"addSpecializations", "removeSubs"}
ClearOps == {"clearGovernments", "clearSpecializations"}
DeleteOps == {"deleteGovernment", "deleteSpecialization", "deleteSub"}
UpdateOps == {"updateGovernment", "updateSpecialization"}

\* What a client searches a worker by: a specialization, or one of its subs,
\* and perhaps a government.
Search == [main : Specialization, sub : Sub \cup {NoRow},
           government : Government \cup {NoRow}]

\* List parameters: what is listed, and of which row.
Listing ==
  ({"governments", "specializations", "orders", "locations", "conversations",
    "unread"} \X {NoRow})
    \cup ({"cities"} \X Government)
    \cup ({"subs"} \X Specialization)
    \cup ({"workers"} \X Search)
    \cup ({"workGovernments", "chosen", "tree"} \X Profile)

\* `seen' are the rows he was shown, and `given' how many: a row shown on two
\* pages counts twice (history).
Walk == [list : Listing, limit : Limit, page : Nat, seen : SUBSET Id,
         given : Nat, done : BOOLEAN]

\* Each table has ids of its own.
ASSUME DirectoryAssumption ==
  /\ IsFiniteSet(Id)
  /\ Government \cap (City \cup Specialization \cup Sub \cup Profile \cup Entry) = {}
  /\ City \cap (Specialization \cup Sub \cup Profile \cup Entry) = {}
  /\ Specialization \cap (Sub \cup Profile \cup Entry) = {}
  /\ Sub \cap (Profile \cup Entry) = {}
  /\ Profile \cap Entry = {}
  /\ GovernmentOf \in [City -> Government]
  /\ MainOf \in [Sub -> Specialization]
  /\ Limit \subseteq Nat \ {0}
  /\ DefaultLimit \in Nat \ {0}
  /\ MaxPicks \in Nat /\ MaxPage \in Nat

Stored(S) == {x \in S : rows[x] = "stored"}

\* The keys between the tables hold, and nothing is linked twice.
TypeOK ==
  /\ rows \in [Id -> {"unborn", "stored", "deleted"}]
  /\ \A c \in Stored(City) : rows[GovernmentOf[c]] = "stored"
  /\ \A s \in Stored(Sub) : rows[MainOf[s]] = "stored"
  /\ workGovernments \subseteq Stored(Profile) \X Stored(Government)
  /\ chosen \subseteq [worker : Stored(Profile), main : Stored(Specialization),
                       sub : Stored(Sub)]
  /\ \A c, d \in chosen : c.worker = d.worker /\ c.sub = d.sub => c = d
  /\ hours \in [Profile -> SUBSET Day]
  /\ active \in [Profile -> SUBSET Day]
  /\ overtaken \subseteq Request
  /\ pc \in [Request -> Stage]
  /\ unread \subseteq Stored(Entry)
  /\ walk \in Walk \cup {NoWalk}

Init ==
  /\ rows = [x \in Id |-> "unborn"]
  /\ workGovernments = {}
  /\ chosen = {}
  /\ hours = [w \in Profile |-> {}]
  /\ active = [w \in Profile |-> {}]
  /\ overtaken = {}
  /\ pc = [r \in Request |-> "idle"]
  /\ job = [r \in Request |-> NoJob]
  /\ unread = {}
  /\ walk = NoWalk

----------------------------------------------------------------------------
\* How a call starts, moves and ends

Accept(r, stage, op, row, picks, also) ==
  /\ pc[r] = "idle"
  /\ pc' = [pc EXCEPT ![r] = stage]
  /\ job' = [job EXCEPT ![r] =
       [op |-> op, row |-> row, picks |-> picks, also |-> also]]
  /\ UNCHANGED <<rows, links, days, unread, walk>>

At(r, op, stage) == pc[r] = stage /\ job[r].op = op

Move(r, stage) ==
  /\ pc' = [pc EXCEPT ![r] = stage]
  /\ UNCHANGED <<rows, links, days, job, unread, walk>>

End(r) ==
  /\ pc' = [pc EXCEPT ![r] = "idle"]
  /\ job' = [job EXCEPT ![r] = NoJob]

\* An answer, with or without an error, that changes nothing.
Answer(r) == End(r) /\ UNCHANGED <<rows, links, days, unread, walk>>

----------------------------------------------------------------------------
\* Requests.  A worker's calls carry the profile id of his cached state.

AskGovernments(r, w, op, picks) ==
  rows[w] # "unborn" /\ Accept(r, "find", op, w, picks, {})

AskSpecializations(r, w, op, picks) ==
  rows[w] # "unborn" /\ Accept(r, "find", op, w, picks, {})

AskClear(r, w, op) == rows[w] # "unborn" /\ Accept(r, "find", op, w, {}, {})

\* deleteWorkerSpecializations: whole specializations, then single pairs.
AskRemove(r, w, mains, pairs) ==
  rows[w] # "unborn" /\ Accept(r, "find", "removeMains", w, mains, pairs)

AskDelete(r, x, op, parent) == Accept(r, "find", op, x, {parent}, {})

\* Of the fields an update names none is modelled, and no row comes or goes.
AskUpdate(r, x, op) == Accept(r, "find", op, x, {}, {})

AskCreateSub(r, s) ==
  rows[s] = "unborn" /\ Accept(r, "find", "createSub", s, {}, {})

AskHours(r, w, picks) ==
  rows[w] # "unborn" /\ Accept(r, "hours", "replaceWorkingHours", w, picks, {})

\* A client orders from a worker what the sub-specialization names.
AskOrder(r, w, s) == Accept(r, "location", "createOrder", w, {s}, {})

----------------------------------------------------------------------------
\* The lookups

Sought(j) == IF j.op = "createSub" THEN MainOf[j.row] ELSE j.row

FindRow(r) ==
  /\ pc[r] = "find"
  /\ rows[Sought(job[r])] = "stored"
  /\ Move(r, IF job[r].op \in DeleteOps \cup UpdateOps THEN "again"
             ELSE "write")

\* A worker without a profile is answered as if all was well, the rest 404.
FindNone(r) ==
  /\ pc[r] = "find"
  /\ rows[Sought(job[r])] # "stored"
  /\ Answer(r)

\* The filter of deleteSubSpecialization names the parent as well.
Matches(j) ==
  /\ rows[j.row] = "stored"
  /\ j.op = "deleteSub" => MainOf[j.row] \in j.picks

FindAgain(r) ==
  /\ pc[r] = "again"
  /\ IF Matches(job[r]) THEN Move(r, "write") ELSE Answer(r)

----------------------------------------------------------------------------
\* The catalogue.  Deleting cascades to what belongs to the row; a chosen
\* specialization is kept by its key.

Cascade_RowOnly(x) == {x}
Cascade(x) ==
  {x} \cup {c \in Stored(City) : GovernmentOf[c] = x}
      \cup {s \in Stored(Sub) : MainOf[s] = x}

Delete(gone) ==
  /\ rows' = [x \in Id |-> IF x \in gone THEN "deleted" ELSE rows[x]]
  /\ workGovernments' =
       {p \in workGovernments : p[1] \notin gone /\ p[2] \notin gone}
  /\ chosen' = {c \in chosen : c.worker \notin gone /\ c.sub \notin gone}
  /\ walk' = NoWalk

DeleteRow(r) ==
  LET x == job[r].row IN
  /\ pc[r] = "write"
  /\ job[r].op \in DeleteOps
  /\ rows[x] = "stored"
  /\ \A c \in chosen : c.main # x
  /\ Delete(Cascade(x))
  /\ End(r)
  /\ UNCHANGED <<days, unread>>

UpdateRow(r, op) ==
  /\ At(r, op, "write")
  /\ rows[job[r].row] = "stored"
  /\ End(r)
  /\ UNCHANGED <<rows, links, days, unread, walk>>

UpdateGovernment(r) == UpdateRow(r, "updateGovernment")

\* The fields it does not name are written back as they were found.
UpdateSpecialization(r) == UpdateRow(r, "updateSpecialization")

Store(x) ==
  /\ rows[x] = "unborn"
  /\ rows' = [rows EXCEPT ![x] = "stored"]
  /\ walk' = NoWalk

CreateSub(r) ==
  /\ At(r, "createSub", "write")
  /\ rows[MainOf[job[r].row]] = "stored"
  /\ Store(job[r].row)
  /\ End(r)
  /\ UNCHANGED <<links, days, unread>>

\* createGovernment and createSpecialization: one insert.
Create(x) == Store(x) /\ UNCHANGED <<links, days, pc, job, unread>>

----------------------------------------------------------------------------
\* What a profile picks.  Each is one statement: it all happens or none.

\* connect, which fails unless every id is there.
AddGovernments(r) ==
  LET j == job[r] IN
  /\ At(r, "addGovernments", "write")
  /\ rows[j.row] = "stored"
  /\ j.picks \subseteq Stored(Government)
  /\ workGovernments' = workGovernments \cup ({j.row} \X j.picks)
  /\ walk' = NoWalk
  /\ End(r)
  /\ UNCHANGED <<rows, chosen, days, unread>>

\* disconnect and set [].
RemoveGovernments(r) ==
  LET j == job[r] IN
  /\ pc[r] = "write"
  /\ j.op \in {"removeGovernments", "clearGovernments"}
  /\ rows[j.row] = "stored"
  /\ workGovernments' = {p \in workGovernments :
       p[1] # j.row \/ (j.op = "removeGovernments" /\ p[2] \notin j.picks)}
  /\ walk' = NoWalk
  /\ End(r)
  /\ UNCHANGED <<rows, chosen, days, unread>>

\* createMany with skipDuplicates: of a sub-specialization a worker has, or
\* the request names twice, the first row stands.  Nothing asks whether the
\* sub-specialization is one of the specialization named with it.
AddSpecializations(r) ==
  LET j == job[r]
      had == {c.sub : c \in {d \in chosen : d.worker = j.row}} IN
  /\ At(r, "addSpecializations", "write")
  /\ rows[j.row] = "stored"
  /\ \A p \in j.picks : rows[p.main] = "stored" /\ rows[p.sub] = "stored"
  /\ \E new \in SUBSET j.picks :
       /\ \A s \in {p.sub : p \in j.picks} \ had :
            Cardinality({p \in new : p.sub = s}) = 1
       /\ \A p \in new : p.sub \notin had
       /\ chosen' = chosen \cup
            {[worker |-> j.row, main |-> p.main, sub |-> p.sub] : p \in new}
  /\ walk' = NoWalk
  /\ End(r)
  /\ UNCHANGED <<rows, workGovernments, days, unread>>

RemovePairs(j) ==
  {c \in chosen : c.worker = j.row /\
     \/ j.op = "clearSpecializations"
     \/ j.op = "removeMains" /\ c.main \in j.picks
     \/ j.op = "removeSubs" /\ [main |-> c.main, sub |-> c.sub] \in j.picks}

\* deleteMany, by a profile id found before: no matter if it is gone.
RemoveSpecializations(r) ==
  LET j == job[r] IN
  /\ pc[r] = "write"
  /\ j.op \in {"clearSpecializations", "removeMains", "removeSubs"}
  /\ chosen' = chosen \ RemovePairs(j)
  /\ walk' = NoWalk
  /\ IF j.also = {} THEN End(r)
     ELSE /\ pc' = [pc EXCEPT ![r] = "find"]
          /\ job' = [job EXCEPT ![r] =
               [j EXCEPT !.op = "removeSubs", !.picks = j.also, !.also = {}]]
  /\ UNCHANGED <<rows, workGovernments, days, unread>>

----------------------------------------------------------------------------
\* createOrder: a look for the location, in module Places; the images, which
\* stay where they are uploaded whatever follows; and a transaction that inserts
\* the order and counts it for the specialization.

FindLocation(r) == At(r, "createOrder", "location") /\ Move(r, "write")

NoLocation(r) == At(r, "createOrder", "location") /\ Answer(r)

OrderInsert(r) ==
  /\ At(r, "createOrder", "write")
  /\ ({job[r].row} \cup job[r].picks) \subseteq Stored(Id)
  /\ Move(r, "count")

\* increamentOrderCount is not valid SQL: the transaction is rolled back.
OrderCount(r) == At(r, "createOrder", "count") /\ Answer(r)

----------------------------------------------------------------------------
\* replaceWorkingHours: reads the days, looks for orders on those it would
\* remove, replaces the row.  The orders are looked for without the lock that
\* specifyTimeRange takes, and the row is not locked either.

ReadHours(r) ==
  LET j == job[r] IN
  /\ pc[r] = "hours"
  /\ pc' = [pc EXCEPT ![r] = IF hours[j.row] \subseteq j.picks THEN "replace"
                             ELSE "orders"]
  /\ job' = [job EXCEPT ![r].also = hours[j.row]]
  /\ overtaken' = overtaken \ {r}
  /\ UNCHANGED <<rows, links, hours, active, unread, walk>>

\* The days newly opened, taken for those closed.
Removed_Added(j) == j.picks \ j.also
Removed(j) == j.also \ j.picks

\* 409 when there are some.
ReadOrders(r) ==
  /\ pc[r] = "orders"
  /\ IF Removed(job[r]) \cap active[job[r].row] = {} THEN Move(r, "replace")
     ELSE Answer(r)

ReplaceHours(r) ==
  LET j == job[r]
      w == j.row IN
  /\ pc[r] = "replace"
  /\ hours' = [hours EXCEPT ![w] = j.picks]
  /\ overtaken' = (overtaken \cup
       {q \in Request : pc[q] \in {"orders", "replace"} /\ job[q].row = w}) \ {r}
  /\ End(r)
  /\ UNCHANGED <<rows, links, active, unread, walk>>

----------------------------------------------------------------------------
\* An error or a lost connection: nothing of the statement stays.

Fail(r) == pc[r] # "idle" /\ Answer(r)

----------------------------------------------------------------------------
\* handlePagination

Least(a, b) == IF a < b THEN a ELSE b
Most(a, b) == IF a > b THEN a ELSE b
PagesOf(total, limit) == (total + limit - 1) \div limit

\* Pages counted from zero.
HandlePagination_FromZero(total, asked, limit) ==
  LET page == Least(Most(asked, 1), Most(1, PagesOf(total, limit)))
  IN [skip |-> page * limit, take |-> limit, hasNext |-> page * limit < total]
HandlePagination(total, asked, limit) ==
  LET page == Least(Most(asked, 1), Most(1, PagesOf(total, limit)))
  IN [skip |-> (page - 1) * limit, take |-> limit, hasNext |-> page * limit < total]

\* OFFSET and LIMIT promise so many rows, and no more: no list is sorted by a
\* field without ties (orders and locations by their creation at most, workers
\* by ratings and counts they share), most are by nothing, so that each query
\* may put the rows in an order of its own.
Cut(S, skip, take) ==
  {P \in SUBSET S : Cardinality(P) = Least(take, Most(0, Cardinality(S) - skip))}

\* The answers a list may give, by that order:

\* findMany, findCities, findSubSpecializations: a count, then a page.
PagedList(S, asked, limit) ==
  LET p == HandlePagination(Cardinality(S), asked, limit)
  IN [page : Cut(S, p.skip, p.take), hasNext : {p.hasNext}]

\* findWorkGovernments and findSpecializations: whatever the page, all of it.
WholeList(S, asked, limit) ==
  [page : {S}, hasNext : {HandlePagination(Cardinality(S), asked, limit).hasNext}]

\* searchWorkers: one row more than the page holds tells that there are more,
\* and the page is cut from the rows as they came.
SearchPage(S, asked, limit) ==
  UNION {[page : Cut(fetched, 0, limit), hasNext : {Cardinality(fetched) > limit}] :
           fetched \in Cut(S, (asked - 1) * limit, limit + 1)}

\* getConversations and getUnreadSummary take page and limit from matchedData,
\* which knows nothing of what zod has validated: the first page is answered,
\* whichever was asked for.  The summary drops the conversations that are read
\* from it, and what it says of further pages.
FirstPage(S) == PagedList(S, 1, DefaultLimit)

\* messageCounter is beyond the user's lastReadMessageNumber.
IsUnread(e) == e \in unread

Summary(S) ==
  [page : {{e \in first.page : IsUnread(e)} : first \in FirstPage(S)},
   hasNext : {FALSE}]

----------------------------------------------------------------------------
\* The lists

Specializations == Stored(Specialization)

\* A client's, or a worker's.
Orders == Stored(Entry)

CitiesOf(g) == {c \in Stored(City) : GovernmentOf[c] = g}

SubsOf(m) == {s \in Stored(Sub) : MainOf[s] = m}

GovernmentsOf(w) == {g \in Government : <<w, g>> \in workGovernments}

ChosenBy(w) == {c \in chosen : c.worker = w}

MainsOf(w) == {c.main : c \in ChosenBy(w)}

\* findSpecializationsWithSubSpecializations: every sub-specialization of the
\* specializations named, chosen by the worker or not.
TreeOf(w) == UNION {SubsOf(m) : m \in MainsOf(w)}

\* The specialization the client names is the one the worker named, or the
\* one his sub-specialization belongs to.
WorkersOfMain(m) ==
  {w \in Stored(Profile) :
     \E c \in ChosenBy(w) : c.main = m \/ MainOf[c.sub] = m}

WorkersOfSub(s) ==
  {w \in Stored(Profile) : \E c \in ChosenBy(w) : c.sub = s}

Serving(g) ==
  {w \in Stored(Profile) : g = NoRow \/ <<w, g>> \in workGovernments}

\* Of the filters on what else a worker is (online, taking urgent jobs, near,
\* active, not the client himself) any outcome is a set Profile can stand for.
Searched(q) ==
  (IF q.sub # NoRow THEN WorkersOfSub(q.sub) ELSE WorkersOfMain(q.main))
    \cap Serving(q.government)

Rows(list) ==
  LET of == list[2] IN
  CASE list[1] = "governments" -> Stored(Government)
    [] list[1] = "specializations" -> Specializations
    [] list[1] = "cities" -> CitiesOf(of)
    [] list[1] = "subs" -> SubsOf(of)
    [] list[1] = "workGovernments" -> GovernmentsOf(of)
    [] list[1] = "chosen" -> MainsOf(of)
    [] list[1] = "tree" -> TreeOf(of)
    [] list[1] = "orders" -> Orders
    [] list[1] \in {"locations", "conversations"} -> Stored(Entry)
    [] list[1] = "unread" -> unread
    [] OTHER -> Searched(of)

\* The cities of a government, the subs of a specialization: 404 without it.
Found(list) == list[1] \in {"cities", "subs"} => rows[list[2]] = "stored"

Page(list, asked, limit) ==
  CASE list[1] \in {"governments", "specializations", "cities", "subs",
                    "orders", "locations"} -> PagedList(Rows(list), asked, limit)
    [] list[1] = "conversations" -> FirstPage(Rows(list))
    [] list[1] = "unread" -> Summary(Stored(Entry))
    [] list[1] \in {"workGovernments", "chosen"} ->
         WholeList(Rows(list), asked, limit)
    [] list[1] = "tree" -> [page : {Rows(list)}, hasNext : {FALSE}]
    [] OTHER -> SearchPage(Rows(list), asked, limit)

----------------------------------------------------------------------------
\* A reader goes on while the answers say that there is more.  He gives a
\* list up when the tables change under him: a page is what its own count and
\* query saw, and nothing is promised of two pages of different states.

Open(list, limit) ==
  /\ walk = NoWalk
  /\ walk' = [list |-> list, limit |-> limit, page |-> 1, seen |-> {},
              given |-> 0, done |-> FALSE]
  /\ UNCHANGED <<rows, links, days, pc, job, unread>>

\* getWorkGovernments takes the filter for governments, which is empty, for
\* that of the profile: the answer is some profile's list.
Answering(list) ==
  IF list[1] # "workGovernments" \/ Stored(Profile) = {} THEN {list}
  ELSE {<<"workGovernments", w>> : w \in Stored(Profile)}

Turn ==
  /\ walk # NoWalk
  /\ ~walk.done
  /\ walk.page <= MaxPage
  /\ Found(walk.list)
  /\ \E list \in Answering(walk.list) :
     \E answer \in Page(list, walk.page, walk.limit) :
       walk' = [walk EXCEPT !.seen = @ \cup answer.page,
                            !.given = @ + Cardinality(answer.page),
                            !.page = IF answer.hasNext THEN @ + 1 ELSE @,
                            !.done = ~answer.hasNext]
  /\ UNCHANGED <<rows, links, days, pc, job, unread>>

\* The last page, or an error, ends the reading.
Close ==
  /\ walk # NoWalk
  /\ walk.done \/ ~Found(walk.list)
  /\ walk' = NoWalk
  /\ UNCHANGED <<rows, links, days, pc, job, unread>>

----------------------------------------------------------------------------
\* External: cities come from seeds, profiles from registrations, and orders
\* bind a worker to a day, or release him, whatever his working hours.

SeedCity(c) == rows[GovernmentOf[c]] = "stored" /\ Create(c)

CreateProfile(w) == Create(w)

\* A message arrives in a conversation, or its user reads it.
Message(e) ==
  /\ rows[e] = "stored"
  /\ unread' \in {unread \cup {e}, unread \ {e}}
  /\ walk' = NoWalk
  /\ UNCHANGED <<rows, links, days, pc, job>>

DeleteProfile(w) ==
  /\ rows[w] = "stored"
  /\ active[w] = {}
  /\ Delete({w})
  /\ UNCHANGED <<days, pc, job, unread>>

Bind(w, d) ==
  /\ rows[w] = "stored"
  /\ active' = [active EXCEPT ![w] = @ \cup {d}]
  /\ overtaken' = overtaken \cup
       {q \in Request : pc[q] = "replace" /\ job[q].row = w /\ d \in Removed(job[q])}
  /\ UNCHANGED <<rows, links, hours, pc, job, unread, walk>>

Release(w, d) ==
  /\ active' = [active EXCEPT ![w] = @ \ {d}]
  /\ UNCHANGED <<rows, links, hours, overtaken, pc, job, unread, walk>>

----------------------------------------------------------------------------
\* The specification

Call(r) ==
  \/ \E w \in Profile :
       \/ \E op \in GovernmentOps, picks \in Picks(Government) :
            AskGovernments(r, w, op, picks)
       \/ \E picks \in Picks(Pair) :
            AskSpecializations(r, w, "addSpecializations", picks)
       \/ \E op \in ClearOps : AskClear(r, w, op)
       \/ \E mains \in SUBSET Specialization, pairs \in Picks(Pair) \cup {{}} :
            AskRemove(r, w, mains, pairs)
       \/ \E picks \in Picks(Day) : AskHours(r, w, picks)
  \/ \E g \in Government : AskDelete(r, g, "deleteGovernment", g)
  \/ \E m \in Specialization :
       \/ AskDelete(r, m, "deleteSpecialization", m)
       \/ \E s \in Sub : AskDelete(r, s, "deleteSub", m)
  \/ \E s \in Sub : AskCreateSub(r, s)
  \/ \E g \in Government : AskUpdate(r, g, "updateGovernment")
  \/ \E m \in Specialization : AskUpdate(r, m, "updateSpecialization")
  \/ \E w \in Profile, s \in Sub : AskOrder(r, w, s)

Proceed(r) ==
  \/ FindRow(r) \/ FindNone(r) \/ FindAgain(r)
  \/ DeleteRow(r) \/ CreateSub(r)
  \/ UpdateGovernment(r) \/ UpdateSpecialization(r)
  \/ AddGovernments(r) \/ RemoveGovernments(r)
  \/ AddSpecializations(r) \/ RemoveSpecializations(r)
  \/ FindLocation(r) \/ NoLocation(r) \/ OrderInsert(r) \/ OrderCount(r)
  \/ ReadHours(r) \/ ReadOrders(r) \/ ReplaceHours(r)
  \/ Fail(r)

External ==
  \/ \E c \in City : SeedCity(c)
  \/ \E w \in Profile : CreateProfile(w) \/ DeleteProfile(w)
  \/ \E e \in Entry : Create(e) \/ Message(e)
  \/ \E w \in Profile, d \in Day : Bind(w, d) \/ Release(w, d)

Next ==
  \/ \E r \in Request : Call(r) \/ Proceed(r)
  \/ \E x \in Government \cup Specialization : Create(x)
  \/ \E list \in Listing, limit \in Limit : Open(list, limit)
  \/ Turn
  \/ Close
  \/ External

Spec == Init /\ [][Next]_vars

----------------------------------------------------------------------------
\* Properties

\* The lists whose pages are parts of them.
CutLists == {"governments", "specializations", "cities", "subs", "orders",
             "locations", "workers"}

\* Whoever is told that a list has no more pages was shown as many rows as it
\* has, a row shown twice counted twice: none is missing but for another that
\* the queries, each in an order of its own, put on two pages.  When one page
\* was all, or every page shows everything, he has seen every row; and nobody
\* is shown a row that is not of the list.  Of the governments of a worker he
\* has seen those of at least one worker, and of workers only; and the unread
\* summary promises it only of conversations that fill one page
\* (handlePagination, searchWorkers and the lists that use them).
PagesAddUp ==
  walk # NoWalk /\ walk.done =>
    /\ walk.seen \subseteq UNION {Rows(list) : list \in Answering(walk.list)}
    /\ walk.list[1] \in CutLists => walk.given = Cardinality(Rows(walk.list))
    /\ walk.page = 1 \/ walk.list[1] \notin CutLists =>
         \/ \E list \in Answering(walk.list) : Rows(list) \subseteq walk.seen
         \/ /\ walk.list[1] = "unread"
            /\ Cardinality(Stored(Entry)) > DefaultLimit

\* A replacement of the working hours closes no day on which an order binds the
\* worker, unless the order, or another replacement, came between what this one
\* had read and what it writes.
BoundDaysStayOpen ==
  [][\A r \in Request :
       pc[r] = "replace" /\ pc'[r] = "idle" /\ r \notin overtaken =>
         LET w == job[r].row IN (hours[w] \ hours'[w]) \cap active[w] = {}]_vars
=============================================================================
