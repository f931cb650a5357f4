--------------------------- MODULE Accounts_proofs ---------------------------
(***************************************************************************)
(* Theorems about Accounts, for any number of users, calls and profiles.   *)
(***************************************************************************)
EXTENDS Accounts, SequenceTheorems, TLAPS

\* The guards a state passes are guards its user would have passed.
Witnessed(p, s) ==
  /\ s.role = "USER"
  /\ s.status = "ACTIVE" => <<p, "active">> \in was
  /\ s.worker # 0 => <<p, "notWorker">> \in was
  /\ s.worker # 0 /\ s.verification = "APPROVED" => <<p, "worker">> \in was
  /\ s.client # 0 => <<p, "client">> \in was

WasInv ==
  /\ Phone \X {"notClient"} \subseteq was
  /\ PassedNow \subseteq was
  /\ \A p \in Phone : cache[p] # NoState => Witnessed(p, cache[p])

Registered(p) == user[p] # NoRow
Stored(p, id) == <<p, id>> \in image

\* What a registration leaves of its worker, unless the profile is deleted.
Linked(p) ==
  /\ worker[p].id >= 1
  /\ IdOf(worker[p]) = 1 => NothingLost(worker[p])
Recorded(p) ==
  /\ Linked(p)
  /\ Registered(p) /\ user[p].picture
  /\ IdOf(worker[p]) = 1 => worker[p].verification # "NONE"

\* What is left of each plan, and what is true of the call r by then.
Reading(r) ==
  LET j == job[r]
      p == j.phone IN
  /\ j.op \in {"access", "refresh"}
  /\ Registered(p)
  /\ Witnessed(p, j.state)
  /\ \/ /\ j.todo \in {StatePlan,
             <<"user", "worker", "verification", "client", "set", "judge">>,
             <<"worker", "verification", "client", "set", "judge">>}
        /\ j.state.verification = "NONE"
     \/ j.todo \in {<<"verification", "client", "set", "judge">>,
          <<"client", "set", "judge">>, <<"set", "judge">>, <<"judge">>}

\* What is left of the plans that change a worker's links and nothing else.
LinkPlan == {<<"addGovernments">>, <<"linkSpecializations">>,
             <<"unlinkGovernments">>, <<"unlinkSpecializations">>,
             <<"unlinkSpecializations", "unlinkSpecializations">>}

Serving(r) ==
  LET j == job[r]
      p == j.phone IN
  /\ j.op = "serve"
  /\ Registered(p)
  /\ \/ j.todo \in {<<>>, UpdateUser, <<"createClient">>, <<"deleteClient">>,
                    <<"deleteWorker">>, CreateWorkerProfile}
     \/ j.todo \in LinkPlan
     \/ j.todo = <<"setPicture">> /\ Stored(p, "profileMain")
     \/ /\ j.todo = Tail(CreateWorkerProfile)
        /\ Stored(p, "nationalID")
     \/ /\ j.todo \in {
             <<"createWorker", "linkGovernments", "linkSpecializations", "verify">>,
             <<"linkGovernments", "linkSpecializations", "verify">>,
             <<"linkSpecializations", "verify">>, <<"verify">>}
        /\ Stored(p, "nationalID") /\ Stored(p, "selfiWithID")

RegisteringClient(r) ==
  LET j == job[r]
      p == j.phone IN
  /\ j.op = "registerClient"
  /\ \/ j.todo \in {<<"insertClient", "answer">>,
          <<"insertClient", "uploadPicture", "setPicture", "answer">>, <<>>}
     \/ /\ j.todo \in {<<"uploadPicture", "setPicture", "answer">>, <<"answer">>}
        /\ Registered(p) /\ client[p].id >= 1
     \/ /\ j.todo = <<"setPicture", "answer">>
        /\ Registered(p) /\ client[p].id >= 1 /\ Stored(p, "profileMain")

RegisteringWorker(r) ==
  LET j == job[r]
      p == j.phone IN
  /\ j.op = "registerWorker"
  /\ \/ j.todo = <<>>
     \/ j.todo = <<"insertWorker", "uploadPicture", "uploadId", "uploadSelfie",
                   "record", "answer">>
     \/ /\ Registered(p) /\ Linked(p) /\ j.state.worker = 1
        /\ \/ j.todo = <<"uploadPicture", "uploadId", "uploadSelfie", "record", "answer">>
           \/ /\ j.todo = <<"uploadId", "uploadSelfie", "record", "answer">>
              /\ Stored(p, "profileMain")
           \/ /\ j.todo = <<"uploadSelfie", "record", "answer">>
              /\ Stored(p, "profileMain") /\ Stored(p, "nationalID")
           \/ /\ j.todo = <<"record", "answer">>
              /\ \A id \in PublicId : Stored(p, id)
           \/ j.todo = <<"answer">> /\ Recorded(p)

CallInv(r) ==
  job[r] # NoJob =>
    /\ \A g \in job[r].need : <<job[r].phone, g>> \in was
    /\ Reading(r) \/ Serving(r) \/ RegisteringClient(r) \/ RegisteringWorker(r)

\* Call r has inserted the user and will answer.
Inserted(r) ==
  /\ job[r] # NoJob
  /\ job[r].op \in Registration
  /\ job[r].todo # <<>> /\ ~Doing(r, "insertClient") /\ ~Doing(r, "insertWorker")

DoneInv ==
  /\ \A d \in done : /\ Registered(d.phone)
                     /\ d.kind = "registerClient" => client[d.phone].id >= 1
                     /\ d.kind = "registerWorker" => Recorded(d.phone)
  /\ \A d, e \in done : d.phone = e.phone => d = e
  /\ \A r \in Request, d \in done : Inserted(r) => job[r].phone # d.phone
  /\ \A q, r \in Request :
       Inserted(q) /\ Inserted(r) /\ job[q].phone = job[r].phone => q = r

Inv ==
  /\ TypeOK /\ WasInv /\ ImagesOfUsers
  /\ \A r \in Request : CallInv(r)
  /\ DoneInv

----------------------------------------------------------------------------
\* Plans are sequences of stages, and so is what is left of one.

LEMMA PlansTyped ==
  /\ StatePlan \in Seq(Stage) /\ <<"judge">> \in Seq(Stage)
  /\ \A h : HandlerPlan(h) \in Seq(Stage)
  /\ \A kind \in Registration, picture \in BOOLEAN :
       RegistrationPlan(kind, picture) \in Seq(Stage)
<1>1. StatePlan \in Seq(Stage) /\ <<"judge">> \in Seq(Stage)
  BY DEF StatePlan, Stage
<1>2. /\ UpdateUser \in Seq(Stage) /\ CreateWorkerProfile \in Seq(Stage)
      /\ <<"createClient">> \in Seq(Stage) /\ <<"deleteClient">> \in Seq(Stage)
      /\ <<"deleteWorker">> \in Seq(Stage) /\ <<>> \in Seq(Stage)
  BY DEF UpdateUser, CreateWorkerProfile, Stage
<1>6. /\ AddWorkerGovernments \in Seq(Stage)
      /\ DeleteWorkerGovernments \in Seq(Stage)
      /\ AddWorkerSpecializations \in Seq(Stage)
      /\ DeleteWorkerSpecializations \in Seq(Stage)
  BY DEF AddWorkerGovernments, DeleteWorkerGovernments, AddWorkerSpecializations,
         DeleteWorkerSpecializations, Stage
<1>3. \A h : HandlerPlan(h) \in Seq(Stage)
  BY <1>2, <1>6 DEF HandlerPlan, CreateClientProfile, DeleteClientProfile,
            DeleteWorkerProfile
<1>4. /\ <<"insertWorker", "uploadPicture", "uploadId", "uploadSelfie", "record",
           "answer">> \in Seq(Stage)
      /\ <<"insertClient", "uploadPicture", "setPicture", "answer">> \in Seq(Stage)
      /\ <<"insertClient", "answer">> \in Seq(Stage)
  BY DEF Stage
<1>5. \A kind \in Registration, picture \in BOOLEAN :
        RegistrationPlan(kind, picture) \in Seq(Stage)
  BY <1>4 DEF RegistrationPlan, Registration
<1> QED BY <1>1, <1>3, <1>5

\* The other calls do not notice a step of call r.
OthersStay(r) == \A q \in Request \ {r} : job'[q] = job[q]

\* One stage is done, and nothing else of the call has changed.
LEMMA GoOnJob ==
  ASSUME TypeOK, NEW r \in Request, NEW stage, Doing(r, stage), GoOn(r)
  PROVE  /\ job' \in [Request -> Job \cup {NoJob}]
         /\ job'[r] \in Job /\ job'[r] # NoJob
         /\ job'[r].op = job[r].op /\ job'[r].phone = job[r].phone
         /\ job'[r].state = job[r].state /\ job'[r].need = job[r].need
         /\ job'[r].todo = Tail(job[r].todo)
         /\ OthersStay(r)
<1>1. job[r] \in Job /\ job[r].todo \in Seq(Stage) /\ job[r].todo # <<>>
  BY DEF TypeOK, Doing, Job
<1>2. Tail(job[r].todo) \in Seq(Stage)
  BY <1>1
<1>3. job'[r] = [job[r] EXCEPT !.todo = Tail(job[r].todo)]
  BY DEF TypeOK, GoOn
<1>4. job'[r] \in Job
  BY <1>1, <1>2, <1>3 DEF Job
<1>5. job' \in [Request -> Job \cup {NoJob}]
  BY <1>4 DEF TypeOK, GoOn
<1> QED BY <1>1, <1>3, <1>4, <1>5, AccountsAssumption DEF GoOn, OthersStay, TypeOK, Job

\* So it is with a read, which leaves what it found in one field of the state.
LEMMA FoundJob ==
  ASSUME TypeOK, NEW r \in Request, NEW stage, Doing(r, stage),
         NEW field \in {"status", "worker", "verification", "client"},
         NEW v, Found(r, field, v), [job[r].state EXCEPT ![field] = v] \in UserState
  PROVE  /\ job' \in [Request -> Job \cup {NoJob}]
         /\ job'[r] \in Job /\ job'[r] # NoJob
         /\ job'[r].op = job[r].op /\ job'[r].phone = job[r].phone
         /\ job'[r].state = [job[r].state EXCEPT ![field] = v]
         /\ job'[r].need = job[r].need
         /\ job'[r].todo = Tail(job[r].todo)
         /\ OthersStay(r)
<1>1. job[r] \in Job /\ job[r].todo \in Seq(Stage) /\ job[r].todo # <<>>
  BY DEF TypeOK, Doing, Job
<1>2. Tail(job[r].todo) \in Seq(Stage)
  BY <1>1
<1>3. job'[r] = [job[r] EXCEPT !.state = [job[r].state EXCEPT ![field] = v],
                               !.todo = Tail(job[r].todo)]
  BY <1>1 DEF TypeOK, Found, Job
<1>4. job'[r] \in Job
  BY <1>1, <1>2, <1>3 DEF Job
<1>5. job' \in [Request -> Job \cup {NoJob}]
  BY <1>4 DEF TypeOK, Found
<1> QED BY <1>1, <1>3, <1>4, <1>5, AccountsAssumption DEF Found, OthersStay, TypeOK, Job

LEMMA QuitJob ==
  ASSUME TypeOK, NEW r \in Request, Quit(r)
  PROVE  /\ job' \in [Request -> Job \cup {NoJob}]
         /\ job'[r] = NoJob /\ OthersStay(r)
BY DEF TypeOK, Quit, OthersStay

----------------------------------------------------------------------------
\* What no step takes back

Grow ==
  /\ was \subseteq was' /\ image \subseteq image'
  /\ \A p \in Phone : Registered(p) =>
       /\ Registered(p)'
       /\ user[p].picture => user'[p].picture
       /\ client[p].id >= 1 => client'[p].id >= 1
       /\ Linked(p) => Linked(p)'
       /\ Recorded(p) => Recorded(p)'

LEMMA SameTables ==
  ASSUME UNCHANGED tables, image \subseteq image', was \subseteq was'
  PROVE  Grow
BY DEF tables, Grow, Registered, Linked, Recorded, IdOf

\* What is true of a call stays true while others move.
LEMMA CallStays ==
  ASSUME TypeOK, Grow, NEW q \in Request, CallInv(q), job'[q] = job[q]
  PROVE  CallInv(q)'
<1> SUFFICES ASSUME job[q] # NoJob PROVE CallInv(q)'
  BY DEF CallInv
<1> DEFINE p == job[q].phone
<1>1. job[q].phone \in Phone
  BY DEF TypeOK, Job
<1>2. \A g \in job[q].need : <<p, g>> \in was'
  BY DEF CallInv, Grow
<1>3. \A id : Stored(p, id) => Stored(p, id)'
  BY DEF Grow, Stored
<1>4. CASE Reading(q)
  <2>1. Witnessed(p, job[q].state)' /\ Registered(p)'
    BY <1>1, <1>4 DEF Reading, Witnessed, Grow
  <2>2. Reading(q)'
    BY <1>4, <2>1 DEF Reading
  <2> QED BY <1>2, <2>2 DEF CallInv
<1>5. CASE Serving(q)
  <2>1. Serving(q)'
    BY <1>1, <1>3, <1>5 DEF Serving, Grow
  <2> QED BY <1>2, <2>1 DEF CallInv
<1>6. CASE RegisteringClient(q)
  <2>1. RegisteringClient(q)'
    BY <1>1, <1>3, <1>6 DEF RegisteringClient, Grow
  <2> QED BY <1>2, <2>1 DEF CallInv
<1>7. CASE RegisteringWorker(q)
  <2>1. Registered(p) /\ Linked(p) => Registered(p)' /\ Linked(p)'
    BY <1>1 DEF Grow
  <2>2. Registered(p) /\ Recorded(p) => Recorded(p)'
    BY <1>1 DEF Grow
  <2>3. RegisteringWorker(q)'
    BY <1>3, <1>7, <2>1, <2>2 DEF RegisteringWorker
  <2> QED BY <1>2, <2>3 DEF CallInv
<1> QED BY <1>4, <1>5, <1>6, <1>7 DEF CallInv

\* A step that answers and inserts nothing.
LEMMA DoneStays ==
  ASSUME Inv, Grow, NEW r \in Request, OthersStay(r), done' = done,
         Inserted(r)' => Inserted(r) /\ job'[r].phone = job[r].phone
  PROVE  DoneInv'
<1>1. \A q \in Request : Inserted(q)' => Inserted(q) /\ job'[q].phone = job[q].phone
  <2> SUFFICES ASSUME NEW q \in Request \ {r}
               PROVE  Inserted(q)' => Inserted(q) /\ job'[q].phone = job[q].phone
    OBVIOUS
  <2> QED BY DEF OthersStay, Inserted, Doing
<1>2. \A d \in done : d.phone \in Phone
  BY DEF Inv, TypeOK
<1>3. \A d \in done : /\ Registered(d.phone)'
                      /\ d.kind = "registerClient" => client'[d.phone].id >= 1
                      /\ d.kind = "registerWorker" => Recorded(d.phone)'
  BY <1>2 DEF Inv, DoneInv, Grow
<1> QED BY <1>1, <1>3 DEF Inv, DoneInv

LEMMA Together ==
  ASSUME Inv, Remember, Grow, NEW r \in Request, OthersStay(r), TypeOK',
         \A p \in Phone : cache'[p] # NoState => Witnessed(p, cache[p])',
         ImagesOfUsers', CallInv(r)', DoneInv'
  PROVE  Inv'
<1>1. WasInv'
  BY DEF Inv, WasInv, Remember, Grow
<1>2. \A q \in Request : CallInv(q)'
  BY CallStays DEF Inv, OthersStay
<1> QED BY <1>1, <1>2 DEF Inv

LEMMA CacheStays ==
  ASSUME Inv, was \subseteq was', cache' = cache
  PROVE  \A p \in Phone : cache'[p] # NoState => Witnessed(p, cache[p])'
BY DEF Inv, WasInv, Witnessed

LEMMA WasTyped ==
  ASSUME Inv, Remember
  PROVE  was \subseteq was' /\ was' \subseteq Phone \X StateGuard
BY DEF Inv, TypeOK, Remember, PassedNow

----------------------------------------------------------------------------
\* Steps that change nothing but the call: its start, its reads, its end

LEMMA QuietStep ==
  ASSUME Inv, Remember, NEW r \in Request, OthersStay(r),
         UNCHANGED <<tables, cache, image, done>>,
         job' \in [Request -> Job \cup {NoJob}], CallInv(r)',
         Inserted(r)' => Inserted(r) /\ job'[r].phone = job[r].phone
  PROVE  Inv'
<1>1. Grow
  BY WasTyped, SameTables
<1>2. TypeOK'
  BY WasTyped DEF Inv, TypeOK, tables
<1>3. ImagesOfUsers'
  BY DEF Inv, ImagesOfUsers, tables
<1>4. DoneInv'
  BY <1>1, DoneStays
<1>5. \A p \in Phone : cache'[p] # NoState => Witnessed(p, cache[p])'
  BY CacheStays, WasTyped
<1> QED BY <1>1, <1>2, <1>3, <1>4, <1>5, Together

LEMMA BeginStep ==
  ASSUME Inv, Remember, NEW r \in Request, NEW p \in Phone, NEW op, NEW todo,
         Begin(r, op, p, todo),
         \/ op \in {"access", "refresh"} /\ todo = StatePlan /\ Registered(p)
         \/ \E picture \in BOOLEAN :
              op \in Registration /\ todo = RegistrationPlan(op, picture)
  PROVE  Inv'
<1>1. todo \in Seq(Stage)
  BY PlansTyped
<1>2. Blank \in UserState
  BY AccountsAssumption DEF Blank, UserState, Verification
<1>3. /\ job'[r] = [op |-> op, phone |-> p, state |-> Blank, need |-> {},
                    todo |-> todo]
      /\ job'[r] \in Job /\ job' \in [Request -> Job \cup {NoJob}]
      /\ OthersStay(r)
  BY <1>1, <1>2 DEF Begin, Inv, TypeOK, Job, Registration, OthersStay
<1>4. ~Inserted(r)'
  BY <1>3 DEF Inserted, Doing, RegistrationPlan, Registration
<1>5. CallInv(r)'
  <2>1. CASE op \in {"access", "refresh"} /\ todo = StatePlan /\ Registered(p)
    <3>1. Witnessed(p, Blank)' /\ Registered(p)'
      BY <2>1 DEF Witnessed, Blank, Registered, Begin, tables
    <3>2. Reading(r)'
      BY <1>3, <2>1, <3>1 DEF Reading, Blank
    <3> QED BY <1>3, <3>2 DEF CallInv
  <2>2. CASE op = "registerClient" /\ \E picture \in BOOLEAN : todo = RegistrationPlan(op, picture)
    <3>1. RegisteringClient(r)'
      BY <1>3, <2>2 DEF RegisteringClient, RegistrationPlan
    <3> QED BY <1>3, <3>1 DEF CallInv
  <2>3. CASE op = "registerWorker" /\ \E picture \in BOOLEAN : todo = RegistrationPlan(op, picture)
    <3>1. RegisteringWorker(r)'
      BY <1>3, <2>3 DEF RegisteringWorker, RegistrationPlan
    <3> QED BY <1>3, <3>1 DEF CallInv
  <2> QED BY <2>1, <2>2, <2>3 DEF Registration
<1> QED BY <1>3, <1>4, <1>5, QuietStep DEF Begin

LEMMA CallStep ==
  ASSUME Inv, Remember, NEW r \in Request, Call(r)
  PROVE  Inv'
<1> PICK p \in Phone : \/ AskAccess(r, p)
                       \/ AskRefresh(r, p)
                       \/ \E picture \in BOOLEAN : RegisterClient(r, p, picture)
                       \/ RegisterWorker(r, p)
  BY DEF Call
<1>1. CASE AskAccess(r, p) \/ AskRefresh(r, p)
  BY <1>1, BeginStep DEF AskAccess, AskRefresh, Registered
<1>2. CASE \E picture \in BOOLEAN : RegisterClient(r, p, picture)
  BY <1>2, BeginStep DEF RegisterClient, Registration
<1>3. CASE RegisterWorker(r, p)
  BY <1>3, BeginStep DEF RegisterWorker, Registration
<1> QED BY <1>1, <1>2, <1>3

LEMMA QuitStep ==
  ASSUME Inv, Remember, NEW r \in Request, Quit(r),
         UNCHANGED <<tables, cache, image, done>>
  PROVE  Inv'
<1>1. job'[r] = NoJob /\ OthersStay(r) /\ job' \in [Request -> Job \cup {NoJob}]
  BY QuitJob DEF Inv
<1>2. CallInv(r)' /\ ~Inserted(r)'
  BY <1>1 DEF CallInv, Inserted
<1> QED BY <1>1, <1>2, QuietStep

\* A stage that only a call reading its user's state can be at.
LEMMA AtRead ==
  ASSUME Inv, NEW r \in Request,
         NEW stage \in {"get", "user", "worker", "verification", "client", "set",
                        "judge"},
         Doing(r, stage)
  PROVE  /\ Reading(r) /\ job[r].phone \in Phone /\ job[r].state \in UserState
         /\ \A g \in job[r].need : <<job[r].phone, g>> \in was
         /\ ~Inserted(r)
<1>1. /\ CallInv(r) /\ job[r] # NoJob /\ Head(job[r].todo) = stage
      /\ job[r].todo # <<>>
  BY DEF Inv, Doing
<1>2. ~Serving(r)
  BY <1>1 DEF Serving, UpdateUser, CreateWorkerProfile, LinkPlan
<1>3. ~RegisteringClient(r)
  BY <1>1 DEF RegisteringClient
<1>4. ~RegisteringWorker(r)
  BY <1>1 DEF RegisteringWorker
<1>5. Reading(r)
  BY <1>1, <1>2, <1>3, <1>4 DEF CallInv
<1> QED BY <1>1, <1>5 DEF Reading, CallInv, Inserted, Registration, Inv, TypeOK, Job

\* Whatever is true of a user now, somebody has seen.
LEMMA NowSeen ==
  ASSUME Inv, NEW p \in Phone, Registered(p), NEW g \in StateGuard,
         Passes(g, Now(p))
  PROVE  <<p, g>> \in was
BY DEF Inv, WasInv, PassedNow, Registered

\* One more read done: what it found is witnessed, now or by who cached it.
LEMMA ReadOn ==
  ASSUME Inv, NEW r \in Request, Remember, Reading(r), UNCHANGED tables,
         job[r] # NoJob, job'[r] # NoJob,
         job'[r].op = job[r].op, job'[r].phone = job[r].phone,
         job'[r].need = job[r].need,
         Witnessed(job[r].phone, job'[r].state),
         \/ /\ job'[r].todo \in
                {<<"user", "worker", "verification", "client", "set", "judge">>,
                 <<"worker", "verification", "client", "set", "judge">>}
            /\ job'[r].state.verification = "NONE"
         \/ job'[r].todo \in {<<"verification", "client", "set", "judge">>,
              <<"client", "set", "judge">>, <<"set", "judge">>, <<"judge">>}
  PROVE  CallInv(r)' /\ ~Inserted(r)'
<1>1. was \subseteq was'
  BY WasTyped
<1>2. Witnessed(job[r].phone, job[r].state)'
  BY <1>1 DEF Witnessed
<1>3. Registered(job[r].phone)'
  BY DEF Reading, Registered, tables
<1>4. Reading(r)'
  BY <1>2, <1>3 DEF Reading
<1>5. \A g \in job'[r].need : <<job'[r].phone, g>> \in was'
  BY <1>1 DEF Inv, CallInv
<1>6. ~Inserted(r)'
  BY <1>4 DEF Reading, Inserted, Registration
<1> QED BY <1>4, <1>5, <1>6 DEF CallInv

\* What is left when a stage of the reading is at its head.
LEMMA ReadLeft ==
  ASSUME NEW r \in Request, Reading(r)
  PROVE  LET todo == job[r].todo
             plain == job[r].state.verification = "NONE" IN
         /\ Doing(r, "get") => plain /\ Tail(todo) =
              <<"user", "worker", "verification", "client", "set", "judge">>
         /\ Doing(r, "user") => plain /\ Tail(todo) =
              <<"worker", "verification", "client", "set", "judge">>
         /\ Doing(r, "worker") => plain /\ Tail(todo) =
              <<"verification", "client", "set", "judge">>
         /\ Doing(r, "verification") => Tail(todo) = <<"client", "set", "judge">>
         /\ Doing(r, "client") => Tail(todo) = <<"set", "judge">>
         /\ Doing(r, "set") => Tail(todo) = <<"judge">>
<1> DEFINE todo == job[r].todo
<1>1. CASE todo = StatePlan /\ job[r].state.verification = "NONE"
  BY <1>1 DEF Doing, StatePlan
<1>2. CASE /\ todo = <<"user", "worker", "verification", "client", "set", "judge">>
          /\ job[r].state.verification = "NONE"
  BY <1>2 DEF Doing
<1>3. CASE /\ todo = <<"worker", "verification", "client", "set", "judge">>
          /\ job[r].state.verification = "NONE"
  BY <1>3 DEF Doing
<1>4. CASE todo = <<"verification", "client", "set", "judge">>
  BY <1>4 DEF Doing
<1>5. CASE todo = <<"client", "set", "judge">>
  BY <1>5 DEF Doing
<1>6. CASE todo = <<"set", "judge">>
  BY <1>6 DEF Doing
<1>7. CASE todo = <<"judge">>
  BY <1>7 DEF Doing
<1> QED BY <1>1, <1>2, <1>3, <1>4, <1>5, <1>6, <1>7 DEF Reading

LEMMA GetStep ==
  ASSUME Inv, Remember, NEW r \in Request, GetHit(r) \/ GetMiss(r)
  PROVE  Inv'
<1> DEFINE p == job[r].phone
<1>1. /\ Reading(r) /\ job[r] # NoJob /\ p \in Phone /\ ~Inserted(r)
      /\ Doing(r, "get") /\ UNCHANGED <<tables, cache, image, done>>
  BY AtRead DEF GetHit, GetMiss, Doing
<1>2. CASE GetHit(r)
  <2>1. cache[p] \in UserState /\ Witnessed(p, cache[p])
    BY <1>1, <1>2 DEF GetHit, Inv, TypeOK, WasInv
  <2>2. job[r] \in Job
    BY <1>1 DEF Inv, TypeOK
  <2>3. job'[r] = [job[r] EXCEPT !.state = cache[p], !.todo = <<"judge">>]
    BY <1>2 DEF GetHit, Inv, TypeOK
  <2>4. job'[r] \in Job
    BY <2>1, <2>2, <2>3, PlansTyped DEF Job
  <2>5. job' \in [Request -> Job \cup {NoJob}] /\ OthersStay(r)
    BY <1>2, <2>4 DEF GetHit, Inv, TypeOK, OthersStay
  <2>6. CallInv(r)' /\ ~Inserted(r)'
    BY <1>1, <2>1, <2>2, <2>3, <2>4, ReadOn, AccountsAssumption DEF Job
  <2> QED BY <1>1, <2>5, <2>6, QuietStep
<1>3. CASE GetMiss(r)
  <2> USE GoOnJob DEF GetMiss, Inv
  <2>1. job'[r].state = job[r].state /\ job'[r].todo = Tail(job[r].todo)
    BY <1>3
  <2>2. CallInv(r)' /\ ~Inserted(r)'
    BY <1>1, <1>3, <2>1, ReadOn, ReadLeft DEF Reading
  <2> QED BY <1>1, <1>3, <2>2, QuietStep
<1> QED BY <1>2, <1>3

\* The shape the four reads share.
LEMMA ReadFound ==
  ASSUME Inv, Remember, NEW r \in Request,
         NEW field \in {"status", "worker", "verification", "client"}, NEW v,
         NEW stage \in {"user", "worker", "verification", "client"},
         Doing(r, stage), Found(r, field, v),
         stage = IF field = "status" THEN "user" ELSE field,
         UNCHANGED <<tables, cache, image, done>>,
         [job[r].state EXCEPT ![field] = v] \in UserState,
         Witnessed(job[r].phone, [job[r].state EXCEPT ![field] = v])
  PROVE  Inv'
<1>1. Reading(r) /\ job[r] # NoJob /\ ~Inserted(r) /\ job[r].state \in UserState
  BY AtRead DEF Doing
<1>2. /\ job' \in [Request -> Job \cup {NoJob}] /\ OthersStay(r)
      /\ job'[r] # NoJob /\ job'[r].op = job[r].op
      /\ job'[r].phone = job[r].phone /\ job'[r].need = job[r].need
      /\ job'[r].state = [job[r].state EXCEPT ![field] = v]
      /\ job'[r].todo = Tail(job[r].todo)
  BY FoundJob DEF Inv
<1>3. field = "status" => job'[r].state.verification = job[r].state.verification
  BY <1>1, <1>2 DEF UserState
<1>4. CallInv(r)' /\ ~Inserted(r)'
  <2>1. CASE field = "status"
    BY <1>1, <1>2, <1>3, <2>1, ReadOn, ReadLeft
  <2>2. CASE field # "status"
    BY <1>1, <1>2, <2>2, ReadOn, ReadLeft
  <2> QED BY <2>1, <2>2
<1> QED BY <1>2, <1>4, QuietStep

LEMMA ReadStep ==
  ASSUME Inv, Remember, NEW r \in Request,
         ReadUser(r) \/ ReadWorker(r) \/ ReadVerification(r) \/ ReadClient(r)
  PROVE  Inv'
<1> DEFINE p == job[r].phone
           s == job[r].state
<1>1. /\ Reading(r) /\ p \in Phone /\ s \in UserState
      /\ Registered(p) /\ Witnessed(p, s)
  BY AtRead DEF ReadUser, ReadWorker, ReadVerification, ReadClient, Reading
<1>2. user[p] \in User /\ worker[p] \in WorkerProfile /\ client[p] \in ClientProfile
  BY <1>1 DEF Inv, TypeOK, Registered
<1>3. /\ IdOf(worker[p]) \in 0..MaxProfiles /\ IdOf(client[p]) \in 0..MaxProfiles
      /\ worker[p].verification \in Verification
  BY <1>2, AccountsAssumption DEF WorkerProfile, ClientProfile, IdOf
<1>4. CASE ReadUser(r)
  <2> DEFINE v == user[p].status
             t == [s EXCEPT !["status"] = v]
  <2>1. t \in UserState /\ t.role = s.role /\ t.status = v /\ t.worker = s.worker
        /\ t.verification = s.verification /\ t.client = s.client
    BY <1>1, <1>2 DEF UserState, User
  <2>2. v = "ACTIVE" => <<p, "active">> \in was
    BY <1>1, NowSeen DEF Now, Passes, IsActive, StateGuard
  <2>3. Witnessed(p, t)
    BY <1>1, <2>1, <2>2 DEF Witnessed
  <2> QED BY <1>4, <2>1, <2>3, ReadFound DEF ReadUser
<1>5. CASE ReadWorker(r)
  <2> DEFINE v == IdOf(worker[p])
             t == [s EXCEPT !["worker"] = v]
  <2>1. t \in UserState /\ t.role = s.role /\ t.status = s.status /\ t.worker = v
        /\ t.verification = s.verification /\ t.client = s.client
    BY <1>1, <1>3 DEF UserState
  <2>2. v # 0 => <<p, "notWorker">> \in was
    BY <1>1, NowSeen DEF Now, Passes, UnAuthorizeWorker, StateGuard
  <2>3. s.verification = "NONE"
    BY <1>1, <1>5, ReadLeft DEF ReadWorker
  <2>4. Witnessed(p, t)
    BY <1>1, <2>1, <2>2, <2>3 DEF Witnessed
  <2> QED BY <1>5, <2>1, <2>4, ReadFound DEF ReadWorker
<1>6. CASE ReadVerification(r)
  <2> DEFINE v == VerificationOf(p, s.worker)
             t == [s EXCEPT !["verification"] = v]
  <2>1. v \in Verification
    BY <1>3 DEF VerificationOf, Verification
  <2>2. t \in UserState /\ t.role = s.role /\ t.status = s.status
        /\ t.worker = s.worker /\ t.verification = v /\ t.client = s.client
    BY <1>1, <2>1 DEF UserState
  <2>3. s.worker # 0 /\ v = "APPROVED" => <<p, "worker">> \in was
    BY <1>1, NowSeen DEF VerificationOf, Now, Passes, AuthorizeWorker, StateGuard
  <2>4. Witnessed(p, t)
    BY <1>1, <2>2, <2>3 DEF Witnessed
  <2> QED BY <1>6, <2>2, <2>4, ReadFound DEF ReadVerification
<1>7. CASE ReadClient(r)
  <2> DEFINE v == IdOf(client[p])
             t == [s EXCEPT !["client"] = v]
  <2>1. t \in UserState /\ t.role = s.role /\ t.status = s.status
        /\ t.worker = s.worker /\ t.verification = s.verification /\ t.client = v
    BY <1>1, <1>3 DEF UserState
  <2>2. v # 0 => <<p, "client">> \in was
    BY <1>1, NowSeen DEF Now, Passes, AuthorizeClient, StateGuard
  <2>3. Witnessed(p, t)
    BY <1>1, <2>1, <2>2 DEF Witnessed
  <2> QED BY <1>7, <2>1, <2>3, ReadFound DEF ReadClient
<1> QED BY <1>4, <1>5, <1>6, <1>7

LEMMA SetStep ==
  ASSUME Inv, Remember, NEW r \in Request, SetState(r)
  PROVE  Inv'
<1> DEFINE p == job[r].phone
<1>1. /\ Reading(r) /\ p \in Phone /\ job[r].state \in UserState
      /\ ~Inserted(r) /\ Doing(r, "set") /\ job[r] # NoJob
      /\ UNCHANGED <<tables, image, done>> /\ GoOn(r)
  BY AtRead DEF SetState, Doing
<1>2. /\ job' \in [Request -> Job \cup {NoJob}] /\ OthersStay(r)
      /\ job'[r] # NoJob /\ job'[r].op = job[r].op
      /\ job'[r].phone = p /\ job'[r].need = job[r].need
      /\ job'[r].state = job[r].state /\ job'[r].todo = <<"judge">>
  BY <1>1, GoOnJob, ReadLeft DEF Inv
<1>3. Witnessed(p, job[r].state) /\ was \subseteq was'
  BY <1>1, WasTyped DEF Reading
<1>4. CallInv(r)' /\ ~Inserted(r)'
  BY <1>1, <1>2, <1>3, ReadOn
<1>5. \A q \in Phone : cache'[q] # NoState => Witnessed(q, cache[q])'
  <2> SUFFICES ASSUME NEW q \in Phone, cache'[q] # NoState
               PROVE  Witnessed(q, cache[q])'
    OBVIOUS
  <2>1. cache'[q] = IF q = p THEN job[r].state ELSE cache[q]
    BY <1>1 DEF SetState, Inv, TypeOK
  <2>2. CASE q = p
    BY <1>3, <2>1, <2>2 DEF Witnessed
  <2>3. CASE q # p
    BY <1>3, <2>1, <2>3 DEF Witnessed, Inv, WasInv
  <2> QED BY <2>2, <2>3
<1>6. TypeOK'
  BY <1>1, <1>2, WasTyped DEF SetState, Inv, TypeOK, tables
<1>7. Grow /\ ImagesOfUsers'
  BY <1>1, <1>3, SameTables DEF Inv, ImagesOfUsers, tables
<1>8. DoneInv'
  BY <1>1, <1>2, <1>4, <1>7, DoneStays
<1> QED BY <1>2, <1>4, <1>5, <1>6, <1>7, <1>8, Together

\* A guard let through is one the user has passed.
LEMMA JudgeStep ==
  ASSUME Inv, Remember, NEW r \in Request, NEW h \in Handler, Judge(r, h)
  PROVE  Inv'
<1> DEFINE p == job[r].phone
           s == job[r].state
           t == [Blank EXCEPT !.worker = s.worker, !.client = s.client]
<1>1. /\ Reading(r) /\ p \in Phone /\ s \in UserState /\ ~Inserted(r)
      /\ Witnessed(p, s) /\ Registered(p) /\ job[r] \in Job
      /\ was \subseteq was'
  BY AtRead, WasTyped DEF Judge, Reading, Inv, TypeOK, Doing
<1>2. \A g \in Needs[h] : g \in StateGuard /\ Passes(g, s)
  BY DEF Judge, Admits, Needs
<1>3. \A g \in Needs[h] : <<p, g>> \in was
  <2> SUFFICES ASSUME NEW g \in Needs[h] PROVE <<p, g>> \in was
    OBVIOUS
  <2>1. g \in StateGuard /\ Passes(g, s)
    BY <1>2
  <2>2. CASE g = "active"
    BY <1>1, <2>1, <2>2 DEF Passes, IsActive, Witnessed
  <2>3. CASE g = "admin"
    BY <1>1, <2>1, <2>3 DEF Passes, AuthorizeAdmin, Witnessed
  <2>4. CASE g = "worker"
    BY <1>1, <2>1, <2>4 DEF Passes, AuthorizeWorker, Witnessed
  <2>5. CASE g = "notWorker"
    BY <1>1, <2>1, <2>5 DEF Passes, UnAuthorizeWorker, Witnessed
  <2>6. CASE g = "client"
    BY <1>1, <2>1, <2>6 DEF Passes, AuthorizeClient, Witnessed
  <2>7. CASE g = "notClient"
    BY <1>1, <2>7 DEF Inv, WasInv
  <2> QED BY <2>1, <2>2, <2>3, <2>4, <2>5, <2>6, <2>7 DEF StateGuard
<1>4. t \in UserState
  BY <1>1, AccountsAssumption DEF Blank, UserState, Verification
<1>5. job'[r] = [job[r] EXCEPT !.op = "serve", !.need = Needs[h],
                   !.todo = HandlerPlan(h), !.state = t]
  BY DEF Judge, Inv, TypeOK
<1>6. /\ job'[r].op = "serve" /\ job'[r].phone = p /\ job'[r].need = Needs[h]
      /\ job'[r].todo = HandlerPlan(h) /\ job'[r] \in Job
  <2>1. HandlerPlan(h) \in Seq(Stage) /\ Needs[h] \in SUBSET StateGuard
    BY <1>2, PlansTyped
  <2> QED BY <1>1, <1>4, <1>5, <2>1 DEF Job
<1>7. job' \in [Request -> Job \cup {NoJob}] /\ OthersStay(r)
  BY <1>6 DEF Judge, Inv, TypeOK, OthersStay
<1>8. HandlerPlan(h) \in {<<>>, UpdateUser, <<"createClient">>, <<"deleteClient">>,
                          <<"deleteWorker">>, CreateWorkerProfile} \cup LinkPlan
  BY DEF HandlerPlan, CreateClientProfile, DeleteClientProfile,
         DeleteWorkerProfile, AddWorkerGovernments, DeleteWorkerGovernments,
         AddWorkerSpecializations, DeleteWorkerSpecializations, LinkPlan
<1>9. Serving(r)' /\ ~Inserted(r)'
  BY <1>1, <1>6, <1>8 DEF Serving, Registered, Inserted, Registration, Judge, tables
<1>10. CallInv(r)'
  BY <1>1, <1>3, <1>6, <1>9 DEF CallInv
<1> QED BY <1>7, <1>9, <1>10, QuietStep DEF Judge

----------------------------------------------------------------------------
\* Steps that write rows or images

Writing == {"uploadPicture", "uploadId", "uploadSelfie", "setPicture", "record",
            "createClient", "deleteClient", "createWorker", "linkGovernments",
            "linkSpecializations", "verify", "deleteWorker", "answer",
            "addGovernments", "unlinkGovernments", "unlinkSpecializations"}

\* Behind each stage that writes is a user, and what the earlier ones wrote.
LEMMA AtWrite ==
  ASSUME Inv, NEW r \in Request, NEW stage \in Writing, Doing(r, stage)
  PROVE  LET p == job[r].phone IN
         /\ job[r] \in Job /\ job[r] # NoJob /\ p \in Phone
         /\ Serving(r) \/ RegisteringClient(r) \/ RegisteringWorker(r)
         /\ Registered(p)
         /\ stage = "setPicture" => Stored(p, "profileMain")
         /\ stage \in {"createWorker", "verify"} => \A id \in Papers : Stored(p, id)
         /\ stage = "record" => /\ Linked(p) /\ \A id \in PublicId : Stored(p, id)
                               /\ job[r].state.worker = 1
                               /\ job[r].op = "registerWorker"
         /\ stage \in {"createWorker", "createClient", "verify", "deleteClient",
                       "linkGovernments", "linkSpecializations", "deleteWorker",
                       "addGovernments", "unlinkGovernments",
                       "unlinkSpecializations"} =>
              job[r].op = "serve"
         /\ stage = "answer" =>
              /\ job[r].op \in Registration
              /\ job[r].op = "registerClient" => client[p].id >= 1
              /\ job[r].op = "registerWorker" => Recorded(p)
<1> DEFINE p == job[r].phone
<1>1. /\ CallInv(r) /\ job[r] # NoJob /\ Head(job[r].todo) = stage
      /\ job[r].todo # <<>> /\ job[r] \in Job /\ p \in Phone
  BY DEF Inv, TypeOK, Doing, Job
<1>2. ~Reading(r)
  BY <1>1 DEF Reading, StatePlan, Writing
<1>3. CASE Serving(r)
  BY <1>1, <1>3 DEF Serving, UpdateUser, CreateWorkerProfile, LinkPlan, Papers
<1>4. CASE RegisteringClient(r)
  BY <1>1, <1>4 DEF RegisteringClient, Writing, Registration
<1>5. CASE RegisteringWorker(r)
  BY <1>1, <1>5 DEF RegisteringWorker, Writing, Registration
<1> QED BY <1>1, <1>2, <1>3, <1>4, <1>5 DEF CallInv

\* With the stage's own work done, the plan goes on.
LEMMA NextStage ==
  ASSUME Inv, Remember, Grow, NEW r \in Request, NEW stage \in Writing,
         Doing(r, stage), job'[r] # NoJob,
         job'[r].op = job[r].op, job'[r].phone = job[r].phone,
         job'[r].need = job[r].need, job'[r].todo = Tail(job[r].todo),
         job[r].op = "registerWorker" => job'[r].state.worker = job[r].state.worker,
         stage = "uploadPicture" => Stored(job[r].phone, "profileMain")',
         stage = "uploadId" => Stored(job[r].phone, "nationalID")',
         stage = "uploadSelfie" => Stored(job[r].phone, "selfiWithID")',
         stage = "record" => Recorded(job[r].phone)'
  PROVE  CallInv(r)' /\ (Inserted(r)' => Inserted(r))
<1> DEFINE p == job[r].phone
<1>1. /\ p \in Phone /\ Registered(p) /\ Head(job[r].todo) = stage
      /\ Serving(r) \/ RegisteringClient(r) \/ RegisteringWorker(r)
      /\ job[r] # NoJob /\ job[r].todo # <<>>
  BY AtWrite DEF Doing
<1>2. /\ Registered(p)' /\ \A id : Stored(p, id) => Stored(p, id)'
      /\ client[p].id >= 1 => client'[p].id >= 1
      /\ Linked(p) => Linked(p)'
      /\ Recorded(p) => Recorded(p)'
  BY <1>1 DEF Grow, Stored
<1>3. \A g \in job'[r].need : <<job'[r].phone, g>> \in was'
  BY <1>1, WasTyped DEF Inv, CallInv
<1>4. Inserted(r)' => Inserted(r)
  BY <1>1 DEF Inserted, Doing, Writing
<1>5. CASE Serving(r)
  <2>1. Serving(r)'
    <3>1. CASE job[r].todo = UpdateUser
      BY <1>1, <1>2, <1>5, <3>1 DEF Serving, UpdateUser
    <3>2. CASE job[r].todo = <<"createClient">>
      <4>1. job'[r].todo = <<>>
        BY <3>2
      <4> QED BY <1>1, <1>2, <1>5, <3>2, <4>1 DEF Serving
    <3>3. CASE job[r].todo = <<"deleteClient">>
      <4>1. job'[r].todo = <<>>
        BY <3>3
      <4> QED BY <1>1, <1>2, <1>5, <3>3, <4>1 DEF Serving
    <3>4. CASE job[r].todo = <<"deleteWorker">>
      <4>1. job'[r].todo = <<>>
        BY <3>4
      <4> QED BY <1>1, <1>2, <1>5, <3>4, <4>1 DEF Serving
    <3>5. CASE job[r].todo = CreateWorkerProfile
      BY <1>1, <1>2, <1>5, <3>5 DEF Serving, CreateWorkerProfile
    <3>6. CASE job[r].todo = <<"setPicture">>
      <4>1. job'[r].todo = <<>>
        BY <3>6
      <4> QED BY <1>1, <1>2, <1>5, <3>6, <4>1 DEF Serving
    <3>7. CASE job[r].todo = Tail(CreateWorkerProfile)
      <4>1. job'[r].todo = <<"createWorker", "linkGovernments", "linkSpecializations", "verify">>
        BY <3>7 DEF CreateWorkerProfile
      <4>2. Stored(p, "nationalID") /\ stage = "uploadSelfie"
        BY <1>1, <1>5, <3>7 DEF Serving, UpdateUser, CreateWorkerProfile, LinkPlan
      <4> QED BY <1>1, <1>2, <1>5, <4>1, <4>2 DEF Serving
    <3>8. CASE job[r].todo =
              <<"createWorker", "linkGovernments", "linkSpecializations", "verify">>
      <4>1. job'[r].todo = <<"linkGovernments", "linkSpecializations", "verify">>
        BY <3>8
      <4>2. Stored(p, "nationalID") /\ Stored(p, "selfiWithID")
        BY <1>1, <1>5, <3>8 DEF Serving, UpdateUser, CreateWorkerProfile,
                                       LinkPlan
      <4> QED BY <1>1, <1>2, <1>5, <4>1, <4>2 DEF Serving
    <3>9. CASE job[r].todo = <<"linkGovernments", "linkSpecializations", "verify">>
      <4>1. job'[r].todo = <<"linkSpecializations", "verify">>
        BY <3>9
      <4>2. Stored(p, "nationalID") /\ Stored(p, "selfiWithID")
        BY <1>1, <1>5, <3>9 DEF Serving, UpdateUser, CreateWorkerProfile,
                                       LinkPlan
      <4> QED BY <1>1, <1>2, <1>5, <4>1, <4>2 DEF Serving
    <3>10. CASE job[r].todo = <<"linkSpecializations", "verify">>
      <4>1. job'[r].todo = <<"verify">>
        BY <3>10
      <4>2. Stored(p, "nationalID") /\ Stored(p, "selfiWithID")
        BY <1>1, <1>5, <3>10 DEF Serving, UpdateUser, CreateWorkerProfile,
                                       LinkPlan
      <4> QED BY <1>1, <1>2, <1>5, <4>1, <4>2 DEF Serving
    <3>11. CASE job[r].todo = <<"verify">>
      <4>1. job'[r].todo = <<>>
        BY <3>11
      <4>2. Stored(p, "nationalID") /\ Stored(p, "selfiWithID")
        BY <1>1, <1>5, <3>11 DEF Serving, UpdateUser, CreateWorkerProfile,
                                       LinkPlan
      <4> QED BY <1>1, <1>2, <1>5, <4>1, <4>2 DEF Serving
    <3>12. CASE job[r].todo \in LinkPlan
      <4>1. job'[r].todo \in {<<>>, <<"unlinkSpecializations">>}
        <5>1. CASE job[r].todo = <<"unlinkSpecializations", "unlinkSpecializations">>
          BY <5>1
        <5>2. CASE job[r].todo \in
                     LinkPlan \ {<<"unlinkSpecializations", "unlinkSpecializations">>}
          <6>1. PICK s : job[r].todo = <<s>>
            BY <5>2 DEF LinkPlan
          <6>2. job'[r].todo = <<>>
            BY <6>1
          <6> QED BY <6>2
        <5> QED BY <3>12, <5>1, <5>2
      <4> QED BY <1>1, <1>2, <1>5, <4>1 DEF Serving, LinkPlan
    <3> QED BY <1>1, <1>5, <3>1, <3>2, <3>3, <3>4, <3>5, <3>6, <3>7, <3>8, <3>9, <3>10, <3>11, <3>12 DEF Serving, Writing
  <2> QED BY <1>3, <1>4, <2>1 DEF CallInv
<1>6. CASE RegisteringClient(r)
  <2>1. RegisteringClient(r)'
    <3>1. CASE job[r].todo = <<"uploadPicture", "setPicture", "answer">>
      <4>1. job'[r].todo = <<"setPicture", "answer">>
        BY <3>1
      <4> QED BY <1>1, <1>2, <1>6, <3>1, <4>1 DEF RegisteringClient
    <3>2. CASE job[r].todo = <<"setPicture", "answer">>
      <4>1. job'[r].todo = <<"answer">>
        BY <3>2
      <4> QED BY <1>1, <1>2, <1>6, <3>2, <4>1 DEF RegisteringClient
    <3>3. CASE job[r].todo = <<"answer">>
      <4>1. job'[r].todo = <<>>
        BY <3>3
      <4> QED BY <1>1, <1>2, <1>6, <3>3, <4>1 DEF RegisteringClient
    <3> QED BY <1>1, <1>6, <3>1, <3>2, <3>3 DEF RegisteringClient, Writing
  <2> QED BY <1>3, <1>4, <2>1 DEF CallInv
<1>7. CASE RegisteringWorker(r)
  <2>1. RegisteringWorker(r)'
    <3>1. CASE job[r].todo =
              <<"uploadPicture", "uploadId", "uploadSelfie", "record", "answer">>
      <4>1. job'[r].todo = <<"uploadId", "uploadSelfie", "record", "answer">>
        BY <3>1
      <4> QED BY <1>1, <1>2, <1>7, <3>1, <4>1 DEF RegisteringWorker, PublicId
    <3>2. CASE job[r].todo = <<"uploadId", "uploadSelfie", "record", "answer">>
      <4>1. job'[r].todo = <<"uploadSelfie", "record", "answer">>
        BY <3>2
      <4> QED BY <1>1, <1>2, <1>7, <3>2, <4>1 DEF RegisteringWorker, PublicId
    <3>3. CASE job[r].todo = <<"uploadSelfie", "record", "answer">>
      <4>1. job'[r].todo = <<"record", "answer">>
        BY <3>3
      <4> QED BY <1>1, <1>2, <1>7, <3>3, <4>1 DEF RegisteringWorker, PublicId
    <3>4. CASE job[r].todo = <<"record", "answer">>
      <4>1. job'[r].todo = <<"answer">>
        BY <3>4
      <4> QED BY <1>1, <1>2, <1>7, <3>4, <4>1 DEF RegisteringWorker, PublicId
    <3>5. CASE job[r].todo = <<"answer">>
      <4>1. job'[r].todo = <<>>
        BY <3>5
      <4> QED BY <1>1, <1>2, <1>7, <3>5, <4>1 DEF RegisteringWorker, PublicId
    <3> QED BY <1>1, <1>7, <3>1, <3>2, <3>3, <3>4, <3>5 DEF RegisteringWorker, Writing
  <2> QED BY <1>3, <1>4, <2>1 DEF CallInv
<1> QED BY <1>1, <1>5, <1>6, <1>7

\* A statement or an upload done, and the call goes on.
LEMMA WriteStep ==
  ASSUME Inv, Remember, Grow, NEW r \in Request, NEW stage \in Writing \ {"answer"},
         Doing(r, stage), OthersStay(r), job' \in [Request -> Job \cup {NoJob}],
         job'[r] # NoJob, job'[r].op = job[r].op, job'[r].phone = job[r].phone,
         job'[r].need = job[r].need, job'[r].todo = Tail(job[r].todo),
         job[r].op = "registerWorker" => job'[r].state.worker = job[r].state.worker,
         UNCHANGED <<cache, done>>,
         user' \in [Phone -> User \cup {NoRow}],
         worker' \in [Phone -> WorkerProfile],
         client' \in [Phone -> ClientProfile],
         image' \subseteq Phone \X PublicId, ImagesOfUsers',
         stage = "uploadPicture" => Stored(job[r].phone, "profileMain")',
         stage = "uploadId" => Stored(job[r].phone, "nationalID")',
         stage = "uploadSelfie" => Stored(job[r].phone, "selfiWithID")',
         stage = "record" => Recorded(job[r].phone)'
  PROVE  Inv'
<1>1. CallInv(r)' /\ (Inserted(r)' => Inserted(r))
  BY NextStage
<1>2. DoneInv'
  BY <1>1, DoneStays
<1>3. TypeOK'
  BY WasTyped DEF Inv, TypeOK
<1>4. \A p \in Phone : cache'[p] # NoState => Witnessed(p, cache[p])'
  BY WasTyped, CacheStays
<1> QED BY <1>1, <1>2, <1>3, <1>4, Together

LEMMA ClientStep ==
  ASSUME Inv, Remember, NEW r \in Request, CreateClient(r) \/ DeleteClient(r)
  PROVE  Inv'
<1> DEFINE p == job[r].phone
<1>1. PICK stage \in {"createClient", "deleteClient"} :
        Doing(r, stage) /\ GoOn(r) /\ UNCHANGED <<user, worker, cache, image, done>>
  BY DEF CreateClient, DeleteClient
<1>2. stage \in Writing \ {"answer"} /\ p \in Phone /\ client[p] \in ClientProfile
  BY <1>1, AtWrite DEF Writing, Inv, TypeOK
<1>3. /\ client' \in [Phone -> ClientProfile]
      /\ \A q \in Phone : client'[q].id >= client[q].id
  <2>1. CASE CreateClient(r)
    BY <1>2, <2>1, AccountsAssumption DEF CreateClient, Inv, TypeOK, ClientProfile
  <2>2. CASE DeleteClient(r)
    BY <1>2, <2>2, AccountsAssumption DEF DeleteClient, NoClient, Inv, TypeOK, ClientProfile
  <2> QED BY <2>1, <2>2
<1>4. \A q \in Phone : client[q].id \in Nat /\ client'[q].id \in Nat
  BY <1>3, AccountsAssumption DEF Inv, TypeOK, ClientProfile
<1>5. Grow
  BY <1>1, <1>3, <1>4, WasTyped DEF Grow, Registered, Linked, Recorded, IdOf
<1>6. ImagesOfUsers'
  BY <1>1 DEF Inv, ImagesOfUsers
<1> QED BY <1>1, <1>2, <1>3, <1>5, <1>6, GoOnJob, WriteStep DEF Inv, TypeOK

\* A worker's profile changes, and what a registration left of it does not.
LEMMA ProfileGrows ==
  ASSUME Inv, Remember, NEW p \in Phone, NEW profile \in WorkerProfile,
         worker' = [worker EXCEPT ![p] = profile], UNCHANGED <<client, image>>,
         \A q \in Phone : Registered(q) =>
           user'[q] # NoRow /\ (user[q].picture => user'[q].picture),
         worker[p].id <= profile.id,
         worker[p].id >= 1 /\ IdOf(profile) = 1 =>
           /\ IdOf(worker[p]) = 1
           /\ NothingLost(worker[p]) => NothingLost(profile)
           /\ worker[p].verification # "NONE" => profile.verification # "NONE"
  PROVE  Grow /\ worker' \in [Phone -> WorkerProfile]
<1>1. \A q \in Phone : worker'[q] = IF q = p THEN profile ELSE worker[q]
  BY DEF Inv, TypeOK
<1>2. /\ worker' \in [Phone -> WorkerProfile]
      /\ profile.id \in Nat /\ worker[p].id \in Nat
  BY AccountsAssumption DEF Inv, TypeOK, WorkerProfile
<1>3. \A q \in Phone : Linked(q) => Linked(q)'
  <2> SUFFICES ASSUME NEW q \in Phone, Linked(q) PROVE Linked(q)'
    OBVIOUS
  <2>1. CASE q = p
    BY <1>1, <1>2, <2>1 DEF Linked
  <2>2. CASE q # p
    BY <1>1, <2>2 DEF Linked
  <2> QED BY <2>1, <2>2
<1>4. \A q \in Phone : Recorded(q) => Recorded(q)'
  <2> SUFFICES ASSUME NEW q \in Phone, Recorded(q) PROVE Recorded(q)'
    OBVIOUS
  <2>1. Linked(q)' /\ Registered(q)' /\ user'[q].picture
    BY <1>3 DEF Recorded, Registered
  <2>2. CASE q = p
    BY <1>1, <1>2, <2>1, <2>2 DEF Recorded, Linked
  <2>3. CASE q # p
    BY <1>1, <2>1, <2>3 DEF Recorded
  <2> QED BY <2>2, <2>3
<1> QED BY <1>2, <1>3, <1>4, WasTyped DEF Grow, Registered

\* A new profile of a worker has a number of its own, and nothing on it yet.
LEMMA CreateWorkerStep ==
  ASSUME Inv, Remember, NEW r \in Request, CreateWorker(r)
  PROVE  Inv'
<1> DEFINE p == job[r].phone
           new == [id |-> worker[p].id + 1, alive |-> TRUE, links |-> {},
                   taken |-> {}, verification |-> "NONE"]
<1>1. /\ Doing(r, "createWorker") /\ Found(r, "worker", worker[p].id + 1)
      /\ UNCHANGED <<user, client, cache, image, done>>
      /\ ~worker[p].alive /\ worker[p].id < MaxProfiles
  BY DEF CreateWorker
<1>2. /\ "createWorker" \in Writing \ {"answer"} /\ p \in Phone
      /\ worker[p] \in WorkerProfile /\ job[r].op = "serve" /\ job[r] \in Job
  BY <1>1, AtWrite DEF Writing, Inv, TypeOK
<1>3. worker' = [worker EXCEPT ![p] = new]
  BY DEF CreateWorker
<1>4. worker[p].id \in Nat /\ worker[p].id + 1 \in 0..MaxProfiles
  BY <1>1, <1>2, AccountsAssumption DEF WorkerProfile
<1>5. /\ new \in WorkerProfile /\ worker[p].id <= new.id
      /\ new.verification = "NONE"
  BY <1>4 DEF WorkerProfile, Verification
<1>6. [job[r].state EXCEPT !["worker"] = worker[p].id + 1] \in UserState
  BY <1>2, <1>4 DEF Job, UserState
<1>7. ~(worker[p].id >= 1 /\ IdOf(new) = 1)
  BY <1>4 DEF IdOf
<1> HIDE DEF new
<1>8. Grow /\ worker' \in [Phone -> WorkerProfile]
  BY <1>1, <1>2, <1>3, <1>5, <1>7, ProfileGrows DEF Registered
<1>9. ImagesOfUsers'
  <2>1. \A q \in Phone : worker'[q] = IF q = p THEN new ELSE worker[q]
    BY <1>3 DEF Inv, TypeOK
  <2> QED BY <1>1, <1>5, <2>1 DEF Inv, ImagesOfUsers
<1> QED BY <1>1, <1>2, <1>6, <1>8, <1>9, FoundJob, WriteStep DEF Inv, TypeOK

\* Links given and taken: a link that is missing afterwards was missing before,
\* or was taken.
LEMMA GiveAndTake ==
  ASSUME NEW profile \in WorkerProfile, NEW link \in Links,
         NEW new \in {Give(profile, link), Take(profile, link)}
  PROVE  /\ new \in WorkerProfile /\ new.id = profile.id
         /\ IdOf(new) = IdOf(profile)
         /\ new.verification = profile.verification
         /\ NothingLost(profile) => NothingLost(new)
<1>1. CASE new = Give(profile, link)
  <2>1. /\ new.links = profile.links \cup {link}
        /\ new.taken = profile.taken \ {link}
        /\ new.id = profile.id /\ new.alive = profile.alive
        /\ new.verification = profile.verification
    BY <1>1 DEF Give, WorkerProfile
  <2>2. new \in WorkerProfile
    BY <1>1 DEF Give, WorkerProfile
  <2> QED BY <2>1, <2>2 DEF IdOf, NothingLost
<1>2. CASE new = Take(profile, link)
  <2>1. /\ new.links = profile.links \ {link}
        /\ new.taken = profile.taken \cup {link}
        /\ new.id = profile.id /\ new.alive = profile.alive
        /\ new.verification = profile.verification
    BY <1>2 DEF Take, WorkerProfile
  <2>2. new \in WorkerProfile
    BY <1>2 DEF Take, WorkerProfile
  <2> QED BY <2>1, <2>2 DEF IdOf, NothingLost
<1> QED BY <1>1, <1>2

\* A profile that is linked, unlinked, verified or deleted.
LEMMA ProfileStep ==
  ASSUME Inv, Remember, NEW r \in Request,
         NEW stage \in {"deleteWorker", "verify", "linkGovernments",
                        "linkSpecializations", "addGovernments",
                        "unlinkGovernments", "unlinkSpecializations"},
         Doing(r, stage), GoOn(r), UNCHANGED <<user, client, cache, image, done>>,
         NEW profile \in WorkerProfile,
         worker' = [worker EXCEPT ![job[r].phone] = profile],
         profile.id = worker[job[r].phone].id,
         IdOf(profile) = 1 =>
           /\ IdOf(worker[job[r].phone]) = 1
           /\ NothingLost(worker[job[r].phone]) => NothingLost(profile)
           /\ worker[job[r].phone].verification # "NONE" => profile.verification # "NONE",
         profile.verification # "NONE" =>
           worker[job[r].phone].verification # "NONE" \/ stage = "verify"
  PROVE  Inv'
<1> DEFINE p == job[r].phone
<1>1. p \in Phone /\ stage \in Writing \ {"answer"}
  BY AtWrite DEF Writing
<1>2. worker[p].id <= profile.id
  BY <1>1, AccountsAssumption DEF Inv, TypeOK, WorkerProfile
<1>3. Grow /\ worker' \in [Phone -> WorkerProfile]
  BY <1>1, <1>2, ProfileGrows DEF Registered
<1>4. ImagesOfUsers'
  <2>1. profile.verification # "NONE" => \A id \in Papers : <<p, id>> \in image
    BY <1>1, AtWrite DEF Inv, ImagesOfUsers, Stored
  <2>2. \A q \in Phone : worker'[q] = IF q = p THEN profile ELSE worker[q]
    BY <1>1 DEF Inv, TypeOK
  <2> QED BY <2>1, <2>2 DEF Inv, ImagesOfUsers
<1> QED BY <1>1, <1>3, <1>4, GoOnJob, WriteStep DEF Inv, TypeOK

LEMMA WorkerStep ==
  ASSUME Inv, Remember, NEW r \in Request,
         \/ DeleteWorker(r) \/ Verify(r)
         \/ LinkGovernments(r) \/ AddGovernments(r) \/ LinkSpecializations(r)
         \/ UnlinkGovernments(r) \/ UnlinkSpecializations(r)
  PROVE  Inv'
<1> DEFINE p == job[r].phone
           old == worker[p]
<1>1. PICK stage \in {"deleteWorker", "verify", "linkGovernments",
                      "linkSpecializations", "addGovernments",
                      "unlinkGovernments", "unlinkSpecializations"} :
        /\ Doing(r, stage) /\ GoOn(r) /\ UNCHANGED <<user, client, cache, image, done>>
        /\ \/ stage = "deleteWorker" /\ DeleteWorker(r)
           \/ stage = "verify" /\ Verify(r)
           \/ /\ stage \notin {"deleteWorker", "verify"}
              /\ \E link \in Links : Link(r, stage, link) \/ Unlink(r, stage, link)
  <2>1. CASE DeleteWorker(r) \/ Verify(r)
    BY <2>1 DEF DeleteWorker, Verify
  <2>2. CASE LinkGovernments(r) \/ AddGovernments(r) \/ LinkSpecializations(r)
    BY <2>2 DEF LinkGovernments, AddGovernments, LinkSpecializations, Link, Links
  <2>3. CASE UnlinkGovernments(r) \/ UnlinkSpecializations(r)
    BY <2>3 DEF UnlinkGovernments, UnlinkSpecializations, Unlink, Links
  <2> QED BY <2>1, <2>2, <2>3
<1>2. /\ p \in Phone /\ old \in WorkerProfile /\ worker \in [Phone -> WorkerProfile]
      /\ old.verification # "NONE" => old.verification # "NONE" \/ stage = "verify"
  BY <1>1, AtWrite DEF Writing, Inv, TypeOK
<1>3. worker = [worker EXCEPT ![p] = old]
  BY <1>2
<1>4. CASE worker' = worker
  <2>1. IdOf(old) = 1 => /\ IdOf(worker[p]) = 1
                         /\ NothingLost(worker[p]) => NothingLost(old)
                         /\ worker[p].verification # "NONE" => old.verification # "NONE"
    OBVIOUS
  <2>2. worker' = [worker EXCEPT ![job[r].phone] = old] /\ old.id = worker[p].id
    BY <1>3, <1>4
  <2> HIDE DEF old
  <2> QED BY <1>1, <1>2, <2>1, <2>2, ProfileStep DEF old
<1>5. CASE stage = "deleteWorker" /\ worker' # worker
  <2> DEFINE profile == NoWorker(old.id)
  <2>1. worker' = [worker EXCEPT ![p] = profile]
    BY <1>1, <1>5 DEF DeleteWorker
  <2>2. /\ profile \in WorkerProfile /\ profile.id = worker[p].id
        /\ IdOf(profile) = 0 /\ profile.verification = "NONE"
    BY <1>2 DEF NoWorker, WorkerProfile, Verification, IdOf
  <2>3. IdOf(profile) # 1 /\ ~(profile.verification # "NONE")
    BY <2>2
  <2> HIDE DEF profile
  <2> QED BY <1>1, <1>2, <2>1, <2>2, <2>3, ProfileStep
<1>6. CASE stage = "verify"
  <2> DEFINE profile == [old EXCEPT !.verification = "PENDING"]
  <2>1. worker' = [worker EXCEPT ![p] = profile]
    BY <1>1, <1>6 DEF Verify, SetVerification
  <2>2. /\ profile \in WorkerProfile /\ profile.id = worker[p].id
        /\ NothingLost(worker[p]) => NothingLost(profile)
        /\ IdOf(profile) = IdOf(worker[p]) /\ profile.verification = "PENDING"
    BY <1>2 DEF WorkerProfile, Verification, VerificationStatus, IdOf, NothingLost
  <2> HIDE DEF profile
  <2> QED BY <1>1, <1>2, <1>6, <2>1, <2>2, ProfileStep
<1>7. CASE /\ \E link \in Links : Link(r, stage, link) \/ Unlink(r, stage, link)
          /\ worker' # worker
  <2> PICK link \in Links : Link(r, stage, link) \/ Unlink(r, stage, link)
    BY <1>7
  <2>1. PICK profile \in {Give(old, link), Take(old, link)} :
          worker' = [worker EXCEPT ![p] = profile]
    BY <1>2, <1>7 DEF Link, Unlink
  <2>2. /\ profile \in WorkerProfile /\ profile.id = worker[p].id
        /\ IdOf(profile) = IdOf(worker[p])
        /\ profile.verification = worker[p].verification
        /\ NothingLost(worker[p]) => NothingLost(profile)
    BY <1>2, <2>1, GiveAndTake
  <2> QED BY <1>1, <1>2, <2>1, <2>2, ProfileStep
<1> QED BY <1>1, <1>4, <1>5, <1>6, <1>7

LEMMA UploadStep ==
  ASSUME Inv, Remember, NEW r \in Request,
         UploadPicture(r) \/ UploadId(r) \/ UploadSelfie(r)
  PROVE  Inv'
<1> DEFINE p == job[r].phone
<1>1. PICK stage \in {"uploadPicture", "uploadId", "uploadSelfie"}, id \in PublicId :
        /\ Upload(r, stage, id)
        /\ \/ stage = "uploadPicture" /\ id = "profileMain"
           \/ stage = "uploadId" /\ id = "nationalID"
           \/ stage = "uploadSelfie" /\ id = "selfiWithID"
  BY DEF UploadPicture, UploadId, UploadSelfie, PublicId
<1>2. /\ Doing(r, stage) /\ GoOn(r) /\ UNCHANGED <<tables, cache, done>>
      /\ image' = image \cup {<<p, id>>}
  BY <1>1 DEF Upload
<1>3. stage \in Writing \ {"answer"} /\ p \in Phone /\ Registered(p)
  BY <1>2, AtWrite DEF Writing
<1>4. Grow
  BY <1>2, WasTyped, SameTables
<1>5. ImagesOfUsers'
  BY <1>2, <1>3 DEF Inv, ImagesOfUsers, tables, Registered
<1>6. image' \subseteq Phone \X PublicId
  BY <1>2, <1>3 DEF Inv, TypeOK
<1>7. Stored(p, id)'
  BY <1>2, GoOnJob DEF Stored, Inv
<1> QED BY <1>1, <1>2, <1>3, <1>4, <1>5, <1>6, <1>7, GoOnJob, WriteStep
        DEF Inv, TypeOK, tables

\* A row names the picture only once it is stored.
LEMMA SetPictureStep ==
  ASSUME Inv, Remember, NEW r \in Request, SetPicture(r)
  PROVE  Inv'
<1> DEFINE p == job[r].phone
<1>1. /\ Doing(r, "setPicture") /\ GoOn(r)
      /\ UNCHANGED <<worker, client, cache, image, done>>
      /\ user' = [user EXCEPT ![p].picture = TRUE]
  BY DEF SetPicture
<1>2. /\ "setPicture" \in Writing \ {"answer"} /\ p \in Phone
      /\ Registered(p) /\ Stored(p, "profileMain")
  BY <1>1, AtWrite DEF Writing
<1>3. user[p] \in User /\ user[p] # NoRow
  BY <1>2 DEF Inv, TypeOK, Registered
<1>4. /\ user' \in [Phone -> User \cup {NoRow}]
      /\ user'[p].picture /\ user'[p] # NoRow
      /\ \A q \in Phone : q # p => user'[q] = user[q]
  BY <1>1, <1>2, <1>3, AccountsAssumption DEF Inv, TypeOK, User
<1>5. \A q \in Phone :
        Registered(q) => user'[q] # NoRow /\ (user[q].picture => user'[q].picture)
  BY <1>4 DEF Registered
<1>6. Grow
  <2>1. \A q \in Phone : Linked(q)' = Linked(q)
    BY <1>1 DEF Linked, IdOf
  <2>2. \A q \in Phone : Recorded(q) => Recorded(q)'
    BY <1>1, <1>5, <2>1 DEF Recorded, Registered, IdOf
  <2> QED BY <1>1, <1>5, <2>1, <2>2, WasTyped DEF Grow, Registered
<1>7. ImagesOfUsers'
  BY <1>1, <1>2, <1>4 DEF Inv, ImagesOfUsers, Stored, Registered
<1> QED BY <1>1, <1>2, <1>4, <1>6, <1>7, GoOnJob, WriteStep DEF Inv, TypeOK

\* The second transaction of a registration names what the uploads stored.
LEMMA RecordStep ==
  ASSUME Inv, Remember, NEW r \in Request, Record(r)
  PROVE  Inv'
<1> DEFINE p == job[r].phone
           profile == [worker[p] EXCEPT !.verification = "PENDING"]
<1>1. /\ Doing(r, "record") /\ GoOn(r) /\ UNCHANGED <<client, cache, image, done>>
      /\ user' = [user EXCEPT ![p].picture = TRUE]
      /\ worker' = [worker EXCEPT ![p] = profile]
  BY DEF Record, SetVerification
<1>2. /\ "record" \in Writing \ {"answer"} /\ p \in Phone
      /\ Registered(p) /\ Linked(p) /\ \A id \in PublicId : Stored(p, id)
  BY <1>1, AtWrite DEF Writing
<1>3. user[p] \in User /\ user[p] # NoRow /\ worker[p] \in WorkerProfile
  BY <1>2 DEF Inv, TypeOK, Registered
<1>4. /\ user' \in [Phone -> User \cup {NoRow}]
      /\ user'[p].picture /\ user'[p] # NoRow
      /\ \A q \in Phone : q # p => user'[q] = user[q]
  BY <1>1, <1>2, <1>3, AccountsAssumption DEF Inv, TypeOK, User
<1>5. \A q \in Phone :
        Registered(q) => user'[q] # NoRow /\ (user[q].picture => user'[q].picture)
  BY <1>4 DEF Registered
<1>6. /\ profile \in WorkerProfile /\ profile.id = worker[p].id
      /\ NothingLost(worker[p]) => NothingLost(profile)
      /\ IdOf(profile) = IdOf(worker[p]) /\ profile.verification # "NONE"
  BY <1>3 DEF WorkerProfile, Verification, VerificationStatus, IdOf, NothingLost
<1>7. worker[p].id <= profile.id
  BY <1>3, <1>6, AccountsAssumption DEF WorkerProfile
<1> HIDE DEF profile
<1>8. Grow /\ worker' \in [Phone -> WorkerProfile]
  BY <1>1, <1>2, <1>5, <1>6, <1>7, ProfileGrows
<1>9. \A q \in Phone : worker'[q] = IF q = p THEN profile ELSE worker[q]
  BY <1>1 DEF Inv, TypeOK
<1>10. Recorded(p)' /\ job'[r].phone = p
  <2>1. job'[r].phone = job[r].phone
    BY <1>1, GoOnJob DEF Inv
  <2>2. worker'[p] = profile
    BY <1>2, <1>9
  <2> QED BY <1>2, <1>4, <1>6, <2>1, <2>2 DEF Recorded, Linked, Registered
<1>11. ImagesOfUsers'
  <2>1. \A id \in PublicId : <<p, id>> \in image
    BY <1>2 DEF Stored
  <2>2. Papers \subseteq PublicId
    BY DEF Papers, PublicId
  <2>3. \A q \in Phone : user'[q] # NoRow /\ user'[q].picture => <<q, "profileMain">> \in image'
    BY <1>1, <1>4, <2>1 DEF Inv, ImagesOfUsers, PublicId
  <2>4. \A q \in Phone : worker'[q].verification # "NONE" =>
                           \A id \in Papers : <<q, id>> \in image'
    BY <1>1, <1>9, <2>1, <2>2 DEF Inv, ImagesOfUsers
  <2>5. \A q \in Phone, id \in PublicId : <<q, id>> \in image' => user'[q] # NoRow
    BY <1>1, <1>5 DEF Inv, ImagesOfUsers, Registered
  <2> QED BY <2>3, <2>4, <2>5 DEF ImagesOfUsers
<1> QED BY <1>1, <1>2, <1>4, <1>8, <1>10, <1>11, GoOnJob, WriteStep DEF Inv, TypeOK

\* One answer for each number: whoever answers had inserted the user.
LEMMA AnswerStep ==
  ASSUME Inv, Remember, NEW r \in Request, Answer(r)
  PROVE  Inv'
<1> DEFINE p == job[r].phone
           new == [phone |-> p, kind |-> job[r].op, by |-> r]
<1>1. /\ Doing(r, "answer") /\ GoOn(r) /\ UNCHANGED <<tables, cache, image>>
      /\ done' = done \cup {new}
  BY DEF Answer
<1>2. /\ "answer" \in Writing /\ p \in Phone /\ Registered(p)
      /\ job[r].op \in Registration /\ job[r] # NoJob
      /\ job[r].op = "registerClient" => client[p].id >= 1
      /\ job[r].op = "registerWorker" => Recorded(p)
  BY <1>1, AtWrite DEF Writing
<1>3. Inserted(r)
  BY <1>1, <1>2 DEF Inserted, Doing
<1>4. /\ job' \in [Request -> Job \cup {NoJob}] /\ OthersStay(r)
      /\ job'[r] # NoJob /\ job'[r].op = job[r].op
      /\ job'[r].phone = job[r].phone /\ job'[r].need = job[r].need
      /\ job'[r].state = job[r].state /\ job'[r].todo = Tail(job[r].todo)
  BY <1>1, GoOnJob DEF Inv
<1>5. Grow
  BY <1>1, WasTyped, SameTables
<1>6. CallInv(r)' /\ ~Inserted(r)'
  <2>1. CallInv(r)'
    BY <1>1, <1>2, <1>4, <1>5, NextStage
  <2>2. job[r].todo = <<"answer">>
    <3>1. CallInv(r) /\ Head(job[r].todo) = "answer" /\ job[r].todo # <<>>
      BY <1>1 DEF Inv, Doing
    <3>2. RegisteringClient(r) \/ RegisteringWorker(r)
      BY <1>2, <3>1 DEF CallInv, Reading, Serving, Registration
    <3>3. CASE RegisteringClient(r)
      BY <3>1, <3>3 DEF RegisteringClient
    <3>4. CASE RegisteringWorker(r)
      BY <3>1, <3>4 DEF RegisteringWorker
    <3> QED BY <3>2, <3>3, <3>4
  <2>3. job[r].todo = <<"answer">>
    BY <1>1, <2>2 DEF Doing
  <2>4. job'[r].todo = <<>>
    BY <1>4, <2>3
  <2> QED BY <2>1, <2>4 DEF Inserted
<1>7. new \in [phone : Phone, kind : Registration, by : Request]
  BY <1>2
<1>8. TypeOK'
  BY <1>1, <1>4, <1>7, WasTyped DEF Inv, TypeOK, tables
<1>9. DoneInv'
  <2>1. \A q \in Request : Inserted(q)' => q # r /\ Inserted(q) /\ job'[q] = job[q]
    BY <1>4, <1>6 DEF OthersStay, Inserted, Doing
  <2>2. \A d \in done : d.phone # p
    BY <1>3 DEF Inv, DoneInv
  <2>3. new.phone = p /\ new.kind = job[r].op
    OBVIOUS
  <2> HIDE DEF new
  <2>4. \A d \in done : /\ d.phone \in Phone /\ Registered(d.phone)
                        /\ d.kind = "registerClient" => client[d.phone].id >= 1
                        /\ d.kind = "registerWorker" => Recorded(d.phone)
    BY DEF Inv, TypeOK, DoneInv
  <2>5. \A d \in done' : /\ d.phone \in Phone /\ Registered(d.phone)
                         /\ d.kind = "registerClient" => client[d.phone].id >= 1
                         /\ d.kind = "registerWorker" => Recorded(d.phone)
    BY <1>1, <1>2, <2>3, <2>4
  <2>6. \A d \in done' : /\ Registered(d.phone)'
                         /\ d.kind = "registerClient" => client'[d.phone].id >= 1
                         /\ d.kind = "registerWorker" => Recorded(d.phone)'
    BY <1>5, <2>5 DEF Grow
  <2>7. \A d, e \in done' : d.phone = e.phone => d = e
    BY <1>1, <2>2, <2>3 DEF Inv, DoneInv
  <2>8. \A q \in Request, d \in done' : Inserted(q)' => job'[q].phone # d.phone
    BY <1>1, <1>3, <2>1, <2>3 DEF Inv, DoneInv
  <2>9. \A q, s \in Request :
          Inserted(q)' /\ Inserted(s)' /\ job'[q].phone = job'[s].phone => q = s
    BY <2>1 DEF Inv, DoneInv
  <2> QED BY <2>6, <2>7, <2>8, <2>9 DEF DoneInv
<1>10. ImagesOfUsers'
  BY <1>1 DEF Inv, ImagesOfUsers, tables
<1>11. \A q \in Phone : cache'[q] # NoState => Witnessed(q, cache[q])'
  BY <1>1, WasTyped, CacheStays
<1> QED BY <1>4, <1>5, <1>6, <1>8, <1>9, <1>10, <1>11, Together

\* What is left of a registration when its rows are about to be inserted.
LEMMA AtInsert ==
  ASSUME Inv, NEW r \in Request, NEW stage \in {"insertClient", "insertWorker"},
         Doing(r, stage)
  PROVE  /\ job[r] \in Job /\ job[r] # NoJob /\ job[r].phone \in Phone
         /\ \A g \in job[r].need : <<job[r].phone, g>> \in was
         /\ stage = "insertClient" =>
              /\ job[r].op = "registerClient"
              /\ Tail(job[r].todo) \in
                   {<<"answer">>, <<"uploadPicture", "setPicture", "answer">>}
         /\ stage = "insertWorker" =>
              /\ job[r].op = "registerWorker"
              /\ Tail(job[r].todo) =
                   <<"uploadPicture", "uploadId", "uploadSelfie", "record", "answer">>
<1>1. /\ CallInv(r) /\ job[r] # NoJob /\ Head(job[r].todo) = stage
      /\ job[r].todo # <<>> /\ job[r] \in Job /\ job[r].phone \in Phone
  BY DEF Inv, TypeOK, Doing, Job
<1>2. ~Reading(r) /\ ~Serving(r)
  BY <1>1 DEF Reading, Serving, StatePlan, UpdateUser, CreateWorkerProfile,
         LinkPlan
<1>3. CASE RegisteringClient(r)
  <2>1. job[r].todo \in {<<"insertClient", "answer">>,
          <<"insertClient", "uploadPicture", "setPicture", "answer">>}
    BY <1>1, <1>3 DEF RegisteringClient
  <2>2. /\ Head(job[r].todo) = "insertClient"
        /\ Tail(job[r].todo) \in
             {<<"answer">>, <<"uploadPicture", "setPicture", "answer">>}
    <3>1. CASE job[r].todo = <<"insertClient", "answer">>
      BY <3>1
    <3>2. CASE job[r].todo = <<"insertClient", "uploadPicture", "setPicture", "answer">>
      BY <3>2
    <3> QED BY <2>1, <3>1, <3>2
  <2> QED BY <1>1, <1>3, <2>2 DEF RegisteringClient, CallInv
<1>4. CASE RegisteringWorker(r)
  <2>1. job[r].todo = <<"insertWorker", "uploadPicture", "uploadId", "uploadSelfie",
                        "record", "answer">>
    BY <1>1, <1>4 DEF RegisteringWorker
  <2> QED BY <1>1, <1>4, <2>1 DEF RegisteringWorker, CallInv
<1> QED BY <1>1, <1>2, <1>3, <1>4 DEF CallInv

LEMMA NewUserTyped == NewUser \in User /\ NewUser # NoRow /\ ~NewUser.picture
<1>1. NewUser \in User
  BY DEF NewUser, User, AccountStatus
<1>2. NewUser.picture = FALSE
  BY DEF NewUser
<1> QED BY <1>1, <1>2, AccountsAssumption

\* The number had no user, so nobody else has inserted or answered for it, and
\* nothing said of registered users is about it.
LEMMA InsertStep ==
  ASSUME Inv, Remember, NEW r \in Request,
         NEW p \in Phone, p = job[r].phone,
         user[p] = NoRow, user' = [user EXCEPT ![p] = NewUser],
         worker' \in [Phone -> WorkerProfile], client' \in [Phone -> ClientProfile],
         \A q \in Phone \ {p} : worker'[q] = worker[q] /\ client'[q] = client[q],
         worker'[p].verification # "NONE" => worker[p].verification # "NONE",
         UNCHANGED <<cache, image, done>>, OthersStay(r),
         job' \in [Request -> Job \cup {NoJob}], job'[r].phone = p, CallInv(r)'
  PROVE  Inv'
<1>1. NewUser \in User /\ NewUser # NoRow /\ ~NewUser.picture
  BY NewUserTyped
<1>2. \A q \in Phone : user'[q] = IF q = p THEN NewUser ELSE user[q]
  BY DEF Inv, TypeOK
<1>3. TypeOK'
  BY <1>1, WasTyped DEF Inv, TypeOK
<1>4. \A q \in Phone : Registered(q) =>
        /\ Registered(q)'
        /\ user[q].picture => user'[q].picture
        /\ client[q].id >= 1 => client'[q].id >= 1
        /\ Linked(q) => Linked(q)'
        /\ Recorded(q) => Recorded(q)'
  <2> SUFFICES ASSUME NEW q \in Phone, Registered(q)
               PROVE  /\ Registered(q)'
                      /\ user[q].picture => user'[q].picture
                      /\ client[q].id >= 1 => client'[q].id >= 1
                      /\ Linked(q) => Linked(q)'
                      /\ Recorded(q) => Recorded(q)'
    OBVIOUS
  <2>1. q # p
    BY DEF Registered
  <2>2. user'[q] = user[q] /\ worker'[q] = worker[q] /\ client'[q] = client[q]
    BY <1>2, <2>1
  <2> QED BY <2>2 DEF Registered, Linked, Recorded
<1>5. Grow
  BY <1>4, WasTyped DEF Grow
<1>6. ImagesOfUsers'
  <2>1. \A q \in Phone : user'[q] # NoRow /\ user'[q].picture => <<q, "profileMain">> \in image'
    BY <1>1, <1>2 DEF Inv, ImagesOfUsers
  <2>2. \A q \in Phone : worker'[q].verification # "NONE" =>
                           \A id \in Papers : <<q, id>> \in image'
    BY DEF Inv, ImagesOfUsers
  <2>3. \A q \in Phone, id \in PublicId : <<q, id>> \in image' => user'[q] # NoRow
    BY <1>1, <1>2 DEF Inv, ImagesOfUsers
  <2> QED BY <2>1, <2>2, <2>3 DEF ImagesOfUsers
<1>7. \A q \in Phone : cache'[q] # NoState => Witnessed(q, cache[q])'
  BY WasTyped, CacheStays
<1>8. \A q \in Request : Inserted(q) => job[q].phone # p
  <2> SUFFICES ASSUME NEW q \in Request, Inserted(q) PROVE job[q].phone # p
    OBVIOUS
  <2>1. Registered(job[q].phone)
    BY DEF Inserted, Doing, Inv, CallInv, Reading, Serving, RegisteringClient,
           RegisteringWorker, Registration
  <2> QED BY <2>1 DEF Registered
<1>9. \A d \in done : d.phone \in Phone /\ d.phone # p
  BY DEF Inv, TypeOK, DoneInv, Registered
<1>10. DoneInv'
  <2>1. \A d \in done' : /\ Registered(d.phone)'
                         /\ d.kind = "registerClient" => client'[d.phone].id >= 1
                         /\ d.kind = "registerWorker" => Recorded(d.phone)'
    BY <1>4, <1>9 DEF Inv, DoneInv
  <2>2. \A d, e \in done' : d.phone = e.phone => d = e
    BY DEF Inv, DoneInv
  <2>3. \A q \in Request \ {r} :
          Inserted(q)' => Inserted(q) /\ job'[q] = job[q] /\ job'[q].phone # p
    BY <1>8 DEF OthersStay, Inserted, Doing
  <2>4. \A q \in Request, d \in done' : Inserted(q)' => job'[q].phone # d.phone
    BY <1>9, <2>3 DEF Inv, DoneInv
  <2>5. \A q, s \in Request :
          Inserted(q)' /\ Inserted(s)' /\ job'[q].phone = job'[s].phone => q = s
    BY <2>3 DEF Inv, DoneInv
  <2> QED BY <2>1, <2>2, <2>4, <2>5 DEF DoneInv
<1> QED BY <1>3, <1>5, <1>6, <1>7, <1>10, Together

LEMMA InsertClientStep ==
  ASSUME Inv, Remember, NEW r \in Request, InsertClient(r)
  PROVE  Inv'
<1> DEFINE p == job[r].phone
           new == [id |-> 1, alive |-> TRUE]
<1>1. /\ Doing(r, "insertClient") /\ GoOn(r) /\ user[p] = NoRow
      /\ user' = [user EXCEPT ![p] = NewUser]
      /\ client' = [client EXCEPT ![p] = new]
      /\ UNCHANGED <<worker, cache, image, done>>
  BY DEF InsertClient
<1>2. /\ p \in Phone /\ job[r].op = "registerClient"
      /\ \A g \in job[r].need : <<p, g>> \in was
      /\ Tail(job[r].todo) \in
           {<<"answer">>, <<"uploadPicture", "setPicture", "answer">>}
  BY <1>1, AtInsert
<1>3. /\ job' \in [Request -> Job \cup {NoJob}] /\ OthersStay(r)
      /\ job'[r] # NoJob /\ job'[r].op = job[r].op
      /\ job'[r].phone = p /\ job'[r].need = job[r].need
      /\ job'[r].todo = Tail(job[r].todo)
  BY <1>1, GoOnJob DEF Inv
<1>4. new \in ClientProfile /\ new.id = 1
  BY AccountsAssumption DEF ClientProfile
<1>5. /\ client' \in [Phone -> ClientProfile] /\ client'[p].id >= 1
      /\ \A q \in Phone \ {p} : worker'[q] = worker[q] /\ client'[q] = client[q]
      /\ worker' \in [Phone -> WorkerProfile] /\ worker'[p] = worker[p]
  BY <1>1, <1>2, <1>4 DEF Inv, TypeOK
<1>6. user'[p] # NoRow
  BY <1>1, <1>2, NewUserTyped DEF Inv, TypeOK
<1>7. CallInv(r)'
  <2>1. RegisteringClient(r)'
    BY <1>2, <1>3, <1>5, <1>6 DEF RegisteringClient, Registered
  <2> QED BY <1>2, <1>3, <2>1, WasTyped DEF CallInv
<1> QED BY <1>1, <1>2, <1>3, <1>5, <1>7, InsertStep

LEMMA InsertWorkerStep ==
  ASSUME Inv, Remember, NEW r \in Request, InsertWorker(r)
  PROVE  Inv'
<1> DEFINE p == job[r].phone
           new == [id |-> 1, alive |-> TRUE, links |-> Links, taken |-> {},
                   verification |-> "NONE"]
<1>1. /\ Doing(r, "insertWorker") /\ Found(r, "worker", 1) /\ user[p] = NoRow
      /\ user' = [user EXCEPT ![p] = NewUser]
      /\ worker' = [worker EXCEPT ![p] = new]
      /\ UNCHANGED <<client, cache, image, done>>
  BY DEF InsertWorker
<1>2. /\ p \in Phone /\ job[r].op = "registerWorker" /\ job[r] \in Job
      /\ \A g \in job[r].need : <<p, g>> \in was
      /\ Tail(job[r].todo) =
           <<"uploadPicture", "uploadId", "uploadSelfie", "record", "answer">>
  BY <1>1, AtInsert
<1>3. 1 \in 0..MaxProfiles
  BY AccountsAssumption
<1>4. /\ [job[r].state EXCEPT !["worker"] = 1] \in UserState
      /\ [job[r].state EXCEPT !["worker"] = 1].worker = 1
  BY <1>2, <1>3 DEF Job, UserState
<1>5. /\ job' \in [Request -> Job \cup {NoJob}] /\ OthersStay(r)
      /\ job'[r] # NoJob /\ job'[r].op = job[r].op
      /\ job'[r].phone = p /\ job'[r].need = job[r].need
      /\ job'[r].state.worker = 1
      /\ job'[r].todo = Tail(job[r].todo)
  BY <1>1, <1>4, FoundJob DEF Inv
<1>6. new \in WorkerProfile /\ new.id = 1 /\ NothingLost(new)
      /\ new.verification = "NONE"
  BY <1>3 DEF WorkerProfile, Verification, NothingLost
<1>7. /\ worker' \in [Phone -> WorkerProfile] /\ worker'[p] = new
      /\ \A q \in Phone \ {p} : worker'[q] = worker[q] /\ client'[q] = client[q]
      /\ client' \in [Phone -> ClientProfile]
  BY <1>1, <1>2, <1>6 DEF Inv, TypeOK
<1>8. user'[p] # NoRow
  BY <1>1, <1>2, NewUserTyped DEF Inv, TypeOK
<1> HIDE DEF new
<1>9. CallInv(r)'
  <2>1. Linked(p)' /\ job'[r].phone = p
    BY <1>5, <1>6, <1>7 DEF Linked
  <2>2. RegisteringWorker(r)'
    BY <1>2, <1>5, <1>6, <1>7, <1>8 DEF RegisteringWorker, Registered, Linked
  <2> QED BY <1>2, <1>5, <2>2, WasTyped DEF CallInv
<1> QED BY <1>1, <1>2, <1>5, <1>6, <1>7, <1>9, InsertStep

----------------------------------------------------------------------------
\* The environment moves no call.

LEMMA NobodyMoves ==
  ASSUME Inv, Remember, Grow, UNCHANGED <<cache, done, job>>, TypeOK', ImagesOfUsers'
  PROVE  Inv'
<1>1. \A q \in Request : CallInv(q)'
  BY CallStays DEF Inv
<1>2. \A p \in Phone : cache'[p] # NoState => Witnessed(p, cache[p])'
  BY WasTyped, CacheStays
<1>3. WasInv'
  BY <1>2 DEF Inv, WasInv, Remember, Grow
<1>4. \A q \in Request : Inserted(q)' => Inserted(q) /\ job'[q].phone = job[q].phone
  BY DEF Inserted, Doing
<1>5. \A d \in done : /\ Registered(d.phone)'
                      /\ d.kind = "registerClient" => client'[d.phone].id >= 1
                      /\ d.kind = "registerWorker" => Recorded(d.phone)'
  <2>1. \A d \in done : d.phone \in Phone
    BY DEF Inv, TypeOK
  <2> QED BY <2>1 DEF Inv, DoneInv, Grow
<1>6. DoneInv'
  BY <1>4, <1>5 DEF Inv, DoneInv
<1> QED BY <1>1, <1>3, <1>6 DEF Inv

LEMMA EnvironmentStep ==
  ASSUME Inv, Remember, Environment
  PROVE  Inv'
<1> PICK p \in Phone :
      \/ \E status \in AccountStatus : SetStatus(p, status)
      \/ \E verdict \in VerificationStatus : Review(p, verdict)
      \/ \E link \in Links : Delist(p, link)
  BY DEF Environment
<1>1. ASSUME NEW status \in AccountStatus, SetStatus(p, status)
      PROVE  Inv'
  <2>1. /\ user[p] # NoRow /\ user' = [user EXCEPT ![p].status = status]
        /\ UNCHANGED <<worker, client, cache, image, done, job>>
    BY <1>1 DEF SetStatus
  <2>2. user[p] \in User
    BY <2>1 DEF Inv, TypeOK
  <2>3. /\ user' \in [Phone -> User \cup {NoRow}]
        /\ user'[p] # NoRow /\ user'[p].picture = user[p].picture
        /\ \A q \in Phone : q # p => user'[q] = user[q]
    BY <1>1, <2>1, <2>2, AccountsAssumption DEF Inv, TypeOK, User
  <2>4. \A q \in Phone :
          /\ Registered(q) => user'[q] # NoRow
          /\ user'[q] # NoRow => user[q] # NoRow /\ user'[q].picture = user[q].picture
    BY <2>1, <2>3 DEF Registered
  <2>5. Grow
    <3>1. \A q \in Phone : Linked(q)' = Linked(q)
      BY <2>1 DEF Linked, IdOf
    <3>2. \A q \in Phone : Recorded(q) => Recorded(q)'
      BY <2>1, <2>4, <3>1 DEF Recorded, Registered, IdOf
    <3> QED BY <2>1, <2>4, <3>1, <3>2, WasTyped DEF Grow, Registered
  <2>6. ImagesOfUsers'
    BY <2>1, <2>4 DEF Inv, ImagesOfUsers, Registered
  <2>7. TypeOK'
    BY <2>1, <2>3, WasTyped DEF Inv, TypeOK
  <2> QED BY <2>1, <2>5, <2>6, <2>7, NobodyMoves
<1>2. ASSUME NEW verdict \in VerificationStatus, Review(p, verdict)
      PROVE  Inv'
  <2> DEFINE profile == [worker[p] EXCEPT !.verification = verdict]
  <2>1. /\ worker[p].verification # "NONE" /\ worker' = [worker EXCEPT ![p] = profile]
        /\ UNCHANGED <<user, client, cache, image, done, job>>
    BY <1>2 DEF Review
  <2>2. worker[p] \in WorkerProfile
    BY DEF Inv, TypeOK
  <2>3. /\ profile \in WorkerProfile /\ profile.id = worker[p].id
        /\ NothingLost(worker[p]) => NothingLost(profile)
        /\ IdOf(profile) = IdOf(worker[p]) /\ profile.verification # "NONE"
    BY <1>2, <2>2 DEF WorkerProfile, Verification, VerificationStatus, IdOf, NothingLost
  <2>4. worker[p].id <= profile.id
    BY <2>2, <2>3, AccountsAssumption DEF WorkerProfile
  <2> HIDE DEF profile
  <2>5. Grow /\ worker' \in [Phone -> WorkerProfile]
    BY <2>1, <2>3, <2>4, ProfileGrows DEF Registered
  <2>6. \A q \in Phone : worker'[q] = IF q = p THEN profile ELSE worker[q]
    BY <2>1 DEF Inv, TypeOK
  <2>7. ImagesOfUsers'
    BY <2>1, <2>6 DEF Inv, ImagesOfUsers
  <2>8. TypeOK'
    BY <2>1, <2>5, WasTyped DEF Inv, TypeOK
  <2> QED BY <2>1, <2>5, <2>7, <2>8, NobodyMoves
<1>3. ASSUME NEW link \in Links, Delist(p, link)
      PROVE  Inv'
  <2> DEFINE profile == Take(worker[p], link)
  <2>1. /\ worker' = [worker EXCEPT ![p] = profile]
        /\ UNCHANGED <<user, client, cache, image, done, job>>
    BY <1>3 DEF Delist
  <2>2. worker[p] \in WorkerProfile
    BY DEF Inv, TypeOK
  <2>3. /\ profile \in WorkerProfile /\ profile.id = worker[p].id
        /\ NothingLost(worker[p]) => NothingLost(profile)
        /\ IdOf(profile) = IdOf(worker[p])
        /\ profile.verification = worker[p].verification
    BY <2>2, GiveAndTake
  <2>4. worker[p].id <= profile.id
    BY <2>2, <2>3, AccountsAssumption DEF WorkerProfile
  <2> HIDE DEF profile
  <2>5. Grow /\ worker' \in [Phone -> WorkerProfile]
    BY <2>1, <2>3, <2>4, ProfileGrows DEF Registered
  <2>6. \A q \in Phone : worker'[q] = IF q = p THEN profile ELSE worker[q]
    BY <2>1 DEF Inv, TypeOK
  <2>7. ImagesOfUsers'
    BY <2>1, <2>3, <2>6 DEF Inv, ImagesOfUsers
  <2>8. TypeOK'
    BY <2>1, <2>5, WasTyped DEF Inv, TypeOK
  <2> QED BY <2>1, <2>5, <2>7, <2>8, NobodyMoves
<1> QED BY <1>1, <1>2, <1>3

----------------------------------------------------------------------------
\* The invariant is inductive.

LEMMA InitInv == Init => Inv
<1> SUFFICES ASSUME Init PROVE Inv
  OBVIOUS
<1>1. TypeOK
  <2>1. NoWorker(0) \in WorkerProfile /\ NoClient(0) \in ClientProfile
    BY AccountsAssumption DEF NoWorker, NoClient, WorkerProfile, ClientProfile, Verification
  <2> QED BY <2>1 DEF Init, TypeOK, StateGuard
<1>2. WasInv
  BY DEF Init, WasInv, PassedNow
<1>3. ImagesOfUsers
  BY DEF Init, ImagesOfUsers, NoWorker
<1>4. \A r \in Request : CallInv(r)
  BY DEF Init, CallInv
<1>5. DoneInv
  BY DEF Init, DoneInv, Inserted
<1> QED BY <1>1, <1>2, <1>3, <1>4, <1>5 DEF Inv

LEMMA AuthenticateStep ==
  ASSUME Inv, Remember, NEW r \in Request, Authenticate(r)
  PROVE  Inv'
<1>1. CASE GetHit(r) \/ GetMiss(r)
  BY <1>1, GetStep
<1>2. CASE ReadUser(r) \/ ReadWorker(r) \/ ReadVerification(r) \/ ReadClient(r)
  BY <1>2, ReadStep
<1>3. CASE SetState(r)
  BY <1>3, SetStep
<1>4. CASE \E h \in Handler : Judge(r, h)
  BY <1>4, JudgeStep
<1>5. CASE Refuse(r)
  BY <1>5, QuitStep DEF Refuse
<1> QED BY <1>1, <1>2, <1>3, <1>4, <1>5 DEF Authenticate

LEMMA RegisterStep ==
  ASSUME Inv, Remember, NEW r \in Request, Register(r)
  PROVE  Inv'
<1>1. CASE Duplicate(r)
  BY <1>1, QuitStep DEF Duplicate
<1> QED BY <1>1, InsertClientStep, InsertWorkerStep, RecordStep, AnswerStep DEF Register

LEMMA WritingStep ==
  ASSUME Inv, Remember, NEW r \in Request, Write(r)
  PROVE  Inv'
BY ClientStep, CreateWorkerStep, WorkerStep, UploadStep, SetPictureStep DEF Write

LEMMA NextInv == Inv /\ [Next]_vars => Inv'
<1>1. ASSUME Inv, Next PROVE Inv'
  <2>1. Remember /\ Step
    BY <1>1 DEF Next
  <2>2. ASSUME NEW r \in Request, End(r) \/ Fail(r) PROVE Inv'
    BY <1>1, <2>1, <2>2, QuitStep DEF End, Fail
  <2> QED BY <1>1, <2>1, <2>2, CallStep, AuthenticateStep, RegisterStep,
             WritingStep, EnvironmentStep DEF Step
<1>2. ASSUME Inv, UNCHANGED vars PROVE Inv'
  <2>1. UNCHANGED <<user, worker, client, cache, image, was, done, job>>
    BY <1>2 DEF vars
  <2>2. TypeOK' /\ ImagesOfUsers'
    BY <1>2, <2>1 DEF Inv, TypeOK, ImagesOfUsers
  <2>3. WasInv'
    BY <1>2, <2>1 DEF Inv, WasInv, PassedNow, Passes, Now, Witnessed, IdOf, IsActive,
      AuthorizeAdmin, AuthorizeWorker, UnAuthorizeWorker, AuthorizeClient,
      UnAuthorizeClient
  <2>4. Grow
    BY <2>1, SameTables DEF tables
  <2>5. \A r \in Request : CallInv(r)'
    BY <1>2, <2>1, <2>4, CallStays DEF Inv
  <2>6. DoneInv'
    BY <1>2, <2>1 DEF Inv, DoneInv, Inserted, Doing, Registered, Recorded, Linked, IdOf
  <2> QED BY <2>2, <2>3, <2>5, <2>6 DEF Inv
<1> QED BY <1>1, <1>2

LEMMA InvHolds == Spec => []Inv
BY InitInv, NextInv, PTL DEF Spec

----------------------------------------------------------------------------
\* Rows, cached states, images and calls have their types.
THEOREM AccountsTyped == Spec => []TypeOK
<1>1. Inv => TypeOK
  BY DEF Inv
<1> QED BY <1>1, InvHolds, PTL

\* Every guard a request was let through by is one its user would have passed
\* at some time, however its four reads and the shared key overlap with writes.
THEOREM AdmissionHadAReason == Spec => []AdmittedForAReason
<1>1. Inv => AdmittedForAReason
  BY DEF Inv, CallInv, AdmittedForAReason
<1> QED BY <1>1, InvHolds, PTL

\* A number is registered once, whatever overlaps, and what was answered is
\* all there.
THEOREM RegistrationIsComplete == Spec => []RegistrationComplete
<1>1. Inv => RegistrationComplete
  BY DEF Inv, DoneInv, Registered, Recorded, Linked, RegistrationComplete
<1> QED BY <1>1, InvHolds, PTL

\* No row names an image that was not stored, and no image is stored of a
\* number without a user.
THEOREM ImagesBelongToUsers == Spec => []ImagesOfUsers
<1>1. Inv => ImagesOfUsers
  BY DEF Inv
<1> QED BY <1>1, InvHolds, PTL
=============================================================================
