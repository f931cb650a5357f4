------------------------------ MODULE Accounts ------------------------------
(***************************************************************************)
(* Registration, profiles, and the user state requests are judged by.      *)
(*                                                                         *)
(* A call is a process of Request.  What it still has to do is the         *)
(* sequence job[r].todo; each member is one statement, one Redis command   *)
(* or one upload, and between two of them other calls move.  A transaction *)
(* is one step.                                                            *)
(*                                                                         *)
(* A request reads its user's state from Redis, where nothing ever deletes *)
(* it, or else from four tables one after the other; Routes says which     *)
(* handler a state admits it to.  A user is known by the phone number he   *)
(* registered with: no statement deletes a user or changes his number.     *)
(***************************************************************************)
EXTENDS Routes, FiniteSets

CONSTANTS
  Phone,        \* phone numbers, and the users registered with them
  Request,      \* concurrent calls
  MaxProfiles,  \* bound on the profiles of a kind a user creates in turn
  NoRow,        \* "no user has this number"
  NoState,      \* "Redis has no state of this user"
  NoJob         \* "the call has not been made"

VARIABLES
  user,    \* user[p]: the row of users
  worker,  \* worker[p]: the worker profile of p, and how many there were
  client,  \* client[p]: the client profile of p, and how many there were
  cache,   \* cache[p]: the value of Redis key access:p
  image,   \* the images stored at Cloudinary, by user and public id
  was,     \* the guards each user would have passed at some time (history)
  done,    \* the registrations that were answered (history)
  job      \* job[r]: the call r, and what it still has to do

vars == <<user, worker, client, cache, image, was, done, job>>
tables == <<user, worker, client>>

----------------------------------------------------------------------------
\* State

\* BANNED is judged as SUSPENDED is, and REJECTED as PENDING.
AccountStatus == {"ACTIVE", "SUSPENDED"}
VerificationStatus == {"PENDING", "APPROVED"}
Verification == VerificationStatus \cup {"NONE"}

\* A worker has a kind of link while one row or more of it is his.  Requests
\* that add rows name at least one government and one sub-specialization.
Links == {"governments", "specializations"}
PublicId == {"profileMain", "nationalID", "selfiWithID"}
Papers == {"nationalID", "selfiWithID"}

User == [status : AccountStatus, picture : BOOLEAN]

\* A profile's id is its number: 0 before the first is created.  `taken' is
\* history: the links he had and gave up, or lost with the catalogue's rows.
WorkerProfile == [id : 0..MaxProfiles, alive : BOOLEAN, links : SUBSET Links,
                  taken : SUBSET Links, verification : Verification]
ClientProfile == [id : 0..MaxProfiles, alive : BOOLEAN]

UserState == [role : {"USER"}, status : AccountStatus \cup {"NONE"},
              worker : 0..MaxProfiles, verification : Verification,
              client : 0..MaxProfiles]

Registration == {"registerClient", "registerWorker"}

Stage == {"get", "user", "worker", "verification", "client", "set", "judge",
          "insertClient", "insertWorker", "uploadPicture", "uploadId",
          "uploadSelfie", "setPicture", "record", "answer", "createClient",
          "deleteClient", "createWorker", "linkGovernments",
          "linkSpecializations", "verify", "deleteWorker", "addGovernments",
          "unlinkGovernments", "unlinkSpecializations"}

Job == [op : {"access", "refresh", "serve"} \cup Registration, phone : Phone,
        state : UserState, need : SUBSET StateGuard, todo : Seq(Stage)]

ASSUME AccountsAssumption ==
  /\ MaxProfiles \in Nat \ {0}
  /\ NoRow \notin User
  /\ NoState \notin UserState
  /\ NoJob \notin Job

TypeOK ==
  /\ user \in [Phone -> User \cup {NoRow}]
  /\ worker \in [Phone -> WorkerProfile]
  /\ client \in [Phone -> ClientProfile]
  /\ cache \in [Phone -> UserState \cup {NoState}]
  /\ image \subseteq Phone \X PublicId
  /\ was \subseteq Phone \X StateGuard
  /\ done \subseteq [phone : Phone, kind : Registration, by : Request]
  /\ job \in [Request -> Job \cup {NoJob}]

NoWorker(id) ==
  [id |-> id, alive |-> FALSE, links |-> {}, taken |-> {},
   verification |-> "NONE"]
NoClient(id) == [id |-> id, alive |-> FALSE]

\* What getStatus has gathered before its first read.
Blank == [role |-> "USER", status |-> "NONE", worker |-> 0,
          verification |-> "NONE", client |-> 0]

Init ==
  /\ user = [p \in Phone |-> NoRow]
  /\ worker = [p \in Phone |-> NoWorker(0)]
  /\ client = [p \in Phone |-> NoClient(0)]
  /\ cache = [p \in Phone |-> NoState]
  /\ image = {}
  /\ was = Phone \X {"notClient"}
  /\ done = {}
  /\ job = [r \in Request |-> NoJob]

----------------------------------------------------------------------------
\* What getStatus would return if all its reads fell together.

IdOf(profile) == IF profile.alive THEN profile.id ELSE 0

Now(p) == [role |-> "USER", status |-> user[p].status,
           worker |-> IdOf(worker[p]),
           verification |-> worker[p].verification,
           client |-> IdOf(client[p])]

PassedNow ==
  {pass \in Phone \X StateGuard :
     user[pass[1]] # NoRow /\ Passes(pass[2], Now(pass[1]))}

Remember == was' = was \cup PassedNow'

----------------------------------------------------------------------------
\* How a call starts, moves and ends

Begin(r, op, p, todo) ==
  /\ job[r] = NoJob
  /\ job' = [job EXCEPT ![r] =
       [op |-> op, phone |-> p, state |-> Blank, need |-> {}, todo |-> todo]]
  /\ UNCHANGED <<tables, cache, image, done>>

Doing(r, stage) ==
  job[r] # NoJob /\ job[r].todo # <<>> /\ Head(job[r].todo) = stage

\* The step is done; the call goes on with the next one.
GoOn(r) == job' = [job EXCEPT ![r].todo = Tail(@)]

\* The step is done and found value v for the field of the user's state.
Found(r, field, v) ==
  job' = [job EXCEPT ![r].state[field] = v, ![r].todo = Tail(@)]

Quit(r) == job' = [job EXCEPT ![r] = NoJob]

----------------------------------------------------------------------------
\* The state a request is judged by.  A token is only given to a user.

StatePlan == <<"get", "user", "worker", "verification", "client", "set", "judge">>

AskAccess(r, p) == user[p] # NoRow /\ Begin(r, "access", p, StatePlan)
AskRefresh(r, p) == user[p] # NoRow /\ Begin(r, "refresh", p, StatePlan)

\* redisRetreiveOrCache: a hit is parsed and used as it is, a miss is answered
\* by getStatus, whose result is stored over whatever the key holds by then.
GetHit(r) ==
  LET p == job[r].phone IN
  /\ Doing(r, "get")
  /\ cache[p] # NoState
  /\ job' = [job EXCEPT ![r].state = cache[p], ![r].todo = <<"judge">>]
  /\ UNCHANGED <<tables, cache, image, done>>

GetMiss(r) ==
  /\ Doing(r, "get")
  /\ cache[job[r].phone] = NoState
  /\ GoOn(r)
  /\ UNCHANGED <<tables, cache, image, done>>

ReadUser(r) ==
  /\ Doing(r, "user")
  /\ Found(r, "status", user[job[r].phone].status)
  /\ UNCHANGED <<tables, cache, image, done>>

ReadWorker(r) ==
  /\ Doing(r, "worker")
  /\ Found(r, "worker", IdOf(worker[job[r].phone]))
  /\ UNCHANGED <<tables, cache, image, done>>

\* By the profile's id: its verification went with it if it is deleted.
VerificationOf_Default(p, id) ==
  IF id # 0 /\ worker[p].verification # "NONE"
  THEN worker[p].verification ELSE "APPROVED"
VerificationOf(p, id) ==
  IF id # 0 /\ IdOf(worker[p]) = id THEN worker[p].verification ELSE "NONE"

ReadVerification(r) ==
  /\ Doing(r, "verification")
  /\ Found(r, "verification", VerificationOf(job[r].phone, job[r].state.worker))
  /\ UNCHANGED <<tables, cache, image, done>>

ReadClient(r) ==
  /\ Doing(r, "client")
  /\ Found(r, "client", IdOf(client[job[r].phone]))
  /\ UNCHANGED <<tables, cache, image, done>>

SetState_WholeCall(r) ==
  /\ Doing(r, "set")
  /\ cache' = [cache EXCEPT ![job[r].phone] = job[r]]
  /\ GoOn(r)
  /\ UNCHANGED <<tables, image, done>>
SetState(r) ==
  /\ Doing(r, "set")
  /\ cache' = [cache EXCEPT ![job[r].phone] = job[r].state]
  /\ GoOn(r)
  /\ UNCHANGED <<tables, image, done>>

----------------------------------------------------------------------------
\* The handlers that write what this module keeps.

\* UserService.update
UpdateUser == <<"uploadPicture", "setPicture">>

\* WorkerProfileService.create, in no transaction.  The controller hands it
\* the field of an array no array has for a buffer: the profile picture is
\* never there to upload, and whether an upload of nothing succeeds is
\* Cloudinary's to say.
CreateWorkerProfile ==
  <<"uploadId", "uploadSelfie", "createWorker", "linkGovernments",
    "linkSpecializations", "verify">>

\* ClientService.create, whose user is there, and the two deletions: one
\* statement each.
CreateClientProfile == <<"createClient">>
DeleteClientProfile == <<"deleteClient">>
DeleteWorkerProfile == <<"deleteWorker">>

\* What the dashboard adds to a worker's links and takes from them, a call of
\* the repository each.  Specializations are taken away all at once, or in two
\* calls: whole ones, then pairs of one and a sub-specialization.
AddWorkerGovernments == <<"addGovernments">>
DeleteWorkerGovernments == <<"unlinkGovernments">>
AddWorkerSpecializations == <<"linkSpecializations">>
DeleteWorkerSpecializations == <<"unlinkSpecializations", "unlinkSpecializations">>

HandlerPlan(h) ==
  CASE h = "updateUser"          -> UpdateUser
    [] h = "createClientProfile" -> CreateClientProfile
    [] h = "deleteClientProfile" -> DeleteClientProfile
    [] h = "createWorkerProfile" -> CreateWorkerProfile
    [] h = "deleteWorkerProfile" -> DeleteWorkerProfile
    [] h = "addWorkerGovernments" -> AddWorkerGovernments
    [] h = "deleteWorkerGovernments" -> DeleteWorkerGovernments
    [] h = "addWorkerSpecializations" -> AddWorkerSpecializations
    [] h = "deleteWorkerSpecializations" -> DeleteWorkerSpecializations
    [] OTHER -> <<>>

\* A handler uses no more of the state than the ids in it.
Judge(r, h) ==
  LET state == job[r].state IN
  /\ Doing(r, "judge")
  /\ h \in Behind[job[r].op]
  /\ Admits(h, state)
  /\ job' = [job EXCEPT
       ![r].op = "serve", ![r].need = Needs[h], ![r].todo = HandlerPlan(h),
       ![r].state =
         [Blank EXCEPT !.worker = state.worker, !.client = state.client]]
  /\ UNCHANGED <<tables, cache, image, done>>

\* The guards' errors, and every call that has nothing left to do.
Refuse(r) ==
  /\ Doing(r, "judge")
  /\ Quit(r)
  /\ UNCHANGED <<tables, cache, image, done>>

End(r) ==
  /\ job[r] # NoJob
  /\ job[r].todo = <<>>
  /\ Quit(r)
  /\ UNCHANGED <<tables, cache, image, done>>

\* A user has one profile of a kind: userId is unique.
CreateClient(r) ==
  LET p == job[r].phone IN
  /\ Doing(r, "createClient")
  /\ ~client[p].alive
  /\ client[p].id < MaxProfiles
  /\ client' = [client EXCEPT ![p] = [id |-> @.id + 1, alive |-> TRUE]]
  /\ GoOn(r)
  /\ UNCHANGED <<user, worker, cache, image, done>>

\* By the id the state names: nothing happens if that profile is gone.
DeleteClient(r) ==
  LET p == job[r].phone IN
  /\ Doing(r, "deleteClient")
  /\ client' = IF IdOf(client[p]) = job[r].state.client
               THEN [client EXCEPT ![p] = NoClient(@.id)] ELSE client
  /\ GoOn(r)
  /\ UNCHANGED <<user, worker, cache, image, done>>

CreateWorker(r) ==
  LET p == job[r].phone IN
  /\ Doing(r, "createWorker")
  /\ ~worker[p].alive
  /\ worker[p].id < MaxProfiles
  /\ worker' = [worker EXCEPT ![p] =
       [id |-> @.id + 1, alive |-> TRUE, links |-> {}, taken |-> {},
        verification |-> "NONE"]]
  /\ Found(r, "worker", worker[p].id + 1)
  /\ UNCHANGED <<user, client, cache, image, done>>

Give(profile, link) ==
  [profile EXCEPT !.links = @ \cup {link}, !.taken = @ \ {link}]
Take(profile, link) ==
  [profile EXCEPT !.links = @ \ {link}, !.taken = @ \cup {link}]

\* The creation of a profile gives insertWorkGovernments the user, the other
\* callers give it and insertSubSpecializations a profile's id; both are silent
\* when there is no such profile.
Link(r, stage, link) ==
  LET p == job[r].phone IN
  /\ Doing(r, stage)
  /\ worker' =
       IF /\ worker[p].alive
          /\ stage = "linkGovernments" \/ worker[p].id = job[r].state.worker
       THEN [worker EXCEPT ![p] = Give(@, link)] ELSE worker
  /\ GoOn(r)
  /\ UNCHANGED <<user, client, cache, image, done>>

LinkGovernments(r) == Link(r, "linkGovernments", "governments")
AddGovernments(r) == Link(r, "addGovernments", "governments")
LinkSpecializations(r) == Link(r, "linkSpecializations", "specializations")

\* Governments go by the profile's id, specializations by the user; a request
\* may leave some, or name none that is there.
Unlink(r, stage, link) ==
  LET p == job[r].phone IN
  /\ Doing(r, stage)
  /\ \/ worker' = worker
     \/ /\ worker[p].alive
        /\ stage = "unlinkSpecializations" \/ worker[p].id = job[r].state.worker
        /\ link \in worker[p].links
        /\ worker' = [worker EXCEPT ![p] = Take(@, link)]
  /\ GoOn(r)
  /\ UNCHANGED <<user, client, cache, image, done>>

UnlinkGovernments(r) == Unlink(r, "unlinkGovernments", "governments")
UnlinkSpecializations(r) == Unlink(r, "unlinkSpecializations", "specializations")

\* setVerification: an update or an insert, refused if the profile is gone.
SetVerification(p, id) ==
  /\ IdOf(worker[p]) = id
  /\ worker' = [worker EXCEPT ![p].verification = "PENDING"]

Verify(r) ==
  /\ Doing(r, "verify")
  /\ SetVerification(job[r].phone, job[r].state.worker)
  /\ GoOn(r)
  /\ UNCHANGED <<user, client, cache, image, done>>

\* Its verification and links go with a worker profile.
DeleteWorker(r) ==
  LET p == job[r].phone IN
  /\ Doing(r, "deleteWorker")
  /\ worker' = IF IdOf(worker[p]) = job[r].state.worker
               THEN [worker EXCEPT ![p] = NoWorker(@.id)] ELSE worker
  /\ GoOn(r)
  /\ UNCHANGED <<user, client, cache, image, done>>

----------------------------------------------------------------------------
\* Registration, for a number whose token was consumed before: the rows in
\* one transaction, then the images, then what refers to them.

RegistrationPlan_AnswerFirst(kind, picture) ==
  CASE kind = "registerWorker" ->
         <<"insertWorker", "answer", "uploadPicture", "uploadId",
           "uploadSelfie", "record">>
    [] kind = "registerClient" /\ picture ->
         <<"insertClient", "answer", "uploadPicture", "setPicture">>
    [] OTHER -> <<"insertClient", "answer">>
RegistrationPlan_UploadFirst(kind, picture) ==
  CASE kind = "registerWorker" ->
         <<"uploadPicture", "uploadId", "uploadSelfie", "insertWorker",
           "record", "answer">>
    [] kind = "registerClient" /\ picture ->
         <<"uploadPicture", "insertClient", "setPicture", "answer">>
    [] OTHER -> <<"insertClient", "answer">>
RegistrationPlan(kind, picture) ==
  CASE kind = "registerWorker" ->
         <<"insertWorker", "uploadPicture", "uploadId", "uploadSelfie",
           "record", "answer">>
    [] kind = "registerClient" /\ picture ->
         <<"insertClient", "uploadPicture", "setPicture", "answer">>
    [] OTHER -> <<"insertClient", "answer">>

RegisterClient(r, p, picture) ==
  Begin(r, "registerClient", p, RegistrationPlan("registerClient", picture))
RegisterWorker(r, p) ==
  Begin(r, "registerWorker", p, RegistrationPlan("registerWorker", TRUE))

NewUser == [status |-> "ACTIVE", picture |-> FALSE]

InsertClient(r) ==
  LET p == job[r].phone IN
  /\ Doing(r, "insertClient")
  /\ user[p] = NoRow
  /\ user' = [user EXCEPT ![p] = NewUser]
  /\ client' = [client EXCEPT ![p] = [id |-> 1, alive |-> TRUE]]
  /\ GoOn(r)
  /\ UNCHANGED <<worker, cache, image, done>>

InsertWorker(r) ==
  LET p == job[r].phone IN
  /\ Doing(r, "insertWorker")
  /\ user[p] = NoRow
  /\ user' = [user EXCEPT ![p] = NewUser]
  /\ worker' = [worker EXCEPT ![p] =
       [id |-> 1, alive |-> TRUE, links |-> Links, taken |-> {},
        verification |-> "NONE"]]
  /\ Found(r, "worker", 1)
  /\ UNCHANGED <<client, cache, image, done>>

\* phoneNumber is unique: of two registrations the later one ends here.
Duplicate(r) ==
  /\ Doing(r, "insertClient") \/ Doing(r, "insertWorker")
  /\ user[job[r].phone] # NoRow
  /\ Quit(r)
  /\ UNCHANGED <<tables, cache, image, done>>

\* uploadToCloudinary overwrites what its public id held.
Upload(r, stage, publicId) ==
  /\ Doing(r, stage)
  /\ image' = image \cup {<<job[r].phone, publicId>>}
  /\ GoOn(r)
  /\ UNCHANGED <<tables, cache, done>>

UploadPicture(r) == Upload(r, "uploadPicture", "profileMain")
UploadId(r) == Upload(r, "uploadId", "nationalID")
UploadSelfie(r) == Upload(r, "uploadSelfie", "selfiWithID")

SetPicture(r) ==
  /\ Doing(r, "setPicture")
  /\ user' = [user EXCEPT ![job[r].phone].picture = TRUE]
  /\ GoOn(r)
  /\ UNCHANGED <<worker, client, cache, image, done>>

\* The second transaction of registerWorker.
Record(r) ==
  LET p == job[r].phone IN
  /\ Doing(r, "record")
  /\ user' = [user EXCEPT ![p].picture = TRUE]
  /\ SetVerification(p, job[r].state.worker)
  /\ GoOn(r)
  /\ UNCHANGED <<client, cache, image, done>>

\* The login that ends a registration is Sessions'.
Answer(r) ==
  /\ Doing(r, "answer")
  /\ done' = done \cup {[phone |-> job[r].phone, kind |-> job[r].op, by |-> r]}
  /\ GoOn(r)
  /\ UNCHANGED <<tables, cache, image>>

----------------------------------------------------------------------------
\* The environment: no route changes a status or reviews a verification.

SetStatus(p, status) ==
  /\ user[p] # NoRow
  /\ user' = [user EXCEPT ![p].status = status]
  /\ UNCHANGED <<worker, client, cache, image, done, job>>

Review(p, verdict) ==
  /\ worker[p].verification # "NONE"
  /\ worker' = [worker EXCEPT ![p].verification = verdict]
  /\ UNCHANGED <<user, client, cache, image, done, job>>

\* Governments and specializations are deleted from the catalogue by operators,
\* and what refers to them goes with them.
Delist(p, link) ==
  /\ link \in worker[p].links
  /\ worker' = [worker EXCEPT ![p] = Take(@, link)]
  /\ UNCHANGED <<user, client, cache, image, done, job>>

\* A statement is refused, an upload fails, or the server dies: nothing that
\* was done is undone.
Fail(r) ==
  /\ job[r] # NoJob
  /\ Quit(r)
  /\ UNCHANGED <<tables, cache, image, done>>

----------------------------------------------------------------------------
\* The specification

Call(r) ==
  \E p \in Phone :
    \/ AskAccess(r, p)
    \/ AskRefresh(r, p)
    \/ \E picture \in BOOLEAN : RegisterClient(r, p, picture)
    \/ RegisterWorker(r, p)

Authenticate(r) ==
  \/ GetHit(r) \/ GetMiss(r)
  \/ ReadUser(r) \/ ReadWorker(r) \/ ReadVerification(r) \/ ReadClient(r)
  \/ SetState(r)
  \/ \E h \in Handler : Judge(r, h)
  \/ Refuse(r)

Register(r) ==
  \/ InsertClient(r) \/ InsertWorker(r) \/ Duplicate(r)
  \/ Record(r) \/ Answer(r)

Write(r) ==
  \/ CreateClient(r) \/ DeleteClient(r)
  \/ CreateWorker(r) \/ DeleteWorker(r) \/ Verify(r)
  \/ LinkGovernments(r) \/ AddGovernments(r) \/ LinkSpecializations(r)
  \/ UnlinkGovernments(r) \/ UnlinkSpecializations(r)
  \/ UploadPicture(r) \/ UploadId(r) \/ UploadSelfie(r) \/ SetPicture(r)

Environment ==
  \E p \in Phone :
    \/ \E status \in AccountStatus : SetStatus(p, status)
    \/ \E verdict \in VerificationStatus : Review(p, verdict)
    \/ \E link \in Links : Delist(p, link)

Step ==
  \/ \E r \in Request :
       Call(r) \/ Authenticate(r) \/ Register(r) \/ Write(r) \/ End(r) \/ Fail(r)
  \/ Environment

Next == Step /\ Remember

Spec == Init /\ [][Next]_vars

----------------------------------------------------------------------------
\* Properties

\* However four reads that belong to no transaction and two fills of one key
\* overlap with writes, and however old the cached state is: every guard a
\* request was let through by (authMiddleware.ts, workerMiddleware.ts,
\* clientMiddleware.ts) is one its user would have passed at some time.
AdmittedForAReason ==
  \A r \in Request :
    job[r] # NoJob =>
      \A g \in job[r].need : <<job[r].phone, g>> \in was

\* No link is missing but those the worker gave up or the catalogue dropped.
NothingLost(profile) == Links \ profile.links \subseteq profile.taken

\* Registrations of one number that overlap, two of one kind or of both, are
\* answered at most once between them, and what was answered is all there: a
\* worker's profile, until it is deleted, has its verification, its picture
\* and every link he did not give up on the dashboard and the catalogue did
\* not drop (AuthService.registerWorker and registerClient).
RegistrationComplete ==
  \A d \in done :
    /\ user[d.phone] # NoRow
    /\ \A e \in done : e.phone = d.phone => e = d
    /\ d.kind = "registerClient" => client[d.phone].id >= 1
    /\ d.kind = "registerWorker" /\ IdOf(worker[d.phone]) = 1 =>
         /\ NothingLost(worker[d.phone])
         /\ worker[d.phone].verification # "NONE"
         /\ user[d.phone].picture

\* Wherever calls die, no row names an image that was not stored, and no image
\* is stored of a number without a user.
ImagesOfUsers ==
  /\ \A p \in Phone :
       /\ user[p] # NoRow /\ user[p].picture => <<p, "profileMain">> \in image
       /\ worker[p].verification # "NONE" =>
            \A id \in Papers : <<p, id>> \in image
  /\ \A p \in Phone, id \in PublicId :
       <<p, id>> \in image => user[p] # NoRow
=============================================================================
