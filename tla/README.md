# A TLA+ model of the motqen API

`motqen-api` is a marketplace backend: clients find workers, agree on a time,
a price and a job, talk to each other, and rate. It is one Express and
Socket.IO server (TypeScript, one event loop per process, any number of
processes) over PostgreSQL through Prisma, and Redis. This directory models the
parts of it that keep state and are entered concurrently, checks them with TLC
on small instances and proves their main properties with TLAPS for all
instances.

Source paths below are relative to `src/src/`; lines are those of the modelled
commit.

## 1. Inventory

Three facts shape everything else:

- **Handlers interleave at every `await`.** A request handler is a sequence of
  database statements and Redis commands; between any two of them other
  handlers run, in this process or another.
- **Transactions are rare.** `TransactionManager.execute` wraps a few groups of
  writes at PostgreSQL's default isolation, READ COMMITTED. The reads that
  decide whether to write are nearly always outside.
- **Anything can stop.** A statement may fail and a process may die between two
  steps; nothing is retried, and no job repairs what was left.

| Component | State | Operations | What makes it correct |
|---|---|---|---|
| Orders (`services/OrderService.ts`) | `orders`, `worker_occupied_time_slots`, the worker's rating and job count, one advisory lock per worker | createOrder, cancelOrder, specifyTimeRange, startWork, finishWork, rateOrder | no worker is booked twice; slots and orders agree; statuses follow the tables; each rating is counted |
| Sessions (`services/AuthService.ts`) | `sessions` | login, generateAccessToken, logout | one active session per user; a revoked session is not refreshed; nothing is revoked without reason |
| One-time passwords and tokens (`AuthService`, `RateLimitService`, `OTPCache`, `TokenCache`, `RateLimitCache`) | Redis keys: the code, the send cooldowns, the attempts, the tokens | requestOTP, verifyOTP, consume/restore of login and register tokens | cooldown, guess limit, one token per code, one use per token |
| Conversations and messages (`services/ChatService.ts`, `socket/socketHandlers.ts`) | `conversations` with its counter, `messages`, `conversation_participants` with two marks | open, send, deliver, read, mark all, enter, connect, page | one conversation per pair; gapless numbers; marks rise and are true; nobody misses a message |
| Presence (`services/PresenceService.ts`, `socket/socketManager.ts`, `ChatPresenceCache`) | Redis sets of a user's sockets and of those inside a chat, `users.isOnline` | connect, enter_chat, leave_chat, ping, disconnect, logout's clean-up | a user with a socket is online, without one is offline; sockets that left stay out |
| Registration (`AuthService.registerClient`, `registerWorker`) | `users`, both profiles, verification, images on Cloudinary | two transactions around uploads | a user is registered whole or not at all |
| User state and authorization (`middlewares/authMiddleware.ts`, `utils/redis.ts`, `UserService.getStatus`) | Redis copy of a user's role, status and verification | fill, read, (never) clear; the guards of every route | whoever is let through was once entitled to it |
| Locations (`services/LocationService.ts`) | `locations`, one advisory lock per user | create, update, updateMain, list | at most one main location; a switch never leaves none |
| Worker profiles and working hours (`services/WorkerProfileService.ts`, `WorkerRepository`) | `worker_profiles`, governments, specializations, verification, `worker_availability` | create, update, delete, add/remove, replaceWorkingHours, searchWorkers | no booked day is closed; a profile is created whole |
| Dashboard, client profiles | a user's own rows | single-statement reads and writes | validation and ownership |
| Governments, cities, specializations | reference tables | create, update, delete, the lists | references stay valid; the pages of a list add up to it |
| Contact detection | `flagged_messages` | a background scan of each message | never disturbs the message |
| Pagination, distances (`utils/`) | none | pure functions | skip/take cover the rows |
| Providers (SMS, WhatsApp, Cloudinary) | one WhatsApp socket, its credentials in Redis | send, reconnect, upload | one live socket; a lost one comes back |
| HTTP surface | none | routing, validation, errors | every handler's rejection is answered |

How they interact: **Sessions** starts with a token consumed by **one-time
passwords**, and its logout runs **Presence**'s clean-up. **Messages** asks
Presence whether the recipient is online and inside the chat, and Presence asks
Messages for the user's conversations. **Orders** adds to the rating kept in the
**worker profile**, and the worker's calendar it writes is read by
`replaceWorkingHours`. All of them run behind **authorization**'s cached state.

What is hard: decisions on rows read before the write (all components); the
order of two writes that share no transaction (login, marks, presence); locks
that must be given back on every path (specifyTimeRange); counters under
concurrent writers (message numbers, ratings, attempts); keys that expire and
processes that die between two commands (one-time passwords, presence).
`PROJECT.json` lists each such place with its line, under `hazards`, with the
properties that would notice it going wrong. Where the code itself goes wrong, the
models reach it and the properties are what is left true: they leave out, or
bound, what the code does not give. Such a hazard names no property (or
only those that cover a part of it, or that a violation run refutes), and its note
says which state is reached and why none covers it.

## 2. Plan

Ordered by what would hurt most if wrong. Done:

1. `OrderRules`, `Calendar`, `Orders` -- the order lifecycle and the abstract
   calendar it implements.
2. `Sessions`, 3. `Thread` and `Chat` -- conversations and the abstract thread
   they implement, 4. `Presence`, 5. `Otp`.
6. `Routes`, `Accounts` -- the middlewares of every route, the cached user state
   they judge, registration and profiles.
7. `Places` -- the main location under two kinds of advisory lock.
8. `Directory` -- the catalogue, what workers pick from it, working hours, the
   lists and the search, and what is left of createOrder.
9. `Delivery` -- the WhatsApp connection.

Left, in this order: `Presence` with `Chat` (a message sent while the recipient's
socket is cleaned up after); `Otp` with `Sessions` and `Accounts` (a code becomes
a token becomes a user and a session); the calendar of `Directory`'s working hours
composed with `Orders` instead of the external `Bind` and `Release`; an abstract
specification of one-time passwords like those of calendars and threads.

All modules keep their parameters as constants with named assumptions, one
action per database statement or Redis command, and no RECURSIVE operator, so
that they can be proved about as they stand.

## 3. Conventions

- A call is a process of the constant `Request` (a socket handler, in
  `Presence`, is one of `Socket`). `pc[r]` says how far it got and `job[r]` what
  it knows. A call slot is used again when its call is over, so the number of
  *concurrent* calls is bounded, not the number of calls.
- Each database statement or Redis command that other calls can see is a step.
  The writes of a transaction are one step, its commit; what the transaction
  holds (an advisory lock, a row lock) is a variable. Statements with no effect
  that anyone can observe are part of the next one.
- A check that fails before anything was written is a stuttering step, and is
  left out. One that fails later is an action.
- `Fail(r)` ends a call anywhere: its transaction rolls back and its earlier
  commits stay.
- Variables marked "history" in their comment are read by properties only.
- Operators with an underscore, such as `Tally_Set`, are variants of the
  operator that follows, with a plausible mistake. No specification uses them;
  they show that the property each is listed with (`PROJECT.json`, `mutants`)
  notices the mistake.
- Most runs set `CHECK_DEADLOCK FALSE`: the system may legitimately come to
  rest, when all orders are completed or a bound of the instance is used up.
  `places`, `directory` and `delivery` check for deadlock.
- The largest instances, `otp` (9.1 million distinct states), `chat` (3.9
  million), `accounts` (1.0 million) and `directory` (0.4 million), take one to
  three minutes with two workers; the others take less than one.
- Symmetry is declared on constants no definition names, and never in a run
  with a liveness property.

## 4. Modules

### Orders: `OrderRules`, `Calendar`, `Orders`, `Orders_proofs`

`OrderRules` holds the two transition tables (`utils/stateMachine.ts`) and the
half-open overlap test (`utils/overlapCheck.ts`). `Orders` has the row of each
order, the slots, each worker's rating total and job count, and who holds each
worker's advisory lock.

| Code | Actions |
|---|---|
| cancelOrder | `CancelRead` (row read and decided, outside the transaction), `CancelCommit` (both writes) |
| specifyTimeRange | `SpecifyRead`, `SpecifyLock` (waits for the lock), `SpecifyClear` or `SpecifyConflict`, `SpecifyCommit` or `SpecifyDuplicate` (the slot's unique order id) |
| startWork | `StartRead`, `StartUpdate` |
| finishWork | `FinishRead`, `FinishCommit` |
| rateOrder | `RateRead`, `RateCommit` with `AddRating` |
| death of a call | `Fail` (the lock is freed with the transaction) |

Nothing in the repository negotiates prices, takes payments or schedules work,
although the tables and guards presume it: `AgreePrice`, `Pay` and
`ScheduleWork` are external steps along the transition tables. So is
`InsertOrder`: createOrder's transaction always rolls back at this commit,
because the SQL of `increamentOrderCount` (`SpecializationRepository.ts:308`)
has a trailing comma and names a column that does not exist; rows are taken to
arrive with `schema.prisma`'s defaults.

`Calendar` is what booking promises, without calls or locks: a set of bookings,
`Book` a free range, `Release` an order's. `Orders` implements it with
`booked <- slots`.

- `booking`: two calls on two orders of two workers. `NoDoubleBooking`,
  `SlotsMatchOrders`, `RatingsCounted`, `SlotReleasedOnlyByCancel` and
  `ImplementsCalendar` hold. Two calls are enough for each race between a read
  and a commit; two orders of one worker compete for its calendar, and the
  second worker shows that locks do not cross. Three instants give ranges that
  touch, nest and coincide.
- `calls`: `CallsEnd` under fairness, with two instants and one worker so that
  both calls want one lock.
- `serial`: `SerialSpec` runs calls one at a time, as the unit tests do. Only
  then do statuses follow the tables (`FollowsTables`) and does work match the
  order (`WorkMatchesOrder`).
- `cancel_paid`: the violation of what `orders.docs.ts:128` says; a
  cancellation that read the order before the payment overwrites PAID.

### Sessions: `Sessions`, `Sessions_proofs`

A refresh token is its user and the second it was signed in, so two logins of a
user in one second make the same token and the second insert fails
(`LoginDuplicate`). `LoginCreate` inserts, `LoginRevoke` revokes the others;
both controllers then run generateAccessToken: `AccessRead`, `AccessRefuse`,
`AccessExpire`, `AccessIssue`. Logout is `LogoutPick` and `LogoutRevoke` or
`LogoutNothing`: `SessionRepository.revoke` updates the first row it finds.

- `sessions`: two users, two devices, two sessions, two calls. Among sessions
  whose login got through its revocation, one is active per user
  (`OneSessionPerUser`); no late refresh (`RevokedNotRefreshed`); no revocation
  without a reason (`RevokedForAReason`). Two overlapping logins may revoke each
  other's session: the repository does not say that one should win.
- Not a property, because the code does not have it: after a second login on a
  device, logout may pick the session that is revoked already and leave the other
  (`AuthService.ts:609`).

### One-time passwords and tokens: `Otp`, `Otp_proofs`

One phone number and one method; a code is the number of the request that made
it; a token is the second it was signed in. Each Redis command is a step.

| Code | Actions |
|---|---|
| checkSendOtpLimit, then requestOTP | `SendCheck`, `SendCount`, `SetOtp`, `ResetAttempts` |
| checkVerifyLimit, then verifyOTP | `VerifyCheck`, `VerifyAdmit` / `VerifyRefuse`, `GuessWrong` / `GuessRight` |
| incrementVerify | `Tally` (INCR), `TallyHasTTL` / `TallyNoTTL` (TTL), `TallyExpire` (EXPIRE) |
| the exchange | `DeleteOtp`, `ResetAfterSuccess`, `Sign`, `SetToken` / `SetTokenConflict` |
| consumeLoginToken, consumeRegisterToken | `Consume` (the Lua script), `Accept`, `AcceptExpired`, `RestoreToken` |
| expiry of keys | `CodeExpires`, `AttemptsExpire`, `PhoneCooldownExpires`, `DeviceCooldownExpires`, `TokenExpires` at any time |

No limit here is enforced atomically, so each property states what overlap
leaves of it, in terms of the number of concurrent calls:
`CooldownHolds`, `GuessesBounded` (the code's "5 attempts" is `MaxAttempts - 1`
wrong guesses plus one per call under way plus those lost to failures),
`TokensPerCode`, `UsesGranted`.

- `otp`: two calls, two codes, two seconds, an attempt limit of two. Two codes
  let a late delete or count hit a newer code; two seconds let a token outlive
  its signature (`Lifetime = 0`), which is what restoreToken is for; four wrong
  guesses are more than the bound `MaxAttempts - 1 + 2` allows without a loss,
  and one loss may occur.
- Not a property: that a token is used once (`TokenCache.ts:11`). Two
  verifications of one code in one second make one token, stored a second time
  after its use; `UsesGranted` counts the stores.

### Conversations and messages: `Thread`, `Chat`, `Chat_proofs`

One client and one worker. `counter` is the committed counter, `locked` the row
lock that `atomicSendMessage`'s update holds until its commit, `read` and
`received` the marks, and three variables hold what devices know: `held` and
`cursor` (what a device has paged through) and `told` (the read receipt it was
sent). What the presence cache answers is any pair of Booleans. `FindParticipant`,
`ValidateParticipant` and `CreateWithParticipants` are the repository's queries
of those names.

| Code | Actions |
|---|---|
| getOrCreateConversation | `OpenAsk`, `OpenFound` / `OpenMissing`, `OpenCreate` |
| sendMessage, sendImageMessage | `SendAsk`, `SendCount` (takes the row), `SendCommit`, `SendReceive`, `SendPresence`, `SendImageEnd` |
| markAsDelivered | `DeliverFresh` / `DeliverOld`, `DeliverUpdate` |
| markAllAsRead | `AllFind`, `AllUpdateRead`, `AllUpdateReceived` in either order |
| markAsRead, the receipts | `ReadAsk`, `ReadFresh` / `ReadOld`, `ReadUpdate`, `Answer` |
| connection, enter_chat | `ConnectAsk`, `EnterAsk` |
| getMessages, getMissedMessages | `Fetch` |

`Thread` is what a conversation promises, without calls, locks or failures: `Post`
the next number, `Receive` and `Read` further within what was posted, `Tell`
further within what the partner read. `Chat` implements it with its own
`counter`, `read`, `received` and `told`, although every mark is a look, an
await and an UPDATE.

- `chat`: one conversation, two messages, two calls. Gapless numbers, catch-up
  that misses nothing, monotone marks, true read receipts, and `ImplementsThread`,
  from which the bound of every mark by the counter (`MarksWithinConversation`)
  follows. Two messages make "older" and "newer" meaningful; two calls overlap two
  sends, a send with a mark, and two marks.
- Not a property: one conversation per pair (`ChatService.ts:69` and `:71`). Two
  first contacts create two, and no unique constraint prevents it; `OpenCreate`
  takes the step. That there are never more than calls that may overlap is
  proved (`FirstContactsFew`).

### Presence: `Presence`, `Connections_proofs`

One user, several sockets, one conversation. `conn[s]`, `enter[s]` and `step[x]`
are how far the connection handler, enter_chat and the clean-up of each got;
logout is one more cleaner. The handlers of one socket overlap each other, as
they do in Socket.IO.

- `presence`: two sockets, logout, expiry, failures, crashes. Sockets removed
  stay out of the user's set (`DisconnectedStayOut`); when all that connected are
  cleaned up after, the user is offline (`LastOneOut`), and gets to be
  (`GoesOffline`, under fairness).
- Not a property: that a connected socket is in the user's set
  (`PresenceService.ts:96`). A device that reconnects between its old socket's
  count and the full clean-up is removed.

### Accounts: `Routes`, `Accounts`, `Accounts_proofs`

`Routes` is the HTTP surface as data: each route is the sequence of the
middlewares before its handler, mounted as the routers mount them, and a guard is
a predicate of the user state attached to the request. `Servable` are the
handlers whose guards find a state at all; `Admits(h, state)` says whom a
handler serves. The guards are as written: `unAuthorizeWorker` lets only those
through who *have* a worker profile.

In `Accounts` a call keeps what it still has to do, `job[r].todo`, one statement,
Redis command or upload each; a plan is the sequence its handler starts with.

| Code | Plan or action |
|---|---|
| authenticateAccess/Refresh, redisRetreiveOrCache, getStatus | `StatePlan`: `GetHit` / `GetMiss`, `ReadUser`, `ReadWorker`, `ReadVerification`, `ReadClient`, `SetState`, then `Judge` / `Refuse` |
| registerClient, registerWorker | `RegistrationPlan`: `InsertClient` or `InsertWorker` (or `Duplicate`), the uploads, `SetPicture` or `Record`, `Answer` |
| UserService.update | `UpdateUser`: upload, `SetPicture` |
| WorkerService.create | `CreateWorkerProfile`: two uploads, `CreateWorker`, two links, `Verify` |
| deleteClient/WorkerProfile, createClientProfile | `DeleteClient`, `DeleteWorker`, `CreateClient` |
| add/deleteWorkerGovernments, add/deleteWorkerSpecializations (`DashboardController.ts:180-275`) | `AddGovernments`, `UnlinkGovernments`, `LinkSpecializations`, `UnlinkSpecializations` (two calls of the repository) |
| death of a call or of the server | `Fail`, at any stage; nothing is undone |

`SetStatus` and `Review` are external: no route changes a status or approves a
worker; so is `Delist`, by which the catalogue (module `Directory`) deletes what a
worker is linked to, and the link with it. `was` remembers the guards each user
would have passed at some moment. A profile's `links` says of which kinds
(governments, specializations) it has any; `taken` remembers the kinds from which
the worker or the catalogue has taken something since the profile was written.
What a worker is linked to in detail is `Directory`'s; here a request that adds
names at least one government and one sub-specialization.

- `accounts`: one number, two calls, two profiles of a kind in turn. Two calls
  make two registrations of one number, two fills of one key, and a fill that
  overlaps any write; two profiles make an id outlive its profile. The code
  promises neither that the cached state is fresh nor that it is one state the
  user ever had; what holds is `AdmittedForAReason`: each guard passed is one the
  user would have passed once. It rests on the order of the reads (the
  verification is looked up by the id read before it). `RegistrationComplete`:
  at most one registration of a number is answered, and while its profile lives
  all it wrote is there, but for the links taken away since by the dashboard's
  routes or the catalogue. `ImagesOfUsers`: no row names an image that was not
  stored. Both speak of what was answered or is named by a row; a worker whose
  registration failed between its transactions is reached and has no verification.

### Locations: `Places`, `Places_proofs`

`location` has the committed rows, `lock` the advisory lock of each user, `held`
the rows a transaction has changed and others wait for. `setAllNonMain` is two
steps, since the UPDATE picks its rows when it starts and changes them once they
are free: `SweepStart`, `SweepEnd`.

| Code | Actions |
|---|---|
| createLocation | `CreateAsk`, `CreatePlain`; or `CreateLock` (pg_try_advisory_xact_lock, taken or not), the sweep, `CreateCommit` |
| updateLocation | `UpdateAsk`, `FindOwn`, `UpdatePlain`; or `UpdateLock` (waits), the sweep, `UpdateCommit` |
| updateMainLocation | `UpdateMainAsk`, `FindMain` (any row: `LocationRepository.find` has no condition) |
| registration | `Register` |

- `places`: two users, four rows, two calls. `OneMain` holds of users that are
  not `disturbed`: the module marks a user whose creation went on without the
  lock, or whose row another user's update changed, because the code gives
  neither up. `SwitchKeepsMain`: no overlap of a switch with anything leaves a
  user without the main location he had. Four rows let both users have two.

### Catalogue, picks, working hours and lists: `Directory`, `Directory_proofs`

`rows[x]` says whether a row was stored or deleted; `workGovernments` and `chosen`
are what workers picked, `hours` and `active` the days they work and the days
orders bind them. Every operation finds its row (`FindRow` / `FindNone`,
`FindAgain`), and writes later without a transaction: `DeleteRow` with what the
schema cascades (`Cascade`), `UpdateGovernment`, `UpdateSpecialization`,
`CreateSub`, `AddGovernments`, `RemoveGovernments`, `AddSpecializations`,
`RemoveSpecializations`. replaceWorkingHours is `ReadHours`, `ReadOrders`,
`ReplaceHours`. createOrder is `FindLocation`, `OrderInsert`, `OrderCount`, and
always rolls back. A reader walks through a list (`Open`, `Turn`, `Close`) while
`walk` keeps what it has seen; any change of the list ends the walk.
`HandlePagination` is the source's function; `PagedList`, `WholeList` and
`SearchPage` are the three ways lists are cut. `Rows(list)` is what the list
should show, by definition and not by paging. No paged list has a total order:
searchWorkers sorts by fields that tie and adds no id
(`WorkerRepository.ts:909-925`), orders and locations sort by their creation at
most, and the rest not at all. PostgreSQL then promises of OFFSET and LIMIT how many rows
they give and not which, so `Cut` gives any rows of the right number, chosen
anew for each page.

- `directory`: three governments, a city, a specialization and a sub, two
  workers, three rows of another table, limits 1 and 2. Three rows and a limit
  of 2 give a full page, a short one, and a page past the end. Constraints
  (`SideBySide`, `Alone`, `OneAtATime` in `MCDirectory`) explore tables that share
  nothing side by side and not in product. `TypeOK` includes the foreign keys:
  no pick refers to a row that is gone, whatever was deleted between a look and a
  write. `PagesAddUp` relates the end of a walk to the whole list: a reader told
  that there are no more pages was given as many rows as the list has, and all of
  them if one page was all there was. Over several pages a row may come twice and
  another not at all; the run reaches that.
  `BoundDaysStayOpen` says how far replaceWorkingHours keeps its promise.

### The WhatsApp connection: `Delivery`, `Connections_proofs`

`sock` and `isConnecting` are the module's variables, `live` the sockets listened
to, `timers` and `resetting` what will bring a connection back, `creds` the
session in Redis. `StartServer`, `TimerFires`, `ReadSession`, `Made` / `NotMade`
are connectWhatsApp; `Close`, `LoggedOut`, `Conflict` its close handler;
`ClearRedisAuth`, `Pair`, `SaveCreds`, `SendMessage` the rest; `Revoke` and
`ServerDies` the environment. Its proofs share a module with Presence's: both keep
the sockets of one user or one server, and their names are kept apart.

- `delivery`: three sockets (one open, two still writing their credentials).
  `OneChain`: never two of connection, attempt, timer and reset, and exactly one
  while the server serves and no attempt failed. `Reconnects`, under fairness. An
  attempt that fails is never repeated: the properties except it by `failed`.

## 5. Fairness

Safety runs assume none. Three runs assume that what has begun goes on:

- `Orders!Fairness`: weak fairness of every step of an accepted call, since Node
  resumes a handler whose promise is settled; strong fairness of `SpecifyLock`,
  since PostgreSQL queues the waiters of an advisory lock, so one that finds the
  lock free again and again gets it.
- `Presence!Fairness`: weak fairness of each clean-up step. Nothing obliges a
  socket to connect or leave, a key to expire or a handler to fail.
- `Delivery!FairConnection`: weak fairness of a timer that was set, of the read of the
  session, of the end of an attempt (made or not: `Attempt` does not say which),
  of the reset and of a write of credentials. A socket need never close.

No client action, failure or external step is fair.

## 6. What is proved

TLAPS checks every proof, from the named assumption of each module only
(`OrdersAssumption`, `SessionsAssumption`, `ChatAssumption`,
`PresenceAssumption`, `OtpAssumption`, `PlacesAssumption`, `DeliveryAssumption`,
`AccountsAssumption`, `DirectoryAssumption`: finiteness where counting needs it,
bounds that are naturals, null values that are not data, and tables whose ids are
disjoint). The theorems hold
for any number of calls, orders, workers, users, sockets, conversations and so
on, where TLC's runs have two.

- **Orders.** `TypeCorrect` by `TypeInv`: a call under way knows a job about a
  row that exists. `NeverDoubleBooked` by `BookingInv`: a call past
  `SpecifyLock` holds its worker's lock, one past `SpecifyClear` has a range that
  still overlaps nothing, because only the holder adds a slot for the worker; so
  the commit keeps the calendar free. `CalendarImplemented` is the refinement
  with the same invariant: a commit is `Book`, a cancellation is `Release`,
  anything else stutters. `SlotsAlwaysMatch` by `MatchInv`: an order never
  changes hands, and whoever specifies a range is its worker.
  `ReleasedOnlyByCancel` follows step by step.
- **Orders, ratings.** `NoRatingLost` by a count: an order becomes rated only in
  the step that adds one to its worker's jobs, so the rated orders of a worker
  are finitely many and never more than the jobs (`RatingsCounted`); that they
  may be fewer is the double rating of two overlapping calls.
- **Orders, one call at a time.** `SerialInv`: a call is alone (`Lonely`), so what
  it decided on still holds when it writes (`DecidedInv`), so every row written is
  one step along both tables from the row it replaces (`RowsAlong`). Hence
  `WorkAndOrderAgree`, `TablesFollowed`, `CancelsOnlyCancellable` (the property
  `cancel_paid` refutes for overlapping calls) and `RatedExactlyOnce`, the count
  of ratings with equality. Each fails for `Spec`, which is why they are stated of
  `SerialSpec`.
- **Sessions.** `SessionsTyped`, `SingleSession`, `NoLateRefresh`,
  `RevokedWithReason` from one invariant `Inv`: what a call knows at each stage,
  that a token names one session, and that a swept session exists. `SingleSession`
  is inductive with these: a login's revocation leaves its own session only, and
  a session is counted only once its login got there.
- **Chat.** `ChatTyped`, `GaplessNumbers`, `NothingMissed`, `MarksBounded`,
  `ReceiptsTrue`, `MarksOnlyRise` from `ChatInvariant`: `JobOK` says of each
  stage what a call's stale numbers are still worth (the holder of the row lock
  has the next number; a number read earlier is at most the counter; a receipt
  about to be sent is at most the mark), and `Grows` that counters and marks only
  rise, which keeps it true while other calls run. `ThreadImplemented` is the
  refinement with the same invariant: a commit is `Post`, an UPDATE with GREATEST
  sets a later number or changes nothing (`RaiseOrStay`), and its number is within
  what was posted by `JobOK`. `FirstContactsFew`: the conversations plus the calls about to create one
  are at most the calls, since a call begins to create only while there is none.
- **Presence.** `PresenceTyped`, `GoneForGood`, `LastTurnsOffline` from `Inv`: a
  clean-up starts after the connection handler ended, and while the user is
  online some socket that connected is not cleaned up after.
- **Otp.** `OtpTyped`, `CooldownKept`, `GuessesLimited`, `CodesYieldFew`,
  `TokensNotForged` from `OtpInvariant`. Each limit is strengthened to a sum
  with the calls that may still use it up: `counted` plus the calls past the
  check (`CoolInv`), `guesses` plus the calls admitted against the attempts
  tallied, pending or lost (`GuessInv`), tokens plus the calls that hold a match
  (`YieldInv`), uses plus the stored token plus the calls that took it
  (`UseInv`). The sum moves by one when a call enters or leaves a set, which is
  cardinality arithmetic stated once as lemmas.

- **Accounts.** `AccountsTyped`, `AdmissionHadAReason`,
  `RegistrationIsComplete`, `ImagesBelongToUsers` from one `Inv`. `CallInv` lists
  what may be left of each plan and what is true by then; since rows, images and
  `was` only grow in what it speaks of (`Grow`), it stays true while others move
  (`CallStays`). `Witnessed` is the strengthening for authorization: a state,
  cached or half read, has no field that would pass a guard its user never
  passed; the verification is "NONE" until the id it belongs to was read.
  `DoneInv` adds to the answered registrations the calls that will answer: at
  most one per number, because a number is inserted once; and that of the links
  it wrote nothing was lost but what was taken (`NothingLost`), which every
  handler that removes links keeps by recording it.
- **Places.** `PlacesTyped`, `MainIsUnique`, `SwitchingIsSafe`. The invariant is
  about the user's lock: a call that is sweeping for an undisturbed user holds
  it, so the rows it found are all his rows, and those it clears are the ones
  that are main when it commits.
- **Delivery.** `ChainStaysOne` and `OnlyOwnSocketHeard`: only the module's own
  socket is listened to, so a close event ends the one link there is before it
  makes the next.

- **Directory.** `DirectoryTyped`, `PagesAlwaysAddUp`, `BoundDaysOpen`. `TypeInv`
  adds to the types what a call at each stage was given, and that no pick refers
  to a row that is gone. `WalkInv` says what a reader
  who turns to page n was given: (n - 1) * limit rows of the list, and if n is not 1
  the list is longer than that; so a page that is not full, or is said to be the
  last, brings what is left. It rests on how many rows a page holds (`CutSize`) and
  on each way of paging telling the truth about a next one (`PagedAdvances`,
  `SearchAdvances`), whatever rows PostgreSQL picks; a page with as many rows as
  the list is the list (`WholePage`). `HoursInv`: what a replacement of working hours has read
  still holds when it writes, unless it was overtaken.

Only model-checked: liveness (`CallsEnd`, `GoesOffline`, `Reconnects`), which
needs ENABLED of the fair steps and is out of the prover's reach. Every other
property of a passing run is a theorem, and in each module the invariants of the
runs were checked by TLC before they were proved. The bound of
`FirstContactsFew` is a theorem only: it asks for instances larger than the run's.

## 7. Findings

`cancel_paid` is a violation run: its counterexample is the code's own behaviour
against a line of the documentation. The others were met while modelling, and
the models behave as the code does; no run is devoted to them.

Against what a comment or a document says:

- A token is used twice (`TokenCache.ts:11`), two conversations of one pair
  (`ChatService.ts:69-71`), logout leaves a session (`AuthService.ts:609`), a
  reconnected device is removed (`PresenceService.ts:96`), an order is rated
  twice by overlapping calls (`OrderService.ts:295`).
- `LocationService.ts:72` says the lock prevents races; the creation ignores
  whether it got it. `LocationRepository.find` has no WHERE and returns any row.
- search and explore speak of "approved workers"; the query asks for ACTIVE users
  only. Unread summary and conversation list are documented as complete or paged;
  `ChatController` reads `matchedData` without validation chains, so page, limit
  and cursor are always undefined: always the first ten conversations and the
  first thirty messages. The summary filters after it has cut the page.

Without such a line:

- createOrder never commits (`SpecializationRepository.ts:308`).
- The administrators' routes judge a state that nothing before them attaches, and
  answer 401 to everybody; nothing makes a user an ADMIN either.
  `unAuthorizeWorker`, before createWorkerProfile, keeps out exactly those the
  route is for. The cached user state is never cleared.
- findWorkGovernments and findSpecializations return everything on each page;
  getWorkGovernments filters workers by a government's fields;
  findSpecializationsWithSubSpecializations returns every sub of a chosen
  specialization, chosen or not, once per chosen row. A worker with two main
  locations appears twice in a search.
- `sortQuery || {updatedAt}` never sorts, since an empty list of fields is
  truthy: pages of an unsorted list may repeat or miss rows.
- Working hours are always read as none; deleting a sub-specialization under
  another parent answers 200 and deletes nothing; sub ids are not checked against
  their specialization; updating one writes back what was read before.
- PUT on a location with a government and no city keeps the old city.
- A WhatsApp attempt that fails is never repeated; codes then count as sent.
- A PAID order can be neither cancelled nor started on another day than its own.
- A socket that leaves while enter_chat validates stays in the chat
  (`PresenceService.ts:115`); a process that dies between SADD and EXPIRE leaves
  a key that never expires.

## 8. Not modelled

- Contact detection: regular expressions over texts; it writes only rows no other
  part reads.
- Distances, scores and the handleFilter and handleSort clauses: floating point and
  SQL fragments.
- Plain columns of a user's own rows (names, bio, addresses, coordinates): single
  statements no property tells apart.
- Rate limits by IP and by socket event: the counting is
  `express-rate-limit`'s and `rate-limiter-flexible`'s.
- Lengths of lifetimes and cooldowns: a key may expire at any time, which
  includes when it should.
- Development mode (`NODE_ENV=development`), which switches limits and token
  consumption off.
- Schema validation, error formatting, logging, API documentation; the bodies of
  the calls to Twilio, WhatsApp and Cloudinary.
- Payments, price negotiation, approval of workers and blocking of users: no code
  at this commit; they are external steps where tables and guards presume them.
