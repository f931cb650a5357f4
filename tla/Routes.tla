-------------------------------- MODULE Routes --------------------------------
(***************************************************************************)
(* The HTTP surface: what stands before each handler.                      *)
(*                                                                         *)
(* A route is the sequence of its middlewares, those its routers are       *)
(* mounted with first.  "access" and "refresh" verify a token and attach   *)
(* the user's state; "active", "admin", "worker", "notWorker", "client"    *)
(* and "notClient" judge the attached state; the others ("device",         *)
(* "limit", "body", "query", "params", "upload", "login", "register",      *)
(* "sendLimit", "verifyLimit") judge the request alone and let any         *)
(* well-formed one pass.                                                   *)
(***************************************************************************)
EXTENDS Naturals, Sequences, TLC

Mount(prefix, router) == [h \in DOMAIN router |-> prefix \o router[h]]

AuthRouter == [
  requestOTP          |-> <<"body", "sendLimit">>,
  verifyOTP           |-> <<"body", "verifyLimit">>,
  registerClient      |-> <<"upload", "register", "body">>,
  registerWorker      |-> <<"upload", "register", "body">>,
  login               |-> <<"login">>,
  logout              |-> <<"access", "active">>,
  generateAccessToken |-> <<"refresh", "active">>,
  reviewStatus        |-> <<"access">>]

LocationRouter == [
  list       |-> <<"query">>,
  create     |-> <<"body">>,
  getMain    |-> <<>>,
  updateMain |-> <<"body">>,
  update     |-> <<"params", "body">>,
  getById    |-> <<"params">>]

DashboardRouter == LocationRouter @@ [
  getUser                      |-> <<"active">>,
  updateUser                   |-> <<"upload", "active", "body">>,
  createWorkerProfile          |-> <<"active", "notWorker", "upload", "body">>,
  getWorkerProfile             |-> <<"active", "worker">>,
  getWorkerWorkingHours        |-> <<"active", "worker">>,
  setWorkerWorkingHours        |-> <<"active", "worker", "body">>,
  updateWorkerProfile          |-> <<"active", "worker", "body">>,
  deleteWorkerProfile          |-> <<"active", "worker", "client">>,
  getWorkerGovernments         |-> <<"active", "worker", "query">>,
  addWorkerGovernments         |-> <<"active", "worker", "body">>,
  deleteWorkerGovernments      |-> <<"active", "worker", "query", "body">>,
  getWorkerSpecializationsTree |-> <<"active", "worker", "query">>,
  getWorkerSpecializations     |-> <<"active", "worker", "query">>,
  addWorkerSpecializations     |-> <<"active", "worker", "body">>,
  deleteWorkerSpecializations  |-> <<"active", "worker", "query", "body">>,
  createClientProfile          |-> <<"active", "notClient", "body">>,
  getClientProfile             |-> <<"active", "client">>,
  updateClientProfile          |-> <<"active", "client", "body">>,
  deleteClientProfile          |-> <<"active", "worker", "client">>]

ChatRouter == [
  getOrCreateConversation |-> <<"access", "client", "body">>,
  getConversations        |-> <<"query">>,
  getUnreadSummary        |-> <<"query">>,
  getMessages             |-> <<"params", "query">>,
  getMissedMessages       |-> <<"params", "query">>,
  sendImageMessage        |-> <<"params", "upload">>]

WorkersRouter == [
  searchWorkers              |-> <<"query">>,
  getWorkerById              |-> <<"params">>,
  getWorkerOccupiedTimeSlots |-> <<"params", "query">>,
  getTreeOfWorker            |-> <<>>]

GovernmentRouter == [
  getGovernments         |-> <<"query">>,
  getGovernmentById      |-> <<"params">>,
  createGovernment       |-> <<"active", "admin", "body">>,
  updateGovernment       |-> <<"active", "admin", "params", "body">>,
  deleteGovernment       |-> <<"active", "admin", "params">>,
  getCitiesByGovernment  |-> <<"params", "query">>]

SpecializationRouter == [
  getSpecializations      |-> <<"query">>,
  getSpecializationById   |-> <<"params">>,
  getSubSpecializations   |-> <<"params", "query">>,
  createSpecialization    |-> <<"active", "admin", "body">>,
  updateSpecialization    |-> <<"active", "admin", "params", "body">>,
  deleteSpecialization    |-> <<"active", "admin", "params">>,
  createSubSpecialization |-> <<"active", "admin", "params", "body">>,
  deleteSubSpecialization |-> <<"active", "admin", "params", "params">>]

OrdersRouter == [
  createOrder  |-> <<"upload", "body">>,
  listOrders   |-> <<"query">>,
  getOrderById |-> <<"params">>,
  cancelOrder  |-> <<"params">>,
  specifyRange |-> <<"params", "body">>,
  startWork    |-> <<"params">>,
  finishWork   |-> <<"params">>,
  rateOrder    |-> <<"params", "body">>]

MainRouter ==
  Mount(<<"limit">>, AuthRouter)
    @@ Mount(<<"access", "active">>, DashboardRouter)
    @@ Mount(<<"access", "active">>, ChatRouter)
    @@ WorkersRouter @@ GovernmentRouter @@ SpecializationRouter
    @@ Mount(<<"access", "active">>, OrdersRouter)

\* The socket server takes an access token of an active user; what the
\* connection's events may do is judged by the state attached then.
SocketServer == [connection |-> <<"access", "active">>]

\* Every route: app.ts mounts the main router behind two checks.
App == Mount(<<"device", "limit">>, MainRouter) @@ SocketServer

Handler == DOMAIN App

----------------------------------------------------------------------------
\* The checks of the attached state

StateGuard == {"active", "admin", "worker", "notWorker", "client", "notClient"}

IsActive(state) == state.status = "ACTIVE"
AuthorizeAdmin(state) == state.role = "ADMIN"
AuthorizeWorker(state) ==
  state.worker # 0 /\ state.verification = "APPROVED"
AuthorizeClient(state) == state.client # 0
UnAuthorizeClient(state) == state.client = 0
\* As written: a user without a worker profile gets the 403, and the next()
\* that follows it finds the rest of the chain already run through.
UnAuthorizeWorker(state) == state.worker # 0

Passes(guard, state) ==
  CASE guard = "active"    -> IsActive(state)
    [] guard = "admin"     -> AuthorizeAdmin(state)
    [] guard = "worker"    -> AuthorizeWorker(state)
    [] guard = "notWorker" -> UnAuthorizeWorker(state)
    [] guard = "client"    -> AuthorizeClient(state)
    [] guard = "notClient" -> UnAuthorizeClient(state)

Needs == [h \in Handler |->
  {App[h][i] : i \in DOMAIN App[h]} \cap StateGuard]

Behind == [token \in {"access", "refresh"} |->
  {h \in Handler : \E i \in DOMAIN App[h] : App[h][i] = token}]

\* A guard finds a state only behind the middleware that attaches one; before
\* it the guard answers 401, and no request passes.
Servable == {h \in Handler :
  \A i \in DOMAIN App[h] : App[h][i] \in StateGuard =>
    \E j \in 1..(i - 1) : App[h][j] \in DOMAIN Behind}

\* A request whose user has this state reaches handler h.
Admits(h, state) ==
  h \in Servable /\ \A guard \in Needs[h] : Passes(guard, state)

==============================================================================
