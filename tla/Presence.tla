------------------------------ MODULE Presence ------------------------------
(***************************************************************************)
(* Whether a user is online and inside a chat: socket/socketManager.ts,    *)
(* services/PresenceService.ts and cache/redis/ChatPresenceCache.ts, for   *)
(* one user with several devices and one of its conversations.             *)
(*                                                                         *)
(* Three records must agree with the sockets that are connected: the Redis *)
(* set of the user's sockets, the Redis set of its sockets inside the      *)
(* chat, and users.isOnline.  Connections, disconnections, chat events and *)
(* logouts are handlers that interleave at every await.                    *)
(***************************************************************************)
EXTENDS Naturals

CONSTANTS
  Socket,  \* socket ids: a device that reconnects has a new one
  Logout   \* the call POST /auth/logout, as a cleaner besides the sockets

VARIABLES
  up,        \* sockets whose transport is connected
  conn,      \* conn[s]: how far the connection handler of s got
  enter,     \* enter[s]: how far enter_chat of s got
  step,      \* step[x]: how far cleaner x got
  known,     \* known[x]: the conversation is on the list cleaner x read
  sockets,   \* Redis set sockets:{userId}
  inChat,    \* Redis set inChat:{conversationId}:{userId}
  isOnline,  \* users.isOnline
  nonEmpty   \* the conversation has a message

redis == <<sockets, inChat>>
handlers == <<conn, enter, step, known>>
vars == <<up, handlers, redis, isOnline, nonEmpty>>

----------------------------------------------------------------------------
\* State

Cleaner == Socket \cup {Logout}

ConnStage == {"none", "join", "added", "online", "ready", "dead"}
EnterStage == {"none", "validating"}
CleanStage == {"none", "remove", "find", "leave", "count", "findAll",
               "delSockets", "delInChat", "setOffline", "done", "dead"}

ASSUME PresenceAssumption == Logout \notin Socket

TypeOK ==
  /\ up \subseteq Socket
  /\ conn \in [Socket -> ConnStage]
  /\ enter \in [Socket -> EnterStage]
  /\ step \in [Cleaner -> CleanStage]
  /\ known \in [Cleaner -> BOOLEAN]
  /\ sockets \subseteq Socket
  /\ inChat \subseteq Socket
  /\ isOnline \in BOOLEAN
  /\ nonEmpty \in BOOLEAN

Init ==
  /\ up = {}
  /\ conn = [s \in Socket |-> "none"]
  /\ enter = [s \in Socket |-> "none"]
  /\ step = [x \in Cleaner |-> "none"]
  /\ known = [x \in Cleaner |-> FALSE]
  /\ sockets = {}
  /\ inChat = {}
  /\ isOnline = FALSE
  /\ nonEmpty \in BOOLEAN

----------------------------------------------------------------------------
\* A connection

ConnTo(s, from, to) ==
  /\ conn[s] = from
  /\ conn' = [conn EXCEPT ![s] = to]
  /\ UNCHANGED <<enter, step, known>>

Connect(s) ==
  /\ ConnTo(s, "none", "join")
  /\ up' = up \cup {s}
  /\ UNCHANGED <<redis, isOnline, nonEmpty>>

AddSocket(s) ==
  /\ ConnTo(s, "join", "added")
  /\ sockets' = sockets \cup {s}
  /\ UNCHANGED <<up, inChat, isOnline, nonEmpty>>

SetOnline(s) ==
  /\ ConnTo(s, "added", "online")
  /\ isOnline' = TRUE
  /\ UNCHANGED <<up, redis, nonEmpty>>

\* The update fails, which the handler logs.
SetOnlineFails(s) ==
  /\ ConnTo(s, "added", "online")
  /\ UNCHANGED <<up, redis, isOnline, nonEmpty>>

\* After the deliveries, which Chat models, the handlers are registered, also
\* when the transport is gone by then.
Register(s) ==
  /\ ConnTo(s, "online", "ready")
  /\ UNCHANGED <<up, redis, isOnline, nonEmpty>>

\* The transport closes; a handler that is registered by now is called.
Disconnect_Early(s) ==
  /\ s \in up
  /\ up' = up \ {s}
  /\ step' = [step EXCEPT ![s] = IF conn[s] = "none" THEN @ ELSE "remove"]
  /\ UNCHANGED <<conn, enter, known, redis, isOnline, nonEmpty>>
Disconnect(s) ==
  /\ s \in up
  /\ up' = up \ {s}
  /\ step' = [step EXCEPT ![s] = IF conn[s] = "ready" THEN "remove" ELSE @]
  /\ UNCHANGED <<conn, enter, known, redis, isOnline, nonEmpty>>

----------------------------------------------------------------------------
\* Chat events

Live(s) == s \in up /\ conn[s] = "ready"

\* enter_chat validates the participant before it adds the socket.
EnterAsk(s) ==
  /\ Live(s)
  /\ enter[s] = "none"
  /\ enter' = [enter EXCEPT ![s] = "validating"]
  /\ UNCHANGED <<up, conn, step, known, redis, isOnline, nonEmpty>>

EnterChat_WrongId(s) ==
  /\ enter[s] = "validating"
  /\ enter' = [enter EXCEPT ![s] = "none"]
  /\ inChat' = inChat \cup {Logout}
  /\ UNCHANGED <<up, conn, step, known, sockets, isOnline, nonEmpty>>
EnterChat(s) ==
  /\ enter[s] = "validating"
  /\ enter' = [enter EXCEPT ![s] = "none"]
  /\ inChat' = inChat \cup {s}
  /\ UNCHANGED <<up, conn, step, known, sockets, isOnline, nonEmpty>>

LeaveChat(s) ==
  /\ Live(s)
  /\ inChat' = inChat \ {s}
  /\ UNCHANGED <<up, handlers, sockets, isOnline, nonEmpty>>

FirstMessage ==
  /\ nonEmpty' = TRUE
  /\ UNCHANGED <<up, handlers, redis, isOnline>>

----------------------------------------------------------------------------
\* Cleaning up: handleSocketDisconnect by a socket, then handleUserOffline,
\* which a logout calls at once.

StepTo(x, from, to) ==
  /\ step[x] = from
  /\ step' = [step EXCEPT ![x] = to]
  /\ UNCHANGED <<up, conn, enter, nonEmpty>>

RemoveSocket(s) ==
  /\ StepTo(s, "remove", "find")
  /\ sockets' = sockets \ {s}
  /\ UNCHANGED <<known, inChat, isOnline>>

\* findNonEmptyConversationsWithParticipantsAndMessages
FindChats(s) ==
  /\ StepTo(s, "find", "leave")
  /\ known' = [known EXCEPT ![s] = nonEmpty]
  /\ UNCHANGED <<redis, isOnline>>

LeaveAllChats(s) ==
  /\ StepTo(s, "leave", "count")
  /\ inChat' = IF known[s] THEN inChat \ {s} ELSE inChat
  /\ UNCHANGED <<known, sockets, isOnline>>

CountSockets_One(s) ==
  /\ StepTo(s, "count", IF \E t \in Socket : sockets = {t}
                        THEN "findAll" ELSE "done")
  /\ UNCHANGED <<known, redis, isOnline>>
CountSockets(s) ==
  /\ StepTo(s, "count", IF sockets = {} THEN "findAll" ELSE "done")
  /\ UNCHANGED <<known, redis, isOnline>>

\* A logout cleans up for a user it finds online.
LogoutAsk ==
  /\ sockets # {}
  /\ StepTo(Logout, "none", "findAll")
  /\ UNCHANGED <<known, redis, isOnline>>

FindAllChats_Some(x) ==
  /\ nonEmpty
  /\ StepTo(x, "findAll", "delSockets")
  /\ known' = [known EXCEPT ![x] = nonEmpty]
  /\ UNCHANGED <<redis, isOnline>>
FindAllChats(x) ==
  /\ StepTo(x, "findAll", "delSockets")
  /\ known' = [known EXCEPT ![x] = nonEmpty]
  /\ UNCHANGED <<redis, isOnline>>

RemoveAllSockets(x) ==
  /\ StepTo(x, "delSockets", "delInChat")
  /\ sockets' = {}
  /\ UNCHANGED <<known, inChat, isOnline>>

RemoveAllInChat(x) ==
  /\ StepTo(x, "delInChat", "setOffline")
  /\ inChat' = IF known[x] THEN {} ELSE inChat
  /\ UNCHANGED <<known, sockets, isOnline>>

SetOffline(x) ==
  /\ StepTo(x, "setOffline", IF x = Logout THEN "none" ELSE "done")
  /\ isOnline' = FALSE
  /\ UNCHANGED <<known, redis>>

----------------------------------------------------------------------------
\* The environment

\* A key not refreshed for five minutes expires.
SocketsExpire ==
  /\ sockets # {}
  /\ sockets' = {}
  /\ UNCHANGED <<up, handlers, inChat, isOnline, nonEmpty>>

InChatExpires ==
  /\ inChat # {}
  /\ inChat' = {}
  /\ UNCHANGED <<up, handlers, sockets, isOnline, nonEmpty>>

InProgress(x) == step[x] \notin {"none", "done", "dead"}

\* A statement of a cleaner fails and its error ends it.
CleanFails(x) ==
  /\ InProgress(x)
  /\ step' = [step EXCEPT ![x] = IF x = Logout THEN "none" ELSE "dead"]
  /\ UNCHANGED <<up, conn, enter, known, redis, isOnline, nonEmpty>>

\* The server dies with all its sockets and handlers.
Crash ==
  /\ up' = {}
  /\ conn' = [s \in Socket |-> IF conn[s] = "none" THEN "none" ELSE "dead"]
  /\ enter' = [s \in Socket |-> "none"]
  /\ step' = [x \in Cleaner |->
       IF InProgress(x) THEN IF x = Logout THEN "none" ELSE "dead"
       ELSE step[x]]
  /\ UNCHANGED <<known, redis, isOnline, nonEmpty>>

----------------------------------------------------------------------------
\* The specification

Connection(s) ==
  \/ Connect(s)
  \/ AddSocket(s)
  \/ SetOnline(s)
  \/ SetOnlineFails(s)
  \/ Register(s)
  \/ Disconnect(s)

Event(s) ==
  \/ EnterAsk(s)
  \/ EnterChat(s)
  \/ LeaveChat(s)

Leaving(s) ==
  \/ RemoveSocket(s)
  \/ FindChats(s)
  \/ LeaveAllChats(s)
  \/ CountSockets(s)

Cleaning(x) ==
  \/ FindAllChats(x)
  \/ RemoveAllSockets(x)
  \/ RemoveAllInChat(x)
  \/ SetOffline(x)

Next ==
  \/ \E s \in Socket : Connection(s)
  \/ \E s \in Socket : Event(s)
  \/ \E s \in Socket : Leaving(s)
  \/ \E x \in Cleaner : Cleaning(x)
  \/ \E x \in Cleaner : CleanFails(x)
  \/ LogoutAsk
  \/ FirstMessage
  \/ SocketsExpire
  \/ InChatExpires
  \/ Crash

Spec == Init /\ [][Next]_vars

\* The event loop resumes every handler whose await is over.
Fairness ==
  /\ \A s \in Socket : WF_vars(Leaving(s))
  /\ \A x \in Cleaner : WF_vars(Cleaning(x))

FairSpec == Spec /\ Fairness

----------------------------------------------------------------------------
\* Properties

\* A socket whose disconnection got past removeSocket never comes back into
\* the user's set, since addSocket is over before the handlers exist.
DisconnectedStayOut ==
  \A s \in sockets : conn[s] # "none" /\ step[s] \in {"none", "remove", "dead"}

\* When every socket that ever connected has been cleaned up after, the user
\* is offline in Redis and in the database: of devices that leave together
\* the last to count sees none left (handleSocketDisconnect).
LastOneOut ==
  (\A s \in Socket : conn[s] = "none" \/ step[s] = "done") =>
    ~isOnline /\ sockets = {}

\* While all that connected are being cleaned up after, and nothing fails or
\* connects, the user gets to be offline.
AllLeft ==
  \A s \in Socket : conn[s] = "none" \/ InProgress(s) \/ step[s] = "done"
GoesOffline == AllLeft ~> (~isOnline \/ ~AllLeft)
=============================================================================
