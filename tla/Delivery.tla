------------------------------ MODULE Delivery ------------------------------
(***************************************************************************)
(* The WhatsApp connection of providers/whatsapp.ts that one-time          *)
(* passwords are sent through: module variables sock and isConnecting, the *)
(* session kept in Redis, and the handlers and timers that bring a lost    *)
(* connection back.                                                        *)
(*                                                                         *)
(* What runs between two awaits is one step.  Baileys and WhatsApp are     *)
(* external: a connection opens, is paired by a QR code, saves its         *)
(* credentials, and closes, with or without the session being revoked.     *)
(* A closed socket emits nothing more.                                     *)
(*                                                                         *)
(* Init, Next and Spec are named for the connection, so that a module may  *)
(* extend this one beside another.                                         *)
(***************************************************************************)
EXTENDS Integers, FiniteSets

CONSTANTS
  WASocket, \* sockets, reused once they are closed and have nothing to write
  MaxTimer, \* bound on pending timers, never reached
  NoSocket  \* sock = null

VARIABLES
  server,     \* "down", "starting" or "serving"
  sock,       \* the module's socket
  live,       \* the sockets that are open, or opening, and listened to
  using,      \* using[s]: the credentials socket s was made with
  writing,    \* sockets with a write of their credentials under way
  creds,      \* the credentials in Redis
  connecting, \* isConnecting
  session,    \* the credentials the attempt under way has read, "none" before
  timers,     \* pending setTimeout(connectWhatsApp, 2000)
  resetting,  \* close handlers at clearRedisAuth
  failed,     \* an attempt to connect has failed since the start (history)
  outcome     \* how the last message ended

connectionVars ==
  <<server, sock, live, using, writing, creds, connecting, session, timers,
    resetting, failed, outcome>>

----------------------------------------------------------------------------

\* "fresh" credentials wait for their QR code; WhatsApp refuses "revoked" ones.
Credentials == {"fresh", "paired", "revoked"}

ASSUME DeliveryAssumption ==
  /\ NoSocket \notin WASocket
  /\ MaxTimer \in Nat

ConnectionInit ==
  /\ server = "down"
  /\ sock = NoSocket
  /\ live = {}
  /\ using = [s \in WASocket |-> "fresh"]
  /\ writing = {}
  /\ creds = "none"
  /\ connecting = FALSE
  /\ session = "none"
  /\ timers = 0
  /\ resetting = 0
  /\ failed = FALSE
  /\ outcome = "none"

----------------------------------------------------------------------------
\* startServer awaits the first attempt before it listens.

StartServer ==
  /\ server = "down"
  /\ server' = "starting"
  /\ connecting' = TRUE
  /\ UNCHANGED <<sock, live, using, writing, creds, session, timers, resetting,
                 failed, outcome>>

\* The process dies: by itself, or of a rejection nobody handles (a write to
\* Redis in a listener).  Only Redis keeps anything.
ServerDies ==
  /\ server # "down"
  /\ server' = "down"
  /\ sock' = NoSocket
  /\ live' = {}
  /\ writing' = {}
  /\ connecting' = FALSE
  /\ session' = "none"
  /\ timers' = 0
  /\ resetting' = 0
  /\ failed' = FALSE
  /\ UNCHANGED <<using, creds, outcome>>

----------------------------------------------------------------------------
\* connectWhatsApp

\* The timer's callback returns at once if an attempt is under way.
TimerFires ==
  /\ timers > 0
  /\ timers' = timers - 1
  /\ connecting' = TRUE
  /\ UNCHANGED <<server, sock, live, using, writing, creds, session, resetting,
                 failed, outcome>>

ReadSession ==
  /\ connecting
  /\ session = "none"
  /\ session' = IF creds = "none" THEN "fresh" ELSE creds
  /\ UNCHANGED <<server, sock, live, using, writing, creds, connecting, timers,
                 resetting, failed, outcome>>

\* makeWASocket; nothing asks whether sock was still open.
Made(s) ==
  /\ connecting
  /\ session # "none"
  /\ s \notin live \cup writing \cup {sock}
  /\ using' = [using EXCEPT ![s] = session]
  /\ sock' = s
  /\ live' = live \cup {s}
  /\ connecting' = FALSE
  /\ session' = "none"
  /\ server' = "serving"
  /\ UNCHANGED <<writing, creds, timers, resetting, failed, outcome>>

\* The catch logs the error; nothing tries again.
NotMade ==
  /\ connecting
  /\ connecting' = FALSE
  /\ session' = "none"
  /\ failed' = TRUE
  /\ server' = "serving"
  /\ UNCHANGED <<sock, live, using, writing, creds, timers, resetting, outcome>>

----------------------------------------------------------------------------
\* connection.update with a close.  destroySocket stops listening to sock,
\* whichever socket the event is of, and closes it; if closing throws, sock
\* stays set.  A revoked session, or a conflict, is cleared from Redis first.

\* The listeners left on, so that the socket's own closing is heard.
DestroySocket_Heard(s) ==
  /\ UNCHANGED live
  /\ sock' = NoSocket
DestroySocket(s) ==
  /\ live' = live \ {s, sock}
  /\ sock' \in {NoSocket, sock}

CloseHandler(s, reset) ==
  /\ s \in live
  /\ timers < MaxTimer /\ resetting < MaxTimer
  /\ DestroySocket(s)
  /\ IF reset THEN resetting' = resetting + 1 /\ UNCHANGED timers
              ELSE timers' = timers + 1 /\ UNCHANGED resetting
  /\ UNCHANGED <<server, using, writing, creds, connecting, session, failed, outcome>>

Close(s) == CloseHandler(s, FALSE)

LoggedOut(s) == using[s] = "revoked" /\ CloseHandler(s, TRUE)

Conflict(s) == CloseHandler(s, TRUE)

\* The session cleared, and no timer set.
ClearRedisAuth_NoTimer ==
  /\ resetting > 0
  /\ resetting' = resetting - 1
  /\ creds' = "none"
  /\ UNCHANGED <<server, sock, live, using, writing, connecting, session, timers,
                 failed, outcome>>
ClearRedisAuth ==
  /\ resetting > 0
  /\ resetting' = resetting - 1
  /\ creds' = "none"
  /\ timers' = timers + 1
  /\ UNCHANGED <<server, sock, live, using, writing, connecting, session, failed,
                 outcome>>

----------------------------------------------------------------------------
\* Credentials

Pair(s) ==
  /\ s \in live
  /\ using[s] = "fresh"
  /\ using' = [using EXCEPT ![s] = "paired"]
  /\ writing' = writing \cup {s}
  /\ UNCHANGED <<server, sock, live, creds, connecting, session, timers,
                 resetting, failed, outcome>>

\* saveCreds lands, also after its socket was closed or the session cleared.
SaveCreds(s) ==
  /\ s \in writing
  /\ creds' = using[s]
  /\ writing' = writing \ {s}
  /\ UNCHANGED <<server, sock, live, using, connecting, session, timers,
                 resetting, failed, outcome>>

\* The phone's owner ends the session.
Revoke ==
  LET After(c) == IF c = "paired" THEN "revoked" ELSE c IN
  /\ "paired" \in {creds} \cup {using[s] : s \in live}
  /\ creds' = After(creds)
  /\ session' = After(session)
  /\ using' = [s \in WASocket |-> After(using[s])]
  /\ UNCHANGED <<server, sock, live, writing, connecting, timers, resetting,
                 failed, outcome>>

----------------------------------------------------------------------------
\* sendMessage, for a code that goes by WhatsApp.  Without a socket it throws;
\* what the socket answers is logged only, so that the code counts as sent.

SendMessage ==
  /\ server = "serving"
  /\ outcome' \in IF sock = NoSocket THEN {"thrown"}
                  ELSE IF sock \in live /\ using[sock] = "paired"
                       THEN {"sent", "swallowed"} ELSE {"swallowed"}
  /\ UNCHANGED <<server, sock, live, using, writing, creds, connecting, session,
                 timers, resetting, failed>>

----------------------------------------------------------------------------
Attempt == NotMade \/ \E s \in WASocket : Made(s)

ConnectionNext ==
  \/ StartServer \/ ServerDies
  \/ TimerFires \/ ReadSession \/ NotMade
  \/ ClearRedisAuth \/ Revoke \/ SendMessage
  \/ \E s \in WASocket :
       Made(s) \/ Close(s) \/ LoggedOut(s) \/ Conflict(s) \/ Pair(s) \/ SaveCreds(s)

ConnectionSpec == ConnectionInit /\ [][ConnectionNext]_connectionVars

\* Timers fire, and calls to Redis and WhatsApp come back.
FairConnection ==
  /\ ConnectionSpec
  /\ WF_connectionVars(TimerFires)
  /\ WF_connectionVars(ReadSession)
  /\ WF_connectionVars(Attempt)
  /\ WF_connectionVars(ClearRedisAuth)
  /\ \A s \in WASocket : WF_connectionVars(SaveCreds(s))

----------------------------------------------------------------------------
\* Properties

\* There is never more than one connection, attempt, timer or reset, so that no
\* two sockets compete for the session; and there is one as long as the server
\* serves and no attempt has failed.
Chain ==
  Cardinality(live) + timers + resetting + (IF connecting THEN 1 ELSE 0)

OneChain == Chain <= 1 /\ (server # "down" /\ ~failed => Chain = 1)

\* While the server serves, a lost connection is made again, a revoked session
\* included, unless an attempt fails.
Reconnects == server = "serving" ~> live # {} \/ failed \/ server = "down"
=============================================================================
