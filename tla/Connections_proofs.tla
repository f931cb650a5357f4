-------------------------- MODULE Connections_proofs --------------------------
(***************************************************************************)
(* Theorems about the two parts that keep connections: Presence, with the  *)
(* sockets of a user's devices, and Delivery, with the server's own socket *)
(* to WhatsApp; for any number of sockets of each.  The two share nothing. *)
(***************************************************************************)
EXTENDS Presence, Delivery, FiniteSetTheorems, TLAPS

\* A cleanup by a socket starts when its connection handler is over.
CleanInv ==
  \A s \in Socket : step[s] # "none" => conn[s] \in {"ready", "dead"}

\* Until every socket that connected is cleaned up after, one is missing.
Inv == /\ TypeOK /\ CleanInv /\ DisconnectedStayOut
       /\ (\A s \in Socket : conn[s] = "none" \/ step[s] = "done") => ~isOnline

\* LastOneOut follows: a socket in the set has not been cleaned up after.
LEMMA InvImpliesLast == Inv => LastOneOut
BY DEF Inv, LastOneOut, DisconnectedStayOut, TypeOK

LEMMA InitInv == Init => Inv
BY PresenceAssumption
   DEF Init, Inv, TypeOK, CleanInv, DisconnectedStayOut, Cleaner,
       ConnStage, EnterStage, CleanStage

\* A socket is a cleaner, and Logout is none of them.
LEMMA SocketCleans == Socket \subseteq Cleaner /\ Logout \in Cleaner /\ Logout \notin Socket
BY PresenceAssumption DEF Cleaner

LEMMA ConnectionStep ==
  ASSUME Inv, NEW s \in Socket, Connection(s)
  PROVE  Inv'
<1> USE SocketCleans DEF Inv, TypeOK, CleanInv, DisconnectedStayOut, redis
<1>1. CASE Connect(s)
  BY <1>1 DEF Connect, ConnTo, ConnStage
<1>2. CASE AddSocket(s)
  BY <1>2 DEF AddSocket, ConnTo, ConnStage
<1>3. CASE SetOnline(s)
  BY <1>3 DEF SetOnline, ConnTo, ConnStage
<1>4. CASE SetOnlineFails(s)
  BY <1>4 DEF SetOnlineFails, ConnTo, ConnStage
<1>5. CASE Register(s)
  BY <1>5 DEF Register, ConnTo, ConnStage
<1>6. CASE Disconnect(s)
  BY <1>6 DEF Disconnect, CleanStage
<1> QED BY <1>1, <1>2, <1>3, <1>4, <1>5, <1>6 DEF Connection

LEMMA EventStep ==
  ASSUME Inv, NEW s \in Socket, Event(s)
  PROVE  Inv'
<1> USE DEF Inv, TypeOK, CleanInv, DisconnectedStayOut, redis, handlers
<1>1. CASE EnterAsk(s)
  BY <1>1 DEF EnterAsk, EnterStage
<1>2. CASE EnterChat(s)
  BY <1>2 DEF EnterChat, EnterStage
<1>3. CASE LeaveChat(s)
  BY <1>3 DEF LeaveChat
<1> QED BY <1>1, <1>2, <1>3 DEF Event

LEMMA LeavingStep ==
  ASSUME Inv, NEW s \in Socket, Leaving(s)
  PROVE  Inv'
<1> USE SocketCleans
    DEF Inv, TypeOK, CleanInv, DisconnectedStayOut, redis, StepTo
<1>1. CASE RemoveSocket(s)
  BY <1>1 DEF RemoveSocket, CleanStage
<1>2. CASE FindChats(s)
  BY <1>2 DEF FindChats, CleanStage
<1>3. CASE LeaveAllChats(s)
  BY <1>3 DEF LeaveAllChats, CleanStage
<1>4. CASE CountSockets(s)
  \* Ending here leaves a socket in the set, which is not cleaned up after.
  <2>1. CASE sockets = {}
    BY <1>4, <2>1 DEF CountSockets, CleanStage
  <2>2. CASE sockets # {}
    <3>1. PICK t \in sockets : conn[t] # "none" /\ step[t] # "done" /\ t # s
      BY <1>4, <2>2 DEF CountSockets
    <3>2. t \in Socket /\ conn'[t] # "none" /\ step'[t] # "done"
      BY <1>4, <2>2, <3>1 DEF CountSockets
    <3> QED BY <1>4, <2>2, <3>2 DEF CountSockets, CleanStage
  <2> QED BY <2>1, <2>2
<1> QED BY <1>1, <1>2, <1>3, <1>4 DEF Leaving

LEMMA CleaningStep ==
  ASSUME Inv, NEW x \in Cleaner, Cleaning(x)
  PROVE  Inv'
<1> USE SocketCleans
    DEF Inv, TypeOK, CleanInv, DisconnectedStayOut, redis, StepTo
<1>1. CASE FindAllChats(x)
  BY <1>1 DEF FindAllChats, CleanStage
<1>2. CASE RemoveAllSockets(x)
  BY <1>2 DEF RemoveAllSockets, CleanStage
<1>3. CASE RemoveAllInChat(x)
  BY <1>3 DEF RemoveAllInChat, CleanStage
<1>4. CASE SetOffline(x)
  BY <1>4 DEF SetOffline, CleanStage
<1> QED BY <1>1, <1>2, <1>3, <1>4 DEF Cleaning

LEMMA EnvironmentStep ==
  ASSUME Inv,
         \/ \E x \in Cleaner : CleanFails(x)
         \/ LogoutAsk \/ FirstMessage \/ SocketsExpire \/ InChatExpires
         \/ Crash
  PROVE  Inv'
<1> USE SocketCleans
    DEF Inv, TypeOK, CleanInv, DisconnectedStayOut, redis, handlers
<1>1. CASE \E x \in Cleaner : CleanFails(x)
  <2>1. PICK x \in Cleaner : CleanFails(x)
    BY <1>1
  <2> QED BY <2>1 DEF CleanFails, InProgress, CleanStage
<1>2. CASE LogoutAsk
  BY <1>2 DEF LogoutAsk, StepTo, CleanStage
<1>3. CASE FirstMessage
  BY <1>3 DEF FirstMessage
<1>4. CASE SocketsExpire
  BY <1>4 DEF SocketsExpire
<1>5. CASE InChatExpires
  BY <1>5 DEF InChatExpires
<1>6. CASE Crash
  BY <1>6 DEF Crash, InProgress, CleanStage, ConnStage, EnterStage
<1> QED BY <1>1, <1>2, <1>3, <1>4, <1>5, <1>6

LEMMA NextInv == Inv /\ [Next]_vars => Inv'
<1> SUFFICES ASSUME Inv, [Next]_vars PROVE Inv'
  OBVIOUS
<1>1. CASE UNCHANGED vars
  BY <1>1 DEF vars, handlers, redis, Inv, TypeOK, CleanInv,
              DisconnectedStayOut
<1>2. CASE Next
  BY <1>2, ConnectionStep, EventStep, LeavingStep, CleaningStep,
     EnvironmentStep DEF Next
<1> QED BY <1>1, <1>2

----------------------------------------------------------------------------
\* What the sockets of a user's devices keep

\* The handlers and the records they keep are well typed.
THEOREM PresenceTyped == Spec => []TypeOK
<1>1. Inv => TypeOK
  BY DEF Inv
<1> QED BY <1>1, InitInv, NextInv, PTL DEF Spec

\* No interleaving of connection and disconnection brings back a socket that
\* removeSocket has removed.
THEOREM GoneForGood == Spec => []DisconnectedStayOut
<1>1. Inv => DisconnectedStayOut
  BY DEF Inv
<1> QED BY <1>1, InitInv, NextInv, PTL DEF Spec

\* Whichever device's disconnection counts last turns the user offline, for
\* any number of devices, logouts, expiries and failures in between.
THEOREM LastTurnsOffline == Spec => []LastOneOut
<1> QED BY InvImpliesLast, InitInv, NextInv, PTL DEF Spec

----------------------------------------------------------------------------
\* Delivery

\* The parts of the state the chain is counted by.
ChainTyped ==
  /\ server \in {"down", "starting", "serving"}
  /\ sock \in WASocket \cup {NoSocket}
  /\ timers \in Nat
  /\ resetting \in Nat
  /\ connecting \in BOOLEAN
  /\ failed \in BOOLEAN

\* Only the module's own socket is listened to.
Listened == live \subseteq {sock}

\* The chain, without counting a set.
OpenSocket == IF live = {} THEN 0 ELSE 1
Links == OpenSocket + timers + resetting + (IF connecting THEN 1 ELSE 0)

\* With the server down the chain is empty: starting it may begin a new one.
ChainInv ==
  /\ ChainTyped /\ Listened
  /\ Links <= 1
  /\ server = "down" => Links = 0
  /\ server # "down" /\ ~failed => Links = 1

LEMMA LinksIsChain == Listened => Chain = Links
<1> SUFFICES ASSUME Listened PROVE Cardinality(live) = OpenSocket
  BY DEF Chain, Links
<1>1. CASE live = {}
  BY <1>1, FS_EmptySet DEF OpenSocket
<1>2. CASE live # {}
  <2>1. live = {sock}
    BY <1>2 DEF Listened
  <2> QED BY <1>2, <2>1, FS_Singleton DEF OpenSocket
<1> QED BY <1>1, <1>2

LEMMA ChainInit == ConnectionInit => ChainInv
<1> SUFFICES ASSUME ConnectionInit PROVE ChainInv
  OBVIOUS
<1>1. ChainTyped /\ Listened
  BY DEF ConnectionInit, ChainTyped, Listened
<1>2. OpenSocket = 0 /\ Links = 0
  BY DEF ConnectionInit, OpenSocket, Links
<1> QED BY <1>1, <1>2 DEF ChainInv, ConnectionInit

\* A close ends the socket and begins one reset or sets one timer.
LEMMA CloseStep ==
  ASSUME ChainInv, NEW s \in WASocket, NEW reset \in BOOLEAN,
         CloseHandler(s, reset)
  PROVE  ChainInv'
<1>1. live # {} /\ live' = {}
  BY DEF CloseHandler, DestroySocket, ChainInv, Listened
<1>2. sock' \in WASocket \cup {NoSocket}
  BY DEF CloseHandler, DestroySocket, ChainInv, ChainTyped
<1> QED
  BY <1>1, <1>2
     DEF CloseHandler, ChainInv, ChainTyped, Listened, OpenSocket, Links

LEMMA MadeStep ==
  ASSUME ChainInv, NEW s \in WASocket, Made(s)
  PROVE  ChainInv'
<1>1. live = {} /\ live' = {s} /\ sock' = s
  BY DEF Made, ChainInv, ChainTyped, Listened, OpenSocket, Links
<1>2. OpenSocket' = 1 /\ timers' = 0 /\ resetting' = 0 /\ ~connecting'
  BY <1>1 DEF Made, ChainInv, ChainTyped, OpenSocket, Links
<1>3. Links' = 1
  BY <1>2 DEF Links
<1>4. ChainTyped' /\ server' = "serving"
  BY <1>2 DEF Made, ChainInv, ChainTyped
<1> QED BY <1>1, <1>3, <1>4 DEF ChainInv, Listened

LEMMA WhatsAppStep ==
  ASSUME ChainInv, NEW s \in WASocket,
         \/ Made(s) \/ Close(s) \/ LoggedOut(s)
         \/ Conflict(s) \/ Pair(s) \/ SaveCreds(s)
  PROVE  ChainInv'
<1>1. CASE Made(s)
  BY <1>1, MadeStep
<1>2. CASE Close(s) \/ LoggedOut(s) \/ Conflict(s)
  BY <1>2, CloseStep DEF Close, LoggedOut, Conflict
<1>3. CASE Pair(s)
  BY <1>3 DEF Pair, ChainInv, ChainTyped, Listened, OpenSocket, Links
<1>4. CASE SaveCreds(s)
  BY <1>4 DEF SaveCreds, ChainInv, ChainTyped, Listened, OpenSocket, Links
<1> QED BY <1>1, <1>2, <1>3, <1>4

LEMMA ChainStep == ChainInv /\ [ConnectionNext]_connectionVars => ChainInv'
<1> SUFFICES ASSUME ChainInv, [ConnectionNext]_connectionVars PROVE ChainInv'
  OBVIOUS
<1> USE DEF ChainInv, ChainTyped, Listened, OpenSocket, Links
<1>1. CASE StartServer
  BY <1>1 DEF StartServer
<1>2. CASE ServerDies
  <2>1. OpenSocket' = 0 /\ timers' = 0 /\ resetting' = 0 /\ ~connecting'
    BY <1>2 DEF ServerDies
  <2>2. Links' = 0
    BY <2>1
  <2>3. ChainTyped' /\ Listened'
    BY <1>2 DEF ServerDies
  <2>4. server' = "down"
    BY <1>2 DEF ServerDies
  <2> HIDE DEF ChainTyped, Listened, Links
  <2> QED BY <2>2, <2>3, <2>4
<1>3. CASE TimerFires
  \* The pending timer is the whole chain: no attempt is under way.
  <2>1. timers = 1 /\ ~connecting
    BY <1>3 DEF TimerFires
  <2> QED BY <1>3, <2>1 DEF TimerFires
<1>4. CASE ReadSession
  BY <1>4 DEF ReadSession
<1>5. CASE NotMade
  <2>1. OpenSocket' = 0 /\ timers' = 0 /\ resetting' = 0 /\ ~connecting'
    BY <1>5 DEF NotMade
  <2>2. Links' = 0
    BY <2>1
  <2>3. server' = "serving" /\ failed'
    BY <1>5 DEF NotMade
  <2>4. ChainTyped' /\ Listened'
    BY <1>5 DEF NotMade
  <2> HIDE DEF ChainTyped, Listened, Links
  <2> QED BY <2>2, <2>3, <2>4
<1>6. CASE ClearRedisAuth
  BY <1>6 DEF ClearRedisAuth
<1>7. CASE Revoke
  BY <1>7 DEF Revoke
<1>8. CASE SendMessage
  BY <1>8 DEF SendMessage
<1>9. CASE UNCHANGED connectionVars
  BY <1>9 DEF connectionVars
<1> QED BY <1>1, <1>2, <1>3, <1>4, <1>5, <1>6, <1>7, <1>8, <1>9, WhatsAppStep
        DEF ConnectionNext

\* Whatever closes, conflicts, failed attempts and crashes come together, at
\* most one connection, attempt, timer or reset exists, and one exists until
\* an attempt fails: for any number of sockets.
THEOREM ChainStaysOne == ConnectionSpec => []OneChain
<1>1. ChainInv => OneChain
  BY LinksIsChain DEF ChainInv, OneChain
<1> QED BY <1>1, ChainInit, ChainStep, PTL DEF ConnectionSpec

\* No socket that is listened to has been replaced: whatever an event of it
\* destroys is the socket the event is of (destroySocket in whatsapp.ts).
THEOREM OnlyOwnSocketHeard == ConnectionSpec => []Listened
<1>1. ChainInv => Listened
  BY DEF ChainInv
<1> QED BY <1>1, ChainInit, ChainStep, PTL DEF ConnectionSpec
=============================================================================
