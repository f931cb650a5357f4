-------------------------------- MODULE Chat --------------------------------
(***************************************************************************)
(* Conversations of one client with one worker: services/ChatService.ts    *)
(* over tables conversations, messages and conversation_participants, as   *)
(* the socket handlers and chat controllers call it.                       *)
(*                                                                         *)
(* A call is a process of Request and each of its database statements a    *)
(* step.  Only atomicSendMessage runs in a transaction: its update of the  *)
(* conversation's counter keeps the row locked until the message is        *)
(* committed, while readers see the last committed counter.  What the      *)
(* presence cache answers is any pair of Booleans; Presence models it.     *)
(***************************************************************************)
EXTENDS Naturals, FiniteSets

CONSTANTS
  Conversation,  \* ids of conversation rows
  Request,       \* concurrent calls
  MaxMessage,    \* bound on the messages of a conversation
  NoRequest,     \* "no transaction holds the row"
  NoConversation,\* "the call has no conversation"
  NoJob          \* "the call has not been made"

VARIABLES
  opened,    \* conversations that exist
  counter,   \* counter[c]: committed messageCounter
  locked,    \* locked[c]: the call whose transaction holds c's row
  sent,      \* sent[c]: numbers of the committed messages
  read,      \* read[c][u]: lastReadMessageNumber of participant u
  received,  \* received[c][u]: lastReceivedMessageNumber of participant u
  cursor,    \* cursor[c][u]: last message number u's device has fetched
  held,      \* held[c][u]: the messages u's device has fetched
  told,      \* told[c][u]: up to where u was told its partner has read
  pc,        \* pc[r]: how far call r got
  job        \* job[r]: what call r is about

table == <<opened, counter, locked, sent>>
marks == <<read, received>>
device == <<cursor, held, told>>
vars == <<table, marks, device, pc, job>>

----------------------------------------------------------------------------
\* State

Role == {"client", "worker"}
Other(u) == IF u = "client" THEN "worker" ELSE "client"

Number == 0..MaxMessage

Job == [op : {"open", "send", "connect", "enter", "read"}, user : Role,
        conv : Conversation \cup {NoConversation},
        number : Number,    \* the message the call sends, delivers or reads
        upTo : Number,      \* the counter markAllAsRead found
        inChat : BOOLEAN]   \* the recipient was inside the chat

Stage == {"idle", "find", "create", "count", "insert", "sent", "presence",
          "deliver", "delivering", "markAll", "both", "readLeft",
          "receivedLeft", "read", "reading", "marked"}

ASSUME ChatAssumption ==
  /\ MaxMessage \in Nat
  /\ NoRequest \notin Request
  /\ NoConversation \notin Conversation
  /\ NoJob \notin Job

PerParticipant == [Conversation -> [Role -> Number]]

TypeOK ==
  /\ opened \subseteq Conversation
  /\ counter \in [Conversation -> Number]
  /\ locked \in [Conversation -> Request \cup {NoRequest}]
  /\ sent \in [Conversation -> SUBSET Number]
  /\ read \in PerParticipant
  /\ received \in PerParticipant
  /\ cursor \in PerParticipant
  /\ held \in [Conversation -> [Role -> SUBSET Number]]
  /\ told \in PerParticipant
  /\ pc \in [Request -> Stage]
  /\ job \in [Request -> Job \cup {NoJob}]

Init ==
  /\ opened = {}
  /\ counter = [c \in Conversation |-> 0]
  /\ locked = [c \in Conversation |-> NoRequest]
  /\ sent = [c \in Conversation |-> {}]
  /\ read = [c \in Conversation |-> [u \in Role |-> 0]]
  /\ received = [c \in Conversation |-> [u \in Role |-> 0]]
  /\ cursor = [c \in Conversation |-> [u \in Role |-> 0]]
  /\ held = [c \in Conversation |-> [u \in Role |-> {}]]
  /\ told = [c \in Conversation |-> [u \in Role |-> 0]]
  /\ pc = [r \in Request |-> "idle"]
  /\ job = [r \in Request |-> NoJob]

----------------------------------------------------------------------------
\* The participant a call marks: a send marks its recipient, every other call
\* its own user.
Target(j) == IF j.op = "send" THEN Other(j.user) ELSE j.user

\* findParticipant: the mark of the participant a call marks.
FindParticipant(mark, r) == mark[job[r].conv][Target(job[r])]

\* Both users take part in every conversation that is there.
ValidateParticipant(c) == c \in opened

Accept(r, stage, op, u, c, n) ==
  /\ pc[r] = "idle"
  /\ pc' = [pc EXCEPT ![r] = stage]
  /\ job' = [job EXCEPT ![r] = [op |-> op, user |-> u, conv |-> c,
       number |-> n, upTo |-> 0, inChat |-> FALSE]]
  /\ UNCHANGED <<table, marks, device>>

At(r, stage) == pc[r] = stage
GoTo(r, stage) == pc' = [pc EXCEPT ![r] = stage] /\ UNCHANGED job
Finish(r) ==
  /\ pc' = [pc EXCEPT ![r] = "idle"]
  /\ job' = [job EXCEPT ![r] = NoJob]

Greatest(a, b) == IF a < b THEN b ELSE a

\* updateLastRead and updateLastReceived: one UPDATE each, with GREATEST.
UpdateLastRead_Assign(c, u, n) == read' = [read EXCEPT ![c][u] = n]
UpdateLastRead(c, u, n) ==
  read' = [read EXCEPT ![c][u] = Greatest(@, n)]
UpdateLastReceived(c, u, n) ==
  received' = [received EXCEPT ![c][u] = Greatest(@, n)]

----------------------------------------------------------------------------
\* getOrCreateConversation, by the client.

OpenAsk(r) == Accept(r, "find", "open", "client", NoConversation, 0)

\* findByPair
OpenFound(r) ==
  /\ At(r, "find")
  /\ opened # {}
  /\ Finish(r)
  /\ UNCHANGED <<table, marks, device>>

OpenMissing(r) ==
  /\ At(r, "find")
  /\ opened = {}
  /\ GoTo(r, "create")
  /\ UNCHANGED <<table, marks, device>>

\* The uniqueness constraints are per conversation, so none refuses a second
\* conversation of the pair.
CreateWithParticipants(c) ==
  /\ c \notin opened
  /\ opened' = opened \cup {c}

OpenCreate(r, c) ==
  /\ At(r, "create")
  /\ CreateWithParticipants(c)
  /\ Finish(r)
  /\ UNCHANGED <<counter, locked, sent, marks, device>>

----------------------------------------------------------------------------
\* send_message and sendMessage

SendAsk(r, u, c) ==
  /\ ValidateParticipant(c)
  /\ Accept(r, "count", "send", u, c, 0)

\* The increment waits for the row and reads what the last holder committed.
SendCount_Early(r) ==
  LET c == job[r].conv IN
  /\ At(r, "count")
  /\ counter[c] < MaxMessage
  /\ counter' = [counter EXCEPT ![c] = @ + 1]
  /\ job' = [job EXCEPT ![r].number = counter[c] + 1]
  /\ pc' = [pc EXCEPT ![r] = "insert"]
  /\ UNCHANGED <<opened, locked, sent, marks, device>>
SendCount(r) ==
  LET c == job[r].conv IN
  /\ At(r, "count")
  /\ locked[c] = NoRequest
  /\ counter[c] < MaxMessage
  /\ locked' = [locked EXCEPT ![c] = r]
  /\ job' = [job EXCEPT ![r].number = counter[c] + 1]
  /\ pc' = [pc EXCEPT ![r] = "insert"]
  /\ UNCHANGED <<opened, counter, sent, marks, device>>

\* The message is inserted, (conversationId, messageNumber) being unique, and
\* the transaction commits.
SendCommit(r) ==
  LET c == job[r].conv  n == job[r].number IN
  /\ At(r, "insert")
  /\ n \notin sent[c]
  /\ sent' = [sent EXCEPT ![c] = @ \cup {n}]
  /\ counter' = [counter EXCEPT ![c] = n]
  /\ locked' = [locked EXCEPT ![c] = NoRequest]
  /\ GoTo(r, "sent")
  /\ UNCHANGED <<opened, marks, device>>

\* The sender has received its own message.
SendReceive(r) ==
  /\ At(r, "sent")
  /\ UpdateLastReceived(job[r].conv, job[r].user, job[r].number)
  /\ GoTo(r, "presence")
  /\ UNCHANGED <<table, read, device>>

\* isOnline and isInChat of the recipient.
SendPresence(r, online, inChat) ==
  /\ At(r, "presence")
  /\ IF online \/ inChat
     THEN /\ pc' = [pc EXCEPT ![r] = IF online THEN "deliver" ELSE "markAll"]
          /\ job' = [job EXCEPT ![r].inChat = inChat]
     ELSE Finish(r)
  /\ UNCHANGED <<table, marks, device>>

\* sendImageMessage looks at no presence: it emits new_message and answers.
SendImageEnd(r) ==
  /\ At(r, "presence")
  /\ Finish(r)
  /\ UNCHANGED <<table, marks, device>>

----------------------------------------------------------------------------
\* markAsDelivered, by a send for its recipient and by a connection for its
\* user with the counter the list of conversations shows.

ConnectAsk(r, u, c) ==
  /\ c \in opened
  /\ counter[c] > 0
  /\ Accept(r, "deliver", "connect", u, c, counter[c])

AfterDelivery(r) ==
  IF job[r].inChat THEN GoTo(r, "markAll") ELSE Finish(r)

DeliverFresh(r) ==
  /\ At(r, "deliver")
  /\ job[r].number > FindParticipant(received, r)
  /\ GoTo(r, "delivering")
  /\ UNCHANGED <<table, marks, device>>

DeliverOld(r) ==
  /\ At(r, "deliver")
  /\ job[r].number <= FindParticipant(received, r)
  /\ AfterDelivery(r)
  /\ UNCHANGED <<table, marks, device>>

DeliverUpdate(r) ==
  /\ At(r, "delivering")
  /\ UpdateLastReceived(job[r].conv, Target(job[r]), job[r].number)
  /\ AfterDelivery(r)
  /\ UNCHANGED <<table, read, device>>

----------------------------------------------------------------------------
\* markAllAsRead, by enter_chat for its user and by a send whose recipient is
\* inside the chat.

EnterAsk(r, u, c) ==
  /\ ValidateParticipant(c)
  /\ Accept(r, "markAll", "enter", u, c, 0)

AllFind(r) ==
  /\ At(r, "markAll")
  /\ job' = [job EXCEPT ![r].upTo = counter[job[r].conv]]
  /\ pc' = [pc EXCEPT ![r] = "both"]
  /\ UNCHANGED <<table, marks, device>>

\* The two updates run in parallel.
AllUpdateRead(r) ==
  /\ pc[r] \in {"both", "readLeft"}
  /\ UpdateLastRead(job[r].conv, Target(job[r]), job[r].upTo)
  /\ GoTo(r, IF At(r, "both") THEN "receivedLeft" ELSE "marked")
  /\ UNCHANGED <<table, received, device>>

AllUpdateReceived_Next(r) ==
  /\ pc[r] \in {"both", "receivedLeft"}
  /\ UpdateLastReceived(job[r].conv, Target(job[r]), job[r].upTo + 1)
  /\ GoTo(r, IF At(r, "both") THEN "readLeft" ELSE "marked")
  /\ UNCHANGED <<table, read, device>>
AllUpdateReceived(r) ==
  /\ pc[r] \in {"both", "receivedLeft"}
  /\ UpdateLastReceived(job[r].conv, Target(job[r]), job[r].upTo)
  /\ GoTo(r, IF At(r, "both") THEN "readLeft" ELSE "marked")
  /\ UNCHANGED <<table, read, device>>

----------------------------------------------------------------------------
\* markAsRead, for the message event read names.

ReadAsk(r, u, c, n) ==
  /\ n \in sent[c]
  /\ Accept(r, "read", "read", u, c, n)

ReadFresh(r) ==
  /\ At(r, "read")
  /\ job[r].number > FindParticipant(read, r)
  /\ GoTo(r, "reading")
  /\ UNCHANGED <<table, marks, device>>

ReadOld_Received(r) ==
  /\ At(r, "read")
  /\ job[r].number <= FindParticipant(received, r)
  /\ GoTo(r, "marked")
  /\ UNCHANGED <<table, marks, device>>
ReadOld(r) ==
  /\ At(r, "read")
  /\ job[r].number <= FindParticipant(read, r)
  /\ GoTo(r, "marked")
  /\ UNCHANGED <<table, marks, device>>

ReadUpdate(r) ==
  /\ At(r, "reading")
  /\ UpdateLastRead(job[r].conv, job[r].user, job[r].number)
  /\ GoTo(r, "marked")
  /\ UNCHANGED <<table, received, device>>

----------------------------------------------------------------------------
\* A send whose recipient is in the chat acknowledges its message as read; a
\* read emits messages_read to the partner; enter_chat emits no read receipt.
Answer(r) ==
  LET c == job[r].conv  u == Other(Target(job[r])) IN
  /\ At(r, "marked")
  /\ told' = IF job[r].op = "enter" THEN told
             ELSE [told EXCEPT ![c][u] = Greatest(@, job[r].number)]
  /\ Finish(r)
  /\ UNCHANGED <<table, marks, cursor, held>>

----------------------------------------------------------------------------
\* getMissedMessages.  getMessages is the same, but its handler never passes the
\* number on: it always answers the first page.

\* findPage: the first limit messages after a number.
Page(c, after, limit) ==
  LET later == {n \in sent[c] : n > after} IN
  {n \in later : Cardinality({m \in later : m < n}) < limit}

\* A device asks for what follows the last message it fetched.
Fetch(u, c, limit) ==
  LET page == Page(c, cursor[c][u], limit) IN
  /\ \E last \in page :
       /\ \A n \in page : n <= last
       /\ cursor' = [cursor EXCEPT ![c][u] = last]
  /\ held' = [held EXCEPT ![c][u] = @ \cup page]
  /\ UNCHANGED <<table, marks, told, pc, job>>

----------------------------------------------------------------------------
\* The call dies, or a statement fails and its error ends the call: an open
\* transaction is rolled back, what was committed stays.
Fail(r) ==
  /\ pc[r] # "idle"
  /\ locked' = [c \in Conversation |->
       IF locked[c] = r THEN NoRequest ELSE locked[c]]
  /\ Finish(r)
  /\ UNCHANGED <<opened, counter, sent, marks, device>>

----------------------------------------------------------------------------
\* The specification

Call(r) ==
  \/ OpenAsk(r)
  \/ \E u \in Role, c \in Conversation : SendAsk(r, u, c)
  \/ \E u \in Role, c \in Conversation : ConnectAsk(r, u, c)
  \/ \E u \in Role, c \in Conversation : EnterAsk(r, u, c)
  \/ \E u \in Role, c \in Conversation, n \in Number : ReadAsk(r, u, c, n)

Open(r) ==
  \/ OpenFound(r)
  \/ OpenMissing(r)
  \/ \E c \in Conversation : OpenCreate(r, c)

Send(r) ==
  \/ SendCount(r)
  \/ SendCommit(r)
  \/ SendReceive(r)
  \/ \E online, inChat \in BOOLEAN : SendPresence(r, online, inChat)
  \/ SendImageEnd(r)

Mark(r) ==
  \/ DeliverFresh(r)
  \/ DeliverOld(r)
  \/ DeliverUpdate(r)
  \/ AllFind(r)
  \/ AllUpdateRead(r)
  \/ AllUpdateReceived(r)
  \/ ReadFresh(r)
  \/ ReadOld(r)
  \/ ReadUpdate(r)
  \/ Answer(r)

Next ==
  \/ \E r \in Request : Call(r)
  \/ \E r \in Request : Open(r)
  \/ \E r \in Request : Send(r)
  \/ \E r \in Request : Mark(r)
  \/ \E r \in Request : Fail(r)
  \/ \E u \in Role, c \in Conversation, limit \in 1..MaxMessage :
       Fetch(u, c, limit)

Spec == Init /\ [][Next]_vars

----------------------------------------------------------------------------
\* Properties

\* The messages anyone can read are numbered 1 to the counter with no gap,
\* however sends overlap and fail (atomicSendMessage).
NumbersGapless == \A c \in Conversation : sent[c] = 1..counter[c]

\* A device that pages through history by message number, while sends
\* commit, never steps over a message that shows up later.
CatchUpMissesNothing ==
  \A c \in Conversation, u \in Role : held[c][u] = 1..cursor[c][u]

\* No participant has read or received more than was sent, though deliveries
\* and mark-alls write counters they read earlier.
MarksWithinConversation ==
  \A c \in Conversation, u \in Role :
    read[c][u] <= counter[c] /\ received[c][u] <= counter[c]

\* Calls that overlap write marks out of order, yet no mark ever moves back
\* (updateLastRead, updateLastReceived).
MarksNeverFall ==
  [][\A c \in Conversation, u \in Role :
       read'[c][u] >= read[c][u] /\ received'[c][u] >= received[c][u]]_vars

\* Whoever was told that its partner read up to a message can rely on the
\* table: the partner's mark is at least there.
ReadReceiptsTrue ==
  \A c \in Conversation, u \in Role : told[c][u] <= read[c][Other(u)]

\* Overlapping sends, deliveries and reads, each a read and a later write, look
\* like one message, mark or receipt at a time to the participants: the service
\* implements the abstract thread (ChatService over conversation_participants).
T == INSTANCE Thread
ImplementsThread == T!Spec
=============================================================================
