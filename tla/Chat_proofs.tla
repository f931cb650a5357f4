----------------------------- MODULE Chat_proofs -----------------------------
(***************************************************************************)
(* Theorems about Chat, for any conversations, calls and number of         *)
(* messages.                                                               *)
(***************************************************************************)
EXTENDS Chat, FiniteSetTheorems, TLAPS

\* What call r knows at each of its stages.
JobOK(r) ==
  LET j == job[r]  c == job[r].conv IN
  /\ pc[r] # "idle" => j \in Job
  /\ pc[r] \notin {"idle", "find", "create"} => c \in Conversation
  /\ pc[r] \in {"count", "insert", "sent", "presence"} => j.op = "send"
  /\ pc[r] = "insert" => locked[c] = r /\ j.number = counter[c] + 1
  /\ pc[r] \in {"sent", "presence", "deliver", "delivering", "markAll",
                "both", "readLeft", "receivedLeft", "read", "reading",
                "marked"} => j.number <= counter[c]
  /\ pc[r] \in {"deliver", "delivering"} /\ j.inChat => j.op = "send"
  /\ pc[r] \in {"markAll", "both", "readLeft", "receivedLeft"} =>
       j.op \in {"send", "enter"}
  /\ pc[r] \in {"both", "readLeft", "receivedLeft"} => j.upTo <= counter[c]
  /\ pc[r] \in {"both", "readLeft"} /\ j.op = "send" => j.number <= j.upTo
  /\ pc[r] \in {"read", "reading"} => j.op = "read"
  /\ pc[r] \in {"receivedLeft", "marked"} /\ j.op # "enter" =>
       j.number <= read[c][Target(j)]

JobInv == \A r \in Request : JobOK(r)

CursorInv ==
  \A c \in Conversation, u \in Role : cursor[c][u] <= counter[c]

Inv == /\ TypeOK /\ JobInv /\ CursorInv
       /\ NumbersGapless /\ CatchUpMissesNothing
       /\ MarksWithinConversation /\ ReadReceiptsTrue

----------------------------------------------------------------------------
\* Small facts

LEMMA OtherRole == \A u \in Role : Other(u) \in Role /\ Other(Other(u)) = u
BY DEF Role, Other

LEMMA TargetRole == \A j \in Job : Target(j) \in Role
BY OtherRole DEF Target, Job

LEMMA NumberIsNat == \A n \in Number : n \in Nat
BY ChatAssumption DEF Number

\* The parts of the state, typed one by one.
LEMMA Typed ==
  ASSUME TypeOK, NEW c \in Conversation, NEW u \in Role
  PROVE  /\ counter[c] \in Number /\ sent[c] \subseteq Number
         /\ read[c][u] \in Number /\ received[c][u] \in Number
         /\ cursor[c][u] \in Number /\ told[c][u] \in Number
         /\ held[c][u] \subseteq Number
BY DEF TypeOK, PerParticipant

\* A record of calls differs from NoJob, so a typed job is one or the other.
LEMMA JobTyped ==
  ASSUME Inv, NEW r \in Request, pc[r] # "idle"
  PROVE  /\ job[r] \in Job
         /\ Target(job[r]) \in Role
BY TargetRole DEF Inv, JobInv, JobOK

----------------------------------------------------------------------------
\* What a step of call r may do to the state the other calls rest on

Grows(r) ==
  /\ \A c \in Conversation : counter[c] <= counter'[c]
  /\ \A c \in Conversation, u \in Role : read[c][u] <= read'[c][u]
  /\ \A c \in Conversation : \A q \in Request :
       locked[c] = q /\ q # r =>
         locked'[c] = q /\ counter'[c] = counter[c]

LEMMA JobStays ==
  ASSUME Inv, TypeOK', NEW r \in Request, Grows(r),
         NEW q \in Request, q # r, pc'[q] = pc[q], job'[q] = job[q]
  PROVE  JobOK(q)'
<1>1. JobOK(q)
  BY DEF Inv, JobInv
<1>2. CASE pc[q] \in {"idle", "find", "create"}
  BY <1>1, <1>2 DEF JobOK
<1>3. CASE pc[q] \notin {"idle", "find", "create"}
  <2> DEFINE c == job[q].conv
  <2>1. /\ job[q] \in Job
        /\ c \in Conversation
        /\ Target(job[q]) \in Role
    BY <1>1, <1>3, TargetRole DEF JobOK
  <2>2. /\ counter[c] \in Number /\ counter'[c] \in Number
        /\ read[c][Target(job[q])] \in Number
        /\ read'[c][Target(job[q])] \in Number
    BY <2>1, Typed DEF Inv, TypeOK, PerParticipant
  <2>3. job[q].number \in Number /\ job[q].upTo \in Number
    BY <2>1 DEF Job
  <2>4. /\ counter[c] <= counter'[c]
        /\ read[c][Target(job[q])] <= read'[c][Target(job[q])]
    BY <2>1 DEF Grows
  <2>5. locked[c] = q => locked'[c] = q /\ counter'[c] = counter[c]
    BY <2>1 DEF Grows
  <2>6. \A m \in Number : m <= counter[c] => m <= counter'[c]
    BY <2>2, <2>4, NumberIsNat
  <2>7. \A m \in Number :
          m <= read[c][Target(job[q])] => m <= read'[c][Target(job[q])]
    BY <2>2, <2>4, NumberIsNat
  <2>8. Target(job[q])' = Target(job[q])
    BY DEF Target
  <2> QED
    BY <1>1, <2>1, <2>3, <2>5, <2>6, <2>7, <2>8 DEF JobOK
<1> QED BY <1>2, <1>3

\* A step of r that moves no other call.
LEMMA CallsStay ==
  ASSUME Inv, TypeOK', NEW r \in Request, Grows(r), JobOK(r)',
         \A q \in Request \ {r} : pc'[q] = pc[q] /\ job'[q] = job[q]
  PROVE  JobInv'
BY JobStays DEF JobInv

LEMMA NothingGrows ==
  ASSUME Inv, NEW r \in Request, UNCHANGED <<counter, locked, read>>
  PROVE  Grows(r)
<1>1. \A c \in Conversation : counter[c] <= counter[c]
  BY Typed, NumberIsNat DEF Inv, TypeOK
<1>2. \A c \in Conversation, u \in Role : read[c][u] <= read[c][u]
  BY Typed, NumberIsNat DEF Inv
<1> QED BY <1>1, <1>2 DEF Grows

----------------------------------------------------------------------------
\* Steps that change no table and no mark

\* The part of the invariant about tables and devices.
DataInv == /\ CursorInv
           /\ NumbersGapless /\ CatchUpMissesNothing
           /\ MarksWithinConversation /\ ReadReceiptsTrue

LEMMA DataStays ==
  ASSUME Inv, UNCHANGED <<counter, sent, marks, device>>
  PROVE  DataInv'
BY DEF Inv, DataInv, CursorInv, NumbersGapless, CatchUpMissesNothing,
       MarksWithinConversation, ReadReceiptsTrue, marks, device

LEMMA CallMoves ==
  ASSUME Inv, NEW r \in Request, NEW stage \in Stage,
         NEW j \in Job \cup {NoJob},
         UNCHANGED <<table, marks, device>>,
         pc' = [pc EXCEPT ![r] = stage], job' = [job EXCEPT ![r] = j],
         JobOK(r)'
  PROVE  Inv'
<1>1. TypeOK'
  BY DEF Inv, TypeOK, table, marks, device
<1>2. Grows(r)
  BY NothingGrows DEF table, marks
<1>3. \A q \in Request \ {r} : pc'[q] = pc[q] /\ job'[q] = job[q]
  BY DEF Inv, TypeOK
<1>4. JobInv'
  BY <1>1, <1>2, <1>3, CallsStay
<1>5. DataInv'
  BY DataStays DEF table
<1> QED BY <1>1, <1>4, <1>5 DEF Inv, DataInv

LEMMA AcceptStep ==
  ASSUME Inv, NEW r \in Request, NEW stage \in Stage,
         NEW op \in {"open", "send", "connect", "enter", "read"},
         NEW u \in Role, NEW c \in Conversation \cup {NoConversation},
         NEW n \in Number, Accept(r, stage, op, u, c, n),
         \/ stage = "find"
         \/ stage = "count" /\ op = "send" /\ c \in Conversation
         \/ stage = "deliver" /\ c \in Conversation /\ n <= counter[c]
         \/ /\ stage = "markAll" /\ op = "enter"
            /\ c \in Conversation /\ n <= counter[c]
         \/ /\ stage = "read" /\ op = "read"
            /\ c \in Conversation /\ n <= counter[c]
  PROVE  Inv'
<1> DEFINE j == [op |-> op, user |-> u, conv |-> c, number |-> n,
                 upTo |-> 0, inChat |-> FALSE]
<1>1. j \in Job
  BY ChatAssumption DEF Job, Number
<1>2. /\ pc' = [pc EXCEPT ![r] = stage] /\ job' = [job EXCEPT ![r] = j]
      /\ UNCHANGED <<table, marks, device>>
  BY DEF Accept
<1>3. pc'[r] = stage /\ job'[r] = j
  BY <1>2 DEF Inv, TypeOK
<1>4. /\ j.op = op /\ j.conv = c /\ j.number = n /\ ~j.inChat
  OBVIOUS
<1>5. counter' = counter
  BY <1>2 DEF table
<1> HIDE DEF j
<1>6. JobOK(r)'
  BY <1>1, <1>3, <1>4, <1>5 DEF JobOK, Stage
<1> QED BY <1>1, <1>2, <1>6, CallMoves

LEMMA CallStep ==
  ASSUME Inv, NEW r \in Request, Call(r)
  PROVE  Inv'
<1> USE ChatAssumption DEF Stage, Role
<1>1. \A c \in Conversation : counter[c] \in Number /\ 0 <= counter[c]
  BY Typed DEF Inv, Number
<1>2. 0 \in Number
  BY DEF Number
<1>3. CASE OpenAsk(r)
  BY <1>2, <1>3, AcceptStep DEF OpenAsk
<1>4. CASE \E u \in Role, c \in Conversation : SendAsk(r, u, c)
  BY <1>2, <1>4, AcceptStep DEF SendAsk
<1>5. CASE \E u \in Role, c \in Conversation : ConnectAsk(r, u, c)
  <2>1. PICK u \in Role, c \in Conversation : ConnectAsk(r, u, c)
    BY <1>5
  <2>2. counter[c] \in Number /\ counter[c] <= counter[c]
    BY <1>1, NumberIsNat
  <2> QED BY <2>1, <2>2, AcceptStep DEF ConnectAsk
<1>6. CASE \E u \in Role, c \in Conversation : EnterAsk(r, u, c)
  <2>1. PICK u \in Role, c \in Conversation : EnterAsk(r, u, c)
    BY <1>6
  <2> QED BY <1>1, <1>2, <2>1, AcceptStep DEF EnterAsk
<1>7. CASE \E u \in Role, c \in Conversation, n \in Number :
             ReadAsk(r, u, c, n)
  <2>1. PICK u \in Role, c \in Conversation, n \in Number :
          ReadAsk(r, u, c, n)
    BY <1>7
  <2>2. n <= counter[c]
    BY <1>1, <2>1, NumberIsNat DEF ReadAsk, Inv, NumbersGapless
  <2> QED BY <2>1, <2>2, AcceptStep DEF ReadAsk
<1> QED BY <1>3, <1>4, <1>5, <1>6, <1>7 DEF Call

\* A call that ends knows nothing more.
LEMMA FinishStep ==
  ASSUME Inv, NEW r \in Request, Finish(r), UNCHANGED <<table, marks, device>>
  PROVE  Inv'
<1>1. pc'[r] = "idle"
  BY DEF Finish, Inv, TypeOK
<1>2. JobOK(r)'
  BY <1>1 DEF JobOK
<1> QED BY <1>2, CallMoves DEF Finish, Stage

\* A call that goes on with the job it has.
LEMMA GoToStep ==
  ASSUME Inv, NEW r \in Request, NEW stage \in Stage, GoTo(r, stage),
         UNCHANGED <<table, marks, device>>,
         \/ stage = "create"
         \/ /\ stage = "delivering" /\ pc[r] = "deliver"
         \/ /\ stage = "markAll" /\ pc[r] = "deliver" /\ job[r].inChat
         \/ /\ stage = "reading" /\ pc[r] = "read"
         \/ /\ stage = "marked" /\ pc[r] = "read"
            /\ job[r].number <= read[job[r].conv][job[r].user]
         , pc[r] # "idle"
  PROVE  Inv'
<1>1. /\ pc' = [pc EXCEPT ![r] = stage] /\ job' = job
  BY DEF GoTo
<1>2. pc'[r] = stage /\ job'[r] = job[r]
  BY <1>1 DEF Inv, TypeOK
<1>3. job[r] \in Job /\ JobOK(r)
  BY JobTyped DEF Inv, JobInv
<1>4. job' = [job EXCEPT ![r] = job[r]]
  BY <1>1 DEF Inv, TypeOK
<1>5. counter' = counter /\ read' = read
  BY DEF table, marks
<1>6. Target(job[r])' = Target(job[r])
  BY <1>1 DEF Target
<1>7. job[r].op = "read" => Target(job[r]) = job[r].user
  BY DEF Target
<1>8. JobOK(r)'
  BY <1>1, <1>2, <1>3, <1>5, <1>6, <1>7 DEF JobOK, Stage
<1> QED BY <1>1, <1>3, <1>4, <1>8, CallMoves

\* A call that goes on with another job.
LEMMA GoOnStep ==
  ASSUME Inv, NEW r \in Request, UNCHANGED <<table, marks, device>>,
         \/ \E inChat \in BOOLEAN :
              /\ pc[r] = "presence"
              /\ \/ pc' = [pc EXCEPT ![r] = "deliver"]
                 \/ pc' = [pc EXCEPT ![r] = "markAll"]
              /\ job' = [job EXCEPT ![r].inChat = inChat]
         \/ /\ pc[r] = "markAll"
            /\ pc' = [pc EXCEPT ![r] = "both"]
            /\ job' = [job EXCEPT ![r].upTo = counter[job[r].conv]]
  PROVE  Inv'
<1>1. job[r] \in Job /\ JobOK(r)
  BY JobTyped DEF Inv, JobInv
<1>2. job[r].conv \in Conversation
  BY <1>1 DEF JobOK
<1>3. counter[job[r].conv] \in Number /\ counter' = counter
  BY <1>2, Typed DEF Inv, table, Role
<1>4. CASE \E inChat \in BOOLEAN :
             /\ pc[r] = "presence"
             /\ \/ pc' = [pc EXCEPT ![r] = "deliver"]
                \/ pc' = [pc EXCEPT ![r] = "markAll"]
             /\ job' = [job EXCEPT ![r].inChat = inChat]
  <2>1. PICK inChat \in BOOLEAN : job' = [job EXCEPT ![r].inChat = inChat]
    BY <1>4
  <2> DEFINE j == [job[r] EXCEPT !.inChat = inChat]
  <2>2. /\ j \in Job /\ j.op = job[r].op /\ j.conv = job[r].conv
        /\ j.number = job[r].number
    BY <1>1 DEF Job
  <2>3. job' = [job EXCEPT ![r] = j] /\ job'[r] = j
    BY <2>1 DEF Inv, TypeOK
  <2>4. pc[r] = "presence" /\ pc'[r] \in {"deliver", "markAll"}
    BY <1>4 DEF Inv, TypeOK
  <2> HIDE DEF j
  <2>5. JobOK(r)'
    BY <1>1, <1>3, <2>2, <2>3, <2>4 DEF JobOK
  <2> QED BY <1>4, <2>2, <2>3, <2>5, CallMoves DEF Stage
<1>5. CASE /\ pc[r] = "markAll"
           /\ pc' = [pc EXCEPT ![r] = "both"]
           /\ job' = [job EXCEPT ![r].upTo = counter[job[r].conv]]
  <2> DEFINE j == [job[r] EXCEPT !.upTo = counter[job[r].conv]]
  <2>1. /\ j \in Job /\ j.op = job[r].op /\ j.conv = job[r].conv
        /\ j.number = job[r].number /\ j.upTo = counter[job[r].conv]
    BY <1>1, <1>3 DEF Job
  <2>2. job' = [job EXCEPT ![r] = j] /\ job'[r] = j
    BY <1>5 DEF Inv, TypeOK
  <2>3. pc[r] = "markAll" /\ pc'[r] = "both"
    BY <1>5 DEF Inv, TypeOK
  <2>4. counter[job[r].conv] <= counter[job[r].conv]
    BY <1>3, NumberIsNat
  <2> HIDE DEF j
  <2>5. JobOK(r)'
    BY <1>1, <1>3, <2>1, <2>2, <2>3, <2>4 DEF JobOK
  <2> QED BY <1>5, <2>1, <2>2, <2>5, CallMoves DEF Stage
<1> QED BY <1>4, <1>5

----------------------------------------------------------------------------
\* getOrCreateConversation

LEMMA OpenStep ==
  ASSUME Inv, NEW r \in Request, Open(r)
  PROVE  Inv'
<1>1. CASE OpenFound(r)
  BY <1>1, FinishStep DEF OpenFound
<1>2. CASE OpenMissing(r)
  BY <1>2, GoToStep DEF OpenMissing, At, Stage
<1>3. CASE \E c \in Conversation : OpenCreate(r, c)
  <2>1. PICK c \in Conversation : OpenCreate(r, c)
    BY <1>3
  <2>2. pc'[r] = "idle"
    BY <2>1 DEF OpenCreate, CreateWithParticipants, Finish, Inv, TypeOK
  <2>3. TypeOK'
    BY <2>1 DEF OpenCreate, CreateWithParticipants, Finish, Inv, TypeOK, Stage, marks, device
  <2>4. JobOK(r)'
    BY <2>2 DEF JobOK
  <2>5. Grows(r)
    BY <2>1, NothingGrows DEF OpenCreate, CreateWithParticipants, marks
  <2>6. \A q \in Request \ {r} : pc'[q] = pc[q] /\ job'[q] = job[q]
    BY <2>1 DEF OpenCreate, CreateWithParticipants, Finish, Inv, TypeOK
  <2>7. JobInv'
    BY <2>3, <2>4, <2>5, <2>6, CallsStay
  <2>8. DataInv'
    BY <2>1, DataStays DEF OpenCreate
  <2> QED BY <2>3, <2>7, <2>8 DEF Inv, DataInv
<1> QED BY <1>1, <1>2, <1>3 DEF Open

----------------------------------------------------------------------------
\* The transaction of a send

LEMMA SendCountStep ==
  ASSUME Inv, NEW r \in Request, SendCount(r)
  PROVE  Inv'
<1> DEFINE c == job[r].conv
           j == [job[r] EXCEPT !.number = counter[c] + 1]
<1>1. job[r] \in Job /\ c \in Conversation /\ JobOK(r) /\ pc[r] = "count"
  BY JobTyped DEF SendCount, At, Inv, JobInv, JobOK
<1>2. counter[c] \in Number /\ counter[c] + 1 \in Number
  <2>1. counter[c] \in Number
    BY <1>1, Typed DEF Inv, Role
  <2> QED BY <2>1, ChatAssumption DEF SendCount, Number
<1>3. /\ j \in Job /\ j.op = job[r].op /\ j.conv = c
      /\ j.number = counter[c] + 1
  BY <1>1, <1>2 DEF Job
<1>4. /\ job' = [job EXCEPT ![r] = j] /\ pc' = [pc EXCEPT ![r] = "insert"]
      /\ job'[r] = j /\ pc'[r] = "insert"
  BY DEF SendCount, Inv, TypeOK
<1>5. /\ locked' = [locked EXCEPT ![c] = r] /\ locked[c] = NoRequest
      /\ UNCHANGED <<opened, counter, sent, marks, device>>
  BY DEF SendCount
<1>6. locked'[c] = r
  BY <1>1, <1>5 DEF Inv, TypeOK
<1> HIDE DEF c, j
<1>7. TypeOK'
  BY <1>3, <1>4, <1>5 DEF Inv, TypeOK, Stage, marks, device
<1>8. Grows(r)
  <2>1. \A d \in Conversation : \A q \in Request :
          locked[d] = q /\ q # r => locked'[d] = q
    BY <1>5, ChatAssumption DEF Inv, TypeOK
  <2>2. \A d \in Conversation : counter[d] <= counter'[d]
    BY <1>5, Typed, NumberIsNat DEF Inv, Role
  <2>3. \A d \in Conversation, u \in Role : read[d][u] <= read'[d][u]
    BY <1>5, Typed, NumberIsNat DEF Inv, marks
  <2> QED BY <1>5, <2>1, <2>2, <2>3 DEF Grows
<1>9. JobOK(r)'
  BY <1>1, <1>3, <1>4, <1>5, <1>6 DEF JobOK
<1>10. \A q \in Request \ {r} : pc'[q] = pc[q] /\ job'[q] = job[q]
  BY <1>4 DEF Inv, TypeOK
<1>11. JobInv'
  BY <1>7, <1>8, <1>9, <1>10, CallsStay
<1>12. DataInv'
  BY <1>5, DataStays
<1> QED BY <1>7, <1>11, <1>12 DEF Inv, DataInv

LEMMA SendCommitStep ==
  ASSUME Inv, NEW r \in Request, SendCommit(r)
  PROVE  Inv'
<1> DEFINE c == job[r].conv
           n == job[r].number
<1>1. /\ job[r] \in Job /\ c \in Conversation /\ JobOK(r)
      /\ locked[c] = r /\ n = counter[c] + 1 /\ job[r].op = "send"
  BY JobTyped DEF SendCommit, At, Inv, JobInv, JobOK
<1>2. counter[c] \in Nat /\ n \in Number /\ n \in Nat
  BY <1>1, Typed, NumberIsNat DEF Inv, Job, Role
<1>3. /\ sent' = [sent EXCEPT ![c] = sent[c] \cup {n}]
      /\ counter' = [counter EXCEPT ![c] = n]
      /\ locked' = [locked EXCEPT ![c] = NoRequest]
      /\ pc' = [pc EXCEPT ![r] = "sent"] /\ job' = job
      /\ UNCHANGED <<opened, marks, device>>
  BY DEF SendCommit, GoTo
<1>4. pc'[r] = "sent" /\ job'[r] = job[r] /\ counter'[c] = n
  BY <1>1, <1>3 DEF Inv, TypeOK
<1> HIDE DEF c, n
<1>5. TypeOK'
  <2>1. sent[c] \cup {n} \in SUBSET Number
    BY <1>1, <1>2 DEF Inv, TypeOK
  <2> QED
    BY <1>2, <1>3, <2>1 DEF Inv, TypeOK, Stage, marks, device
<1>6. \A d \in Conversation : /\ counter[d] \in Nat /\ counter'[d] \in Nat
                              /\ counter[d] <= counter'[d]
  <2>1. \A d \in Conversation : counter[d] \in Nat
    BY Typed, NumberIsNat DEF Inv, Role
  <2>2. ASSUME NEW d \in Conversation, d # c
        PROVE  counter'[d] = counter[d]
    BY <1>3, <2>2 DEF Inv, TypeOK
  <2>3. counter[c] <= n
    BY <1>1, <1>2 DEF c, n
  <2> QED BY <1>2, <1>4, <2>1, <2>2, <2>3
<1>7. Grows(r)
  <2>1. \A d \in Conversation : \A q \in Request :
          locked[d] = q /\ q # r =>
            locked'[d] = q /\ counter'[d] = counter[d]
    <3>1. locked[c] = r
      BY <1>1 DEF c
    <3> QED BY <1>3, <3>1 DEF Inv, TypeOK
  <2>2. \A d \in Conversation, u \in Role : read[d][u] <= read'[d][u]
    BY <1>3, Typed, NumberIsNat DEF Inv, marks
  <2> QED BY <1>6, <2>1, <2>2 DEF Grows
<1>8. JobOK(r)'
  <2>1. n <= n
    BY <1>2
  <2> QED BY <1>1, <1>4, <2>1 DEF JobOK, c, n
<1>9. JobInv'
  BY <1>3, <1>5, <1>7, <1>8, CallsStay DEF Inv, TypeOK
<1>10. NumbersGapless'
  <2>1. sent'[c] = 1..counter'[c]
    <3>1. sent'[c] = (1..counter[c]) \cup {n}
      BY <1>1, <1>3 DEF Inv, TypeOK, NumbersGapless, c
    <3>2. (1..counter[c]) \cup {n} = 1..n
      BY <1>1, <1>2 DEF c, n
    <3> QED BY <1>4, <3>1, <3>2
  <2>2. \A d \in Conversation : d # c => sent'[d] = 1..counter'[d]
    BY <1>3 DEF Inv, TypeOK, NumbersGapless
  <2> QED BY <2>1, <2>2 DEF NumbersGapless
<1>11. CursorInv' /\ MarksWithinConversation'
  <2>1. ASSUME NEW d \in Conversation, NEW u \in Role
        PROVE  /\ cursor[d][u] <= counter'[d]
               /\ read[d][u] <= counter'[d] /\ received[d][u] <= counter'[d]
    <3>1. /\ cursor[d][u] \in Nat /\ read[d][u] \in Nat
          /\ received[d][u] \in Nat
      BY Typed, NumberIsNat DEF Inv
    <3> QED
      BY <1>6, <3>1 DEF Inv, CursorInv, MarksWithinConversation
  <2> QED
    BY <1>3, <2>1 DEF CursorInv, MarksWithinConversation, marks, device
<1>12. CatchUpMissesNothing' /\ ReadReceiptsTrue'
  BY <1>3 DEF Inv, CatchUpMissesNothing, ReadReceiptsTrue, marks, device
<1> QED BY <1>5, <1>9, <1>10, <1>11, <1>12 DEF Inv

----------------------------------------------------------------------------
\* Marks

\* One UPDATE with GREATEST on a table of marks.
Raise(mark, c, u, n) == [mark EXCEPT ![c][u] = Greatest(@, n)]

LEMMA Raised ==
  \A mark \in PerParticipant, c \in Conversation, u \in Role, n \in Number :
    LET after == Raise(mark, c, u, n) IN
    /\ after \in PerParticipant
    /\ n <= after[c][u]
    /\ \A d \in Conversation, v \in Role : mark[d][v] <= after[d][v]
    /\ after[c][u] \in {mark[c][u], n}
    /\ \A d \in Conversation, v \in Role :
         ~(d = c /\ v = u) => after[d][v] = mark[d][v]
<1> SUFFICES ASSUME NEW mark \in PerParticipant, NEW c \in Conversation,
                    NEW u \in Role, NEW n \in Number, NEW after,
                    after = Raise(mark, c, u, n)
             PROVE  /\ after \in PerParticipant
                    /\ n <= after[c][u]
                    /\ \A d \in Conversation, v \in Role :
                         mark[d][v] <= after[d][v]
                    /\ after[c][u] \in {mark[c][u], n}
                    /\ \A d \in Conversation, v \in Role :
                         ~(d = c /\ v = u) => after[d][v] = mark[d][v]
  OBVIOUS
<1> USE DEF Raise
<1>1. \A d \in Conversation, v \in Role :
        mark[d][v] \in Number /\ mark[d][v] \in Nat
  BY NumberIsNat DEF PerParticipant
<1>2. n \in Nat
  BY NumberIsNat
<1>3. after[c][u] = Greatest(mark[c][u], n)
  BY DEF PerParticipant
<1>4. \A d \in Conversation, v \in Role :
        ~(d = c /\ v = u) => after[d][v] = mark[d][v]
  BY DEF PerParticipant
<1>5. /\ n <= after[c][u] /\ mark[c][u] <= after[c][u]
      /\ after[c][u] \in {mark[c][u], n}
  BY <1>1, <1>2, <1>3 DEF Greatest
<1>6. after \in PerParticipant
  <2>1. Greatest(mark[c][u], n) \in Number
    BY <1>1 DEF Greatest
  <2> QED BY <2>1 DEF PerParticipant
<1>7. \A d \in Conversation, v \in Role : mark[d][v] <= after[d][v]
  BY <1>1, <1>4, <1>5
<1> QED BY <1>4, <1>5, <1>6, <1>7

LEMMA ReadRaised ==
  ASSUME Inv, NEW r \in Request, NEW c \in Conversation, NEW u \in Role,
         NEW n \in Number, n <= counter[c], UpdateLastRead(c, u, n),
         UNCHANGED <<table, received, device>>
  PROVE  /\ read' \in PerParticipant /\ n <= read'[c][u]
         /\ Grows(r) /\ DataInv'
<1>1. read \in PerParticipant
  BY DEF Inv, TypeOK
<1>2. read' = Raise(read, c, u, n)
  BY DEF UpdateLastRead, Raise
<1>3. /\ read' \in PerParticipant /\ n <= read'[c][u]
      /\ \A d \in Conversation, v \in Role : read[d][v] <= read'[d][v]
      /\ read'[c][u] \in {read[c][u], n}
      /\ \A d \in Conversation, v \in Role :
           ~(d = c /\ v = u) => read'[d][v] = read[d][v]
  BY <1>1, <1>2, Raised
<1>4. Grows(r)
  <2>1. \A d \in Conversation : counter[d] <= counter[d]
    BY Typed, NumberIsNat DEF Inv, Role
  <2> QED BY <1>3, <2>1 DEF Grows, table
<1>5. MarksWithinConversation'
  BY <1>3 DEF Inv, MarksWithinConversation, table
<1>6. ReadReceiptsTrue'
  <2>1. ASSUME NEW d \in Conversation, NEW v \in Role
        PROVE  told[d][v] <= read'[d][Other(v)]
    <3>1. /\ told[d][v] \in Nat /\ read[d][Other(v)] \in Nat
          /\ Other(v) \in Role
      BY Typed, NumberIsNat, OtherRole DEF Inv
    <3>2. read'[d][Other(v)] \in Nat
      BY <1>3, <3>1, NumberIsNat DEF PerParticipant
    <3> QED BY <1>3, <3>1, <3>2 DEF Inv, ReadReceiptsTrue
  <2> QED BY <2>1 DEF ReadReceiptsTrue, device
<1>7. CursorInv' /\ NumbersGapless' /\ CatchUpMissesNothing'
  BY DEF Inv, CursorInv, NumbersGapless, CatchUpMissesNothing, table, device
<1> QED BY <1>3, <1>4, <1>5, <1>6, <1>7 DEF DataInv

LEMMA ReceivedRaised ==
  ASSUME Inv, NEW r \in Request, NEW c \in Conversation, NEW u \in Role,
         NEW n \in Number, n <= counter[c], UpdateLastReceived(c, u, n),
         UNCHANGED <<table, read, device>>
  PROVE  /\ received' \in PerParticipant
         /\ Grows(r) /\ DataInv'
<1>1. received \in PerParticipant
  BY DEF Inv, TypeOK
<1>2. received' = Raise(received, c, u, n)
  BY DEF UpdateLastReceived, Raise
<1>3. /\ received' \in PerParticipant
      /\ received'[c][u] \in {received[c][u], n}
      /\ \A d \in Conversation, v \in Role :
           ~(d = c /\ v = u) => received'[d][v] = received[d][v]
  BY <1>1, <1>2, Raised
<1>4. Grows(r)
  BY NothingGrows DEF table
<1>5. MarksWithinConversation'
  BY <1>3 DEF Inv, MarksWithinConversation, table
<1>6. /\ CursorInv' /\ NumbersGapless' /\ CatchUpMissesNothing'
      /\ ReadReceiptsTrue'
  BY DEF Inv, CursorInv, NumbersGapless, CatchUpMissesNothing,
         ReadReceiptsTrue, table, device
<1> QED BY <1>3, <1>4, <1>5, <1>6 DEF DataInv

\* The steps that write lastReceivedMessageNumber.
LEMMA ReceivedStep ==
  ASSUME Inv, NEW r \in Request,
         SendReceive(r) \/ DeliverUpdate(r) \/ AllUpdateReceived(r)
  PROVE  Inv'
<1>1. pc[r] \in {"sent", "delivering", "both", "receivedLeft"}
  BY DEF SendReceive, DeliverUpdate, AllUpdateReceived, At
<1>2. /\ job[r] \in Job /\ job[r].conv \in Conversation /\ JobOK(r)
      /\ Target(job[r]) \in Role /\ job[r].user \in Role
      /\ job[r].number \in Number /\ job[r].upTo \in Number
  BY <1>1, JobTyped DEF Inv, JobInv, JobOK, Job
<1>3. /\ pc[r] \in {"sent", "delivering"} =>
           job[r].number <= counter[job[r].conv]
      /\ pc[r] \in {"both", "receivedLeft"} =>
           job[r].upTo <= counter[job[r].conv]
  BY <1>2 DEF JobOK
<1>4. /\ received' \in PerParticipant /\ Grows(r) /\ DataInv'
      /\ UNCHANGED <<table, read, device>>
  <2>1. CASE SendReceive(r)
    BY <1>2, <1>3, <2>1, ReceivedRaised DEF SendReceive, At
  <2>2. CASE DeliverUpdate(r)
    BY <1>2, <1>3, <2>2, ReceivedRaised DEF DeliverUpdate, At
  <2>3. CASE AllUpdateReceived(r)
    BY <1>2, <1>3, <2>3, ReceivedRaised DEF AllUpdateReceived
  <2> QED BY <2>1, <2>2, <2>3
<1>5. \/ /\ pc' = [pc EXCEPT ![r] = "idle"]
         /\ job' = [job EXCEPT ![r] = NoJob]
      \/ /\ job' = job
         /\ \/ pc[r] = "sent" /\ pc' = [pc EXCEPT ![r] = "presence"]
            \/ /\ pc[r] = "delivering" /\ job[r].inChat
               /\ pc' = [pc EXCEPT ![r] = "markAll"]
            \/ pc[r] = "both" /\ pc' = [pc EXCEPT ![r] = "readLeft"]
            \/ pc[r] = "receivedLeft" /\ pc' = [pc EXCEPT ![r] = "marked"]
  BY DEF SendReceive, DeliverUpdate, AllUpdateReceived, AfterDelivery, GoTo,
         Finish, At
<1>6. TypeOK'
  <2>1. /\ pc' \in [Request -> Stage]
        /\ job' \in [Request -> Job \cup {NoJob}]
    BY <1>5 DEF Inv, TypeOK, Stage
  <2> QED BY <1>4, <2>1 DEF Inv, TypeOK, table, device
<1>7. JobOK(r)'
  <2>1. CASE pc'[r] = "idle"
    BY <2>1 DEF JobOK
  <2>2. CASE pc'[r] # "idle"
    <3>1. /\ job' = job
          /\ \/ pc[r] = "sent" /\ pc'[r] = "presence"
             \/ pc[r] = "delivering" /\ job[r].inChat /\ pc'[r] = "markAll"
             \/ pc[r] = "both" /\ pc'[r] = "readLeft"
             \/ pc[r] = "receivedLeft" /\ pc'[r] = "marked"
      BY <1>5, <2>2 DEF Inv, TypeOK
    <3>2. Target(job[r])' = Target(job[r])
      BY <3>1 DEF Target
    <3> QED BY <1>2, <1>4, <3>1, <3>2 DEF JobOK, table
  <2> QED BY <2>1, <2>2
<1>8. \A q \in Request \ {r} : pc'[q] = pc[q] /\ job'[q] = job[q]
  BY <1>5 DEF Inv, TypeOK
<1>9. JobInv'
  BY <1>4, <1>6, <1>7, <1>8, CallsStay
<1> QED BY <1>4, <1>6, <1>9 DEF Inv, DataInv

\* The steps that write lastReadMessageNumber.
LEMMA ReadStep ==
  ASSUME Inv, NEW r \in Request, AllUpdateRead(r) \/ ReadUpdate(r)
  PROVE  Inv'
<1>1. pc[r] \in {"both", "readLeft", "reading"}
  BY DEF AllUpdateRead, ReadUpdate, At
<1>2. /\ job[r] \in Job /\ job[r].conv \in Conversation /\ JobOK(r)
      /\ Target(job[r]) \in Role
      /\ job[r].number \in Number /\ job[r].upTo \in Number
  BY <1>1, JobTyped DEF Inv, JobInv, JobOK, Job
<1>3. /\ pc[r] = "reading" =>
           /\ job[r].number <= counter[job[r].conv]
           /\ job[r].op = "read" /\ Target(job[r]) = job[r].user
      /\ pc[r] \in {"both", "readLeft"} =>
           job[r].upTo <= counter[job[r].conv]
  BY <1>2 DEF JobOK, Target
<1>4. /\ read' \in PerParticipant /\ Grows(r) /\ DataInv'
      /\ UNCHANGED <<table, received, device>>
      /\ pc[r] = "reading" =>
           job[r].number <= read'[job[r].conv][Target(job[r])]
      /\ pc[r] \in {"both", "readLeft"} =>
           job[r].upTo <= read'[job[r].conv][Target(job[r])]
  <2>1. CASE AllUpdateRead(r)
    BY <1>2, <1>3, <2>1, ReadRaised DEF AllUpdateRead
  <2>2. CASE ReadUpdate(r)
    BY <1>2, <1>3, <2>2, ReadRaised DEF ReadUpdate, At
  <2> QED BY <2>1, <2>2
<1>5. /\ job' = job
      /\ \/ pc[r] = "both" /\ pc' = [pc EXCEPT ![r] = "receivedLeft"]
         \/ /\ pc[r] \in {"readLeft", "reading"}
            /\ pc' = [pc EXCEPT ![r] = "marked"]
  BY DEF AllUpdateRead, ReadUpdate, GoTo, At
<1>6. TypeOK'
  <2>1. pc' \in [Request -> Stage]
    BY <1>5 DEF Inv, TypeOK, Stage
  <2> QED BY <1>4, <1>5, <2>1 DEF Inv, TypeOK, table, device
<1>7. JobOK(r)'
  <2>1. \/ pc[r] = "both" /\ pc'[r] = "receivedLeft"
        \/ pc[r] \in {"readLeft", "reading"} /\ pc'[r] = "marked"
    BY <1>5 DEF Inv, TypeOK
  <2>2. Target(job[r])' = Target(job[r])
    BY <1>5 DEF Target
  <2>3. job[r].op = "send" /\ pc[r] \in {"both", "readLeft"} =>
          job[r].number <= read'[job[r].conv][Target(job[r])]
    <3>1. /\ job[r].number \in Nat /\ job[r].upTo \in Nat
          /\ read'[job[r].conv][Target(job[r])] \in Nat
      BY <1>2, <1>4, NumberIsNat DEF PerParticipant
    <3>2. job[r].op = "send" /\ pc[r] \in {"both", "readLeft"} =>
            job[r].number <= job[r].upTo
      BY <1>2 DEF JobOK
    <3> QED BY <1>4, <3>1, <3>2
  <2> QED
    BY <1>2, <1>4, <1>5, <2>1, <2>2, <2>3 DEF JobOK, table
<1>8. \A q \in Request \ {r} : pc'[q] = pc[q] /\ job'[q] = job[q]
  BY <1>5 DEF Inv, TypeOK
<1>9. JobInv'
  BY <1>4, <1>6, <1>7, <1>8, CallsStay
<1> QED BY <1>4, <1>6, <1>9 DEF Inv, DataInv

LEMMA AnswerStep ==
  ASSUME Inv, NEW r \in Request, Answer(r)
  PROVE  Inv'
<1> DEFINE c == job[r].conv
           t == Target(job[r])
           n == job[r].number
<1>1. /\ job[r] \in Job /\ c \in Conversation /\ t \in Role /\ n \in Number
      /\ job[r].op # "enter" => n <= read[c][t]
  BY JobTyped DEF Answer, At, Inv, JobInv, JobOK, Job
<1>2. /\ Other(t) \in Role /\ Other(Other(t)) = t
  BY <1>1, OtherRole
<1>3. /\ Finish(r) /\ UNCHANGED <<table, marks, cursor, held>>
      /\ \/ told' = told
         \/ job[r].op # "enter" /\ told' = Raise(told, c, Other(t), n)
  BY DEF Answer, Raise
<1> HIDE DEF c, t, n
<1>4. told \in PerParticipant
  BY DEF Inv, TypeOK
<1>5. /\ told' \in PerParticipant
      /\ \A d \in Conversation, v \in Role :
           \/ told'[d][v] = told[d][v]
           \/ /\ d = c /\ v = Other(t) /\ told'[d][v] = n
              /\ job[r].op # "enter"
  <2>1. CASE told' = told
    BY <1>4, <2>1
  <2>2. CASE job[r].op # "enter" /\ told' = Raise(told, c, Other(t), n)
    <3>1. /\ told' \in PerParticipant
          /\ told'[c][Other(t)] \in {told[c][Other(t)], n}
          /\ \A d \in Conversation, v \in Role :
               ~(d = c /\ v = Other(t)) => told'[d][v] = told[d][v]
      BY <1>1, <1>2, <1>4, <2>2, Raised
    <3> QED BY <2>2, <3>1
  <2> QED BY <1>3, <2>1, <2>2
<1>6. ReadReceiptsTrue'
  BY <1>1, <1>2, <1>3, <1>5 DEF Inv, ReadReceiptsTrue, marks, c, t, n
<1>7. TypeOK'
  BY <1>3, <1>5 DEF Inv, TypeOK, Finish, Stage, table, marks
<1>8. JobOK(r)'
  BY <1>3 DEF Finish, Inv, TypeOK, JobOK
<1>9. \A q \in Request \ {r} : pc'[q] = pc[q] /\ job'[q] = job[q]
  BY <1>3 DEF Finish, Inv, TypeOK
<1>10. Grows(r)
  BY <1>3, NothingGrows DEF table, marks
<1>11. JobInv'
  BY <1>7, <1>8, <1>9, <1>10, CallsStay
<1>12. /\ CursorInv' /\ NumbersGapless' /\ CatchUpMissesNothing'
       /\ MarksWithinConversation'
  BY <1>3 DEF Inv, CursorInv, NumbersGapless, CatchUpMissesNothing,
              MarksWithinConversation, table, marks
<1> QED BY <1>6, <1>7, <1>11, <1>12 DEF Inv

LEMMA SendStep ==
  ASSUME Inv, NEW r \in Request, Send(r)
  PROVE  Inv'
<1>1. CASE SendCount(r)
  BY <1>1, SendCountStep
<1>2. CASE SendCommit(r)
  BY <1>2, SendCommitStep
<1>3. CASE SendReceive(r)
  BY <1>3, ReceivedStep
<1>4. CASE \E online, inChat \in BOOLEAN : SendPresence(r, online, inChat)
  <2>1. PICK online \in BOOLEAN, inChat \in BOOLEAN :
          SendPresence(r, online, inChat)
    BY <1>4
  <2>2. CASE online \/ inChat
    BY <2>1, <2>2, GoOnStep DEF SendPresence, At
  <2>3. CASE ~(online \/ inChat)
    BY <2>1, <2>3, FinishStep DEF SendPresence
  <2> QED BY <2>2, <2>3
<1>5. CASE SendImageEnd(r)
  BY <1>5, FinishStep DEF SendImageEnd
<1> QED BY <1>1, <1>2, <1>3, <1>4, <1>5 DEF Send

LEMMA MarkStep ==
  ASSUME Inv, NEW r \in Request, Mark(r)
  PROVE  Inv'
<1>1. CASE DeliverFresh(r)
  BY <1>1, GoToStep DEF DeliverFresh, At, Stage
<1>2. CASE DeliverOld(r)
  <2>1. CASE job[r].inChat
    BY <1>2, <2>1, GoToStep DEF DeliverOld, AfterDelivery, At, Stage
  <2>2. CASE ~job[r].inChat
    BY <1>2, <2>2, FinishStep DEF DeliverOld, AfterDelivery
  <2> QED BY <2>1, <2>2
<1>3. CASE DeliverUpdate(r)
  BY <1>3, ReceivedStep
<1>4. CASE AllFind(r)
  BY <1>4, GoOnStep DEF AllFind, At
<1>5. CASE AllUpdateRead(r)
  BY <1>5, ReadStep
<1>6. CASE AllUpdateReceived(r)
  BY <1>6, ReceivedStep
<1>7. CASE ReadFresh(r)
  BY <1>7, GoToStep DEF ReadFresh, At, Stage
<1>8. CASE ReadOld(r)
  <2>1. job[r].op = "read"
    BY <1>8 DEF ReadOld, At, Inv, JobInv, JobOK
  <2>2. FindParticipant(read, r) = read[job[r].conv][job[r].user]
    BY <2>1 DEF FindParticipant, Target
  <2> QED BY <1>8, <2>2, GoToStep DEF ReadOld, At, Stage
<1>9. CASE ReadUpdate(r)
  BY <1>9, ReadStep
<1>10. CASE Answer(r)
  BY <1>10, AnswerStep
<1> QED
  BY <1>1, <1>2, <1>3, <1>4, <1>5, <1>6, <1>7, <1>8, <1>9, <1>10 DEF Mark

----------------------------------------------------------------------------
\* Paging

\* A page of gapless numbers has no gap and starts where the cursor stands.
LEMMA PageIsInterval ==
  ASSUME NEW c \in Conversation, NEW k \in Nat, sent[c] = 1..k,
         NEW after \in Nat, NEW limit \in Nat,
         NEW last \in Page(c, after, limit),
         \A n \in Page(c, after, limit) : n <= last
  PROVE  Page(c, after, limit) = (after + 1)..last /\ last \in 1..k
<1> DEFINE later == {n \in sent[c] : n > after}
<1>1. later = (after + 1)..k
  OBVIOUS
<1>2. ASSUME NEW n \in later
      PROVE  Cardinality({m \in later : m < n}) = n - 1 - after
  <2>1. {m \in later : m < n} = (after + 1)..(n - 1)
    BY <1>1
  <2>2. after + 1 \in Int /\ n - 1 \in Int /\ after + 1 <= n
    BY <1>1, <1>2
  <2>3. Cardinality((after + 1)..(n - 1)) =
          IF after + 1 > n - 1 THEN 0 ELSE (n - 1) - (after + 1) + 1
    BY <2>2, FS_Interval
  <2>4. Cardinality((after + 1)..(n - 1)) = n - 1 - after
    BY <2>2, <2>3
  <2> QED BY <2>1, <2>4
<1>3. Page(c, after, limit) = {n \in later : n - 1 - after < limit}
  BY <1>2 DEF Page
<1> HIDE DEF later
<1>4. last \in (after + 1)..k /\ last - 1 - after < limit
  BY <1>1, <1>3
<1> QED BY <1>1, <1>3, <1>4

LEMMA FetchStep ==
  ASSUME Inv, NEW u \in Role, NEW c \in Conversation,
         NEW limit \in 1..MaxMessage, Fetch(u, c, limit)
  PROVE  Inv'
<1> DEFINE a == cursor[c][u]
           page == Page(c, a, limit)
<1>1. /\ a \in Nat /\ counter[c] \in Nat /\ limit \in Nat
      /\ counter[c] \in Number
      /\ sent[c] = 1..counter[c] /\ held[c][u] = 1..a
  BY Typed, NumberIsNat, ChatAssumption
     DEF Inv, NumbersGapless, CatchUpMissesNothing
<1>2. PICK last \in page :
        /\ \A n \in page : n <= last
        /\ cursor' = [cursor EXCEPT ![c][u] = last]
        /\ held' = [held EXCEPT ![c][u] = held[c][u] \cup page]
  BY DEF Fetch
<1>3. page = (a + 1)..last /\ last \in 1..counter[c]
  BY <1>1, <1>2, PageIsInterval
<1>4. last \in (a + 1)..last
  BY <1>2, <1>3
<1>5. held[c][u] \cup page = 1..last
  BY <1>1, <1>3, <1>4
<1>6. UNCHANGED <<table, marks, told, pc, job>>
  BY DEF Fetch
<1>7. last \in Number /\ last <= counter[c]
  BY <1>1, <1>3, ChatAssumption DEF Number
<1> HIDE DEF a, page
<1>8. /\ cursor' \in PerParticipant
      /\ held' \in [Conversation -> [Role -> SUBSET Number]]
  <2>1. 1..last \in SUBSET Number
    BY <1>7, ChatAssumption DEF Number
  <2> QED BY <1>2, <1>5, <1>7, <2>1 DEF Inv, TypeOK, PerParticipant
<1>9. TypeOK'
  BY <1>6, <1>8 DEF Inv, TypeOK, table, marks
<1>10. /\ cursor'[c][u] = last /\ held'[c][u] = 1..last
       /\ \A d \in Conversation, v \in Role :
            ~(d = c /\ v = u) =>
              cursor'[d][v] = cursor[d][v] /\ held'[d][v] = held[d][v]
  BY <1>2, <1>5 DEF Inv, TypeOK, PerParticipant
<1>11. CursorInv' /\ CatchUpMissesNothing'
  BY <1>6, <1>7, <1>10 DEF Inv, CursorInv, CatchUpMissesNothing, table
<1>12. NumbersGapless' /\ MarksWithinConversation' /\ ReadReceiptsTrue'
  BY <1>6 DEF Inv, NumbersGapless, MarksWithinConversation,
              ReadReceiptsTrue, table, marks
<1>13. JobInv'
  BY <1>6 DEF Inv, JobInv, JobOK, Target, table, marks
<1> QED BY <1>9, <1>11, <1>12, <1>13 DEF Inv

----------------------------------------------------------------------------
\* A call that fails gives up the row and leaves the rest

LEMMA FailStep ==
  ASSUME Inv, NEW r \in Request, Fail(r)
  PROVE  Inv'
<1>1. /\ locked' = [c \in Conversation |->
           IF locked[c] = r THEN NoRequest ELSE locked[c]]
      /\ Finish(r) /\ UNCHANGED <<opened, counter, sent, marks, device>>
  BY DEF Fail
<1>2. TypeOK'
  BY <1>1 DEF Finish, Inv, TypeOK, Stage, marks, device
<1>3. Grows(r)
  <2>1. \A c \in Conversation : counter[c] <= counter[c]
    BY Typed, NumberIsNat DEF Inv, Role
  <2>2. \A c \in Conversation, u \in Role : read[c][u] <= read[c][u]
    BY Typed, NumberIsNat DEF Inv
  <2> QED BY <1>1, <2>1, <2>2 DEF Grows, marks
<1>4. JobOK(r)'
  BY <1>1 DEF Finish, Inv, TypeOK, JobOK
<1>5. \A q \in Request \ {r} : pc'[q] = pc[q] /\ job'[q] = job[q]
  BY <1>1 DEF Finish, Inv, TypeOK
<1>6. JobInv'
  BY <1>2, <1>3, <1>4, <1>5, CallsStay
<1>7. DataInv'
  BY <1>1, DataStays
<1> QED BY <1>2, <1>6, <1>7 DEF Inv, DataInv

----------------------------------------------------------------------------
\* The invariant

LEMMA InitInv == Init => Inv
<1> SUFFICES ASSUME Init PROVE Inv
  OBVIOUS
<1>1. 0 \in Number /\ 0 <= 0
  BY ChatAssumption DEF Number
<1>2. TypeOK
  BY <1>1 DEF Init, TypeOK, PerParticipant, Stage
<1>3. JobInv
  BY DEF Init, JobInv, JobOK
<1>4. CursorInv /\ MarksWithinConversation
  BY <1>1 DEF Init, CursorInv, MarksWithinConversation
<1>5. ReadReceiptsTrue
  BY <1>1, OtherRole DEF Init, ReadReceiptsTrue
<1>6. 1..0 = {}
  OBVIOUS
<1>7. NumbersGapless /\ CatchUpMissesNothing
  BY <1>6 DEF Init, NumbersGapless, CatchUpMissesNothing
<1> QED BY <1>2, <1>3, <1>4, <1>5, <1>7 DEF Inv

LEMMA Unchanged ==
  ASSUME Inv, UNCHANGED vars
  PROVE  Inv'
BY DEF Inv, vars, table, marks, device, TypeOK, JobInv, JobOK, Target,
       CursorInv, NumbersGapless, CatchUpMissesNothing,
       MarksWithinConversation, ReadReceiptsTrue

LEMMA NextInv == Inv /\ [Next]_vars => Inv'
<1> SUFFICES ASSUME Inv, [Next]_vars PROVE Inv'
  OBVIOUS
<1>1. CASE \E r \in Request : Call(r)
  BY <1>1, CallStep
<1>2. CASE \E r \in Request : Open(r)
  BY <1>2, OpenStep
<1>3. CASE \E r \in Request : Send(r)
  BY <1>3, SendStep
<1>4. CASE \E r \in Request : Mark(r)
  BY <1>4, MarkStep
<1>5. CASE \E r \in Request : Fail(r)
  BY <1>5, FailStep
<1>6. CASE \E u \in Role, c \in Conversation, limit \in 1..MaxMessage :
             Fetch(u, c, limit)
  BY <1>6, FetchStep
<1>7. CASE UNCHANGED vars
  BY <1>7, Unchanged
<1> QED BY <1>1, <1>2, <1>3, <1>4, <1>5, <1>6, <1>7 DEF Next

\* Every reachable state is one Inv describes.
THEOREM ChatInvariant == Spec => []Inv
<1> QED BY InitInv, NextInv, PTL DEF Spec

----------------------------------------------------------------------------
\* Theorems

\* Tables, marks, devices and calls keep their types, and no number passes
\* the bound.
THEOREM ChatTyped == Spec => []TypeOK
<1>1. Inv => TypeOK
  BY DEF Inv
<1> QED BY <1>1, ChatInvariant, PTL

\* The committed messages are numbered from 1 to the counter: the row lock of
\* atomicSendMessage outlives the increment.
THEOREM GaplessNumbers == Spec => []NumbersGapless
<1>1. Inv => NumbersGapless
  BY DEF Inv
<1> QED BY <1>1, ChatInvariant, PTL

\* A device that pages by its last message number holds every message up to
\* it, for pages of any length taken between any commits.
THEOREM NothingMissed == Spec => []CatchUpMissesNothing
<1>1. Inv => CatchUpMissesNothing
  BY DEF Inv
<1> QED BY <1>1, ChatInvariant, PTL

\* No mark passes the committed counter, though marks are written from
\* counters read earlier.
THEOREM MarksBounded == Spec => []MarksWithinConversation
<1>1. Inv => MarksWithinConversation
  BY DEF Inv
<1> QED BY <1>1, ChatInvariant, PTL

\* A read receipt is backed by the reader's mark, for good.
THEOREM ReceiptsTrue == Spec => []ReadReceiptsTrue
<1>1. Inv => ReadReceiptsTrue
  BY DEF Inv
<1> QED BY <1>1, ChatInvariant, PTL

\* The steps that leave both marks alone, and those that write one.
LEMMA MarkWriters ==
  ASSUME [Next]_vars
  PROVE  \/ UNCHANGED marks
         \/ \E r \in Request :
              /\ \/ /\ \/ SendReceive(r) \/ DeliverUpdate(r)
                       \/ AllUpdateReceived(r)
                    /\ read' = read
                 \/ /\ AllUpdateRead(r) \/ ReadUpdate(r)
                    /\ received' = received
<1> USE DEF marks
<1>1. CASE \E r \in Request : Call(r)
  BY <1>1 DEF Call, OpenAsk, SendAsk, ConnectAsk, EnterAsk, ReadAsk, Accept
<1>2. CASE \E r \in Request : Open(r)
  BY <1>2 DEF Open, OpenFound, OpenMissing, OpenCreate, CreateWithParticipants
<1>3. CASE \E r \in Request : Send(r)
  BY <1>3 DEF Send, SendCount, SendCommit, SendReceive, SendPresence,
              SendImageEnd
<1>4. CASE \E r \in Request : Mark(r)
  BY <1>4 DEF Mark, DeliverFresh, DeliverOld, DeliverUpdate, AllFind,
              AllUpdateRead, AllUpdateReceived, ReadFresh, ReadOld,
              ReadUpdate, Answer
<1>5. CASE \E r \in Request : Fail(r)
  BY <1>5 DEF Fail
<1>6. CASE \E u \in Role, c \in Conversation, limit \in 1..MaxMessage :
             Fetch(u, c, limit)
  BY <1>6 DEF Fetch
<1>7. CASE UNCHANGED vars
  BY <1>7 DEF vars
<1> QED BY <1>1, <1>2, <1>3, <1>4, <1>5, <1>6, <1>7 DEF Next

\* Written with GREATEST, a mark never moves back, whatever order overlapping
\* calls write in.
THEOREM MarksOnlyRise == Spec => MarksNeverFall
<1> DEFINE Rise == \A c \in Conversation, u \in Role :
                     read'[c][u] >= read[c][u] /\ received'[c][u] >= received[c][u]
<1>1. ASSUME Inv, [Next]_vars
      PROVE  Rise
  <2>1. /\ read \in PerParticipant /\ received \in PerParticipant
        /\ read' \in PerParticipant /\ received' \in PerParticipant
    BY <1>1, NextInv DEF Inv, TypeOK
  <2>2. \A c \in Conversation, u \in Role :
          /\ read[c][u] \in Nat /\ received[c][u] \in Nat
          /\ read'[c][u] \in Nat /\ received'[c][u] \in Nat
    BY <2>1, NumberIsNat DEF PerParticipant
  <2>3. CASE UNCHANGED marks
    BY <2>2, <2>3 DEF marks
  <2>4. ASSUME NEW r \in Request,
               SendReceive(r) \/ DeliverUpdate(r) \/ AllUpdateReceived(r),
               read' = read
        PROVE  Rise
    <3>1. pc[r] # "idle" /\ pc[r] \notin {"find", "create"}
      BY <2>4 DEF SendReceive, DeliverUpdate, AllUpdateReceived, At
    <3>2. /\ job[r] \in Job /\ job[r].conv \in Conversation
          /\ Target(job[r]) \in Role /\ job[r].user \in Role
          /\ job[r].number \in Number /\ job[r].upTo \in Number
      BY <1>1, <3>1, JobTyped DEF Inv, JobInv, JobOK, Job
    <3>3. PICK u \in Role, n \in Number :
            received' = Raise(received, job[r].conv, u, n)
      BY <2>4, <3>2 DEF SendReceive, DeliverUpdate, AllUpdateReceived,
                        UpdateLastReceived, Raise
    <3>4. \A d \in Conversation, v \in Role : received[d][v] <= received'[d][v]
      <4> DEFINE c == job[r].conv
      <4>1. c \in Conversation
        BY <3>2
      <4>2. received' = Raise(received, c, u, n)
        BY <3>3
      <4> HIDE DEF c
      <4> QED BY <2>1, <4>1, <4>2, Raised
    <3> QED BY <2>2, <2>4, <3>4
  <2>5. ASSUME NEW r \in Request, AllUpdateRead(r) \/ ReadUpdate(r),
               received' = received
        PROVE  Rise
    <3>1. pc[r] # "idle" /\ pc[r] \notin {"find", "create"}
      BY <2>5 DEF AllUpdateRead, ReadUpdate, At
    <3>2. /\ job[r] \in Job /\ job[r].conv \in Conversation
          /\ Target(job[r]) \in Role /\ job[r].user \in Role
          /\ job[r].number \in Number /\ job[r].upTo \in Number
      BY <1>1, <3>1, JobTyped DEF Inv, JobInv, JobOK, Job
    <3>3. PICK u \in Role, n \in Number :
            read' = Raise(read, job[r].conv, u, n)
      BY <2>5, <3>2 DEF AllUpdateRead, ReadUpdate, UpdateLastRead, Raise
    <3>4. \A d \in Conversation, v \in Role : read[d][v] <= read'[d][v]
      <4> DEFINE c == job[r].conv
      <4>1. c \in Conversation
        BY <3>2
      <4>2. read' = Raise(read, c, u, n)
        BY <3>3
      <4> HIDE DEF c
      <4> QED BY <2>1, <4>1, <4>2, Raised
    <3> QED BY <2>2, <2>5, <3>4
  <2> QED BY <1>1, <2>3, <2>4, <2>5, MarkWriters
<1>2. Inv /\ [Next]_vars => [Rise]_vars
  BY <1>1
<1> QED BY <1>2, ChatInvariant, PTL DEF Spec, MarksNeverFall
----------------------------------------------------------------------------
\* First contacts

\* The calls that found no conversation and will create one.
Opening == {r \in Request : pc[r] = "create"}

\* No constraint keeps a pair to one conversation, and overlapping first
\* contacts each create theirs (getOrCreateConversation).  But whoever looks
\* later finds one: there are never more than calls that may overlap.
FewConversations ==
  IsFiniteSet(Request) =>
    IsFiniteSet(opened) /\ Cardinality(opened) <= Cardinality(Request)

FewInv ==
  IsFiniteSet(Request) =>
    /\ IsFiniteSet(opened)
    /\ Cardinality(opened) + Cardinality(Opening) <= Cardinality(Request)

LEMMA OpeningSteps ==
  ASSUME TypeOK, [Next]_vars
  PROVE  \/ opened' = opened /\ Opening' \subseteq Opening
         \/ opened' = opened /\ opened = {}
         \/ \E r \in Opening, c \in Conversation :
              /\ c \notin opened /\ opened' = opened \cup {c}
              /\ Opening' = Opening \ {r}
<1>1. ASSUME NEW r \in Request, NEW stage \in Stage, stage # "create",
             pc' = [pc EXCEPT ![r] = stage]
      PROVE  Opening' = Opening \ {r}
  BY <1>1 DEF Opening, TypeOK
<1>2. CASE \E r \in Request : Call(r)
  BY <1>1, <1>2 DEF Call, OpenAsk, SendAsk, ConnectAsk, EnterAsk, ReadAsk,
                    Accept, table, Stage
<1>3. CASE \E r \in Request : Open(r)
  <2>1. PICK r \in Request : Open(r)
    BY <1>3
  <2>2. CASE OpenFound(r)
    BY <1>1, <2>2 DEF OpenFound, Finish, table, Stage
  <2>3. CASE OpenMissing(r)
    BY <2>3 DEF OpenMissing, table
  <2>4. ASSUME NEW c \in Conversation, OpenCreate(r, c)
        PROVE  \E q \in Opening, d \in Conversation :
                 /\ d \notin opened /\ opened' = opened \cup {d}
                 /\ Opening' = Opening \ {q}
    <3>1. r \in Opening
      BY <2>4 DEF OpenCreate, At, Opening
    <3>2. Opening' = Opening \ {r}
      BY <1>1, <2>4 DEF OpenCreate, Finish, Stage
    <3> QED BY <2>4, <3>1, <3>2 DEF OpenCreate, CreateWithParticipants
  <2> QED BY <2>1, <2>2, <2>3, <2>4 DEF Open
<1>4. CASE \E r \in Request : Send(r)
  BY <1>1, <1>4 DEF Send, SendCount, SendCommit, SendReceive, SendPresence,
                    SendImageEnd, GoTo, Finish, table, Stage
<1>5. CASE \E r \in Request : Mark(r)
  <2>1. PICK r \in Request : Mark(r)
    BY <1>5
  <2>2. opened' = opened
    BY <2>1 DEF Mark, DeliverFresh, DeliverOld, DeliverUpdate, AllFind,
                AllUpdateRead, AllUpdateReceived, ReadFresh, ReadOld,
                ReadUpdate, Answer, table
  <2>3. PICK stage \in Stage : stage # "create" /\ pc' = [pc EXCEPT ![r] = stage]
    <3>1. CASE DeliverFresh(r) \/ ReadFresh(r) \/ ReadOld(r) \/ ReadUpdate(r)
      BY <3>1 DEF DeliverFresh, ReadFresh, ReadOld, ReadUpdate, GoTo, Stage
    <3>2. CASE DeliverOld(r) \/ DeliverUpdate(r)
      <4>1. AfterDelivery(r)
        BY <3>2 DEF DeliverOld, DeliverUpdate
      <4>2. CASE job[r].inChat
        BY <4>1, <4>2 DEF AfterDelivery, GoTo, Stage
      <4>3. CASE ~job[r].inChat
        BY <4>1, <4>3 DEF AfterDelivery, Finish, Stage
      <4> QED BY <4>2, <4>3
    <3>3. CASE AllFind(r) \/ Answer(r)
      BY <3>3 DEF AllFind, Answer, Finish, Stage
    <3>4. CASE AllUpdateRead(r)
      BY <3>4 DEF AllUpdateRead, GoTo, Stage
    <3>5. CASE AllUpdateReceived(r)
      BY <3>5 DEF AllUpdateReceived, GoTo, Stage
    <3> QED BY <2>1, <3>1, <3>2, <3>3, <3>4, <3>5 DEF Mark
  <2>4. Opening' = Opening \ {r}
    BY <1>1, <2>3
  <2> QED BY <2>2, <2>4
<1>6. CASE \E r \in Request : Fail(r)
  <2>1. PICK r \in Request : Fail(r)
    BY <1>6
  <2>2. opened' = opened /\ pc' = [pc EXCEPT ![r] = "idle"]
    BY <2>1 DEF Fail, Finish
  <2>3. Opening' = Opening \ {r}
    BY <1>1, <2>2 DEF Stage
  <2> QED BY <2>2, <2>3
<1>7. CASE \E u \in Role, c \in Conversation, limit \in 1..MaxMessage :
             Fetch(u, c, limit)
  BY <1>7 DEF Fetch, table, Opening
<1>8. CASE UNCHANGED vars
  BY <1>8 DEF vars, table, Opening
<1> QED BY <1>2, <1>3, <1>4, <1>5, <1>6, <1>7, <1>8 DEF Next

\* What is there, and what may still come of it.
THEOREM FirstContactsFew == Spec => []FewConversations
<1>1. Init => FewInv
  <2> SUFFICES ASSUME Init, IsFiniteSet(Request) PROVE FewInv
    BY DEF FewInv
  <2>1. opened = {} /\ Opening = {}
    BY DEF Init, Opening
  <2> QED BY <2>1, FS_EmptySet, FS_CardinalityType DEF FewInv
<1>2. Inv /\ FewInv /\ [Next]_vars => FewInv'
  <2> SUFFICES ASSUME Inv, FewInv, [Next]_vars, IsFiniteSet(Request)
               PROVE  FewInv'
    BY DEF FewInv
  <2>1. \A S \in SUBSET Request : /\ IsFiniteSet(S) /\ Cardinality(S) \in Nat
                                  /\ Cardinality(S) <= Cardinality(Request)
    BY FS_Subset, FS_CardinalityType
  <2>2. Opening \in SUBSET Request /\ Opening' \in SUBSET Request
    BY DEF Opening
  <2>3. /\ IsFiniteSet(opened) /\ Cardinality(opened) \in Nat
        /\ Cardinality(opened) + Cardinality(Opening) <= Cardinality(Request)
    BY FS_CardinalityType DEF FewInv
  <2>4. Cardinality(Request) \in Nat
    BY FS_CardinalityType
  <2>5. SUFFICES /\ IsFiniteSet(opened')
                 /\ Cardinality(opened') + Cardinality(Opening')
                      <= Cardinality(Request)
    BY DEF FewInv
  <2>6. CASE opened' = opened /\ Opening' \subseteq Opening
    <3>1. Cardinality(Opening') <= Cardinality(Opening)
      BY <2>1, <2>2, <2>6, FS_Subset
    <3> QED BY <2>1, <2>2, <2>3, <2>4, <2>6, <3>1
  <2>7. CASE opened' = opened /\ opened = {}
    <3>1. Cardinality(opened) = 0
      BY <2>7, FS_EmptySet
    <3> QED BY <2>1, <2>2, <2>3, <2>4, <2>7, <3>1
  <2>8. ASSUME NEW r \in Opening, NEW c \in Conversation, c \notin opened,
               opened' = opened \cup {c}, Opening' = Opening \ {r}
        PROVE  /\ IsFiniteSet(opened')
               /\ Cardinality(opened') + Cardinality(Opening')
                    <= Cardinality(Request)
    <3>1. /\ IsFiniteSet(opened \cup {c})
          /\ Cardinality(opened \cup {c}) = Cardinality(opened) + 1
      BY <2>3, <2>8, FS_AddElement
    <3>2. Cardinality(Opening \ {r}) = Cardinality(Opening) - 1
      BY <2>1, <2>2, FS_RemoveElement
    <3> QED BY <2>1, <2>2, <2>3, <2>4, <2>8, <3>1, <3>2
  <2>9. TypeOK
    BY DEF Inv
  <2> QED BY <2>6, <2>7, <2>8, <2>9, OpeningSteps
<1>3. FewInv => FewConversations
  <2> SUFFICES ASSUME FewInv, IsFiniteSet(Request) PROVE FewConversations
    BY DEF FewConversations
  <2>1. IsFiniteSet(Opening) /\ Cardinality(Opening) \in Nat
    BY FS_Subset, FS_CardinalityType DEF Opening
  <2> QED BY <2>1, FS_CardinalityType DEF FewInv, FewConversations
<1> QED BY <1>1, <1>2, <1>3, ChatInvariant, PTL DEF Spec

----------------------------------------------------------------------------
\* Refinement of Thread

\* An UPDATE with GREATEST sets a later number or changes nothing.
LEMMA RaiseOrStay ==
  ASSUME NEW mark \in PerParticipant, NEW c \in Conversation, NEW u \in Role,
         NEW n \in Number
  PROVE  \/ Raise(mark, c, u, n) = mark
         \/ /\ mark[c][u] < n
            /\ Raise(mark, c, u, n) = [mark EXCEPT ![c][u] = n]
<1>1. mark[c][u] \in Nat /\ n \in Nat
  BY NumberIsNat DEF PerParticipant
<1>2. CASE mark[c][u] < n
  BY <1>2 DEF Raise, Greatest
<1>3. CASE ~(mark[c][u] < n)
  BY <1>3 DEF Raise, Greatest, PerParticipant
<1> QED BY <1>2, <1>3

LEMMA SameRoles == T!Role = Role /\ \A u \in Role : T!Partner[u] = Other(u)
BY DEF T!Role, T!Partner, Role, Other

\* A step writes at most one of the counters, the marks and the receipts.
LEMMA ThreadWriters ==
  ASSUME [Next]_vars
  PROVE  \/ UNCHANGED T!vars
         \/ \E r \in Request :
              \/ SendCommit(r)
              \/ SendReceive(r) \/ DeliverUpdate(r) \/ AllUpdateReceived(r)
              \/ AllUpdateRead(r) \/ ReadUpdate(r)
              \/ Answer(r)
<1> USE DEF T!vars, table, marks, device
<1>1. CASE \E r \in Request : Call(r)
  BY <1>1 DEF Call, OpenAsk, SendAsk, ConnectAsk, EnterAsk, ReadAsk, Accept
<1>2. CASE \E r \in Request : Open(r)
  BY <1>2 DEF Open, OpenFound, OpenMissing, OpenCreate, CreateWithParticipants
<1>3. CASE \E r \in Request : Send(r)
  BY <1>3 DEF Send, SendCount, SendPresence, SendImageEnd
<1>4. CASE \E r \in Request : Mark(r)
  BY <1>4 DEF Mark, DeliverFresh, DeliverOld, AllFind, ReadFresh, ReadOld
<1>5. CASE \E r \in Request : Fail(r)
  BY <1>5 DEF Fail
<1>6. CASE \E u \in Role, c \in Conversation, limit \in 1..MaxMessage :
             Fetch(u, c, limit)
  BY <1>6 DEF Fetch
<1>7. CASE UNCHANGED vars
  BY <1>7 DEF vars
<1> QED BY <1>1, <1>2, <1>3, <1>4, <1>5, <1>6, <1>7 DEF Next

\* A write is the message, mark or receipt it stands for, since its number is
\* still worth what JobOK says.
LEMMA ThreadStep == Inv /\ [Next]_vars => [T!Next]_(T!vars)
<1> SUFFICES ASSUME Inv, NEW r \in Request,
                    \/ SendCommit(r)
                    \/ SendReceive(r) \/ DeliverUpdate(r) \/ AllUpdateReceived(r)
                    \/ AllUpdateRead(r) \/ ReadUpdate(r)
                    \/ Answer(r)
             PROVE  T!Next \/ UNCHANGED T!vars
  BY ThreadWriters
<1>1. pc[r] \in {"insert", "sent", "delivering", "both", "readLeft",
                 "receivedLeft", "reading", "marked"}
  BY DEF SendCommit, SendReceive, DeliverUpdate, AllUpdateReceived,
         AllUpdateRead, ReadUpdate, Answer, At
<1>2. /\ job[r] \in Job /\ job[r].conv \in Conversation /\ JobOK(r)
      /\ Target(job[r]) \in Role /\ job[r].user \in Role
      /\ job[r].number \in Number /\ job[r].upTo \in Number
  BY <1>1, JobTyped DEF Inv, JobInv, JobOK, Job
<1>3. PICK c \in Conversation : c = job[r].conv
  BY <1>2
<1>4. CASE SendCommit(r)
  <2>1. counter' = [counter EXCEPT ![c] = counter[c] + 1]
    BY <1>2, <1>3, <1>4 DEF SendCommit, At, JobOK
  <2>2. UNCHANGED <<read, received, told>>
    BY <1>4 DEF SendCommit, marks, device
  <2> QED BY <2>1, <2>2 DEF T!Next, T!Post
<1>5. CASE SendReceive(r) \/ DeliverUpdate(r) \/ AllUpdateReceived(r)
  <2>1. PICK u \in Role, n \in Number :
          n <= counter[c] /\ received' = Raise(received, c, u, n)
    BY <1>2, <1>3, <1>5 DEF SendReceive, DeliverUpdate, AllUpdateReceived,
                            UpdateLastReceived, Raise, At, JobOK
  <2>2. UNCHANGED <<counter, read, told>>
    BY <1>5 DEF SendReceive, DeliverUpdate, AllUpdateReceived, table, device
  <2>3. \/ received' = received
        \/ received[c][u] < n /\ received' = [received EXCEPT ![c][u] = n]
    BY <2>1, RaiseOrStay DEF Inv, TypeOK
  <2>4. received[c][u] < n => n \in received[c][u] + 1..counter[c]
    BY <2>1, Typed, NumberIsNat DEF Inv
  <2> QED BY <2>1, <2>2, <2>3, <2>4, SameRoles DEF T!Next, T!Receive, T!vars
<1>6. CASE AllUpdateRead(r) \/ ReadUpdate(r)
  <2>1. PICK u \in Role, n \in Number :
          n <= counter[c] /\ read' = Raise(read, c, u, n)
    BY <1>2, <1>3, <1>6 DEF AllUpdateRead, ReadUpdate, UpdateLastRead, Raise, At,
                            JobOK
  <2>2. UNCHANGED <<counter, received, told>>
    BY <1>6 DEF AllUpdateRead, ReadUpdate, table, device
  <2>3. \/ read' = read
        \/ read[c][u] < n /\ read' = [read EXCEPT ![c][u] = n]
    BY <2>1, RaiseOrStay DEF Inv, TypeOK
  <2>4. read[c][u] < n => n \in read[c][u] + 1..counter[c]
    BY <2>1, Typed, NumberIsNat DEF Inv
  <2> QED BY <2>1, <2>2, <2>3, <2>4, SameRoles DEF T!Next, T!Read, T!vars
<1>7. CASE Answer(r)
  <2>1. UNCHANGED <<counter, read, received>>
    BY <1>7 DEF Answer, table, marks
  <2>2. CASE job[r].op = "enter"
    BY <1>7, <2>1, <2>2 DEF Answer, T!vars
  <2>3. CASE job[r].op # "enter"
    <3>1. PICK u \in Role : u = Other(Target(job[r])) /\ Other(u) = Target(job[r])
      BY <1>2, OtherRole
    <3>2. PICK n \in Number : n = job[r].number
      BY <1>2
    <3>3. told' = Raise(told, c, u, n)
      BY <1>3, <1>7, <2>3, <3>1, <3>2 DEF Answer, Raise
    <3>4. n <= read[c][Other(u)]
      BY <1>2, <1>3, <1>7, <2>3, <3>1, <3>2 DEF Answer, At, JobOK
    <3>5. \/ told' = told
          \/ told[c][u] < n /\ told' = [told EXCEPT ![c][u] = n]
      BY <3>3, RaiseOrStay DEF Inv, TypeOK
    <3>6. told[c][u] < n => n \in told[c][u] + 1..read[c][Other(u)]
      BY <1>2, <3>1, <3>4, Typed, NumberIsNat DEF Inv
    <3> QED
      BY <2>1, <3>5, <3>6, SameRoles DEF T!Next, T!Tell, T!vars
  <2> QED BY <2>2, <2>3
<1> QED BY <1>4, <1>5, <1>6, <1>7

\* However the calls overlap, overtake each other and die, a conversation is a
\* thread of messages with marks that rise and receipts that are true.
THEOREM ThreadImplemented == Spec => ImplementsThread
<1>1. Init => T!Init
  BY SameRoles DEF Init, T!Init, T!Start
<1>2. Spec => []Inv
  BY ChatInvariant
<1> QED
  BY <1>1, <1>2, ThreadStep, PTL DEF Spec, ImplementsThread, T!Spec
=============================================================================
