--------------------------- MODULE Sessions_proofs ---------------------------
(***************************************************************************)
(* Theorems about Sessions, for any sets of users, devices, sessions and   *)
(* calls.                                                                  *)
(***************************************************************************)
EXTENDS Sessions, TLAPS

\* What call r knows at each of its stages.
JobOK(r) ==
  /\ pc[r] # "idle" => job[r] \in Job
  /\ pc[r] \in {"found", "created"} => job[r].op = "login" /\ ~job[r].late
  /\ pc[r] = "found" => job[r].token \in Token
  /\ pc[r] = "opened" => job[r].op \in {"login", "refresh"}
  /\ pc[r] \in {"asked", "picked"} => job[r].op = "logout"
  /\ pc[r] \in {"created", "expired", "granted", "picked"} =>
       /\ job[r].session \in Session
       /\ Exists(job[r].session)
       /\ session[job[r].session].user = job[r].user
  /\ pc[r] = "expired" => session[job[r].session].expired
  /\ pc[r] = "picked" => session[job[r].session].device = job[r].device
  /\ pc[r] = "opened" /\ job[r].late =>
       \E s \in Session : /\ Exists(s)
                          /\ session[s].revoked
                          /\ session[s].token = job[r].token
  /\ pc[r] = "granted" => ~job[r].late

JobInv == \A r \in Request : JobOK(r)

\* A refresh token belongs to one session.
TokenInv ==
  \A s, t \in Session :
    Exists(s) /\ Exists(t) /\ session[s].token = session[t].token => s = t

SweptInv == \A s \in swept : Exists(s)

Inv == TypeOK /\ JobInv /\ TokenInv /\ SweptInv /\ OneSessionPerUser

----------------------------------------------------------------------------
\* Rows only ever gain revocations and expiries

Kept(s) ==
  /\ session'[s] \in Row
  /\ session'[s].user = session[s].user
  /\ session'[s].device = session[s].device
  /\ session'[s].token = session[s].token
  /\ session[s].revoked => session'[s].revoked
  /\ session[s].expired => session'[s].expired

RowsKept == \A s \in Session : Exists(s) => Kept(s)

LEMMA RowExists == \A s \in Session : session[s] \in Row => Exists(s)
BY SessionsAssumption DEF Exists

\* A call that a step does not touch still knows what it knew.
LEMMA JobStays ==
  ASSUME Inv, RowsKept, NEW r \in Request, JobOK(r),
         pc'[r] = pc[r], job'[r] = job[r]
  PROVE  JobOK(r)'
<1>1. \A s \in Session : Exists(s) => Exists(s)'
  BY SessionsAssumption DEF RowsKept, Kept, Exists
<1> QED
  BY <1>1 DEF JobOK, RowsKept, Kept, Exists

\* The part of the invariant about the table, when rows only change in place.
LEMMA TableStays ==
  ASSUME Inv, RowsKept, swept' = swept,
         \A s \in Session : ~Exists(s) => session'[s] = NoRow
  PROVE  TokenInv' /\ SweptInv' /\ OneSessionPerUser'
<1>1. \A s \in Session : Exists(s)' <=> Exists(s)
  BY SessionsAssumption DEF RowsKept, Kept, Exists
<1>2. TokenInv'
  BY <1>1 DEF Inv, TokenInv, RowsKept, Kept
<1>3. SweptInv'
  BY <1>1 DEF Inv, SweptInv, TypeOK
<1>4. OneSessionPerUser'
  BY <1>1 DEF Inv, OneSessionPerUser, Active, RowsKept, Kept, TypeOK
<1> QED BY <1>2, <1>3, <1>4

----------------------------------------------------------------------------
\* The two ways a statement revokes

LEMMA RevokeKeeps ==
  ASSUME Inv, NEW s \in Session, Exists(s), Revoke(s)
  PROVE  /\ session' \in [Session -> Row \cup {NoRow}]
         /\ RowsKept
         /\ \A t \in Session : ~Exists(t) => session'[t] = NoRow
<1>1. session[s] \in Row
  BY DEF Inv, TypeOK, Exists
<1>2. [session[s] EXCEPT !.revoked = TRUE] \in Row
  BY <1>1 DEF Row
<1>3. session' = [session EXCEPT ![s] = [session[s] EXCEPT !.revoked = TRUE]]
  BY DEF Revoke
<1>4. RowsKept
  <2>1. Kept(s)
    BY <1>1, <1>2, <1>3 DEF Kept, Inv, TypeOK, Row
  <2>2. \A t \in Session : t # s /\ Exists(t) => Kept(t)
    BY <1>3 DEF Kept, Inv, TypeOK, Exists
  <2> QED BY <2>1, <2>2 DEF RowsKept
<1> QED
  BY <1>1, <1>2, <1>3, <1>4, RowExists DEF Inv, TypeOK, Exists

LEMMA RevokeOthersKeeps ==
  ASSUME Inv, NEW u \in User, NEW kept \in Session, RevokeOthers(u, kept)
  PROVE  /\ session' \in [Session -> Row \cup {NoRow}]
         /\ RowsKept
         /\ \A t \in Session : ~Exists(t) => session'[t] = NoRow
         /\ \A t \in Session :
              Exists(t) /\ session[t].user = u /\ t # kept =>
                session'[t].revoked
<1>1. ASSUME NEW t \in Session, Exists(t)
      PROVE  /\ session[t] \in Row
             /\ [session[t] EXCEPT !.revoked = TRUE] \in Row
  <2>1. session[t] \in Row
    BY <1>1 DEF Inv, TypeOK, Exists
  <2> QED BY <2>1 DEF Row
<1>2. ASSUME NEW t \in Session, Exists(t)
      PROVE  /\ Kept(t)
             /\ session[t].user = u /\ t # kept => session'[t].revoked
  <2>1. CASE session[t].user = u /\ t # kept
    <3>1. session'[t] = [session[t] EXCEPT !.revoked = TRUE]
      BY <1>2, <2>1 DEF RevokeOthers
    <3> QED BY <1>1, <1>2, <2>1, <3>1 DEF Kept, Row
  <2>2. CASE ~(session[t].user = u /\ t # kept)
    <3>1. session'[t] = session[t]
      BY <1>2, <2>2 DEF RevokeOthers
    <3> QED BY <1>1, <1>2, <2>2, <3>1 DEF Kept
  <2> QED BY <2>1, <2>2
<1>3. \A t \in Session : ~Exists(t) => session'[t] = NoRow
  BY DEF RevokeOthers, Exists
<1>4. session' \in [Session -> Row \cup {NoRow}]
  <2>1. \A t \in Session : session'[t] \in Row \cup {NoRow}
    BY <1>2, <1>3 DEF Kept
  <2> QED BY <2>1 DEF RevokeOthers
<1> QED BY <1>2, <1>3, <1>4 DEF RowsKept

----------------------------------------------------------------------------
\* Every step keeps the invariant

LEMMA SameRows ==
  ASSUME Inv, session' = session
  PROVE  /\ RowsKept
         /\ \A t \in Session : ~Exists(t) => session'[t] = NoRow
BY DEF RowsKept, Kept, Inv, TypeOK, Exists

\* A call starts: only its own job is new.
LEMMA AcceptStep ==
  ASSUME Inv, NEW r \in Request, NEW stage \in Stage,
         NEW op \in {"login", "refresh", "logout"}, NEW u \in User,
         NEW d \in Device, NEW token \in Token \cup {NoToken},
         NEW late \in BOOLEAN, Accept(r, stage, op, u, d, token, late),
         \/ stage = "found" /\ op = "login" /\ token \in Token /\ ~late
         \/ stage = "asked" /\ op = "logout"
         \/ /\ stage = "opened" /\ op = "refresh"
            /\ late => \E s \in Session : /\ Exists(s)
                                          /\ session[s].revoked
                                          /\ session[s].token = token
  PROVE  Inv'
<1> DEFINE j == [op |-> op, user |-> u, device |-> d, token |-> token,
                 session |-> NoSession, late |-> late]
<1>1. j \in Job
  BY DEF Job
<1>2. /\ pc' = [pc EXCEPT ![r] = stage]
      /\ job' = [job EXCEPT ![r] = j]
      /\ UNCHANGED <<session, access, swept, now>>
  BY DEF Accept
<1>3. TypeOK'
  BY <1>1, <1>2 DEF Inv, TypeOK
<1>4. /\ RowsKept
      /\ \A t \in Session : ~Exists(t) => session'[t] = NoRow
  BY <1>2, SameRows
<1>5. JobOK(r)'
  <2>1. pc'[r] = stage /\ job'[r] = j
    BY <1>2 DEF Inv, TypeOK
  <2> HIDE DEF j
  <2>2. /\ j.op = op /\ j.token = token /\ j.late = late
    BY DEF j
  <2> QED
    BY <1>1, <1>2, <2>1, <2>2 DEF JobOK, Exists
<1>6. \A q \in Request : q # r => JobOK(q)'
  <2> SUFFICES ASSUME NEW q \in Request, q # r
               PROVE  JobOK(q)'
    OBVIOUS
  <2>1. pc'[q] = pc[q] /\ job'[q] = job[q]
    BY <1>2 DEF Inv, TypeOK
  <2> QED BY <1>4, <2>1, JobStays DEF Inv, JobInv
<1>7. JobInv'
  BY <1>5, <1>6 DEF JobInv
<1>8. TokenInv' /\ SweptInv' /\ OneSessionPerUser'
  BY <1>2, <1>4, TableStays
<1> QED BY <1>3, <1>7, <1>8 DEF Inv

LEMMA CallStep ==
  ASSUME Inv, NEW r \in Request, Call(r)
  PROVE  Inv'
<1>1. ASSUME NEW u \in User, NEW d \in Device, LoginAsk(r, u, d)
      PROVE  Inv'
  <2>1. [user |-> u, second |-> now] \in Token
    BY DEF Inv, TypeOK, Token
  <2> QED BY <1>1, <2>1, AcceptStep DEF LoginAsk, Stage
<1>2. ASSUME NEW s \in Session, NEW d \in Device, RefreshAsk(r, s, d)
      PROVE  Inv'
  <2>1. Exists(s) /\ session[s] \in Row
    BY <1>2 DEF RefreshAsk, Inv, TypeOK, Exists
  <2>2. /\ session[s].user \in User /\ session[s].token \in Token
        /\ session[s].revoked \in BOOLEAN
    BY <2>1 DEF Row
  <2> QED BY <1>2, <2>1, <2>2, AcceptStep DEF RefreshAsk, Stage
<1>3. ASSUME NEW u \in User, NEW d \in Device, LogoutAsk(r, u, d)
      PROVE  Inv'
  BY <1>3, AcceptStep DEF LogoutAsk, Stage
<1> QED BY <1>1, <1>2, <1>3 DEF Call

\* A call ends, having changed rows at most in place.
LEMMA FinishStep ==
  ASSUME Inv, NEW r \in Request, Finish(r), RowsKept,
         session' \in [Session -> Row \cup {NoRow}],
         \A t \in Session : ~Exists(t) => session'[t] = NoRow,
         access' \subseteq Session, UNCHANGED <<swept, now>>
  PROVE  Inv'
<1>1. TypeOK'
  BY DEF Finish, Inv, TypeOK, Stage
<1>2. \A q \in Request : JobOK(q)'
  <2> SUFFICES ASSUME NEW q \in Request
               PROVE  JobOK(q)'
    OBVIOUS
  <2>1. CASE q = r
    BY <2>1 DEF Finish, JobOK, Inv, TypeOK
  <2>2. CASE q # r
    <3>1. pc'[q] = pc[q] /\ job'[q] = job[q]
      BY <2>2 DEF Finish, Inv, TypeOK
    <3> QED BY <3>1, JobStays DEF Inv, JobInv
  <2> QED BY <2>1, <2>2
<1>3. TokenInv' /\ SweptInv' /\ OneSessionPerUser'
  BY TableStays
<1> QED BY <1>1, <1>2, <1>3 DEF Inv, JobInv

\* A call goes on with a row it has in hand, no row changing.
LEMMA GoOnStep ==
  ASSUME Inv, NEW r \in Request, NEW stage \in Stage, NEW s \in Session,
         pc[r] # "idle", GoOn(r, stage, s),
         UNCHANGED <<session, access, swept, now>>,
         Exists(s), session[s].user = job[r].user,
         \/ stage = "expired" /\ session[s].expired
         \/ stage = "granted" /\ ~job[r].late
         \/ /\ stage = "picked" /\ job[r].op = "logout"
            /\ session[s].device = job[r].device
  PROVE  Inv'
<1>1. job[r] \in Job
  BY DEF Inv, JobInv, JobOK
<1> DEFINE j == [job[r] EXCEPT !.session = s]
<1>2. /\ j \in Job /\ j.session = s /\ j.op = job[r].op /\ j.user = job[r].user
      /\ j.device = job[r].device /\ j.late = job[r].late
  BY <1>1 DEF Job
<1>3. pc' = [pc EXCEPT ![r] = stage] /\ job' = [job EXCEPT ![r] = j]
  BY DEF GoOn
<1>4. TypeOK'
  BY <1>2, <1>3 DEF Inv, TypeOK
<1>5. /\ RowsKept
      /\ \A t \in Session : ~Exists(t) => session'[t] = NoRow
  BY SameRows
<1>6. JobOK(r)'
  <2>1. pc'[r] = stage /\ job'[r] = j
    BY <1>3 DEF Inv, TypeOK
  <2> HIDE DEF j
  <2> QED BY <1>2, <2>1 DEF JobOK, Exists
<1>7. \A q \in Request : q # r => JobOK(q)'
  <2> SUFFICES ASSUME NEW q \in Request, q # r
               PROVE  JobOK(q)'
    OBVIOUS
  <2>1. pc'[q] = pc[q] /\ job'[q] = job[q]
    BY <1>3 DEF Inv, TypeOK
  <2> QED BY <1>5, <2>1, JobStays DEF Inv, JobInv
<1>8. TokenInv' /\ SweptInv' /\ OneSessionPerUser'
  BY <1>5, TableStays
<1> QED BY <1>4, <1>6, <1>7, <1>8 DEF Inv, JobInv

LEMMA LoginCreateStep ==
  ASSUME Inv, NEW r \in Request, NEW s \in Session, LoginCreate(r, s)
  PROVE  Inv'
<1>1. /\ job[r] \in Job /\ job[r].op = "login" /\ job[r].token \in Token
      /\ ~job[r].late
  BY DEF LoginCreate, Inv, JobInv, JobOK
<1> DEFINE row == [user |-> job[r].user, device |-> job[r].device,
                   token |-> job[r].token, revoked |-> FALSE, expired |-> FALSE]
           j == [job[r] EXCEPT !.session = s]
<1>2. row \in Row
  BY <1>1 DEF Job, Row
<1>3. /\ j \in Job /\ j.session = s /\ j.op = "login" /\ j.user = job[r].user
      /\ ~j.late
  BY <1>1 DEF Job
<1>4. /\ session' = [session EXCEPT ![s] = row]
      /\ pc' = [pc EXCEPT ![r] = "created"]
      /\ job' = [job EXCEPT ![r] = j]
      /\ UNCHANGED <<access, swept, now>>
  BY DEF LoginCreate, GoOn
<1>5. ~Exists(s) /\ \A t \in Session : Exists(t) => session[t].token # row.token
  BY DEF LoginCreate, TokenTaken
<1>6. TypeOK'
  BY <1>2, <1>3, <1>4 DEF Inv, TypeOK, Stage
<1>7. /\ session'[s] = row /\ row # NoRow
      /\ \A t \in Session : t # s => session'[t] = session[t]
  BY <1>2, <1>4, SessionsAssumption DEF Inv, TypeOK
<1>8. RowsKept
  BY <1>5, <1>7 DEF RowsKept, Kept, Inv, TypeOK, Exists
<1>9. JobOK(r)'
  <2>1. pc'[r] = "created" /\ job'[r] = j
    BY <1>4 DEF Inv, TypeOK
  <2>2. row.user = job[r].user
    OBVIOUS
  <2> HIDE DEF j, row
  <2> QED BY <1>3, <1>7, <2>1, <2>2 DEF JobOK, Exists
<1>10. \A q \in Request : q # r => JobOK(q)'
  <2> SUFFICES ASSUME NEW q \in Request, q # r
               PROVE  JobOK(q)'
    OBVIOUS
  <2>1. pc'[q] = pc[q] /\ job'[q] = job[q]
    BY <1>4 DEF Inv, TypeOK
  <2> QED BY <1>8, <2>1, JobStays DEF Inv, JobInv
<1> HIDE DEF row, j
<1>11. TokenInv'
  BY <1>5, <1>7 DEF Inv, TokenInv, Exists
<1>12. SweptInv'
  BY <1>4, <1>7 DEF Inv, SweptInv, Exists, TypeOK
<1>13. s \notin swept
  BY <1>5 DEF Inv, SweptInv
<1>14. OneSessionPerUser'
  BY <1>4, <1>7, <1>13 DEF Inv, OneSessionPerUser, Active, Exists, TypeOK
<1> QED BY <1>6, <1>9, <1>10, <1>11, <1>12, <1>14 DEF Inv, JobInv

\* The step that makes the sessions of a user one.
LEMMA LoginRevokeStep ==
  ASSUME Inv, NEW r \in Request, LoginRevoke(r)
  PROVE  Inv'
<1> DEFINE s == job[r].session
           u == job[r].user
<1>1. /\ job[r] \in Job /\ job[r].op = "login" /\ ~job[r].late
      /\ s \in Session /\ Exists(s) /\ session[s].user = u /\ u \in User
  BY DEF LoginRevoke, Inv, JobInv, JobOK, Job
<1>2. /\ RevokeOthers(u, s) /\ swept' = swept \cup {s}
      /\ pc' = [pc EXCEPT ![r] = "opened"] /\ UNCHANGED <<access, job, now>>
  BY DEF LoginRevoke
<1>3. /\ session' \in [Session -> Row \cup {NoRow}]
      /\ RowsKept
      /\ \A t \in Session : ~Exists(t) => session'[t] = NoRow
      /\ \A t \in Session :
           Exists(t) /\ session[t].user = u /\ t # s => session'[t].revoked
  BY <1>1, <1>2, RevokeOthersKeeps
<1>4. TypeOK'
  BY <1>1, <1>2, <1>3 DEF Inv, TypeOK, Stage
<1>5. JobOK(r)'
  <2>1. pc'[r] = "opened" /\ job'[r] = job[r]
    BY <1>2 DEF Inv, TypeOK
  <2> QED BY <1>1, <2>1 DEF JobOK
<1>6. \A q \in Request : q # r => JobOK(q)'
  <2> SUFFICES ASSUME NEW q \in Request, q # r
               PROVE  JobOK(q)'
    OBVIOUS
  <2>1. pc'[q] = pc[q] /\ job'[q] = job[q]
    BY <1>2 DEF Inv, TypeOK
  <2> QED BY <1>3, <2>1, JobStays DEF Inv, JobInv
<1>7. \A t \in Session : Exists(t)' <=> Exists(t)
  BY <1>3, SessionsAssumption DEF RowsKept, Kept, Exists
<1>8. TokenInv'
  BY <1>3, <1>7 DEF Inv, TokenInv, RowsKept, Kept
<1>9. \A t \in swept' : t \in Session /\ Exists(t) /\ (t \in swept \/ t = s)
  BY <1>1, <1>2 DEF Inv, SweptInv, TypeOK
<1>10. SweptInv'
  BY <1>7, <1>9 DEF SweptInv
<1>11. OneSessionPerUser'
  <2> SUFFICES ASSUME NEW a \in swept', NEW b \in swept',
                      Active(a)', Active(b)', session'[a].user = session'[b].user
               PROVE  a = b
    BY DEF OneSessionPerUser
  <2>1. /\ Active(a) /\ Active(b) /\ session[a].user = session[b].user
        /\ session'[a].user = session[a].user
    BY <1>3, <1>9 DEF Active, RowsKept, Kept, Exists
  <2>2. CASE session[a].user = u
    <3>1. a = s
      BY <1>3, <1>9, <2>1, <2>2 DEF Active
    <3>2. b = s
      BY <1>3, <1>9, <2>1, <2>2 DEF Active
    <3> QED BY <3>1, <3>2
  <2>3. CASE session[a].user # u
    <3>1. a \in swept /\ b \in swept
      BY <1>1, <1>9, <2>1, <2>3
    <3> QED BY <2>1, <3>1 DEF Inv, OneSessionPerUser
  <2> QED BY <2>2, <2>3
<1> QED BY <1>4, <1>5, <1>6, <1>8, <1>10, <1>11 DEF Inv, JobInv

\* A token found revoked stays found so: the call that brought it is refused.
LEMMA AccessReadStep ==
  ASSUME Inv, NEW r \in Request, NEW s \in Session, AccessRead(r, s)
  PROVE  Inv'
<1>1. /\ pc[r] = "opened" /\ Exists(s) /\ ~session[s].revoked
      /\ session[s].user = job[r].user /\ session[s].token = job[r].token
  BY DEF AccessRead, Selected
<1>2. ~job[r].late
  BY <1>1 DEF Inv, JobInv, JobOK, TokenInv
<1>3. UNCHANGED <<session, access, swept, now>>
  BY DEF AccessRead
<1>4. CASE session[s].expired
  <2>1. GoOn(r, "expired", s)
    BY <1>4 DEF AccessRead
  <2> QED BY <1>1, <1>3, <1>4, <2>1, GoOnStep DEF Stage
<1>5. CASE ~session[s].expired
  <2>1. GoOn(r, "granted", s)
    BY <1>5 DEF AccessRead
  <2> QED BY <1>1, <1>2, <1>3, <2>1, GoOnStep DEF Stage
<1> QED BY <1>4, <1>5

LEMMA ProceedStep ==
  ASSUME Inv, NEW r \in Request, Proceed(r)
  PROVE  Inv'
<1>1. CASE LoginDuplicate(r) \/ AccessRefuse(r) \/ LogoutNothing(r)
  <2>1. Finish(r) /\ UNCHANGED <<session, access, swept, now>>
    BY <1>1 DEF LoginDuplicate, AccessRefuse, LogoutNothing
  <2> QED BY <2>1, SameRows, FinishStep DEF Inv, TypeOK
<1>2. CASE AccessExpire(r) \/ LogoutRevoke(r)
  <2>1. job[r].session \in Session /\ Exists(job[r].session)
    BY <1>2 DEF AccessExpire, LogoutRevoke, Inv, JobInv, JobOK
  <2>2. /\ Revoke(job[r].session) /\ Finish(r)
        /\ UNCHANGED <<access, swept, now>>
    BY <1>2 DEF AccessExpire, LogoutRevoke
  <2> QED BY <2>1, <2>2, RevokeKeeps, FinishStep DEF Inv, TypeOK
<1>3. CASE AccessIssue(r)
  <2>1. job[r].session \in Session
    BY <1>3 DEF AccessIssue, Inv, JobInv, JobOK
  <2>2. /\ access' = access \cup {job[r].session} /\ Finish(r)
        /\ UNCHANGED <<session, swept, now>>
    BY <1>3 DEF AccessIssue
  <2> QED BY <2>1, <2>2, SameRows, FinishStep DEF Inv, TypeOK
<1>4. ASSUME NEW s \in Session, LogoutPick(r, s)
      PROVE  Inv'
  <2>1. /\ Exists(s) /\ session[s].user = job[r].user
        /\ session[s].device = job[r].device
        /\ pc[r] = "asked" /\ job[r].op = "logout"
    BY <1>4 DEF LogoutPick, OnDevice, Inv, JobInv, JobOK
  <2> QED BY <1>4, <2>1, GoOnStep DEF LogoutPick, Stage
<1> QED
  BY <1>1, <1>2, <1>3, <1>4, LoginCreateStep, LoginRevokeStep, AccessReadStep
     DEF Proceed

LEMMA ExpireStep ==
  ASSUME Inv, NEW s \in Session, Expire(s)
  PROVE  Inv'
<1>1. session[s] \in Row
  BY DEF Expire, Inv, TypeOK, Exists
<1>2. [session[s] EXCEPT !.expired = TRUE] \in Row
  BY <1>1 DEF Row
<1>3. session' = [session EXCEPT ![s] = [session[s] EXCEPT !.expired = TRUE]]
  BY DEF Expire
<1>4. Kept(s)
  BY <1>1, <1>2, <1>3 DEF Kept, Inv, TypeOK, Row
<1>5. RowsKept
  <2>1. \A t \in Session : t # s /\ Exists(t) => Kept(t)
    BY <1>3 DEF Kept, Inv, TypeOK, Exists
  <2> QED BY <1>4, <2>1 DEF RowsKept
<1>6. \A t \in Session : ~Exists(t) => session'[t] = NoRow
  BY <1>1, <1>3, RowExists DEF Inv, TypeOK, Exists
<1>7. TypeOK'
  BY <1>2, <1>3 DEF Expire, Inv, TypeOK
<1>8. JobInv'
  BY <1>5, JobStays DEF Expire, Inv, JobInv
<1>9. TokenInv' /\ SweptInv' /\ OneSessionPerUser'
  BY <1>5, <1>6, TableStays DEF Expire
<1> QED BY <1>7, <1>8, <1>9 DEF Inv

LEMMA InvStep == Inv /\ [Next]_vars => Inv'
<1> SUFFICES ASSUME Inv, [Next]_vars
             PROVE  Inv'
  OBVIOUS
<1>1. ASSUME NEW r \in Request, Fail(r)
      PROVE  Inv'
  BY <1>1, SameRows, FinishStep DEF Fail, Inv, TypeOK
<1>2. ASSUME UNCHANGED <<session, access, swept, pc, job>>, now' \in Second
      PROVE  Inv'
  BY <1>2, SameRows, JobStays, TableStays DEF Inv, TypeOK, JobInv
<1>3. CASE Tick
  BY <1>2, <1>3, SessionsAssumption DEF Tick, Inv, TypeOK, Second
<1>4. CASE UNCHANGED vars
  BY <1>2, <1>4 DEF vars, Inv, TypeOK
<1> QED BY <1>1, <1>3, <1>4, CallStep, ProceedStep, ExpireStep DEF Next

LEMMA InvInit == Init => Inv
BY SessionsAssumption
   DEF Init, Inv, TypeOK, JobInv, JobOK, TokenInv, SweptInv, OneSessionPerUser,
       Exists, Active, Second, Stage

LEMMA InvAlways == Spec => []Inv
BY InvInit, InvStep, PTL DEF Spec

----------------------------------------------------------------------------
\* The results

\* Every variable always has its type.
THEOREM SessionsTyped == Spec => []TypeOK
<1>1. Inv => TypeOK
  BY DEF Inv
<1> QED BY <1>1, InvAlways, PTL

\* Of a user's completed logins at most one session is active.
THEOREM SingleSession == Spec => []OneSessionPerUser
<1>1. Inv => OneSessionPerUser
  BY DEF Inv
<1> QED BY <1>1, InvAlways, PTL

\* No call that began after the revocation of its session is granted access.
THEOREM NoLateRefresh == Spec => []RevokedNotRefreshed
<1>1. Inv => RevokedNotRefreshed
  BY DEF Inv, JobInv, JobOK, RevokedNotRefreshed
<1> QED BY <1>1, InvAlways, PTL

\* The step that revokes a session is one of a call with a reason to.
LEMMA ReasonStep ==
  ASSUME Inv, [Next]_vars, NEW s \in Session, Active(s), session'[s].revoked
  PROVE  \E r \in Request :
           /\ Mine(r, s)
           /\ \/ job[r].op = "login" /\ job[r].session # s
              \/ job[r].op = "logout" /\ job[r].device = session[s].device
              \/ session[s].expired
<1>1. /\ session[s] \in Row /\ ~session[s].revoked /\ session'[s] # session[s]
  BY DEF Active, Exists, Inv, TypeOK
<1>2. \A r \in Request : job[r] \in Job => job[r] # NoJob
  BY SessionsAssumption
<1>3. ASSUME NEW r \in Request, LoginRevoke(r)
      PROVE  Mine(r, s) /\ job[r].op = "login" /\ job[r].session # s
  <2>1. job[r] \in Job /\ job[r].op = "login"
    BY <1>3 DEF LoginRevoke, Inv, JobInv, JobOK
  <2>2. session[s].user = job[r].user /\ s # job[r].session
    BY <1>1, <1>3 DEF LoginRevoke, RevokeOthers
  <2> QED BY <1>2, <2>1, <2>2 DEF Mine
<1>4. ASSUME NEW r \in Request, AccessExpire(r) \/ LogoutRevoke(r)
      PROVE  /\ Mine(r, s)
             /\ \/ session[s].expired
                \/ job[r].op = "logout" /\ job[r].device = session[s].device
  <2>1. job[r].session = s
    BY <1>1, <1>4 DEF AccessExpire, LogoutRevoke, Revoke, Inv, TypeOK
  <2>2. job[r] \in Job
    BY <1>4 DEF AccessExpire, LogoutRevoke, Inv, JobInv, JobOK
  <2> QED
    BY <1>2, <1>4, <2>1, <2>2 DEF AccessExpire, LogoutRevoke, Inv, JobInv, JobOK, Mine
<1>5. ASSUME NEW r \in Request, NEW t \in Session, LoginCreate(r, t)
      PROVE  FALSE
  BY <1>1, <1>5 DEF LoginCreate, Active, Inv, TypeOK
<1>6. ASSUME NEW t \in Session, Expire(t)
      PROVE  FALSE
  <2>1. t = s
    BY <1>1, <1>6 DEF Expire, Inv, TypeOK
  <2>2. session'[s] = [session[s] EXCEPT !.expired = TRUE]
    BY <1>6, <2>1 DEF Expire, Inv, TypeOK
  <2> QED BY <1>1, <2>2 DEF Row
<1>7. ASSUME session' = session
      PROVE  FALSE
  BY <1>1, <1>7
<1> QED
  BY <1>3, <1>4, <1>5, <1>6, <1>7
     DEF Next, Call, Proceed, LoginAsk, RefreshAsk, LogoutAsk, Accept,
         LoginDuplicate, AccessRefuse, AccessRead, AccessIssue, LogoutPick,
         LogoutNothing, Fail, Tick, vars

\* No session is revoked without a reason.
THEOREM RevokedWithReason == Spec => RevokedForAReason
<1>1. Inv /\ [Next]_vars =>
        [\A s \in Session :
           Active(s) /\ session'[s].revoked =>
             \E r \in Request :
               /\ Mine(r, s)
               /\ \/ job[r].op = "login" /\ job[r].session # s
                  \/ job[r].op = "logout" /\ job[r].device = session[s].device
                  \/ session[s].expired]_vars
  BY ReasonStep
<1> QED BY <1>1, InvAlways, PTL DEF Spec, RevokedForAReason
=============================================================================
