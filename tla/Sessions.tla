------------------------------ MODULE Sessions ------------------------------
(***************************************************************************)
(* Login, refresh and logout of services/AuthService.ts over the table     *)
(* sessions.                                                               *)
(*                                                                         *)
(* A call is a process of Request; each of its database statements is a    *)
(* step of its own, since AuthService.login wraps nothing in a transaction *)
(* and every await lets other calls in.  login inserts the new session and *)
(* then revokes the user's others; the controllers go on, in the same      *)
(* call, to exchange the new refresh token for an access token, which is   *)
(* also what GET /auth/access does for a token a client kept.              *)
(*                                                                         *)
(* A refresh token is a JWT over the user and the second it was signed in, *)
(* so two logins of a user in one second produce the same token.           *)
(***************************************************************************)
EXTENDS Naturals

CONSTANTS
  User,       \* ids of users
  Device,     \* values of header x-device-fingerprint
  Session,    \* ids of session rows
  Request,    \* concurrent calls
  MaxSecond,  \* bound on the seconds that pass
  NoRow,      \* "the table has no such session"
  NoToken,    \* "the call was not given a refresh token"
  NoSession,  \* "the call has found or created no session yet"
  NoJob       \* "the call has not been made"

VARIABLES
  session,  \* session[s]: the row of table sessions
  access,   \* the sessions access tokens were issued from
  swept,    \* the sessions whose login has revoked the others (history)
  pc,       \* pc[r]: how far call r got
  job,      \* job[r]: what call r was asked to do
  now       \* the current second

vars == <<session, access, swept, pc, job, now>>

----------------------------------------------------------------------------
\* State

Second == 0..MaxSecond

\* generateToken of a refresh payload, signed with its iat.
Token == [user : User, second : Second]

Row == [user : User, device : Device, token : Token,
        revoked : BOOLEAN, expired : BOOLEAN]

Job == [op : {"login", "refresh", "logout"}, user : User, device : Device,
        token : Token \cup {NoToken}, session : Session \cup {NoSession},
        late : BOOLEAN]  \* history: its session was revoked before the call

Stage == {"idle", "found", "created", "opened", "expired", "granted",
          "asked", "picked"}

ASSUME SessionsAssumption ==
  /\ MaxSecond \in Nat
  /\ NoRow \notin Row
  /\ NoToken \notin Token
  /\ NoSession \notin Session
  /\ NoJob \notin Job

TypeOK ==
  /\ session \in [Session -> Row \cup {NoRow}]
  /\ access \subseteq Session
  /\ swept \subseteq Session
  /\ pc \in [Request -> Stage]
  /\ job \in [Request -> Job \cup {NoJob}]
  /\ now \in Second

Exists(s) == session[s] # NoRow
Active(s) == Exists(s) /\ ~session[s].revoked

Init ==
  /\ session = [s \in Session |-> NoRow]
  /\ access = {}
  /\ swept = {}
  /\ pc = [r \in Request |-> "idle"]
  /\ job = [r \in Request |-> NoJob]
  /\ now = 0

----------------------------------------------------------------------------
\* SessionRepository

\* find: the rows a refresh token selects.
Selected(j) ==
  {s \in Session : /\ Exists(s)
                   /\ session[s].user = j.user
                   /\ session[s].device = j.device
                   /\ session[s].token = j.token}

\* revoke, after its findFirst: marks the one row it found.
Revoke(s) == session' = [session EXCEPT ![s].revoked = TRUE]

\* revokeMany with excludeId: marks every other row of the user.
RevokeOthers_AnyUser(u, kept) ==
  session' = [s \in Session |->
    IF Exists(s) /\ s # kept THEN [session[s] EXCEPT !.revoked = TRUE]
                             ELSE session[s]]
RevokeOthers_SameDevice(u, kept) ==
  session' = [s \in Session |->
    IF /\ Exists(s) /\ session[s].user = u /\ s # kept
       /\ session[s].device = session[kept].device
    THEN [session[s] EXCEPT !.revoked = TRUE] ELSE session[s]]
RevokeOthers(u, kept) ==
  session' = [s \in Session |->
    IF Exists(s) /\ session[s].user = u /\ s # kept
    THEN [session[s] EXCEPT !.revoked = TRUE] ELSE session[s]]

----------------------------------------------------------------------------
\* How a call starts, moves and ends

Accept(r, stage, op, u, d, token, late) ==
  /\ pc[r] = "idle"
  /\ pc' = [pc EXCEPT ![r] = stage]
  /\ job' = [job EXCEPT ![r] = [op |-> op, user |-> u, device |-> d,
       token |-> token, session |-> NoSession, late |-> late]]
  /\ UNCHANGED <<session, access, swept, now>>

\* Call r goes on with session s in hand.
GoOn(r, stage, s) ==
  /\ pc' = [pc EXCEPT ![r] = stage]
  /\ job' = [job EXCEPT ![r].session = s]

Finish(r) ==
  /\ pc' = [pc EXCEPT ![r] = "idle"]
  /\ job' = [job EXCEPT ![r] = NoJob]

----------------------------------------------------------------------------
\* login

LoginAsk(r, u, d) ==
  Accept(r, "found", "login", u, d, [user |-> u, second |-> now], FALSE)

TokenTaken(token) == \E s \in Session : Exists(s) /\ session[s].token = token

\* Session.token is unique: the insert fails and the call answers with 409.
LoginDuplicate(r) ==
  /\ pc[r] = "found"
  /\ TokenTaken(job[r].token)
  /\ Finish(r)
  /\ UNCHANGED <<session, access, swept, now>>

LoginCreate_Unsigned(r, s) ==
  /\ pc[r] = "found"
  /\ ~TokenTaken(job[r].token)
  /\ ~Exists(s)
  /\ session' = [session EXCEPT ![s] =
       [user |-> job[r].user, device |-> job[r].device, token |-> NoToken,
        revoked |-> FALSE, expired |-> FALSE]]
  /\ GoOn(r, "created", s)
  /\ UNCHANGED <<access, swept, now>>
LoginCreate(r, s) ==
  LET j == job[r] IN
  /\ pc[r] = "found"
  /\ ~TokenTaken(j.token)
  /\ ~Exists(s)
  /\ session' = [session EXCEPT ![s] =
       [user |-> j.user, device |-> j.device, token |-> j.token,
        revoked |-> FALSE, expired |-> FALSE]]
  /\ GoOn(r, "created", s)
  /\ UNCHANGED <<access, swept, now>>

LoginRevoke(r) ==
  /\ pc[r] = "created"
  /\ RevokeOthers(job[r].user, job[r].session)
  /\ swept' = swept \cup {job[r].session}
  /\ pc' = [pc EXCEPT ![r] = "opened"]
  /\ UNCHANGED <<access, job, now>>

----------------------------------------------------------------------------
\* generateAccessToken, by a login or for a refresh token a client kept.
\* userId comes from the token, the device from a header.

RefreshAsk(r, s, d) ==
  /\ Exists(s)
  /\ Accept(r, "opened", "refresh", session[s].user, d, session[s].token,
            session[s].revoked)

AccessRefuse(r) ==
  /\ pc[r] = "opened"
  /\ \A s \in Selected(job[r]) : session[s].revoked
  /\ Finish(r)
  /\ UNCHANGED <<session, access, swept, now>>

AccessRead_Revoked(r, s) ==
  /\ pc[r] = "opened"
  /\ s \in Selected(job[r])
  /\ GoOn(r, IF session[s].expired THEN "expired" ELSE "granted", s)
  /\ UNCHANGED <<session, access, swept, now>>
AccessRead(r, s) ==
  /\ pc[r] = "opened"
  /\ s \in Selected(job[r])
  /\ ~session[s].revoked
  /\ GoOn(r, IF session[s].expired THEN "expired" ELSE "granted", s)
  /\ UNCHANGED <<session, access, swept, now>>

AccessExpire(r) ==
  /\ pc[r] = "expired"
  /\ Revoke(job[r].session)
  /\ Finish(r)
  /\ UNCHANGED <<access, swept, now>>

AccessIssue(r) ==
  /\ pc[r] = "granted"
  /\ access' = access \cup {job[r].session}
  /\ Finish(r)
  /\ UNCHANGED <<session, swept, now>>

----------------------------------------------------------------------------
\* logout.  authenticateAccess asks for an access token of the user, whatever
\* became of its session since; the device is again the header's.

LogoutAsk(r, u, d) ==
  /\ \E s \in access : session[s].user = u
  /\ Accept(r, "asked", "logout", u, d, NoToken, FALSE)

OnDevice(j) ==
  {s \in Session :
     Exists(s) /\ session[s].user = j.user /\ session[s].device = j.device}

\* findFirst without an order: any one of the user's rows on the device,
\* revoked or not.
LogoutPick(r, s) ==
  /\ pc[r] = "asked"
  /\ s \in OnDevice(job[r])
  /\ GoOn(r, "picked", s)
  /\ UNCHANGED <<session, access, swept, now>>

LogoutNothing(r) ==
  /\ pc[r] = "asked"
  /\ OnDevice(job[r]) = {}
  /\ Finish(r)
  /\ UNCHANGED <<session, access, swept, now>>

LogoutRevoke(r) ==
  /\ pc[r] = "picked"
  /\ Revoke(job[r].session)
  /\ Finish(r)
  /\ UNCHANGED <<access, swept, now>>

----------------------------------------------------------------------------
\* The environment

\* The server or its connection dies under a call: nothing is undone.
Fail(r) ==
  /\ pc[r] # "idle"
  /\ Finish(r)
  /\ UNCHANGED <<session, access, swept, now>>

\* Seven days after the login.
Expire(s) ==
  /\ Exists(s)
  /\ session' = [session EXCEPT ![s].expired = TRUE]
  /\ UNCHANGED <<access, swept, pc, job, now>>

Tick ==
  /\ now < MaxSecond
  /\ now' = now + 1
  /\ UNCHANGED <<session, access, swept, pc, job>>

----------------------------------------------------------------------------
\* The specification

Call(r) ==
  \/ \E u \in User, d \in Device : LoginAsk(r, u, d)
  \/ \E s \in Session, d \in Device : RefreshAsk(r, s, d)
  \/ \E u \in User, d \in Device : LogoutAsk(r, u, d)

Proceed(r) ==
  \/ LoginDuplicate(r)
  \/ \E s \in Session : LoginCreate(r, s)
  \/ LoginRevoke(r)
  \/ AccessRefuse(r)
  \/ \E s \in Session : AccessRead(r, s)
  \/ AccessExpire(r)
  \/ AccessIssue(r)
  \/ \E s \in Session : LogoutPick(r, s)
  \/ LogoutNothing(r)
  \/ LogoutRevoke(r)

Next ==
  \/ \E r \in Request : Call(r)
  \/ \E r \in Request : Proceed(r)
  \/ \E r \in Request : Fail(r)
  \/ \E s \in Session : Expire(s)
  \/ Tick

Spec == Init /\ [][Next]_vars

----------------------------------------------------------------------------
\* Properties

\* Single session per user (AuthService.ts:546): of the sessions of a user
\* whose login got through its revocation at most one is active, however the
\* logins overlap and wherever calls die.
OneSessionPerUser ==
  \A s, t \in swept :
    Active(s) /\ Active(t) /\ session[s].user = session[t].user => s = t

\* A session is revoked only for a reason: another login of its user, a
\* logout of its user on its device, or a refresh after it expired.  No call
\* revokes the session it has just opened, or one of another user.
Mine(r, s) == job[r] # NoJob /\ job[r].user = session[s].user
RevokedForAReason ==
  [][\A s \in Session :
       Active(s) /\ session'[s].revoked =>
         \E r \in Request :
           /\ Mine(r, s)
           /\ \/ job[r].op = "login" /\ job[r].session # s
              \/ job[r].op = "logout" /\ job[r].device = session[s].device
              \/ session[s].expired]_vars

\* A refresh that began after its session was revoked gets no access token,
\* however it interleaves with logins, logouts and the expiry of sessions: a
\* revocation is never undone, and the check comes after the call's start.
RevokedNotRefreshed == \A r \in Request : pc[r] = "granted" => ~job[r].late
=============================================================================
