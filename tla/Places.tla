------------------------------- MODULE Places -------------------------------
(***************************************************************************)
(* The locations of users, and which one of them is the main one.          *)
(*                                                                         *)
(* Making a location the main one clears the flag of all the user's rows   *)
(* and sets it on one, in a transaction at READ COMMITTED under an         *)
(* advisory lock of the user.  The clearing is one UPDATE: it changes the  *)
(* rows it finds committed when it starts, and waits for those another     *)
(* transaction has changed.  An update waits for the advisory lock; a      *)
(* creation tries to take it and goes on either way.                       *)
(*                                                                         *)
(* LocationRepository.find selects from the table without a condition: it  *)
(* returns some row of some user, and that is the row whose owner an       *)
(* update checks.                                                          *)
(***************************************************************************)
EXTENDS FiniteSets

CONSTANTS
  User,      \* ids of users
  Location,  \* ids of location rows
  Request,   \* concurrent calls
  NoRow,     \* "the table has no such row"
  NoTarget,  \* "the call has no row in hand"
  NoOne,     \* "nobody holds the lock"
  NoJob      \* "the call has not been made"

VARIABLES
  location,   \* location[l]: the committed row of table locations
  users,      \* the users whose registration committed
  lock,       \* lock[u]: the holder of the advisory lock of hashtext(u)
  held,       \* held[r]: the rows the transaction of call r has changed
  disturbed,  \* users whose main location a call without the lock, or a call
              \* of another user, has touched (history)
  pc,         \* pc[r]: how far call r got
  job         \* job[r]: what call r was asked to do

vars == <<location, users, lock, held, disturbed, pc, job>>

----------------------------------------------------------------------------
\* State

Row == [user : User, main : BOOLEAN]

\* What the body says of isMain: true, false, or nothing.
Wish == {"main", "plain", "same"}

Job == [op : {"create", "update"}, user : User, wish : Wish,
        target : Location \cup {NoTarget}, rows : SUBSET Location]

Stage == {"idle", "insert", "find", "findMain", "write", "begin", "locked",
          "sweeping", "swept"}

ASSUME PlacesAssumption ==
  /\ NoRow \notin Row
  /\ NoTarget \notin Location
  /\ NoOne \notin Request
  /\ NoJob \notin Job

TypeOK ==
  /\ location \in [Location -> Row \cup {NoRow}]
  /\ users \subseteq User
  /\ lock \in [User -> Request \cup {NoOne}]
  /\ held \in [Request -> SUBSET Location]
  /\ disturbed \subseteq User
  /\ pc \in [Request -> Stage]
  /\ job \in [Request -> Job \cup {NoJob}]

Init ==
  /\ location = [l \in Location |-> NoRow]
  /\ users = {}
  /\ lock = [u \in User |-> NoOne]
  /\ held = [r \in Request |-> {}]
  /\ disturbed = {}
  /\ pc = [r \in Request |-> "idle"]
  /\ job = [r \in Request |-> NoJob]

Exists(l) == location[l] # NoRow
Of(u) == {l \in Location : Exists(l) /\ location[l].user = u}
Mains(u) == {l \in Of(u) : location[l].main}

----------------------------------------------------------------------------
\* How a call starts, moves and ends

Accept(r, stage, op, u, wish, target) ==
  /\ pc[r] = "idle"
  /\ u \in users
  /\ pc' = [pc EXCEPT ![r] = stage]
  /\ job' = [job EXCEPT ![r] =
       [op |-> op, user |-> u, wish |-> wish, target |-> target, rows |-> {}]]
  /\ UNCHANGED <<location, users, lock, held, disturbed>>

Move(r, stage) == pc' = [pc EXCEPT ![r] = stage]

\* The end of a call, and of its transaction, frees every lock.
Finish(r) ==
  /\ pc' = [pc EXCEPT ![r] = "idle"]
  /\ job' = [job EXCEPT ![r] = NoJob]
  /\ lock' = [u \in User |-> IF lock[u] = r THEN NoOne ELSE lock[u]]
  /\ held' = [held EXCEPT ![r] = {}]

\* No other transaction has changed row l.
Unlocked(r, l) == \A q \in Request \ {r} : l \notin held[q]

----------------------------------------------------------------------------
\* addLocation within the transaction that registers user u: nobody else
\* knows the user yet.

Register(u, l) ==
  /\ u \notin users
  /\ ~Exists(l)
  /\ users' = users \cup {u}
  /\ location' = [location EXCEPT ![l] = [user |-> u, main |-> TRUE]]
  /\ UNCHANGED <<lock, held, disturbed, pc, job>>

----------------------------------------------------------------------------
\* createLocation.  A government or a city that does not exist, or not in
\* this government, ends the call before it begins.

CreateAsk(r, u, wish) ==
  /\ wish # "same"
  /\ Accept(r, IF wish = "main" THEN "begin" ELSE "insert", "create", u, wish,
            NoTarget)

\* The data of the body inserted without the caller's id.
CreatePlain_NoOwner(r, l) ==
  /\ pc[r] = "insert"
  /\ ~Exists(l)
  /\ location' = [location EXCEPT ![l] = [user |-> NoOne, main |-> FALSE]]
  /\ Finish(r)
  /\ UNCHANGED <<users, disturbed>>

CreatePlain(r, l) ==
  /\ pc[r] = "insert"
  /\ ~Exists(l)
  /\ location' = [location EXCEPT ![l] = [user |-> job[r].user, main |-> FALSE]]
  /\ Finish(r)
  /\ UNCHANGED <<users, disturbed>>

\* pg_try_advisory_xact_lock, whose answer nobody reads.
CreateLock(r) ==
  LET u == job[r].user IN
  /\ pc[r] = "begin"
  /\ job[r].op = "create"
  /\ IF lock[u] = NoOne
     THEN lock' = [lock EXCEPT ![u] = r] /\ UNCHANGED disturbed
     ELSE disturbed' = disturbed \cup {u} /\ UNCHANGED lock
  /\ Move(r, "locked")
  /\ UNCHANGED <<location, users, held, job>>

CreateCommit(r, l) ==
  LET u == job[r].user IN
  /\ pc[r] = "swept"
  /\ job[r].op = "create"
  /\ ~Exists(l)
  /\ location' = [k \in Location |->
       IF k = l THEN [user |-> u, main |-> TRUE]
       ELSE IF k \in held[r] THEN [location[k] EXCEPT !.main = FALSE]
       ELSE location[k]]
  /\ Finish(r)
  /\ UNCHANGED <<users, disturbed>>

----------------------------------------------------------------------------
\* setAllNonMain, the same for both: the UPDATE sees the rows committed when it
\* starts, and changes them once no other transaction has them.

SweepStart(r) ==
  /\ pc[r] = "locked"
  /\ job' = [job EXCEPT ![r].rows = Of(job[r].user)]
  /\ Move(r, "sweeping")
  /\ UNCHANGED <<location, users, lock, held, disturbed>>

\* The flags cleared outside the transaction.
SweepEnd_Committed(r) ==
  /\ pc[r] = "sweeping"
  /\ \A l \in job[r].rows : Unlocked(r, l)
  /\ location' = [l \in Location |-> IF l \in job[r].rows
       THEN [location[l] EXCEPT !.main = FALSE] ELSE location[l]]
  /\ Move(r, "swept")
  /\ UNCHANGED <<users, lock, held, disturbed, job>>

SweepEnd(r) ==
  /\ pc[r] = "sweeping"
  /\ \A l \in job[r].rows : Unlocked(r, l)
  /\ held' = [held EXCEPT ![r] = job[r].rows]
  /\ Move(r, "swept")
  /\ UNCHANGED <<location, users, lock, disturbed, job>>

----------------------------------------------------------------------------
\* updateLocation, and updateMainLocation, which finds its row first

UpdateAsk(r, u, wish, l) == Accept(r, "find", "update", u, wish, l)

UpdateMainAsk(r, u, wish) == Accept(r, "findMain", "update", u, wish, NoTarget)

\* LocationRepository.find: any row of the table.
FindMain(r, l) ==
  /\ pc[r] = "findMain"
  /\ Exists(l)
  /\ job' = [job EXCEPT ![r].target = l]
  /\ Move(r, "find")
  /\ UNCHANGED <<location, users, lock, held, disturbed>>

\* The check of the owner looks at the row found, whichever it is.
FindOwn(r, l) ==
  /\ pc[r] = "find"
  /\ l \in Of(job[r].user)
  /\ Move(r, IF job[r].wish = "main" THEN "begin" ELSE "write")
  /\ UNCHANGED <<location, users, lock, held, disturbed, job>>

\* LocationRepository.update, which waits for a transaction that has the row.
Write(r, swept, wish) ==
  LET l == job[r].target IN
  /\ Exists(l)
  /\ Unlocked(r, l)
  /\ location' = [k \in Location |->
       IF k = l /\ wish # "same" THEN [location[k] EXCEPT !.main = (wish = "main")]
       ELSE IF k \in swept THEN [location[k] EXCEPT !.main = FALSE]
       ELSE location[k]]

UpdatePlain(r) ==
  /\ pc[r] = "write"
  /\ Write(r, {}, job[r].wish)
  /\ Finish(r)
  /\ UNCHANGED <<users, disturbed>>

\* The lock of a creation, which does not wait, taken for an update's.
UpdateLock_Try(r) ==
  LET u == job[r].user IN
  /\ pc[r] = "begin"
  /\ job[r].op = "update"
  /\ lock' = [lock EXCEPT ![u] = IF @ = NoOne THEN r ELSE @]
  /\ Move(r, "locked")
  /\ UNCHANGED <<location, users, held, disturbed, job>>

\* pg_advisory_xact_lock waits.
UpdateLock(r) ==
  LET u == job[r].user IN
  /\ pc[r] = "begin"
  /\ job[r].op = "update"
  /\ lock[u] = NoOne
  /\ lock' = [lock EXCEPT ![u] = r]
  /\ Move(r, "locked")
  /\ UNCHANGED <<location, users, held, disturbed, job>>

UpdateCommit(r) ==
  LET u == job[r].user
      l == job[r].target IN
  /\ pc[r] = "swept"
  /\ job[r].op = "update"
  /\ Write(r, held[r], "main")
  /\ disturbed' = IF l \in Of(u) THEN disturbed
                  ELSE disturbed \cup {u, location[l].user}
  /\ Finish(r)
  /\ UNCHANGED users

----------------------------------------------------------------------------
\* A call that ends with an error changes nothing: a row or a lookup that is
\* not there, another user's row found, a lost connection, a deadlock broken.

Fail(r) ==
  /\ pc[r] # "idle"
  /\ Finish(r)
  /\ UNCHANGED <<location, users, disturbed>>

Next ==
  \/ \E u \in User, l \in Location : Register(u, l)
  \/ \E r \in Request, u \in User, wish \in Wish :
       \/ CreateAsk(r, u, wish)
       \/ UpdateMainAsk(r, u, wish)
       \/ \E l \in Location : UpdateAsk(r, u, wish, l)
  \/ \E r \in Request, l \in Location :
       CreatePlain(r, l) \/ CreateCommit(r, l) \/ FindMain(r, l) \/ FindOwn(r, l)
  \/ \E r \in Request :
       \/ CreateLock(r) \/ UpdateLock(r) \/ SweepStart(r) \/ SweepEnd(r)
       \/ UpdatePlain(r) \/ UpdateCommit(r) \/ Fail(r)

Spec == Init /\ [][Next]_vars

----------------------------------------------------------------------------
\* Properties

\* A user has at most one main location, as long as no creation of his went
\* on without the lock and no update of a row of another user touched him:
\* every other interleaving of registrations, creations and updates keeps it.
OneMain ==
  \A u \in User \ disturbed : \A k, l \in Mains(u) : k = l

\* Making another location the main one never leaves the user without: only
\* an update that says isMain false takes his main location away.
SwitchKeepsMain ==
  [][\A u \in User :
       Mains(u) # {} /\ Mains(u)' = {} /\ u \notin disturbed' =>
         \E r \in Request : pc[r] = "write" /\ job[r].wish = "plain"
                            /\ pc'[r] = "idle"]_vars
=============================================================================
