---------------------------- MODULE Places_proofs ----------------------------
(***************************************************************************)
(* Theorems about Places, for any number of users, rows and calls.         *)
(***************************************************************************)
EXTENDS Places, TLAPS

Sweeping(r) == pc[r] \in {"sweeping", "swept"}
InLock(r) == pc[r] = "locked" \/ Sweeping(r)

\* What is true of call r alone: it is on behalf of a registered user, has
\* the row it will update, and has changed the rows it found, all his.
CallInv(r) ==
  /\ pc[r] # "idle" => job[r] \in Job /\ job[r].user \in users
  /\ pc[r] \in {"find", "findMain", "write"} => job[r].op = "update"
  /\ pc[r] = "write" => job[r].wish # "main"
  /\ pc[r] \notin {"idle", "findMain"} /\ job[r].op = "update" =>
       job[r].target \in Location
  /\ Sweeping(r) => job[r].rows \subseteq Of(job[r].user)
  /\ held[r] # {} => pc[r] = "swept"
  /\ pc[r] = "swept" => held[r] = job[r].rows

\* Users have no location before they register.
StrangersHaveNone == \A l \in Location : Exists(l) => location[l].user \in users

\* Of a user who is not disturbed: one call at a time changes his main
\* location, and it has found all there was to clear.
UserInv(u) ==
  /\ \A k, l \in Mains(u) : k = l
  /\ \A r \in Request : InLock(r) /\ job[r].user = u => lock[u] = r
  /\ \A r \in Request :
       Sweeping(r) /\ job[r].user = u => Mains(u) \subseteq job[r].rows

Inv ==
  /\ TypeOK
  /\ StrangersHaveNone
  /\ \A r \in Request : CallInv(r)
  /\ \A u \in User \ disturbed : UserInv(u)

LEMMA InitInv == Init => Inv
<1> SUFFICES ASSUME Init PROVE Inv
  OBVIOUS
<1>1. TypeOK
  BY PlacesAssumption DEF Init, TypeOK, Stage
<1>2. \A l \in Location : ~Exists(l)
  BY DEF Init, Exists
<1>3. \A r \in Request : CallInv(r)
  BY DEF Init, CallInv, Sweeping
<1>4. \A u \in User : UserInv(u)
  BY <1>2 DEF Init, UserInv, Mains, Of, InLock, Sweeping
<1> QED BY <1>1, <1>2, <1>3, <1>4 DEF Inv, StrangersHaveNone

----------------------------------------------------------------------------
\* What a step of call r leaves alone

\* Rows are not deleted and do not change hands.
RowsStay ==
  \A l \in Location :
    Exists(l) => Exists(l)' /\ location'[l].user = location[l].user

OthersStay(r) ==
  \A q \in Request \ {r} :
    pc'[q] = pc[q] /\ job'[q] = job[q] /\ held'[q] = held[q]

\* The other calls do not notice.
LEMMA OtherCalls ==
  ASSUME Inv, NEW r \in Request, OthersStay(r), RowsStay, users \subseteq users',
         CallInv(r)'
  PROVE  \A q \in Request : CallInv(q)'
<1> SUFFICES ASSUME NEW q \in Request \ {r} PROVE CallInv(q)'
  OBVIOUS
<1>1. CallInv(q)
  BY DEF Inv
<1>2. pc'[q] = pc[q] /\ job'[q] = job[q] /\ held'[q] = held[q]
  BY DEF OthersStay
<1>3. \A u \in User : Of(u) \subseteq Of(u)'
  BY DEF RowsStay, Of
<1>4. Sweeping(q)' <=> Sweeping(q)
  BY <1>2 DEF Sweeping
<1>5. Sweeping(q) => job[q].user \in User
  BY <1>1 DEF CallInv, Sweeping, Job
<1> QED BY <1>1, <1>2, <1>3, <1>4, <1>5 DEF CallInv

LEMMA Finishing ==
  ASSUME TypeOK, NEW r \in Request, Finish(r)
  PROVE  /\ OthersStay(r)
         /\ CallInv(r)'
         /\ ~InLock(r)'
         /\ pc' \in [Request -> Stage]
         /\ job' \in [Request -> Job \cup {NoJob}]
         /\ lock' \in [User -> Request \cup {NoOne}]
         /\ held' \in [Request -> SUBSET Location]
         /\ \A u \in User : lock[u] # r => lock'[u] = lock[u]
BY DEF TypeOK, Finish, OthersStay, CallInv, InLock, Sweeping, Stage

\* A user whose main locations only grow fewer, by a call that ends.
LEMMA FewerMains ==
  ASSUME TypeOK, NEW r \in Request, Finish(r), NEW u \in User, UserInv(u),
         Mains(u)' \subseteq Mains(u)
  PROVE  UserInv(u)'
<1>1. OthersStay(r) /\ ~InLock(r)' /\ (lock[u] # r => lock'[u] = lock[u])
  BY Finishing
<1>2. \A q \in Request : InLock(q)' =>
        q # r /\ InLock(q) /\ job'[q] = job[q] /\ (Sweeping(q)' => Sweeping(q))
  BY <1>1 DEF OthersStay, InLock, Sweeping
<1>3. \A q \in Request : Sweeping(q)' => InLock(q)'
  BY DEF InLock
<1> QED BY <1>1, <1>2, <1>3 DEF UserInv

----------------------------------------------------------------------------
\* One lemma for each kind of step

LEMMA RegisterStep ==
  ASSUME Inv, NEW u \in User, NEW l \in Location, Register(u, l)
  PROVE  Inv'
<1> USE DEF Register
<1>1. TypeOK'
  BY DEF Inv, TypeOK, Row
<1>2. /\ RowsStay
      /\ \A k \in Location \ {l} : location'[k] = location[k]
      /\ location'[l] = [user |-> u, main |-> TRUE]
  BY DEF Inv, TypeOK, RowsStay, Exists
<1>3. StrangersHaveNone'
  BY <1>2 DEF Inv, StrangersHaveNone, Exists
<1>4. \A q \in Request : CallInv(q)'
  <2> SUFFICES ASSUME NEW q \in Request PROVE CallInv(q)'
    OBVIOUS
  <2>1. OthersStay(q) /\ users \subseteq users'
    BY DEF OthersStay
  <2>2. CallInv(q)
    BY DEF Inv
  <2>3. \A v \in User : Of(v) \subseteq Of(v)'
    BY <1>2 DEF RowsStay, Of
  <2>4. Sweeping(q) => job[q].user \in User
    BY <2>2 DEF CallInv, Sweeping, Job
  <2> QED BY <2>1, <2>2, <2>3, <2>4 DEF CallInv, Sweeping
<1>5. \A v \in User \ disturbed' : UserInv(v)'
  <2> SUFFICES ASSUME NEW v \in User \ disturbed PROVE UserInv(v)'
    OBVIOUS
  <2>1. UserInv(v)
    BY DEF Inv
  <2>2. CASE v = u
    <3>1. Mains(v)' \subseteq {l}
      BY <1>2, <2>2 DEF Inv, StrangersHaveNone, Mains, Of, Exists
    <3>2. \A q \in Request : InLock(q) => job[q].user # v
      BY <2>2 DEF Inv, CallInv, InLock, Sweeping
    <3> QED BY <3>1, <3>2 DEF UserInv, InLock, Sweeping
  <2>3. CASE v # u
    <3>1. Mains(v)' \subseteq Mains(v)
      BY <1>2, <2>3 DEF Mains, Of, Exists
    <3> QED BY <2>1, <3>1 DEF UserInv, InLock, Sweeping
  <2> QED BY <2>2, <2>3
<1> QED BY <1>1, <1>3, <1>4, <1>5 DEF Inv

\* Steps that change no row: requests, lookups and the clearing of flags that
\* no one sees yet.
QuietStep(r) ==
  /\ UNCHANGED <<location, users>>
  /\ OthersStay(r)

LEMMA Quiet ==
  ASSUME Inv, NEW r \in Request, QuietStep(r), TypeOK', CallInv(r)',
         \A u \in User \ disturbed' : UserInv(u)'
  PROVE  Inv'
<1>1. StrangersHaveNone'
  BY DEF Inv, QuietStep, StrangersHaveNone, Exists
<1>2. \A q \in Request : CallInv(q)'
  BY OtherCalls DEF QuietStep, RowsStay, Exists
<1> QED BY <1>1, <1>2 DEF Inv

\* A call outside the lock before and after.
LEMMA OutsideUsers ==
  ASSUME Inv, NEW r \in Request, QuietStep(r), UNCHANGED <<lock, disturbed>>,
         ~InLock(r)'
  PROVE  \A u \in User \ disturbed' : UserInv(u)'
<1> SUFFICES ASSUME NEW u \in User \ disturbed PROVE UserInv(u)'
  OBVIOUS
<1>1. UserInv(u)
  BY DEF Inv
<1>2. \A q \in Request : InLock(q)' =>
        InLock(q) /\ job'[q] = job[q] /\ (Sweeping(q)' => Sweeping(q))
  BY DEF QuietStep, OthersStay, InLock, Sweeping
<1>3. Mains(u)' = Mains(u) /\ \A q \in Request : Sweeping(q)' => InLock(q)'
  BY DEF QuietStep, Mains, Of, Exists, InLock
<1> QED BY <1>1, <1>2, <1>3 DEF UserInv

LEMMA AcceptStep ==
  ASSUME Inv, NEW r \in Request, NEW u \in User, NEW wish \in Wish,
         NEW stage, NEW op, NEW target, Accept(r, stage, op, u, wish, target),
         \/ stage \in {"insert", "begin"} /\ op = "create" /\ target = NoTarget
         \/ stage = "findMain" /\ op = "update" /\ target = NoTarget
         \/ stage = "find" /\ op = "update" /\ target \in Location
  PROVE  Inv'
<1> USE DEF Accept
<1>1. /\ job'[r] = [op |-> op, user |-> u, wish |-> wish, target |-> target,
                    rows |-> {}]
      /\ job'[r] \in Job /\ pc'[r] = stage
  BY DEF Inv, TypeOK, Job
<1>2. TypeOK'
  BY <1>1 DEF Inv, TypeOK, Stage
<1>3. QuietStep(r)
  BY DEF Inv, TypeOK, QuietStep, OthersStay
<1>4. held'[r] = {}
  BY DEF Inv, CallInv
<1>5. CallInv(r)' /\ ~InLock(r)'
  BY <1>1, <1>4 DEF CallInv, InLock, Sweeping
<1> QED BY <1>2, <1>3, <1>5, OutsideUsers, Quiet

LEMMA AskStep ==
  ASSUME Inv, NEW r \in Request, NEW u \in User, NEW wish \in Wish,
         \/ CreateAsk(r, u, wish)
         \/ UpdateMainAsk(r, u, wish)
         \/ \E l \in Location : UpdateAsk(r, u, wish, l)
  PROVE  Inv'
<1>1. CASE CreateAsk(r, u, wish)
  <2>1. CASE wish = "main"
    BY <1>1, <2>1, AcceptStep DEF CreateAsk
  <2>2. CASE wish # "main"
    BY <1>1, <2>2, AcceptStep DEF CreateAsk
  <2> QED BY <2>1, <2>2
<1>2. CASE UpdateMainAsk(r, u, wish)
  BY <1>2, AcceptStep DEF UpdateMainAsk
<1>3. CASE \E l \in Location : UpdateAsk(r, u, wish, l)
  BY <1>3, AcceptStep DEF UpdateAsk
<1> QED BY <1>1, <1>2, <1>3

LEMMA FindStep ==
  ASSUME Inv, NEW r \in Request, NEW l \in Location,
         FindMain(r, l) \/ FindOwn(r, l)
  PROVE  Inv'
<1>0. CallInv(r)
  BY DEF Inv
<1>1. CASE FindMain(r, l)
  <2> USE <1>1 DEF FindMain, Move
  <2>1. job'[r] = [job[r] EXCEPT !.target = l] /\ job'[r] \in Job
    BY <1>0 DEF Inv, TypeOK, CallInv, Job
  <2>2. TypeOK'
    BY <2>1 DEF Inv, TypeOK, Stage
  <2>3. QuietStep(r)
    BY DEF Inv, TypeOK, QuietStep, OthersStay
  <2>4. CallInv(r)' /\ ~InLock(r)'
    BY <1>0, <2>1 DEF Inv, TypeOK, CallInv, InLock, Sweeping, Job
  <2> QED BY <2>2, <2>3, <2>4, OutsideUsers, Quiet
<1>2. CASE FindOwn(r, l)
  <2> USE <1>2 DEF FindOwn, Move
  <2>1. TypeOK'
    BY DEF Inv, TypeOK, Stage
  <2>2. QuietStep(r)
    BY DEF Inv, TypeOK, QuietStep, OthersStay
  <2>3. CallInv(r)' /\ ~InLock(r)'
    BY <1>0 DEF Inv, TypeOK, CallInv, InLock, Sweeping
  <2> QED BY <2>1, <2>2, <2>3, OutsideUsers, Quiet
<1> QED BY <1>1, <1>2

\* Entering the lock: an update has it alone, and a creation that does not
\* have it disturbs the user.
LEMMA LockStep ==
  ASSUME Inv, NEW r \in Request, CreateLock(r) \/ UpdateLock(r)
  PROVE  Inv'
<1> DEFINE u == job[r].user
<1>0. CallInv(r) /\ pc[r] = "begin" /\ u \in User
  BY DEF Inv, CallInv, Job, CreateLock, UpdateLock
<1>1. /\ pc' = [pc EXCEPT ![r] = "locked"]
      /\ UNCHANGED <<location, users, held, job>>
      /\ \/ lock[u] = NoOne /\ lock' = [lock EXCEPT ![u] = r] /\ disturbed' = disturbed
         \/ disturbed' = disturbed \cup {u} /\ lock' = lock
  BY DEF CreateLock, UpdateLock, Move
<1>2. TypeOK'
  BY <1>0, <1>1 DEF Inv, TypeOK, Stage
<1>3. QuietStep(r)
  BY <1>1 DEF Inv, TypeOK, QuietStep, OthersStay
<1>4. CallInv(r)'
  BY <1>0, <1>1 DEF Inv, TypeOK, CallInv, Sweeping
<1>5. \A v \in User \ disturbed' : UserInv(v)'
  <2> SUFFICES ASSUME NEW v \in User \ disturbed' PROVE UserInv(v)'
    OBVIOUS
  <2>1. UserInv(v)
    BY <1>1 DEF Inv
  <2>2. Mains(v)' = Mains(v)
    BY <1>1 DEF Mains, Of, Exists
  <2>3. \A q \in Request :
          /\ InLock(q)' => InLock(q) \/ q = r
          /\ Sweeping(q)' => Sweeping(q)
    BY <1>1 DEF Inv, TypeOK, InLock, Sweeping
  <2>4. \A q \in Request : InLock(q)' /\ job'[q].user = v => lock'[v] = q
    <3> SUFFICES ASSUME NEW q \in Request, InLock(q)', job'[q].user = v
                 PROVE  lock'[v] = q
      OBVIOUS
    <3>1. CASE q = r
      BY <1>0, <1>1, <3>1 DEF Inv, TypeOK
    <3>2. CASE q # r
      <4>1. lock[v] = q
        BY <1>1, <2>1, <2>3, <3>2 DEF UserInv
      <4> QED BY <1>0, <1>1, <4>1, PlacesAssumption DEF Inv, TypeOK
    <3> QED BY <3>1, <3>2
  <2> QED BY <1>1, <2>1, <2>2, <2>3, <2>4 DEF UserInv
<1> QED BY <1>2, <1>3, <1>4, <1>5, Quiet

\* Clearing the flags of what the statement finds committed.
LEMMA SweepStep ==
  ASSUME Inv, NEW r \in Request, SweepStart(r) \/ SweepEnd(r)
  PROVE  Inv'
<1> DEFINE u == job[r].user
<1>0. CallInv(r) /\ u \in User /\ job[r] \in Job /\ InLock(r)
  BY DEF Inv, CallInv, Job, SweepStart, SweepEnd, InLock, Sweeping
<1>1. CASE SweepStart(r)
  <2> USE <1>0, <1>1 DEF SweepStart, Move
  <2>1. job'[r] = [job[r] EXCEPT !.rows = Of(u)] /\ job'[r] \in Job
    BY DEF Inv, TypeOK, Job, Of
  <2>2. TypeOK'
    BY <2>1 DEF Inv, TypeOK, Stage
  <2>3. QuietStep(r)
    BY DEF Inv, TypeOK, QuietStep, OthersStay
  <2>4. \A v \in User : Of(v)' = Of(v) /\ Mains(v)' = Mains(v)
    BY DEF Of, Mains, Exists
  <2>5. /\ pc'[r] = "sweeping" /\ held'[r] = held[r] /\ users' = users
        /\ job'[r].op = job[r].op /\ job'[r].user = u
        /\ job'[r].target = job[r].target /\ job'[r].rows = Of(u)
    BY <2>1 DEF Inv, TypeOK, Job
  <2>6. CallInv(r)'
    BY <2>1, <2>4, <2>5 DEF CallInv, Sweeping
  <2>7. \A v \in User \ disturbed' : UserInv(v)'
    <3> SUFFICES ASSUME NEW v \in User \ disturbed PROVE UserInv(v)'
      OBVIOUS
    <3>1. UserInv(v)
      BY DEF Inv
    <3>2. \A q \in Request :
            /\ InLock(q)' => InLock(q)
            /\ job'[q].user = job[q].user
            /\ q # r => job'[q] = job[q] /\ (Sweeping(q)' => Sweeping(q))
      BY <2>3, <2>5 DEF QuietStep, OthersStay, InLock, Sweeping
    <3>3. Mains(v) \subseteq Of(v)
      BY DEF Mains
    <3> QED BY <2>4, <2>5, <3>1, <3>2, <3>3 DEF UserInv
  <2> QED BY <2>2, <2>3, <2>6, <2>7, Quiet
<1>2. CASE SweepEnd(r)
  <2> USE <1>0, <1>2 DEF SweepEnd, Move
  <2>1. TypeOK'
    BY DEF Inv, TypeOK, Stage, Job
  <2>2. QuietStep(r)
    BY DEF Inv, TypeOK, QuietStep, OthersStay
  <2>3. \A v \in User : Of(v)' = Of(v) /\ Mains(v)' = Mains(v)
    BY DEF Of, Mains, Exists
  <2>4. /\ pc'[r] = "swept" /\ held'[r] = job[r].rows /\ users' = users
        /\ job'[r] = job[r]
    BY DEF Inv, TypeOK
  <2>5. CallInv(r)'
    BY <2>3, <2>4 DEF CallInv, Sweeping
  <2>6. \A v \in User \ disturbed' : UserInv(v)'
    <3> SUFFICES ASSUME NEW v \in User \ disturbed PROVE UserInv(v)'
      OBVIOUS
    <3>1. UserInv(v)
      BY DEF Inv
    <3>2. \A q \in Request :
            (InLock(q)' => InLock(q)) /\ (Sweeping(q)' => Sweeping(q))
      BY <2>2, <2>4 DEF QuietStep, OthersStay, InLock, Sweeping
    <3> QED BY <2>3, <3>1, <3>2 DEF UserInv
  <2> QED BY <2>1, <2>2, <2>5, <2>6, Quiet
<1> QED BY <1>1, <1>2

\* A step that ends call r and takes main locations away, or none.
LEMMA EndStep ==
  ASSUME Inv, NEW r \in Request, Finish(r), RowsStay, UNCHANGED <<users, disturbed>>,
         location' \in [Location -> Row \cup {NoRow}], StrangersHaveNone',
         \A u \in User : Mains(u)' \subseteq Mains(u)
  PROVE  Inv'
<1>1. TypeOK'
  BY Finishing DEF Inv, TypeOK
<1>2. \A q \in Request : CallInv(q)'
  BY Finishing, OtherCalls DEF Inv
<1>3. \A u \in User \ disturbed' : UserInv(u)'
  BY FewerMains DEF Inv
<1> QED BY <1>1, <1>2, <1>3 DEF Inv

LEMMA PlainStep ==
  ASSUME Inv, NEW r \in Request, NEW l \in Location,
         CreatePlain(r, l) \/ UpdatePlain(r) \/ Fail(r)
  PROVE  Inv'
<1>0. CallInv(r) /\ pc[r] # "idle" /\ job[r] \in Job
  BY DEF Inv, CallInv, CreatePlain, UpdatePlain, Fail
<1>1. CASE CreatePlain(r, l)
  <2> USE <1>0, <1>1 DEF CreatePlain
  <2>1. /\ location' \in [Location -> Row \cup {NoRow}]
        /\ \A k \in Location \ {l} : location'[k] = location[k]
        /\ location'[l] = [user |-> job[r].user, main |-> FALSE]
        /\ job[r].user \in users
    BY DEF Inv, TypeOK, Row, Job, CallInv
  <2>2. RowsStay
    BY <2>1 DEF RowsStay, Exists
  <2>3. StrangersHaveNone'
    BY <2>1 DEF Inv, StrangersHaveNone, Exists
  <2>4. \A u \in User : Mains(u)' \subseteq Mains(u)
    BY <2>1 DEF Mains, Of, Exists
  <2> QED BY <2>1, <2>2, <2>3, <2>4, EndStep
<1>2. CASE UpdatePlain(r)
  <2> DEFINE t == job[r].target
  <2> USE <1>0, <1>2 DEF UpdatePlain, Write
  <2>1. t \in Location /\ job[r].wish # "main"
    BY DEF CallInv
  <2>2. \A k \in Location : Exists(k) => location[k] \in Row
    BY DEF Inv, TypeOK, Exists
  <2>3. \A k \in Location :
          \/ location'[k] = location[k]
          \/ Exists(k) /\ location'[k] = [location[k] EXCEPT !.main = FALSE]
    BY <2>1 DEF Inv, TypeOK, Wish, Job
  <2>4. location' \in [Location -> Row \cup {NoRow}]
    <3>1. \A k \in Location : location'[k] \in Row \cup {NoRow}
      BY <2>2, <2>3 DEF Inv, TypeOK, Row
    <3> QED BY <3>1
  <2>5. RowsStay
    BY <2>2, <2>3, PlacesAssumption DEF RowsStay, Exists, Row
  <2>6. StrangersHaveNone'
    BY <2>2, <2>3 DEF Inv, StrangersHaveNone, Exists, Row
  <2>7. \A u \in User : Mains(u)' \subseteq Mains(u)
    BY <2>2, <2>3 DEF Mains, Of, Exists, Row
  <2> QED BY <2>4, <2>5, <2>6, <2>7, EndStep
<1>3. CASE Fail(r)
  <2>1. RowsStay /\ StrangersHaveNone' /\ \A u \in User : Mains(u)' \subseteq Mains(u)
    BY <1>3 DEF Fail, Inv, RowsStay, StrangersHaveNone, Mains, Of, Exists
  <2> QED BY <1>3, <2>1, EndStep DEF Fail, Inv, TypeOK
<1> QED BY <1>1, <1>2, <1>3

LEMMA Flagged ==
  ASSUME NEW row \in Row, NEW flag \in BOOLEAN
  PROVE  /\ [row EXCEPT !.main = flag] \in Row
         /\ [row EXCEPT !.main = flag] # NoRow
         /\ [row EXCEPT !.main = flag].user = row.user
         /\ [row EXCEPT !.main = flag].main = flag
BY PlacesAssumption DEF Row

\* What a commit makes of the rows: l becomes main, and what r holds does not
\* stay so.
Committed(r, l) ==
  /\ location'[l] \in Row /\ location'[l].main
  /\ \A k \in Location \ {l} :
       IF k \in held[r]
       THEN location'[k] \in Row /\ location'[k].user = location[k].user
            /\ ~location'[k].main
       ELSE location'[k] = location[k]

LEMMA CommitRows ==
  ASSUME Inv, NEW r \in Request, NEW l \in Location,
         \/ CreateCommit(r, l)
         \/ UpdateCommit(r) /\ l = job[r].target
  PROVE  /\ Committed(r, l)
         /\ location' \in [Location -> Row \cup {NoRow}]
         /\ RowsStay
         /\ location'[l].user = IF Exists(l) THEN location[l].user ELSE job[r].user
         /\ held[r] = job[r].rows /\ held[r] \subseteq Of(job[r].user)
         /\ job[r].user \in User /\ job[r].user \in users
<1>1. /\ CallInv(r) /\ pc[r] = "swept" /\ job[r].user \in User
      /\ job[r].user \in users
      /\ held[r] = job[r].rows /\ held[r] \subseteq Of(job[r].user)
  BY DEF Inv, CallInv, Sweeping, Job, CreateCommit, UpdateCommit
<1>2. \A k \in Location : Exists(k) => location[k] \in Row
  BY DEF Inv, TypeOK, Exists
<1>3. \A k \in held[r] : k \in Location /\ Exists(k)
  BY <1>1 DEF Of
<1>4. /\ location' = [k \in Location |-> location'[k]]
      /\ \A k \in Location \ {l} :
           location'[k] = IF k \in held[r] THEN [location[k] EXCEPT !.main = FALSE]
                          ELSE location[k]
  <2>1. CASE CreateCommit(r, l)
    BY <2>1 DEF CreateCommit
  <2>2. CASE UpdateCommit(r) /\ l = job[r].target
    BY <2>2 DEF UpdateCommit, Write
  <2> QED BY <2>1, <2>2
<1>5. /\ location'[l] \in Row /\ location'[l].main
      /\ location'[l].user = IF Exists(l) THEN location[l].user ELSE job[r].user
  <2>1. CASE CreateCommit(r, l)
    <3>1. location'[l] = [user |-> job[r].user, main |-> TRUE] /\ ~Exists(l)
      BY <2>1 DEF CreateCommit
    <3> QED BY <1>1, <3>1 DEF Row
  <2>2. CASE UpdateCommit(r) /\ l = job[r].target
    <3>1. location'[l] = [location[l] EXCEPT !.main = TRUE] /\ Exists(l)
      BY <2>2 DEF UpdateCommit, Write
    <3> QED BY <1>2, <3>1, Flagged
  <2> QED BY <2>1, <2>2
<1>6. Committed(r, l)
  <2>1. \A k \in Location \ {l} : k \in held[r] =>
          /\ location'[k] \in Row /\ location'[k].user = location[k].user
          /\ ~location'[k].main
    <3> SUFFICES ASSUME NEW k \in Location \ {l}, k \in held[r]
                 PROVE  /\ location'[k] \in Row /\ location'[k].user = location[k].user
                        /\ ~location'[k].main
      OBVIOUS
    <3>1. location'[k] = [location[k] EXCEPT !.main = FALSE] /\ location[k] \in Row
      BY <1>2, <1>3, <1>4
    <3>2. location'[k].main = FALSE
      BY <3>1, Flagged
    <3>3. location'[k] \in Row /\ location'[k].user = location[k].user
      BY <3>1, Flagged
    <3> QED BY <3>2, <3>3
  <2> QED BY <1>4, <1>5, <2>1 DEF Committed
<1>7. \A k \in Location : location'[k] \in Row \cup {NoRow}
  BY <1>6 DEF Committed, Inv, TypeOK
<1>8. RowsStay
  BY <1>5, <1>6, PlacesAssumption DEF RowsStay, Committed, Exists
<1>9. location' \in [Location -> Row \cup {NoRow}]
  BY <1>4, <1>7
<1> QED BY <1>1, <1>5, <1>6, <1>8, <1>9

\* The call that commits has the lock: no other clears the same user's flags,
\* and it holds whatever was main.
LEMMA CommitStep ==
  ASSUME Inv, NEW r \in Request, NEW l \in Location,
         \/ CreateCommit(r, l)
         \/ UpdateCommit(r) /\ l = job[r].target
  PROVE  Inv'
<1> DEFINE u == job[r].user
<1>1. /\ Finish(r) /\ UNCHANGED users /\ disturbed \subseteq disturbed'
      /\ disturbed' \subseteq User
      /\ InLock(r) /\ Sweeping(r)
  <2>1. Finish(r) /\ UNCHANGED users /\ pc[r] = "swept"
    BY DEF CreateCommit, UpdateCommit
  <2>2. CASE CreateCommit(r, l)
    BY <2>1, <2>2 DEF CreateCommit, InLock, Sweeping, Inv, TypeOK
  <2>3. CASE UpdateCommit(r) /\ l = job[r].target
    <3>1. location[l] \in Row
      BY <2>3 DEF UpdateCommit, Write, Inv, TypeOK, Exists
    <3> QED BY <2>1, <2>3, <3>1, CommitRows
            DEF UpdateCommit, InLock, Sweeping, Inv, TypeOK, Row
  <2> QED BY <2>2, <2>3
<1>2. \/ location'[l].user = u
      \/ u \in disturbed' /\ location'[l].user \in disturbed'
  BY CommitRows DEF CreateCommit, UpdateCommit, Write, Of
<1>3. TypeOK'
  BY <1>1, CommitRows, Finishing DEF Inv, TypeOK
<1>4. StrangersHaveNone'
  <2> SUFFICES ASSUME NEW k \in Location, Exists(k)' PROVE location'[k].user \in users
    BY <1>1 DEF StrangersHaveNone
  <2>1. CASE Exists(k)
    BY <2>1, CommitRows DEF RowsStay, Inv, StrangersHaveNone
  <2>2. CASE ~Exists(k) /\ k # l
    <3>1. k \notin held[r]
      BY <2>2, CommitRows DEF Of
    <3> QED BY <2>2, <3>1, CommitRows DEF Committed, Exists
  <2>3. CASE ~Exists(k) /\ k = l
    BY <2>3, CommitRows
  <2> QED BY <2>1, <2>2, <2>3
<1>5. \A q \in Request : CallInv(q)'
  BY <1>1, CommitRows, Finishing, OtherCalls DEF Inv
<1>6. \A v \in User \ disturbed' : UserInv(v)'
  <2> SUFFICES ASSUME NEW v \in User \ disturbed' PROVE UserInv(v)'
    OBVIOUS
  <2>1. UserInv(v)
    BY <1>1 DEF Inv
  <2>2. \A k \in Location \ {l} : k \in Mains(v)' => k \in Mains(v) \ held[r]
    <3> SUFFICES ASSUME NEW k \in Location \ {l}, k \in Mains(v)'
                 PROVE  k \in Mains(v) \ held[r]
      OBVIOUS
    <3>1. CASE k \in held[r]
      <4>1. ~location'[k].main
        BY <3>1, CommitRows DEF Committed
      <4> QED BY <4>1 DEF Mains
    <3>2. CASE k \notin held[r]
      BY <3>2, CommitRows DEF Committed, Mains, Of, Exists
    <3> QED BY <3>1, <3>2
  <2>3. CASE v = u
    <3>1. Mains(v) \subseteq held[r]
      BY <1>1, <2>1, <2>3, CommitRows DEF UserInv
    <3>2. Mains(v)' \subseteq {l}
      BY <2>2, <3>1 DEF Mains, Of
    <3>3. lock[v] = r
      BY <1>1, <2>1, <2>3 DEF UserInv
    <3>4. \A q \in Request : InLock(q)' => q # r /\ InLock(q) /\ job'[q] = job[q]
      BY <1>1, Finishing DEF Inv, OthersStay, InLock, Sweeping
    <3>5. \A q \in Request : InLock(q)' => job'[q].user # v
      BY <2>1, <3>3, <3>4 DEF UserInv
    <3> QED BY <3>2, <3>5 DEF UserInv, InLock
  <2>4. CASE v # u
    <3>1. Mains(v)' \subseteq Mains(v)
      BY <1>2, <2>2, <2>4 DEF Mains, Of
    <3> QED BY <1>1, <2>1, <3>1, FewerMains DEF Inv
  <2> QED BY <2>3, <2>4
<1> QED BY <1>3, <1>4, <1>5, <1>6 DEF Inv

LEMMA NextInv == Inv /\ [Next]_vars => Inv'
<1> SUFFICES ASSUME Inv, [Next]_vars PROVE Inv'
  OBVIOUS
<1>1. CASE \E u \in User, l \in Location : Register(u, l)
  BY <1>1, RegisterStep
<1>2. CASE \E r \in Request, u \in User, wish \in Wish :
             \/ CreateAsk(r, u, wish)
             \/ UpdateMainAsk(r, u, wish)
             \/ \E l \in Location : UpdateAsk(r, u, wish, l)
  BY <1>2, AskStep
<1>3. CASE \E r \in Request, l \in Location :
             CreatePlain(r, l) \/ CreateCommit(r, l) \/ FindMain(r, l) \/ FindOwn(r, l)
  BY <1>3, PlainStep, CommitStep, FindStep
<1>4. CASE \E r \in Request :
             \/ CreateLock(r) \/ UpdateLock(r) \/ SweepStart(r) \/ SweepEnd(r)
             \/ UpdatePlain(r) \/ UpdateCommit(r) \/ Fail(r)
  <2> PICK r \in Request :
        \/ CreateLock(r) \/ UpdateLock(r) \/ SweepStart(r) \/ SweepEnd(r)
        \/ UpdatePlain(r) \/ UpdateCommit(r) \/ Fail(r)
    BY <1>4
  <2>1. CASE CreateLock(r) \/ UpdateLock(r)
    BY <2>1, LockStep
  <2>2. CASE SweepStart(r) \/ SweepEnd(r)
    BY <2>2, SweepStep
  <2>3. CASE UpdatePlain(r)
    <3>1. job[r].target \in Location
      BY <2>3 DEF Inv, CallInv, UpdatePlain
    <3> QED BY <2>3, <3>1, PlainStep
  <2>4. CASE UpdateCommit(r)
    <3>1. job[r].target \in Location
      BY <2>4 DEF Inv, CallInv, UpdateCommit
    <3> QED BY <2>4, <3>1, CommitStep
  <2>5. CASE Fail(r)
    <3>1. CASE Location = {}
      <4>1. /\ RowsStay /\ StrangersHaveNone'
            /\ \A u \in User : Mains(u)' \subseteq Mains(u)
        BY <3>1 DEF RowsStay, StrangersHaveNone, Mains, Of
      <4> QED BY <2>5, <4>1, EndStep DEF Fail, Inv, TypeOK
    <3>2. CASE Location # {}
      BY <2>5, <3>2, PlainStep
    <3> QED BY <3>1, <3>2
  <2> QED BY <2>1, <2>2, <2>3, <2>4, <2>5
<1>5. CASE UNCHANGED vars
  BY <1>5 DEF vars, Inv, TypeOK, StrangersHaveNone, CallInv, UserInv, InLock,
              Sweeping, Mains, Of, Exists
<1> QED BY <1>1, <1>2, <1>3, <1>4, <1>5 DEF Next

----------------------------------------------------------------------------
\* Theorems

\* The table, the locks and the calls are well typed.
THEOREM PlacesTyped == Spec => []TypeOK
<1>1. Inv => TypeOK
  BY DEF Inv
<1> QED BY <1>1, InitInv, NextInv, PTL DEF Spec

\* No user has two main locations, however many calls of his overlap, unless a
\* creation went on without the advisory lock or another user's update touched
\* his rows.
THEOREM MainIsUnique == Spec => []OneMain
<1>1. Inv => OneMain
  BY DEF Inv, OneMain, UserInv
<1> QED BY <1>1, InitInv, NextInv, PTL DEF Spec

\* A commit leaves the caller with a main location, and changes nothing of the
\* other users, unless the row it makes main is not his.
LEMMA CommitKeepsMain ==
  ASSUME Inv, NEW r \in Request, NEW l \in Location,
         \/ CreateCommit(r, l)
         \/ UpdateCommit(r) /\ l = job[r].target,
         NEW u \in User \ disturbed', Mains(u) # {}
  PROVE  Mains(u)' # {}
<1>1. \/ location'[l].user = job[r].user
      \/ job[r].user \in disturbed' /\ location'[l].user \in disturbed'
  BY CommitRows DEF CreateCommit, UpdateCommit, Write, Of
<1>2. CASE u = job[r].user
  <2>1. l \in Mains(u)'
    BY <1>1, <1>2, CommitRows, PlacesAssumption DEF Committed, Mains, Of, Exists
  <2> QED BY <2>1
<1>3. CASE u # job[r].user
  <2>1. PICK k \in Location : k \in Mains(u)
    BY DEF Mains, Of
  <2>2. k \notin held[r]
    BY <1>3, <2>1, CommitRows DEF Mains, Of
  <2>3. CASE k = l
    \* A row that another user's update makes main was main already, or its
    \* owner is disturbed.
    BY <1>1, <1>3, <2>1, <2>3, CommitRows DEF Mains, Of
  <2>4. CASE k # l
    <3>1. k \in Mains(u)'
      BY <2>1, <2>2, <2>4, CommitRows DEF Committed, Mains, Of, Exists
    <3> QED BY <3>1
  <2> QED BY <2>3, <2>4
<1> QED BY <1>2, <1>3

\* Only an update to "not main" takes a user's main location away, of all the
\* calls and failures that overlap a switch.
THEOREM SwitchingIsSafe == Spec => SwitchKeepsMain
<1> DEFINE Gone(u) == Mains(u) # {} /\ Mains(u)' = {} /\ u \notin disturbed'
           Plain(r) == pc[r] = "write" /\ job[r].wish = "plain" /\ pc'[r] = "idle"
<1>1. Inv /\ [Next]_vars =>
        \A u \in User : Gone(u) => \E r \in Request : Plain(r)
  <2> SUFFICES ASSUME Inv, [Next]_vars, NEW u \in User, Gone(u)
               PROVE  \E r \in Request : Plain(r)
    OBVIOUS
  <2>1. PICK k \in Location : k \in Mains(u) /\ k \notin Mains(u)'
    BY DEF Mains, Of
  <2>2. location' # location
    BY <2>1 DEF Mains, Of, Exists
  <2>3. ~ \E v \in User, l \in Location : Register(v, l)
    BY <2>1 DEF Register, Mains, Of, Exists, Inv, TypeOK
  <2>4. ~ \E r \in Request, l \in Location : CreatePlain(r, l)
    BY <2>1 DEF CreatePlain, Mains, Of, Exists, Inv, TypeOK
  <2>5. ~ \E r \in Request, l \in Location : CreateCommit(r, l)
    BY CommitKeepsMain
  <2>6. ~ \E r \in Request : UpdateCommit(r)
    BY CommitKeepsMain DEF Inv, CallInv, UpdateCommit
  <2>7. PICK r \in Request : UpdatePlain(r)
    BY <2>2, <2>3, <2>4, <2>5, <2>6
       DEF Next, CreateAsk, UpdateMainAsk, UpdateAsk, Accept, FindMain, FindOwn,
           CreateLock, UpdateLock, SweepStart, SweepEnd, Fail, vars
  <2>8. job[r].wish \in Wish /\ job[r].wish # "main"
    BY <2>7 DEF UpdatePlain, Inv, CallInv, Job
  <2>9. job[r].wish # "same"
    BY <2>1, <2>7 DEF UpdatePlain, Write, Mains, Of, Exists, Inv, TypeOK
  <2> QED BY <2>7, <2>8, <2>9 DEF UpdatePlain, Finish, Wish, Inv, TypeOK
<1>2. Inv /\ [Next]_vars =>
        [\A u \in User : Gone(u) => \E r \in Request : Plain(r)]_vars
  BY <1>1
<1> QED BY <1>2, InitInv, NextInv, PTL DEF Spec, SwitchKeepsMain
=============================================================================
