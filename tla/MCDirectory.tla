---------------------------- MODULE MCDirectory ----------------------------
(***************************************************************************)
(* An instance of Directory for TLC.                                       *)
(***************************************************************************)
EXTENDS Directory, TLC

CONSTANTS g1, g2, g3, c1, m1, x1, w1, w2, e1, e2, e3

CityOf == c1 :> g1
SubOf == x1 :> m1

\* No definition names a call or a row of the other table.
Symmetric == Permutations(Request) \cup Permutations(Entry)

\* A call in flight changes nothing a reader sees before its write, and a write
\* that adds or removes rows ends the walk: the two are not explored at the same
\* time.
OneAtATime == walk = NoWalk \/ \A r \in Request : pc[r] = "idle"

\* An update and an order leave the tables as they are, whatever the other call
\* does meanwhile: they run alone.
Alone ==
  \A q, r \in Request : pc[q] # "idle" /\ pc[r] # "idle" /\ q # r =>
    job[q].op \notin UpdateOps \cup {"createOrder"}

\* Working hours and the catalogue share nothing but the profile: their
\* states are explored side by side, not in product.  So are the other tables,
\* a third government, without calls, and a second worker, with two of the
\* governments and one call at a time.
NoHours == \A w \in Profile : hours[w] = {} /\ active[w] = {}
Unborn(S) == \A x \in S : rows[x] = "unborn"
SideBySide ==
  /\ NoHours \/ Unborn(Id \ Profile)
  /\ Unborn(Entry) \/ (NoHours /\ Unborn(Id \ Entry))
  /\ Unborn({g3}) \/ \A r \in Request : pc[r] = "idle"
  /\ \/ rows[w2] = "unborn"
     \/ /\ NoHours /\ Unborn(Id \ {g1, g2, w1, w2})
        /\ \E q \in Request : \A r \in Request \ {q} : pc[r] = "idle"
=============================================================================
