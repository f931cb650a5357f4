----------------------------- MODULE Otp_proofs -----------------------------
(***************************************************************************)
(* Theorems about Otp, for any finite number of calls and any limits.      *)
(*                                                                         *)
(* Each limit is kept by a sum: what has been used of it and the number of *)
(* calls that have passed its check but not yet used it never exceed it    *)
(* together.                                                               *)
(***************************************************************************)
EXTENDS Otp, FiniteSetTheorems, TLAPS

\* The calls at one of the stages X
In(X) == {r \in Request : pc[r] \in X}

\* What call r knows at each of its stages
JobOK(r) ==
  /\ pc[r] = "allowed" => job[r] \in [op : {"send"}, device : Device]
  /\ pc[r] \in {"checked", "admitted"} =>
       job[r] \in [op : {"verify"}, guess : 0..issued]
  /\ pc[r] \in {"matched", "deleted", "cleared"} =>
       job[r] \in [op : {"verify"}, guess : 1..issued]
  /\ pc[r] = "signed" =>
       job[r] \in [op : {"exchange"}, guess : 1..issued, token : Token]
  /\ pc[r] \in {"consumed", "restoring"} =>
       job[r] \in [op : {"consume"}, token : Token]

JobInv == \A r \in Request : JobOK(r)

Typed == TypeOK /\ JobInv

\* Without a cooldown nothing is counted; calls past the check may yet be.
CoolInv ==
  /\ phoneCd \/ counted = 0
  /\ counted + Cardinality(In({"allowed"})) <= Overlap

\* A wrong guess is tallied, about to be, or lost; a call admitted may yet
\* make one.
GuessInv ==
  /\ guesses <= attempts + Cardinality(In({"wrong"})) + lost
  /\ guesses + Cardinality(In({"admitted"})) <=
       MaxAttempts - 1 + Overlap + lost

\* The calls that matched code c and have not exchanged it yet
Exchanging == {"matched", "deleted", "cleared", "signed"}
Holders(c) == {r \in Request : pc[r] \in Exchanging /\ job[r].guess = c}

\* A code still stored, or not yet generated, has yielded nothing, and no
\* call has got beyond deleting it.
YieldInv ==
  /\ \A c \in Code :
       /\ c = code \/ c > issued => yields[c] = 0
       /\ yields[c] + Cardinality(Holders(c)) <= Overlap
  /\ \A r \in Request :
       pc[r] \in {"deleted", "cleared", "signed"} => job[r].guess # code

\* The calls that took token t and have not accepted or restored it yet
Takers(t) == {r \in Request : pc[r] \in {"consumed", "restoring"}
                              /\ job[r].token = t}

\* A grant of t was used, is stored, or is in the hands of a call.
UseInv ==
  \A t \in Token :
    uses[t] + (IF t \in live THEN 1 ELSE 0) + Cardinality(Takers(t))
      <= grants[t]

----------------------------------------------------------------------------
\* Counting calls

LEMMA Counts ==
  /\ Overlap \in Nat
  /\ \A S \in SUBSET Request :
       /\ Cardinality(S) \in Nat
       /\ Cardinality(S) <= Overlap
       /\ \A r \in Request :
            /\ r \in S => Cardinality(S \ {r}) = Cardinality(S) - 1
            /\ r \notin S => Cardinality(S \cup {r}) = Cardinality(S) + 1
<1>1. IsFiniteSet(Request)
  BY OtpAssumption
<1>2. ASSUME NEW S \in SUBSET Request
      PROVE  /\ IsFiniteSet(S)
             /\ Cardinality(S) \in Nat
             /\ Cardinality(S) <= Overlap
  BY <1>1, FS_Subset, FS_CardinalityType DEF Overlap
<1>3. ASSUME NEW S \in SUBSET Request, NEW r \in S
      PROVE  Cardinality(S \ {r}) = Cardinality(S) - 1
  BY <1>2, FS_RemoveElement
<1>4. ASSUME NEW S \in SUBSET Request, NEW r \in Request, r \notin S
      PROVE  Cardinality(S \cup {r}) = Cardinality(S) + 1
  BY <1>2, <1>4, FS_AddElement
<1>5. Overlap \in Nat
  BY <1>1, FS_CardinalityType DEF Overlap
<1> QED BY <1>2, <1>3, <1>4, <1>5

\* Two stages are never one call's.
LEMMA CountsTwo ==
  ASSUME NEW S \in SUBSET Request, NEW T \in SUBSET Request, S \cap T = {}
  PROVE  Cardinality(S) + Cardinality(T) <= Overlap
<1>1. IsFiniteSet(S) /\ IsFiniteSet(T)
  BY OtpAssumption, FS_Subset
<1>2. Cardinality(S \cap T) = 0
  BY FS_EmptySet
<1>3. Cardinality(S \cup T) =
        Cardinality(S) + Cardinality(T) - Cardinality(S \cap T)
  BY <1>1, FS_Union
<1>4. /\ Cardinality(S) \in Nat /\ Cardinality(T) \in Nat
      /\ Cardinality(S \cup T) <= Overlap /\ Overlap \in Nat
  BY Counts
<1> QED BY <1>2, <1>3, <1>4

----------------------------------------------------------------------------
\* Types

\* A call moves from one stage to another, knowing what it should there.
LEMMA MoveTyped ==
  ASSUME Typed, NEW r \in Request, NEW to \in Stage,
         NEW j \in Job \cup {NoJob},
         pc' = [pc EXCEPT ![r] = to], job' = [job EXCEPT ![r] = j],
         issued' \in Nat, issued <= issued', JobOK(r)'
  PROVE  /\ pc' \in [Request -> Stage]
         /\ job' \in [Request -> Job \cup {NoJob}]
         /\ JobInv'
<1>1. pc' \in [Request -> Stage] /\ job' \in [Request -> Job \cup {NoJob}]
  BY DEF Typed, TypeOK
<1>2. ASSUME NEW q \in Request, q # r
      PROVE  JobOK(q)'
  <2>1. pc'[q] = pc[q] /\ job'[q] = job[q]
    BY <1>2 DEF Typed, TypeOK
  <2>2. JobOK(q) /\ issued \in Nat
    BY OtpAssumption DEF Typed, JobInv, TypeOK
  <2>3. 0..issued \subseteq 0..issued' /\ 1..issued \subseteq 1..issued'
    BY <2>2
  <2>4. pc[q] \in {"checked", "admitted"} =>
          job[q] \in [op : {"verify"}, guess : 0..issued']
    BY <2>2, <2>3 DEF JobOK
  <2>5. pc[q] \in {"matched", "deleted", "cleared"} =>
          job[q] \in [op : {"verify"}, guess : 1..issued']
    BY <2>2, <2>3 DEF JobOK
  <2>6. pc[q] = "signed" =>
          job[q] \in [op : {"exchange"}, guess : 1..issued', token : Token]
    BY <2>2, <2>3 DEF JobOK
  <2> QED BY <2>1, <2>2, <2>4, <2>5, <2>6 DEF JobOK, Token
<1> QED BY <1>1, <1>2 DEF JobInv

LEMMA GoTyped ==
  ASSUME Typed, NEW r \in Request, NEW from, NEW to \in Stage,
         Go(r, from, to), issued' \in Nat, issued <= issued', JobOK(r)'
  PROVE  /\ pc' \in [Request -> Stage]
         /\ job' \in [Request -> Job \cup {NoJob}]
         /\ JobInv'
<1>1. job[r] \in Job \cup {NoJob} /\ job' = [job EXCEPT ![r] = job[r]]
  BY DEF Go, Typed, TypeOK
<1> QED BY <1>1, MoveTyped DEF Go

LEMMA EndTyped ==
  ASSUME Typed, NEW r \in Request, NEW from, End(r, from), issued' = issued
  PROVE  /\ pc' \in [Request -> Stage]
         /\ job' \in [Request -> Job \cup {NoJob}]
         /\ JobInv'
<1>1. issued \in Nat
  BY OtpAssumption DEF Typed, TypeOK
<1>2. JobOK(r)'
  BY DEF End, JobOK, Typed, TypeOK
<1>3. "idle" \in Stage /\ NoJob \in Job \cup {NoJob}
  BY DEF Stage
<1>4. issued' \in Nat /\ issued <= issued'
  BY <1>1
<1> QED BY <1>2, <1>3, <1>4, MoveTyped DEF End

LEMMA StayTyped ==
  ASSUME Typed, UNCHANGED calls, issued' = issued
  PROVE  /\ pc' \in [Request -> Stage]
         /\ job' \in [Request -> Job \cup {NoJob}]
         /\ JobInv'
BY DEF Typed, TypeOK, JobInv, JobOK, calls, Token

\* TypeOK but for pc and job
DataOK ==
  /\ code \in 0..issued /\ issued \in 0..MaxCode
  /\ attempts \in Nat /\ hasTTL \in BOOLEAN
  /\ phoneCd \in BOOLEAN /\ deviceCd \subseteq Device
  /\ live \subseteq Token /\ now \in 0..MaxSecond
  /\ counted \in Nat /\ guesses \in 0..MaxGuess /\ lost \in 0..MaxLost
  /\ yields \in [Code -> Nat]
  /\ grants \in [Token -> Nat] /\ uses \in [Token -> Nat]

LEMMA TypeSplit ==
  TypeOK <=> /\ DataOK
             /\ pc \in [Request -> Stage]
             /\ job \in [Request -> Job \cup {NoJob}]
BY DEF TypeOK, DataOK

LEMMA Reassemble ==
  ASSUME DataOK', pc' \in [Request -> Stage],
         job' \in [Request -> Job \cup {NoJob}], JobInv'
  PROVE  Typed'
BY DEF Typed, TypeOK, DataOK

LEMMA Bounds ==
  ASSUME Typed
  PROVE  /\ MaxCode \in Nat /\ MaxGuess \in Nat /\ MaxLost \in Nat
         /\ MaxSecond \in Nat /\ MaxAttempts \in Nat \ {0}
         /\ issued \in Nat /\ code \in Nat /\ now \in Nat
         /\ attempts \in Nat /\ guesses \in Nat /\ lost \in Nat
         /\ counted \in Nat
BY OtpAssumption DEF Typed, TypeOK

LEMMA ForgetTyped ==
  ASSUME Typed, ForgetAttempts
  PROVE  /\ attempts' \in Nat /\ hasTTL' \in BOOLEAN
         /\ guesses' \in 0..MaxGuess /\ lost' \in 0..MaxLost
<1>1. hasTTL' \in BOOLEAN
  BY DEF ForgetAttempts
<1>2. attempts' = 0 /\ guesses' = 0 /\ lost' = lost
  BY DEF ForgetAttempts
<1> QED BY <1>1, <1>2, Bounds DEF Typed, TypeOK

LEMMA BumpTyped ==
  ASSUME NEW S, NEW f \in [S -> Nat], NEW x \in S
  PROVE  [f EXCEPT ![x] = @ + 1] \in [S -> Nat]
OBVIOUS

LEMMA RequestTyped ==
  ASSUME Typed, NEW r \in Request, RequestOtp(r)
  PROVE  Typed'
<1> USE DEF otp, verify, cooldown, tokens
<1>1. ASSUME NEW d \in Device, SendCheck(r, d) PROVE Typed'
  <2>1. DataOK'
    BY <1>1, TypeSplit DEF Typed, DataOK, Token, Code, SendCheck
  <2>2. "allowed" \in Stage /\ [op |-> "send", device |-> d] \in Job
    BY DEF Stage, Job
  <2>3. JobOK(r)'
    BY <1>1 DEF SendCheck, Begin, JobOK, Typed, TypeOK
  <2>4. issued' \in Nat /\ issued <= issued'
    BY <1>1, Bounds DEF SendCheck
  <2> QED
    BY <1>1, <2>1, <2>2, <2>3, <2>4, MoveTyped, Reassemble
    DEF SendCheck, Begin
<1>2. CASE SendCount(r)
  <2>1. job[r].device \in Device
    BY <1>2 DEF Typed, JobInv, JobOK, SendCount, Go
  <2>2. DataOK'
    BY <1>2, <2>1, TypeSplit DEF Typed, DataOK, Token, Code, SendCount
  <2>3. JobOK(r)'
    BY <1>2 DEF SendCount, Go, JobOK, Typed, TypeOK
  <2>4. "counted" \in Stage
    BY DEF Stage
  <2> QED
    BY <1>2, <2>2, <2>3, <2>4, Bounds, GoTyped, Reassemble
    DEF Typed, SendCount
<1>3. CASE SetOtp(r)
  <2>1. DataOK'
    BY <1>3, TypeSplit, Bounds DEF Typed, DataOK, Token, Code, SetOtp
  <2>2. JobOK(r)'
    BY <1>3 DEF SetOtp, Go, JobOK, Typed, TypeOK
  <2>3. "stored" \in Stage
    BY DEF Stage
  <2>4. issued' \in Nat /\ issued <= issued'
    BY <1>3, Bounds DEF SetOtp
  <2> QED
    BY <1>3, <2>1, <2>2, <2>3, <2>4, GoTyped, Reassemble DEF Typed, SetOtp
<1>4. CASE ResetAttempts(r)
  <2>1. DataOK'
    BY <1>4, TypeSplit, ForgetTyped
    DEF Typed, DataOK, Token, Code, ResetAttempts
  <2> QED
    BY <1>4, <2>1, EndTyped, Reassemble DEF Typed, ResetAttempts
<1> QED BY <1>1, <1>2, <1>3, <1>4 DEF RequestOtp

LEMMA VerifyTyped ==
  ASSUME Typed, NEW r \in Request, VerifyOtp(r)
  PROVE  Typed'
<1> USE DEF otp, verify, cooldown, tokens
<1>1. ASSUME NEW g \in 0..issued, VerifyCheck(r, g) PROVE Typed'
  <2>1. DataOK'
    BY <1>1, TypeSplit DEF Typed, DataOK, Token, Code, VerifyCheck
  <2>2. g \in 0..MaxCode
    BY Bounds DEF Typed, TypeOK
  <2>3. "checked" \in Stage /\ [op |-> "verify", guess |-> g] \in Job
    BY <2>2 DEF Stage, Job
  <2>4. JobOK(r)'
    BY <1>1 DEF VerifyCheck, Begin, JobOK, Typed, TypeOK
  <2>5. issued' \in Nat /\ issued <= issued'
    BY <1>1, Bounds DEF VerifyCheck
  <2> QED
    BY <1>1, <2>1, <2>3, <2>4, <2>5, MoveTyped, Reassemble
    DEF VerifyCheck, Begin
<1>2. CASE VerifyAdmit(r)
  <2>1. DataOK'
    BY <1>2, TypeSplit, Bounds DEF Typed, DataOK, Token, Code, VerifyAdmit
  <2>2. JobOK(r)'
    BY <1>2 DEF VerifyAdmit, Go, JobOK, JobInv, Typed, TypeOK
  <2>3. "admitted" \in Stage
    BY DEF Stage
  <2> QED
    BY <1>2, <2>1, <2>2, <2>3, Bounds, GoTyped, Reassemble DEF Typed, VerifyAdmit
<1>3. CASE VerifyRefuse(r)
  <2>1. DataOK'
    BY <1>3, TypeSplit, Bounds DEF Typed, DataOK, Token, Code, VerifyRefuse
  <2> QED
    BY <1>3, <2>1, EndTyped, Reassemble DEF Typed, VerifyRefuse
<1>4. CASE GuessWrong(r)
  <2>1. DataOK'
    BY <1>4, TypeSplit, Bounds DEF Typed, DataOK, Token, Code, GuessWrong
  <2>2. JobOK(r)'
    BY <1>4 DEF GuessWrong, Go, JobOK, JobInv, Typed, TypeOK
  <2>3. "wrong" \in Stage
    BY DEF Stage
  <2> QED
    BY <1>4, <2>1, <2>2, <2>3, Bounds, GoTyped, Reassemble DEF Typed, GuessWrong
<1>5. CASE GuessRight(r)
  <2>1. DataOK'
    BY <1>5, TypeSplit, Bounds DEF Typed, DataOK, Token, Code, GuessRight
  <2>2. job[r] \in [op : {"verify"}, guess : 0..issued] /\ job[r].guess # 0
    BY <1>5 DEF GuessRight, Matches, Go, JobOK, JobInv, Typed
  <2>3. job[r] \in [op : {"verify"}, guess : 1..issued]
    BY <2>2, Bounds
  <2>4. JobOK(r)'
    BY <1>5, <2>3 DEF GuessRight, Go, JobOK, Typed, TypeOK
  <2>5. "matched" \in Stage
    BY DEF Stage
  <2> QED
    BY <1>5, <2>1, <2>4, <2>5, Bounds, GoTyped, Reassemble DEF Typed, GuessRight
<1>6. CASE Tally(r)
  <2>1. DataOK'
    BY <1>6, TypeSplit, Bounds DEF Typed, DataOK, Token, Code, Tally
  <2>2. JobOK(r)'
    BY <1>6 DEF Tally, Go, JobOK, JobInv, Typed, TypeOK
  <2>3. "tallied" \in Stage
    BY DEF Stage
  <2> QED
    BY <1>6, <2>1, <2>2, <2>3, Bounds, GoTyped, Reassemble DEF Typed, Tally
<1>7. CASE TallyHasTTL(r)
  <2>1. DataOK'
    BY <1>7, TypeSplit, Bounds DEF Typed, DataOK, Token, Code, TallyHasTTL
  <2> QED
    BY <1>7, <2>1, EndTyped, Reassemble DEF Typed, TallyHasTTL
<1>8. CASE TallyNoTTL(r)
  <2>1. DataOK'
    BY <1>8, TypeSplit, Bounds DEF Typed, DataOK, Token, Code, TallyNoTTL
  <2>2. JobOK(r)'
    BY <1>8 DEF TallyNoTTL, Go, JobOK, JobInv, Typed, TypeOK
  <2>3. "expiring" \in Stage
    BY DEF Stage
  <2> QED
    BY <1>8, <2>1, <2>2, <2>3, Bounds, GoTyped, Reassemble DEF Typed, TallyNoTTL
<1>9. CASE TallyExpire(r)
  <2>1. DataOK'
    BY <1>9, TypeSplit, Bounds DEF Typed, DataOK, Token, Code, TallyExpire
  <2> QED
    BY <1>9, <2>1, EndTyped, Reassemble DEF Typed, TallyExpire
<1>10. CASE DeleteOtp(r)
  <2>1. DataOK'
    BY <1>10, TypeSplit, Bounds DEF Typed, DataOK, Token, Code, DeleteOtp
  <2>2. JobOK(r)'
    BY <1>10 DEF DeleteOtp, Go, JobOK, JobInv, Typed, TypeOK
  <2>3. "deleted" \in Stage
    BY DEF Stage
  <2> QED
    BY <1>10, <2>1, <2>2, <2>3, Bounds, GoTyped, Reassemble DEF Typed, DeleteOtp
<1>11. CASE ResetAfterSuccess(r)
  <2>1. DataOK'
    BY <1>11, TypeSplit, ForgetTyped
    DEF Typed, DataOK, Token, Code, ResetAfterSuccess
  <2>2. JobOK(r)'
    BY <1>11 DEF ResetAfterSuccess, Go, JobOK, JobInv, Typed, TypeOK
  <2>3. "cleared" \in Stage
    BY DEF Stage
  <2> QED
    BY <1>11, <2>1, <2>2, <2>3, Bounds, GoTyped, Reassemble DEF Typed, ResetAfterSuccess
<1>12. CASE Sign(r)
  <2> DEFINE j == [op |-> "exchange", guess |-> job[r].guess, token |-> now]
  <2>1. DataOK'
    BY <1>12, TypeSplit DEF Typed, DataOK, Token, Code, Sign
  <2>2. job[r].guess \in 1..issued /\ now \in Token
    BY <1>12 DEF Sign, Typed, TypeOK, JobInv, JobOK, Token
  <2>3. j \in [op : {"exchange"}, guess : 1..issued, token : Token]
    BY <2>2
  <2>4. 1..issued \subseteq Code
    BY Bounds DEF Typed, TypeOK, Code
  <2>5. j \in Job
    BY <2>3, <2>4 DEF Job
  <2>6. pc' = [pc EXCEPT ![r] = "signed"] /\ job' = [job EXCEPT ![r] = j]
    BY <1>12 DEF Sign
  <2>7. issued' = issued
    BY <1>12 DEF Sign
  <2> HIDE DEF j
  <2>8. pc'[r] = "signed" /\ job'[r] = j
    BY <2>6 DEF Typed, TypeOK
  <2>9. JobOK(r)'
    BY <2>3, <2>7, <2>8 DEF JobOK, Token
  <2>10. "signed" \in Stage
    BY DEF Stage
  <2>11. issued' \in Nat /\ issued <= issued'
    BY <2>7, Bounds
  <2>12. j \in Job \cup {NoJob}
    BY <2>5
  <2>13. /\ pc' \in [Request -> Stage]
         /\ job' \in [Request -> Job \cup {NoJob}]
         /\ JobInv'
    BY <2>6, <2>9, <2>10, <2>11, <2>12, MoveTyped
  <2> QED BY <2>1, <2>13, Reassemble
<1>13. CASE SetToken(r)
  <2>1. job[r].token \in Token /\ job[r].guess \in 1..issued
    BY <1>13 DEF SetToken, End, Typed, JobInv, JobOK
  <2>2. job[r].guess \in Code
    BY <2>1, Bounds DEF Typed, TypeOK, Code
  <2>3. yields' \in [Code -> Nat] /\ grants' \in [Token -> Nat]
    BY <1>13, <2>1, <2>2, BumpTyped DEF SetToken, Typed, TypeOK
  <2>4. DataOK'
    BY <1>13, <2>1, <2>3, TypeSplit
    DEF Typed, DataOK, Token, Code, SetToken
  <2> QED
    BY <1>13, <2>4, EndTyped, Reassemble DEF Typed, SetToken
<1>14. CASE SetTokenConflict(r)
  <2>1. DataOK'
    BY <1>14, TypeSplit, Bounds DEF Typed, DataOK, Token, Code, SetTokenConflict
  <2> QED
    BY <1>14, <2>1, EndTyped, Reassemble DEF Typed, SetTokenConflict
<1> QED
  BY <1>1, <1>2, <1>3, <1>4, <1>5, <1>6, <1>7, <1>8, <1>9,
     <1>10, <1>11, <1>12, <1>13, <1>14 DEF VerifyOtp

LEMMA UseTyped ==
  ASSUME Typed, NEW r \in Request, UseToken(r)
  PROVE  Typed'
<1> USE DEF otp, verify, cooldown, tokens
<1>1. ASSUME NEW t \in Token, Consume(r, t) PROVE Typed'
  <2>1. DataOK'
    BY <1>1, TypeSplit DEF Typed, DataOK, Token, Code, Consume
  <2>2. "consumed" \in Stage /\ [op |-> "consume", token |-> t] \in Job
    BY DEF Stage, Job
  <2>3. JobOK(r)'
    BY <1>1 DEF Consume, Begin, JobOK, Typed, TypeOK, Token
  <2>4. issued' \in Nat /\ issued <= issued'
    BY <1>1, Bounds DEF Consume
  <2> QED
    BY <1>1, <2>1, <2>2, <2>3, <2>4, MoveTyped, Reassemble
    DEF Consume, Begin
<1>2. CASE Accept(r)
  <2>1. job[r].token \in Token
    BY <1>2 DEF Accept, End, Typed, JobInv, JobOK
  <2>2. uses' \in [Token -> Nat]
    BY <1>2, <2>1, BumpTyped DEF Accept, Typed, TypeOK
  <2>3. DataOK'
    BY <1>2, <2>2, TypeSplit DEF Typed, DataOK, Token, Code, Accept
  <2> QED
    BY <1>2, <2>3, EndTyped, Reassemble DEF Typed, Accept
<1>3. CASE AcceptExpired(r)
  <2>1. DataOK'
    BY <1>3, TypeSplit DEF Typed, DataOK, Token, Code, AcceptExpired
  <2>2. JobOK(r)'
    BY <1>3 DEF AcceptExpired, Go, JobOK, JobInv, Typed, TypeOK, Token
  <2>3. "restoring" \in Stage
    BY DEF Stage
  <2> QED
    BY <1>3, <2>1, <2>2, <2>3, Bounds, GoTyped, Reassemble
    DEF Typed, AcceptExpired
<1>4. CASE RestoreToken(r)
  <2>1. job[r].token \in Token
    BY <1>4 DEF RestoreToken, End, Typed, JobInv, JobOK
  <2>2. DataOK'
    BY <1>4, <2>1, TypeSplit DEF Typed, DataOK, Token, Code, RestoreToken
  <2> QED
    BY <1>4, <2>2, EndTyped, Reassemble DEF Typed, RestoreToken
<1> QED BY <1>1, <1>2, <1>3, <1>4 DEF UseToken

LEMMA RestTyped ==
  ASSUME Typed, Environment \/ UNCHANGED vars \/ \E r \in Request : Fail(r)
  PROVE  Typed'
<1> USE DEF otp, verify, cooldown, tokens
<1>1. CASE Environment
  <2>1. UNCHANGED calls /\ issued' = issued
    BY <1>1
    DEF Environment, CodeExpires, AttemptsExpire, PhoneCooldownExpires,
        DeviceCooldownExpires, TokenExpires, Tick
  <2>2. ASSUME AttemptsExpire PROVE DataOK'
    BY <2>2, TypeSplit, ForgetTyped
    DEF Typed, DataOK, Token, Code, AttemptsExpire
  <2>3. ASSUME PhoneCooldownExpires PROVE DataOK'
    <3>1. phoneCd' \in BOOLEAN
      BY <2>3 DEF PhoneCooldownExpires
    <3> QED
      BY <2>3, <3>1, TypeSplit
      DEF Typed, DataOK, Token, Code, PhoneCooldownExpires
  <2>4. ASSUME \/ CodeExpires
               \/ Tick
               \/ \E d \in Device : DeviceCooldownExpires(d)
               \/ \E t \in Token : TokenExpires(t)
        PROVE  DataOK'
    BY <2>4, TypeSplit, Bounds
    DEF Typed, DataOK, Token, Code, CodeExpires, DeviceCooldownExpires,
        TokenExpires, Tick
  <2>5. DataOK'
    BY <1>1, <2>2, <2>3, <2>4 DEF Environment
  <2> QED BY <2>1, <2>5, StayTyped, Reassemble
<1>2. CASE UNCHANGED vars
  <2>1. DataOK' /\ UNCHANGED calls /\ issued' = issued
    BY <1>2, TypeSplit DEF Typed, DataOK, Token, Code, vars
  <2> QED BY <2>1, StayTyped, Reassemble DEF Typed
<1>3. ASSUME NEW r \in Request, Fail(r) PROVE Typed'
  <2>1. DataOK' /\ End(r, pc[r]) /\ issued' = issued
    BY <1>3, TypeSplit, Bounds DEF Typed, DataOK, Token, Code, Fail
  <2> QED BY <2>1, EndTyped, Reassemble DEF Typed
<1> QED BY <1>1, <1>2, <1>3

LEMMA StepTyped ==
  ASSUME Typed, [Next]_vars
  PROVE  Typed'
BY RequestTyped, VerifyTyped, UseTyped, RestTyped DEF Next

LEMMA InitTyped ==
  ASSUME Init
  PROVE  Typed
<1>1. hasTTL \in BOOLEAN /\ phoneCd \in BOOLEAN
  BY DEF Init
<1>2. pc \in [Request -> Stage] /\ job \in [Request -> Job \cup {NoJob}]
  BY DEF Init, Stage
<1>3. DataOK
  BY <1>1, OtpAssumption DEF Init, DataOK, Code, Token
<1>4. JobInv
  BY DEF Init, JobInv, JobOK
<1> QED BY <1>2, <1>3, <1>4, TypeSplit DEF Typed

\* Every state of the codes, counters and tokens, and of the calls under way,
\* is well typed.
THEOREM OtpTyped == Spec => []TypeOK
<1>1. Typed => TypeOK
  BY DEF Typed
<1> QED BY <1>1, InitTyped, StepTyped, PTL DEF Spec

----------------------------------------------------------------------------
\* A step of a call leaves the others where they are

OneMoves(r) ==
  \A q \in Request : q # r => pc'[q] = pc[q] /\ job'[q] = job[q]

\* A set gains or loses one call.
LEMMA CountChange ==
  ASSUME NEW S \in SUBSET Request, NEW T \in SUBSET Request,
         NEW r \in Request, T \ {r} = S \ {r}
  PROVE  /\ Cardinality(S) \in Nat /\ Cardinality(T) \in Nat
         /\ Cardinality(T) <= Overlap
         /\ (r \in S <=> r \in T) => Cardinality(T) = Cardinality(S)
         /\ r \in S /\ r \notin T => Cardinality(T) = Cardinality(S) - 1
         /\ r \notin S /\ r \in T => Cardinality(T) = Cardinality(S) + 1
<1>1. /\ Cardinality(S) \in Nat /\ Cardinality(T) \in Nat
      /\ Cardinality(T) <= Overlap
  BY Counts
<1>2. ASSUME r \in S <=> r \in T PROVE Cardinality(T) = Cardinality(S)
  <2>1. T = S
    BY <1>2
  <2> QED BY <2>1
<1>3. ASSUME r \in S, r \notin T PROVE Cardinality(T) = Cardinality(S) - 1
  <2>1. T = S \ {r}
    BY <1>3
  <2> QED BY <2>1, <1>3, Counts
<1>4. ASSUME r \notin S, r \in T PROVE Cardinality(T) = Cardinality(S) + 1
  <2>1. T = S \cup {r}
    BY <1>4
  <2> QED BY <2>1, <1>4, Counts
<1> QED BY <1>1, <1>2, <1>3, <1>4

LEMMA CallMoves ==
  ASSUME TypeOK, NEW r \in Request,
         RequestOtp(r) \/ VerifyOtp(r) \/ UseToken(r) \/ Fail(r)
  PROVE  OneMoves(r)
<1>1. ASSUME NEW from, NEW to, Go(r, from, to) PROVE OneMoves(r)
  BY <1>1 DEF Go, OneMoves, TypeOK
<1>2. ASSUME NEW from, End(r, from) PROVE OneMoves(r)
  BY <1>2 DEF End, OneMoves, TypeOK
<1>3. ASSUME NEW to, NEW j, Begin(r, to, j) PROVE OneMoves(r)
  BY <1>3 DEF Begin, OneMoves, TypeOK
<1>4. ASSUME Sign(r) PROVE OneMoves(r)
  BY <1>4 DEF Sign, OneMoves, TypeOK
<1>5. CASE RequestOtp(r)
  BY <1>5, <1>1, <1>2, <1>3
  DEF RequestOtp, SendCheck, SendCount, SetOtp, ResetAttempts
<1>6. CASE VerifyOtp(r)
  BY <1>6, <1>1, <1>2, <1>3, <1>4
  DEF VerifyOtp, VerifyCheck, VerifyAdmit, VerifyRefuse, GuessWrong,
      GuessRight, Tally, TallyHasTTL, TallyNoTTL, TallyExpire, DeleteOtp,
      ResetAfterSuccess, SetToken, SetTokenConflict
<1>7. CASE UseToken(r)
  BY <1>7, <1>1, <1>2, <1>3
  DEF UseToken, Consume, Accept, AcceptExpired, RestoreToken
<1>8. CASE Fail(r)
  BY <1>8, <1>2 DEF Fail
<1> QED BY <1>5, <1>6, <1>7, <1>8

LEMMA InChange ==
  ASSUME NEW r \in Request, OneMoves(r), NEW X
  PROVE  /\ Cardinality(In(X)) \in Nat /\ Cardinality(In(X)') \in Nat
         /\ Cardinality(In(X)') <= Overlap
         /\ (pc[r] \in X <=> pc'[r] \in X) =>
              Cardinality(In(X)') = Cardinality(In(X))
         /\ pc[r] \in X /\ pc'[r] \notin X =>
              Cardinality(In(X)') = Cardinality(In(X)) - 1
         /\ pc[r] \notin X /\ pc'[r] \in X =>
              Cardinality(In(X)') = Cardinality(In(X)) + 1
<1>1. In(X) \in SUBSET Request /\ In(X)' \in SUBSET Request
  BY DEF In
<1>2. In(X)' \ {r} = In(X) \ {r}
  BY DEF In, OneMoves
<1>3. (r \in In(X) <=> pc[r] \in X) /\ (r \in In(X)' <=> pc'[r] \in X)
  BY DEF In
<1> QED BY <1>1, <1>2, <1>3, CountChange

LEMMA HoldersChange ==
  ASSUME NEW r \in Request, OneMoves(r), NEW c
  PROVE  /\ Cardinality(Holders(c)) \in Nat
         /\ Cardinality(Holders(c)') \in Nat
         /\ Cardinality(Holders(c)') <= Overlap
         /\ (r \in Holders(c) <=> r \in Holders(c)') =>
              Cardinality(Holders(c)') = Cardinality(Holders(c))
         /\ r \in Holders(c) /\ r \notin Holders(c)' =>
              Cardinality(Holders(c)') = Cardinality(Holders(c)) - 1
<1>1. Holders(c) \in SUBSET Request /\ Holders(c)' \in SUBSET Request
  BY DEF Holders
<1>2. Holders(c)' \ {r} = Holders(c) \ {r}
  BY DEF Holders, OneMoves
<1> QED BY <1>1, <1>2, CountChange

LEMMA TakersChange ==
  ASSUME NEW r \in Request, OneMoves(r), NEW t
  PROVE  /\ Cardinality(Takers(t)) \in Nat
         /\ Cardinality(Takers(t)') \in Nat
         /\ (r \in Takers(t) <=> r \in Takers(t)') =>
              Cardinality(Takers(t)') = Cardinality(Takers(t))
         /\ r \in Takers(t) /\ r \notin Takers(t)' =>
              Cardinality(Takers(t)') = Cardinality(Takers(t)) - 1
         /\ r \notin Takers(t) /\ r \in Takers(t)' =>
              Cardinality(Takers(t)') = Cardinality(Takers(t)) + 1
<1>1. Takers(t) \in SUBSET Request /\ Takers(t)' \in SUBSET Request
  BY DEF Takers
<1>2. Takers(t)' \ {r} = Takers(t) \ {r}
  BY DEF Takers, OneMoves
<1> QED BY <1>1, <1>2, CountChange

----------------------------------------------------------------------------
\* The cooldown

LEMMA CoolCalls ==
  ASSUME TypeOK, CoolInv, NEW r \in Request,
         RequestOtp(r) \/ VerifyOtp(r) \/ UseToken(r) \/ Fail(r)
  PROVE  CoolInv'
<1> DEFINE A == In({"allowed"})
<1>1. OneMoves(r)
  BY CallMoves
<1>2. /\ Cardinality(A) \in Nat /\ Cardinality(A') \in Nat
      /\ Cardinality(A') <= Overlap
      /\ (pc[r] = "allowed" <=> pc'[r] = "allowed") =>
           Cardinality(A') = Cardinality(A)
      /\ pc[r] = "allowed" /\ pc'[r] # "allowed" =>
           Cardinality(A') = Cardinality(A) - 1
  BY <1>1, InChange
<1>3. Overlap \in Nat /\ counted \in Nat
  BY Counts DEF TypeOK
<1> HIDE DEF A
<1>4. CoolInv <=> (phoneCd \/ counted = 0) /\ counted + Cardinality(A) <= Overlap
  BY DEF CoolInv, A
<1>5. CoolInv' <=> /\ phoneCd' \/ counted' = 0
                   /\ counted' + Cardinality(A') <= Overlap
  BY DEF CoolInv, A, Overlap
<1>6. ASSUME NEW d \in Device, SendCheck(r, d) PROVE CoolInv'
  BY <1>2, <1>3, <1>4, <1>5, <1>6 DEF SendCheck, OnCooldown, cooldown
<1>7. CASE SendCount(r)
  <2>1. pc[r] = "allowed" /\ pc'[r] # "allowed"
    BY <1>7 DEF SendCount, Go, TypeOK
  <2>2. phoneCd' /\ counted' = counted + 1
    BY <1>7 DEF SendCount
  <2> QED BY <1>2, <1>3, <1>4, <1>5, <2>1, <2>2
<1>8. ASSUME UNCHANGED cooldown, pc'[r] # "allowed" PROVE CoolInv'
  BY <1>2, <1>3, <1>4, <1>5, <1>8 DEF cooldown
<1>9. CASE SetOtp(r) \/ ResetAttempts(r)
  BY <1>8, <1>9 DEF SetOtp, ResetAttempts, Go, End, TypeOK
<1>10. CASE VerifyOtp(r)
  BY <1>8, <1>10
  DEF VerifyOtp, VerifyCheck, VerifyAdmit, VerifyRefuse, GuessWrong,
      GuessRight, Tally, TallyHasTTL, TallyNoTTL, TallyExpire, DeleteOtp,
      ResetAfterSuccess, Sign, SetToken, SetTokenConflict, Go, End, Begin,
      TypeOK
<1>11. CASE UseToken(r) \/ Fail(r)
  BY <1>8, <1>11
  DEF UseToken, Consume, Accept, AcceptExpired, RestoreToken, Fail, Go, End,
      Begin, TypeOK
<1> QED BY <1>6, <1>7, <1>9, <1>10, <1>11 DEF RequestOtp

LEMMA CoolRest ==
  ASSUME TypeOK, CoolInv, Environment \/ UNCHANGED vars
  PROVE  CoolInv'
<1>1. In({"allowed"})' = In({"allowed"})
  BY DEF In, Environment, CodeExpires, AttemptsExpire, PhoneCooldownExpires,
         DeviceCooldownExpires, TokenExpires, Tick, vars, calls
<1>2. In({"allowed"}) \in SUBSET Request
  BY DEF In
<1>3. /\ Cardinality(In({"allowed"})) \in Nat
      /\ Cardinality(In({"allowed"})) <= Overlap
  BY <1>2, Counts
<1>4. UNCHANGED cooldown \/ counted' = 0 \/ UNCHANGED <<phoneCd, counted>>
  BY DEF Environment, CodeExpires, AttemptsExpire, PhoneCooldownExpires,
         DeviceCooldownExpires, TokenExpires, Tick, vars, cooldown
<1>5. Overlap \in Nat
  BY Counts
<1> QED BY <1>1, <1>3, <1>4, <1>5 DEF CoolInv, cooldown, Overlap

----------------------------------------------------------------------------
\* Wrong guesses

LEMMA GuessCalls ==
  ASSUME Typed, GuessInv, NEW r \in Request,
         RequestOtp(r) \/ VerifyOtp(r) \/ UseToken(r) \/ Fail(r)
  PROVE  GuessInv'
<1> DEFINE W == Cardinality(In({"wrong"}))
           A == Cardinality(In({"admitted"}))
<1>1. OneMoves(r)
  BY CallMoves DEF Typed
<1>2. /\ W \in Nat /\ W' \in Nat
      /\ (pc[r] = "wrong" <=> pc'[r] = "wrong") => W' = W
      /\ pc[r] = "wrong" /\ pc'[r] # "wrong" => W' = W - 1
      /\ pc[r] # "wrong" /\ pc'[r] = "wrong" => W' = W + 1
  BY <1>1, InChange
<1>3. /\ A \in Nat /\ A' \in Nat /\ A' <= Overlap
      /\ (pc[r] = "admitted" <=> pc'[r] = "admitted") => A' = A
      /\ pc[r] = "admitted" /\ pc'[r] # "admitted" => A' = A - 1
      /\ pc[r] # "admitted" /\ pc'[r] = "admitted" => A' = A + 1
  BY <1>1, InChange
<1>4. /\ Overlap \in Nat /\ MaxAttempts \in Nat \ {0}
      /\ attempts \in Nat /\ guesses \in Nat /\ lost \in Nat
  BY Counts, Bounds
<1>5. (W + A)' <= Overlap
  <2>1. /\ In({"wrong"})' \in SUBSET Request
        /\ In({"admitted"})' \in SUBSET Request
        /\ In({"wrong"})' \cap In({"admitted"})' = {}
    BY DEF In
  <2> QED BY <2>1, CountsTwo DEF Overlap
<1> HIDE DEF W, A
<1>6. /\ GuessInv <=> /\ guesses <= attempts + W + lost
                      /\ guesses + A <= MaxAttempts - 1 + Overlap + lost
      /\ GuessInv' <=> /\ guesses' <= attempts' + W' + lost'
                       /\ guesses' + A' <= MaxAttempts - 1 + Overlap + lost'
  BY DEF GuessInv, W, A, Overlap
<1>7. pc \in [Request -> Stage]
  BY DEF Typed, TypeOK
<1>8. ASSUME UNCHANGED <<attempts, guesses, lost>>,
             pc[r] # "wrong", pc'[r] # "wrong", pc'[r] # "admitted"
      PROVE  GuessInv'
  BY <1>2, <1>3, <1>4, <1>6, <1>8
<1>9. ASSUME ForgetAttempts PROVE GuessInv'
  <2>1. guesses' = 0 /\ attempts' = 0 /\ lost' = lost
    BY <1>9 DEF ForgetAttempts
  <2> QED BY <1>2, <1>3, <1>4, <1>6, <2>1
<1>10. CASE VerifyAdmit(r)
  <2>1. pc[r] = "checked" /\ pc'[r] = "admitted"
    BY <1>10, <1>7 DEF VerifyAdmit, Go
  <2>2. attempts < MaxAttempts /\ UNCHANGED <<attempts, guesses, lost>>
    BY <1>10 DEF VerifyAdmit, verify
  <2> QED BY <1>2, <1>3, <1>4, <1>5, <1>6, <2>1, <2>2
<1>11. CASE GuessWrong(r)
  <2>1. pc[r] = "admitted" /\ pc'[r] = "wrong"
    BY <1>11, <1>7 DEF GuessWrong, Go
  <2>2. guesses' = guesses + 1 /\ UNCHANGED <<attempts, lost>>
    BY <1>11 DEF GuessWrong
  <2> QED BY <1>2, <1>3, <1>4, <1>6, <2>1, <2>2
<1>12. CASE Tally(r)
  <2>1. pc[r] = "wrong" /\ pc'[r] = "tallied"
    BY <1>12, <1>7 DEF Tally, Go
  <2>2. attempts' = attempts + 1 /\ UNCHANGED <<guesses, lost>>
    BY <1>12 DEF Tally
  <2> QED BY <1>2, <1>3, <1>4, <1>6, <2>1, <2>2
<1>13. CASE Fail(r)
  <2>1. pc'[r] = "idle" /\ UNCHANGED <<attempts, guesses>>
    BY <1>13, <1>7 DEF Fail, End
  <2>2. lost' = IF pc[r] = "wrong" THEN lost + 1 ELSE lost
    BY <1>13 DEF Fail
  <2> QED BY <1>2, <1>3, <1>4, <1>6, <2>1, <2>2
<1>14. CASE RequestOtp(r)
  <2>1. CASE ResetAttempts(r)
    BY <1>9, <2>1 DEF ResetAttempts
  <2>2. CASE SetOtp(r) \/ SendCount(r)
    BY <1>7, <1>8, <2>2 DEF SetOtp, SendCount, Go, verify
  <2>3. ASSUME NEW d \in Device, SendCheck(r, d) PROVE GuessInv'
    BY <1>7, <1>8, <2>3 DEF SendCheck, Begin, verify
  <2> QED BY <1>14, <2>1, <2>2, <2>3 DEF RequestOtp
<1>15. CASE VerifyOtp(r)
  <2>1. CASE ResetAfterSuccess(r)
    BY <1>9, <2>1 DEF ResetAfterSuccess
  <2>2. ASSUME NEW g \in 0..issued, VerifyCheck(r, g) PROVE GuessInv'
    BY <1>7, <1>8, <2>2 DEF VerifyCheck, Begin, verify
  <2>3. CASE \/ VerifyRefuse(r) \/ TallyHasTTL(r) \/ TallyExpire(r)
             \/ SetToken(r) \/ SetTokenConflict(r)
    BY <1>7, <1>8, <2>3
    DEF VerifyRefuse, TallyHasTTL, TallyExpire, SetToken, SetTokenConflict,
        End, verify
  <2>4. CASE GuessRight(r) \/ TallyNoTTL(r) \/ DeleteOtp(r) \/ Sign(r)
    BY <1>7, <1>8, <2>4
    DEF GuessRight, TallyNoTTL, DeleteOtp, Sign, Go, verify
  <2> QED
    BY <1>10, <1>11, <1>12, <1>15, <2>1, <2>2, <2>3, <2>4 DEF VerifyOtp
<1>16. CASE UseToken(r)
  BY <1>7, <1>8, <1>16
  DEF UseToken, Consume, Accept, AcceptExpired, RestoreToken, Go, End, Begin,
      verify
<1> QED BY <1>13, <1>14, <1>15, <1>16

LEMMA GuessRest ==
  ASSUME Typed, GuessInv, Environment \/ UNCHANGED vars
  PROVE  GuessInv'
<1>1. pc' = pc
  BY DEF Environment, CodeExpires, AttemptsExpire, PhoneCooldownExpires,
         DeviceCooldownExpires, TokenExpires, Tick, vars, calls
<1>2. In({"wrong"})' = In({"wrong"}) /\ In({"admitted"})' = In({"admitted"})
  BY <1>1 DEF In
<1>3. In({"wrong"}) \in SUBSET Request /\ In({"admitted"}) \in SUBSET Request
  BY DEF In
<1>4. /\ Cardinality(In({"wrong"})) \in Nat
      /\ Cardinality(In({"admitted"})) \in Nat
      /\ Cardinality(In({"admitted"})) <= Overlap
      /\ Overlap \in Nat
  BY <1>3, Counts
<1>5. \/ UNCHANGED <<attempts, guesses, lost>>
      \/ attempts' = 0 /\ guesses' = 0 /\ lost' = lost
  BY DEF Environment, CodeExpires, AttemptsExpire, PhoneCooldownExpires,
         DeviceCooldownExpires, TokenExpires, Tick, vars, verify,
         ForgetAttempts
<1> QED BY <1>2, <1>4, <1>5, Bounds DEF GuessInv, Overlap

----------------------------------------------------------------------------
\* Codes

\* A call that gives up what it holds, or keeps it, keeps the invariant while
\* the codes stay.
LEMMA YieldKept ==
  ASSUME YieldInv, TypeOK, NEW r \in Request, OneMoves(r),
         UNCHANGED <<code, issued, yields>>,
         \A c \in Code : r \in Holders(c)' => r \in Holders(c),
         pc'[r] \in {"deleted", "cleared", "signed"} =>
           job'[r].guess # code
  PROVE  YieldInv'
<1>1. ASSUME NEW c \in Code
      PROVE  (yields[c] + Cardinality(Holders(c)) <= Overlap)'
  <2>1. /\ Cardinality(Holders(c)) \in Nat /\ Cardinality(Holders(c)') \in Nat
        /\ Cardinality(Holders(c)') <= Cardinality(Holders(c))
    BY HoldersChange
  <2>2. yields[c] \in Nat /\ Overlap \in Nat
    BY Counts DEF TypeOK
  <2> QED BY <2>1, <2>2 DEF YieldInv, Overlap
<1>2. ASSUME NEW c \in Code PROVE (c = code \/ c > issued => yields[c] = 0)'
  BY DEF YieldInv
<1>3. ASSUME NEW q \in Request
      PROVE  (pc[q] \in {"deleted", "cleared", "signed"} => job[q].guess # code)'
  BY DEF YieldInv, OneMoves
<1> QED BY <1>1, <1>2, <1>3 DEF YieldInv, Code

LEMMA YieldCalls ==
  ASSUME Typed, YieldInv, NEW r \in Request,
         RequestOtp(r) \/ VerifyOtp(r) \/ UseToken(r) \/ Fail(r)
  PROVE  YieldInv'
<1>1. OneMoves(r)
  BY CallMoves DEF Typed
<1>2. TypeOK /\ JobOK(r)
  BY DEF Typed, JobInv
<1>3. pc \in [Request -> Stage] /\ job \in [Request -> Job \cup {NoJob}]
  BY <1>2 DEF TypeOK
<1>4. ASSUME UNCHANGED <<code, issued, yields>>, pc'[r] \notin Exchanging
      PROVE  YieldInv'
  <2>1. \A c \in Code : r \notin Holders(c)'
    BY <1>4 DEF Holders
  <2> QED BY <1>1, <1>2, <1>4, <2>1, YieldKept DEF Exchanging
<1>5. CASE SetOtp(r)
  <2>1. code' = issued + 1 /\ issued' = issued + 1 /\ yields' = yields
    BY <1>5 DEF SetOtp, tokens
  <2>2. pc'[r] = "stored" /\ pc[r] = "counted"
    BY <1>5, <1>3 DEF SetOtp, Go
  <2>3. ASSUME NEW c \in Code
        PROVE  (yields[c] + Cardinality(Holders(c)) <= Overlap)'
    <3>1. r \notin Holders(c) /\ r \notin Holders(c)'
      BY <2>2 DEF Holders, Exchanging
    <3>2. Cardinality(Holders(c)') = Cardinality(Holders(c))
      BY <1>1, <3>1, HoldersChange
    <3> QED BY <2>1, <3>2 DEF YieldInv, Overlap
  <2>4. ASSUME NEW c \in Code PROVE (c = code \/ c > issued => yields[c] = 0)'
    BY <2>1, Bounds DEF YieldInv, Code
  <2>5. ASSUME NEW q \in Request,
               pc'[q] \in {"deleted", "cleared", "signed"}
        PROVE  job'[q].guess # code'
    <3>1. q # r /\ pc'[q] = pc[q] /\ job'[q] = job[q]
      BY <1>1, <2>2, <2>5 DEF OneMoves
    <3>2. job[q].guess \in 1..issued
      BY <2>5, <3>1 DEF Typed, JobInv, JobOK
    <3> QED BY <2>1, <3>1, <3>2, Bounds
  <2> QED BY <2>3, <2>4, <2>5 DEF YieldInv, Code
<1>6. CASE RequestOtp(r)
  <2>1. CASE SendCount(r) \/ ResetAttempts(r)
    BY <1>3, <1>4, <2>1
    DEF SendCount, ResetAttempts, Go, End, otp, tokens, Exchanging
  <2>2. ASSUME NEW d \in Device, SendCheck(r, d) PROVE YieldInv'
    BY <1>3, <1>4, <2>2 DEF SendCheck, Begin, otp, tokens, Exchanging
  <2> QED BY <1>5, <1>6, <2>1, <2>2 DEF RequestOtp
<1>7. CASE GuessRight(r)
  <2>1. /\ pc[r] = "admitted" /\ pc'[r] = "matched" /\ job'[r] = job[r]
        /\ UNCHANGED <<code, issued, yields>>
    BY <1>7, <1>3 DEF GuessRight, Go, otp, tokens
  <2>2. job[r].guess = code
    BY <1>7 DEF GuessRight, Matches
  <2>3. ASSUME NEW c \in Code
        PROVE  (yields[c] + Cardinality(Holders(c)) <= Overlap)'
    <3>1. CASE c = code
      <4>1. yields'[c] = 0
        BY <2>1, <3>1 DEF YieldInv
      <4>2. Cardinality(Holders(c)') \in Nat
            /\ Cardinality(Holders(c)') <= Overlap
        BY <1>1, HoldersChange
      <4> QED BY <4>1, <4>2, Counts DEF Overlap
    <3>2. CASE c # code
      <4>1. r \notin Holders(c) /\ r \notin Holders(c)'
        BY <2>1, <2>2, <3>2 DEF Holders, Exchanging
      <4>2. Cardinality(Holders(c)') = Cardinality(Holders(c))
        BY <1>1, <4>1, HoldersChange
      <4> QED BY <2>1, <4>2 DEF YieldInv, Overlap
    <3> QED BY <3>1, <3>2
  <2>4. ASSUME NEW c \in Code PROVE (c = code \/ c > issued => yields[c] = 0)'
    BY <2>1 DEF YieldInv
  <2>5. ASSUME NEW q \in Request
        PROVE  (pc[q] \in {"deleted", "cleared", "signed"} =>
                  job[q].guess # code)'
    BY <1>1, <2>1 DEF YieldInv, OneMoves
  <2> QED BY <2>3, <2>4, <2>5 DEF YieldInv, Code
<1>8. CASE DeleteOtp(r)
  <2>1. /\ pc[r] = "matched" /\ pc'[r] = "deleted" /\ job' = job
        /\ code' = 0 /\ UNCHANGED <<issued, yields>>
    BY <1>8, <1>3 DEF DeleteOtp, Go, tokens
  <2>2. ASSUME NEW c \in Code
        PROVE  (yields[c] + Cardinality(Holders(c)) <= Overlap)'
    <3>1. r \in Holders(c) <=> r \in Holders(c)'
      BY <2>1 DEF Holders, Exchanging
    <3>2. Cardinality(Holders(c)') = Cardinality(Holders(c))
      BY <1>1, <3>1, HoldersChange
    <3> QED BY <2>1, <3>2 DEF YieldInv, Overlap
  <2>3. ASSUME NEW c \in Code PROVE (c = code \/ c > issued => yields[c] = 0)'
    BY <2>1, Bounds DEF YieldInv, Code
  <2>4. ASSUME NEW q \in Request,
               pc'[q] \in {"deleted", "cleared", "signed"}
        PROVE  job'[q].guess # code'
    <3>1. pc[q] \in {"matched", "deleted", "cleared", "signed"}
      BY <1>1, <2>1, <2>4 DEF OneMoves
    <3>2. job[q].guess \in 1..issued
      BY <3>1 DEF Typed, JobInv, JobOK
    <3> QED BY <2>1, <3>2, Bounds
  <2> QED BY <2>2, <2>3, <2>4 DEF YieldInv, Code
<1>9. CASE ResetAfterSuccess(r) \/ Sign(r)
  <2>1. /\ pc[r] \in {"deleted", "cleared"}
        /\ pc'[r] \in {"cleared", "signed"}
        /\ job'[r].guess = job[r].guess
        /\ UNCHANGED <<code, issued, yields>>
    BY <1>9, <1>3 DEF ResetAfterSuccess, Sign, Go, otp, tokens
  <2>2. \A c \in Code : r \in Holders(c)' => r \in Holders(c)
    BY <2>1 DEF Holders, Exchanging
  <2>3. job'[r].guess # code
    BY <2>1 DEF YieldInv
  <2> QED BY <1>1, <1>2, <2>1, <2>2, <2>3, YieldKept
<1>10. CASE SetToken(r)
  <2> DEFINE g == job[r].guess
  <2>1. pc[r] = "signed" /\ pc'[r] = "idle" /\ UNCHANGED <<code, issued>>
    BY <1>10, <1>3 DEF SetToken, End, otp
  <2>2. yields' = [yields EXCEPT ![g] = @ + 1]
    BY <1>10 DEF SetToken
  <2>3. g \in 1..issued /\ g # code
    BY <1>2, <2>1 DEF JobOK, YieldInv
  <2> HIDE DEF g
  <2>4. ASSUME NEW c \in Code
        PROVE  (yields[c] + Cardinality(Holders(c)) <= Overlap)'
    <3>1. yields[c] \in Nat /\ Overlap \in Nat
      BY <1>2, Counts DEF TypeOK
    <3>2. /\ Cardinality(Holders(c)) \in Nat
          /\ Cardinality(Holders(c)') \in Nat
          /\ r \notin Holders(c)'
          /\ yields[c] + Cardinality(Holders(c)) <= Overlap
      BY <1>1, <2>1, HoldersChange DEF Holders, Exchanging, YieldInv
    <3>3. CASE c = g
      <4>1. r \in Holders(c)
        BY <2>1, <3>3 DEF Holders, Exchanging, g
      <4>2. Cardinality(Holders(c)') = Cardinality(Holders(c)) - 1
        BY <1>1, <3>2, <4>1, HoldersChange
      <4>3. yields'[c] = yields[c] + 1
        BY <1>2, <2>2, <3>3 DEF TypeOK
      <4> QED BY <3>1, <3>2, <4>2, <4>3 DEF Overlap
    <3>4. CASE c # g
      <4>1. r \notin Holders(c)
        BY <3>4 DEF Holders, g
      <4>2. Cardinality(Holders(c)') = Cardinality(Holders(c))
        BY <1>1, <3>2, <4>1, HoldersChange
      <4>3. yields'[c] = yields[c]
        BY <1>2, <2>2, <3>4 DEF TypeOK
      <4> QED BY <3>2, <4>2, <4>3 DEF Overlap
    <3> QED BY <3>3, <3>4
  <2>5. ASSUME NEW c \in Code PROVE (c = code \/ c > issued => yields[c] = 0)'
    <3>1. c = code \/ c > issued => c # g /\ yields[c] = 0
      BY <2>3, Bounds DEF YieldInv, Code
    <3>2. c # g => yields'[c] = yields[c]
      BY <1>2, <2>2 DEF TypeOK
    <3> QED BY <2>1, <3>1, <3>2
  <2>6. ASSUME NEW q \in Request
        PROVE  (pc[q] \in {"deleted", "cleared", "signed"} =>
                  job[q].guess # code)'
    BY <1>1, <2>1 DEF YieldInv, OneMoves
  <2> QED BY <2>4, <2>5, <2>6 DEF YieldInv, Code
<1>11. CASE VerifyOtp(r)
  <2>1. ASSUME NEW g \in 0..issued, VerifyCheck(r, g) PROVE YieldInv'
    BY <1>3, <1>4, <2>1 DEF VerifyCheck, Begin, otp, tokens, Exchanging
  <2>2. CASE \/ VerifyAdmit(r) \/ GuessWrong(r) \/ Tally(r) \/ TallyNoTTL(r)
    BY <1>3, <1>4, <2>2
    DEF VerifyAdmit, GuessWrong, Tally, TallyNoTTL, Go, otp, tokens, Exchanging
  <2>3. CASE \/ VerifyRefuse(r) \/ TallyHasTTL(r) \/ TallyExpire(r)
             \/ SetTokenConflict(r)
    BY <1>3, <1>4, <2>3
    DEF VerifyRefuse, TallyHasTTL, TallyExpire, SetTokenConflict, End, otp,
        tokens, Exchanging
  <2> QED
    BY <1>7, <1>8, <1>9, <1>10, <1>11, <2>1, <2>2, <2>3 DEF VerifyOtp
<1>12. CASE UseToken(r) \/ Fail(r)
  BY <1>3, <1>4, <1>12
  DEF UseToken, Consume, Accept, AcceptExpired, RestoreToken, Fail, Go, End,
      Begin, otp, tokens, Exchanging
<1> QED BY <1>6, <1>11, <1>12

LEMMA YieldRest ==
  ASSUME Typed, YieldInv, Environment \/ UNCHANGED vars
  PROVE  YieldInv'
<1>1. UNCHANGED <<pc, job, issued, yields>> /\ (code' = code \/ code' = 0)
  BY DEF Environment, CodeExpires, AttemptsExpire, PhoneCooldownExpires,
         DeviceCooldownExpires, TokenExpires, Tick, vars, calls, otp, tokens
<1>2. \A c : Holders(c)' = Holders(c)
  BY <1>1 DEF Holders
<1>3. ASSUME NEW c \in Code
      PROVE  /\ (c = code \/ c > issued => yields[c] = 0)'
             /\ (yields[c] + Cardinality(Holders(c)) <= Overlap)'
  BY <1>1, <1>2, Bounds DEF YieldInv, Code, Overlap
<1>4. ASSUME NEW q \in Request, pc'[q] \in {"deleted", "cleared", "signed"}
      PROVE  job'[q].guess # code'
  <2>1. pc[q] \in {"deleted", "cleared", "signed"} /\ job'[q] = job[q]
    BY <1>1, <1>4
  <2>2. job[q].guess \in 1..issued /\ job[q].guess # code
    BY <2>1 DEF Typed, JobInv, JobOK, YieldInv
  <2> QED BY <1>1, <2>1, <2>2, Bounds
<1> QED BY <1>3, <1>4 DEF YieldInv, Code

----------------------------------------------------------------------------
\* Tokens

Stored(t) == IF t \in live THEN 1 ELSE 0

\* A call that neither takes nor gives back a token keeps the invariant while
\* no token is granted or used.
LEMMA UseKept ==
  ASSUME UseInv, TypeOK, NEW r \in Request, OneMoves(r),
         UNCHANGED <<uses, grants>>, live' \subseteq live,
         \A t \in Token : r \in Takers(t)' => r \in Takers(t)
  PROVE  UseInv'
<1>1. ASSUME NEW t \in Token
      PROVE  (uses[t] + Stored(t) + Cardinality(Takers(t)) <= grants[t])'
  <2>1. /\ Cardinality(Takers(t)) \in Nat /\ Cardinality(Takers(t)') \in Nat
        /\ Cardinality(Takers(t)') <= Cardinality(Takers(t))
    BY TakersChange
  <2>2. uses[t] \in Nat /\ grants[t] \in Nat
    BY DEF TypeOK
  <2>3. Stored(t) \in 0..1 /\ Stored(t)' \in 0..1 /\ Stored(t)' <= Stored(t)
    BY DEF Stored
  <2>4. uses[t] + Stored(t) + Cardinality(Takers(t)) <= grants[t]
    BY DEF UseInv, Stored
  <2> QED BY <2>1, <2>2, <2>3, <2>4
<1> QED BY <1>1 DEF UseInv, Stored, Token

LEMMA UseCalls ==
  ASSUME Typed, UseInv, NEW r \in Request,
         RequestOtp(r) \/ VerifyOtp(r) \/ UseToken(r) \/ Fail(r)
  PROVE  UseInv'
<1>1. OneMoves(r)
  BY CallMoves DEF Typed
<1>2. TypeOK /\ JobOK(r)
  BY DEF Typed, JobInv
<1>3. pc \in [Request -> Stage] /\ job \in [Request -> Job \cup {NoJob}]
  BY <1>2 DEF TypeOK
<1>4. ASSUME UNCHANGED <<live, uses, grants>>,
             pc'[r] \notin {"consumed", "restoring"}
      PROVE  UseInv'
  <2>1. \A t \in Token : r \notin Takers(t)'
    BY <1>4 DEF Takers
  <2> QED BY <1>1, <1>2, <1>4, <2>1, UseKept
<1>5. ASSUME NEW t \in Token
      PROVE  /\ uses[t] \in Nat /\ grants[t] \in Nat /\ Stored(t) \in 0..1
             /\ Cardinality(Takers(t)) \in Nat
             /\ Cardinality(Takers(t)') \in Nat
             /\ uses[t] + Stored(t) + Cardinality(Takers(t)) <= grants[t]
  BY <1>1, <1>2, TakersChange DEF UseInv, Stored, TypeOK
<1>6. CASE RequestOtp(r)
  <2>1. CASE SendCount(r) \/ SetOtp(r) \/ ResetAttempts(r)
    BY <1>3, <1>4, <2>1 DEF SendCount, SetOtp, ResetAttempts, Go, End, tokens
  <2>2. ASSUME NEW d \in Device, SendCheck(r, d) PROVE UseInv'
    BY <1>3, <1>4, <2>2 DEF SendCheck, Begin, tokens
  <2> QED BY <1>6, <2>1, <2>2 DEF RequestOtp
<1>7. CASE SetToken(r)
  <2> DEFINE k == job[r].token
  <2>1. pc[r] = "signed" /\ pc'[r] = "idle"
    BY <1>7, <1>3 DEF SetToken, End
  <2>2. k \in Token
    BY <1>2, <2>1 DEF JobOK
  <2>3. /\ k \notin live /\ live' = live \cup {k} /\ uses' = uses
        /\ grants' = [grants EXCEPT ![k] = @ + 1]
    BY <1>7 DEF SetToken
  <2> HIDE DEF k
  <2>4. ASSUME NEW t \in Token
        PROVE  (uses[t] + Stored(t) + Cardinality(Takers(t)) <= grants[t])'
    <3>1. r \notin Takers(t) /\ r \notin Takers(t)'
      BY <2>1 DEF Takers
    <3>2. Cardinality(Takers(t)') = Cardinality(Takers(t))
      BY <1>1, <3>1, TakersChange
    <3>3. CASE t = k
      <4>1. Stored(t) = 0 /\ Stored(t)' = 1 /\ grants'[t] = grants[t] + 1
        BY <1>2, <2>3, <3>3 DEF Stored, TypeOK
      <4> QED BY <1>5, <2>3, <3>2, <4>1
    <3>4. CASE t # k
      <4>1. Stored(t)' = Stored(t) /\ grants'[t] = grants[t]
        BY <1>2, <2>3, <3>4 DEF Stored, TypeOK
      <4> QED BY <1>5, <2>3, <3>2, <4>1
    <3> QED BY <3>3, <3>4
  <2> QED BY <2>4 DEF UseInv, Stored, Token
<1>8. CASE VerifyOtp(r)
  <2>1. ASSUME NEW g \in 0..issued, VerifyCheck(r, g) PROVE UseInv'
    BY <1>3, <1>4, <2>1 DEF VerifyCheck, Begin, tokens
  <2>2. CASE \/ VerifyAdmit(r) \/ GuessWrong(r) \/ GuessRight(r) \/ Tally(r)
             \/ TallyNoTTL(r) \/ DeleteOtp(r) \/ ResetAfterSuccess(r)
             \/ Sign(r)
    BY <1>3, <1>4, <2>2
    DEF VerifyAdmit, GuessWrong, GuessRight, Tally, TallyNoTTL, DeleteOtp,
        ResetAfterSuccess, Sign, Go, tokens
  <2>3. CASE \/ VerifyRefuse(r) \/ TallyHasTTL(r) \/ TallyExpire(r)
             \/ SetTokenConflict(r)
    BY <1>3, <1>4, <2>3
    DEF VerifyRefuse, TallyHasTTL, TallyExpire, SetTokenConflict, End, tokens
  <2> QED BY <1>7, <1>8, <2>1, <2>2, <2>3 DEF VerifyOtp
<1>9. ASSUME NEW k \in Token, Consume(r, k) PROVE UseInv'
  <2>1. /\ pc[r] = "idle" /\ pc'[r] = "consumed" /\ job'[r].token = k
        /\ k \in live /\ live' = live \ {k} /\ UNCHANGED <<uses, grants>>
    BY <1>9, <1>3 DEF Consume, Begin
  <2>2. ASSUME NEW t \in Token
        PROVE  (uses[t] + Stored(t) + Cardinality(Takers(t)) <= grants[t])'
    <3>1. r \notin Takers(t) /\ (r \in Takers(t)' <=> t = k)
      BY <2>1 DEF Takers
    <3>2. CASE t = k
      <4>1. Stored(t) = 1 /\ Stored(t)' = 0
        BY <2>1, <3>2 DEF Stored
      <4>2. Cardinality(Takers(t)') = Cardinality(Takers(t)) + 1
        BY <1>1, <3>1, <3>2, TakersChange
      <4> QED BY <1>5, <2>1, <4>1, <4>2
    <3>3. CASE t # k
      <4>1. Stored(t)' = Stored(t)
        BY <2>1, <3>3 DEF Stored
      <4>2. Cardinality(Takers(t)') = Cardinality(Takers(t))
        BY <1>1, <3>1, <3>3, TakersChange
      <4> QED BY <1>5, <2>1, <4>1, <4>2
    <3> QED BY <3>2, <3>3
  <2> QED BY <2>2 DEF UseInv, Stored, Token
<1>10. CASE Accept(r)
  <2> DEFINE k == job[r].token
  <2>1. pc[r] = "consumed" /\ pc'[r] = "idle"
    BY <1>10, <1>3 DEF Accept, End
  <2>2. /\ live' = live /\ grants' = grants
        /\ uses' = [uses EXCEPT ![k] = @ + 1]
    BY <1>10 DEF Accept
  <2>3. ASSUME NEW t \in Token
        PROVE  (uses[t] + Stored(t) + Cardinality(Takers(t)) <= grants[t])'
    <3>1. r \notin Takers(t)' /\ (r \in Takers(t) <=> t = k)
      BY <2>1 DEF Takers
    <3>2. Stored(t)' = Stored(t)
      BY <2>2 DEF Stored
    <3>3. CASE t = k
      <4>1. Cardinality(Takers(t)') = Cardinality(Takers(t)) - 1
        BY <1>1, <3>1, <3>3, TakersChange
      <4>2. uses'[t] = uses[t] + 1
        BY <1>2, <2>2, <3>3 DEF TypeOK
      <4> QED BY <1>5, <2>2, <3>2, <4>1, <4>2
    <3>4. CASE t # k
      <4>1. Cardinality(Takers(t)') = Cardinality(Takers(t))
        BY <1>1, <3>1, <3>4, TakersChange
      <4>2. uses'[t] = uses[t]
        BY <1>2, <2>2, <3>4 DEF TypeOK
      <4> QED BY <1>5, <2>2, <3>2, <4>1, <4>2
    <3> QED BY <3>3, <3>4
  <2> QED BY <2>3 DEF UseInv, Stored, Token
<1>11. CASE AcceptExpired(r)
  <2>1. /\ pc[r] = "consumed" /\ pc'[r] = "restoring" /\ job'[r] = job[r]
        /\ UNCHANGED <<live, uses, grants>>
    BY <1>11, <1>3 DEF AcceptExpired, Go, tokens
  <2>2. \A t \in Token : r \in Takers(t)' => r \in Takers(t)
    BY <2>1 DEF Takers
  <2> QED BY <1>1, <1>2, <2>1, <2>2, UseKept
<1>12. CASE RestoreToken(r)
  <2> DEFINE k == job[r].token
  <2>1. pc[r] = "restoring" /\ pc'[r] = "idle"
    BY <1>12, <1>3 DEF RestoreToken, End
  <2>2. live' = live \cup {k} /\ UNCHANGED <<uses, grants>>
    BY <1>12 DEF RestoreToken
  <2>3. ASSUME NEW t \in Token
        PROVE  (uses[t] + Stored(t) + Cardinality(Takers(t)) <= grants[t])'
    <3>1. r \notin Takers(t)' /\ (r \in Takers(t) <=> t = k)
      BY <2>1 DEF Takers
    <3>2. CASE t = k
      <4>1. Cardinality(Takers(t)') = Cardinality(Takers(t)) - 1
        BY <1>1, <3>1, <3>2, TakersChange
      <4>2. Stored(t)' = 1
        BY <2>2, <3>2 DEF Stored
      <4> QED BY <1>5, <2>2, <4>1, <4>2
    <3>3. CASE t # k
      <4>1. Cardinality(Takers(t)') = Cardinality(Takers(t))
        BY <1>1, <3>1, <3>3, TakersChange
      <4>2. Stored(t)' = Stored(t)
        BY <2>2, <3>3 DEF Stored
      <4> QED BY <1>5, <2>2, <4>1, <4>2
    <3> QED BY <3>2, <3>3
  <2> QED BY <2>3 DEF UseInv, Stored, Token
<1>13. CASE UseToken(r)
  BY <1>9, <1>10, <1>11, <1>12, <1>13 DEF UseToken
<1>14. CASE Fail(r)
  BY <1>3, <1>4, <1>14 DEF Fail, End, tokens
<1> QED BY <1>6, <1>8, <1>13, <1>14

LEMMA UseRest ==
  ASSUME Typed, UseInv, Environment \/ UNCHANGED vars
  PROVE  UseInv'
<1>1. UNCHANGED <<pc, job, uses, grants>> /\ live' \subseteq live
  BY DEF Environment, CodeExpires, AttemptsExpire, PhoneCooldownExpires,
         DeviceCooldownExpires, TokenExpires, Tick, vars, calls, tokens
<1>2. ASSUME NEW t \in Token
      PROVE  (uses[t] + Stored(t) + Cardinality(Takers(t)) <= grants[t])'
  <2>1. Takers(t)' = Takers(t) /\ Takers(t) \in SUBSET Request
    BY <1>1 DEF Takers
  <2>2. Cardinality(Takers(t)) \in Nat
    BY <2>1, Counts
  <2>3. uses[t] \in Nat /\ grants[t] \in Nat
    BY DEF Typed, TypeOK
  <2>4. Stored(t) \in 0..1 /\ Stored(t)' \in 0..1 /\ Stored(t)' <= Stored(t)
    BY <1>1 DEF Stored
  <2>5. uses[t] + Stored(t) + Cardinality(Takers(t)) <= grants[t]
    BY DEF UseInv, Stored
  <2> QED BY <1>1, <2>1, <2>2, <2>3, <2>4, <2>5
<1> QED BY <1>2 DEF UseInv, Stored, Token

----------------------------------------------------------------------------
\* The theorems

Inv == Typed /\ CoolInv /\ GuessInv /\ YieldInv /\ UseInv

LEMMA InitInv ==
  ASSUME Init
  PROVE  Inv
<1>1. Typed
  BY InitTyped
<1>2. \A X : "idle" \notin X => In(X) = {}
  BY DEF Init, In
<1>3. /\ \A c \in Code : Holders(c) = {}
      /\ \A t \in Token : Takers(t) = {}
  BY DEF Init, Holders, Takers, Exchanging
<1>4. Cardinality({}) = 0
  BY FS_EmptySet
<1>5. Overlap \in Nat /\ MaxAttempts \in Nat \ {0}
  BY Counts, OtpAssumption
<1>6. CoolInv /\ GuessInv
  <2>1. /\ Cardinality(In({"allowed"})) = 0
        /\ Cardinality(In({"wrong"})) = 0
        /\ Cardinality(In({"admitted"})) = 0
    BY <1>2, <1>4
  <2>2. counted = 0 /\ guesses = 0 /\ attempts = 0 /\ lost = 0 /\ phoneCd = FALSE
    BY DEF Init
  <2> QED BY <2>1, <2>2, <1>5 DEF CoolInv, GuessInv
<1>7. YieldInv
  BY <1>3, <1>4, <1>5 DEF Init, YieldInv
<1>8. UseInv
  BY <1>3, <1>4 DEF Init, UseInv
<1> QED BY <1>1, <1>6, <1>7, <1>8 DEF Inv

LEMMA StepInv ==
  ASSUME Inv, [Next]_vars
  PROVE  Inv'
<1>1. Typed'
  BY StepTyped DEF Inv
<1>2. ASSUME NEW r \in Request,
             RequestOtp(r) \/ VerifyOtp(r) \/ UseToken(r) \/ Fail(r)
      PROVE  CoolInv' /\ GuessInv' /\ YieldInv' /\ UseInv'
  BY <1>2, CoolCalls, GuessCalls, YieldCalls, UseCalls DEF Inv, Typed
<1>3. ASSUME Environment \/ UNCHANGED vars
      PROVE  CoolInv' /\ GuessInv' /\ YieldInv' /\ UseInv'
  BY <1>3, CoolRest, GuessRest, YieldRest, UseRest DEF Inv, Typed
<1> QED BY <1>1, <1>2, <1>3 DEF Inv, Next

\* The conjunction of the type invariant and of what overlapping OTP calls
\* leave of each limit of AuthService.ts holds in every reachable state.
THEOREM OtpInvariant == Spec => []Inv
BY InitInv, StepInv, PTL DEF Spec

\* However OTP requests overlap, at most as many as there are calls pass one
\* cooldown between checkSendOtpLimit and incrementSend.
THEOREM CooldownKept == Spec => []CooldownHolds
<1>1. Inv => CooldownHolds
  <2>1. In({"allowed"}) \in SUBSET Request
    BY DEF In
  <2>2. Cardinality(In({"allowed"})) \in Nat /\ Overlap \in Nat
    BY <2>1, Counts
  <2> QED BY <2>2, Bounds DEF Inv, CoolInv, CooldownHolds
<1> QED BY <1>1, OtpInvariant, PTL

\* However verifications overlap and fail, the wrong guesses between two
\* resets exceed MAX_VERIFY_ATTEMPTS by less than the calls under way and the
\* guesses that were lost.
THEOREM GuessesLimited == Spec => []GuessesBounded
<1>1. Inv => GuessesBounded
  <2>1. In({"admitted"}) \in SUBSET Request
    BY DEF In
  <2>2. Cardinality(In({"admitted"})) \in Nat /\ Overlap \in Nat
    BY <2>1, Counts
  <2> QED BY <2>2, Bounds DEF Inv, GuessInv, GuessesBounded
<1> QED BY <1>1, OtpInvariant, PTL

\* One code yields at most one token per call that may overlap: exactly one
\* when verifications come one at a time.
THEOREM CodesYieldFew == Spec => []TokensPerCode
<1>1. Inv => TokensPerCode
  <2> SUFFICES ASSUME Inv, NEW c \in Code PROVE yields[c] <= Overlap
    BY DEF TokensPerCode
  <2>1. Holders(c) \in SUBSET Request
    BY DEF Holders
  <2>2. Cardinality(Holders(c)) \in Nat /\ Overlap \in Nat
    BY <2>1, Counts
  <2>3. yields[c] \in Nat /\ yields[c] + Cardinality(Holders(c)) <= Overlap
    BY DEF Inv, Typed, TypeOK, YieldInv
  <2> QED BY <2>2, <2>3
<1> QED BY <1>1, OtpInvariant, PTL

\* No token is accepted more often than it was granted.
THEOREM TokensNotForged == Spec => []UsesGranted
<1>1. Inv => UsesGranted
  <2> SUFFICES ASSUME Inv, NEW t \in Token PROVE uses[t] <= grants[t]
    BY DEF UsesGranted
  <2>1. Takers(t) \in SUBSET Request
    BY DEF Takers
  <2>2. Cardinality(Takers(t)) \in Nat
    BY <2>1, Counts
  <2>3. /\ uses[t] \in Nat /\ grants[t] \in Nat
        /\ uses[t] + (IF t \in live THEN 1 ELSE 0) + Cardinality(Takers(t))
             <= grants[t]
    BY DEF Inv, Typed, TypeOK, UseInv
  <2> QED BY <2>2, <2>3
<1> QED BY <1>1, OtpInvariant, PTL
=============================================================================
