-------------------------------- MODULE Otp --------------------------------
(***************************************************************************)
(* One-time passwords and the one-time tokens they are exchanged for, for  *)
(* one phone number and one delivery method: requestOTP, verifyOTP and     *)
(* consume*Token of services/AuthService.ts over the Redis keys of         *)
(* OTPCache, RateLimitCache and TokenCache, outside development mode.      *)
(* Whether a token is one to log in or to register with is left out: the   *)
(* two are stored and consumed alike.                                      *)
(*                                                                         *)
(* Each Redis command of a call is a step of its own, but for the pair on  *)
(* phone and device that Promise.all sends together.  A limit is read by   *)
(* one step and enforced by another, so the properties say what is left of *)
(* it when calls overlap.                                                  *)
(*                                                                         *)
(* A code is the number of the request that generated it: two requests     *)
(* that draw the same six digits are not modelled.                         *)
(***************************************************************************)
EXTENDS Naturals, FiniteSets

CONSTANTS
  Request,      \* concurrent calls
  Device,       \* values of header x-device-fingerprint
  MaxAttempts,  \* MAX_VERIFY_ATTEMPTS, 5 in the code
  Lifetime,     \* seconds for which a token's JWT is valid
  MaxCode,      \* bound on the codes generated
  MaxSecond,    \* bound on the seconds that pass
  MaxGuess,     \* bound on the wrong guesses counted between resets
  MaxLost,      \* bound on the wrong guesses that a failure leaves uncounted
  NoJob         \* "the call has not been made"

VARIABLES
  code,      \* key otp: the code stored, 0 when there is none
  issued,    \* number of codes generated
  attempts,  \* key rate:verify, 0 when there is none
  hasTTL,    \* that key will expire
  phoneCd,   \* key rate:send:phone:cd exists
  deviceCd,  \* the devices whose key rate:send:device:cd exists
  live,      \* the tokens whose key exists
  now,       \* the current second
  pc,        \* pc[r]: how far call r got
  job,       \* job[r]: what call r was asked to do
  counted,   \* incrementSend calls since the phone's cooldown lifted (history)
  guesses,   \* wrong guesses since attempts was last deleted (history)
  lost,      \* wrong guesses a failure left uncounted (history)
  yields,    \* yields[c]: tokens stored for code c (history)
  grants,    \* grants[t]: times token t was stored for a code (history)
  uses       \* uses[t]: times token t was accepted (history)

cooldown == <<phoneCd, deviceCd, counted>>
otp == <<code, issued>>
verify == <<attempts, hasTTL, guesses, lost>>
tokens == <<live, yields, grants, uses>>
calls == <<pc, job>>
vars == <<otp, verify, cooldown, tokens, now, calls>>

----------------------------------------------------------------------------
\* State

Code == 1..MaxCode

\* A token is the second it was signed in: generateToken signs the same JWT
\* for a phone number within a second.
Token == 0..MaxSecond

Job == [op : {"send"}, device : Device]
  \cup [op : {"verify"}, guess : 0..MaxCode]
  \cup [op : {"exchange"}, guess : Code, token : Token]
  \cup [op : {"consume"}, token : Token]

Stage == {"idle", "allowed", "counted", "stored",
          "checked", "admitted", "wrong", "tallied", "expiring",
          "matched", "deleted", "cleared", "signed",
          "consumed", "restoring"}

ASSUME OtpAssumption ==
  /\ IsFiniteSet(Request)
  /\ MaxAttempts \in Nat \ {0}
  /\ {Lifetime, MaxCode, MaxSecond, MaxGuess, MaxLost} \subseteq Nat
  /\ NoJob \notin Job

TypeOK ==
  /\ code \in 0..issued
  /\ issued \in 0..MaxCode
  /\ attempts \in Nat
  /\ hasTTL \in BOOLEAN
  /\ phoneCd \in BOOLEAN
  /\ deviceCd \subseteq Device
  /\ live \subseteq Token
  /\ now \in 0..MaxSecond
  /\ pc \in [Request -> Stage]
  /\ job \in [Request -> Job \cup {NoJob}]
  /\ counted \in Nat
  /\ guesses \in 0..MaxGuess
  /\ lost \in 0..MaxLost
  /\ yields \in [Code -> Nat]
  /\ grants \in [Token -> Nat]
  /\ uses \in [Token -> Nat]

Init ==
  /\ code = 0 /\ issued = 0
  /\ attempts = 0 /\ hasTTL = FALSE
  /\ phoneCd = FALSE /\ deviceCd = {}
  /\ live = {}
  /\ now = 0
  /\ pc = [r \in Request |-> "idle"]
  /\ job = [r \in Request |-> NoJob]
  /\ counted = 0 /\ guesses = 0 /\ lost = 0
  /\ yields = [c \in Code |-> 0]
  /\ grants = [t \in Token |-> 0]
  /\ uses = [t \in Token |-> 0]

Begin(r, to, j) ==
  /\ pc[r] = "idle"
  /\ pc' = [pc EXCEPT ![r] = to]
  /\ job' = [job EXCEPT ![r] = j]

Go(r, from, to) ==
  /\ pc[r] = from
  /\ pc' = [pc EXCEPT ![r] = to]
  /\ UNCHANGED job

End(r, from) ==
  /\ pc[r] = from
  /\ pc' = [pc EXCEPT ![r] = "idle"]
  /\ job' = [job EXCEPT ![r] = NoJob]

\* deleteKey of rate:verify
ForgetAttempts ==
  /\ attempts' = 0
  /\ hasTTL' = FALSE
  /\ guesses' = 0
  /\ UNCHANGED lost

----------------------------------------------------------------------------
\* POST /auth/otp/request

\* isSendOnCooldown, isDeviceOnCooldown
OnCooldown(d) == phoneCd \/ d \in deviceCd

\* checkSendOtpLimit; its refusal changes nothing.
SendCheck(r, d) ==
  /\ ~OnCooldown(d)
  /\ issued < MaxCode
  /\ Begin(r, "allowed", [op |-> "send", device |-> d])
  /\ UNCHANGED <<otp, verify, cooldown, tokens, now>>

SendCount_Device(r) ==
  /\ Go(r, "allowed", "counted")
  /\ deviceCd' = deviceCd \cup {job[r].device}
  /\ counted' = counted + 1
  /\ UNCHANGED <<phoneCd, otp, verify, tokens, now>>
SendCount(r) ==
  /\ Go(r, "allowed", "counted")
  /\ phoneCd' = TRUE
  /\ deviceCd' = deviceCd \cup {job[r].device}
  /\ counted' = counted + 1
  /\ UNCHANGED <<otp, verify, tokens, now>>

SetOtp_Unissued(r) ==
  /\ Go(r, "counted", "stored")
  /\ issued < MaxCode
  /\ code' = issued + 1
  /\ UNCHANGED <<issued, verify, cooldown, tokens, now>>
SetOtp(r) ==
  /\ Go(r, "counted", "stored")
  /\ issued < MaxCode
  /\ issued' = issued + 1
  /\ code' = issued + 1
  /\ UNCHANGED <<verify, cooldown, tokens, now>>

\* After the message is sent: a WhatsApp message that is not sent counts as
\* sent, and a failed SMS ends the call, which is Fail.
ResetAttempts(r) ==
  /\ End(r, "stored")
  /\ ForgetAttempts
  /\ UNCHANGED <<otp, cooldown, tokens, now>>

----------------------------------------------------------------------------
\* POST /auth/otp/verify

\* checkVerify
Exhausted == attempts >= MaxAttempts

\* checkVerifyLimit, for a guess that is a code some request generated or,
\* as 0, any other
VerifyCheck(r, g) ==
  /\ ~Exhausted
  /\ Begin(r, "checked", [op |-> "verify", guess |-> g])
  /\ UNCHANGED <<otp, verify, cooldown, tokens, now>>

\* verifyOTP reads the counter again.
VerifyAdmit(r) ==
  /\ Go(r, "checked", "admitted")
  /\ attempts < MaxAttempts
  /\ UNCHANGED <<otp, verify, cooldown, tokens, now>>

VerifyRefuse(r) ==
  /\ End(r, "checked")
  /\ attempts >= MaxAttempts
  /\ UNCHANGED <<otp, verify, cooldown, tokens, now>>

Matches(r) == code # 0 /\ job[r].guess = code

GuessWrong(r) ==
  /\ Go(r, "admitted", "wrong")
  /\ ~Matches(r)
  /\ guesses < MaxGuess
  /\ guesses' = guesses + 1
  /\ UNCHANGED <<otp, attempts, hasTTL, lost, cooldown, tokens, now>>

GuessRight(r) ==
  /\ Go(r, "admitted", "matched")
  /\ Matches(r)
  /\ UNCHANGED <<otp, verify, cooldown, tokens, now>>

\* incrementVerify: INCR, then TTL, then EXPIRE if there was none
Tally_Set(r) ==
  /\ Go(r, "wrong", "tallied")
  /\ attempts' = 1
  /\ UNCHANGED <<otp, hasTTL, guesses, lost, cooldown, tokens, now>>
Tally(r) ==
  /\ Go(r, "wrong", "tallied")
  /\ attempts' = attempts + 1
  /\ UNCHANGED <<otp, hasTTL, guesses, lost, cooldown, tokens, now>>

TallyHasTTL(r) ==
  /\ End(r, "tallied")
  /\ hasTTL
  /\ UNCHANGED <<otp, verify, cooldown, tokens, now>>

TallyNoTTL(r) ==
  /\ Go(r, "tallied", "expiring")
  /\ ~hasTTL
  /\ UNCHANGED <<otp, verify, cooldown, tokens, now>>

TallyExpire(r) ==
  /\ End(r, "expiring")
  /\ hasTTL' = (attempts > 0)
  /\ UNCHANGED <<otp, attempts, guesses, lost, cooldown, tokens, now>>

\* Whatever code is stored by now
DeleteOtp_Late(r) ==
  /\ Go(r, "matched", "deleted")
  /\ UNCHANGED <<otp, verify, cooldown, tokens, now>>
DeleteOtp(r) ==
  /\ Go(r, "matched", "deleted")
  /\ code' = 0
  /\ UNCHANGED <<issued, verify, cooldown, tokens, now>>

ResetAfterSuccess(r) ==
  /\ Go(r, "deleted", "cleared")
  /\ ForgetAttempts
  /\ UNCHANGED <<otp, cooldown, tokens, now>>

\* The user is looked up, which decides the token's type, and the token is
\* signed.
Sign(r) ==
  /\ pc[r] = "cleared"
  /\ pc' = [pc EXCEPT ![r] = "signed"]
  /\ job' = [job EXCEPT ![r] =
       [op |-> "exchange", guess |-> job[r].guess,
        token |-> now]]
  /\ UNCHANGED <<otp, verify, cooldown, tokens, now>>

\* SET NX; if the answer that follows fails, nobody uses the token.
SetToken(r) ==
  /\ End(r, "signed")
  /\ job[r].token \notin live
  /\ live' = live \cup {job[r].token}
  /\ yields' = [yields EXCEPT ![job[r].guess] = @ + 1]
  /\ grants' = [grants EXCEPT ![job[r].token] = @ + 1]
  /\ UNCHANGED <<uses, otp, verify, cooldown, now>>

SetTokenConflict(r) ==
  /\ End(r, "signed")
  /\ job[r].token \in live
  /\ UNCHANGED <<otp, verify, cooldown, tokens, now>>

----------------------------------------------------------------------------
\* POST /auth/login and POST /auth/register-*

Valid(t) == now <= t + Lifetime

\* authenticateLogin or authenticateRegister finds a JWT that is valid, and
\* the script finds its key; a refusal changes nothing.
Consume_Keep(r, t) ==
  /\ Valid(t)
  /\ t \in live
  /\ Begin(r, "consumed", [op |-> "consume", token |-> t])
  /\ UNCHANGED <<otp, verify, cooldown, tokens, now>>
Consume(r, t) ==
  /\ Valid(t)
  /\ t \in live
  /\ Begin(r, "consumed", [op |-> "consume", token |-> t])
  /\ live' = live \ {t}
  /\ UNCHANGED <<yields, grants, uses, otp, verify, cooldown, now>>

\* The token is verified again, and the login or registration goes on.
Accept(r) ==
  /\ End(r, "consumed")
  /\ Valid(job[r].token)
  /\ uses' = [uses EXCEPT ![job[r].token] = @ + 1]
  /\ UNCHANGED <<live, yields, grants, otp, verify, cooldown, now>>

AcceptExpired(r) ==
  /\ Go(r, "consumed", "restoring")
  /\ ~Valid(job[r].token)
  /\ UNCHANGED <<otp, verify, cooldown, tokens, now>>

RestoreToken(r) ==
  /\ End(r, "restoring")
  /\ live' = live \cup {job[r].token}
  /\ UNCHANGED <<yields, grants, uses, otp, verify, cooldown, now>>

----------------------------------------------------------------------------
\* The environment

CodeExpires ==
  /\ code # 0
  /\ code' = 0
  /\ UNCHANGED <<issued, verify, cooldown, tokens, now, calls>>

AttemptsExpire ==
  /\ hasTTL
  /\ ForgetAttempts
  /\ UNCHANGED <<otp, cooldown, tokens, now, calls>>

PhoneCooldownExpires ==
  /\ phoneCd
  /\ phoneCd' = FALSE
  /\ counted' = 0
  /\ UNCHANGED <<deviceCd, otp, verify, tokens, now, calls>>

DeviceCooldownExpires(d) ==
  /\ d \in deviceCd
  /\ deviceCd' = deviceCd \ {d}
  /\ UNCHANGED <<phoneCd, counted, otp, verify, tokens, now, calls>>

TokenExpires(t) ==
  /\ t \in live
  /\ live' = live \ {t}
  /\ UNCHANGED <<yields, grants, uses, otp, verify, cooldown, now, calls>>

Tick ==
  /\ now < MaxSecond
  /\ now' = now + 1
  /\ UNCHANGED <<otp, verify, cooldown, tokens, calls>>

\* A statement fails, or the server dies: the call ends where it is.
Fail(r) ==
  /\ pc[r] # "idle"
  /\ pc[r] = "wrong" => lost < MaxLost
  /\ End(r, pc[r])
  /\ lost' = IF pc[r] = "wrong" THEN lost + 1 ELSE lost
  /\ UNCHANGED <<attempts, hasTTL, guesses, otp, cooldown, tokens, now>>

----------------------------------------------------------------------------
\* The specification

RequestOtp(r) ==
  \/ \E d \in Device : SendCheck(r, d)
  \/ SendCount(r)
  \/ SetOtp(r)
  \/ ResetAttempts(r)

VerifyOtp(r) ==
  \/ \E g \in 0..issued : VerifyCheck(r, g)
  \/ VerifyAdmit(r)
  \/ VerifyRefuse(r)
  \/ GuessWrong(r)
  \/ GuessRight(r)
  \/ Tally(r)
  \/ TallyHasTTL(r)
  \/ TallyNoTTL(r)
  \/ TallyExpire(r)
  \/ DeleteOtp(r)
  \/ ResetAfterSuccess(r)
  \/ Sign(r)
  \/ SetToken(r)
  \/ SetTokenConflict(r)

UseToken(r) ==
  \/ \E t \in Token : Consume(r, t)
  \/ Accept(r)
  \/ AcceptExpired(r)
  \/ RestoreToken(r)

Environment ==
  \/ CodeExpires
  \/ AttemptsExpire
  \/ PhoneCooldownExpires
  \/ \E d \in Device : DeviceCooldownExpires(d)
  \/ \E t \in Token : TokenExpires(t)
  \/ Tick

Next ==
  \/ \E r \in Request : RequestOtp(r)
  \/ \E r \in Request : VerifyOtp(r)
  \/ \E r \in Request : UseToken(r)
  \/ \E r \in Request : Fail(r)
  \/ Environment

Spec == Init /\ [][Next]_vars

----------------------------------------------------------------------------
\* Properties

Overlap == Cardinality(Request)

\* Of the OTP requests that overlap, at most as many as there are calls get
\* past one cooldown, however check and increment interleave.
CooldownHolds == counted <= Overlap

\* Between two resets of the counter at most MaxAttempts - 1 wrong guesses,
\* one more for each call that may be under way, and one for each that died
\* before it was counted: what is left of the limit of verifyOTP.
GuessesBounded == guesses <= MaxAttempts - 1 + Overlap + lost

\* A code yields at most as many tokens as there are calls that read it
\* before one of them deleted it: get and delete are not atomic in verifyOTP.
TokensPerCode == \A c \in Code : yields[c] <= Overlap

\* A token is accepted no more often than it was granted for a code, whatever
\* was consumed, restored or expired in between.
UsesGranted == \A t \in Token : uses[t] <= grants[t]
=============================================================================
