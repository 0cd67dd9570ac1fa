-------------------------- MODULE EmailVerification --------------------------
(***************************************************************************)
(* Registering an e-mail address and verifying it: AuthService.register,   *)
(* resendVerification and verifyEmail over UsersService and the            *)
(* verification codes of OneTimeCodes, for one address, with the other     *)
(* writer of users.is_verified: the callback of a Google account of that   *)
(* address, which marks the row verified or inserts it so, and needs no    *)
(* code.  Each request is one handler and makes at most one call of        *)
(* issue() or consume(), the call of the same name.                        *)
(***************************************************************************)
EXTENDS OneTimeCodes

CONSTANTS
  ResendLimit,   \* VERIFICATION_RESEND_LIMIT_PER_HOUR
  Hour,          \* the window it counts over
  MaxInFlight    \* bound: requests being handled at the same time

ASSUME VerificationAssumption ==
  /\ IsFiniteSet(Calls)
  /\ ResendLimit \in Nat \ {0} /\ Hour \in Nat \ {0} /\ MaxInFlight \in Nat \ {0}

VARIABLES
  account,       \* the request that inserted the users row of the address, or NULL
  is_verified,   \* users.is_verified of that row
  handler,       \* where each request is, or the status it was answered with
  crowd          \* history: the most resends that had counted and not saved, at one time

accountVars == <<account, is_verified>>
evVars      == <<otpVars, accountVars, handler, crowd>>

Waiting  == {"register.insert", "resend.count", "register.issue", "resend.issue", "mail",
             "verify.consume", "verify.consumeVerified", "markVerified",
             "oauth.insert", "oauth.refind", "oauth.mark"}
\* A callback that set is_verified is "vouched", one that found it set
\* "found verified": what it does from there is OAuthProvisioning's.
Answered == {"201", "200 resent", "200 verified", "400", "409", "429",
             "500 duplicate", "500 mail", "vouched", "found verified"}

InFlight  == {r \in Calls : handler[r] \in Waiting}
MayArrive == Cardinality(InFlight) < MaxInFlight

Arrive(r, next) ==
  /\ handler[r] = "new" /\ MayArrive
  /\ handler' = [handler EXCEPT ![r] = next]
  /\ UNCHANGED crowd
Move(r, at, next) == handler[r] = at /\ handler' = [handler EXCEPT ![r] = next]
Step(r, at, next) == Move(r, at, next) /\ UNCHANGED crowd

-----------------------------------------------------------------------------
(* register *)

\* UsersService.create: findByEmail, 409 if there is a row; then hash.
RegisterFind(r) ==
  /\ Arrive(r, IF account = NULL THEN "register.insert" ELSE "409")
  /\ UNCHANGED <<otpVars, accountVars>>

\* Seeded fault: no unique constraint on users.email.
RegisterInsertUnconstrained(r) ==
  /\ Step(r, "register.insert", "register.issue")
  /\ account' = r /\ is_verified' = FALSE
  /\ UNCHANGED otpVars

\* UsersService.create: the INSERT.  users.email is unique; the violation is
\* not caught and becomes a 500.
RegisterInsert(r) ==
  /\ IF account = NULL
     THEN /\ Step(r, "register.insert", "register.issue")
          /\ account' = r /\ is_verified' = FALSE
     ELSE /\ Step(r, "register.insert", "500 duplicate")
          /\ UNCHANGED accountVars
  /\ UNCHANGED otpVars

-----------------------------------------------------------------------------
(* resendVerification *)

ResendFind(r) ==
  /\ Arrive(r, IF account = NULL \/ is_verified THEN "400" ELSE "resend.count")
  /\ UNCHANGED <<otpVars, accountVars>>

\* Created since now minus an hour (the clock starts at 0).
RecentResends == CountSince("resend", IF now > Hour THEN now - Hour ELSE 0)

\* The resends that have counted and have not saved their code yet.
Issuing   == {r \in Calls : handler[r] = "resend.issue"}
NoteCrowd == crowd' = IF Cardinality(Issuing') > crowd THEN Cardinality(Issuing') ELSE crowd

\* Seeded fault: the limit compared with > instead of >=.
ResendCountOffByOne(r) ==
  /\ Move(r, "resend.count", IF RecentResends > ResendLimit THEN "429" ELSE "resend.issue")
  /\ NoteCrowd
  /\ UNCHANGED <<otpVars, accountVars>>

ResendCount(r) ==
  /\ Move(r, "resend.count", IF RecentResends >= ResendLimit THEN "429" ELSE "resend.issue")
  /\ NoteCrowd
  /\ UNCHANGED <<otpVars, accountVars>>

-----------------------------------------------------------------------------
(* Issuing and mailing the code, for both *)

IssueFirst(r) ==
  /\ \/ handler[r] = "register.issue" /\ BeginIssue(r, "initial")
     \/ handler[r] = "resend.issue" /\ BeginIssue(r, "resend")
  /\ UNCHANGED <<accountVars, handler, crowd>>

IssueSecond(r) ==
  /\ handler[r] \in {"register.issue", "resend.issue"}
  /\ FinishIssue(r)
  /\ handler' = [handler EXCEPT ![r] = "mail"]
  /\ UNCHANGED <<accountVars, crowd>>

\* sendVerificationOtp: the response waits for the mail provider, and its
\* error is a 500 that leaves the user and the code in place.
Mail(r, accepted) ==
  /\ Step(r, "mail", IF ~accepted THEN "500 mail"
                     ELSE IF account = r THEN "201" ELSE "200 resent")
  /\ UNCHANGED <<otpVars, accountVars>>

-----------------------------------------------------------------------------
(* verifyEmail *)

\* Codes the owner of the address can return: those that were mailed.
Mailed == {r \in Calls : handler[r] \in {"201", "200 resent"}}

\* findByEmail; whether the row was verified is carried along.
VerifyFind(r) ==
  /\ Arrive(r, IF account = NULL THEN "400"
               ELSE IF is_verified THEN "verify.consumeVerified" ELSE "verify.consume")
  /\ UNCHANGED <<otpVars, accountVars>>

VerifySelect(r, code) ==
  /\ handler[r] \in {"verify.consume", "verify.consumeVerified"}
  /\ code \in Mailed
  /\ SelectLatest(r, code)
  /\ handler' = IF call'[r].step = "matched" THEN handler ELSE [handler EXCEPT ![r] = "400"]
  /\ UNCHANGED <<accountVars, crowd>>

\* Seeded fault: the result of consume's UPDATE is not looked at.
VerifyMarkUnchecked(r) ==
  /\ handler[r] \in {"verify.consume", "verify.consumeVerified"}
  /\ MarkUsed(r)
  /\ handler' = [handler EXCEPT ![r] =
       IF handler[r] = "verify.consumeVerified" THEN "200 verified" ELSE "markVerified"]
  /\ UNCHANGED <<accountVars, crowd>>

\* consume's UPDATE, and what verifyEmail does with its result; a row read as
\* verified is not updated again before the session is issued (Sessions).
VerifyMark(r) ==
  /\ handler[r] \in {"verify.consume", "verify.consumeVerified"}
  /\ MarkUsed(r)
  /\ handler' = [handler EXCEPT ![r] =
       IF call'[r].step # "consumed" THEN "400"
       ELSE IF handler[r] = "verify.consumeVerified" THEN "200 verified" ELSE "markVerified"]
  /\ UNCHANGED <<accountVars, crowd>>

MarkVerified(r) ==
  /\ Step(r, "markVerified", "200 verified")
  /\ is_verified' = TRUE
  /\ UNCHANGED <<otpVars, account>>

-----------------------------------------------------------------------------
(* resolveOAuthUserFromProviderProfile, as far as it writes the row.  A     *)
(* callback whose Google account is linked already reads and writes nothing *)
(* of it and is left out.                                                   *)

ByEmail == IF is_verified THEN "found verified" ELSE "oauth.mark"

\* findByEmail; with no row, a callback without a sign-up role is a 400.
OAuthFind(r, hasRole) ==
  /\ Arrive(r, IF account # NULL THEN ByEmail ELSE IF hasRole THEN "oauth.insert" ELSE "400")
  /\ UNCHANGED <<otpVars, accountVars>>

\* The INSERT of a verified user; its unique violation is caught and the row
\* looked up again.
OAuthInsert(r) ==
  /\ IF account = NULL
     THEN /\ Step(r, "oauth.insert", "vouched")
          /\ account' = r /\ is_verified' = TRUE
     ELSE /\ Step(r, "oauth.insert", "oauth.refind")
          /\ UNCHANGED accountVars
  /\ UNCHANGED otpVars

OAuthRefind(r) ==
  /\ Step(r, "oauth.refind", ByEmail)
  /\ UNCHANGED <<otpVars, accountVars>>

\* markVerified, by the id read before.
OAuthMark(r) ==
  /\ Step(r, "oauth.mark", "vouched")
  /\ is_verified' = TRUE
  /\ UNCHANGED <<otpVars, account>>

-----------------------------------------------------------------------------

TimePasses == Tick /\ UNCHANGED <<accountVars, handler, crowd>>

EvInit ==
  /\ OtpInit
  /\ account = NULL
  /\ is_verified = FALSE
  /\ handler = [r \in Calls |-> "new"]
  /\ crowd = 0

EvNext ==
  \/ TimePasses
  \/ \E r \in Calls :
       \/ RegisterFind(r) \/ RegisterInsert(r)
       \/ ResendFind(r) \/ ResendCount(r)
       \/ IssueFirst(r) \/ IssueSecond(r)
       \/ \E accepted \in BOOLEAN : Mail(r, accepted)
       \/ VerifyFind(r) \/ VerifyMark(r) \/ MarkVerified(r)
       \/ \E code \in Calls : VerifySelect(r, code)
       \/ \E hasRole \in BOOLEAN : OAuthFind(r, hasRole)
       \/ OAuthInsert(r) \/ OAuthRefind(r) \/ OAuthMark(r)

EvSpec == EvInit /\ [][EvNext]_evVars

-----------------------------------------------------------------------------
(* Properties *)

EvTypeOK ==
  /\ OtpTypeOK
  /\ account \in Calls \cup {NULL}
  /\ is_verified \in BOOLEAN
  /\ handler \in [Calls -> {"new"} \cup Waiting \cup Answered]
  /\ crowd \in Nat

\* However registrations of one address race past the look-up, one of them
\* makes the account and issues its first code.
OneRegistration ==
  \A r, s \in Calls : Stored(r) /\ Stored(s)
    /\ otps[r].source = "initial" /\ otps[s].source = "initial" => r = s

\* Every successful verification used up a code of its own, so that two never
\* share one; and the account is verified only if some code mailed for it was
\* returned, or a Google callback vouched for the address, by marking the row
\* verified or inserting it so.
VerifiedByOwnCode ==
  /\ \A r \in Calls : handler[r] = "200 verified" =>
       call[r].step = "consumed" /\ otps[call[r].row].usedBy = r
  /\ is_verified =>
       \/ \E c \in Calls : Stored(c) /\ handler[c] \in {"201", "200 resent"}
            /\ otps[c].usedBy # NULL /\ call[otps[c].usedBy].row = c
       \/ \E r \in Calls : handler[r] = "vouched"

\* What the handlers carry between their statements: only the request that
\* inserted the row issues a first code, a code consumed was mailed, and the
\* row is marked verified for a code consumed or by a callback.  With the properties above it is
\* inductive.
HandlersAgreeWithCodes ==
  /\ \A r \in Calls :
       /\ handler[r] = "register.issue" => account = r
       /\ call[r].step \in {"hashing", "issued"} /\ call[r].source = "initial" => account = r
       /\ Stored(r) /\ otps[r].source = "initial" => account = r
       /\ call[r].step \in {"matched", "consumed"} =>
            call[r].row \in Mailed /\ Stored(call[r].row)
       /\ handler[r] \in {"markVerified", "200 verified"} => call[r].step = "consumed"
  /\ is_verified => \E r \in Calls : call[r].step = "consumed" \/ handler[r] = "vouched"

VerificationInv == EvTypeOK /\ HandlersAgreeWithCodes

\* The code service behaves as OneTimeCodes specifies it, so what is proved of
\* OneTimeCodes holds here.
ImplementsCodes == OtpSpec

\* The codes of resendVerification created in the hour from t.
Resent(t) == {c \in Calls : Stored(c) /\ otps[c].source = "resend"
                              /\ otps[c].createdAt \in t..(t + Hour)}

\* At most ResendLimit codes of resendVerification are created in any hour.
ResendLimitHolds == \A t \in 0..now : Cardinality(Resent(t)) <= ResendLimit

\* How far a race can take the limit: by one code for each further resend that
\* had counted, and not saved, at the same time.  Resends that follow each
\* other, or wait for the mail of an earlier one, stay within it.
OverrunIsCrowd == \A t \in 0..now : Cardinality(Resent(t)) < ResendLimit + crowd

=============================================================================
