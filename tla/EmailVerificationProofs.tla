------------------------ MODULE EmailVerificationProofs ------------------------
(***************************************************************************)
(* Theorems of EmailVerification.  Its handlers only touch the codes by    *)
(* the calls of OneTimeCodes, so that what OneTimeCodesProofs proves holds *)
(* here; the rest follows by an invariant over both.                       *)
(***************************************************************************)
EXTENDS EmailVerification, OneTimeCodesProofs, FiniteSetTheorems

\* The handlers use the code service as OneTimeCodes specifies it: each of
\* their steps is a step of one of its calls, or none.
THEOREM VerificationUsesCodes == EvSpec => ImplementsCodes
<1>1. EvInit => OtpInit
  BY DEF EvInit
<1>2. [EvNext]_evVars => [OtpNext]_otpVars
  <2> SUFFICES ASSUME [EvNext]_evVars PROVE [OtpNext]_otpVars
    OBVIOUS
  <2>1. ASSUME NEW r \in Calls, IssueFirst(r) PROVE OtpNext
    BY <2>1 DEF IssueFirst, OtpNext, Sources
  <2>2. ASSUME NEW r \in Calls, IssueSecond(r) PROVE OtpNext
    BY <2>2 DEF IssueSecond, OtpNext
  <2>3. ASSUME NEW r \in Calls, NEW code \in Calls, VerifySelect(r, code) PROVE OtpNext
    BY <2>3 DEF VerifySelect, OtpNext
  <2>4. ASSUME NEW r \in Calls, VerifyMark(r) PROVE OtpNext
    BY <2>4 DEF VerifyMark, OtpNext
  <2>5. CASE TimePasses
    BY <2>5 DEF TimePasses, OtpNext
  <2> QED
    BY <2>1, <2>2, <2>3, <2>4, <2>5
    DEF EvNext, evVars, RegisterFind, RegisterInsert, ResendFind, ResendCount, Mail,
        VerifyFind, MarkVerified, OAuthFind, OAuthInsert, OAuthRefind, OAuthMark
<1> QED BY <1>1, <1>2, PTL DEF EvSpec, ImplementsCodes, OtpSpec

\* So a code verifyEmail accepts was valid when it was selected.
THEOREM VerificationAcceptsGoodCodes == EvSpec => AcceptedCodeWasGood
BY VerificationUsesCodes, AcceptedCodesWereGood, PTL DEF ImplementsCodes

-----------------------------------------------------------------------------

EvInv == OtpInv /\ EvTypeOK /\ HandlersAgreeWithCodes

\* Something the row may be verified for.
Vouched == \E s \in Calls : call[s].step = "consumed" \/ handler[s] = "vouched"

\* A part of the calls has a number of members, and a part of it no more.
LEMMA CountsGrow ==
  ASSUME NEW S \in SUBSET Calls, NEW T \in SUBSET S
  PROVE  /\ Cardinality(S) \in Nat /\ Cardinality(T) \in Nat
         /\ Cardinality(T) <= Cardinality(S)
<1>1. IsFiniteSet(S)
  BY FS_Subset, VerificationAssumption
<1> QED BY <1>1, FS_Subset, FS_CardinalityType

\* A step of a handler that calls no code statement leaves the codes alone.
LEMMA EvTypeStep == EvTypeOK /\ OtpTypeOK' /\ [EvNext]_evVars => EvTypeOK'
<1> SUFFICES ASSUME EvTypeOK, OtpTypeOK', [EvNext]_evVars PROVE EvTypeOK'
  OBVIOUS
<1> USE DEF EvTypeOK, Waiting, Answered, Move
<1>1. ASSUME NEW r \in Calls, RegisterFind(r) PROVE EvTypeOK'
  BY <1>1 DEF RegisterFind, Arrive, accountVars
<1>2. ASSUME NEW r \in Calls, RegisterInsert(r) PROVE EvTypeOK'
  BY <1>2 DEF RegisterInsert, Step, Move, accountVars
<1>3. ASSUME NEW r \in Calls, ResendFind(r) PROVE EvTypeOK'
  BY <1>3 DEF ResendFind, Arrive, accountVars
<1>4. ASSUME NEW r \in Calls, ResendCount(r) PROVE EvTypeOK'
  <2>1. Cardinality(Issuing') \in Nat
    BY CountsGrow DEF Issuing
  <2> QED BY <1>4, <2>1 DEF ResendCount, NoteCrowd, accountVars
<1>5. ASSUME NEW r \in Calls, IssueFirst(r) PROVE EvTypeOK'
  BY <1>5 DEF IssueFirst, accountVars
<1>6. ASSUME NEW r \in Calls, IssueSecond(r) PROVE EvTypeOK'
  BY <1>6 DEF IssueSecond, accountVars
<1>7. ASSUME NEW r \in Calls, NEW accepted \in BOOLEAN, Mail(r, accepted) PROVE EvTypeOK'
  BY <1>7 DEF Mail, Step, Move, accountVars
<1>8. ASSUME NEW r \in Calls, VerifyFind(r) PROVE EvTypeOK'
  BY <1>8 DEF VerifyFind, Arrive, accountVars
<1>9. ASSUME NEW r \in Calls, NEW code \in Calls, VerifySelect(r, code) PROVE EvTypeOK'
  BY <1>9 DEF VerifySelect, accountVars
<1>10. ASSUME NEW r \in Calls, VerifyMark(r) PROVE EvTypeOK'
  BY <1>10 DEF VerifyMark, accountVars
<1>11. ASSUME NEW r \in Calls, MarkVerified(r) PROVE EvTypeOK'
  BY <1>11 DEF MarkVerified, Step, Move
<1>12. CASE TimePasses
  BY <1>12 DEF TimePasses, accountVars
<1>13. CASE UNCHANGED evVars
  BY <1>13 DEF evVars, accountVars
<1>14. ASSUME NEW r \in Calls, NEW hasRole \in BOOLEAN, OAuthFind(r, hasRole) PROVE EvTypeOK'
  BY <1>14 DEF OAuthFind, ByEmail, Arrive, accountVars
<1>15. ASSUME NEW r \in Calls, OAuthInsert(r) PROVE EvTypeOK'
  BY <1>15 DEF OAuthInsert, Step, accountVars
<1>16. ASSUME NEW r \in Calls, OAuthRefind(r) PROVE EvTypeOK'
  BY <1>16 DEF OAuthRefind, ByEmail, Step, accountVars
<1>17. ASSUME NEW r \in Calls, OAuthMark(r) PROVE EvTypeOK'
  BY <1>17 DEF OAuthMark, Step
<1> QED
  BY <1>1, <1>2, <1>3, <1>4, <1>5, <1>6, <1>7, <1>8, <1>9, <1>10, <1>11, <1>12, <1>13,
     <1>14, <1>15, <1>16, <1>17
  DEF EvNext

\* Every step keeps what the handlers carry in agreement with the codes.
LEMMA AgreementStep == EvInv /\ EvTypeOK' /\ [EvNext]_evVars => HandlersAgreeWithCodes'
<1> SUFFICES ASSUME EvInv, EvTypeOK', [EvNext]_evVars PROVE HandlersAgreeWithCodes'
  OBVIOUS
<1>typed. /\ otps \in [Calls -> Rows] /\ call \in [Calls -> CallStates]
          /\ handler \in [Calls -> {"new"} \cup Waiting \cup Answered]
          /\ account \in Calls \cup {NULL}
  BY DEF EvInv, EvTypeOK, OtpTypeOK
<1>rows. RowsMatchCalls /\ HandlersAgreeWithCodes
  BY DEF EvInv, OtpInv
\* What holds of each request before it.
<1>before. /\ \A s \in Calls :
                /\ handler[s] = "register.issue" => account = s
                /\ call[s].step \in {"hashing", "issued"} /\ call[s].source = "initial"
                     => account = s
                /\ otps[s].seq > 0 /\ otps[s].source = "initial" => account = s
                /\ handler[s] \in {"markVerified", "200 verified"} => call[s].step = "consumed"
           /\ is_verified => Vouched
  BY <1>rows DEF HandlersAgreeWithCodes, Stored, Vouched
\* What is to be shown of each request after a step.
<1>agree. ASSUME \A s \in Calls :
                   /\ handler'[s] = "register.issue" => account' = s
                   /\ call'[s].step \in {"hashing", "issued"} /\ call'[s].source = "initial"
                        => account' = s
                   /\ Stored(s)' /\ otps'[s].source = "initial" => account' = s,
                 \A s \in Calls : call'[s].step \in {"matched", "consumed"} =>
                   call'[s].row \in Mailed' /\ otps'[call'[s].row].seq > 0,
                 \A s \in Calls :
                   handler'[s] \in {"markVerified", "200 verified"} => call'[s].step = "consumed",
                 is_verified' => Vouched'
          PROVE  HandlersAgreeWithCodes'
  BY <1>agree DEF HandlersAgreeWithCodes, Stored, Vouched
\* A selected row stays mailed and stored.
<1>kept. ASSUME NEW s \in Calls, call[s].step \in {"matched", "consumed"}
         PROVE  call[s].row \in Mailed /\ call[s].row \in Calls /\ otps[call[s].row].seq > 0
  BY <1>kept, <1>rows DEF HandlersAgreeWithCodes, Stored, Mailed
\* Steps of the account alone.
<1>moves. ASSUME UNCHANGED otpVars, NEW r \in Calls, NEW next,
                 handler' = [handler EXCEPT ![r] = next],
                 r \notin Mailed,
                 account' = account \/ (account = NULL /\ account' = r),
                 next = "register.issue" => account' = r,
                 next \in {"markVerified", "200 verified"} => call[r].step = "consumed",
                 handler[r] # "vouched",
                 is_verified' => is_verified \/ call[r].step = "consumed" \/ next = "vouched"
          PROVE  HandlersAgreeWithCodes'
  <2>1. /\ handler'[r] = next
        /\ \A s \in Calls : s # r => handler'[s] = handler[s]
    BY <1>moves, <1>typed
  <2>2. Mailed \subseteq Mailed'
    BY <1>moves, <2>1 DEF Mailed
  <2>3. \A s \in Calls : account = s => account' = s
    BY <1>moves, CodesAssumption
  <2>4. otps' = otps /\ call' = call
    BY <1>moves DEF otpVars
  <2>5. ASSUME NEW s \in Calls
        PROVE  /\ handler'[s] = "register.issue" => account' = s
               /\ handler'[s] \in {"markVerified", "200 verified"} => call'[s].step = "consumed"
    BY <1>moves, <1>before, <2>1, <2>3, <2>4
  <2>6. ASSUME NEW s \in Calls
        PROVE  /\ call'[s].step \in {"hashing", "issued"} /\ call'[s].source = "initial"
                    => account' = s
               /\ Stored(s)' /\ otps'[s].source = "initial" => account' = s
               /\ call'[s].step \in {"matched", "consumed"} =>
                    call'[s].row \in Mailed' /\ Stored(call[s].row)'
    BY <1>rows, <2>2, <2>3, <2>4 DEF HandlersAgreeWithCodes, Stored
  <2>7. is_verified' => Vouched'
    <3>1. Vouched \/ call[r].step = "consumed" \/ next = "vouched" => Vouched'
      BY <1>moves, <2>1, <2>4 DEF Vouched
    <3> QED BY <1>moves, <1>before, <3>1
  <2> QED
    BY <2>4, <2>5, <2>6, <2>7 DEF HandlersAgreeWithCodes, Stored, Vouched
<1>1. ASSUME NEW r \in Calls, RegisterFind(r) PROVE HandlersAgreeWithCodes'
  BY <1>1, <1>moves DEF RegisterFind, Arrive, accountVars, Mailed
<1>2. ASSUME NEW r \in Calls, RegisterInsert(r) PROVE HandlersAgreeWithCodes'
  <2>1. CASE account = NULL
    BY <1>2, <2>1, <1>moves DEF RegisterInsert, Step, Move, Mailed
  <2>2. CASE account # NULL
    <3>1. /\ handler[r] = "register.insert"
          /\ handler' = [handler EXCEPT ![r] = "500 duplicate"]
          /\ UNCHANGED <<otpVars, account, is_verified>>
      BY <1>2, <2>2 DEF RegisterInsert, Step, Move, accountVars
    <3> QED BY <3>1, <1>moves DEF Mailed
  <2> QED BY <2>1, <2>2
<1>3. ASSUME NEW r \in Calls, ResendFind(r) PROVE HandlersAgreeWithCodes'
  BY <1>3, <1>moves DEF ResendFind, Arrive, accountVars, Mailed
<1>4. ASSUME NEW r \in Calls, ResendCount(r) PROVE HandlersAgreeWithCodes'
  BY <1>4, <1>moves DEF ResendCount, Move, accountVars, Mailed
<1>5. ASSUME NEW r \in Calls, IssueFirst(r) PROVE HandlersAgreeWithCodes'
  <2>1. /\ call[r].step = "idle" /\ call'[r].step = "hashing"
        /\ call'[r].source = "initial" => handler[r] = "register.issue"
        /\ \A s \in Calls : s # r => call'[s] = call[s]
        /\ \A s \in Calls : otps'[s].seq = otps[s].seq /\ otps'[s].source = otps[s].source
        /\ UNCHANGED <<account, is_verified, handler>>
    BY <1>5, <1>typed DEF IssueFirst, BeginIssue, accountVars, Rows, CallStates
  <2>2. Mailed' = Mailed
    BY <2>1 DEF Mailed
  <2>a. \A s \in Calls :
          /\ handler'[s] = "register.issue" => account' = s
          /\ call'[s].step \in {"hashing", "issued"} /\ call'[s].source = "initial"
               => account' = s
          /\ Stored(s)' /\ otps'[s].source = "initial" => account' = s
    BY <1>before, <2>1 DEF Stored
  <2>b. \A s \in Calls : call'[s].step \in {"matched", "consumed"} =>
          call'[s].row \in Mailed' /\ otps'[call'[s].row].seq > 0
    BY <1>kept, <2>1, <2>2 DEF Stored
  <2>c. \A s \in Calls :
          handler'[s] \in {"markVerified", "200 verified"} => call'[s].step = "consumed"
    BY <1>before, <2>1
  <2>d. is_verified' => Vouched'
    <3>1. Vouched => Vouched'
      BY <2>1 DEF Vouched
    <3> QED BY <1>before, <2>1, <3>1
  <2> QED BY <1>agree, <2>a, <2>b, <2>c, <2>d
<1>6. ASSUME NEW r \in Calls, IssueSecond(r) PROVE HandlersAgreeWithCodes'
  <2>1. /\ call[r].step = "hashing" /\ call'[r].step = "issued"
        /\ call'[r].source = call[r].source
        /\ \A s \in Calls : s # r => call'[s] = call[s] /\ otps'[s] = otps[s]
        /\ otps'[r].seq = saved + 1 /\ otps'[r].source = call[r].source
        /\ handler[r] \in {"register.issue", "resend.issue"} /\ handler'[r] = "mail"
        /\ \A s \in Calls : s # r => handler'[s] = handler[s]
        /\ UNCHANGED <<account, is_verified>>
    BY <1>6, <1>typed DEF IssueSecond, FinishIssue, accountVars, CallStates
  <2>2. saved + 1 > 0
    BY DEF EvInv, OtpInv, OtpTypeOK
  <2>3. Mailed \subseteq Mailed'
    BY <2>1 DEF Mailed
  <2>a. \A s \in Calls :
          /\ handler'[s] = "register.issue" => account' = s
          /\ call'[s].step \in {"hashing", "issued"} /\ call'[s].source = "initial"
               => account' = s
          /\ Stored(s)' /\ otps'[s].source = "initial" => account' = s
    BY <1>before, <2>1 DEF Stored
  <2>b. \A s \in Calls : call'[s].step \in {"matched", "consumed"} =>
          call'[s].row \in Mailed' /\ otps'[call'[s].row].seq > 0
    BY <1>kept, <2>1, <2>2, <2>3 DEF Stored
  <2>c. \A s \in Calls :
          handler'[s] \in {"markVerified", "200 verified"} => call'[s].step = "consumed"
    BY <1>before, <2>1
  <2>d. is_verified' => Vouched'
    <3>1. Vouched => Vouched'
      BY <2>1 DEF Vouched
    <3> QED BY <1>before, <2>1, <3>1
  <2> QED BY <1>agree, <2>a, <2>b, <2>c, <2>d
<1>7. ASSUME NEW r \in Calls, NEW accepted \in BOOLEAN, Mail(r, accepted)
      PROVE  HandlersAgreeWithCodes'
  BY <1>7, <1>moves DEF Mail, Step, Move, accountVars, Mailed
<1>8. ASSUME NEW r \in Calls, VerifyFind(r) PROVE HandlersAgreeWithCodes'
  BY <1>8, <1>moves DEF VerifyFind, Arrive, accountVars, Mailed
<1>9. ASSUME NEW r \in Calls, NEW code \in Calls, VerifySelect(r, code)
      PROVE  HandlersAgreeWithCodes'
  <2>1. /\ call[r].step = "idle"
        /\ \A s \in Calls : s # r => call'[s] = call[s] /\ handler'[s] = handler[s]
        /\ \/ call'[r].step = "matched" /\ call'[r].row = code /\ Stored(code)
           \/ call'[r].step = "rejected"
        /\ handler[r] \in {"verify.consume", "verify.consumeVerified"}
        /\ handler'[r] \in {handler[r], "400"}
        /\ code \in Mailed
        /\ UNCHANGED <<otps, account, is_verified>>
    BY <1>9, <1>typed DEF VerifySelect, SelectLatest, IsLatest, Active, NoCall, accountVars
  <2>2. Mailed \subseteq Mailed'
    BY <2>1 DEF Mailed
  <2>a. \A s \in Calls :
          /\ handler'[s] = "register.issue" => account' = s
          /\ call'[s].step \in {"hashing", "issued"} /\ call'[s].source = "initial"
               => account' = s
          /\ Stored(s)' /\ otps'[s].source = "initial" => account' = s
    BY <1>before, <2>1 DEF Stored
  <2>b. \A s \in Calls : call'[s].step \in {"matched", "consumed"} =>
          call'[s].row \in Mailed' /\ otps'[call'[s].row].seq > 0
    BY <1>kept, <2>1, <2>2 DEF Stored
  <2>c. \A s \in Calls :
          handler'[s] \in {"markVerified", "200 verified"} => call'[s].step = "consumed"
    BY <1>before, <2>1
  <2>d. is_verified' => Vouched'
    <3>1. Vouched => Vouched'
      BY <2>1 DEF Vouched
    <3> QED BY <1>before, <2>1, <3>1
  <2> QED BY <1>agree, <2>a, <2>b, <2>c, <2>d
<1>10. ASSUME NEW r \in Calls, VerifyMark(r) PROVE HandlersAgreeWithCodes'
  <2>0. /\ MarkUsed(r)
        /\ handler[r] \in {"verify.consume", "verify.consumeVerified"}
        /\ handler' = [handler EXCEPT ![r] =
             IF call'[r].step # "consumed" THEN "400"
             ELSE IF handler[r] = "verify.consumeVerified" THEN "200 verified" ELSE "markVerified"]
        /\ UNCHANGED <<account, is_verified>>
    BY <1>10 DEF VerifyMark, accountVars
  <2>3. /\ call[r].step = "matched" /\ call'[r].row = call[r].row
        /\ call'[r].step \in {"consumed", "rejected"}
        /\ \A s \in Calls : s # r => call'[s] = call[s]
    <3>1. /\ call[r].step = "matched"
          /\ \/ call' = [call EXCEPT ![r].step = "consumed"]
             \/ call' = [call EXCEPT ![r].step = "rejected"]
      BY <2>0 DEF MarkUsed
    <3> QED BY <3>1, <1>typed DEF CallStates
  <2>4. \A s \in Calls : otps'[s].seq = otps[s].seq /\ otps'[s].source = otps[s].source
    <3>1. \/ otps' = otps
          \/ otps' = [otps EXCEPT ![call[r].row].usedBy = r]
      BY <2>0 DEF MarkUsed
    <3>2. call[r].row \in Calls
      BY <1>kept, <2>3
    <3> QED BY <3>1, <3>2, <1>typed DEF Rows
  <2>5. /\ \A s \in Calls : s # r => handler'[s] = handler[s]
        /\ handler'[r] \in {"400", "200 verified", "markVerified"}
        /\ call'[r].step # "consumed" => handler'[r] = "400"
    BY <2>0, <1>typed
  <2>1. /\ call[r].step = "matched" /\ call'[r].row = call[r].row
        /\ call'[r].step \in {"consumed", "rejected"}
        /\ \A s \in Calls : s # r => call'[s] = call[s] /\ handler'[s] = handler[s]
        /\ handler[r] \in {"verify.consume", "verify.consumeVerified"}
        /\ handler'[r] \in {"400", "200 verified", "markVerified"}
        /\ call'[r].step # "consumed" => handler'[r] = "400"
        /\ \A s \in Calls : otps'[s].seq = otps[s].seq /\ otps'[s].source = otps[s].source
        /\ UNCHANGED <<account, is_verified>>
    BY <2>0, <2>3, <2>4, <2>5
  <2>2. Mailed \subseteq Mailed'
    BY <2>1 DEF Mailed
  <2>a. \A s \in Calls :
          /\ handler'[s] = "register.issue" => account' = s
          /\ call'[s].step \in {"hashing", "issued"} /\ call'[s].source = "initial"
               => account' = s
          /\ Stored(s)' /\ otps'[s].source = "initial" => account' = s
    BY <1>before, <2>1 DEF Stored
  <2>b. ASSUME NEW s \in Calls, call'[s].step \in {"matched", "consumed"}
        PROVE  call'[s].row \in Mailed' /\ otps'[call'[s].row].seq > 0
    <3>1. call[s].step \in {"matched", "consumed"} /\ call'[s].row = call[s].row
      BY <2>b, <2>3
    <3> QED BY <3>1, <1>kept, <2>2, <2>4
  <2>c. \A s \in Calls :
          handler'[s] \in {"markVerified", "200 verified"} => call'[s].step = "consumed"
    BY <1>before, <2>1
  <2>d. is_verified' => Vouched'
    <3>1. Vouched => Vouched'
      BY <2>1 DEF Vouched
    <3> QED BY <1>before, <2>1, <3>1
  <2> QED BY <1>agree, <2>a, <2>b, <2>c, <2>d
<1>11. ASSUME NEW r \in Calls, MarkVerified(r) PROVE HandlersAgreeWithCodes'
  <2>1. call[r].step = "consumed"
    BY <1>11, <1>rows DEF MarkVerified, Step, Move, HandlersAgreeWithCodes
  <2> QED
    BY <1>11, <1>moves, <2>1 DEF MarkVerified, Step, Move, Mailed
<1>12. CASE TimePasses
  BY <1>12, <1>rows DEF TimePasses, Tick, accountVars, HandlersAgreeWithCodes, Stored, Mailed
<1>13. CASE UNCHANGED evVars
  BY <1>13, <1>rows DEF evVars, otpVars, accountVars, HandlersAgreeWithCodes, Stored, Mailed
<1>14. ASSUME NEW r \in Calls, NEW hasRole \in BOOLEAN, OAuthFind(r, hasRole)
       PROVE  HandlersAgreeWithCodes'
  BY <1>14, <1>moves DEF OAuthFind, ByEmail, Arrive, accountVars, Mailed
<1>15. ASSUME NEW r \in Calls, OAuthInsert(r) PROVE HandlersAgreeWithCodes'
  <2>1. CASE account = NULL
    BY <1>15, <2>1, <1>moves DEF OAuthInsert, Step, Move, Mailed
  <2>2. CASE account # NULL
    <3>1. /\ handler[r] = "oauth.insert"
          /\ handler' = [handler EXCEPT ![r] = "oauth.refind"]
          /\ UNCHANGED <<otpVars, account, is_verified>>
      BY <1>15, <2>2 DEF OAuthInsert, Step, Move, accountVars
    <3> QED BY <3>1, <1>moves DEF Mailed
  <2> QED BY <2>1, <2>2
<1>16. ASSUME NEW r \in Calls, OAuthRefind(r) PROVE HandlersAgreeWithCodes'
  BY <1>16, <1>moves DEF OAuthRefind, ByEmail, Step, Move, accountVars, Mailed
<1>17. ASSUME NEW r \in Calls, OAuthMark(r) PROVE HandlersAgreeWithCodes'
  BY <1>17, <1>moves DEF OAuthMark, Step, Move, Mailed
<1> QED
  BY <1>1, <1>2, <1>3, <1>4, <1>5, <1>6, <1>7, <1>8, <1>9, <1>10, <1>11, <1>12, <1>13,
     <1>14, <1>15, <1>16, <1>17
  DEF EvNext

LEMMA EvInvHolds == EvSpec => []EvInv
<1>1. EvSpec => []OtpInv
  BY VerificationUsesCodes, OtpInvHolds, PTL DEF ImplementsCodes
<1>2. EvInit => EvTypeOK /\ HandlersAgreeWithCodes
  <2> SUFFICES ASSUME EvInit PROVE EvTypeOK /\ HandlersAgreeWithCodes
    OBVIOUS
  <2>1. EvTypeOK
    BY OtpTypeInit DEF EvInit, EvTypeOK
  <2>2. \A c \in Calls : otps[c].seq = 0 /\ call[c].step = "idle" /\ handler[c] = "new"
    BY DEF EvInit, OtpInit, NoRow, NoCall
  <2> QED BY <2>1, <2>2 DEF EvInit, HandlersAgreeWithCodes, Stored
<1>3. OtpInv /\ OtpInv' /\ EvTypeOK /\ HandlersAgreeWithCodes /\ [EvNext]_evVars
        => EvTypeOK' /\ HandlersAgreeWithCodes'
  BY EvTypeStep, AgreementStep DEF EvInv, OtpInv
<1> QED BY <1>1, <1>2, <1>3, PTL DEF EvSpec, EvInv

\* The account, the codes and the handlers keep their types, and what the
\* handlers carry between their statements agrees with the codes.
THEOREM VerificationInvariant == EvSpec => []VerificationInv
BY EvInvHolds, PTL DEF EvInv, VerificationInv

\* One registration of an address makes the account and issues its first code.
THEOREM RegisteredOnce == EvSpec => []OneRegistration
<1>1. EvInv => OneRegistration
  BY DEF EvInv, HandlersAgreeWithCodes, OneRegistration
<1> QED BY <1>1, EvInvHolds, PTL

\* Every verification answered used up a code of its own, and an account is
\* verified by a mailed code used up for it or by a Google callback.
THEOREM VerificationNeedsOwnCode == EvSpec => []VerifiedByOwnCode
<1>1. EvInv => VerifiedByOwnCode
  <2> SUFFICES ASSUME EvInv PROVE VerifiedByOwnCode
    OBVIOUS
  <2>1. ASSUME NEW r \in Calls, call[r].step = "consumed"
        PROVE  /\ call[r].row \in Calls /\ Stored(call[r].row)
               /\ handler[call[r].row] \in {"201", "200 resent"}
               /\ otps[call[r].row].usedBy = r
    BY <2>1 DEF EvInv, OtpInv, RowsMatchCalls, ConsumedOnce, HandlersAgreeWithCodes, Mailed
  <2>2. ASSUME NEW r \in Calls, handler[r] = "200 verified"
        PROVE  call[r].step = "consumed" /\ otps[call[r].row].usedBy = r
    BY <2>1, <2>2 DEF EvInv, HandlersAgreeWithCodes
  <2>3. ASSUME is_verified, ~\E r \in Calls : handler[r] = "vouched"
        PROVE  \E c \in Calls : Stored(c) /\ handler[c] \in {"201", "200 resent"}
                 /\ otps[c].usedBy # NULL /\ call[otps[c].usedBy].row = c
    <3>1. PICK r \in Calls : call[r].step = "consumed"
      BY <2>3 DEF EvInv, HandlersAgreeWithCodes
    <3> DEFINE c == call[r].row
    <3>2. /\ c \in Calls /\ Stored(c) /\ handler[c] \in {"201", "200 resent"}
          /\ otps[c].usedBy = r /\ r # NULL
      BY <2>1, <3>1, CodesAssumption
    <3>3. call[otps[c].usedBy].row = c
      BY <3>2
    <3> HIDE DEF c
    <3> QED BY <3>2, <3>3
  <2> QED BY <2>2, <2>3 DEF VerifiedByOwnCode
<1> QED BY <1>1, EvInvHolds, PTL

-----------------------------------------------------------------------------
(* The resend limit *)

\* The codes that count for a resend now.
Since(t)    == {c \in Calls : Stored(c) /\ otps[c].source = "resend"
                                /\ otps[c].createdAt >= t}
WindowStart == IF now > Hour THEN now - Hour ELSE 0

\* The codes that count, with those that are about to, are no more than the
\* limit and the crowd allow: whoever joins the crowd saw room for one.  So no
\* window is over that.
ResendsFollowCount ==
  /\ \A r \in Calls : call[r].step = "hashing" /\ call[r].source = "resend"
                        => handler[r] = "resend.issue"
  /\ Cardinality(Issuing) <= crowd
  /\ RecentResends + Cardinality(Issuing) < ResendLimit + crowd
  /\ \A t \in Nat : Cardinality(Resent(t)) < ResendLimit + crowd

LEMMA RecentIsSince == RecentResends = Cardinality(Since(WindowStart))
BY DEF RecentResends, CountSince, Since, WindowStart

\* The counts are numbers.
LEMMA CountsAreNumbers ==
  /\ RecentResends \in Nat /\ Cardinality(Issuing) \in Nat
  /\ \A t : Cardinality(Resent(t)) \in Nat
BY RecentIsSince, CountsGrow DEF Since, Issuing, Resent

\* A step that saves no code leaves every count alone, and if nobody joins the
\* crowd either, the bounds stand.
LEMMA UncountedStep ==
  ASSUME EvTypeOK, EvTypeOK', ResendsFollowCount, now' = now, crowd' = crowd,
         \A c \in Calls : /\ otps'[c].seq = otps[c].seq
                          /\ otps'[c].source = otps[c].source
                          /\ otps'[c].createdAt = otps[c].createdAt,
         \A c \in Calls : call'[c].step = "hashing" /\ call'[c].source = "resend"
                            => handler'[c] = "resend.issue",
         \A c \in Calls : handler'[c] = "resend.issue" => handler[c] = "resend.issue"
  PROVE  ResendsFollowCount'
<1>1. ASSUME NEW t PROVE Resent(t)' = Resent(t)
  BY DEF Resent, Stored
<1>2. RecentResends' = RecentResends
  <2>1. Since(WindowStart)' = Since(WindowStart)
    BY DEF Since, Stored, WindowStart
  <2> QED BY <2>1, RecentIsSince DEF RecentResends, CountSince, Stored
<1>3. Cardinality(Issuing') <= Cardinality(Issuing) /\ Cardinality(Issuing') \in Nat
  BY CountsGrow DEF Issuing
<1>4. \A t \in Nat : Cardinality(Resent(t))' = Cardinality(Resent(t))
  BY <1>1
<1>5. crowd \in Nat /\ ResendLimit \in Nat
  BY VerificationAssumption DEF EvTypeOK
<1> QED BY <1>2, <1>3, <1>4, <1>5, CountsAreNumbers DEF ResendsFollowCount

LEMMA ResendsStep ==
  OtpInv /\ EvTypeOK /\ EvTypeOK' /\ ResendsFollowCount /\ [EvNext]_evVars
    => ResendsFollowCount'
<1> SUFFICES ASSUME OtpInv, EvTypeOK, EvTypeOK', ResendsFollowCount, [EvNext]_evVars
             PROVE  ResendsFollowCount'
  OBVIOUS
<1>typed. /\ otps \in [Calls -> Rows] /\ call \in [Calls -> CallStates]
          /\ handler \in [Calls -> {"new"} \cup Waiting \cup Answered]
          /\ now \in Nat /\ crowd \in Nat /\ ResendLimit \in Nat
  BY VerificationAssumption DEF EvTypeOK, OtpTypeOK
\* A statement that is none of the codes' takes r from one place to another.
<1>moves. ASSUME NEW r \in Calls, NEW next, otpVars' = otpVars, crowd' = crowd,
                 handler' = [handler EXCEPT ![r] = next], handler[r] # "resend.issue",
                 next # "resend.issue"
          PROVE  ResendsFollowCount'
  <2>1. otps' = otps /\ call' = call /\ now' = now
    BY <1>moves DEF otpVars
  <2>2. handler'[r] = next /\ \A s \in Calls : s # r => handler'[s] = handler[s]
    BY <1>moves, <1>typed
  <2> QED BY <1>moves, <2>1, <2>2, UncountedStep DEF ResendsFollowCount
\* A statement of the codes that saves none: it leaves their dates alone.
<1>dates. ASSUME NEW r \in Calls, now' = now, crowd' = crowd,
                 \A s \in Calls : s # r => call'[s] = call[s] /\ handler'[s] = handler[s],
                 call'[r].step = "hashing" /\ call'[r].source = "resend"
                   => handler'[r] = "resend.issue",
                 handler'[r] = "resend.issue" => handler[r] = "resend.issue",
                 \A s \in Calls : /\ otps'[s].seq = otps[s].seq
                                  /\ otps'[s].source = otps[s].source
                                  /\ otps'[s].createdAt = otps[s].createdAt
          PROVE  ResendsFollowCount'
  BY <1>dates, UncountedStep DEF ResendsFollowCount
<1>1. ASSUME NEW r \in Calls, RegisterFind(r) PROVE ResendsFollowCount'
  BY <1>1, <1>moves DEF RegisterFind, Arrive
<1>2. ASSUME NEW r \in Calls, RegisterInsert(r) PROVE ResendsFollowCount'
  <2>1. /\ handler[r] = "register.insert" /\ UNCHANGED otpVars /\ crowd' = crowd
        /\ \/ handler' = [handler EXCEPT ![r] = "register.issue"]
           \/ handler' = [handler EXCEPT ![r] = "500 duplicate"]
    BY <1>2 DEF RegisterInsert, Step, Move
  <2> QED BY <2>1, <1>moves
<1>3. ASSUME NEW r \in Calls, ResendFind(r) PROVE ResendsFollowCount'
  BY <1>3, <1>moves DEF ResendFind, Arrive
\* Who joins the crowd counted less than the limit.
<1>4. ASSUME NEW r \in Calls, ResendCount(r) PROVE ResendsFollowCount'
  <2>1. /\ otps' = otps /\ call' = call /\ now' = now
        /\ handler[r] = "resend.count"
        /\ handler'[r] = IF RecentResends >= ResendLimit THEN "429" ELSE "resend.issue"
        /\ \A s \in Calls : s # r => handler'[s] = handler[s]
    BY <1>4, <1>typed DEF ResendCount, Move, otpVars
  <2>2. crowd' = IF Cardinality(Issuing') > crowd THEN Cardinality(Issuing') ELSE crowd
    BY <1>4 DEF ResendCount, NoteCrowd
  <2>3. Cardinality(Issuing') \in Nat
    BY CountsGrow DEF Issuing
  <2>4. crowd' \in Nat /\ crowd' >= crowd /\ Cardinality(Issuing') <= crowd'
    BY <2>2, <2>3, <1>typed
  <2>5. RecentResends' = RecentResends
    BY <2>1 DEF RecentResends, CountSince, Stored
  <2>6. \A t \in Nat : Cardinality(Resent(t))' < ResendLimit + crowd'
    <3> SUFFICES ASSUME NEW t \in Nat PROVE Cardinality(Resent(t))' < ResendLimit + crowd'
      OBVIOUS
    <3>1. Cardinality(Resent(t))' = Cardinality(Resent(t))
      BY <2>1 DEF Resent, Stored
    <3>2. Cardinality(Resent(t)) < ResendLimit + crowd
      BY DEF ResendsFollowCount
    <3> QED BY <2>4, <3>1, <3>2, <1>typed, CountsAreNumbers
  <2>7. RecentResends + Cardinality(Issuing') < ResendLimit + crowd'
    <3>1. CASE RecentResends >= ResendLimit
      <4>1. Issuing' = Issuing
        BY <2>1, <3>1 DEF Issuing
      <4> QED BY <2>4, <4>1, <1>typed, CountsAreNumbers DEF ResendsFollowCount
    <3>2. CASE ~(RecentResends >= ResendLimit)
      BY <2>3, <2>4, <3>2, <1>typed, CountsAreNumbers
    <3> QED BY <3>1, <3>2
  <2>8. \A c \in Calls : call'[c].step = "hashing" /\ call'[c].source = "resend"
                           => handler'[c] = "resend.issue"
    BY <2>1 DEF ResendsFollowCount
  <2> QED BY <2>4, <2>5, <2>6, <2>7, <2>8 DEF ResendsFollowCount
<1>5. ASSUME NEW r \in Calls, IssueFirst(r) PROVE ResendsFollowCount'
  <2>1. /\ call'[r].source = "resend" => handler[r] = "resend.issue"
        /\ \A s \in Calls : s # r => call'[s] = call[s]
        /\ \A s \in Calls : /\ otps'[s].seq = otps[s].seq /\ otps'[s].source = otps[s].source
                            /\ otps'[s].createdAt = otps[s].createdAt
        /\ UNCHANGED <<now, handler, crowd>>
    BY <1>5, <1>typed DEF IssueFirst, BeginIssue, accountVars, Rows, CallStates
  <2> QED BY <2>1, <1>dates
\* A resend that saves its code leaves the crowd and is counted instead.
<1>6. ASSUME NEW r \in Calls, IssueSecond(r) PROVE ResendsFollowCount'
  <2>1. /\ call[r].step = "hashing" /\ call'[r].step = "issued"
        /\ \A s \in Calls : s # r => call'[s] = call[s] /\ otps'[s] = otps[s]
        /\ otps'[r].source = call[r].source /\ otps'[r].createdAt = now
        /\ handler[r] \in {"register.issue", "resend.issue"} /\ handler'[r] = "mail"
        /\ \A s \in Calls : s # r => handler'[s] = handler[s]
        /\ UNCHANGED <<now, crowd>>
    BY <1>6, <1>typed DEF IssueSecond, FinishIssue, accountVars, CallStates, Rows
  <2>2. \A c \in Calls : call'[c].step = "hashing" /\ call'[c].source = "resend"
                           => handler'[c] = "resend.issue"
    BY <2>1 DEF ResendsFollowCount
  <2>3. /\ IsFiniteSet(Issuing) /\ IsFiniteSet(Since(WindowStart))
        /\ Cardinality(Issuing) \in Nat /\ Cardinality(Issuing') \in Nat
        /\ Cardinality(Since(WindowStart)) \in Nat /\ Cardinality(Since(WindowStart)') \in Nat
    <3>1. /\ Issuing \subseteq Calls /\ Issuing' \subseteq Calls
          /\ Since(WindowStart) \subseteq Calls /\ Since(WindowStart)' \subseteq Calls
      BY DEF Issuing, Since
    <3> QED BY <3>1, CountsGrow, FS_Subset, VerificationAssumption
  <2>4. Cardinality(Since(WindowStart)') + Cardinality(Issuing') < ResendLimit + crowd
    <3>1. Cardinality(Since(WindowStart)) + Cardinality(Issuing) < ResendLimit + crowd
      BY RecentIsSince DEF ResendsFollowCount
    <3>2. CASE handler[r] = "resend.issue"
      <4>1. Issuing' = Issuing \ {r} /\ r \in Issuing
        BY <2>1, <3>2 DEF Issuing
      <4>2. Cardinality(Issuing') = Cardinality(Issuing) - 1
        BY <4>1, <2>3, FS_RemoveElement
      <4>3. Since(WindowStart)' \subseteq Since(WindowStart) \cup {r}
        BY <2>1 DEF Since, Stored, WindowStart
      <4>4. Cardinality(Since(WindowStart) \cup {r}) <= Cardinality(Since(WindowStart)) + 1
        <5>1. Cardinality(Since(WindowStart) \cup {r}) =
                IF r \in Since(WindowStart) THEN Cardinality(Since(WindowStart))
                                            ELSE Cardinality(Since(WindowStart)) + 1
          BY <2>3, FS_AddElement
        <5> QED BY <2>3, <5>1
      <4>5. /\ Cardinality(Since(WindowStart)') <= Cardinality(Since(WindowStart) \cup {r})
            /\ Cardinality(Since(WindowStart) \cup {r}) \in Nat
        BY <4>3, CountsGrow DEF Since
      <4> QED BY <2>3, <3>1, <4>2, <4>4, <4>5, <1>typed
    <3>3. CASE handler[r] # "resend.issue"
      <4>1. Issuing' = Issuing
        BY <2>1, <3>3 DEF Issuing
      <4>2. call[r].source # "resend"
        BY <2>1, <3>3 DEF ResendsFollowCount
      <4>3. Since(WindowStart)' \subseteq Since(WindowStart)
        BY <2>1, <4>2 DEF Since, Stored, WindowStart
      <4>4. Cardinality(Since(WindowStart)') <= Cardinality(Since(WindowStart))
        BY <4>3, CountsGrow DEF Since
      <4> QED BY <2>3, <3>1, <4>1, <4>4, <1>typed
    <3> QED BY <3>2, <3>3
  <2>5. RecentResends' = Cardinality(Since(WindowStart)')
    BY DEF RecentResends, CountSince, Since, WindowStart
  <2>6. ASSUME NEW t \in Nat PROVE Cardinality(Resent(t))' < ResendLimit + crowd
    <3>1. Cardinality(Resent(t)) < ResendLimit + crowd
      BY DEF ResendsFollowCount
    <3>2. CASE r \notin Resent(t)'
      <4>1. Resent(t)' \subseteq Resent(t)
        BY <2>1, <3>2 DEF Resent, Stored
      <4>2. /\ Cardinality(Resent(t)) \in Nat /\ Cardinality(Resent(t)') \in Nat
            /\ Cardinality(Resent(t)') <= Cardinality(Resent(t))
        BY <4>1, CountsGrow DEF Resent
      <4> QED BY <3>1, <4>2, <1>typed
    \* A window that has the new code in it counts none that does not count now.
    <3>3. CASE r \in Resent(t)'
      <4>1. now \in t..(t + Hour) /\ otps' \in [Calls -> Rows]
        BY <2>1, <3>3 DEF Resent, EvTypeOK, OtpTypeOK
      <4>2. WindowStart' <= t /\ WindowStart' \in Nat
        BY <2>1, <4>1, <1>typed, VerificationAssumption DEF WindowStart
      <4>3. Resent(t)' \subseteq Since(WindowStart)'
        BY <4>1, <4>2 DEF Resent, Since, Rows, Stored
      <4>4. /\ Cardinality(Resent(t)') \in Nat
            /\ Cardinality(Resent(t)') <= Cardinality(Since(WindowStart)')
        BY <4>3, CountsGrow DEF Since
      <4> QED BY <2>3, <2>4, <4>4, <1>typed
    <3> QED BY <3>2, <3>3
  <2>7. Cardinality(Issuing') <= crowd
    <3>1. Issuing' \subseteq Issuing
      BY <2>1 DEF Issuing
    <3>2. Cardinality(Issuing') <= Cardinality(Issuing)
      BY <3>1, CountsGrow DEF Issuing
    <3> QED BY <2>3, <3>2, <1>typed DEF ResendsFollowCount
  <2> QED BY <2>1, <2>2, <2>4, <2>5, <2>6, <2>7 DEF ResendsFollowCount
<1>7. ASSUME NEW r \in Calls, NEW accepted \in BOOLEAN, Mail(r, accepted)
      PROVE  ResendsFollowCount'
  BY <1>7, <1>moves DEF Mail, Step, Move
<1>8. ASSUME NEW r \in Calls, VerifyFind(r) PROVE ResendsFollowCount'
  BY <1>8, <1>moves DEF VerifyFind, Arrive
<1>9. ASSUME NEW r \in Calls, NEW code \in Calls, VerifySelect(r, code)
      PROVE  ResendsFollowCount'
  <2>1. /\ \A s \in Calls : s # r => call'[s] = call[s] /\ handler'[s] = handler[s]
        /\ call'[r].step \in {"matched", "rejected"}
        /\ handler[r] \in {"verify.consume", "verify.consumeVerified"}
        /\ handler'[r] \in {handler[r], "400"}
        /\ UNCHANGED <<otps, now, crowd>>
    BY <1>9, <1>typed DEF VerifySelect, SelectLatest, NoCall
  <2> QED BY <2>1, <1>dates
<1>10. ASSUME NEW r \in Calls, VerifyMark(r) PROVE ResendsFollowCount'
  <2>1. /\ MarkUsed(r)
        /\ \A s \in Calls : s # r => handler'[s] = handler[s]
        /\ handler'[r] \in {"400", "200 verified", "markVerified"}
        /\ crowd' = crowd
    BY <1>10, <1>typed DEF VerifyMark
  <2>2. /\ \A s \in Calls : s # r => call'[s] = call[s]
        /\ call'[r].step \in {"consumed", "rejected"}
        /\ now' = now
    <3>1. /\ now' = now
          /\ \/ call' = [call EXCEPT ![r].step = "consumed"]
             \/ call' = [call EXCEPT ![r].step = "rejected"]
      BY <2>1 DEF MarkUsed
    <3> QED BY <3>1, <1>typed DEF CallStates
  <2>3. \A s \in Calls : /\ otps'[s].seq = otps[s].seq /\ otps'[s].source = otps[s].source
                         /\ otps'[s].createdAt = otps[s].createdAt
    <3>1. \/ otps' = otps
          \/ otps' = [otps EXCEPT ![call[r].row].usedBy = r]
      BY <2>1 DEF MarkUsed
    <3> QED BY <3>1, <1>typed DEF Rows
  <2> QED BY <2>1, <2>2, <2>3, <1>dates
<1>11. ASSUME NEW r \in Calls, MarkVerified(r) PROVE ResendsFollowCount'
  BY <1>11, <1>moves DEF MarkVerified, Step, Move
\* A callback saves no code and counts none.
<1>14. ASSUME NEW r \in Calls, NEW hasRole \in BOOLEAN, OAuthFind(r, hasRole)
       PROVE  ResendsFollowCount'
  BY <1>14, <1>moves DEF OAuthFind, ByEmail, Arrive
<1>15. ASSUME NEW r \in Calls, OAuthInsert(r) PROVE ResendsFollowCount'
  <2>1. /\ handler[r] = "oauth.insert" /\ UNCHANGED otpVars /\ crowd' = crowd
        /\ \/ handler' = [handler EXCEPT ![r] = "vouched"]
           \/ handler' = [handler EXCEPT ![r] = "oauth.refind"]
    BY <1>15 DEF OAuthInsert, Step, Move
  <2> QED BY <2>1, <1>moves
<1>16. ASSUME NEW r \in Calls, OAuthRefind(r) PROVE ResendsFollowCount'
  BY <1>16, <1>moves DEF OAuthRefind, ByEmail, Step, Move
<1>17. ASSUME NEW r \in Calls, OAuthMark(r) PROVE ResendsFollowCount'
  BY <1>17, <1>moves DEF OAuthMark, Step, Move
\* The clock only takes codes out of the window.
<1>12. CASE TimePasses
  <2>1. now' = now + 1 /\ UNCHANGED <<otps, call, handler, crowd>>
    BY <1>12 DEF TimePasses, Tick
  <2>2. Since(WindowStart)' \subseteq Since(WindowStart)
    <3>1. WindowStart' >= WindowStart /\ WindowStart' \in Nat /\ WindowStart \in Nat
      BY <2>1, <1>typed, VerificationAssumption DEF WindowStart
    <3>2. \A c \in Calls : otps[c].createdAt \in Nat
      BY <1>typed DEF Rows
    <3> QED BY <2>1, <3>1, <3>2 DEF Since, Stored
  <2>3. RecentResends' \in Nat /\ RecentResends' <= RecentResends
    <3>1. RecentResends' = Cardinality(Since(WindowStart)')
      BY DEF RecentResends, CountSince, Since, WindowStart
    <3> QED BY <2>2, <3>1, CountsGrow, RecentIsSince DEF Since
  <2>4. (\A t : Resent(t)' = Resent(t)) /\ Issuing' = Issuing
    BY <2>1 DEF Resent, Stored, Issuing
  <2>5. RecentResends' + Cardinality(Issuing) < ResendLimit + crowd
    BY <2>3, <1>typed, CountsAreNumbers DEF ResendsFollowCount
  <2>6. \A t \in Nat : Cardinality(Resent(t))' < ResendLimit + crowd
    BY <2>4 DEF ResendsFollowCount
  <2> QED BY <2>1, <2>4, <2>5, <2>6 DEF ResendsFollowCount
<1>13. CASE UNCHANGED evVars
  <2>1. UNCHANGED <<otps, call, now, handler, crowd>>
    BY <1>13 DEF evVars, otpVars
  <2> QED BY <2>1, UncountedStep DEF ResendsFollowCount
<1> QED
  BY <1>1, <1>2, <1>3, <1>4, <1>5, <1>6, <1>7, <1>8, <1>9, <1>10, <1>11, <1>12, <1>13,
     <1>14, <1>15, <1>16, <1>17
  DEF EvNext

\* For any limit, hour and clock: the codes resent in an hour exceed the limit by
\* no more than the resends that had counted together, less one.
THEOREM RacesBoundTheOverrun == EvSpec => []OverrunIsCrowd
<1>1. EvInit => ResendsFollowCount
  <2> SUFFICES ASSUME EvInit PROVE ResendsFollowCount
    OBVIOUS
  <2>1. \A c \in Calls : otps[c].seq = 0 /\ call[c].step = "idle" /\ handler[c] = "new"
    BY DEF EvInit, OtpInit, NoRow, NoCall
  <2>2. Since(WindowStart) = {} /\ Issuing = {} /\ \A t \in Nat : Resent(t) = {}
    BY <2>1 DEF Since, Issuing, Resent, Stored
  <2>3. /\ Cardinality({}) = 0 /\ crowd = 0 /\ ResendLimit \in Nat /\ ResendLimit > 0
    BY FS_EmptySet, VerificationAssumption DEF EvInit
  <2> QED BY <2>1, <2>2, <2>3, RecentIsSince DEF ResendsFollowCount
<1>2. EvTypeOK /\ ResendsFollowCount => OverrunIsCrowd
  BY DEF OverrunIsCrowd, ResendsFollowCount, EvTypeOK, OtpTypeOK
<1> QED BY <1>1, <1>2, ResendsStep, EvInvHolds, PTL DEF EvSpec, EvInv

\* So the hourly limit that is documented holds until two resends have counted
\* before either saved its code.
THEOREM LimitHoldsWithoutRaces == EvSpec => [](crowd <= 1 => ResendLimitHolds)
<1>1. EvTypeOK /\ OverrunIsCrowd => (crowd <= 1 => ResendLimitHolds)
  <2> SUFFICES ASSUME EvTypeOK, OverrunIsCrowd, crowd <= 1, NEW t \in 0..now
               PROVE  Cardinality(Resent(t)) <= ResendLimit
    BY DEF ResendLimitHolds
  <2>1. Cardinality(Resent(t)) < ResendLimit + crowd
    BY DEF OverrunIsCrowd
  <2> QED BY <2>1, CountsAreNumbers, VerificationAssumption DEF EvTypeOK
<1> QED BY <1>1, RacesBoundTheOverrun, EvInvHolds, PTL DEF EvInv

=============================================================================
