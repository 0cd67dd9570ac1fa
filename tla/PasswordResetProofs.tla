-------------------------- MODULE PasswordResetProofs --------------------------
(***************************************************************************)
(* Theorems of PasswordReset: its handlers use the codes as OneTimeCodes   *)
(* specifies, so OneTimeCodesProofs applies; what they carry is kept in    *)
(* agreement with the codes; and together they implement ResetGrants.      *)
(***************************************************************************)
EXTENDS PasswordReset, OneTimeCodesProofs

\* Steps that touch neither the codes nor the clock.
NoCodeStep ==
  \/ RemoveUser \/ Crash
  \/ \E r \in Calls :
       \/ Forgot(r) \/ StartDelivery(r) \/ Settle(r) \/ ResetFind(r) \/ ResetFindsNoRow(r)
       \/ ResetUpdate(r)
       \/ (IssueSecond(r) /\ ~present)
       \/ \E accepted \in BOOLEAN : HandOver(r, accepted)
       \/ \E s \in Calls : Redeliver(r, s)

LEMMA NoCodeStepLeavesCodes == NoCodeStep => UNCHANGED otpVars
BY DEF NoCodeStep, RemoveUser, Crash, Forgot, StartDelivery, Settle, ResetFind,
       ResetFindsNoRow, ResetUpdate, IssueSecond, HandOver, Redeliver

\* The other steps are each a statement of the code service.
LEMMA StepsOfCodes ==
  [PrNext]_prVars <=>
    \/ NoCodeStep \/ TimePasses \/ UNCHANGED prVars
    \/ \E r \in Calls :
         \/ IssueFirst(r) \/ ResetMark(r) \/ (IssueSecond(r) /\ present)
         \/ \E s \in Calls : ResetSelect(r, s)
BY DEF PrNext, NoCodeStep

\* The handlers use the code service as OneTimeCodes specifies it: each of
\* their steps is a step of one of its calls, or none.
THEOREM ResetUsesCodes == PrSpec => ImplementsCodes
<1>1. PrInit => OtpInit
  BY DEF PrInit
<1>2. [PrNext]_prVars => [OtpNext]_otpVars
  <2> SUFFICES ASSUME [PrNext]_prVars PROVE [OtpNext]_otpVars
    OBVIOUS
  <2>1. ASSUME NEW r \in Calls, IssueFirst(r) PROVE OtpNext
    BY <2>1 DEF IssueFirst, OtpNext, Sources
  <2>2. ASSUME NEW r \in Calls, IssueSecond(r), present PROVE OtpNext
    BY <2>2 DEF IssueSecond, OtpNext
  <2>3. ASSUME NEW r \in Calls, NEW code \in Calls, ResetSelect(r, code) PROVE OtpNext
    BY <2>3 DEF ResetSelect, OtpNext
  <2>4. ASSUME NEW r \in Calls, ResetMark(r) PROVE OtpNext
    BY <2>4 DEF ResetMark, OtpNext
  <2>5. CASE TimePasses
    BY <2>5 DEF TimePasses, OtpNext
  <2>6. CASE UNCHANGED prVars
    BY <2>6 DEF prVars
  <2> QED
    BY <2>1, <2>2, <2>3, <2>4, <2>5, <2>6, StepsOfCodes, NoCodeStepLeavesCodes
<1> QED BY <1>1, <1>2, PTL DEF PrSpec, ImplementsCodes, OtpSpec

-----------------------------------------------------------------------------

LEMMA PrTypeStep == PrTypeOK /\ OtpTypeOK' /\ [PrNext]_prVars => PrTypeOK'
<1> SUFFICES ASSUME PrTypeOK, OtpTypeOK', [PrNext]_prVars PROVE PrTypeOK'
  OBVIOUS
<1> USE DEF PrTypeOK, Places, Delivering, Resetting, userVars, handlerVars, Move, Crosses
<1>1. ASSUME NEW r \in Calls, Forgot(r) PROVE PrTypeOK'
  BY <1>1 DEF Forgot
<1>2. ASSUME NEW r \in Calls, StartDelivery(r) PROVE PrTypeOK'
  BY <1>2 DEF StartDelivery
<1>3. ASSUME NEW r \in Calls, IssueFirst(r) PROVE PrTypeOK'
  BY <1>3 DEF IssueFirst
<1>4. ASSUME NEW r \in Calls, IssueSecond(r) PROVE PrTypeOK'
  BY <1>4 DEF IssueSecond
<1>5. ASSUME NEW r \in Calls, NEW accepted \in BOOLEAN, HandOver(r, accepted) PROVE PrTypeOK'
  BY <1>5 DEF HandOver
<1>6. ASSUME NEW r \in Calls, Settle(r) PROVE PrTypeOK'
  BY <1>6 DEF Settle
<1>7. ASSUME NEW r \in Calls, NEW s \in Calls, Redeliver(r, s) PROVE PrTypeOK'
  BY <1>7 DEF Redeliver
<1>8. ASSUME NEW r \in Calls, ResetFind(r) PROVE PrTypeOK'
  BY <1>8 DEF ResetFind
<1>9. ASSUME NEW r \in Calls, NEW code \in Calls, ResetSelect(r, code) PROVE PrTypeOK'
  BY <1>9 DEF ResetSelect
<1>10. ASSUME NEW r \in Calls, ResetFindsNoRow(r) PROVE PrTypeOK'
  BY <1>10 DEF ResetFindsNoRow
<1>11. ASSUME NEW r \in Calls, ResetMark(r) PROVE PrTypeOK'
  BY <1>11 DEF ResetMark
<1>12. ASSUME NEW r \in Calls, ResetUpdate(r) PROVE PrTypeOK'
  BY <1>12 DEF ResetUpdate
<1>13. CASE RemoveUser
  BY <1>13 DEF RemoveUser
<1>14. CASE Crash
  BY <1>14 DEF Crash
<1>15. CASE TimePasses
  BY <1>15 DEF TimePasses
<1>16. CASE UNCHANGED prVars
  BY <1>16 DEF prVars
<1> QED
  BY <1>1, <1>2, <1>3, <1>4, <1>5, <1>6, <1>7, <1>8, <1>9, <1>10, <1>11, <1>12, <1>13, <1>14,
     <1>15, <1>16 DEF PrNext

-----------------------------------------------------------------------------

PrInv == OtpInv /\ ResetInv

\* Every step keeps the resets, the codes mailed and the password in agreement.
LEMMA ResetAgreementStep ==
  PrInv /\ OtpInv' /\ PrTypeOK' /\ [PrNext]_prVars
    => ResetsOwnTheirCode' /\ DeliveriesAgreeWithCodes'
<1> SUFFICES ASSUME PrInv, OtpInv', PrTypeOK', [PrNext]_prVars
             PROVE  ResetsOwnTheirCode' /\ DeliveriesAgreeWithCodes'
  OBVIOUS
<1>typed. /\ PrTypeOK /\ OtpTypeOK /\ OtpTypeOK'
          /\ otps \in [Calls -> Rows] /\ call \in [Calls -> CallStates]
          /\ handler \in [Calls -> Places] /\ handler' \in [Calls -> Places]
  BY DEF PrInv, OtpInv, ResetInv, PrTypeOK, OtpTypeOK
<1>used. ConsumedOnce' /\ RowsMatchCalls /\ RowsMatchCalls'
  BY DEF PrInv, OtpInv
<1>before. ResetsOwnTheirCode /\ DeliveriesAgreeWithCodes
  BY DEF PrInv, ResetInv
<1> USE CodesAssumption
\* Steps that leave the codes alone, taken by handlers that move on.
<1>quiet. ASSUME UNCHANGED otpVars, mailed \subseteq mailed',
                 \A r \in mailed' : Stored(r), changed' = changed, password' = password,
                 \A r \in Calls :
                   /\ handler'[r] \in {"update", "200"} => handler[r] = handler'[r]
                   /\ handler[r] = "200" => handler'[r] = "200"
                   /\ handler'[r] = "mail" => handler[r] = "mail"
                   /\ handler'[r] \in {"new", "queued"} => call[r].step = "idle"
          PROVE  ResetsOwnTheirCode' /\ DeliveriesAgreeWithCodes'
  <2>1. otps' = otps /\ call' = call
    BY <1>quiet DEF otpVars
  <2>2. changed \subseteq Calls
    BY <1>typed DEF PrTypeOK
  <2>3. ResetsOwnTheirCode'
    BY <1>quiet, <1>before, <2>1, <2>2 DEF ResetsOwnTheirCode
  <2>4. DeliveriesAgreeWithCodes'
    BY <1>quiet, <1>before, <2>1 DEF DeliveriesAgreeWithCodes, Stored
  <2> QED BY <2>3, <2>4
<1>saved. \A r \in mailed : Stored(r)
  BY <1>before, <1>typed DEF DeliveriesAgreeWithCodes, PrTypeOK
<1>1. ASSUME NEW r \in Calls, Forgot(r)
      PROVE  ResetsOwnTheirCode' /\ DeliveriesAgreeWithCodes'
  BY <1>1, <1>quiet, <1>saved, <1>before, <1>typed
     DEF Forgot, Move, userVars, DeliveriesAgreeWithCodes
<1>2. ASSUME NEW r \in Calls, StartDelivery(r)
      PROVE  ResetsOwnTheirCode' /\ DeliveriesAgreeWithCodes'
  BY <1>2, <1>quiet, <1>saved, <1>before, <1>typed
     DEF StartDelivery, Move, userVars, DeliveriesAgreeWithCodes
<1>3. ASSUME NEW r \in Calls, IssueFirst(r)
      PROVE  ResetsOwnTheirCode' /\ DeliveriesAgreeWithCodes'
  <2>1. /\ call[r].step = "idle" /\ call'[r].step = "hashing"
        /\ \A s \in Calls : s # r => call'[s] = call[s]
        /\ \A s \in Calls : otps'[s].seq = otps[s].seq
        /\ UNCHANGED <<userVars, handlerVars>> /\ handler[r] = "issue"
    BY <1>3, <1>typed DEF IssueFirst, BeginIssue, Rows, CallStates
  <2>2. ResetsOwnTheirCode'
    BY <1>used, <1>before, <2>1
       DEF ResetsOwnTheirCode, ConsumedOnce, userVars, handlerVars
  <2>3. DeliveriesAgreeWithCodes'
    BY <1>before, <2>1 DEF DeliveriesAgreeWithCodes, Stored, handlerVars
  <2> QED BY <2>2, <2>3
<1>4. ASSUME NEW r \in Calls, IssueSecond(r)
      PROVE  ResetsOwnTheirCode' /\ DeliveriesAgreeWithCodes'
  <2>1. CASE present
    <3>1. /\ call[r].step = "hashing" /\ call'[r].step = "issued"
          /\ \A s \in Calls : s # r => call'[s] = call[s] /\ otps'[s] = otps[s]
          /\ otps'[r].seq = saved + 1 /\ handler[r] = "issue" /\ handler'[r] = "mail"
          /\ \A s \in Calls : s # r => handler'[s] = handler[s]
          /\ UNCHANGED <<userVars, mailed>>
      BY <1>4, <2>1, <1>typed DEF IssueSecond, FinishIssue, Move, CallStates
    <3>2. saved + 1 > 0
      BY <1>typed DEF OtpTypeOK
    <3>3. ResetsOwnTheirCode'
      BY <1>used, <1>before, <1>typed, <3>1 DEF ResetsOwnTheirCode, ConsumedOnce, userVars, PrTypeOK
    <3>4. DeliveriesAgreeWithCodes'
      BY <1>before, <3>1, <3>2 DEF DeliveriesAgreeWithCodes, Stored
    <3> QED BY <3>3, <3>4
  <2>2. CASE ~present
    BY <1>4, <2>2, <1>quiet, <1>saved, <1>before, <1>typed
       DEF IssueSecond, Move, userVars, DeliveriesAgreeWithCodes
  <2> QED BY <2>1, <2>2
<1>5. ASSUME NEW r \in Calls, NEW accepted \in BOOLEAN, HandOver(r, accepted)
      PROVE  ResetsOwnTheirCode' /\ DeliveriesAgreeWithCodes'
  <2>1. Stored(r)
    BY <1>5, <1>before DEF HandOver, Move, DeliveriesAgreeWithCodes
  <2> QED
    BY <1>5, <2>1, <1>quiet, <1>saved, <1>before, <1>typed
       DEF HandOver, Move, userVars, DeliveriesAgreeWithCodes
<1>6. ASSUME NEW r \in Calls, Settle(r)
      PROVE  ResetsOwnTheirCode' /\ DeliveriesAgreeWithCodes'
  BY <1>6, <1>quiet, <1>saved, <1>before, <1>typed
     DEF Settle, Move, userVars, DeliveriesAgreeWithCodes
<1>7. ASSUME NEW r \in Calls, NEW s \in Calls, Redeliver(r, s)
      PROVE  ResetsOwnTheirCode' /\ DeliveriesAgreeWithCodes'
  BY <1>7, <1>quiet, <1>saved, <1>before, <1>typed
     DEF Redeliver, userVars, DeliveriesAgreeWithCodes
<1>8. ASSUME NEW r \in Calls, ResetFind(r)
      PROVE  ResetsOwnTheirCode' /\ DeliveriesAgreeWithCodes'
  BY <1>8, <1>quiet, <1>saved, <1>before, <1>typed
     DEF ResetFind, Move, userVars, DeliveriesAgreeWithCodes
<1>9. ASSUME NEW r \in Calls, NEW code \in Calls, ResetSelect(r, code)
      PROVE  ResetsOwnTheirCode' /\ DeliveriesAgreeWithCodes'
  <2>1. /\ call[r].step = "idle" /\ UNCHANGED otps
        /\ \A s \in Calls : s # r => call'[s] = call[s] /\ handler'[s] = handler[s]
        /\ \/ call'[r].step = "matched" /\ call'[r].row = code
           \/ call'[r].step = "rejected"
        /\ handler[r] = "consume" /\ handler'[r] \in {"consume", "400"}
        /\ code \in mailed /\ UNCHANGED <<userVars, mailed>>
    BY <1>9, <1>typed DEF ResetSelect, SelectLatest, NoCall
  <2>2. ResetsOwnTheirCode'
    BY <1>used, <1>before, <1>typed, <2>1 DEF ResetsOwnTheirCode, ConsumedOnce, userVars, PrTypeOK
  <2>3. DeliveriesAgreeWithCodes'
    BY <1>before, <2>1 DEF DeliveriesAgreeWithCodes, Stored
  <2> QED BY <2>2, <2>3
<1>10. ASSUME NEW r \in Calls, ResetFindsNoRow(r)
      PROVE  ResetsOwnTheirCode' /\ DeliveriesAgreeWithCodes'
  BY <1>10, <1>quiet, <1>saved, <1>before, <1>typed
     DEF ResetFindsNoRow, Move, userVars, DeliveriesAgreeWithCodes
<1>11. ASSUME NEW r \in Calls, ResetMark(r)
      PROVE  ResetsOwnTheirCode' /\ DeliveriesAgreeWithCodes'
  <2>0. MarkUsed(r) /\ call[r].step = "matched"
    BY <1>11 DEF ResetMark, MarkUsed
  <2>1. /\ call'[r].row = call[r].row /\ call'[r].step \in {"consumed", "rejected"}
        /\ \A s \in Calls : s # r => call'[s] = call[s]
    BY <2>0, <1>typed DEF MarkUsed, CallStates
  <2>2. \A s \in Calls : otps'[s].seq = otps[s].seq
    <3>1. otps' = otps \/ otps' = [otps EXCEPT ![call[r].row].usedBy = r]
      BY <2>0 DEF MarkUsed
    <3> QED BY <3>1, <1>typed, <1>used, <2>0 DEF Rows, RowsMatchCalls
  <2>3. /\ handler[r] = "consume" /\ handler'[r] \in {"update", "400"}
        /\ handler'[r] = "update" => call'[r].step = "consumed"
        /\ \A s \in Calls : s # r => handler'[s] = handler[s]
        /\ UNCHANGED <<userVars, mailed>>
    BY <1>11, <1>typed DEF ResetMark, Move
  <2>4. ResetsOwnTheirCode'
    BY <1>used, <1>before, <1>typed, <2>0, <2>1, <2>3
       DEF ResetsOwnTheirCode, ConsumedOnce, userVars, PrTypeOK
  <2>5. DeliveriesAgreeWithCodes'
    BY <1>before, <2>0, <2>1, <2>2, <2>3 DEF DeliveriesAgreeWithCodes, Stored
  <2> QED BY <2>4, <2>5
<1>12. ASSUME NEW r \in Calls, ResetUpdate(r)
      PROVE  ResetsOwnTheirCode' /\ DeliveriesAgreeWithCodes'
  <2>1. /\ handler[r] = "update" /\ handler'[r] = "200"
        /\ \A s \in Calls : s # r => handler'[s] = handler[s]
        /\ otps' = otps /\ call' = call /\ mailed' = mailed
        /\ \/ password' = r /\ changed' = changed \cup {r}
           \/ UNCHANGED <<password, changed>>
    BY <1>12, <1>typed DEF ResetUpdate, Move, otpVars
  <2>2. ResetsOwnTheirCode'
    BY <1>before, <1>typed, <2>1 DEF ResetsOwnTheirCode, PrTypeOK
  <2>3. DeliveriesAgreeWithCodes'
    BY <1>before, <2>1 DEF DeliveriesAgreeWithCodes, Stored
  <2> QED BY <2>2, <2>3
<1>13. CASE RemoveUser
  BY <1>13, <1>before DEF RemoveUser, handlerVars, otpVars, ResetsOwnTheirCode,
     DeliveriesAgreeWithCodes, Stored
<1>14. CASE Crash
  <2>1. \A r \in Calls : handler'[r] = handler[r] \/ handler'[r] \in {"stalled", "lost"}
    BY <1>14 DEF Crash
  <2>2. \A r \in Calls : handler[r] = "200" => handler'[r] = "200"
    BY <1>14 DEF Crash, Delivering, Resetting
  <2>3. \A r \in Calls : handler[r] \in {"new", "queued"} => call[r].step = "idle"
    BY <1>before DEF DeliveriesAgreeWithCodes
  <2>4. UNCHANGED <<otpVars, changed, password, mailed>>
    BY <1>14 DEF Crash, userVars
  <2> QED BY <2>1, <2>2, <2>3, <2>4, <1>quiet, <1>saved
<1>15. CASE TimePasses
  BY <1>15, <1>before DEF TimePasses, Tick, userVars, handlerVars, ResetsOwnTheirCode,
     DeliveriesAgreeWithCodes, Stored
<1>16. CASE UNCHANGED prVars
  BY <1>16, <1>before DEF prVars, otpVars, userVars, handlerVars, ResetsOwnTheirCode,
     DeliveriesAgreeWithCodes, Stored
<1> QED
  BY <1>1, <1>2, <1>3, <1>4, <1>5, <1>6, <1>7, <1>8, <1>9, <1>10, <1>11, <1>12, <1>13, <1>14,
     <1>15, <1>16 DEF PrNext

LEMMA PrInvHolds == PrSpec => []PrInv
<1>1. PrSpec => []OtpInv
  BY ResetUsesCodes, OtpInvHolds, PTL DEF ImplementsCodes
<1>2. PrInit => ResetInv
  <2> SUFFICES ASSUME PrInit PROVE ResetInv
    OBVIOUS
  <2>1. PrTypeOK
    BY OtpTypeInit DEF PrInit, PrTypeOK, Places
  <2>2. \A c \in Calls : call[c].step = "idle" /\ handler[c] = "new"
    BY DEF PrInit, OtpInit, NoCall
  <2> QED
    BY <2>1, <2>2, CodesAssumption
    DEF PrInit, ResetInv, ResetsOwnTheirCode, DeliveriesAgreeWithCodes
<1>3. OtpInv /\ OtpInv' /\ ResetInv /\ [PrNext]_prVars => ResetInv'
  BY PrTypeStep, ResetAgreementStep DEF PrInv, OtpInv, ResetInv
<1> QED BY <1>1, <1>2, <1>3, PTL DEF PrSpec, PrInv

\* A password is changed, and a reset answered 200, only by a mailed code that
\* the reset alone used; codes, deliveries and resets keep their types.
THEOREM ResetInvariant == PrSpec => []ResetInv
BY PrInvHolds, PTL DEF PrInv

-----------------------------------------------------------------------------
(* PasswordReset implements ResetGrants *)

\* What the step does to the stored, claimable and consumed codes decides which
\* step of ResetGrants it is.
LEMMA SameGrants ==
  ASSUME \A c \in Calls : Stored(c)' = Stored(c) /\ Claimable(c)' = Claimable(c),
         claimOf' = claimOf, UNCHANGED <<changed, password>>
  PROVE  UNCHANGED Grants!grantVars
<1>1. grantOf' = grantOf
  BY DEF grantOf
<1> QED BY <1>1 DEF Grants!grantVars

LEMMA FewerGrants ==
  ASSUME \A c \in Calls : Stored(c)' = Stored(c) /\ (Claimable(c)' => Claimable(c)),
         claimOf' = claimOf, UNCHANGED <<changed, password>>
  PROVE  Grants!GrantsNext
<1> DEFINE S == {c \in Calls : Claimable(c) /\ ~Claimable(c)'}
<1>1. \A g \in S : grantOf[g] = "open"
  BY DEF grantOf, Claimable
<1>2. grantOf' = [g \in Calls |-> IF g \in S THEN "closed" ELSE grantOf[g]]
  BY DEF grantOf, Claimable
<1>3. Grants!Withdraw(S)
  BY <1>1, <1>2 DEF Grants!Withdraw
<1>4. S \in SUBSET Calls
  OBVIOUS
<1> HIDE DEF S
<1> QED BY <1>3, <1>4 DEF Grants!GrantsNext

\* Claims are those of the calls that consumed a row.
LEMMA SameClaims ==
  ASSUME \A c \in Calls :
           /\ call'[c].step = "consumed" <=> call[c].step = "consumed"
           /\ call[c].step = "consumed" => call'[c].row = call[c].row
  PROVE  claimOf' = claimOf
BY DEF claimOf

LEMMA GrantStep ==
  PrInv /\ PrInv' /\ [PrNext]_prVars => [Grants!GrantsNext]_Grants!grantVars
<1> SUFFICES ASSUME PrInv, PrInv', [PrNext]_prVars
             PROVE  [Grants!GrantsNext]_Grants!grantVars
  OBVIOUS
<1>typed. /\ PrTypeOK /\ OtpTypeOK
          /\ otps \in [Calls -> Rows] /\ call \in [Calls -> CallStates]
  BY DEF PrInv, OtpInv, ResetInv, PrTypeOK, OtpTypeOK
<1>rows. RowsMatchCalls
  BY DEF PrInv, OtpInv
<1> USE CodesAssumption
<1>quiet. ASSUME UNCHANGED <<otps, call, present, changed, password>>
          PROVE  UNCHANGED Grants!grantVars
  <2>1. \A c \in Calls : Stored(c)' = Stored(c) /\ Claimable(c)' = Claimable(c)
    BY <1>quiet DEF Stored, Claimable
  <2>2. claimOf' = claimOf
    BY <1>quiet DEF claimOf
  <2> QED BY <1>quiet, <2>1, <2>2, SameGrants
<1>1. CASE NoCodeStep
  <2>1. CASE RemoveUser
    <3>1. UNCHANGED <<otps, call, changed, password>> /\ present' = FALSE
      BY <2>1 DEF RemoveUser, otpVars
    <3>2. \A c \in Calls : Stored(c)' = Stored(c) /\ (Claimable(c)' => Claimable(c))
      BY <3>1 DEF Stored, Claimable
    <3>3. claimOf' = claimOf
      BY <3>1 DEF claimOf
    <3> QED BY <3>1, <3>2, <3>3, FewerGrants
  <2>2. ASSUME NEW r \in Calls, ResetUpdate(r)
        PROVE  [Grants!GrantsNext]_Grants!grantVars
    <3>1. UNCHANGED <<otps, call, present>>
      BY <2>2 DEF ResetUpdate, otpVars
    <3>2. CASE present
      <4>1. password' = r /\ changed' = changed \cup {r} /\ handler[r] = "update"
        BY <2>2, <3>2 DEF ResetUpdate, Move
      <4>2. grantOf' = grantOf /\ claimOf' = claimOf
        BY <3>1 DEF grantOf, claimOf, Claimable, Stored
      <4>3. r \notin changed /\ call[r].step = "consumed"
        BY <4>1 DEF PrInv, ResetInv, ResetsOwnTheirCode
      <4>4. claimOf[r] # NULL
        BY <4>3, <1>rows DEF claimOf, RowsMatchCalls
      <4>5. Grants!Change(r)
        BY <4>1, <4>2, <4>3, <4>4 DEF Grants!Change
      <4> QED BY <4>5 DEF Grants!GrantsNext
    <3>3. CASE ~present
      BY <2>2, <3>1, <3>3, <1>quiet DEF ResetUpdate
    <3> QED BY <3>2, <3>3
  <2>3. CASE ~RemoveUser /\ \A r \in Calls : ~ResetUpdate(r)
    <3>1. UNCHANGED userVars
      BY <1>1, <2>3 DEF NoCodeStep, Crash, Forgot, StartDelivery, Settle, ResetFind,
         ResetFindsNoRow, IssueSecond, HandOver, Redeliver
    <3> QED BY <1>1, <3>1, <1>quiet, NoCodeStepLeavesCodes DEF otpVars, userVars
  <2> QED BY <2>1, <2>2, <2>3
<1>2. ASSUME NEW r \in Calls, IssueFirst(r) PROVE [Grants!GrantsNext]_Grants!grantVars
  <2>1. /\ call[r].step = "idle" /\ call'[r].step = "hashing"
        /\ \A s \in Calls : s # r => call'[s] = call[s]
        /\ \A s \in Calls : otps'[s].seq = otps[s].seq
                            /\ otps'[s].usedBy \in {otps[s].usedBy, r}
        /\ UNCHANGED <<present, changed, password>>
    BY <1>2, <1>typed DEF IssueFirst, BeginIssue, Rows, CallStates, userVars
  <2>2. \A c \in Calls : Stored(c)' = Stored(c) /\ (Claimable(c)' => Claimable(c))
    BY <2>1 DEF Stored, Claimable
  <2>3. claimOf' = claimOf
    BY <2>1, SameClaims
  <2> QED BY <2>1, <2>2, <2>3, FewerGrants
<1>3. ASSUME NEW r \in Calls, IssueSecond(r), present
      PROVE  [Grants!GrantsNext]_Grants!grantVars
  <2>1. /\ call[r].step = "hashing" /\ call'[r].step = "issued"
        /\ \A s \in Calls : s # r => call'[s] = call[s] /\ otps'[s] = otps[s]
        /\ otps'[r].seq = saved + 1 /\ otps'[r].usedBy = NULL
        /\ UNCHANGED <<present, changed, password>>
    BY <1>3, <1>typed DEF IssueSecond, FinishIssue, CallStates, Rows, userVars
  <2>2. ~Stored(r) /\ saved + 1 > 0
    BY <2>1, <1>rows, <1>typed DEF RowsMatchCalls, OtpTypeOK
  <2>3. claimOf' = claimOf
    BY <2>1, SameClaims
  <2>4. grantOf[r] = "none"
    BY <2>2 DEF grantOf
  <2>5. grantOf' = [grantOf EXCEPT ![r] = "open"]
    BY <1>3, <2>1, <2>2 DEF grantOf, Claimable, Stored
  <2>6. Grants!Open(r)
    BY <2>1, <2>3, <2>4, <2>5 DEF Grants!Open
  <2> QED BY <2>6 DEF Grants!GrantsNext
<1>4. ASSUME NEW r \in Calls, NEW code \in Calls, ResetSelect(r, code)
      PROVE  [Grants!GrantsNext]_Grants!grantVars
  <2>1. /\ call[r].step = "idle" /\ UNCHANGED <<otps, present, changed, password>>
        /\ \A s \in Calls : s # r => call'[s] = call[s]
        /\ call'[r].step \in {"matched", "rejected"}
    BY <1>4, <1>typed DEF ResetSelect, SelectLatest, NoCall, userVars
  <2>2. \A c \in Calls : Stored(c)' = Stored(c) /\ Claimable(c)' = Claimable(c)
    BY <2>1 DEF Stored, Claimable
  <2>3. claimOf' = claimOf
    BY <2>1, SameClaims
  <2> QED BY <2>1, <2>2, <2>3, SameGrants
<1>5. ASSUME NEW r \in Calls, ResetMark(r) PROVE [Grants!GrantsNext]_Grants!grantVars
  <2>1. /\ present /\ call[r].step = "matched" /\ MarkUsed(r)
        /\ UNCHANGED <<present, changed, password>>
    BY <1>5 DEF ResetMark, MarkUsed, userVars
  <2>2. call[r].row \in Calls /\ Stored(call[r].row)
    BY <2>1, <1>rows DEF RowsMatchCalls
  <2>3. CASE otps[call[r].row].usedBy = NULL
    <3> DEFINE g == call[r].row
    <3>1. /\ otps' = [otps EXCEPT ![g].usedBy = r]
          /\ call' = [call EXCEPT ![r].step = "consumed"]
      BY <2>1, <2>3 DEF MarkUsed
    <3>2. /\ otps'[g].usedBy = r /\ \A s \in Calls : otps'[s].seq = otps[s].seq
          /\ \A s \in Calls : s # g => otps'[s] = otps[s]
      BY <3>1, <2>2, <1>typed DEF Rows
    <3>3. /\ call'[r].step = "consumed" /\ call'[r].row = g
          /\ \A s \in Calls : s # r => call'[s] = call[s]
      BY <3>1, <1>typed DEF CallStates
    <3>4. grantOf[g] = "open" /\ claimOf[r] = NULL
      BY <2>1, <2>2, <2>3 DEF grantOf, claimOf, Claimable
    <3>5. grantOf' = [grantOf EXCEPT ![g] = "closed"]
      BY <2>1, <2>2, <3>2 DEF grantOf, Claimable, Stored
    <3>6. claimOf' = [claimOf EXCEPT ![r] = g]
      BY <3>3 DEF claimOf
    <3>7. Grants!Claim(r, g)
      BY <2>1, <3>4, <3>5, <3>6 DEF Grants!Claim
    <3> QED BY <2>2, <3>7 DEF Grants!GrantsNext
  <2>4. CASE otps[call[r].row].usedBy # NULL
    <3>1. UNCHANGED otps /\ call' = [call EXCEPT ![r].step = "rejected"]
      BY <2>1, <2>4 DEF MarkUsed
    <3>2. call'[r].step = "rejected" /\ \A s \in Calls : s # r => call'[s] = call[s]
      BY <3>1, <1>typed DEF CallStates
    <3>3. claimOf' = claimOf
      BY <2>1, <3>2, SameClaims
    <3>4. \A c \in Calls : Stored(c)' = Stored(c) /\ Claimable(c)' = Claimable(c)
      BY <2>1, <3>1 DEF Stored, Claimable
    <3> QED BY <2>1, <3>3, <3>4, SameGrants
  <2> QED BY <2>3, <2>4
<1>6. CASE TimePasses
  BY <1>6, <1>quiet DEF TimePasses, Tick, userVars
<1>7. CASE UNCHANGED prVars
  BY <1>7, <1>quiet DEF prVars, otpVars, userVars
<1> QED
  BY <1>1, <1>2, <1>3, <1>4, <1>5, <1>6, <1>7, StepsOfCodes

\* Resetting a password keeps the promise of ResetGrants: each mailed code
\* changes the password at most once, and never again once it was superseded.
THEOREM ResetImplementsGrants == PrSpec => ImplementsGrants
<1>1. PrInit => Grants!GrantsInit
  BY DEF PrInit, OtpInit, NoRow, NoCall, Grants!GrantsInit, grantOf, claimOf, Stored
<1> QED
  BY <1>1, GrantStep, PrInvHolds, PTL DEF PrSpec, ImplementsGrants, Grants!GrantsSpec

\* Whatever ResetGrants does keeps claims apart and changes claimed.
LEMMA GrantsInvInductive ==
  Grants!GrantsInv /\ [Grants!GrantsNext]_Grants!grantVars => Grants!GrantsInv'
<1> SUFFICES ASSUME Grants!GrantsInv, [Grants!GrantsNext]_Grants!grantVars
             PROVE  Grants!GrantsInv'
  OBVIOUS
<1> USE DEF Grants!GrantsInv, Grants!GrantsTypeOK, Grants!ClaimsApart, Grants!ChangesAreClaimed
<1>1. ASSUME NEW S \in SUBSET Calls, Grants!Withdraw(S) PROVE Grants!GrantsInv'
  BY <1>1 DEF Grants!Withdraw
<1>2. ASSUME NEW g \in Calls, Grants!Open(g) PROVE Grants!GrantsInv'
  BY <1>2 DEF Grants!Open
<1>3. ASSUME NEW c \in Calls, Grants!Change(c) PROVE Grants!GrantsInv'
  BY <1>3 DEF Grants!Change
<1>4. ASSUME NEW c \in Calls, NEW g \in Calls, Grants!Claim(c, g) PROVE Grants!GrantsInv'
  <2>1. /\ grantOf[g] = "open" /\ grantOf' = [grantOf EXCEPT ![g] = "closed"]
        /\ claimOf[c] = NULL /\ claimOf' = [claimOf EXCEPT ![c] = g]
        /\ UNCHANGED <<changed, password>>
    BY <1>4 DEF Grants!Claim
  <2>2. Grants!GrantsTypeOK'
    BY <2>1
  <2>3. \A d \in Calls : claimOf[d] # g
    BY <2>1, CodesAssumption
  <2>4. Grants!ClaimsApart'
    BY <2>1, <2>3, CodesAssumption
  <2>5. Grants!ChangesAreClaimed'
    BY <2>1, CodesAssumption
  <2> QED BY <2>2, <2>4, <2>5
<1>5. CASE UNCHANGED Grants!grantVars
  BY <1>5 DEF Grants!grantVars
<1> QED
  BY <1>1, <1>2, <1>3, <1>4, <1>5 DEF Grants!GrantsNext

\* What the refinement is for: every change of the password took a code that no
\* other change took, and a code that was used, superseded or removed is out of
\* use for good, whatever is in flight when it happens.
THEOREM EachChangeTookACode ==
  PrSpec => [](Grants!ClaimsApart /\ Grants!ChangesAreClaimed) /\ Grants!ClosedForGood
<1>1. Grants!GrantsInit => Grants!GrantsInv
  BY DEF Grants!GrantsInit, Grants!GrantsInv, Grants!GrantsTypeOK, Grants!ClaimsApart,
         Grants!ChangesAreClaimed
<1>2. Grants!GrantsInv => Grants!ClaimsApart /\ Grants!ChangesAreClaimed
  BY DEF Grants!GrantsInv
<1>3. Grants!GrantsInv /\ [Grants!GrantsNext]_Grants!grantVars =>
        [/\ \A g \in Calls : grantOf[g] = "closed" => grantOf'[g] = "closed"
         /\ \A c \in Calls : claimOf[c] # NULL => claimOf'[c] = claimOf[c]
         /\ changed \subseteq changed']_Grants!grantVars
  <2> SUFFICES ASSUME Grants!GrantsInv, Grants!GrantsNext
               PROVE  /\ \A g \in Calls : grantOf[g] = "closed" => grantOf'[g] = "closed"
                      /\ \A c \in Calls : claimOf[c] # NULL => claimOf'[c] = claimOf[c]
                      /\ changed \subseteq changed'
    OBVIOUS
  <2> USE DEF Grants!GrantsInv, Grants!GrantsTypeOK
  <2>1. CASE \E S \in SUBSET Calls : Grants!Withdraw(S)
    BY <2>1 DEF Grants!Withdraw
  <2>2. CASE \E g \in Calls : Grants!Open(g)
    BY <2>2 DEF Grants!Open
  <2>3. CASE \E c \in Calls : Grants!Change(c)
    BY <2>3 DEF Grants!Change
  <2>4. CASE \E c \in Calls, g \in Calls : Grants!Claim(c, g)
    BY <2>4 DEF Grants!Claim
  <2> QED BY <2>1, <2>2, <2>3, <2>4 DEF Grants!GrantsNext
<1> QED
  BY <1>1, <1>2, <1>3, GrantsInvInductive, ResetImplementsGrants, PTL
     DEF ImplementsGrants, Grants!GrantsSpec, Grants!ClosedForGood

-----------------------------------------------------------------------------
(* The newest code *)

\* Uncrossed, the active code is the newest row, there is none while one is
\* being issued, and what a reset holds is at least as new as the codes that
\* changed the password.  A reset whose code has expired since it selected it
\* still holds it; one whose code was superseded does not.
NewestRowOnly ==
  ~crossed =>
    /\ \A c, d \in Calls : Active(c) /\ Stored(d) => otps[d].seq <= otps[c].seq
    /\ Issuing # {} => \A c \in Calls : ~Active(c)
    /\ \A r \in Holding :
         \A s \in changed : otps[call[s].row].seq <= otps[call[r].row].seq

\* What a reset holds is a row, that it selected or used.
HeldAreRows == \A r \in Holding : call[r].step \in {"matched", "consumed"}
                                  /\ call[r].row \in Calls

LEMMA HeldRows == (PrInv => HeldAreRows) /\ (PrInv' => HeldAreRows')
<1>1. PrInv => HeldAreRows
  BY DEF PrInv, OtpInv, ResetInv, ResetsOwnTheirCode, RowsMatchCalls, Holding, HeldAreRows
<1>2. PrInv' => HeldAreRows'
  BY DEF PrInv, OtpInv, ResetInv, ResetsOwnTheirCode, RowsMatchCalls, Holding, HeldAreRows
<1> QED BY <1>1, <1>2

LEMMA NewestRowStep ==
  PrInv /\ PrInv' /\ NewestRowOnly /\ OnlyCrossingsUndoNewest /\ [PrNext]_prVars
    => NewestRowOnly' /\ OnlyCrossingsUndoNewest'
<1> SUFFICES ASSUME PrInv, PrInv', NewestRowOnly, OnlyCrossingsUndoNewest,
                    [PrNext]_prVars, ~crossed'
             PROVE  NewestRowOnly' /\ OnlyCrossingsUndoNewest'
  BY DEF NewestRowOnly, OnlyCrossingsUndoNewest
<1>typed. /\ PrTypeOK /\ OtpTypeOK
          /\ otps \in [Calls -> Rows] /\ call \in [Calls -> CallStates]
          /\ handler \in [Calls -> Places] /\ now \in Nat /\ saved \in Nat
          /\ changed \subseteq Calls
  BY DEF PrInv, OtpInv, ResetInv, PrTypeOK, OtpTypeOK
<1>rows. RowsMatchCalls /\ DeliveriesAgreeWithCodes /\ ResetsOwnTheirCode
  BY DEF PrInv, OtpInv, ResetInv
<1>uncrossed. ~crossed
  BY <1>typed DEF PrTypeOK, PrNext, TimePasses, RemoveUser, Crash, Forgot, StartDelivery,
     IssueFirst, IssueSecond, HandOver, Settle, ResetFind, ResetFindsNoRow, ResetMark,
     ResetUpdate, Redeliver, ResetSelect, Crosses, prVars, handlerVars
\* Rows of resets that changed the password are stored.
<1>spent. \A s \in changed : call[s].step = "consumed" /\ call[s].row \in Calls
                             /\ Stored(call[s].row)
  BY <1>rows, <1>typed DEF ResetsOwnTheirCode, RowsMatchCalls
<1>before. /\ \A c, d \in Calls : Active(c) /\ Stored(d) => otps[d].seq <= otps[c].seq
           /\ Issuing # {} => \A c \in Calls : ~Active(c)
           /\ \A r \in Holding :
                \A s \in changed : otps[call[s].row].seq <= otps[call[r].row].seq
           /\ \A r \in changed : otps[call[r].row].seq <= otps[call[password].row].seq
  BY <1>uncrossed DEF NewestRowOnly, OnlyCrossingsUndoNewest
<1>set. /\ password # NULL => password \in changed
        /\ password = NULL => changed = {}
  BY <1>rows DEF ResetsOwnTheirCode
\* Steps that save no row, make none active and change no password.
<1>calm. ASSUME \A c \in Calls : otps'[c].seq = otps[c].seq /\ (Active(c)' => Active(c)),
                UNCHANGED <<changed, password>>,
                \A r \in Calls : call[r].step = "consumed" => call'[r].row = call[r].row,
                Issuing' # {} => \A c \in Calls : ~Active(c)',
                \A r \in Holding' :
                  \A s \in changed : otps[call[s].row].seq <= otps[call'[r].row].seq
         PROVE  NewestRowOnly' /\ OnlyCrossingsUndoNewest'
  <2>1. \A s \in changed : call'[s].row = call[s].row
    BY <1>calm, <1>spent, <1>typed
  <2>2. \A s \in changed : otps'[call'[s].row].seq = otps[call[s].row].seq
    BY <2>1, <1>calm, <1>spent
  <2>3. OnlyCrossingsUndoNewest'
    BY <2>2, <1>before, <1>set, <1>calm DEF OnlyCrossingsUndoNewest
  <2>4. \A r \in Holding' : call'[r].row \in Calls
    BY HeldRows DEF HeldAreRows
  <2>5. \A r \in Holding' : \A s \in changed' :
          otps'[call'[s].row].seq <= otps'[call'[r].row].seq
    BY <2>2, <2>4, <1>calm
  <2>6. \A c, d \in Calls : Active(c)' /\ Stored(d)' => otps'[d].seq <= otps'[c].seq
    BY <1>before, <1>calm DEF Stored
  <2>7. NewestRowOnly'
    BY <2>5, <2>6, <1>calm DEF NewestRowOnly
  <2> QED BY <2>3, <2>7
\* Of these, the steps that leave the codes alone and make no handler hold one.
<1>quiet. ASSUME UNCHANGED <<otps, call, changed, password>>, now' >= now, now' \in Nat,
                 \A r \in Calls :
                   \/ handler'[r] \notin {"issue", "consume", "update"}
                   \/ handler'[r] = handler[r]
                   \/ handler'[r] \in {"issue", "consume"} /\ call[r].step = "idle"
          PROVE  NewestRowOnly' /\ OnlyCrossingsUndoNewest'
  <2>1. \A c \in Calls : Active(c)' => Active(c)
    BY <1>quiet, <1>typed DEF Active, Stored, Rows
  <2>2. Issuing' \subseteq Issuing /\ Holding' \subseteq Holding
    BY <1>quiet DEF Issuing, Holding
  <2>3. \A r \in Holding' :
          \A s \in changed : otps[call[s].row].seq <= otps[call'[r].row].seq
    BY <1>quiet, <1>before, <2>2
  <2>4. Issuing' # {} => \A c \in Calls : ~Active(c)'
    BY <1>before, <2>1, <2>2
  <2> QED BY <1>quiet, <1>calm, <2>1, <2>3, <2>4
<1>1. ASSUME NoCodeStep, ~\E r \in Calls : ResetUpdate(r)
      PROVE  NewestRowOnly' /\ OnlyCrossingsUndoNewest'
  <2>1. UNCHANGED <<otps, call, now>>
    BY <1>1, NoCodeStepLeavesCodes DEF otpVars
  <2>2. UNCHANGED <<changed, password>>
    BY <1>1 DEF NoCodeStep, RemoveUser, Crash, Forgot, StartDelivery, Settle, ResetFind,
       ResetFindsNoRow, IssueSecond, HandOver, Redeliver, userVars
  <2>3. \A r \in Calls :
          \/ handler'[r] \notin {"issue", "consume", "update"}
          \/ handler'[r] = handler[r]
          \/ handler'[r] \in {"issue", "consume"} /\ handler[r] \in {"new", "queued"}
    BY <1>1, <1>typed DEF NoCodeStep, RemoveUser, Crash, Forgot, StartDelivery, Settle,
       ResetFind, Move, ResetFindsNoRow, IssueSecond, HandOver, Redeliver, handlerVars
  <2>4. \A r \in Calls : handler[r] \in {"new", "queued"} => call[r].step = "idle"
    BY <1>rows DEF DeliveriesAgreeWithCodes
  <2> QED BY <2>1, <2>2, <2>3, <2>4, <1>quiet, <1>typed
<1>2. ASSUME NEW r \in Calls, ResetUpdate(r)
      PROVE  NewestRowOnly' /\ OnlyCrossingsUndoNewest'
  <2>1. /\ UNCHANGED <<otps, call, now>> /\ handler[r] = "update" /\ handler'[r] = "200"
        /\ \A s \in Calls : s # r => handler'[s] = handler[s]
    BY <1>2, <1>typed DEF ResetUpdate, Move, otpVars
  <2>2. CASE ~present
    BY <1>2, <2>1, <2>2, <1>quiet, <1>typed DEF ResetUpdate
  <2>3. CASE present
    <3>1. password' = r /\ changed' = changed \cup {r} /\ Holding \subseteq {r}
      BY <1>2, <2>3 DEF ResetUpdate, Crosses
    <3>2. call[r].step = "consumed" /\ call[r].row \in Calls
      BY <2>1, <1>rows DEF ResetsOwnTheirCode, RowsMatchCalls
    <3>3. \A s \in changed : otps[call[s].row].seq <= otps[call[r].row].seq
      BY <2>1, <1>before DEF Holding
    <3>4. otps[call[r].row].seq \in Nat
      BY <3>2, <1>typed DEF Rows
    <3>5. OnlyCrossingsUndoNewest'
      BY <2>1, <3>1, <3>3, <3>4 DEF OnlyCrossingsUndoNewest
    <3>6. Holding' = {} /\ Issuing' = Issuing
      BY <2>1, <3>1 DEF Holding, Issuing
    <3>7. NewestRowOnly'
      BY <2>1, <3>6, <1>before DEF NewestRowOnly, Active, Stored
    <3> QED BY <3>5, <3>7
  <2> QED BY <2>2, <2>3
<1>3. ASSUME NEW r \in Calls, IssueFirst(r) PROVE NewestRowOnly' /\ OnlyCrossingsUndoNewest'
  <2>1. /\ call[r].step = "idle" /\ call'[r].step = "hashing" /\ handler[r] = "issue"
        /\ \A s \in Calls : s # r => call'[s] = call[s]
        /\ \A s \in Calls :
             /\ otps'[s].seq = otps[s].seq
             /\ otps'[s].usedBy = IF Active(s) THEN r ELSE otps[s].usedBy
             /\ otps'[s].expiresAt = otps[s].expiresAt
        /\ UNCHANGED <<changed, password, now, handler>>
    BY <1>3, <1>typed DEF IssueFirst, BeginIssue, Rows, CallStates, userVars, handlerVars
  <2>2. \A s \in Calls : ~Active(s)'
    BY <2>1, CodesAssumption DEF Active, Stored
  <2>3. \A s \in Calls : otps'[s].usedBy = NULL => otps[s].usedBy = NULL
    BY <2>1, CodesAssumption
  <2>4. Holding' \subseteq Holding \ {r}
    <3>1. \A s \in Holding' : call'[s].row \in Calls
      BY HeldRows DEF HeldAreRows
    <3> QED BY <2>1, <2>3, <3>1 DEF Holding
  <2>5. \A s \in Holding' : \A t \in changed : otps[call[t].row].seq <= otps[call'[s].row].seq
    BY <2>1, <2>4, <1>before DEF Holding
  <2>6. \A s \in Calls : call[s].step = "consumed" => call'[s].row = call[s].row
    BY <2>1
  <2> QED BY <2>1, <2>2, <2>5, <2>6, <1>calm
<1>4. ASSUME NEW r \in Calls, IssueSecond(r), present
      PROVE  NewestRowOnly' /\ OnlyCrossingsUndoNewest'
  <2>1. /\ call[r].step = "hashing" /\ call'[r].step = "issued"
        /\ \A s \in Calls : s # r => call'[s] = call[s] /\ otps'[s] = otps[s]
        /\ otps'[r].seq = saved + 1 /\ handler[r] = "issue" /\ handler'[r] = "mail"
        /\ \A s \in Calls : s # r => handler'[s] = handler[s]
        /\ UNCHANGED <<changed, password, now>>
    BY <1>4, <1>typed DEF IssueSecond, FinishIssue, Move, CallStates, Rows, userVars
  <2>0. Issuing \subseteq {r}
    BY <1>4 DEF IssueSecond, Crosses
  <2>2. \A c \in Calls : c # r => ~Active(c)'
    <3>1. r \in Issuing
      BY <2>1 DEF Issuing
    <3> QED BY <2>1, <3>1, <1>before DEF Active, Stored
  <2>3. \A c \in Calls : otps'[c].seq <= saved + 1
    BY <2>1, <1>rows, <1>typed DEF RowsMatchCalls, Rows
  <2>4. Issuing' = {}
    BY <2>0, <2>1 DEF Issuing
  <2>5. \A s \in Calls : call[s].step \in {"matched", "consumed"} =>
          call[s].row # r /\ call'[s] = call[s] /\ otps'[call[s].row] = otps[call[s].row]
    BY <2>1, <1>rows DEF RowsMatchCalls
  <2>6. \A s \in changed : call'[s] = call[s] /\ otps'[call[s].row] = otps[call[s].row]
    BY <2>5, <1>spent, <1>typed
  <2>7. OnlyCrossingsUndoNewest'
    BY <2>1, <2>6, <1>before, <1>set DEF OnlyCrossingsUndoNewest
  <2>8. ASSUME NEW s \in Holding' PROVE s \in Holding /\ call'[s] = call[s]
                                        /\ otps'[call[s].row] = otps[call[s].row]
    <3>1. s \in Calls /\ s # r
      BY <2>1 DEF Holding
    <3>2. call'[s].step \in {"matched", "consumed"}
      BY HeldRows DEF HeldAreRows
    <3> QED BY <2>1, <2>5, <3>1, <3>2 DEF Holding
  <2>9. \A s \in Holding' : \A t \in changed' :
          (otps[call[t].row].seq)' <= (otps[call[s].row].seq)'
    BY <2>1, <2>6, <2>8, <1>before
  <2>10. \A c, d \in Calls : Active(c)' /\ Stored(d)' => otps'[d].seq <= otps'[c].seq
    BY <2>1, <2>2, <2>3
  <2> QED BY <2>4, <2>7, <2>9, <2>10 DEF NewestRowOnly
<1>5. ASSUME NEW r \in Calls, NEW code \in Calls, ResetSelect(r, code)
      PROVE  NewestRowOnly' /\ OnlyCrossingsUndoNewest'
  <2>1. /\ call[r].step = "idle" /\ UNCHANGED <<otps, now, changed, password>>
        /\ \A s \in Calls : s # r => call'[s] = call[s] /\ handler'[s] = handler[s]
        /\ \/ call'[r].step = "matched" /\ call'[r].row = code /\ Active(code)
           \/ call'[r].step = "rejected"
        /\ handler[r] = "consume" /\ handler'[r] \in {"consume", "400"}
    BY <1>5, <1>typed DEF ResetSelect, SelectLatest, IsLatest, NoCall, userVars
  <2>2. \A c \in Calls : otps'[c].seq = otps[c].seq /\ (Active(c)' => Active(c))
    BY <2>1 DEF Active, Stored
  <2>3. \A s \in Holding' : \/ s \in Holding /\ s # r
                            \/ s = r /\ call'[r].step = "matched"
    <3>1. \A s \in Holding' : s \in Calls /\ call'[s].step \in {"matched", "consumed"}
      BY HeldRows DEF HeldAreRows, Holding
    <3> QED BY <2>1, <3>1 DEF Holding
  <2>4. \A s \in Holding' : \A t \in changed : otps[call[t].row].seq <= otps[call'[s].row].seq
    BY <2>1, <2>3, <1>before, <1>spent DEF Holding
  <2>5. Issuing' = Issuing
    BY <2>1 DEF Issuing
  <2>6. \A s \in Calls : call[s].step = "consumed" => call'[s].row = call[s].row
    BY <2>1
  <2> QED BY <2>1, <2>2, <2>4, <2>5, <2>6, <1>before, <1>calm
<1>6. ASSUME NEW r \in Calls, ResetMark(r) PROVE NewestRowOnly' /\ OnlyCrossingsUndoNewest'
  <2>0. MarkUsed(r) /\ call[r].step = "matched" /\ handler[r] = "consume"
    BY <1>6 DEF ResetMark, MarkUsed, Move
  <2>1. /\ call'[r].row = call[r].row /\ call'[r].step \in {"consumed", "rejected"}
        /\ handler'[r] = IF call'[r].step = "consumed" THEN "update" ELSE "400"
        /\ call'[r].step = "consumed" => otps[call[r].row].usedBy = NULL
        /\ \A s \in Calls : s # r => call'[s] = call[s] /\ handler'[s] = handler[s]
        /\ UNCHANGED <<now, changed, password>>
    BY <1>6, <2>0, <1>typed DEF ResetMark, MarkUsed, Move, CallStates, userVars
  <2>2. \A c \in Calls : /\ otps'[c].seq = otps[c].seq /\ (Active(c)' => Active(c))
                         /\ otps'[c].usedBy = NULL => otps[c].usedBy = NULL
    <3>1. \/ otps' = otps
          \/ /\ otps' = [otps EXCEPT ![call[r].row].usedBy = r]
             /\ otps[call[r].row].usedBy = NULL
      BY <2>0 DEF MarkUsed
    <3> QED BY <2>0, <2>1, <3>1, <1>typed, <1>rows, CodesAssumption
            DEF Rows, RowsMatchCalls, Active, Stored
  <2>3. \A s \in Holding' : s \in Holding /\ call'[s].row = call[s].row
    <3>1. \A s \in Holding' : call'[s].row \in Calls
      BY HeldRows DEF HeldAreRows
    <3> QED BY <2>0, <2>1, <2>2, <3>1 DEF Holding
  <2>4. \A s \in Holding' : \A t \in changed : otps[call[t].row].seq <= otps[call'[s].row].seq
    BY <2>3, <1>before
  <2>5. Issuing' = Issuing
    BY <2>0, <2>1 DEF Issuing
  <2> QED BY <2>0, <2>1, <2>2, <2>4, <2>5, <1>before, <1>calm
<1>7. CASE TimePasses
  BY <1>7, <1>quiet, <1>typed DEF TimePasses, Tick, userVars, handlerVars
<1>8. CASE UNCHANGED prVars
  BY <1>8, <1>quiet, <1>typed DEF prVars, otpVars, userVars, handlerVars
<1> QED
  BY <1>1, <1>2, <1>3, <1>4, <1>5, <1>6, <1>7, <1>8, StepsOfCodes

\* The password in force was set with the newest code that changed it, unless
\* a code was saved, or the password set, across another: no older code, late
\* UPDATE, expiry, crash or redelivery takes the password back otherwise.
THEOREM OnlyCrossingsTakeItBack == PrSpec => []OnlyCrossingsUndoNewest
<1>1. PrInit => NewestRowOnly /\ OnlyCrossingsUndoNewest
  BY DEF PrInit, OtpInit, NoRow, NoCall, NewestRowOnly, OnlyCrossingsUndoNewest, Active,
         Stored, Issuing, Holding
<1> QED
  BY <1>1, PrInvHolds, NewestRowStep, PTL DEF PrSpec
=============================================================================
