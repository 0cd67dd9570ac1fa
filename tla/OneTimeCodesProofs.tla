------------------------- MODULE OneTimeCodesProofs -------------------------
(***************************************************************************)
(* Proofs about OneTimeCodes, for any calls, lifetime and clock bound.     *)
(***************************************************************************)
EXTENDS OneTimeCodes, TLAPS

LEMMA OtpTypeInit == OtpInit => OtpTypeOK
BY CodesAssumption
   DEF OtpInit, OtpTypeOK, Rows, NoRow, CallStates, NoCall, Sources

LEMMA OtpTypeStep == OtpTypeOK /\ [OtpNext]_otpVars => OtpTypeOK'
<1> SUFFICES ASSUME OtpTypeOK, [OtpNext]_otpVars PROVE OtpTypeOK'
  OBVIOUS
<1> USE CodesAssumption DEF OtpTypeOK
<1>1. ASSUME NEW c \in Calls, NEW source \in Sources, BeginIssue(c, source)
      PROVE  OtpTypeOK'
  BY <1>1 DEF BeginIssue, Rows, CallStates
<1>2. ASSUME NEW c \in Calls, FinishIssue(c) PROVE OtpTypeOK'
  <2>1. otps' \in [Calls -> Rows]
    BY <1>2 DEF FinishIssue, Rows, CallStates
  <2>2. call' \in [Calls -> CallStates]
    BY <1>2 DEF FinishIssue, CallStates
  <2> QED BY <1>2, <2>1, <2>2 DEF FinishIssue
<1>3. ASSUME NEW c \in Calls, NEW code \in Calls, SelectLatest(c, code) PROVE OtpTypeOK'
  BY <1>3 DEF SelectLatest, NoCall, CallStates, Sources
<1>4. ASSUME NEW c \in Calls, MarkUsed(c) PROVE OtpTypeOK'
  BY <1>4 DEF MarkUsed, Rows, CallStates
<1>5. CASE Tick
  BY <1>5 DEF Tick
<1>6. CASE UNCHANGED otpVars
  BY <1>6 DEF otpVars
<1> QED
  BY <1>1, <1>2, <1>3, <1>4, <1>5, <1>6 DEF OtpNext

\* The tables and the calls always have their types.
THEOREM OtpTypeCorrect == OtpSpec => []OtpTypeOK
BY OtpTypeInit, OtpTypeStep, PTL DEF OtpSpec

-----------------------------------------------------------------------------

\* Rows are those of answered issue calls, numbered up to saved; a selected
\* row exists.
RowsMatchCalls ==
  \A c \in Calls :
    /\ Stored(c) <=> call[c].step = "issued"
    /\ otps[c].seq <= saved
    /\ call[c].step \in {"hashing", "issued"} => call[c].seen <= saved
    /\ call[c].step \in {"matched", "consumed"} => call[c].row \in Calls /\ Stored(call[c].row)

OtpInv == OtpTypeOK /\ RowsMatchCalls /\ ConsumedOnce /\ SupersededStayDead

LEMMA OtpInvStep == OtpInv /\ [OtpNext]_otpVars => OtpInv'
<1> SUFFICES ASSUME OtpInv, [OtpNext]_otpVars PROVE OtpInv'
  OBVIOUS
<1>0. OtpTypeOK /\ OtpTypeOK'
  BY OtpTypeStep DEF OtpInv
<1> USE CodesAssumption
<1>1. ASSUME NEW c \in Calls, NEW source \in Sources, BeginIssue(c, source)
      PROVE  OtpInv'
  <2>1. /\ call[c].step = "idle" /\ saved' = saved /\ now' = now
        /\ call'[c].step = "hashing" /\ call'[c].seen = saved
        /\ \A d \in Calls : d # c => call'[d] = call[d]
        /\ \A d \in Calls : /\ otps'[d].seq = otps[d].seq
                            /\ otps'[d].usedBy = IF Active(d) THEN c ELSE otps[d].usedBy
                            /\ otps'[d].expiresAt = otps[d].expiresAt
    BY <1>0, <1>1 DEF BeginIssue, OtpTypeOK, Rows, CallStates
  <2>2. RowsMatchCalls'
    BY <1>0, <2>1 DEF OtpInv, OtpTypeOK, RowsMatchCalls, Stored
  <2>3. ConsumedOnce'
    BY <2>1 DEF OtpInv, ConsumedOnce, RowsMatchCalls, Active
  <2>4. SupersededStayDead'
    <3>1. \A d \in Calls : ~Active(d)'
      BY <2>1 DEF Active, Stored
    <3> QED BY <3>1 DEF SupersededStayDead
  <2> QED BY <1>0, <2>2, <2>3, <2>4 DEF OtpInv
<1>2. ASSUME NEW c \in Calls, FinishIssue(c) PROVE OtpInv'
  <2>1. /\ call[c].step = "hashing" /\ saved' = saved + 1 /\ now' = now
        /\ call'[c].step = "issued" /\ call'[c].seen = call[c].seen
        /\ \A d \in Calls : d # c => call'[d] = call[d] /\ otps'[d] = otps[d]
        /\ otps'[c].seq = saved + 1
    BY <1>0, <1>2 DEF FinishIssue, OtpTypeOK, Rows, CallStates
  <2>2. saved \in Nat /\ \A d \in Calls : otps[d].seq \in Nat /\ call[d].seen \in Nat
    BY <1>0 DEF OtpTypeOK, Rows, CallStates
  <2>3. RowsMatchCalls'
    BY <2>1, <2>2 DEF OtpInv, RowsMatchCalls, Stored
  <2>4. ConsumedOnce'
    BY <2>1 DEF OtpInv, ConsumedOnce, RowsMatchCalls, Stored
  <2>5. SupersededStayDead'
    BY <2>1, <2>2 DEF OtpInv, SupersededStayDead, RowsMatchCalls, Stored, Active
  <2> QED BY <1>0, <2>3, <2>4, <2>5 DEF OtpInv
<1>3. ASSUME NEW c \in Calls, NEW code \in Calls, SelectLatest(c, code) PROVE OtpInv'
  <2>1. /\ call[c].step = "idle" /\ UNCHANGED <<otps, saved, now>>
        /\ \A d \in Calls : d # c => call'[d] = call[d]
        /\ \/ call'[c].step = "matched" /\ call'[c].row = code /\ Stored(code)
           \/ call'[c].step = "rejected"
    BY <1>0, <1>3 DEF SelectLatest, IsLatest, Active, OtpTypeOK, NoCall
  <2> QED
    BY <1>0, <2>1 DEF OtpInv, RowsMatchCalls, ConsumedOnce, SupersededStayDead, Stored, Active
<1>4. ASSUME NEW c \in Calls, MarkUsed(c) PROVE OtpInv'
  <2>1. /\ call[c].step = "matched" /\ UNCHANGED <<saved, now>>
        /\ call'[c].row = call[c].row
        /\ \A d \in Calls : d # c => call'[d] = call[d]
        /\ \A d \in Calls : otps'[d].seq = otps[d].seq /\ otps'[d].expiresAt = otps[d].expiresAt
        /\ \A d \in Calls : otps[d].usedBy # NULL => otps'[d].usedBy = otps[d].usedBy
        /\ \/ call'[c].step = "consumed" /\ otps'[call[c].row].usedBy = c
           \/ call'[c].step = "rejected"
    BY <1>0, <1>4 DEF MarkUsed, OtpTypeOK, Rows, CallStates, OtpInv, RowsMatchCalls
  <2>2. RowsMatchCalls'
    BY <2>1 DEF OtpInv, RowsMatchCalls, Stored
  <2>3. ConsumedOnce'
    BY <2>1 DEF OtpInv, ConsumedOnce, RowsMatchCalls
  <2>4. SupersededStayDead'
    <3>1. \A d \in Calls : Active(d)' => Active(d)
      BY <2>1 DEF Active, Stored
    <3> QED
      BY <2>1, <3>1 DEF OtpInv, SupersededStayDead, Stored
  <2> QED BY <1>0, <2>2, <2>3, <2>4 DEF OtpInv
<1>5. CASE Tick
  <2>1. \A d \in Calls : Active(d)' => Active(d)
    BY <1>0, <1>5 DEF Tick, Active, Stored, OtpTypeOK, Rows
  <2> QED
    BY <1>0, <1>5, <2>1
       DEF Tick, OtpInv, RowsMatchCalls, ConsumedOnce, SupersededStayDead, Stored
<1>6. CASE UNCHANGED otpVars
  BY <1>0, <1>6 DEF otpVars, OtpInv, RowsMatchCalls, ConsumedOnce, SupersededStayDead, Stored, Active
<1> QED
  BY <1>1, <1>2, <1>3, <1>4, <1>5, <1>6 DEF OtpNext

LEMMA OtpInvHolds == OtpSpec => []OtpInv
<1>1. OtpInit => OtpInv
  <2> SUFFICES ASSUME OtpInit PROVE OtpInv
    OBVIOUS
  <2>1. \A c \in Calls : otps[c] = NoRow /\ call[c].step = "idle"
    BY DEF OtpInit, NoCall
  <2> QED
    BY <2>1, OtpTypeInit DEF OtpInit, OtpInv, RowsMatchCalls, ConsumedOnce,
       SupersededStayDead, Stored, NoRow
<1> QED
  BY <1>1, OtpInvStep, PTL DEF OtpSpec

\* No code is accepted twice, nor after another call used or superseded it.
THEOREM CodesConsumedOnce == OtpSpec => []ConsumedOnce
BY OtpInvHolds, PTL DEF OtpInv

\* A code saved before a later issue() invalidated is never active again.
THEOREM SupersededCodesStayDead == OtpSpec => []SupersededStayDead
BY OtpInvHolds, PTL DEF OtpInv

-----------------------------------------------------------------------------
(* Codes that expire between the two statements of consume() *)

\* A selected code was valid then; a code that an issue() after it left unused
\* had expired by then.
ExpiryIsKept ==
  \A c, d \in Calls :
    /\ call[c].step = "matched" /\ call[c].row = d => call[c].at < otps[d].expiresAt
    /\ call[c].step \in {"hashing", "issued"} /\ Stored(d) /\ otps[d].seq <= call[c].seen
         /\ otps[d].usedBy = NULL => otps[d].expiresAt <= call[c].at

LEMMA ExpiryStep == OtpInv /\ ExpiryIsKept /\ [OtpNext]_otpVars => ExpiryIsKept'
<1> SUFFICES ASSUME OtpInv, ExpiryIsKept, [OtpNext]_otpVars PROVE ExpiryIsKept'
  OBVIOUS
<1>0. OtpTypeOK /\ RowsMatchCalls
  BY DEF OtpInv
<1> USE CodesAssumption
<1>1. ASSUME NEW c \in Calls, NEW source \in Sources, BeginIssue(c, source)
      PROVE  ExpiryIsKept'
  <2>1. /\ call'[c].step = "hashing" /\ call'[c].at = now
        /\ \A d \in Calls : d # c => call'[d] = call[d]
        /\ \A d \in Calls : /\ otps'[d].seq = otps[d].seq
                            /\ otps'[d].usedBy = IF Active(d) THEN c ELSE otps[d].usedBy
                            /\ otps'[d].expiresAt = otps[d].expiresAt
    BY <1>0, <1>1 DEF BeginIssue, OtpTypeOK, Rows, CallStates
  \* What the UPDATE left unused had expired.
  <2>2. \A d \in Calls : Stored(d)' /\ otps'[d].usedBy = NULL => otps[d].expiresAt <= now
    BY <1>0, <2>1 DEF Active, Stored, OtpTypeOK, Rows
  <2> QED
    BY <2>1, <2>2 DEF ExpiryIsKept, Stored, Active
<1>2. ASSUME NEW c \in Calls, FinishIssue(c) PROVE ExpiryIsKept'
  <2>1. /\ call[c].step = "hashing" /\ call'[c].step = "issued"
        /\ call'[c].seen = call[c].seen /\ call'[c].at = call[c].at
        /\ \A d \in Calls : d # c => call'[d] = call[d] /\ otps'[d] = otps[d]
        /\ otps'[c].seq = saved + 1
    BY <1>0, <1>2 DEF FinishIssue, OtpTypeOK, Rows, CallStates
  \* The new row is newer than what any issue() saw, and nobody selected it yet.
  <2>2. \A d \in Calls : call[d].step \in {"hashing", "issued"} => ~(saved + 1 <= call[d].seen)
    BY <1>0 DEF RowsMatchCalls, OtpTypeOK, CallStates
  <2>3. \A d \in Calls : call[d].step = "matched" => call[d].row # c
    BY <1>0, <2>1 DEF RowsMatchCalls
  <2> QED
    BY <2>1, <2>2, <2>3 DEF ExpiryIsKept, Stored
<1>3. ASSUME NEW c \in Calls, NEW code \in Calls, SelectLatest(c, code) PROVE ExpiryIsKept'
  <2>1. /\ UNCHANGED <<otps, saved, now>>
        /\ \A d \in Calls : d # c => call'[d] = call[d]
        /\ \/ /\ call'[c].step = "matched" /\ call'[c].row = code /\ call'[c].at = now
              /\ otps[code].expiresAt > now
           \/ call'[c].step = "rejected"
    BY <1>0, <1>3 DEF SelectLatest, IsLatest, Active, OtpTypeOK, NoCall
  <2>2. now \in Nat /\ \A d \in Calls : otps[d].expiresAt \in Nat
    BY <1>0 DEF OtpTypeOK, Rows
  <2> QED
    BY <2>1, <2>2 DEF ExpiryIsKept, Stored
<1>4. ASSUME NEW c \in Calls, MarkUsed(c) PROVE ExpiryIsKept'
  <2>1. /\ call'[c].step \in {"consumed", "rejected"}
        /\ \A d \in Calls : d # c => call'[d] = call[d]
    BY <1>0, <1>4 DEF MarkUsed, OtpTypeOK, CallStates
  <2>2. \A d \in Calls :
          /\ otps'[d].seq = otps[d].seq /\ otps'[d].expiresAt = otps[d].expiresAt
          /\ otps'[d].usedBy = NULL => otps[d].usedBy = NULL
    <3>1. \/ otps' = otps
          \/ otps' = [otps EXCEPT ![call[c].row].usedBy = c]
      BY <1>4 DEF MarkUsed
    <3> QED BY <1>0, <3>1 DEF OtpTypeOK, Rows
  <2> QED
    BY <2>1, <2>2 DEF ExpiryIsKept, Stored
<1>5. CASE Tick
  BY <1>5 DEF Tick, ExpiryIsKept, Stored
<1>6. CASE UNCHANGED otpVars
  BY <1>6 DEF otpVars, ExpiryIsKept, Stored
<1> QED
  BY <1>1, <1>2, <1>3, <1>4, <1>5, <1>6 DEF OtpNext

\* For any lifetime and any calls: consume() accepts only a code that was valid
\* when it selected it, and one that a later issue() came before only if that
\* found it expired.
THEOREM AcceptedCodesWereGood == OtpSpec => AcceptedCodeWasGood
<1>1. OtpInit => ExpiryIsKept
  <2>1. OtpInit => \A c \in Calls : call[c].step = "idle"
    BY DEF OtpInit, NoCall
  <2> QED BY <2>1 DEF ExpiryIsKept
\* Only MarkUsed accepts, and a row it hits had not been used.
<1>2. ASSUME OtpInv, ExpiryIsKept, OtpNext, NEW c \in Calls, NEW d \in Calls,
             call[c].step = "matched", call'[c].step = "consumed", call[c].row = d
      PROVE  /\ call[c].at < otps[d].expiresAt
             /\ \A e \in Calls :
                  call[e].step \in {"hashing", "issued"} /\ otps[d].seq <= call[e].seen
                    => otps[d].expiresAt <= call[e].at
  <2>1. OtpTypeOK /\ RowsMatchCalls
    BY <1>2 DEF OtpInv
  <2>2. otps[d].usedBy = NULL
    <3>1. ASSUME NEW b \in Calls, MarkUsed(b) PROVE otps[d].usedBy = NULL
      BY <1>2, <2>1, <3>1 DEF MarkUsed, OtpTypeOK, CallStates
    <3>2. ASSUME NEW b \in Calls, NEW source \in Sources, BeginIssue(b, source) PROVE FALSE
      BY <1>2, <2>1, <3>2 DEF BeginIssue, OtpTypeOK, CallStates
    <3>3. ASSUME NEW b \in Calls, FinishIssue(b) PROVE FALSE
      BY <1>2, <2>1, <3>3 DEF FinishIssue, OtpTypeOK, CallStates
    <3>4. ASSUME NEW b \in Calls, NEW code \in Calls, SelectLatest(b, code) PROVE FALSE
      BY <1>2, <2>1, <3>4 DEF SelectLatest, OtpTypeOK, NoCall
    <3>5. ASSUME Tick PROVE FALSE
      BY <1>2, <3>5 DEF Tick
    <3> QED
      BY <1>2, <3>1, <3>2, <3>3, <3>4, <3>5 DEF OtpNext
  <2>3. Stored(d)
    BY <1>2, <2>1 DEF RowsMatchCalls
  <2> QED
    BY <1>2, <2>2, <2>3 DEF ExpiryIsKept
<1>3. OtpInv /\ ExpiryIsKept /\ [OtpNext]_otpVars =>
        [\A c, d \in Calls :
           call[c].step = "matched" /\ call'[c].step = "consumed" /\ call[c].row = d =>
             /\ call[c].at < otps[d].expiresAt
             /\ \A e \in Calls :
                  call[e].step \in {"hashing", "issued"} /\ otps[d].seq <= call[e].seen
                    => otps[d].expiresAt <= call[e].at]_otpVars
  BY <1>2
<1> QED
  BY <1>1, <1>3, OtpInvHolds, ExpiryStep, PTL DEF OtpSpec, AcceptedCodeWasGood

=============================================================================
