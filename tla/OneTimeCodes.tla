---------------------------- MODULE OneTimeCodes ----------------------------
(***************************************************************************)
(* The one-time codes of one account, as VerificationOtpService and its    *)
(* twin PasswordResetOtpService keep them in a table: issue(), which       *)
(* invalidates the active codes and then saves a new one, and consume(),   *)
(* which selects the newest active code, checks it and then marks it used. *)
(* Every statement is one step; calls interleave between their statements. *)
(*                                                                         *)
(* A call saves at most one row, so a row is named by the call that issues *)
(* it, and so is its code: equal codes are left out, as is guessing.       *)
(***************************************************************************)
EXTENDS Naturals, FiniteSets

CONSTANTS
  Calls,     \* calls of issue() and consume()
  Lifetime,  \* how long a code is valid
  MaxTime,   \* bound on the clock
  NULL

ASSUME CodesAssumption ==
  /\ NULL \notin Calls
  /\ Lifetime \in Nat \ {0} /\ MaxTime \in Nat

VARIABLES
  otps,    \* row of each issuing call; seq 0 while there is none
  saved,   \* rows saved so far: created_at orders rows by their seq
  now,     \* the clock
  call     \* what each call did and carries across its awaits

otpVars == <<otps, saved, now, call>>

Sources == {"initial", "resend"}

Rows ==
  [seq : Nat, source : Sources, createdAt : Nat, expiresAt : Nat,
   usedBy : Calls \cup {NULL}]   \* the call that set used_at
NoRow == [seq |-> 0, source |-> "initial", createdAt |-> 0, expiresAt |-> 0, usedBy |-> NULL]

CallStates ==
  [step : {"idle", "hashing", "issued", "matched", "consumed", "rejected"},
   source : Sources,
   at : Nat,                    \* history: when its first statement ran
   expiresAt : Nat,             \* issue: computed before the code is hashed
   seen : Nat,                  \* issue, history: rows saved when it invalidated
   row : Calls \cup {NULL}]     \* consume: the row it selected
NoCall == [step |-> "idle", source |-> "initial", at |-> 0, expiresAt |-> 0, seen |-> 0,
           row |-> NULL]

Stored(c) == otps[c].seq > 0
Active(c) == Stored(c) /\ otps[c].usedBy = NULL /\ otps[c].expiresAt > now

\* SELECT ... WHERE used_at IS NULL AND expires_at > NOW()
\* ORDER BY created_at DESC LIMIT 1
IsLatest(c) == Active(c) /\ \A d \in Calls : Active(d) => otps[d].seq <= otps[c].seq

CountSince(source, since) ==
  Cardinality({c \in Calls :
    Stored(c) /\ otps[c].source = source /\ otps[c].createdAt >= since})

-----------------------------------------------------------------------------

\* Seeded fault: consume's SELECT without "expires_at > NOW()".
SelectLatestExpired(c, code) ==
  /\ call[c].step = "idle"
  /\ call' = [call EXCEPT ![c] =
       IF /\ Stored(code) /\ otps[code].usedBy = NULL
          /\ \A d \in Calls : Stored(d) /\ otps[d].usedBy = NULL => otps[d].seq <= otps[code].seq
       THEN [NoCall EXCEPT !.step = "matched", !.at = now, !.row = code]
       ELSE [NoCall EXCEPT !.step = "rejected"]]
  /\ UNCHANGED <<otps, saved, now>>

\* Seeded fault: invalidating only the codes of the same request source.
BeginIssueSameSource(c, source) ==
  /\ call[c].step = "idle"
  /\ otps' = [d \in Calls |-> IF Active(d) /\ otps[d].source = source
                             THEN [otps[d] EXCEPT !.usedBy = c] ELSE otps[d]]
  /\ call' = [call EXCEPT ![c] =
       [step |-> "hashing", source |-> source, at |-> now, expiresAt |-> now + Lifetime,
        seen |-> saved, row |-> NULL]]
  /\ UNCHANGED <<saved, now>>

\* Seeded fault: the active codes are left as they are.
BeginIssueKeepingOthers(c, source) ==
  /\ call[c].step = "idle"
  /\ call' = [call EXCEPT ![c] =
       [step |-> "hashing", source |-> source, at |-> now, expiresAt |-> now + Lifetime,
        seen |-> saved, row |-> NULL]]
  /\ UNCHANGED <<otps, saved, now>>

\* issue, first statement: UPDATE ... SET used_at WHERE used_at IS NULL AND
\* expires_at > NOW().  The expiry is fixed before the code is hashed.
BeginIssue(c, source) ==
  /\ call[c].step = "idle"
  /\ otps' = [d \in Calls |-> IF Active(d) THEN [otps[d] EXCEPT !.usedBy = c] ELSE otps[d]]
  /\ call' = [call EXCEPT ![c] =
       [step |-> "hashing", source |-> source, at |-> now, expiresAt |-> now + Lifetime,
        seen |-> saved, row |-> NULL]]
  /\ UNCHANGED <<saved, now>>

\* issue, second statement: INSERT of the new code.
FinishIssue(c) ==
  /\ call[c].step = "hashing"
  /\ saved' = saved + 1
  /\ otps' = [otps EXCEPT ![c] =
       [seq |-> saved + 1, source |-> call[c].source, createdAt |-> now,
        expiresAt |-> call[c].expiresAt, usedBy |-> NULL]]
  /\ call' = [call EXCEPT ![c].step = "issued"]
  /\ UNCHANGED now

\* consume, first statement: select the newest active code; false unless it
\* is the code presented.
SelectLatest(c, code) ==
  /\ call[c].step = "idle"
  /\ call' = [call EXCEPT ![c] =
       IF IsLatest(code) THEN [NoCall EXCEPT !.step = "matched", !.at = now, !.row = code]
                         ELSE [NoCall EXCEPT !.step = "rejected"]]
  /\ UNCHANGED <<otps, saved, now>>

\* Seeded fault: consume's UPDATE without "used_at IS NULL".
MarkUsedBlindly(c) ==
  /\ call[c].step = "matched"
  /\ otps' = [otps EXCEPT ![call[c].row].usedBy = c]
  /\ call' = [call EXCEPT ![c].step = "consumed"]
  /\ UNCHANGED <<saved, now>>

\* consume, second statement: UPDATE ... SET used_at WHERE id = :id AND
\* used_at IS NULL; true if it hit the row.
MarkUsed(c) ==
  /\ call[c].step = "matched"
  /\ IF otps[call[c].row].usedBy = NULL
     THEN /\ otps' = [otps EXCEPT ![call[c].row].usedBy = c]
          /\ call' = [call EXCEPT ![c].step = "consumed"]
     ELSE /\ call' = [call EXCEPT ![c].step = "rejected"]
          /\ UNCHANGED otps
  /\ UNCHANGED <<saved, now>>

Tick ==
  /\ now < MaxTime
  /\ now' = now + 1
  /\ UNCHANGED <<otps, saved, call>>

OtpInit ==
  /\ otps = [c \in Calls |-> NoRow]
  /\ saved = 0
  /\ now = 0
  /\ call = [c \in Calls |-> NoCall]

OtpNext ==
  \/ Tick
  \/ \E c \in Calls :
       \/ \E source \in Sources : BeginIssue(c, source)
       \/ FinishIssue(c) \/ MarkUsed(c)
       \/ \E code \in Calls : SelectLatest(c, code)

OtpSpec == OtpInit /\ [][OtpNext]_otpVars

-----------------------------------------------------------------------------
(* Properties *)

OtpTypeOK ==
  /\ otps \in [Calls -> Rows]
  /\ saved \in Nat
  /\ now \in Nat
  /\ call \in [Calls -> CallStates]

\* A code is accepted at most once, and never after another call, of consume
\* or of issue, set its used_at: the call that consumed a row stays the one
\* recorded in it.
ConsumedOnce ==
  \A c \in Calls : call[c].step = "consumed" => otps[call[c].row].usedBy = c

\* Once issue() has invalidated, every code saved before that is dead for
\* good, whatever consume() had already selected.
SupersededStayDead ==
  \A c, d \in Calls : call[c].step \in {"hashing", "issued"} /\ Stored(d)
                        /\ otps[d].seq <= call[c].seen => ~Active(d)

\* consume() checks expires_at when it selects and not again when it marks, an
\* argon2 later: the code it accepts may have expired since, and then a later
\* issue() has not invalidated it.  That is all that can slip through: a code
\* accepted was valid when its call selected it, and whichever later issue()
\* came before the acceptance found it expired.
AcceptedCodeWasGood ==
  [][\A c, d \in Calls :
       call[c].step = "matched" /\ call'[c].step = "consumed" /\ call[c].row = d =>
         /\ call[c].at < otps[d].expiresAt
         /\ \A e \in Calls :
              call[e].step \in {"hashing", "issued"} /\ otps[d].seq <= call[e].seen
                => otps[d].expiresAt <= call[e].at]_otpVars

\* What auth-module-specification.md says of issuing: the previous unused
\* codes of the user are invalidated, so one code at most is active.
OneActiveCode == \A c, d \in Calls : Active(c) /\ Active(d) => c = d

=============================================================================
