---------------------------- MODULE TwoFactorProofs ----------------------------
(***************************************************************************)
(* Theorems of TwoFactor.  EnabledSecretWasProven fails when an enable     *)
(* crosses a setup or a disable, so it is proved as long as none has: what *)
(* a handler read then still holds when it writes, whatever else overlaps. *)
(***************************************************************************)
EXTENDS TwoFactor, TLAPS

\* The 2FA columns and every handler keep their types.
LEMMA TwoFactorTypeCorrect == TfSpec => []TfTypeOK
<1>1. TfInit => TfTypeOK
  <2>1. NewHandler \in Handlers
    BY DEF NewHandler, Handlers
  <2> QED BY <2>1 DEF TfInit, TfTypeOK
<1>2. TfTypeOK /\ [TfNext]_tfVars => TfTypeOK'
  <2> SUFFICES ASSUME TfTypeOK, [TfNext]_tfVars PROVE TfTypeOK'
    OBVIOUS
  <2> USE DEF TfTypeOK, columns
  <2>1. ASSUME NEW r \in Requests, NEW next \in Waiting \cup Answered,
               NEW code \in Requests \cup {NULL},
               Arrive(r, next, code)
        PROVE  handler' \in [Requests -> Handlers] /\ crossed' \in BOOLEAN
    BY <2>1 DEF Arrive, Handlers
  <2>2. ASSUME NEW r \in Requests, NEW at, NEW answer \in Answered, Finish(r, at, answer)
        PROVE  handler' \in [Requests -> Handlers]
    BY <2>2 DEF Finish, Handlers
  <2>3. ASSUME NEW code, NEW next \in Waiting \cup Answered
        PROVE  Checked(code, next) \in Waiting \cup Answered
    BY DEF Checked, Answered
  <2>4. CASE UNCHANGED tfVars
    BY <2>4 DEF tfVars
  <2>5. CASE TfNext
    <3> SUFFICES ASSUME NEW r \in Requests,
          \/ SetupRead(r) \/ SetupUpdate(r)
          \/ EnableUpdate(r) \/ DisableUpdate(r) \/ Login(r)
          \/ \E code \in Requests :
               EnableRead(r, code) \/ DisableRead(r, code) \/ Verify(r, code)
          PROVE TfTypeOK'
      BY <2>5 DEF TfNext
    <3>1. CASE SetupRead(r)
      BY <3>1, <2>1 DEF SetupRead, Waiting, Answered
    <3>2. CASE SetupUpdate(r)
      BY <3>2, <2>2 DEF SetupUpdate, Answered, Crosses
    <3>3. CASE EnableUpdate(r)
      BY <3>3, <2>2 DEF EnableUpdate, Answered, Crosses
    <3>4. CASE DisableUpdate(r)
      BY <3>4, <2>2 DEF DisableUpdate, Answered, Crosses
    <3>5. CASE Login(r)
      BY <3>5, <2>1 DEF Login, Answered
    <3>6. ASSUME NEW code \in Requests, EnableRead(r, code) PROVE TfTypeOK'
      <4>1. Checked(code, "enable.update") \in Waiting \cup Answered
        BY <2>3 DEF Waiting
      <4> QED BY <3>6, <4>1, <2>1 DEF EnableRead
    <3>7. ASSUME NEW code \in Requests, DisableRead(r, code) PROVE TfTypeOK'
      <4>1. Checked(code, "disable.update") \in Waiting \cup Answered
        BY <2>3 DEF Waiting
      <4>2. "400" \in Waiting \cup Answered
        BY DEF Answered
      <4> QED BY <3>7, <4>1, <4>2, <2>1 DEF DisableRead
    <3>8. ASSUME NEW code \in Requests, Verify(r, code)
          PROVE TfTypeOK'
      <4>1. Checked(code, "verified") \in Waiting \cup Answered
        BY <2>3 DEF Answered
      <4>2. "400" \in Waiting \cup Answered
        BY DEF Answered
      <4> QED BY <3>8, <4>1, <4>2, <2>1 DEF Verify
    <3> QED BY <3>1, <3>2, <3>3, <3>4, <3>5, <3>6, <3>7, <3>8
  <2> QED BY <2>4, <2>5
<1> QED BY <1>1, <1>2, PTL DEF TfSpec

\* A dropped secret never comes back: the only statement that writes one
\* writes the secret of its own request, which was never given out before.
THEOREM SecretsStayDropped == TfSpec => DroppedSecretsStayDropped
<1>1. ASSUME [TfNext]_tfVars
      PROVE  [\A s \in Given : two_fa_totp_secret # s => two_fa_totp_secret' # s]_tfVars
  <2> SUFFICES ASSUME TfNext, NEW s \in Given, two_fa_totp_secret # s
               PROVE  two_fa_totp_secret' # s
    BY <1>1
  <2>1. s # NULL
    BY TwoFactorAssumption DEF Given
  <2>2. ASSUME NEW r \in Requests, SetupUpdate(r) PROVE two_fa_totp_secret' # s
    BY <2>2 DEF SetupUpdate, Finish, Given
  <2>3. ASSUME NEW r \in Requests, DisableUpdate(r) PROVE two_fa_totp_secret' # s
    BY <2>1, <2>3 DEF DisableUpdate
  <2> QED
    BY <2>2, <2>3 DEF TfNext, SetupRead, EnableRead, EnableUpdate, DisableRead, Login,
                      Verify, columns
<1> QED BY <1>1, PTL DEF TfSpec, DroppedSecretsStayDropped

\* As long as no enable crosses a setup or a disable, whatever the number and
\* order of requests and however the others overlap, what a handler read still
\* holds when it writes.
THEOREM UncrossedInvariant == TfSpec => []TwoFactorInv
<1> DEFINE Undisturbed == RowIsAsRead /\ EnabledSecretWasProven
<1>1. TfInit => UncrossedInv
  BY DEF TfInit, UncrossedInv, RowIsAsRead, EnabledSecretWasProven, NewHandler
<1>2. UncrossedInv /\ TfTypeOK /\ [TfNext]_tfVars => UncrossedInv'
  <2> SUFFICES ASSUME UncrossedInv, TfTypeOK, [TfNext]_tfVars, ~crossed'
               PROVE  Undisturbed'
    BY DEF UncrossedInv
  <2>typed. handler \in [Requests -> Handlers]
    BY DEF TfTypeOK
  <2>uncrossed. ~crossed
    BY DEF TfNext, tfVars, SetupRead, SetupUpdate, EnableRead, EnableUpdate, DisableRead,
           DisableUpdate, Login, Verify, Arrive, Crosses
  <2>holds. Undisturbed
    BY <2>uncrossed DEF UncrossedInv
  <2> USE <2>holds DEF RowIsAsRead, EnabledSecretWasProven
  \* Of an arriving request only its own entry matters.
  <2>arrive. ASSUME NEW r \in Requests, NEW next, NEW code,
                    Arrive(r, next, code), UNCHANGED columns,
                    next # "secret given",
                    next = "setup.update" => two_fa_method = NULL,
                    next = "disable.update" => two_fa_method # NULL,
                    next = "enable.update" => two_fa_totp_secret = code /\ code \in Given
             PROVE  Undisturbed'
    <3>1. /\ handler[r].at = "new"
          /\ handler' = [handler EXCEPT ![r] = [at |-> next, code |-> code]]
      BY <2>arrive DEF Arrive
    <3>2. handler'[r].at = next /\ handler'[r].code = code
      BY <3>1, <2>typed
    <3>3. \A s \in Requests : s # r => handler'[s] = handler[s]
      BY <3>1, <2>typed
    <3>4. Given' = Given
      BY <3>1, <3>2, <3>3, <2>arrive DEF Given
    <3>5. \A s \in Requests : handler[s].at = "enabled" => s # r /\ handler'[s] = handler[s]
      BY <3>1, <3>3
    <3> QED BY <3>2, <3>3, <3>4, <3>5, <2>arrive DEF columns
  \* Of a request that writes, too; and what was given stays given.
  <2>finish. ASSUME NEW r \in Requests, NEW at \in Waiting, NEW answer, Finish(r, at, answer)
             PROVE  /\ handler[r].at = at
                    /\ handler'[r].at = answer /\ handler'[r].code = handler[r].code
                    /\ \A s \in Requests : s # r => handler'[s] = handler[s]
                    /\ Given \subseteq Given'
    <3>1. /\ handler[r].at = at
          /\ handler' = [handler EXCEPT ![r].at = answer]
      BY <2>finish DEF Finish
    <3>2. handler'[r].at = answer /\ handler'[r].code = handler[r].code
      BY <3>1, <2>typed DEF Handlers
    <3>3. \A s \in Requests : s # r => handler'[s] = handler[s]
      BY <3>1, <2>typed
    <3>4. Given \subseteq Given'
      BY <3>1, <3>3 DEF Given, Waiting
    <3> QED BY <3>1, <3>2, <3>3, <3>4
  <2>1. ASSUME NEW r \in Requests, SetupRead(r) PROVE Undisturbed'
    BY <2>1, <2>arrive DEF SetupRead
  \* A setup that writes crosses no enable: there is none, and 2FA is off.
  <2>2. ASSUME NEW r \in Requests, SetupUpdate(r) PROVE Undisturbed'
    <3>1. Finish(r, "setup.update", "secret given")
      BY <2>2 DEF SetupUpdate
    <3>2. /\ handler[r].at = "setup.update" /\ handler'[r].at = "secret given"
          /\ \A s \in Requests : s # r => handler'[s] = handler[s]
      BY <3>1, <2>finish DEF Waiting
    <3>3. ~two_fa_enabled
      BY <3>2
    <3>4. r \in Given'
      BY <3>2 DEF Given
    <3>5. \A s \in Requests : handler'[s].at # "enable.update"
      BY <2>2, <3>2 DEF SetupUpdate, Crosses
    <3> QED BY <2>2, <3>2, <3>3, <3>4, <3>5 DEF SetupUpdate
  \* An enable that writes crosses no setup, and turns on what it proved.
  <2>3. ASSUME NEW r \in Requests, EnableUpdate(r) PROVE Undisturbed'
    <3>1. Finish(r, "enable.update", "enabled")
      BY <2>3 DEF EnableUpdate
    <3>2. /\ handler[r].at = "enable.update"
          /\ handler'[r].at = "enabled" /\ handler'[r].code = handler[r].code
          /\ \A s \in Requests : s # r => handler'[s] = handler[s]
          /\ Given \subseteq Given'
      BY <3>1, <2>finish DEF Waiting
    <3>3. two_fa_totp_secret = handler'[r].code /\ two_fa_totp_secret \in Given'
      BY <3>2
    <3>4. \A s \in Requests : handler'[s].at # "setup.update"
      BY <2>3, <3>2 DEF EnableUpdate, Crosses
    <3>5. two_fa_method' # NULL
      BY <2>3, TwoFactorAssumption DEF EnableUpdate
    <3> QED BY <2>3, <3>2, <3>3, <3>4, <3>5 DEF EnableUpdate
  \* A disable that writes crosses no enable, and no setup has read NULL.
  <2>4. ASSUME NEW r \in Requests, DisableUpdate(r) PROVE Undisturbed'
    <3>1. Finish(r, "disable.update", "disabled")
      BY <2>4 DEF DisableUpdate
    <3>2. /\ handler[r].at = "disable.update" /\ handler'[r].at = "disabled"
          /\ \A s \in Requests : s # r => handler'[s] = handler[s]
      BY <3>1, <2>finish DEF Waiting
    <3>3. \A s \in Requests : handler'[s].at \notin {"setup.update", "enable.update"}
      BY <2>4, <3>2 DEF DisableUpdate, Crosses
    <3>4. two_fa_method' # NULL
      BY <2>4, TwoFactorAssumption DEF DisableUpdate
    <3> QED BY <2>4, <3>3, <3>4 DEF DisableUpdate
  <2>5. ASSUME NEW r \in Requests, Login(r) PROVE Undisturbed'
    BY <2>5, <2>arrive DEF Login
  <2>6. ASSUME NEW r \in Requests, NEW code \in Requests, EnableRead(r, code) PROVE Undisturbed'
    BY <2>6, <2>arrive DEF EnableRead, Checked
  <2>7. ASSUME NEW r \in Requests, NEW code \in Requests, DisableRead(r, code) PROVE Undisturbed'
    BY <2>7, <2>arrive, TwoFactorAssumption DEF DisableRead, Checked
  <2>8. ASSUME NEW r \in Requests, NEW code \in Requests, Verify(r, code)
        PROVE Undisturbed'
    BY <2>8, <2>arrive DEF Verify, Checked
  <2>9. CASE UNCHANGED tfVars
    BY <2>9 DEF tfVars, columns, Given
  <2> QED BY <2>1, <2>2, <2>3, <2>4, <2>5, <2>6, <2>7, <2>8, <2>9 DEF TfNext
<1> QED BY <1>1, <1>2, TwoFactorTypeCorrect, PTL DEF TfSpec, TwoFactorInv

\* Only an enable that crosses a setup or a disable leaves 2FA on with a secret
\* nobody proved.
THEOREM OnlyCrossingsBreak2FA == TfSpec => []OnlyCrossingsLoseProof
<1>1. UncrossedInv => OnlyCrossingsLoseProof
  BY DEF UncrossedInv, OnlyCrossingsLoseProof
<1> QED BY <1>1, UncrossedInvariant, PTL DEF TwoFactorInv
=============================================================================
