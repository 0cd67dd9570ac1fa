------------------------------- MODULE TwoFactor -------------------------------
(***************************************************************************)
(* The second factor of one account: setup2faTotp, enableTotp2fa,          *)
(* disable2fa and verify2fa of AuthService over the three 2FA columns of   *)
(* its users row, and the state token a password login hands out instead   *)
(* of a session.  Every handler reads the row, decides, and then (but for  *)
(* the sign-ins) writes it in a second statement.                          *)
(*                                                                         *)
(* A secret is named by the setup request that generated it; encryption    *)
(* and back is faithful to it.  A TOTP code is valid for one secret, so    *)
(* that presenting a code is presenting its secret.                        *)
(***************************************************************************)
EXTENDS Naturals, FiniteSets

CONSTANTS
  Requests,
  MaxInFlight,   \* bound: requests being handled at the same time
  NULL

ASSUME TwoFactorAssumption ==
  /\ NULL \notin Requests \cup {"totp"}
  /\ MaxInFlight \in Nat \ {0}

VARIABLES
  two_fa_enabled,
  two_fa_method,        \* "totp", or NULL
  two_fa_totp_secret,   \* a secret, or NULL
  handler,              \* where each request is, or how it was answered
  crossed               \* history: an enable and a setup or disable crossed

columns == <<two_fa_enabled, two_fa_method, two_fa_totp_secret>>
tfVars  == <<columns, handler, crossed>>

Waiting  == {"setup.update", "enable.update", "disable.update"}
Answered == {"secret given", "enabled", "disabled", "session", "state token",
             "verified", "400", "401", "409"}

Handlers ==
  [at : {"new"} \cup Waiting \cup Answered,
   code : Requests \cup {NULL}]   \* the secret whose code was presented
NewHandler == [at |-> "new", code |-> NULL]

InFlight == {r \in Requests : handler[r].at \in Waiting}

Arrive(r, next, code) ==
  /\ handler[r].at = "new"
  /\ Cardinality(InFlight) < MaxInFlight
  /\ handler' = [handler EXCEPT ![r] = [at |-> next, code |-> code]]
  /\ UNCHANGED crossed

Finish(r, at, answer) ==
  /\ handler[r].at = at
  /\ handler' = [handler EXCEPT ![r].at = answer]

\* What r writes crosses a handler that has read and is at the given UPDATE.
Crosses(at) == crossed' = (crossed \/ \E s \in Requests : handler[s].at = at)

\* Secrets the authenticator app was given, whether or not they are in force.
Given == {r \in Requests : handler[r].at = "secret given"}

\* What enable, disable and verify answer to a code of the row they read.
Checked(code, next) ==
  IF two_fa_totp_secret = NULL THEN "400"
  ELSE IF two_fa_totp_secret # code THEN "401" ELSE next

-----------------------------------------------------------------------------
(* Setting up, enabling and disabling: an authenticated user's requests *)

\* Seeded fault: setup does not look whether a method is active.
SetupReadUnconditional(r) ==
  /\ Arrive(r, "setup.update", NULL)
  /\ UNCHANGED columns

\* UsersService.setup2faTotp: 409 if the row has a method.
SetupRead(r) ==
  /\ Arrive(r, IF two_fa_method # NULL THEN "409" ELSE "setup.update", NULL)
  /\ UNCHANGED columns

SetupUpdate(r) ==
  /\ Finish(r, "setup.update", "secret given") /\ Crosses("enable.update")
  /\ two_fa_totp_secret' = r
  /\ UNCHANGED <<two_fa_enabled, two_fa_method>>

EnableRead(r, code) ==
  /\ code \in Given
  /\ Arrive(r, Checked(code, "enable.update"), code)
  /\ UNCHANGED columns

\* Seeded fault: the row that was read is saved back as a whole.
EnableUpdateWholeRow(r) ==
  /\ Finish(r, "enable.update", "enabled") /\ Crosses("setup.update")
  /\ two_fa_enabled' = TRUE
  /\ two_fa_method' = "totp"
  /\ two_fa_totp_secret' = handler[r].code

\* set2faTotpActiveState(userId, true): an UPDATE of these two columns.
EnableUpdate(r) ==
  /\ Finish(r, "enable.update", "enabled") /\ Crosses("setup.update")
  /\ two_fa_enabled' = TRUE
  /\ two_fa_method' = "totp"
  /\ UNCHANGED two_fa_totp_secret

DisableRead(r, code) ==
  /\ code \in Given
  /\ Arrive(r, IF two_fa_method = "totp" THEN Checked(code, "disable.update") ELSE "400",
            code)
  /\ UNCHANGED columns

\* set2faTotpActiveState(userId, false): drops the secret, keeps the method.
DisableUpdate(r) ==
  /\ Finish(r, "disable.update", "disabled") /\ Crosses("enable.update")
  /\ two_fa_enabled' = FALSE
  /\ two_fa_method' = "totp"
  /\ two_fa_totp_secret' = NULL

-----------------------------------------------------------------------------
(* Signing in; the session itself is in Sessions *)

\* login of the verified account with its password; with 2FA on, the answer
\* is a state token and the password is not looked at.
Login(r) ==
  /\ Arrive(r, IF two_fa_enabled THEN "state token" ELSE "session", NULL)
  /\ UNCHANGED columns

\* verify2fa behind TwoFaPendingGuard, which accepts any unexpired state
\* token, used before or not.
Verify(r, code) ==
  /\ \E login \in Requests : handler[login].at = "state token"
  /\ code \in Given
  /\ Arrive(r, IF two_fa_enabled /\ two_fa_method # NULL THEN Checked(code, "verified")
               ELSE "400", code)
  /\ UNCHANGED columns

-----------------------------------------------------------------------------

TfInit ==
  /\ two_fa_enabled = FALSE
  /\ two_fa_method = NULL
  /\ two_fa_totp_secret = NULL
  /\ handler = [r \in Requests |-> NewHandler]
  /\ crossed = FALSE

TfNext ==
  \E r \in Requests :
    \/ SetupRead(r) \/ SetupUpdate(r)
    \/ EnableUpdate(r) \/ DisableUpdate(r) \/ Login(r)
    \/ \E code \in Requests :
         EnableRead(r, code) \/ DisableRead(r, code) \/ Verify(r, code)

TfSpec == TfInit /\ [][TfNext]_tfVars

-----------------------------------------------------------------------------
(* Properties *)

TfTypeOK ==
  /\ two_fa_enabled \in BOOLEAN
  /\ two_fa_method \in {"totp", NULL}
  /\ two_fa_totp_secret \in Requests \cup {NULL}
  /\ handler \in [Requests -> Handlers]
  /\ crossed \in BOOLEAN

\* While 2FA is on, the row holds a secret that a code was presented for when
\* it was enabled ("to verify the secret was correctly configured"): the
\* account can still be signed in to.
EnabledSecretWasProven ==
  two_fa_enabled =>
    /\ two_fa_totp_secret \in Given
    /\ \E r \in Requests : handler[r].at = "enabled" /\ handler[r].code = two_fa_totp_secret

\* The one way to lose that is for an enable to write while a setup has read,
\* or for a setup or disable to write while an enable has: every other overlap,
\* of setups, enables, disables and sign-ins, keeps it.  It rests on setup being
\* refused while a method is set: were it "Allowed", as system-design.md:198 has
\* it, one setup would put an unproven secret under an enabled account, with no
\* race at all.
OnlyCrossingsLoseProof == ~crossed => EnabledSecretWasProven

\* What uncrossed handlers preserve: each still finds the row as it read it.
\* With EnabledSecretWasProven it is inductive.
RowIsAsRead ==
  /\ \A r \in Requests :
       /\ handler[r].at = "setup.update" => two_fa_method = NULL
       /\ handler[r].at = "disable.update" => two_fa_method # NULL
       /\ handler[r].at = "enable.update" =>
            two_fa_totp_secret = handler[r].code /\ handler[r].code \in Given
  /\ two_fa_method = NULL => ~two_fa_enabled
  /\ two_fa_totp_secret # NULL => two_fa_totp_secret \in Given
UncrossedInv == ~crossed => RowIsAsRead /\ EnabledSecretWasProven
TwoFactorInv == TfTypeOK /\ UncrossedInv

\* A secret that was replaced or dropped never comes back into force, however
\* the handlers that read it interleave with the one that removed it.
DroppedSecretsStayDropped ==
  [][\A s \in Given : two_fa_totp_secret # s => two_fa_totp_secret' # s]_tfVars

\* Setting up is refused as conflicting only while a method is active, which
\* disabling it ends.
DisablingAllowsSetup ==
  [][\A r \in Requests :
       handler[r].at # "409" /\ handler'[r].at = "409" => two_fa_enabled]_tfVars

=============================================================================
