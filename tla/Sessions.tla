------------------------------ MODULE Sessions ------------------------------
(***************************************************************************)
(* The refresh-token sessions of AuthService, as they share one column of  *)
(* the users table, users.refreshTokenHash.                                *)
(*                                                                         *)
(* The service is one Node process over PostgreSQL: handlers interleave at *)
(* every await, so a handler is split at its database statements and each  *)
(* statement is one step.  A request signs at most one refresh token, with *)
(* a fresh jti, so the token a request signs is named by the request; the  *)
(* salted argon2 hash of a token is computed once and verifies against     *)
(* that token only, so it is named by the token as well.  A password is    *)
(* named by the request that set it.                                       *)
(*                                                                         *)
(* A missing, foreign or expired JWT is answered before any row is read    *)
(* and is left out, the expiry of a refresh token included.                *)
(*                                                                         *)
(* What a handler read and carries over an await is kept in its entry of   *)
(* req; once answered, the entry stays as the record of what it did.       *)
(***************************************************************************)

CONSTANTS
  Users,            \* ids of the rows that may be in the users table
  Requests,         \* the HTTP requests handled; each is handled once
  InitialPassword,  \* the password an account starts with
  NULL

ASSUME ConstantsAssumption ==
  /\ NULL \notin Users \cup Requests \cup {InitialPassword}
  /\ InitialPassword \notin Requests

VARIABLES
  rows,             \* ids present in the users table
  is_verified,      \* users.is_verified
  two_fa_enabled,   \* users.two_fa_enabled
  password,         \* users.password, NULL for an account without one
  refreshTokenHash, \* users.refreshTokenHash, NULL when revoked
  req,              \* one entry per request
  written,          \* history: tokens whose hash has been in the column
  raced             \* history: sign-ins in flight at a reset, each with the reset

columns == <<rows, is_verified, two_fa_enabled, password>>
vars    == <<columns, refreshTokenHash, req, written, raced>>

-----------------------------------------------------------------------------
(* Requests *)

SignIns   == {"login", "verify2fa", "verifyEmail", "oauth", "onboarding"}
Ops       == SignIns \cup {"refresh", "logout", "reset", "patch"}
Passwords == Requests \cup {InitialPassword}

\* A handler's answer or what it does next: "persist", "rotate" and "clear"
\* are about to write the column; "ok", "refused" and "ignored" have answered.
States == {"new", "persist", "rotate", "clear", "ok", "refused", "ignored"}

Handlers ==
  [op : Ops \cup {"none"}, state : States, user : Users \cup {NULL},
   token    : Requests \cup {NULL},    \* the refresh token presented
   root     : Requests \cup {NULL},    \* the sign-in the signed token descends from
   password : Passwords \cup {NULL}]   \* users.password as the handler read it

NewRequest == [op |-> "none", state |-> "new", user |-> NULL, token |-> NULL,
               root |-> NULL, password |-> NULL]

\* Tokens that clients were given: those of answered sign-ins and refreshes.
Delivered == {t \in Requests : req[t].state = "ok" /\ req[t].op \in SignIns \cup {"refresh"}}

\* A caller JwtAuthGuard lets through: it holds an access token issued for u,
\* and the JWT strategy still finds u's row.
Authenticated(u) == u \in rows /\ \E t \in Delivered : req[t].user = u

Handle(r, entry) == req[r].state = "new" /\ req' = [req EXCEPT ![r] = entry]
Answer(r, state) == req' = [req EXCEPT ![r].state = state]

-----------------------------------------------------------------------------
(* Signing in: every flow reads the row, signs, and later overwrites the   *)
(* column with the new token's hash, whatever the column holds by then.    *)

\* The entry of a sign-in that passed its checks; it read u's row just now.
SigningIn(op, r, u) ==
  [op |-> op, state |-> "persist", user |-> u, token |-> NULL, root |-> r,
   password |-> password[u]]

\* Seeded fault: login without the check of is_verified.
LoginReadUnverified(r, u, p) ==
  /\ u \in rows
  /\ ~two_fa_enabled[u]
  /\ password[u] # NULL /\ password[u] = p
  /\ Handle(r, SigningIn("login", r, u))
  /\ UNCHANGED <<columns, refreshTokenHash, written, raced>>

\* login: findByEmail, then the checks against the row as read.
LoginRead(r, u, p) ==
  /\ u \in rows
  /\ is_verified[u]
  /\ ~two_fa_enabled[u]
  /\ password[u] # NULL /\ password[u] = p
  /\ Handle(r, SigningIn("login", r, u))
  /\ UNCHANGED <<columns, refreshTokenHash, written, raced>>

\* verify2fa: the row must have 2FA on; the TOTP check is in TwoFactor.
Verify2faRead(r, u) ==
  /\ u \in rows /\ two_fa_enabled[u]
  /\ Handle(r, SigningIn("verify2fa", r, u))
  /\ UNCHANGED <<columns, refreshTokenHash, written, raced>>

\* verifyEmail once its OTP is consumed (EmailVerification), and an OAuth
\* callback once it resolved its user (OAuthProvisioning): both leave the
\* row verified, then sign.
MarkVerifiedAndSign(op, r, u) ==
  /\ u \in rows
  /\ is_verified' = [is_verified EXCEPT ![u] = TRUE]
  /\ Handle(r, SigningIn(op, r, u))
  /\ UNCHANGED <<rows, two_fa_enabled, password, refreshTokenHash, written, raced>>

VerifyEmailRead(r, u)   == MarkVerifiedAndSign("verifyEmail", r, u)
OAuthRead(r, u)         == MarkVerifiedAndSign("oauth", r, u)

\* issueSessionForUser, after an authenticated user's onboarding committed.
OnboardingRead(r, u) ==
  /\ Authenticated(u)
  /\ Handle(r, SigningIn("onboarding", r, u))
  /\ UNCHANGED <<columns, refreshTokenHash, written, raced>>

\* persistRefreshToken: a blind UPDATE, a no-op if the row is gone.  The
\* response is sent either way.
Persist(r) ==
  LET u == req[r].user IN
  /\ req[r].state = "persist"
  /\ IF u \in rows
     THEN /\ refreshTokenHash' = [refreshTokenHash EXCEPT ![u] = r]
          /\ written' = written \cup {r}
     ELSE UNCHANGED <<refreshTokenHash, written>>
  /\ Answer(r, "ok")
  /\ UNCHANGED <<columns, raced>>

-----------------------------------------------------------------------------
(* Refresh and logout: both match the presented token against the row.     *)

Presenting(op, state, t) ==
  [op |-> op, state |-> state, user |-> req[t].user, token |-> t,
   root |-> IF op = "refresh" THEN req[t].root ELSE NULL, password |-> NULL]

Matches(t) == req[t].user \in rows /\ refreshTokenHash[req[t].user] = t

\* refresh: verify the JWT, read the row of its sub, match, sign.
RefreshRead(r, t) ==
  /\ t \in Delivered
  /\ Handle(r, Presenting("refresh", IF Matches(t) THEN "rotate" ELSE "refused", t))
  /\ UNCHANGED <<columns, refreshTokenHash, written, raced>>

\* Seeded fault: the UPDATE without AND refreshTokenHash = :currentHash.
RotateBlindly(r) ==
  LET u == req[r].user IN
  /\ req[r].state = "rotate" /\ u \in rows
  /\ refreshTokenHash' = [refreshTokenHash EXCEPT ![u] = r]
  /\ written' = written \cup {r}
  /\ Answer(r, "ok")
  /\ UNCHANGED <<columns, raced>>

\* Seeded fault: currentHash and nextHash swapped, so that no row is hit.
RotateSwapped(r) ==
  /\ req[r].state = "rotate"
  /\ Answer(r, "refused")
  /\ UNCHANGED <<columns, refreshTokenHash, written, raced>>

\* rotateRefreshTokenHash: UPDATE ... WHERE id = :id AND refreshTokenHash =
\* :currentHash, the hash that was read and matched; 401 if it hit no row.
Rotate(r) ==
  LET u == req[r].user IN
  /\ req[r].state = "rotate"
  /\ IF u \in rows /\ refreshTokenHash[u] = req[r].token
     THEN /\ refreshTokenHash' = [refreshTokenHash EXCEPT ![u] = r]
          /\ written' = written \cup {r}
          /\ Answer(r, "ok")
     ELSE /\ Answer(r, "refused")
          /\ UNCHANGED <<refreshTokenHash, written>>
  /\ UNCHANGED <<columns, raced>>

\* logoutByRefreshToken: returns quietly unless the token is the current one.
LogoutRead(r, t) ==
  /\ t \in Delivered
  /\ Handle(r, Presenting("logout", IF Matches(t) THEN "clear" ELSE "ignored", t))
  /\ UNCHANGED <<columns, refreshTokenHash, written, raced>>

\* setRefreshTokenHash(user.id, null): unconditional.
LogoutClear(r) ==
  /\ req[r].state = "clear"
  /\ refreshTokenHash' = [refreshTokenHash EXCEPT ![req[r].user] = NULL]
  /\ Answer(r, "ok")
  /\ UNCHANGED <<columns, written, raced>>

-----------------------------------------------------------------------------
(* Passwords, the second factor and the row itself *)

SettingPassword(op, r, u) ==
  [op |-> op, state |-> "ok", user |-> u, token |-> NULL, root |-> NULL, password |-> r]

\* The sign-ins of u between their read and their UPDATE.
InFlight(u) == {s \in Requests : req[s].state = "persist" /\ req[s].user = u}

\* Seeded fault: updatePassword without clearing the hash.
ResetPasswordOnly(r, u) ==
  /\ u \in rows
  /\ password' = [password EXCEPT ![u] = r]
  /\ Handle(r, SettingPassword("reset", r, u))
  /\ raced' = raced \cup (InFlight(u) \X {r})
  /\ UNCHANGED <<rows, is_verified, two_fa_enabled, refreshTokenHash, written>>

\* resetPassword once its OTP is consumed: updatePassword writes both columns
\* in one UPDATE.
ResetPassword(r, u) ==
  /\ u \in rows
  /\ password' = [password EXCEPT ![u] = r]
  /\ refreshTokenHash' = [refreshTokenHash EXCEPT ![u] = NULL]
  /\ Handle(r, SettingPassword("reset", r, u))
  /\ raced' = raced \cup (InFlight(u) \X {r})
  /\ UNCHANGED <<rows, is_verified, two_fa_enabled, written>>

\* UsersService.update with a password (admin): leaves the session alone.
PatchPassword(r, u) ==
  /\ u \in rows
  /\ password' = [password EXCEPT ![u] = r]
  /\ Handle(r, SettingPassword("patch", r, u))
  /\ UNCHANGED <<rows, is_verified, two_fa_enabled, refreshTokenHash, written, raced>>

\* set2faTotpActiveState, for an authenticated user (TwoFactor has the flows).
Set2faState(u, state) ==
  /\ Authenticated(u)
  /\ two_fa_enabled' = [two_fa_enabled EXCEPT ![u] = state]
  /\ UNCHANGED <<rows, is_verified, password, refreshTokenHash, req, written, raced>>

\* UsersService.remove: the row goes, its hash with it; ids are never reused.
\* That a linked Google account refuses it is left to OAuthProvisioning.
RemoveUser(u) ==
  /\ u \in rows
  /\ rows' = rows \ {u}
  /\ refreshTokenHash' = [refreshTokenHash EXCEPT ![u] = NULL]
  /\ UNCHANGED <<is_verified, two_fa_enabled, password, req, written, raced>>

-----------------------------------------------------------------------------

\* Accounts as registration (unverified, with a password) or an OAuth sign-up
\* (verified, without one) leaves them; 2FA needs a session first.
Init ==
  /\ rows = Users
  /\ password \in [Users -> {InitialPassword, NULL}]
  /\ is_verified = [u \in Users |-> password[u] = NULL]
  /\ two_fa_enabled = [u \in Users |-> FALSE]
  /\ refreshTokenHash = [u \in Users |-> NULL]
  /\ req = [r \in Requests |-> NewRequest]
  /\ written = {} /\ raced = {}

Next ==
  \/ \E r \in Requests :
       \/ Persist(r) \/ Rotate(r) \/ LogoutClear(r)
       \/ \E t \in Requests : RefreshRead(r, t) \/ LogoutRead(r, t)
       \/ \E u \in Users :
            \/ \E p \in Passwords : LoginRead(r, u, p)
            \/ Verify2faRead(r, u) \/ VerifyEmailRead(r, u) \/ OAuthRead(r, u)
            \/ OnboardingRead(r, u)
            \/ ResetPassword(r, u) \/ PatchPassword(r, u)
  \/ \E u \in Users :
       RemoveUser(u) \/ \E state \in BOOLEAN : Set2faState(u, state)

Spec == Init /\ [][Next]_vars

-----------------------------------------------------------------------------
(* Properties *)

TypeOK ==
  /\ rows \subseteq Users
  /\ is_verified \in [Users -> BOOLEAN]
  /\ two_fa_enabled \in [Users -> BOOLEAN]
  /\ password \in [Users -> Passwords \cup {NULL}]
  /\ refreshTokenHash \in [Users -> Requests \cup {NULL}]
  /\ req \in [Requests -> Handlers]
  /\ written \subseteq Requests
  /\ raced \subseteq Requests \X Requests

\* The password of u is one that a reset set; s read it when it signed in.
ByReset(u)        == password[u] \in Requests /\ req[password[u]].op = "reset"
ReadCurrent(s, u) == req[s].password = password[u]

RefreshedWith(t) == {r \in Requests :
  req[r].op = "refresh" /\ req[r].state = "ok" /\ req[r].token = t}

\* Rotation: however refreshes of one token interleave with each other and
\* with sign-ins, logouts and resets, at most one of them is answered with
\* new tokens (refresh, rotateRefreshTokenHash).
RefreshedAtMostOnce ==
  \A t \in Requests : \A r1, r2 \in RefreshedWith(t) : r1 = r2

\* A token that was exchanged, or refused, is never the current one again: no
\* later write of any handler brings a displaced hash back.
SpentIsFinal ==
  \A r \in Requests :
    req[r].op = "refresh" /\ req[r].state \in {"ok", "refused"}
      => refreshTokenHash[req[r].user] # req[r].token

\* A logout that revoked the session of its token ends that session's whole
\* family: a refresh of it still in flight cannot revive it.
LogoutEndsFamily ==
  \A r \in Requests : req[r].op = "logout" /\ req[r].state = "ok" =>
    LET h == refreshTokenHash[req[r].user]
    IN  h # NULL => req[h].root # req[req[r].token].root

\* Only verified accounts hold a session: every sign-in either checks
\* is_verified or sets it, and nothing clears it.
OnlyVerifiedHoldSessions ==
  \A u \in Users : refreshTokenHash[u] # NULL => is_verified[u]

\* While the password a reset set stands, a session either was signed by a
\* handler that read that password, or descends from a sign-in that was between
\* its read and its UPDATE at that very reset: no refresh in flight, no older
\* reset's race and no token of before survives one.
OnlyRacesOutliveReset ==
  \A u \in Users :
    LET h == refreshTokenHash[u] IN
    h # NULL /\ ByReset(u) => ReadCurrent(req[h].root, u) \/ <<req[h].root, password[u]>> \in raced

\* The column never mixes users up: its hash is of a token signed for that user.
HashIsOwnToken ==
  \A u \in Users : refreshTokenHash[u] # NULL => req[refreshTokenHash[u]].user = u

\* The abstract session slot that the column, and the signed tokens, implement.
familyOf == [t \in Requests |-> IF t \in written THEN req[t].root ELSE NULL]
endedFamilies ==
  {t \in written : /\ req[t].root = t
                   /\ \A u \in Users : refreshTokenHash[u] # NULL
                                           => req[refreshTokenHash[u]].root # t}

Slot == INSTANCE SessionSlot WITH
  Tokens <- Requests, slot <- refreshTokenHash, family <- familyOf, ended <- endedFamilies

\* The handlers implement the slot: each write of the column opens a family,
\* exchanges within one or closes one, and nothing revives an ended family.
ImplementsSlot == Slot!SlotSpec

-----------------------------------------------------------------------------
(* The inductive invariant the theorems of SessionsProofs rest on *)

\* Tokens that have been in the column were signed by an answered request,
\* for the same user as the sign-in their family opened with.
WrittenWereDelivered ==
  \A t \in written :
    /\ t \in Delivered
    /\ req[t].root \in written
    /\ req[req[t].root].root = req[t].root
    /\ req[req[t].root].user = req[t].user

\* What a handler carries over an await still describes the token it holds.
CarriedAcrossAwaits ==
  \A r \in Requests :
    /\ req[r].state # "new" => req[r].user \in Users
    /\ req[r].state = "persist" =>
         req[r].op \in SignIns /\ req[r].root = r
    /\ req[r].state = "rotate" => req[r].op = "refresh"
    /\ req[r].state = "clear" => req[r].op = "logout"
    /\ req[r].op \in {"refresh", "logout"} =>
         /\ req[r].token \in Delivered
         /\ req[r].user = req[req[r].token].user
         /\ req[r].state \in {"rotate", "clear", "ok"} => req[r].token \in written
    /\ req[r].op = "refresh" => req[r].root = req[req[r].token].root
    /\ req[r].op = "refresh" => req[r].state \in {"rotate", "ok", "refused"}

\* The column holds nothing but tokens recorded in written, each its owner's.
SessionInv ==
  /\ TypeOK
  /\ \A u \in Users : refreshTokenHash[u] # NULL => u \in rows /\ refreshTokenHash[u] \in written
  /\ HashIsOwnToken
  /\ WrittenWereDelivered
  /\ CarriedAcrossAwaits
  /\ SpentIsFinal
  /\ RefreshedAtMostOnce
  /\ LogoutEndsFamily

-----------------------------------------------------------------------------
(* What the documentation says of sessions *)

\* A password reset revokes all sessions: while its password stands, no
\* session descends from a login with a password it replaced.
ResetRevokesAllSessions ==
  \A u \in Users, r \in Requests :
    /\ password[u] = r /\ req[r].op = "reset"
    /\ refreshTokenHash[u] # NULL
    /\ req[req[refreshTokenHash[u]].root].op = "login"
    => req[req[refreshTokenHash[u]].root].password = r

=============================================================================
