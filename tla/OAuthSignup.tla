------------------------------ MODULE OAuthSignup ------------------------------
(***************************************************************************)
(* Google sign-ins of one browser, from the start of each flow to the      *)
(* answer of its callback: GoogleOAuthGuard, the cookie that remembers the *)
(* signup path the browser was sent out from, googleAuthRedirect, and the  *)
(* resolution of OAuthProvisioning, for which the cookie decides whether   *)
(* an account is created, and with which role.  A flow is named by the     *)
(* request of its callback.  The browser may have several flows open, in   *)
(* tabs of its own, and not come back from some; what it holds is one      *)
(* cookie.  (It is taken to send the cookie on the way back from Google:   *)
(* see AUTH_COOKIE_SAMESITE in the README.)                                *)
(***************************************************************************)
EXTENDS OAuthProvisioning

CONSTANT Roles   \* of the signup paths: talent and employer

ASSUME RolesAssumption == NULL \notin Roles /\ "none" \notin Roles /\ "plain" \notin Roles

VARIABLES
  path,         \* how each flow was started: a role, "plain", or "none"
  flow,         \* "away" at Google, "back", "answered" by the handler of the
                \* callback or "refused" by the guard before it
  cookie,       \* oauth_signup_role of the browser, or NULL
  carried       \* the role each callback read from it, or NULL

flowVars == <<path, flow, cookie, carried>>
osVars   == <<opVars, flowVars>>

\* A user created by a callback has the role it carried.
roleOf(u) == carried[u]

-----------------------------------------------------------------------------
(* Setting out *)

Start(r, p) ==
  /\ flow[r] = "none" /\ req[r].at = "new"
  /\ path' = [path EXCEPT ![r] = p]
  /\ flow' = [flow EXCEPT ![r] = "away"]
  /\ UNCHANGED <<opVars, carried>>

\* GET google: the guard leaves the cookie as it is.
StartPlain(r) == Start(r, "plain") /\ UNCHANGED cookie

\* GET google/signup/:role, a role that is one (else 400 and nothing).
StartSignup(r, role) == Start(r, role) /\ cookie' = role

\* The cookie is good for ten minutes.
Expire ==
  /\ cookie # NULL
  /\ cookie' = NULL
  /\ UNCHANGED <<opVars, path, flow, carried>>

-----------------------------------------------------------------------------
(* Coming back *)

\* Google sends the browser back without a user, or with a code it then does
\* not honour: the guard throws, and the handler with its cookie is not run.
Refused(r) ==
  /\ flow[r] = "away"
  /\ flow' = [flow EXCEPT ![r] = "refused"]
  /\ UNCHANGED <<opVars, path, cookie, carried>>

\* googleAuthRedirect reads the cookie, then waits for the resolution.
Return(r, i, e) ==
  /\ flow[r] = "away"
  /\ FindLinked(r, i, e)
  /\ flow' = [flow EXCEPT ![r] = "back"]
  /\ carried' = [carried EXCEPT ![r] = cookie]
  /\ UNCHANGED <<path, cookie>>

\* The role decides at the statement that would create the user.
Create(r) ==
  /\ IF carried[r] = NULL THEN NoSignupRole(r) ELSE CreateWithLink(r)
  /\ UNCHANGED flowVars

Resolve(r) ==
  /\ FindByEmail(r) \/ FindRaced(r) \/ MarkVerified(r) \/ Link(r)
       \/ RecheckIdentity(r) \/ RecheckUser(r) \/ Load(r)
  /\ UNCHANGED flowVars

\* Seeded fault: only a successful callback clears the cookie.
AnswerClearsOnSuccess(r) ==
  /\ flow[r] = "back" /\ req[r].at \in {"in", "failed", "roleRequired"}
  /\ flow' = [flow EXCEPT ![r] = "answered"]
  /\ cookie' = IF req[r].at = "in" THEN NULL ELSE cookie
  /\ UNCHANGED <<opVars, path, carried>>

\* The answer, a redirect to the frontend whether or not the resolution
\* threw, clears the cookie.
Answer(r) ==
  /\ flow[r] = "back" /\ req[r].at \in {"in", "failed", "roleRequired"}
  /\ flow' = [flow EXCEPT ![r] = "answered"]
  /\ cookie' = NULL
  /\ UNCHANGED <<opVars, path, carried>>

-----------------------------------------------------------------------------

\* Registrations by password, and the edits of users: other people's requests.
Others(r) ==
  /\ Edit(r) \/ (flow[r] = "none" /\ Registration(r))
  /\ UNCHANGED flowVars

OsInit ==
  /\ Init
  /\ path = [r \in Requests |-> "none"]
  /\ flow = [r \in Requests |-> "none"]
  /\ cookie = NULL
  /\ carried = [r \in Requests |-> NULL]

OsNext ==
  \/ Expire
  \/ \E r \in Requests :
       \/ StartPlain(r) \/ \E role \in Roles : StartSignup(r, role)
       \/ Refused(r) \/ \E i \in Identities, e \in Emails : Return(r, i, e)
       \/ Resolve(r) \/ Create(r) \/ Answer(r) \/ Others(r)

OsSpec == OsInit /\ [][OsNext]_osVars

-----------------------------------------------------------------------------
(* Properties *)

\* The resolution is the one OAuthProvisioning specifies, so what is proved of
\* it holds here.
ImplementsProvisioning == OpSpec

OsTypeOK ==
  /\ OpTypeOK
  /\ path \in [Requests -> Roles \cup {"none", "plain"}]
  /\ flow \in [Requests -> {"none", "away", "back", "answered", "refused"}]
  /\ cookie \in Roles \cup {NULL}
  /\ carried \in [Requests -> Roles \cup {NULL}]

\* The role a callback carries is that of a path a flow of this browser set out
\* on and googleAuthRedirect has not answered yet, its own or another's.  A flow
\* it answered, with a sign-in or an error, leaves no role behind for a later
\* sign-in; one that the guard answered with a 400 does, for the cookie's ten
\* minutes, as does one that never comes back.
Unhandled == {s \in Requests : flow[s] \in {"away", "back", "refused"}}

RoleIsOfUnhandledFlow ==
  [][\A r \in Requests : carried'[r] # carried[r] =>
       \E s \in Unhandled : path[s] = carried'[r]]_osVars

\* What auth-module-specification.md says of the two paths: each stays
\* role-specific through signup and OAuth continuation, so a user created on
\* the talent path is a talent, and one created on the employer path an
\* employer.
PathKeepsRole ==
  \A u \in rows : path[u] \in Roles => roleOf(u) = path[u]

=============================================================================
