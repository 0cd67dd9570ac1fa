----------------------------- MODULE Onboarding -----------------------------
(***************************************************************************)
(* Completing the onboarding of one user: TalentService and                *)
(* EmployerService.completeOnboarding, the same code over two tables, with *)
(* repeated and crossing requests, an administrator who changes the role   *)
(* or removes the user, statements that fail, and a process that crashes.  *)
(* The transaction runs at READ COMMITTED on one connection of the pool: a *)
(* statement sees what was committed before it, and waits for another      *)
(* transaction only over a unique index or a row lock.  The user starts as *)
(* create and createUserWithOauthLink make one, with onboarding_complete   *)
(* FALSE; at this commit no other code sets it, so that rows which a seed  *)
(* or an old migration made complete are not this user.                    *)
(***************************************************************************)
EXTENDS Naturals, FiniteSets

CONSTANTS
  Requests,     \* submissions of the onboarding form
  PoolSize      \* connections of the database pool

ASSUME PoolAssumption == PoolSize \in Nat \ {0}

Kinds == {"talent", "employer"}
Roles == Kinds \cup {"admin"}

VARIABLES
  user,         \* the committed row: there, role, onboarding_complete
  profiles,     \* the kinds of the committed profile rows of the user
  req,          \* where each request is, and of which kind
  roleMoved     \* history: the role changed while a request was past its guard

obVars == <<user, profiles, req, roleMoved>>

\* Places: waiting for a connection, at a statement of the transaction, at
\* the session that follows it, or answered.
InTransaction == {"read", "check", "insert", "mark", "commit"}
InFlight      == InTransaction \cup {"connect", "session"}
Refused       == {"401", "role", "invalid", "completed", "409"}
Ended         == Refused \cup {"200", "500", "sessionFailed", "lost"}

Request == [at: InFlight \cup Ended \cup {"new"}, kind: Kinds]

Open           == {r \in Requests : req[r].at \in InTransaction}
FreeConnection == Cardinality(Open) < PoolSize

\* What an open transaction holds: the profile row it inserted, with the key
\* of the users row the profile refers to, and the users row it updated.
Inserted(r) == req[r].at \in {"mark", "commit"}
Marked(r)   == req[r].at = "commit"

Goto(r, at)       == req' = [req EXCEPT ![r].at = at]
CommittedUnchanged == UNCHANGED <<user, profiles, roleMoved>>

-----------------------------------------------------------------------------
(* A request *)

\* JwtStrategy.validate reads the row, RolesGuard compares its role with the
\* one of the controller.
Arrive(r, kind) ==
  /\ req[r].at = "new" /\ FreeConnection
  /\ req' = [req EXCEPT ![r] =
       [at |-> IF ~user.there THEN "401" ELSE IF user.role # kind THEN "role" ELSE "connect",
        kind |-> kind]]
  /\ CommittedUnchanged

\* manager.transaction: a connection of the pool, and BEGIN.
Begin(r) ==
  /\ req[r].at = "connect" /\ FreeConnection
  /\ Goto(r, "read")
  /\ CommittedUnchanged

\* Seeded fault: onboarding_complete is not looked at.
ReadUserUnchecked(r) ==
  /\ req[r].at = "read"
  /\ Goto(r, IF ~user.there THEN "invalid" ELSE "check")
  /\ CommittedUnchanged

\* getUserForOnboarding: 403 without a user, 403 if onboarding is complete.
ReadUser(r) ==
  /\ req[r].at = "read"
  /\ Goto(r, IF ~user.there THEN "invalid" ELSE IF user.complete THEN "completed" ELSE "check")
  /\ CommittedUnchanged

\* findOne of the profile: 409 if there is one.
CheckProfile(r) ==
  /\ req[r].at = "check"
  /\ Goto(r, IF req[r].kind \in profiles THEN "409" ELSE "insert")
  /\ CommittedUnchanged

\* Seeded fault: user_id is not unique in the table.
InsertProfileUnconstrained(r) ==
  /\ req[r].at = "insert"
  /\ Goto(r, IF user.there THEN "mark" ELSE "500")
  /\ CommittedUnchanged

\* The INSERT waits for an uncommitted profile of the same user; it violates
\* the unique index of user_id if that was committed, and the foreign key if
\* the user is gone: ROLLBACK and 500.
InsertProfile(r) ==
  /\ req[r].at = "insert"
  /\ \A s \in Requests : Inserted(s) => req[s].kind # req[r].kind
  /\ Goto(r, IF user.there /\ req[r].kind \notin profiles THEN "mark" ELSE "500")
  /\ CommittedUnchanged

\* Seeded fault: markOnboardingComplete, on a connection of its own.
MarkOnboardingComplete(r) ==
  /\ req[r].at = "mark" /\ FreeConnection
  /\ user' = [user EXCEPT !.complete = TRUE]
  /\ Goto(r, "commit")
  /\ UNCHANGED <<profiles, roleMoved>>

\* markOnboardingCompleteWithManager: the UPDATE waits for another
\* transaction that updated the users row.  Its own profile keeps the row
\* from being removed.
MarkOnboardingCompleteWithManager(r) ==
  /\ req[r].at = "mark"
  /\ \A s \in Requests : ~Marked(s)
  /\ Goto(r, "commit")
  /\ CommittedUnchanged

\* Seeded fault: the transaction without its UPDATE.
CommitProfileOnly(r) ==
  /\ req[r].at = "commit"
  /\ profiles' = profiles \cup {req[r].kind}
  /\ Goto(r, "session")
  /\ UNCHANGED <<user, roleMoved>>

\* COMMIT makes both rows visible and gives the connection back.
Commit(r) ==
  /\ req[r].at = "commit"
  /\ profiles' = profiles \cup {req[r].kind}
  /\ user'     = [user EXCEPT !.complete = TRUE]
  /\ Goto(r, "session")
  /\ UNCHANGED roleMoved

\* issueSessionForUser: findOne, which throws if the user is gone; the tokens
\* it signs and saves are those of OnboardingRead in Sessions.
IssueSession(r) ==
  /\ req[r].at = "session" /\ FreeConnection
  /\ Goto(r, IF user.there THEN "200" ELSE "sessionFailed")
  /\ CommittedUnchanged

\* A statement that errors: ROLLBACK in the transaction, and 500 anyway; once
\* committed, the session alone is missing.
Fail(r) ==
  /\ req[r].at \in InFlight
  /\ Goto(r, IF req[r].at = "session" THEN "sessionFailed" ELSE "500")
  /\ CommittedUnchanged

-----------------------------------------------------------------------------
(* The others *)

\* The process stops: no request it held is answered, and PostgreSQL rolls
\* back what was open.
Crash ==
  /\ \E r \in Requests : req[r].at \in InFlight
  /\ req' = [r \in Requests |->
               IF req[r].at \in InFlight THEN [req[r] EXCEPT !.at = "lost"] ELSE req[r]]
  /\ CommittedUnchanged

\* UsersService.update with a role: waits for a transaction that updated the
\* row.  The connection it waits on is not counted: what it waits for needs
\* no other.
PatchRole(role) ==
  /\ user.there /\ FreeConnection
  /\ \A r \in Requests : ~Marked(r)
  /\ role # user.role
  /\ user'      = [user EXCEPT !.role = role]
  /\ roleMoved' = (roleMoved \/ \E r \in Requests : req[r].at \in InFlight)
  /\ UNCHANGED <<profiles, req>>

\* Seeded fault: profiles refer to users without a foreign key.
RemoveUserUnreferenced ==
  /\ user.there /\ FreeConnection
  /\ user' = [user EXCEPT !.there = FALSE]
  /\ UNCHANGED <<profiles, req, roleMoved>>

\* UsersService.remove: waits for a transaction that refers to the row or
\* updated it; the profiles go with the user (ON DELETE CASCADE).
RemoveUser ==
  /\ user.there /\ FreeConnection
  /\ \A r \in Requests : ~Inserted(r)
  /\ user'     = [user EXCEPT !.there = FALSE]
  /\ profiles' = {}
  /\ UNCHANGED <<req, roleMoved>>

-----------------------------------------------------------------------------
Init ==
  /\ user \in [there: {TRUE}, role: Kinds, complete: {FALSE}]
  /\ profiles = {}
  /\ req = [r \in Requests |-> [at |-> "new", kind |-> "talent"]]
  /\ roleMoved = FALSE

Statement(r) ==
  \/ Begin(r) \/ ReadUser(r) \/ CheckProfile(r) \/ InsertProfile(r)
  \/ MarkOnboardingCompleteWithManager(r) \/ Commit(r) \/ IssueSession(r)

ObNext ==
  \/ \E r \in Requests : Statement(r) \/ Fail(r) \/ \E k \in Kinds : Arrive(r, k)
  \/ Crash \/ RemoveUser \/ \E role \in Roles : PatchRole(role)

ObSpec == Init /\ [][ObNext]_obVars

\* The statements of a request are asked for without waiting for a client;
\* PostgreSQL answers each once nothing it waits for is held.
ObFairSpec == ObSpec /\ \A r \in Requests : WF_obVars(Statement(r))

-----------------------------------------------------------------------------
(* Properties *)

\* The rows and the requests have their types.
ObTypeOK ==
  /\ user \in [there: BOOLEAN, role: Roles, complete: BOOLEAN]
  /\ profiles \subseteq Kinds
  /\ req \in [Requests -> Request]
  /\ roleMoved \in BOOLEAN

\* completeOnboarding is all or nothing, whatever statement fails, and
\* whatever crosses it: a user who is there has a profile exactly if
\* onboarding_complete, and one who was removed leaves no profile behind.
ProfileIffComplete ==
  IF user.there THEN user.complete <=> profiles # {} ELSE profiles = {}

\* However often the form is submitted, one submission of a kind creates the
\* profile: the others are refused or fail, and none of them signs in.
Granted(kind) == {r \in Requests : req[r].kind = kind
                                   /\ req[r].at \in {"session", "200", "sessionFailed"}}

OnboardedOnce == \A kind \in Kinds : \A r, s \in Granted(kind) : r = s

\* A user with both profiles is a user whose role an administrator changed
\* while a submission was being handled: the two services share no lock until
\* the UPDATE, which does not look at onboarding_complete again.
SecondProfileNeedsRoleChange == profiles = Kinds => roleMoved

\* An answer tells the truth about what was saved, for as long as the user is
\* there: after 200, and after a session that failed, the profile of the kind
\* is saved and onboarding complete; who is refused as completed is complete;
\* who is refused by 409 has the profile.
AnswersAreTrue ==
  user.there => \A r \in Requests :
    /\ req[r].at \in {"session", "200", "sessionFailed"} => req[r].kind \in profiles /\ user.complete
    /\ req[r].at = "completed" => user.complete
    /\ req[r].at = "409" => req[r].kind \in profiles

\* No request waits for ever: the row locks, the unique index and the pool of
\* connections never wait for each other in a circle.
RequestsEnd == \A r \in Requests : req[r].at # "new" ~> req[r].at \in Ended

\* What the proofs carry from step to step: an open transaction that has
\* inserted keeps the user there and its kind its own, and as long as the
\* role has not moved, all requests in flight are of the user's role and
\* nobody past the look-up can have the other profile beside it.
TransactionsHold ==
  \A r \in Requests : Inserted(r) =>
    /\ user.there /\ req[r].kind \notin profiles
    /\ \A s \in Requests : Inserted(s) /\ req[s].kind = req[r].kind => s = r

RoleHolds ==
  ~roleMoved /\ user.there => \A r \in Requests :
    /\ req[r].at \in InFlight => req[r].kind = user.role
    /\ req[r].at \in InTransaction \ {"read"} => profiles \subseteq {user.role}

OnboardingInv ==
  /\ ObTypeOK
  /\ ProfileIffComplete
  /\ OnboardedOnce
  /\ SecondProfileNeedsRoleChange
  /\ AnswersAreTrue
  /\ TransactionsHold
  /\ RoleHolds

=============================================================================
