------------------------- MODULE OAuthProvisioning -------------------------
(***************************************************************************)
(* Which user a Google callback signs in:                                  *)
(* UsersService.resolveOAuthUserFromProviderProfile over the tables users  *)
(* and user_oauth_accounts, against registrations by password, e-mail      *)
(* verifications and an administrator's updates and removals.  Each        *)
(* statement the callback awaits is a step, and any other request may run  *)
(* in between.  googleCallback is the only caller, so that there is one    *)
(* provider and an account row is a pair of a user and a provider_id.  A   *)
(* users row is named by the request that inserted it.                     *)
(***************************************************************************)
EXTENDS Naturals, FiniteSets, TLC

CONSTANTS
  Requests,      \* callbacks and registrations
  Identities,    \* provider_id of the Google accounts
  Emails,
  NULL,
  MaxInFlight    \* bound: requests being handled at the same time

ASSUME ProvisioningAssumption ==
  /\ NULL \notin Requests \cup Identities \cup Emails
  /\ MaxInFlight \in Nat \ {0}

VARIABLES
  rows,       \* the requests whose users row is there
  deleted,    \* those whose row was there and was removed
  row,        \* the columns of the row a request inserted
  link,       \* user_oauth_accounts: the user of each provider_id, or NULL
  req,        \* where each request is, with what it carries
  freed       \* history: e-mails a row gave up

usersVars == <<rows, deleted, row, freed>>
opVars    == <<usersVars, link, req>>

Row   == [email: Emails \cup {NULL}, is_verified: BOOLEAN, password: BOOLEAN]
Users == Requests \cup {NULL}

\* A row by its e-mail: users.email is unique.
Holding(e) == {u \in rows : row[u].email = e}
Find(e)    == IF Holding(e) = {} THEN NULL ELSE CHOOSE u \in Holding(e) : TRUE

Waiting == {"insert", "byEmail", "create", "raced", "mark", "link",
            "recheckIdentity", "recheckUser", "load"}
Ended   == {"in", "roleRequired", "failed", "registered", "409", "500"}

Request == [at: Waiting \cup Ended \cup {"new"}, identity: Identities \cup {NULL},
            email: Emails \cup {NULL}, user: Users]

MayArrive == Cardinality({r \in Requests : req[r].at \in Waiting}) < MaxInFlight

Goto(r, at)         == req' = [req EXCEPT ![r].at = at]
GotoWith(r, at, u)  == req' = [req EXCEPT ![r].at = at, ![r].user = u]
TablesUnchanged     == UNCHANGED <<usersVars, link>>

InsertUser(r, columns) ==
  /\ rows' = rows \cup {r}
  /\ row'  = [row EXCEPT ![r] = columns]
  /\ UNCHANGED <<deleted, freed>>

DeleteUser(u) ==
  /\ rows'    = rows \ {u}
  /\ deleted' = deleted \cup {u}
  /\ freed'   = freed \cup {row[u].email}
  /\ UNCHANGED <<row, link, req>>

SetVerified(u) ==
  /\ row' = [row EXCEPT ![u].is_verified = TRUE]
  /\ UNCHANGED <<rows, deleted, freed>>

-----------------------------------------------------------------------------
(* The callback *)

\* findOauthAccountWithUser: a provider_id already linked signs its user in.
FindLinked(r, i, e) ==
  /\ req[r].at = "new" /\ MayArrive
  /\ req' = [req EXCEPT ![r] = [at |-> IF link[i] = NULL THEN "byEmail" ELSE "in",
                                identity |-> i, email |-> e, user |-> link[i]]]
  /\ TablesUnchanged

\* The user found by e-mail is verified if need be, then linked: the same
\* statements for findByEmail and for the row that won the race.
Found(r, u) == GotoWith(r, IF row[u].is_verified THEN "link" ELSE "mark", u)

FindByEmail(r) ==
  /\ req[r].at = "byEmail"
  /\ LET u == Find(req[r].email)
     IN IF u # NULL THEN Found(r, u) ELSE Goto(r, "create")
  /\ TablesUnchanged

\* No user: a signup role is required to create one.
NoSignupRole(r) ==
  /\ req[r].at = "create"
  /\ Goto(r, "roleRequired")
  /\ TablesUnchanged

NewUser(r) == [email |-> req[r].email, is_verified |-> TRUE, password |-> FALSE]

\* Seeded fault: the two INSERTs outside a transaction.
CreateWithLinkUnatomic(r) ==
  /\ req[r].at = "create"
  /\ IF Holding(req[r].email) # {}
     THEN Goto(r, "raced") /\ UNCHANGED <<usersVars, link>>
     ELSE /\ InsertUser(r, NewUser(r))
          /\ IF link[req[r].identity] # NULL
             THEN Goto(r, "raced") /\ UNCHANGED link
             ELSE /\ link' = [link EXCEPT ![req[r].identity] = r]
                  /\ GotoWith(r, "in", r)

\* createVerifiedUserWithOauthLink: both rows in one transaction, undone
\* when either violates a unique index.
CreateWithLink(r) ==
  /\ req[r].at = "create"
  /\ IF Holding(req[r].email) # {} \/ link[req[r].identity] # NULL
     THEN Goto(r, "raced") /\ UNCHANGED <<usersVars, link>>
     ELSE /\ InsertUser(r, NewUser(r))
          /\ link' = [link EXCEPT ![req[r].identity] = r]
          /\ GotoWith(r, "in", r)

\* Seeded fault: the winner of the race is linked without being verified.
FindRacedUnverified(r) ==
  /\ req[r].at = "raced"
  /\ LET u == Find(req[r].email)
     IN IF u = NULL THEN Goto(r, "failed") ELSE GotoWith(r, "link", u)
  /\ TablesUnchanged

\* After a unique violation: the row that was inserted meanwhile, or throw.
FindRaced(r) ==
  /\ req[r].at = "raced"
  /\ LET u == Find(req[r].email)
     IN IF u = NULL THEN Goto(r, "failed") ELSE Found(r, u)
  /\ TablesUnchanged

\* markVerified: the UPDATE, and a findOne that throws if the row is gone.
MarkVerified(r) ==
  /\ req[r].at = "mark"
  /\ LET u == req[r].user
     IN IF u \in rows
        THEN SetVerified(u) /\ Goto(r, "link")
        ELSE Goto(r, "failed") /\ UNCHANGED usersVars
  /\ UNCHANGED link

\* Unique (provider, provider_id) and unique (user_id, provider).
Linkable(u, i) == link[i] = NULL /\ \A j \in Identities : link[j] # u

\* Seeded fault: the violation of a concurrent link is not looked into.
LinkUnrecovered(r) ==
  /\ req[r].at = "link"
  /\ IF req[r].user \in rows /\ Linkable(req[r].user, req[r].identity)
     THEN link' = [link EXCEPT ![req[r].identity] = req[r].user] /\ Goto(r, "load")
     ELSE Goto(r, "failed") /\ UNCHANGED link
  /\ UNCHANGED usersVars

\* linkOauthAccountToUser: the INSERT; the foreign key throws for a user
\* that is gone, a unique violation is looked into.
Link(r) ==
  /\ req[r].at = "link"
  /\ IF req[r].user \in rows /\ Linkable(req[r].user, req[r].identity)
     THEN link' = [link EXCEPT ![req[r].identity] = req[r].user] /\ Goto(r, "load")
     ELSE /\ Goto(r, IF req[r].user \in rows THEN "recheckIdentity" ELSE "failed")
          /\ UNCHANGED link
  /\ UNCHANGED usersVars

\* Seeded fault: any user linked to the provider_id will do.
RecheckIdentityAnyUser(r) ==
  /\ req[r].at = "recheckIdentity"
  /\ Goto(r, IF link[req[r].identity] # NULL THEN "load" ELSE "recheckUser")
  /\ TablesUnchanged

\* Is the provider_id linked to this very user?
RecheckIdentity(r) ==
  /\ req[r].at = "recheckIdentity"
  /\ Goto(r, IF link[req[r].identity] = req[r].user THEN "load" ELSE "recheckUser")
  /\ TablesUnchanged

\* Is the user's account of the provider this very provider_id?  Else throw.
RecheckUser(r) ==
  /\ req[r].at = "recheckUser"
  /\ Goto(r, IF link[req[r].identity] = req[r].user THEN "load" ELSE "failed")
  /\ TablesUnchanged

\* findOne of the user to sign in.
Load(r) ==
  /\ req[r].at = "load"
  /\ Goto(r, IF req[r].user \in rows THEN "in" ELSE "failed")
  /\ TablesUnchanged

-----------------------------------------------------------------------------
(* The other writers of the tables *)

\* UsersService.create: findByEmail, 409 if there is a row.
RegisterFind(r, e) ==
  /\ req[r].at = "new" /\ MayArrive
  /\ req' = [req EXCEPT ![r].at = IF Holding(e) = {} THEN "insert" ELSE "409",
                        ![r].email = e]
  /\ TablesUnchanged

RegisterInsert(r) ==
  /\ req[r].at = "insert"
  /\ IF Holding(req[r].email) = {}
     THEN /\ InsertUser(r, [email |-> req[r].email, is_verified |-> FALSE, password |-> TRUE])
          /\ Goto(r, "registered")
     ELSE Goto(r, "500") /\ UNCHANGED usersVars
  /\ UNCHANGED link

\* AuthService.verifyEmail: markVerified of a user with the right code.
VerifyEmail(u) ==
  /\ u \in rows /\ ~row[u].is_verified
  /\ SetVerified(u)
  /\ UNCHANGED <<link, req>>

\* UsersService.update: PATCH of the e-mail, refused by the unique index if
\* another row has it.
PatchEmail(u, e) ==
  /\ u \in rows /\ Holding(e) = {}
  /\ row'   = [row EXCEPT ![u].email = e]
  /\ freed' = freed \cup {row[u].email}
  /\ UNCHANGED <<rows, deleted, link, req>>

\* Seeded fault: the account rows do not keep their user.
RemoveUserLinked(u) ==
  /\ u \in rows
  /\ DeleteUser(u)

\* UsersService.remove: the foreign key (ON DELETE NO ACTION) refuses to
\* delete a user that has an account row.
RemoveUser(u) ==
  /\ u \in rows /\ \A i \in Identities : link[i] # u
  /\ DeleteUser(u)

-----------------------------------------------------------------------------
Init ==
  /\ rows = {} /\ deleted = {} /\ freed = {}
  /\ row   = [r \in Requests |-> [email |-> NULL, is_verified |-> FALSE, password |-> FALSE]]
  /\ link  = [i \in Identities |-> NULL]
  /\ req   = [r \in Requests |-> [at |-> "new", identity |-> NULL,
                                  email |-> NULL, user |-> NULL]]

Callback(r) ==
  \/ \E i \in Identities, e \in Emails : FindLinked(r, i, e)
  \/ FindByEmail(r) \/ NoSignupRole(r) \/ CreateWithLink(r) \/ FindRaced(r)
  \/ MarkVerified(r) \/ Link(r) \/ RecheckIdentity(r) \/ RecheckUser(r) \/ Load(r)

Registration(r) == (\E e \in Emails : RegisterFind(r, e)) \/ RegisterInsert(r)

Edit(u) == VerifyEmail(u) \/ RemoveUser(u) \/ \E e \in Emails : PatchEmail(u, e)

OpNext == \E r \in Requests : Callback(r) \/ Registration(r) \/ Edit(r)

OpSpec == Init /\ [][OpNext]_opVars

-----------------------------------------------------------------------------
(* Properties *)

\* The rows and what the requests carry have their types.
OpTypeOK ==
  /\ rows \subseteq Requests /\ deleted \subseteq Requests
  /\ row \in [Requests -> Row]
  /\ link \in [Identities -> Users]
  /\ req \in [Requests -> Request]
  /\ freed \subseteq Emails \cup {NULL}

\* A callback that was answered with a session was answered with the user
\* the Google account is linked to, and that link never changes afterwards:
\* two callbacks of one Google account, however they race with each other,
\* with a registration or with an edit, sign in the same user.
SignInIsOwner ==
  \A r \in Requests : req[r].at = "in" =>
    req[r].user # NULL /\ link[req[r].identity] = req[r].user

\* Whoever is linked to a Google account is there and verified: no path of
\* the resolution links a row it did not see or make verified.
LinkedAreVerified ==
  \A i \in Identities : link[i] # NULL =>
    link[i] \in rows /\ row[link[i]].is_verified

\* A user without a password has a Google account to sign in with: a
\* callback that fails midway leaves no row nobody can use.
PasswordlessAreLinked ==
  \A u \in rows : ~row[u].password => \E i \in Identities : link[i] = u

\* A callback that fails had a reason other than a race it could recover
\* from: the Google account belongs to another user, the user has another
\* Google account, the user was deleted, or an administrator took the
\* e-mail off a row meanwhile.
Conflict(r) ==
  \/ link[req[r].identity] \notin {NULL, req[r].user}
  \/ \E i \in Identities \ {req[r].identity} : req[r].user # NULL /\ link[i] = req[r].user
  \/ req[r].user \in deleted
  \/ req[r].email \in freed

FailuresAreConflicts == \A r \in Requests : req[r].at = "failed" => Conflict(r)

\* What the proofs carry from step to step.  A row stays with the request
\* that inserted it, which is at its end; and each request carries what its
\* earlier statements found, as far as no later statement of another request
\* can have undone it.
FreshRows == \A u \in rows \cup deleted : req[u].at \in {"in", "registered"}

Carries(r) ==
  LET q == req[r]
  IN /\ q.at \notin {"new", "insert", "registered", "409", "500"} =>
          q.identity \in Identities /\ q.email \in Emails
     /\ q.at = "insert" => q.email \in Emails
     /\ q.at \in {"byEmail", "create", "raced"} => q.user = NULL
     /\ q.at = "raced" =>
          link[q.identity] # NULL \/ q.email \in freed \/ Holding(q.email) # {}
     /\ q.at \in {"mark", "link", "recheckIdentity", "recheckUser", "load"} =>
          q.user \in rows \cup deleted
     /\ q.at = "link" => row[q.user].is_verified
     /\ q.at \in {"recheckIdentity", "recheckUser"} =>
          link[q.identity] # NULL \/ \E i \in Identities \ {q.identity} : link[i] = q.user
     /\ q.at \in {"load", "in"} => q.user # NULL /\ link[q.identity] = q.user

ProvisioningInv ==
  /\ OpTypeOK
  /\ FreshRows
  /\ \A r \in Requests : Carries(r)
  /\ LinkedAreVerified
  /\ PasswordlessAreLinked
  /\ FailuresAreConflicts

=============================================================================
