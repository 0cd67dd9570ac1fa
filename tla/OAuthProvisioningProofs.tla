---------------------- MODULE OAuthProvisioningProofs ----------------------
(***************************************************************************)
(* For any number of callbacks, registrations and edits in any             *)
(* interleaving: a Google account signs in the one user it is linked to,   *)
(* linked users are verified, no user is left without a way to sign in,    *)
(* and a callback fails only over a genuine conflict.  The argument: the   *)
(* tables only grow in what a request relies on (Grows), so that what a    *)
(* request carries survives the steps of the others (OthersKeep), and each *)
(* step establishes what its own request carries next (ActorKeeps).  The   *)
(* flows of OAuthSignup take these steps and no others, and keep the role  *)
(* of each to itself while they do not overlap.                            *)
(***************************************************************************)
EXTENDS OAuthSignup, TLAPS

\* What no step takes away: links, the existence of rows, verification, and
\* an e-mail's row unless the e-mail is recorded as freed.
Grows ==
  /\ \A i \in Identities : link[i] # NULL => link'[i] = link[i]
  /\ rows \cup deleted \subseteq rows' \cup deleted'
  /\ deleted \subseteq deleted' /\ freed \subseteq freed'
  /\ \A u \in rows \cup deleted : row[u].is_verified => row'[u].is_verified
  /\ \A e \in Emails : Holding(e) # {} => Holding(e)' # {} \/ e \in freed'

-----------------------------------------------------------------------------
(* Types *)

LEMMA FindFinds ==
  ASSUME OpTypeOK, NEW e
  PROVE  /\ Find(e) = NULL => Holding(e) = {}
         /\ Find(e) # NULL => Find(e) \in rows /\ row[Find(e)].email = e
<1>1. CASE Holding(e) = {}
  BY <1>1 DEF Find
<1>2. CASE Holding(e) # {}
  <2>1. Find(e) \in Holding(e)
    BY <1>2 DEF Find
  <2> QED
    BY <2>1, ProvisioningAssumption DEF Holding, OpTypeOK
<1> QED
  BY <1>1, <1>2

LEMMA RequestsType ==
  ASSUME req \in [Requests -> Request], NEW r \in Requests, NEW at \in Waiting \cup Ended,
         NEW e \in Emails \cup {NULL}, NEW u \in Users
  PROVE  /\ [req EXCEPT ![r].at = at] \in [Requests -> Request]
         /\ [req EXCEPT ![r].at = at, ![r].user = u] \in [Requests -> Request]
         /\ [req EXCEPT ![r].at = at, ![r].email = e] \in [Requests -> Request]
<1>1. [req[r] EXCEPT !.at = at] \in Request
  BY DEF Request
<1>2. [req[r] EXCEPT !.at = at, !.user = u] \in Request
  BY DEF Request
<1>3. [req[r] EXCEPT !.at = at, !.email = e] \in Request
  BY DEF Request
<1>4. /\ [req EXCEPT ![r] = [req[r] EXCEPT !.at = at]] \in [Requests -> Request]
      /\ [req EXCEPT ![r] = [req[r] EXCEPT !.at = at, !.user = u]] \in [Requests -> Request]
      /\ [req EXCEPT ![r] = [req[r] EXCEPT !.at = at, !.email = e]] \in [Requests -> Request]
  BY <1>1, <1>2, <1>3
<1> QED
  BY <1>4

LEMMA UsersType ==
  ASSUME OpTypeOK, NEW r \in Requests, NEW columns \in Row,
         \/ InsertUser(r, columns)
         \/ SetVerified(r)
         \/ DeleteUser(r)
         \/ UNCHANGED usersVars
  PROVE  /\ rows' \subseteq Requests /\ deleted' \subseteq Requests
         /\ row' \in [Requests -> Row]
         /\ freed' \subseteq Emails \cup {NULL}
<1>1. CASE InsertUser(r, columns)
  BY <1>1 DEF OpTypeOK, InsertUser
<1>2. CASE SetVerified(r)
  <2>1. [row[r] EXCEPT !.is_verified = TRUE] \in Row
    BY DEF OpTypeOK, Row
  <2>2. row' = [row EXCEPT ![r] = [row[r] EXCEPT !.is_verified = TRUE]]
    BY <1>2 DEF SetVerified, OpTypeOK
  <2> QED
    BY <1>2, <2>1, <2>2 DEF OpTypeOK, SetVerified
<1>3. CASE DeleteUser(r)
  BY <1>3 DEF OpTypeOK, DeleteUser, Row
<1>4. CASE UNCHANGED usersVars
  BY <1>4 DEF OpTypeOK, usersVars
<1> QED
  BY <1>1, <1>2, <1>3, <1>4

\* The rows and the requests keep their types.
LEMMA StepType == OpTypeOK /\ [OpNext]_opVars => OpTypeOK'
<1> SUFFICES ASSUME OpTypeOK, [OpNext]_opVars PROVE OpTypeOK'
  OBVIOUS
<1> USE DEF OpTypeOK, Row, Users, Request, Waiting, Ended, TablesUnchanged, usersVars, Goto, GotoWith
<1>1. ASSUME NEW r \in Requests, Callback(r) PROVE OpTypeOK'
  <2>1. CASE \E i \in Identities, e \in Emails : FindLinked(r, i, e)
    BY <2>1 DEF FindLinked
  <2>2. CASE FindByEmail(r)
    <3>1. Find(req[r].email) \in Users
      BY FindFinds
    <3> QED
      BY <2>2, <3>1 DEF FindByEmail, Found
  <2>3. CASE NoSignupRole(r)
    BY <2>3 DEF NoSignupRole
  <2>4. CASE CreateWithLink(r)
    <3>1. NewUser(r) \in Row
      BY DEF NewUser
    <3>2. CASE Holding(req[r].email) # {} \/ link[req[r].identity] # NULL
      BY <2>4, <3>2 DEF CreateWithLink
    <3>3. CASE ~(Holding(req[r].email) # {} \/ link[req[r].identity] # NULL)
      <4>1. /\ link' = [link EXCEPT ![req[r].identity] = r]
            /\ req' = [req EXCEPT ![r].at = "in", ![r].user = r]
            /\ InsertUser(r, NewUser(r))
        BY <2>4, <3>3 DEF CreateWithLink
      <4>2. link' \in [Identities -> Users]
        BY <4>1
      <4>3. req' \in [Requests -> Request]
        <5>1. "in" \in Waiting \cup Ended /\ r \in Users /\ NULL \in Emails \cup {NULL}
          OBVIOUS
        <5> HIDE DEF Request, Users, Waiting, Ended
        <5> QED
          BY <4>1, <5>1, RequestsType
      <4> QED
        BY <3>1, <4>1, <4>2, <4>3, UsersType
    <3> QED
      BY <3>2, <3>3
  <2>5. CASE FindRaced(r)
    <3>1. Find(req[r].email) \in Users
      BY FindFinds
    <3> QED
      BY <2>5, <3>1 DEF FindRaced, Found
  <2>6. CASE MarkVerified(r)
    <3>1. /\ (req[r].user \in Requests /\ SetVerified(req[r].user)) \/ UNCHANGED usersVars
          /\ UNCHANGED link
          /\ req' \in [Requests -> Request]
      BY <2>6 DEF MarkVerified
    <3> QED
      BY <3>1, UsersType
  <2>7. CASE Link(r)
    BY <2>7 DEF Link
  <2>8. CASE RecheckIdentity(r) \/ RecheckUser(r) \/ Load(r)
    <3>1. PICK at \in {"load", "recheckUser", "in", "failed"} : req' = [req EXCEPT ![r].at = at]
      BY <2>8 DEF RecheckIdentity, RecheckUser, Load
    <3>2. req' \in [Requests -> Request]
      BY <3>1, RequestsType
    <3>3. UNCHANGED <<usersVars, link>>
      BY <2>8 DEF RecheckIdentity, RecheckUser, Load
    <3> QED
      BY <3>2, <3>3
  <2> QED
    BY <1>1, <2>1, <2>2, <2>3, <2>4, <2>5, <2>6, <2>7, <2>8 DEF Callback
<1>2. ASSUME NEW r \in Requests, Registration(r) PROVE OpTypeOK'
  <2>1. ASSUME NEW e \in Emails, RegisterFind(r, e) PROVE OpTypeOK'
    <3>1. PICK at \in {"insert", "409"} : req' = [req EXCEPT ![r].at = at, ![r].email = e]
      BY <2>1 DEF RegisterFind
    <3>2. req' \in [Requests -> Request]
      BY <3>1, RequestsType
    <3> QED
      BY <2>1, <3>2 DEF RegisterFind
  <2>2. CASE RegisterInsert(r)
    <3> DEFINE columns == [email |-> req[r].email, is_verified |-> FALSE, password |-> TRUE]
    <3>1. columns \in Row
      OBVIOUS
    <3>2. /\ InsertUser(r, columns) \/ UNCHANGED usersVars
          /\ UNCHANGED link
      BY <2>2 DEF RegisterInsert
    <3>3. PICK at \in {"registered", "500"} : req' = [req EXCEPT ![r].at = at]
      BY <2>2 DEF RegisterInsert
    <3> HIDE DEF columns
    <3>4. req' \in [Requests -> Request]
      BY <3>3
    <3> QED
      BY <3>1, <3>2, <3>4, UsersType
  <2> QED
    BY <1>2, <2>1, <2>2 DEF Registration
<1>3. ASSUME NEW u \in Requests, Edit(u) PROVE OpTypeOK'
  <2>1. CASE VerifyEmail(u) \/ RemoveUser(u)
    <3>1. (SetVerified(u) \/ DeleteUser(u)) /\ UNCHANGED <<link, req>>
      BY <2>1 DEF VerifyEmail, RemoveUser, DeleteUser
    <3> QED
      BY <3>1, UsersType
  <2>2. ASSUME NEW e \in Emails, PatchEmail(u, e) PROVE OpTypeOK'
    <3>1. [row[u] EXCEPT !.email = e] \in Row /\ row[u].email \in Emails \cup {NULL}
      OBVIOUS
    <3>2. row' = [row EXCEPT ![u] = [row[u] EXCEPT !.email = e]]
      BY <2>2 DEF PatchEmail
    <3>3. row' \in [Requests -> Row]
      BY <3>1, <3>2
    <3> QED
      BY <2>2, <3>1, <3>3 DEF PatchEmail
  <2> QED
    BY <1>3, <2>1, <2>2 DEF Edit
<1>4. CASE UNCHANGED opVars
  BY <1>4 DEF opVars
<1> QED
  BY <1>1, <1>2, <1>3, <1>4 DEF OpNext

-----------------------------------------------------------------------------
(* The tables *)

\* Steps that touch no table keep everything said of the tables.
LEMMA QuietGrows == UNCHANGED <<usersVars, link>> => Grows
BY DEF Grows, usersVars, Holding

\* Every step keeps what requests rely on.
LEMMA StepGrows == ProvisioningInv /\ OpNext => Grows
<1> SUFFICES ASSUME ProvisioningInv, OpNext PROVE Grows
  OBVIOUS
<1> USE DEF ProvisioningInv, OpTypeOK
<1>1. ASSUME NEW r \in Requests, NEW columns \in Row, req[r].at \in {"create", "insert"},
             InsertUser(r, columns), Holding(columns.email) = {},
             \A i \in Identities : link[i] # NULL => link'[i] = link[i]
      PROVE  Grows
  <2>1. r \notin rows \cup deleted
    BY <1>1 DEF FreshRows
  <2> QED
    BY <1>1, <2>1 DEF Grows, InsertUser, Holding, Row
<1>2. ASSUME NEW u \in Requests, SetVerified(u), UNCHANGED link PROVE Grows
  BY <1>2 DEF Grows, SetVerified, Holding, Row
<1>3. ASSUME NEW r \in Requests, Callback(r) PROVE Grows
  <2>1. CASE CreateWithLink(r)
    <3>1. req[r].email \in Emails /\ req[r].identity \in Identities
      BY <2>1 DEF CreateWithLink, Carries
    <3>2. CASE Holding(req[r].email) = {} /\ link[req[r].identity] = NULL
      <4>1. NewUser(r) \in Row /\ NewUser(r).email = req[r].email
        BY <3>1 DEF NewUser, Row
      <4> QED
        BY <1>1, <2>1, <3>1, <3>2, <4>1 DEF CreateWithLink
    <3> QED
      BY <2>1, <3>2, QuietGrows DEF CreateWithLink
  <2>2. CASE MarkVerified(r)
    BY <1>2, <2>2, QuietGrows DEF MarkVerified
  <2>3. CASE Link(r)
    <3>1. req[r].identity \in Identities
      BY <2>3 DEF Link, Carries
    <3> QED
      BY <2>3, <3>1 DEF Link, Linkable, Grows, usersVars, Holding
  <2> QED
    BY <1>3, <2>1, <2>2, <2>3, QuietGrows
    DEF Callback, FindLinked, FindByEmail, NoSignupRole, FindRaced, RecheckIdentity,
        RecheckUser, Load, TablesUnchanged
<1>4. ASSUME NEW r \in Requests, Registration(r) PROVE Grows
  <2>1. CASE RegisterInsert(r)
    <3>1. req[r].email \in Emails
      BY <2>1 DEF RegisterInsert, Carries
    <3>2. CASE Holding(req[r].email) = {}
      <4> DEFINE columns == [email |-> req[r].email, is_verified |-> FALSE, password |-> TRUE]
      <4>1. columns \in Row /\ columns.email = req[r].email
        BY <3>1 DEF Row
      <4> HIDE DEF columns
      <4>2. InsertUser(r, columns) /\ UNCHANGED link
        BY <2>1, <3>2 DEF RegisterInsert, columns
      <4> QED
        BY <1>1, <2>1, <3>2, <4>1, <4>2 DEF RegisterInsert
    <3> QED
      BY <2>1, <3>2, QuietGrows DEF RegisterInsert
  <2> QED
    BY <1>4, <2>1, QuietGrows DEF Registration, RegisterFind, TablesUnchanged
<1>5. ASSUME NEW u \in Requests, Edit(u) PROVE Grows
  <2>1. CASE VerifyEmail(u)
    BY <1>2, <2>1 DEF VerifyEmail
  <2>2. CASE RemoveUser(u)
    BY <2>2 DEF RemoveUser, DeleteUser, Grows, Holding
  <2>3. ASSUME NEW e \in Emails, PatchEmail(u, e) PROVE Grows
    BY <2>3 DEF PatchEmail, Grows, Holding, Row
  <2> QED
    BY <1>5, <2>1, <2>2, <2>3 DEF Edit
<1> QED
  BY <1>3, <1>4, <1>5 DEF OpNext

-----------------------------------------------------------------------------
(* What the requests carry *)

\* What one request carries survives the steps of the others.
LEMMA OthersKeep ==
  ASSUME ProvisioningInv, OpTypeOK', Grows, NEW s \in Requests, req'[s] = req[s]
  PROVE  Carries(s)' /\ (req'[s].at = "failed" => Conflict(s)')
<1> DEFINE q == req[s]
<1>1. Carries(s)
  BY DEF ProvisioningInv
<1>2. q.identity \in Identities /\ link[q.identity] # NULL
        => link'[q.identity] = link[q.identity]
  BY DEF Grows
<1>3. q.at = "raced" =>
        link'[q.identity] # NULL \/ q.email \in freed' \/ Holding(q.email)' # {}
  BY <1>1, <1>2 DEF Carries, Grows
<1>4. q.user \in rows \cup deleted /\ row[q.user].is_verified => row'[q.user].is_verified
  BY DEF Grows
<1>5. ASSUME q.at \in {"recheckIdentity", "recheckUser"}
      PROVE  \/ link'[q.identity] # NULL
             \/ \E i \in Identities \ {q.identity} : link'[i] = q.user
  <2>1. q.user # NULL /\ q.identity \in Identities
    BY <1>1, <1>5, ProvisioningAssumption DEF Carries, ProvisioningInv, OpTypeOK
  <2> QED
    BY <1>1, <1>5, <2>1 DEF Carries, Grows
<1>6. q.user \in rows \cup deleted => q.user \in rows' \cup deleted'
  BY DEF Grows
<1>7. Carries(s)'
  <2> USE <1>1, req'[s] = req[s] DEF Carries
  <2>1. q.at = "link" => row'[q.user].is_verified
    BY <1>4
  <2>2. q.at \in {"load", "in"} => q.user # NULL /\ link'[q.identity] = q.user
    BY <1>2
  <2> QED
    BY <1>3, <1>5, <1>6, <2>1, <2>2
<1>8. req'[s].at = "failed" => Conflict(s)'
  <2>1. q.at = "failed" => Conflict(s) /\ q.identity \in Identities
    BY <1>1 DEF ProvisioningInv, FailuresAreConflicts, Carries
  <2> QED
    BY <1>2, <2>1 DEF Conflict, Grows
<1> QED
  BY <1>7, <1>8

\* Each statement establishes what its request carries to the next one, and
\* fails only over a conflict.
LEMMA ActorKeeps ==
  ASSUME ProvisioningInv, OpTypeOK', NEW r \in Requests, Callback(r) \/ Registration(r)
  PROVE  /\ Carries(r)' /\ (req'[r].at = "failed" => Conflict(r)')
         /\ \A s \in Requests \ {r} : req'[s] = req[s]
<1> USE DEF ProvisioningInv, OpTypeOK, TablesUnchanged, usersVars, Goto, GotoWith
<1>1. Carries(r) /\ req[r] \in Request
  OBVIOUS
<1>2. ASSUME NEW i \in Identities, NEW e \in Emails, FindLinked(r, i, e)
      PROVE  Carries(r)' /\ req'[r].at # "failed" /\ \A s \in Requests \ {r} : req'[s] = req[s]
  BY <1>2 DEF FindLinked, Carries
<1>3. CASE FindByEmail(r)
  BY <1>1, <1>3, FindFinds DEF FindByEmail, Found, Carries, Request
<1>4. CASE NoSignupRole(r)
  BY <1>1, <1>4 DEF NoSignupRole, Carries, Request
<1>5. CASE CreateWithLink(r)
  <2>1. CASE Holding(req[r].email) # {} \/ link[req[r].identity] # NULL
    BY <1>1, <1>5, <2>1 DEF CreateWithLink, Carries, Request, Holding
  <2>2. CASE ~(Holding(req[r].email) # {} \/ link[req[r].identity] # NULL)
    BY <1>1, <1>5, <2>2, ProvisioningAssumption DEF CreateWithLink, Carries, Request
  <2> QED
    BY <2>1, <2>2
<1>6. CASE FindRaced(r)
  <2>1. CASE Find(req[r].email) = NULL
    BY <1>1, <1>6, <2>1, FindFinds DEF FindRaced, Carries, Request, Conflict
  <2>2. CASE Find(req[r].email) # NULL
    BY <1>1, <1>6, <2>2, FindFinds DEF FindRaced, Found, Carries, Request
  <2> QED
    BY <2>1, <2>2
<1>7. CASE MarkVerified(r)
  <2>1. CASE req[r].user \in rows
    <3>1. row'[req[r].user].is_verified
      BY <1>7, <2>1 DEF MarkVerified, SetVerified, Row
    <3> QED
      BY <1>1, <1>7, <2>1, <3>1 DEF MarkVerified, SetVerified, Carries, Request
  <2>2. CASE req[r].user \notin rows
    BY <1>1, <1>7, <2>2 DEF MarkVerified, Carries, Request, Conflict
  <2> QED
    BY <2>1, <2>2
<1>8. CASE Link(r)
  <2>1. CASE req[r].user \in rows /\ Linkable(req[r].user, req[r].identity)
    BY <1>1, <1>8, <2>1, ProvisioningAssumption DEF Link, Linkable, Carries, Request
  <2>2. CASE ~(req[r].user \in rows /\ Linkable(req[r].user, req[r].identity))
    BY <1>1, <1>8, <2>2, ProvisioningAssumption
    DEF Link, Linkable, Carries, Request, Conflict
  <2> QED
    BY <2>1, <2>2
<1>9. CASE RecheckIdentity(r)
  BY <1>1, <1>9, ProvisioningAssumption DEF RecheckIdentity, Carries, Request
<1>10. CASE RecheckUser(r)
  BY <1>1, <1>10, ProvisioningAssumption DEF RecheckUser, Carries, Request, Conflict
<1>11. CASE Load(r)
  BY <1>1, <1>11 DEF Load, Carries, Request, Conflict
<1>12. CASE Registration(r)
  BY <1>1, <1>12 DEF Registration, RegisterFind, RegisterInsert, Carries, Request
<1> QED
  BY <1>2, <1>3, <1>4, <1>5, <1>6, <1>7, <1>8, <1>9, <1>10, <1>11, <1>12 DEF Callback

-----------------------------------------------------------------------------
(* What the tables promise *)

TablesInv == FreshRows /\ LinkedAreVerified /\ PasswordlessAreLinked

\* A step that touches no table, of a request that inserted no row.
LEMMA QuietTables ==
  ASSUME TablesInv, UNCHANGED <<usersVars, link>>, NEW r \in Requests,
         req[r].at \notin {"in", "registered"},
         \A s \in Requests \ {r} : req'[s] = req[s],
         rows \subseteq Requests, deleted \subseteq Requests
  PROVE  TablesInv'
BY DEF TablesInv, FreshRows, LinkedAreVerified, PasswordlessAreLinked, usersVars

LEMMA CallbackTables ==
  ASSUME ProvisioningInv, OpTypeOK', NEW r \in Requests, Callback(r)
  PROVE  TablesInv'
<1> USE DEF ProvisioningInv, OpTypeOK
<1>1. Carries(r) /\ req[r] \in Request /\ TablesInv
  BY DEF TablesInv
<1>2. \A s \in Requests \ {r} : req'[s] = req[s]
  BY ActorKeeps
<1>3. req[r].at \notin {"in", "registered"}
  BY DEF Callback, FindLinked, FindByEmail, NoSignupRole, CreateWithLink, FindRaced,
         MarkVerified, Link, RecheckIdentity, RecheckUser, Load
<1>4. r \notin rows \cup deleted
  BY <1>3 DEF FreshRows
<1>5. CASE UNCHANGED <<usersVars, link>>
  BY <1>1, <1>2, <1>3, <1>5, QuietTables
<1>6. ASSUME CreateWithLink(r), Holding(req[r].email) = {}, link[req[r].identity] = NULL
      PROVE  TablesInv'
  <2>1. /\ rows' = rows \cup {r} /\ deleted' = deleted
        /\ row' = [row EXCEPT ![r] = NewUser(r)]
        /\ link' = [link EXCEPT ![req[r].identity] = r]
        /\ req'[r].at = "in"
        /\ req[r].identity \in Identities
    BY <1>1, <1>6 DEF CreateWithLink, InsertUser, GotoWith, Carries, Request
  <2>2. FreshRows'
    BY <1>2, <2>1 DEF FreshRows
  <2>3. LinkedAreVerified'
    BY <1>4, <2>1 DEF LinkedAreVerified, NewUser
  <2>4. ASSUME NEW u \in rows', ~row'[u].password PROVE \E i \in Identities : link'[i] = u
    <3>1. CASE u = r
      BY <2>1, <3>1
    <3>2. CASE u \in rows /\ u # r
      BY <1>6, <2>1, <2>4, <3>2, ProvisioningAssumption DEF PasswordlessAreLinked
    <3> QED
      BY <2>1, <3>1, <3>2
  <2> QED
    BY <2>2, <2>3, <2>4 DEF TablesInv, PasswordlessAreLinked
<1>7. ASSUME MarkVerified(r), req[r].user \in rows PROVE TablesInv'
  <2>1. /\ rows' = rows /\ deleted' = deleted /\ link' = link
        /\ row' = [row EXCEPT ![req[r].user].is_verified = TRUE]
    BY <1>7 DEF MarkVerified, SetVerified
  <2>2. FreshRows'
    BY <1>2, <1>4, <2>1 DEF FreshRows
  <2>3. LinkedAreVerified' /\ PasswordlessAreLinked'
    BY <1>7, <2>1 DEF LinkedAreVerified, PasswordlessAreLinked, Row
  <2> QED
    BY <2>2, <2>3 DEF TablesInv
<1>8. ASSUME Link(r), req[r].user \in rows, Linkable(req[r].user, req[r].identity)
      PROVE  TablesInv'
  <2>1. /\ UNCHANGED usersVars
        /\ link' = [link EXCEPT ![req[r].identity] = req[r].user]
        /\ req[r].identity \in Identities /\ row[req[r].user].is_verified
        /\ link[req[r].identity] = NULL
    BY <1>1, <1>8 DEF Link, Linkable, Carries
  <2>2. FreshRows'
    BY <1>2, <1>4, <2>1 DEF FreshRows, usersVars
  <2>3. LinkedAreVerified' /\ PasswordlessAreLinked'
    BY <1>8, <2>1, ProvisioningAssumption
    DEF LinkedAreVerified, PasswordlessAreLinked, usersVars
  <2> QED
    BY <2>2, <2>3 DEF TablesInv
<1> QED
  BY <1>5, <1>6, <1>7, <1>8
  DEF Callback, FindLinked, FindByEmail, NoSignupRole, CreateWithLink, FindRaced,
      MarkVerified, Link, RecheckIdentity, RecheckUser, Load, TablesUnchanged

LEMMA RegistrationTables ==
  ASSUME ProvisioningInv, OpTypeOK', NEW r \in Requests, Registration(r)
  PROVE  TablesInv'
<1> USE DEF ProvisioningInv, OpTypeOK
<1>1. Carries(r) /\ req[r] \in Request /\ TablesInv
  BY DEF TablesInv
<1>2. \A s \in Requests \ {r} : req'[s] = req[s]
  BY ActorKeeps
<1>3. req[r].at \notin {"in", "registered"}
  BY DEF Registration, RegisterFind, RegisterInsert
<1>4. r \notin rows \cup deleted
  BY <1>3 DEF FreshRows
<1>5. CASE UNCHANGED <<usersVars, link>>
  BY <1>1, <1>2, <1>3, <1>5, QuietTables
<1>6. ASSUME RegisterInsert(r), Holding(req[r].email) = {} PROVE TablesInv'
  <2>1. /\ rows' = rows \cup {r} /\ deleted' = deleted /\ link' = link
        /\ row' = [row EXCEPT ![r] = [email |-> req[r].email,
                                      is_verified |-> FALSE, password |-> TRUE]]
        /\ req'[r].at = "registered"
    BY <1>1, <1>6 DEF RegisterInsert, InsertUser, Goto, Request
  <2>2. FreshRows'
    BY <1>2, <2>1 DEF FreshRows
  <2>3. LinkedAreVerified' /\ PasswordlessAreLinked'
    BY <1>4, <2>1 DEF LinkedAreVerified, PasswordlessAreLinked
  <2> QED
    BY <2>2, <2>3 DEF TablesInv
<1> QED
  BY <1>5, <1>6 DEF Registration, RegisterFind, RegisterInsert, TablesUnchanged

LEMMA EditTables ==
  ASSUME ProvisioningInv, OpTypeOK', NEW u \in Requests, Edit(u)
  PROVE  TablesInv' /\ req' = req
<1> USE DEF ProvisioningInv, OpTypeOK
<1>1. CASE VerifyEmail(u)
  <2>1. /\ rows' = rows /\ deleted' = deleted /\ link' = link /\ req' = req
        /\ row' = [row EXCEPT ![u].is_verified = TRUE]
    BY <1>1 DEF VerifyEmail, SetVerified
  <2> QED
    BY <2>1 DEF TablesInv, FreshRows, LinkedAreVerified, PasswordlessAreLinked, Row
<1>2. CASE RemoveUser(u)
  BY <1>2 DEF RemoveUser, DeleteUser, TablesInv, FreshRows, LinkedAreVerified,
              PasswordlessAreLinked
<1>3. ASSUME NEW e \in Emails, PatchEmail(u, e) PROVE TablesInv' /\ req' = req
  <2>1. /\ rows' = rows /\ deleted' = deleted /\ link' = link /\ req' = req
        /\ row' = [row EXCEPT ![u].email = e]
    BY <1>3 DEF PatchEmail
  <2> QED
    BY <2>1 DEF TablesInv, FreshRows, LinkedAreVerified, PasswordlessAreLinked, Row
<1> QED
  BY <1>1, <1>2, <1>3 DEF Edit

-----------------------------------------------------------------------------
(* The invariant *)

LEMMA InitProvisioning == Init => ProvisioningInv
<1> SUFFICES ASSUME Init PROVE ProvisioningInv
  OBVIOUS
<1>1. OpTypeOK
  BY DEF Init, OpTypeOK, Row, Users, Request
<1>2. TablesInv
  BY DEF Init, TablesInv, FreshRows, LinkedAreVerified, PasswordlessAreLinked
<1>3. FailuresAreConflicts /\ \A r \in Requests : Carries(r)
  BY DEF Init, FailuresAreConflicts, Carries
<1> QED
  BY <1>1, <1>2, <1>3 DEF ProvisioningInv, TablesInv

LEMMA StepProvisioning == ProvisioningInv /\ [OpNext]_opVars => ProvisioningInv'
<1> SUFFICES ASSUME ProvisioningInv, [OpNext]_opVars PROVE ProvisioningInv'
  OBVIOUS
<1>1. OpTypeOK'
  BY StepType DEF ProvisioningInv
<1>2. CASE UNCHANGED opVars
  BY <1>2 DEF opVars, usersVars, ProvisioningInv, OpTypeOK, FreshRows, Carries, Holding,
              LinkedAreVerified, PasswordlessAreLinked, FailuresAreConflicts, Conflict
<1>3. ASSUME OpNext PROVE ProvisioningInv'
  <2>1. Grows
    BY <1>3, StepGrows
  <2>2. TablesInv'
    BY <1>1, <1>3, CallbackTables, RegistrationTables, EditTables DEF OpNext
  <2>3. ASSUME NEW s \in Requests
        PROVE  Carries(s)' /\ (req'[s].at = "failed" => Conflict(s)')
    <3>1. CASE req'[s] = req[s]
      BY <1>1, <2>1, <3>1, OthersKeep
    <3>2. CASE Callback(s) \/ Registration(s)
      BY <1>1, <3>2, ActorKeeps
    <3> QED
      BY <1>1, <1>3, <3>1, <3>2, ActorKeeps, EditTables DEF OpNext
  <2> QED
    BY <1>1, <2>2, <2>3 DEF ProvisioningInv, TablesInv, FailuresAreConflicts
<1> QED
  BY <1>2, <1>3

\* The invariant the runs check, for every instance.
THEOREM ProvisioningInvariant == OpSpec => []ProvisioningInv
BY InitProvisioning, StepProvisioning, PTL DEF OpSpec

\* The columns and the requests have their types.
THEOREM ProvisioningTypeCorrect == OpSpec => []OpTypeOK
<1>1. ProvisioningInv => OpTypeOK
  BY DEF ProvisioningInv
<1> QED
  BY <1>1, ProvisioningInvariant, PTL

\* Every callback that ends with a session signed in the user its Google
\* account is linked to, so that all callbacks of an account agree.
THEOREM CallbacksAgree == OpSpec => []SignInIsOwner
<1>1. ProvisioningInv => SignInIsOwner
  BY DEF ProvisioningInv, SignInIsOwner, Carries
<1> QED
  BY <1>1, ProvisioningInvariant, PTL

\* Linked users are there and verified.
THEOREM LinkedUsersVerified == OpSpec => []LinkedAreVerified
<1>1. ProvisioningInv => LinkedAreVerified
  BY DEF ProvisioningInv
<1> QED
  BY <1>1, ProvisioningInvariant, PTL

\* Every user has a password or a Google account to sign in with.
THEOREM EveryUserCanSignIn == OpSpec => []PasswordlessAreLinked
<1>1. ProvisioningInv => PasswordlessAreLinked
  BY DEF ProvisioningInv
<1> QED
  BY <1>1, ProvisioningInvariant, PTL

\* A race alone never fails a callback.
THEOREM RacesAreRecovered == OpSpec => []FailuresAreConflicts
<1>1. ProvisioningInv => FailuresAreConflicts
  BY DEF ProvisioningInv
<1> QED
  BY <1>1, ProvisioningInvariant, PTL

-----------------------------------------------------------------------------
(* The flows of a browser *)

\* Each step of a flow is a step of the resolution or leaves it alone.
THEOREM SignupsAreProvisioned == OsSpec => ImplementsProvisioning
<1>1. OsInit => Init
  BY DEF OsInit
<1>2. [OsNext]_osVars => [OpNext]_opVars
  <2> SUFFICES ASSUME [OsNext]_osVars PROVE [OpNext]_opVars
    OBVIOUS
  <2>1. ASSUME NEW r \in Requests, Create(r) \/ Resolve(r) \/ Others(r) PROVE OpNext
    BY <2>1 DEF Create, Resolve, Others, OpNext, Callback
  <2>2. ASSUME NEW r \in Requests, NEW i \in Identities, NEW e \in Emails, Return(r, i, e)
        PROVE  OpNext
    BY <2>2 DEF Return, OpNext, Callback
  <2>3. ASSUME NEW r \in Requests, StartPlain(r) \/ Refused(r) \/ Answer(r) PROVE UNCHANGED opVars
    BY <2>3 DEF StartPlain, Start, Refused, Answer
  <2>4. ASSUME NEW r \in Requests, NEW role \in Roles, StartSignup(r, role) PROVE UNCHANGED opVars
    BY <2>4 DEF StartSignup, Start
  <2>5. CASE Expire \/ UNCHANGED osVars
    BY <2>5 DEF Expire, osVars
  <2> QED BY <2>1, <2>2, <2>3, <2>4, <2>5 DEF OsNext
<1> QED BY <1>1, <1>2, PTL DEF OsSpec, ImplementsProvisioning, OpSpec

\* The cookie, while there is one, is of the path of a flow that no callback
\* handler answered; a flow carries a role once it is back.
CookieIsOfUnhandledFlow ==
  /\ flow \in [Requests -> {"none", "away", "back", "answered", "refused"}]
  /\ path \in [Requests -> Roles \cup {"none", "plain"}]
  /\ carried \in [Requests -> Roles \cup {NULL}]
  /\ cookie # NULL => cookie \in Roles /\ \E s \in Unhandled : path[s] = cookie
  /\ \A r \in Requests : carried[r] # NULL => flow[r] \in {"back", "answered"}

LEMMA CookieStep ==
  CookieIsOfUnhandledFlow /\ [OsNext]_osVars =>
    /\ CookieIsOfUnhandledFlow'
    /\ \A r \in Requests : carried'[r] # carried[r] =>
         \E s \in Unhandled : path[s] = carried'[r]
<1> SUFFICES ASSUME CookieIsOfUnhandledFlow, [OsNext]_osVars
             PROVE  /\ CookieIsOfUnhandledFlow'
                    /\ \A r \in Requests : carried'[r] # carried[r] =>
                         \E s \in Unhandled : path[s] = carried'[r]
  OBVIOUS
<1> USE RolesAssumption DEF CookieIsOfUnhandledFlow, Unhandled
\* A flow that sets out leaves the cookie of another, or replaces it by its own.
<1>1. ASSUME NEW r \in Requests, NEW p \in Roles \cup {"plain"}, Start(r, p),
             cookie' = IF p = "plain" THEN cookie ELSE p
      PROVE  CookieIsOfUnhandledFlow' /\ carried' = carried
  <2>1. /\ flow[r] = "none" /\ flow' = [flow EXCEPT ![r] = "away"]
        /\ path' = [path EXCEPT ![r] = p] /\ carried' = carried
    BY <1>1 DEF Start
  <2>2. r \in Unhandled' /\ \A s \in Unhandled : s \in Unhandled' /\ path'[s] = path[s]
    BY <2>1
  <2>3. cookie' # NULL => cookie' \in Roles /\ \E s \in Unhandled' : path'[s] = cookie'
    BY <1>1, <2>1, <2>2
  <2> QED BY <2>1, <2>3
<1>2. ASSUME NEW r \in Requests, StartPlain(r)
      PROVE  CookieIsOfUnhandledFlow' /\ carried' = carried
  BY <1>1, <1>2 DEF StartPlain
<1>3. ASSUME NEW r \in Requests, NEW role \in Roles, StartSignup(r, role)
      PROVE  CookieIsOfUnhandledFlow' /\ carried' = carried
  BY <1>1, <1>3 DEF StartSignup
<1>4. CASE Expire
  BY <1>4 DEF Expire
<1>5. ASSUME NEW r \in Requests, Refused(r)
      PROVE  CookieIsOfUnhandledFlow' /\ carried' = carried
  BY <1>5 DEF Refused
<1>6. ASSUME NEW r \in Requests, NEW i \in Identities, NEW e \in Emails, Return(r, i, e)
      PROVE  /\ CookieIsOfUnhandledFlow'
             /\ \A s \in Requests : carried'[s] # carried[s] =>
                  \E t \in Unhandled : path[t] = carried'[s]
  <2>1. /\ flow[r] = "away" /\ flow' = [flow EXCEPT ![r] = "back"]
        /\ carried' = [carried EXCEPT ![r] = cookie]
        /\ UNCHANGED <<path, cookie>>
    BY <1>6 DEF Return
  <2>2. carried[r] = NULL
    BY <2>1
  <2>3. r \in Unhandled' /\ Unhandled' = Unhandled
    BY <2>1
  <2>4. carried'[r] # NULL => \E t \in Unhandled : path[t] = carried'[r]
    BY <2>1
  <2>5. CookieIsOfUnhandledFlow'
    BY <2>1, <2>3
  <2> QED BY <2>1, <2>2, <2>4, <2>5
<1>7. ASSUME NEW r \in Requests, Answer(r)
      PROVE  CookieIsOfUnhandledFlow' /\ carried' = carried
  BY <1>7 DEF Answer
<1>8. ASSUME UNCHANGED flowVars
      PROVE  CookieIsOfUnhandledFlow' /\ carried' = carried
  BY <1>8 DEF flowVars
<1>9. ASSUME NEW r \in Requests, Create(r) \/ Resolve(r) \/ Others(r) PROVE UNCHANGED flowVars
  BY <1>9 DEF Create, Resolve, Others
<1> QED
  BY <1>2, <1>3, <1>4, <1>5, <1>6, <1>7, <1>8, <1>9 DEF OsNext, osVars

\* A callback carries the role of a path that a flow of its browser set out on
\* and that googleAuthRedirect has not answered, its own or another's: a flow
\* whose handler answered leaves none, one that the guard refused may.
THEOREM RolesComeFromUnhandledFlows == OsSpec => RoleIsOfUnhandledFlow
<1>1. OsInit => CookieIsOfUnhandledFlow
  BY DEF OsInit, CookieIsOfUnhandledFlow
<1>2. CookieIsOfUnhandledFlow /\ [OsNext]_osVars =>
        [\A r \in Requests : carried'[r] # carried[r] =>
           \E s \in Unhandled : path[s] = carried'[r]]_osVars
  BY CookieStep
<1> QED BY <1>1, <1>2, CookieStep, PTL DEF OsSpec, RoleIsOfUnhandledFlow
=============================================================================
