------------------------------ MODULE FormsProofs ------------------------------
(***************************************************************************)
(* The forms that are answered by a look-up and a later INSERT under a     *)
(* unique index: onboarding, and the waiting list with the contact form.   *)
(*                                                                         *)
(* For any number of submissions and any pool, onboarding is all or        *)
(* nothing, one submission of a kind wins, answers are true, and a second  *)
(* profile needs a role change in mid-flight.  The argument: a transaction *)
(* that has inserted its profile keeps the user there and the kind to      *)
(* itself until it ends (TransactionsHold), so that its COMMIT cannot      *)
(* clash with anything that was committed meanwhile.                       *)
(*                                                                         *)
(* For any number of submissions and addresses, the waiting list holds an  *)
(* address once and every answer is true of it.  The argument: rows stay,  *)
(* so that whatever a submission finds it finds for good, and the row that *)
(* makes its INSERT fail was not there when it arrived (RowsStay).         *)
(***************************************************************************)
EXTENDS Onboarding, Inquiries, TLAPS

-----------------------------------------------------------------------------
(* Onboarding *)

Places == InFlight \cup Ended \cup {"new"}

LEMMA GotoType ==
  ASSUME ObTypeOK, NEW r \in Requests, NEW at \in Places, Goto(r, at)
  PROVE  /\ req' \in [Requests -> Request]
         /\ req'[r].at = at
         /\ \A s \in Requests : req'[s].kind = req[s].kind
         /\ \A s \in Requests \ {r} : req'[s].at = req[s].at
<1>1. [req[r] EXCEPT !.at = at] \in Request
  BY DEF ObTypeOK, Request, Places
<1>2. req' = [req EXCEPT ![r] = [req[r] EXCEPT !.at = at]]
  BY DEF Goto
<1> QED
  BY <1>1, <1>2 DEF ObTypeOK, Request

-----------------------------------------------------------------------------
(* Requests that take or use no lock *)

\* Where a request may go without touching the tables, and what it has seen
\* when it goes there.
Moves(r, at) ==
  \/ req[r].at = "connect" /\ at = "read"
  \/ req[r].at = "read" /\ at = "invalid" /\ ~user.there
  \/ req[r].at = "read" /\ at = "completed" /\ user.complete
  \/ req[r].at = "read" /\ at = "check" /\ user.there /\ ~user.complete
  \/ req[r].at = "check" /\ at = "409" /\ req[r].kind \in profiles
  \/ req[r].at = "check" /\ at = "insert"
  \/ req[r].at = "session" /\ at \in {"200", "sessionFailed"}
  \/ req[r].at \in InFlight /\ at = "500"

LEMMA StatementMoves ==
  ASSUME NEW r \in Requests,
         Begin(r) \/ ReadUser(r) \/ CheckProfile(r) \/ IssueSession(r) \/ Fail(r)
  PROVE  \E at \in Places : Goto(r, at) /\ Moves(r, at) /\ CommittedUnchanged
  BY DEF Begin, ReadUser, CheckProfile, IssueSession, Fail, Moves, Places,
         InFlight, InTransaction, Ended, Refused

LEMMA MoveKeeps ==
  ASSUME OnboardingInv, NEW r \in Requests, NEW at \in Places,
         Goto(r, at), Moves(r, at), CommittedUnchanged
  PROVE  OnboardingInv'
<1> USE DEF OnboardingInv, Places, InFlight, InTransaction, Ended, Refused, Moves, CommittedUnchanged
<1>1. /\ req' \in [Requests -> Request] /\ req'[r].at = at
      /\ \A s \in Requests : req'[s].kind = req[s].kind
      /\ \A s \in Requests \ {r} : req'[s].at = req[s].at
  BY GotoType
<1>2. ObTypeOK' /\ ProfileIffComplete' /\ SecondProfileNeedsRoleChange'
  BY <1>1 DEF ObTypeOK, ProfileIffComplete, SecondProfileNeedsRoleChange
<1>3. OnboardedOnce'
  BY <1>1 DEF OnboardedOnce, Granted
<1>4. AnswersAreTrue'
  BY <1>1 DEF AnswersAreTrue
<1>5. TransactionsHold'
  BY <1>1 DEF TransactionsHold, Inserted
<1>6. RoleHolds'
  BY <1>1 DEF RoleHolds, ProfileIffComplete
<1> QED
  BY <1>2, <1>3, <1>4, <1>5, <1>6

LEMMA ArriveKeeps ==
  ASSUME OnboardingInv, NEW r \in Requests, NEW kind \in Kinds, Arrive(r, kind)
  PROVE  OnboardingInv'
<1> USE DEF OnboardingInv, InFlight, InTransaction, Ended, Refused, Arrive, CommittedUnchanged
<1>1. /\ req' \in [Requests -> Request] /\ req'[r].kind = kind
      /\ req'[r].at = IF ~user.there THEN "401" ELSE IF user.role # kind THEN "role" ELSE "connect"
      /\ \A s \in Requests \ {r} : req'[s] = req[s]
  BY DEF ObTypeOK, Request
<1>2. ObTypeOK' /\ ProfileIffComplete' /\ SecondProfileNeedsRoleChange'
  BY <1>1 DEF ObTypeOK, ProfileIffComplete, SecondProfileNeedsRoleChange
<1>3. OnboardedOnce'
  BY <1>1 DEF OnboardedOnce, Granted
<1>4. AnswersAreTrue'
  BY <1>1 DEF AnswersAreTrue
<1>5. TransactionsHold'
  BY <1>1 DEF TransactionsHold, Inserted
<1>6. RoleHolds'
  BY <1>1 DEF RoleHolds
<1> QED
  BY <1>2, <1>3, <1>4, <1>5, <1>6

-----------------------------------------------------------------------------
(* Locks and the commit *)

LEMMA InsertKeeps ==
  ASSUME OnboardingInv, NEW r \in Requests, InsertProfile(r)
  PROVE  OnboardingInv'
<1> USE DEF OnboardingInv, Places, InFlight, InTransaction, Ended, Refused, InsertProfile, CommittedUnchanged
<1>1. /\ req' \in [Requests -> Request]
      /\ req'[r].at = IF user.there /\ req[r].kind \notin profiles THEN "mark" ELSE "500"
      /\ \A s \in Requests : req'[s].kind = req[s].kind
      /\ \A s \in Requests \ {r} : req'[s].at = req[s].at
  BY GotoType
<1>2. ObTypeOK' /\ ProfileIffComplete' /\ SecondProfileNeedsRoleChange'
  BY <1>1 DEF ObTypeOK, ProfileIffComplete, SecondProfileNeedsRoleChange
<1>3. OnboardedOnce'
  BY <1>1 DEF OnboardedOnce, Granted
<1>4. AnswersAreTrue'
  BY <1>1 DEF AnswersAreTrue
<1>5. TransactionsHold'
  BY <1>1 DEF TransactionsHold, Inserted
<1>6. RoleHolds'
  BY <1>1 DEF RoleHolds
<1> QED
  BY <1>2, <1>3, <1>4, <1>5, <1>6

LEMMA MarkKeeps ==
  ASSUME OnboardingInv, NEW r \in Requests, MarkOnboardingCompleteWithManager(r)
  PROVE  OnboardingInv'
<1> USE DEF OnboardingInv, Places, InFlight, InTransaction, Ended, Refused,
            MarkOnboardingCompleteWithManager, CommittedUnchanged
<1>1. /\ req' \in [Requests -> Request] /\ req'[r].at = "commit"
      /\ \A s \in Requests : req'[s].kind = req[s].kind
      /\ \A s \in Requests \ {r} : req'[s].at = req[s].at
  BY GotoType
<1>2. ObTypeOK' /\ ProfileIffComplete' /\ SecondProfileNeedsRoleChange'
  BY <1>1 DEF ObTypeOK, ProfileIffComplete, SecondProfileNeedsRoleChange
<1>3. OnboardedOnce'
  BY <1>1 DEF OnboardedOnce, Granted
<1>4. AnswersAreTrue'
  BY <1>1 DEF AnswersAreTrue
<1>5. TransactionsHold'
  BY <1>1 DEF TransactionsHold, Inserted
<1>6. RoleHolds'
  BY <1>1 DEF RoleHolds
<1> QED
  BY <1>2, <1>3, <1>4, <1>5, <1>6

\* Nobody granted the kind before, because its profile was not there.
LEMMA CommitKeeps ==
  ASSUME OnboardingInv, NEW r \in Requests, Commit(r)
  PROVE  OnboardingInv'
<1> USE DEF OnboardingInv, Places, InFlight, InTransaction, Ended, Refused, Commit
<1>1. /\ req' \in [Requests -> Request] /\ req'[r].at = "session"
      /\ \A s \in Requests : req'[s].kind = req[s].kind
      /\ \A s \in Requests \ {r} : req'[s].at = req[s].at
  BY GotoType
<1>2. /\ user.there /\ req[r].kind \notin profiles /\ req[r].kind \in Kinds
      /\ \A s \in Requests : Inserted(s) /\ req[s].kind = req[r].kind => s = r
  BY DEF TransactionsHold, Inserted, ObTypeOK, Request
<1>3. /\ profiles' = profiles \cup {req[r].kind} /\ roleMoved' = roleMoved
      /\ user'.there /\ user'.complete /\ user'.role = user.role
      /\ user' \in [there: BOOLEAN, role: Roles, complete: BOOLEAN]
  BY <1>2 DEF ObTypeOK
<1>4. ObTypeOK' /\ ProfileIffComplete'
  BY <1>1, <1>2, <1>3 DEF ObTypeOK, ProfileIffComplete
<1>5. SecondProfileNeedsRoleChange'
  BY <1>2, <1>3 DEF SecondProfileNeedsRoleChange, RoleHolds, Kinds
<1>6. OnboardedOnce'
  BY <1>1, <1>2 DEF OnboardedOnce, Granted, AnswersAreTrue
<1>7. AnswersAreTrue'
  BY <1>1, <1>2, <1>3 DEF AnswersAreTrue
<1>8. TransactionsHold'
  BY <1>1, <1>2, <1>3 DEF TransactionsHold, Inserted
<1>9. RoleHolds'
  BY <1>1, <1>2, <1>3 DEF RoleHolds
<1> QED
  BY <1>4, <1>5, <1>6, <1>7, <1>8, <1>9

-----------------------------------------------------------------------------
(* The others *)

LEMMA CrashKeeps == OnboardingInv /\ Crash => OnboardingInv'
<1> SUFFICES ASSUME OnboardingInv, Crash PROVE OnboardingInv'
  OBVIOUS
<1> USE DEF OnboardingInv, InFlight, InTransaction, Ended, Refused, Crash, CommittedUnchanged
<1>1. /\ req' \in [Requests -> Request]
      /\ \A s \in Requests : /\ req'[s].kind = req[s].kind
                             /\ req'[s].at = IF req[s].at \in InFlight THEN "lost" ELSE req[s].at
  <2>1. \A s \in Requests : [req[s] EXCEPT !.at = "lost"] \in Request
                            /\ [req[s] EXCEPT !.at = "lost"].kind = req[s].kind
                            /\ [req[s] EXCEPT !.at = "lost"].at = "lost"
    BY DEF ObTypeOK, Request
  <2> QED
    BY <2>1 DEF ObTypeOK
<1>2. ObTypeOK' /\ ProfileIffComplete' /\ SecondProfileNeedsRoleChange'
  BY <1>1 DEF ObTypeOK, ProfileIffComplete, SecondProfileNeedsRoleChange
<1>3. OnboardedOnce'
  BY <1>1 DEF OnboardedOnce, Granted
<1>4. AnswersAreTrue'
  BY <1>1 DEF AnswersAreTrue
<1>5. TransactionsHold' /\ RoleHolds'
  BY <1>1 DEF TransactionsHold, Inserted, RoleHolds
<1> QED
  BY <1>2, <1>3, <1>4, <1>5

\* The role moves under a request in flight, and roleMoved says so, or there
\* is none that could rely on it.
LEMMA PatchKeeps ==
  ASSUME OnboardingInv, NEW role \in Roles, PatchRole(role)
  PROVE  OnboardingInv'
<1> USE DEF OnboardingInv, PatchRole
<1>1. /\ user' \in [there: BOOLEAN, role: Roles, complete: BOOLEAN]
      /\ user'.there = user.there /\ user'.complete = user.complete
  BY DEF ObTypeOK
<1>2. ObTypeOK' /\ ProfileIffComplete' /\ SecondProfileNeedsRoleChange'
  BY <1>1 DEF ObTypeOK, ProfileIffComplete, SecondProfileNeedsRoleChange
<1>3. OnboardedOnce' /\ AnswersAreTrue' /\ TransactionsHold'
  BY <1>1 DEF OnboardedOnce, Granted, AnswersAreTrue, TransactionsHold, Inserted
<1>4. RoleHolds'
  BY DEF RoleHolds, InFlight
<1> QED
  BY <1>2, <1>3, <1>4

LEMMA RemoveKeeps == OnboardingInv /\ RemoveUser => OnboardingInv'
<1> SUFFICES ASSUME OnboardingInv, RemoveUser PROVE OnboardingInv'
  OBVIOUS
<1> USE DEF OnboardingInv, RemoveUser
<1>1. /\ user' \in [there: BOOLEAN, role: Roles, complete: BOOLEAN]
      /\ ~user'.there /\ profiles' = {}
  BY DEF ObTypeOK
<1>2. ObTypeOK' /\ ProfileIffComplete' /\ SecondProfileNeedsRoleChange'
  BY <1>1 DEF ObTypeOK, ProfileIffComplete, SecondProfileNeedsRoleChange, Kinds
<1>3. OnboardedOnce' /\ AnswersAreTrue' /\ TransactionsHold' /\ RoleHolds'
  BY <1>1 DEF OnboardedOnce, Granted, AnswersAreTrue, TransactionsHold, Inserted, RoleHolds
<1> QED
  BY <1>2, <1>3

-----------------------------------------------------------------------------
LEMMA StepKeeps == OnboardingInv /\ [ObNext]_obVars => OnboardingInv'
<1> SUFFICES ASSUME OnboardingInv, [ObNext]_obVars PROVE OnboardingInv'
  OBVIOUS
<1>1. ASSUME NEW r \in Requests,
             Begin(r) \/ ReadUser(r) \/ CheckProfile(r) \/ IssueSession(r) \/ Fail(r)
      PROVE  OnboardingInv'
  <2>1. PICK at \in Places : Goto(r, at) /\ Moves(r, at) /\ CommittedUnchanged
    BY <1>1, StatementMoves
  <2> QED
    BY <2>1, MoveKeeps
<1>2. CASE UNCHANGED obVars
  BY <1>2 DEF obVars, OnboardingInv, ObTypeOK, ProfileIffComplete, OnboardedOnce, Granted,
    SecondProfileNeedsRoleChange, AnswersAreTrue, TransactionsHold, Inserted, RoleHolds
<1> QED
  BY <1>1, <1>2, ArriveKeeps, InsertKeeps, MarkKeeps, CommitKeeps, CrashKeeps, PatchKeeps,
     RemoveKeeps DEF ObNext, Statement

\* The invariant holds in every behaviour.
THEOREM OnboardingInvariant == ObSpec => []OnboardingInv
<1>1. ASSUME Init PROVE OnboardingInv
  <2>1. ObTypeOK
    BY <1>1 DEF Init, ObTypeOK, Request, Roles, Kinds
  <2>2. /\ \A r \in Requests : req[r].at = "new"
        /\ profiles = {} /\ user.there /\ ~user.complete
    BY <1>1 DEF Init
  <2> QED
    BY <2>1, <2>2 DEF OnboardingInv, ProfileIffComplete, OnboardedOnce, Granted, Kinds,
      SecondProfileNeedsRoleChange, AnswersAreTrue, TransactionsHold, Inserted, RoleHolds,
      InFlight, InTransaction
<1> QED
  BY <1>1, StepKeeps, PTL DEF ObSpec

\* completeOnboarding saves the profile and the flag together or not at all,
\* whatever fails, crashes or crosses it.
THEOREM OnboardingIsAtomic == ObSpec => []ProfileIffComplete
<1>1. OnboardingInv => ProfileIffComplete
  BY DEF OnboardingInv
<1> QED
  BY <1>1, OnboardingInvariant, PTL

\* Of any number of submissions of a kind, one is granted.
THEOREM OneSubmissionWins == ObSpec => []OnboardedOnce
<1>1. OnboardingInv => OnboardedOnce
  BY DEF OnboardingInv
<1> QED
  BY <1>1, OnboardingInvariant, PTL

\* Both services complete one user only if its role was changed while a
\* submission was being handled.
THEOREM TwoProfilesNeedRoleChange == ObSpec => []SecondProfileNeedsRoleChange
<1>1. OnboardingInv => SecondProfileNeedsRoleChange
  BY DEF OnboardingInv
<1> QED
  BY <1>1, OnboardingInvariant, PTL

\* What a submission is answered is what was saved.
THEOREM OnboardingAnswersAreTrue == ObSpec => []AnswersAreTrue
<1>1. OnboardingInv => AnswersAreTrue
  BY DEF OnboardingInv
<1> QED
  BY <1>1, OnboardingInvariant, PTL

-----------------------------------------------------------------------------
(* The waiting list and the contact form *)

\* Two columns are equal exactly if they are of the same address: what is
\* saved is normalized.
LEMMA ColumnsAreNormalized ==
  InqTypeOK => \A q, r \in Submissions : email[q] = email[r] <=> SameAddress(q, r)
<1> SUFFICES ASSUME InqTypeOK, NEW q \in Submissions, NEW r \in Submissions
             PROVE  email[q] = email[r] <=> SameAddress(q, r)
  OBVIOUS
<1> DEFINE Columns == (Addresses \cup {NoAddress}) \X {"lower"}
<1>1. \A e \in Columns : e = <<e[1], "lower">>
  OBVIOUS
<1>2. email[q] \in Columns /\ email[r] \in Columns
  BY DEF InqTypeOK
<1> QED BY <1>1, <1>2 DEF SameAddress

LEMMA InquiriesStep == InquiriesInv /\ [InqNext]_inqVars => InquiriesInv'
<1> SUFFICES ASSUME InquiriesInv, [InqNext]_inqVars PROVE InquiriesInv'
  OBVIOUS
<1>typed. InqTypeOK
  BY DEF InquiriesInv
<1>types. /\ waitlist \subseteq Submissions /\ messages \subseteq Submissions
          /\ email \in [Submissions -> (Addresses \cup {NoAddress}) \X {"lower"}]
          /\ listed \in [Submissions -> SUBSET Submissions]
  BY <1>typed DEF InqTypeOK
\* Where a submission goes is all that a move changes in the types.
<1>placed. ASSUME place' \in [Submissions -> Standings], waitlist' \subseteq Submissions,
                  messages' \subseteq Submissions, listed' = listed, email' = email
           PROVE  InqTypeOK'
  BY <1>placed, <1>types DEF InqTypeOK
<1>goes. ASSUME NEW r \in Submissions, NEW from, NEW to \in Standings, Move(r, from, to)
         PROVE  place' \in [Submissions -> Standings]
  BY <1>goes, <1>typed DEF Move, InqTypeOK
\* One submission moves on.
<1>move. ASSUME NEW r \in Submissions, NEW from, NEW to, Move(r, from, to)
         PROVE  /\ place[r] = from /\ place'[r] = to
                /\ \A q \in Submissions : q # r => place'[q] = place[q]
  BY <1>move, <1>typed DEF Move, InqTypeOK
<1>1. ASSUME NEW r \in Submissions, NEW s \in Spellings, JoinFind(r, s) PROVE InquiriesInv'
  <2>1. /\ Normalize(s) \in (Addresses \cup {NoAddress}) \X {"lower"}
        /\ Normalize(s) = <<s[1], "lower">>
    BY DEF Spellings, Normalize
  <2>2. /\ email'[r] = Normalize(s) /\ listed'[r] = waitlist
        /\ \A q \in Submissions : q # r => email'[q] = email[q] /\ listed'[q] = listed[q]
        /\ waitlist' = waitlist /\ messages' = messages
    BY <1>1, <1>typed DEF JoinFind, InqTypeOK
  <2>3. place[r] = "new" /\ \A q \in Submissions : q # r => place'[q] = place[q]
    BY <1>1, <1>move DEF JoinFind
  <2>4. \/ place'[r] = "save" /\ Holding(Normalize(s)) = {}
        \/ place'[r] = "409" /\ Holding(Normalize(s)) # {}
    BY <1>1, <1>move DEF JoinFind
  <2>5. InqTypeOK'
    <3>1. place' \in [Submissions -> Standings]
      BY <1>1, <1>goes DEF JoinFind, Standings
    <3>2. /\ email' \in [Submissions -> (Addresses \cup {NoAddress}) \X {"lower"}]
          /\ listed' \in [Submissions -> SUBSET Submissions]
      BY <1>1, <1>types, <2>1 DEF JoinFind
    <3> QED BY <1>types, <2>2, <3>1, <3>2 DEF InqTypeOK
  <2>6. r \notin waitlist /\ \A q \in Submissions : r \notin listed[q]
    BY <2>3 DEF InquiriesInv, RowsStay
  \* The rows of the address are those findOne looked for.
  <2>7. \A q \in waitlist : SameAddress(q, r)' <=> q \in Holding(Normalize(s))
    <3> SUFFICES ASSUME NEW q \in waitlist PROVE SameAddress(q, r)' <=> email[q] = Normalize(s)
      BY DEF Holding
    <3>1. q \in Submissions /\ q # r
      BY <2>6, <1>typed DEF InqTypeOK
    <3>2. email[q] = <<email[q][1], "lower">>
      BY <3>1, <1>types
    <3> QED BY <2>1, <2>2, <3>1, <3>2 DEF SameAddress
  <2>8. \A p, q \in Submissions : p # r /\ q # r => (SameAddress(p, q)' <=> SameAddress(p, q))
    BY <2>2 DEF SameAddress
  <2>9. RowsStay'
    BY <2>2, <2>3, <2>4, <2>6, <2>7, <2>8, <1>types DEF InquiriesInv, RowsStay, Holding
  <2>10. AnswersMatchWaitlist'
    <3>1. \A p, q \in waitlist' : SameAddress(p, q)' => p = q
      BY <2>2, <2>6, <2>8, <1>types DEF InquiriesInv, AnswersMatchWaitlist
    <3>2. ASSUME NEW q \in Submissions, q # r
          PROVE  /\ place'[q] = "joined" => q \in waitlist'
                 /\ place'[q] = "409" => \E p \in listed'[q] : SameAddress(p, q)'
                 /\ place'[q] = "500 duplicate" =>
                      \E p \in waitlist' \ listed'[q] : SameAddress(p, q)'
                 /\ place'[q] \in {"409", "500 duplicate"} => q \notin waitlist'
                 /\ place'[q] = "received" => q \in messages'
      <4>1. /\ place'[q] = place[q] /\ listed'[q] = listed[q]
            /\ waitlist' = waitlist /\ messages' = messages
        BY <2>2, <2>3, <3>2
      <4>2. \A p \in waitlist \cup listed[q] : SameAddress(p, q)' <=> SameAddress(p, q)
        BY <2>6, <2>8, <3>2, <1>types
      <4> QED BY <4>1, <4>2 DEF InquiriesInv, AnswersMatchWaitlist
    <3>3. /\ place'[r] # "joined" /\ place'[r] # "500 duplicate" /\ place'[r] # "received"
          /\ place'[r] = "409" => \E p \in listed'[r] : SameAddress(p, r)'
          /\ r \notin waitlist'
      BY <2>2, <2>4, <2>6, <2>7 DEF Holding
    <3> QED BY <3>1, <3>2, <3>3 DEF AnswersMatchWaitlist
  <2> QED BY <2>5, <2>9, <2>10 DEF InquiriesInv
<1>2. ASSUME NEW r \in Submissions, JoinSave(r) PROVE InquiriesInv'
  <2>1. /\ email' = email /\ listed' = listed /\ messages' = messages
        /\ place[r] = "save" /\ \A q \in Submissions : q # r => place'[q] = place[q]
    BY <1>2, <1>move DEF JoinSave
  <2>2. \/ /\ place'[r] \in {"saved", "500"} /\ waitlist' = waitlist \cup {r}
           /\ Holding(email[r]) = {}
        \/ place'[r] = "500 duplicate" /\ waitlist' = waitlist /\ Holding(email[r]) # {}
    BY <1>2, <1>move DEF JoinSave
  <2>3. InqTypeOK'
    <3>1. place' \in [Submissions -> Standings]
      BY <1>2, <1>goes DEF JoinSave, Standings
    <3> QED BY <1>types, <1>placed, <2>1, <2>2, <3>1
  <2>4. \A q \in waitlist : SameAddress(q, r) <=> q \in Holding(email[r])
    BY <1>typed, ColumnsAreNormalized DEF Holding, InqTypeOK
  <2>5. \A p, q : SameAddress(p, q)' <=> SameAddress(p, q)
    BY <2>1 DEF SameAddress
  <2>6. \A p, q : SameAddress(p, q) <=> SameAddress(q, p)
    BY DEF SameAddress
  <2>7. RowsStay'
    BY <2>1, <2>2, <2>5 DEF InquiriesInv, RowsStay
  <2>8. AnswersMatchWaitlist'
    <3>1. \A p, q \in waitlist' : SameAddress(p, q)' => p = q
      <4>1. \A p, q \in waitlist : SameAddress(p, q) => p = q
        BY DEF InquiriesInv, AnswersMatchWaitlist
      <4>2. waitlist' # waitlist => \A p \in waitlist : ~SameAddress(p, r) /\ ~SameAddress(r, p)
        BY <2>2, <2>4, <2>6
      <4>3. waitlist' \in {waitlist, waitlist \cup {r}}
        BY <2>2
      <4> QED BY <2>5, <4>1, <4>2, <4>3
    <3>2. ASSUME NEW q \in Submissions, q # r
          PROVE  /\ place'[q] = "joined" => q \in waitlist'
                 /\ place'[q] = "409" => \E p \in listed'[q] : SameAddress(p, q)'
                 /\ place'[q] = "500 duplicate" =>
                      \E p \in waitlist' \ listed'[q] : SameAddress(p, q)'
                 /\ place'[q] \in {"409", "500 duplicate"} => q \notin waitlist'
                 /\ place'[q] = "received" => q \in messages'
      BY <2>1, <2>2, <2>5, <3>2 DEF InquiriesInv, AnswersMatchWaitlist
    <3>3. /\ place'[r] \notin {"joined", "409", "received"}
          /\ place'[r] = "500 duplicate" =>
               \E p \in waitlist' \ listed'[r] : SameAddress(p, r)'
          /\ place'[r] = "500 duplicate" => r \notin waitlist'
      <4>1. /\ r \notin waitlist
            /\ \A q \in listed[r] : ~SameAddress(q, r)
        BY <2>1 DEF InquiriesInv, RowsStay
      <4> QED BY <2>1, <2>2, <2>4, <2>5, <4>1 DEF Holding
    <3> QED BY <3>1, <3>2, <3>3 DEF AnswersMatchWaitlist
  <2> QED BY <2>3, <2>7, <2>8 DEF InquiriesInv
\* Steps that leave the waiting list and the addresses alone.
<1>rest. ASSUME email' = email, listed' = listed, waitlist' = waitlist, messages \subseteq messages',
                InqTypeOK',
                \A r \in Submissions :
                  \/ place'[r] \in {place[r], "lost"}
                  \/ place[r] = "saved" /\ place'[r] = "joined"
                  \/ place'[r] = "500" /\ r \notin waitlist
                  \/ place'[r] \in {"noted", "received"} /\ r \in messages' \ waitlist
         PROVE  InquiriesInv'
  <2>1. \A p, q : SameAddress(p, q)' <=> SameAddress(p, q)
    BY <1>rest DEF SameAddress
  <2>2. RowsStay'
    BY <2>1, <1>rest DEF InquiriesInv, RowsStay
  <2>3. AnswersMatchWaitlist'
    BY <2>1, <1>rest DEF InquiriesInv, RowsStay, AnswersMatchWaitlist
  <2> QED BY <2>2, <2>3, <1>rest DEF InquiriesInv
<1>3. ASSUME NEW r \in Submissions, ContactSave(r) PROVE InquiriesInv'
  <2>1. /\ place[r] = "new" /\ place'[r] \in {"noted", "500"}
        /\ \A q \in Submissions : q # r => place'[q] = place[q]
    BY <1>3, <1>move DEF ContactSave
  <2>2. InqTypeOK'
    <3>1. place' \in [Submissions -> Standings]
      BY <1>3, <1>goes DEF ContactSave, Standings
    <3> QED BY <1>3, <1>types, <1>placed, <3>1 DEF ContactSave
  <2> QED BY <1>3, <2>1, <2>2, <1>rest DEF ContactSave, InquiriesInv, RowsStay
<1>4. ASSUME NEW r \in Submissions, Answer(r) PROVE InquiriesInv'
  <2>1. /\ \/ place[r] = "saved" /\ place'[r] = "joined"
           \/ place[r] = "noted" /\ place'[r] = "received"
        /\ \A q \in Submissions : q # r => place'[q] = place[q]
    BY <1>4, <1>move DEF Answer
  <2>2. InqTypeOK'
    <3>1. place' \in [Submissions -> Standings]
      BY <1>4, <1>goes DEF Answer, Standings
    <3> QED BY <1>4, <1>types, <1>placed, <3>1 DEF Answer
  <2> QED BY <1>4, <2>1, <2>2, <1>rest DEF Answer, InquiriesInv, RowsStay
<1>5. ASSUME NEW r \in Submissions, StatementFails(r) PROVE InquiriesInv'
  <2>1. /\ place[r] \in {"new", "save"} /\ place'[r] = "500"
        /\ \A q \in Submissions : q # r => place'[q] = place[q]
    BY <1>5, <1>move DEF StatementFails
  <2>2. InqTypeOK'
    <3>1. place' \in [Submissions -> Standings]
      BY <1>5, <1>goes DEF StatementFails, Standings
    <3> QED BY <1>5, <1>types, <1>placed, <3>1 DEF StatementFails
  <2> QED BY <1>5, <2>1, <2>2, <1>rest DEF StatementFails, InquiriesInv, RowsStay
<1>6. ASSUME Stop PROVE InquiriesInv'
  <2>1. \A q \in Submissions : place'[q] \in {place[q], "lost"}
    BY <1>6 DEF Stop
  <2>2. InqTypeOK'
    <3>1. place' \in [Submissions -> Standings]
      BY <1>6, <1>typed DEF Stop, InqTypeOK, Standings
    <3> QED BY <1>6, <1>types, <1>placed, <3>1 DEF Stop
  <2> QED BY <1>6, <2>1, <2>2, <1>rest DEF Stop
<1>7. ASSUME UNCHANGED inqVars PROVE InquiriesInv'
  BY <1>7, <1>typed, <1>rest DEF inqVars, InqTypeOK
<1> QED BY <1>1, <1>2, <1>3, <1>4, <1>5, <1>6, <1>7 DEF InqNext

\* Whatever the number of submissions, spellings, races, failures and crashes,
\* an address is listed once, and joinWaitlist and createContactMessage answer
\* what is true of the tables; a 500 that is not a unique violation says nothing.
THEOREM InquiryAnswersAreTrue == InqSpec => []AnswersMatchWaitlist
<1>1. InqInit => InquiriesInv
  <2> SUFFICES ASSUME InqInit PROVE InquiriesInv
    OBVIOUS
  <2>1. InqTypeOK
    BY DEF InqInit, InqTypeOK, Standings
  <2> QED BY <2>1 DEF InqInit, InquiriesInv, RowsStay, AnswersMatchWaitlist
<1>2. InquiriesInv => AnswersMatchWaitlist
  BY DEF InquiriesInv
<1> QED BY <1>1, <1>2, InquiriesStep, PTL DEF InqSpec

=============================================================================
