------------------------------- MODULE Inquiries -------------------------------
(***************************************************************************)
(* The waiting list and the contact form: InquiriesService over the tables *)
(* waitlist_entries and contact_messages.  joinWaitlist looks the address  *)
(* up and then inserts, and other requests run in between; the unique      *)
(* index has the last word.  A row is named by the request that inserted   *)
(* it.  Any statement may fail, and a row may be committed although its    *)
(* save() failed; the process may crash, which loses the answers of the    *)
(* requests it has; and clients may send again.                            *)
(***************************************************************************)
EXTENDS Naturals, FiniteSets

CONSTANTS
  Submissions, \* submissions of either form, each a request
  Addresses,   \* e-mail addresses, each of which has several spellings
  NoAddress

ASSUME InquiriesAssumption == NoAddress \notin Addresses

Spellings == Addresses \X {"lower", "mixed"}

\* What trim and toLowerCase make of an e-mail that @IsEmail accepted.
Normalize(s) == <<s[1], "lower">>

VARIABLES
  waitlist,    \* the requests whose waitlist_entries row is there
  email,       \* the column of the row a request inserts
  messages,    \* the requests whose contact_messages row is there
  place,       \* where each request is, and how it was answered
  listed       \* history: what the waiting list was when the request arrived

inqVars == <<waitlist, email, messages, place, listed>>

\* The row findOne gives for an e-mail, or none.
Holding(e) == {q \in waitlist : email[q] = e}

Move(r, from, to) == place[r] = from /\ place' = [place EXCEPT ![r] = to]

\* joinWaitlist up to the look-up, which refuses an address on the list.
JoinFind(r, s) ==
  /\ Move(r, "new", IF Holding(Normalize(s)) = {} THEN "save" ELSE "409")
  /\ email'  = [email EXCEPT ![r] = Normalize(s)]
  /\ listed' = [listed EXCEPT ![r] = waitlist]
  /\ UNCHANGED <<waitlist, messages>>

\* Seeded fault: no unique index.
JoinSaveAnyway(r) ==
  /\ Move(r, "save", "saved")
  /\ waitlist' = waitlist \cup {r}
  /\ UNCHANGED <<email, messages, listed>>

\* save(): an INSERT in a transaction.  Nobody catches its error, which answers
\* 500: the unique violation (told apart here by its cause), or the loss of the
\* connection after the COMMIT, which leaves the row.
JoinSave(r) ==
  /\ IF Holding(email[r]) = {}
     THEN /\ \E end \in {"saved", "500"} : Move(r, "save", end)
          /\ waitlist' = waitlist \cup {r}
     ELSE Move(r, "save", "500 duplicate") /\ UNCHANGED waitlist
  /\ UNCHANGED <<email, messages, listed>>

\* createContactMessage has one statement, a save() as well.
ContactSave(r) ==
  /\ \E end \in {"noted", "500"} : Move(r, "new", end)
  /\ messages' = messages \cup {r}
  /\ UNCHANGED <<waitlist, email, listed>>

\* A statement fails and leaves nothing: findOne, or the save of either form.
StatementFails(r) ==
  /\ Move(r, "new", "500") \/ Move(r, "save", "500")
  /\ UNCHANGED <<waitlist, email, messages, listed>>

Answer(r) ==
  /\ Move(r, "saved", "joined") \/ Move(r, "noted", "received")
  /\ UNCHANGED <<waitlist, email, messages, listed>>

\* The process stops: the requests it has get no answer.  The tables stay.
Stop ==
  /\ place' = [r \in Submissions |->
               IF place[r] \in {"save", "saved", "noted"} THEN "lost" ELSE place[r]]
  /\ place' # place
  /\ UNCHANGED <<waitlist, email, messages, listed>>

InqInit ==
  /\ waitlist = {} /\ messages = {}
  /\ email  = [r \in Submissions |-> <<NoAddress, "lower">>]
  /\ place  = [r \in Submissions |-> "new"]
  /\ listed = [r \in Submissions |-> {}]

InqNext ==
  \/ Stop
  \/ \E r \in Submissions :
       \/ \E s \in Spellings : JoinFind(r, s)
       \/ JoinSave(r) \/ ContactSave(r) \/ StatementFails(r) \/ Answer(r)

InqSpec == InqInit /\ [][InqNext]_inqVars

-----------------------------------------------------------------------------
(* Properties *)

Standings == {"new", "save", "saved", "noted", "joined", "received",
              "409", "500 duplicate", "500", "lost"}

\* The tables and the submissions have their types.
InqTypeOK ==
  /\ waitlist \subseteq Submissions /\ messages \subseteq Submissions
  /\ email  \in [Submissions -> (Addresses \cup {NoAddress}) \X {"lower"}]
  /\ place  \in [Submissions -> Standings]
  /\ listed \in [Submissions -> SUBSET Submissions]

SameAddress(q, r) == email[q][1] = email[r][1]

\* Whatever the spellings, races, failures and crashes, an address is on the
\* list once, and an answer never contradicts the tables: "joined" means that it
\* is this request that put the address there, 409 that it had been there when
\* the request arrived, and a request that lost the race for it to another was
\* refused by a row that got there meanwhile, and left none.  Any other 500 says
\* nothing of the list: the row may be there or not, and so its client, which
\* cannot tell the two apart, has to send again and be told 409 or "joined".
AnswersMatchWaitlist ==
  /\ \A q, r \in waitlist : SameAddress(q, r) => q = r
  /\ \A r \in Submissions :
       /\ place[r] = "joined" => r \in waitlist
       /\ place[r] = "409" => \E q \in listed[r] : SameAddress(q, r)
       /\ place[r] = "500 duplicate" => \E q \in waitlist \ listed[r] : SameAddress(q, r)
       /\ place[r] \in {"409", "500 duplicate"} => r \notin waitlist
       /\ place[r] = "received" => r \in messages

\* What the proof carries from step to step: a row is that of a submission past
\* its INSERT, rows stay, and a submission about to insert found its address on
\* none of the rows of its arrival.
RowsStay ==
  \A r \in Submissions :
    /\ r \in waitlist => place[r] \in {"saved", "joined", "500", "lost"}
    /\ place[r] = "saved" => r \in waitlist
    /\ place[r] = "noted" => r \in messages
    /\ listed[r] \subseteq waitlist
    /\ place[r] = "save" => \A q \in listed[r] : ~SameAddress(q, r)

InquiriesInv == InqTypeOK /\ RowsStay /\ AnswersMatchWaitlist

=============================================================================
