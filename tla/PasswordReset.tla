---------------------------- MODULE PasswordReset ----------------------------
(***************************************************************************)
(* Resetting the password of one account: AuthService.forgotPassword, the  *)
(* delivery it leaves behind (PasswordResetDeliveryService) and            *)
(* resetPassword, over the reset codes of OneTimeCodes.  A delivery makes  *)
(* one call of issue(), a reset one call of consume(), the call of the     *)
(* same name.  DeliveryQueue has what queues the deliveries; here they     *)
(* wait, run and are cut short by crashes of the process.                  *)
(*                                                                         *)
(* The rows of a user are removed with it.  The model keeps them as a      *)
(* record of what there was and lets no statement see them any more.       *)
(***************************************************************************)
EXTENDS OneTimeCodes

VARIABLES
  redis,        \* whether deliveries are jobs in Redis (fixed) or inline
  present,      \* whether the users row exists
  password,     \* the request whose UPDATE set users.password, or NULL
  handler,      \* where each delivery or reset is, and how it ended
  mailed,       \* history: codes handed to the mail service
  changed,      \* history: requests whose UPDATE of the password hit the row
  crossed       \* history: a code was saved, or the password set, across another

userVars    == <<redis, present, password, changed>>
handlerVars == <<handler, mailed, crossed>>
prVars      == <<otpVars, userVars, handlerVars>>

Delivering == {"issue", "mail", "mailed"}
Resetting  == {"consume", "update"}
Places     == {"new", "queued", "stalled"} \cup Delivering \cup Resetting
                \cup {"delivered", "gone", "failed", "nobody", "lost", "200", "400"}

Move(r, from, to) ==
  /\ handler[r] \in from
  /\ handler' = [handler EXCEPT ![r] = to]

\* Deliveries that have invalidated the codes there were and not saved theirs,
\* and resets that hold a code they have used, or that is still good.
Issuing == {s \in Calls : handler[s] = "issue" /\ call[s].step = "hashing"}
Holding == {s \in Calls : \/ handler[s] = "update"
                          \/ /\ handler[s] = "consume" /\ call[s].step = "matched"
                             /\ otps[call[s].row].usedBy = NULL}

\* r saves its code, or sets the password, while others are about to.
Crosses(r, others) == crossed' = (crossed \/ others \ {r} # {})

-----------------------------------------------------------------------------
(* forgotPassword and the delivery of a code *)

\* forgotPassword answers the same whether or not there is such a user, and
\* before anything is delivered.
Forgot(r) ==
  /\ Move(r, {"new"}, IF present THEN "queued" ELSE "nobody")
  /\ UNCHANGED <<otpVars, userVars, mailed, crossed>>

\* deliverForUser looks the user up again.  A worker has one job at a time.
StartDelivery(r) ==
  /\ redis => \A s \in Calls : handler[s] \notin Delivering
  /\ Move(r, {"queued"}, IF present THEN "issue" ELSE "gone")
  /\ UNCHANGED <<otpVars, userVars, mailed, crossed>>

IssueFirst(r) ==
  /\ handler[r] = "issue"
  /\ BeginIssue(r, "initial")
  /\ UNCHANGED <<userVars, handlerVars>>

\* The INSERT, which the foreign key refuses if the user has gone.
IssueSecond(r) ==
  /\ IF present
     THEN Move(r, {"issue"}, "mail") /\ FinishIssue(r) /\ Crosses(r, Issuing)
     ELSE /\ Move(r, {"issue"}, "failed") /\ call[r].step = "hashing"
          /\ UNCHANGED <<otpVars, crossed>>
  /\ UNCHANGED <<userVars, mailed>>

\* sendPasswordReset resolves once the provider, or Redis, has the mail.
HandOver(r, accepted) ==
  /\ Move(r, {"mail"}, IF accepted THEN "mailed" ELSE "failed")
  /\ mailed' = IF accepted THEN mailed \cup {r} ELSE mailed
  /\ UNCHANGED <<otpVars, userVars, crossed>>

\* The delivery returns; until then a crash has its job done once more.
Settle(r) ==
  /\ Move(r, {"mailed"}, "delivered")
  /\ UNCHANGED <<otpVars, userVars, mailed, crossed>>

\* BullMQ puts a job back whose worker died (DeliveryQueue.Recover, which
\* bounds how often); doing it again is s, a call of its own.
Redeliver(r, s) ==
  /\ handler[r] = "stalled" /\ handler[s] = "new"
  /\ handler' = [handler EXCEPT ![r] = "lost", ![s] = "queued"]
  /\ UNCHANGED <<otpVars, userVars, mailed, crossed>>

-----------------------------------------------------------------------------
(* resetPassword *)

ResetFind(r) ==
  /\ Move(r, {"new"}, IF present THEN "consume" ELSE "400")
  /\ UNCHANGED <<otpVars, userVars, mailed, crossed>>

\* consume's SELECT; a code presented is one that was mailed.
ResetSelect(r, code) ==
  /\ present /\ code \in mailed
  /\ handler[r] = "consume"
  /\ SelectLatest(r, code)
  /\ handler' = IF call'[r].step = "matched" THEN handler ELSE [handler EXCEPT ![r] = "400"]
  /\ UNCHANGED <<userVars, mailed, crossed>>

\* Either statement of consume finds no row: they went with the user.
ResetFindsNoRow(r) ==
  /\ ~present
  /\ Move(r, {"consume"}, "400")
  /\ UNCHANGED <<otpVars, userVars, mailed, crossed>>

\* Seeded fault: the result of consume is not looked at.
ResetMarkUnchecked(r) ==
  /\ present
  /\ MarkUsed(r)
  /\ Move(r, {"consume"}, "update")
  /\ UNCHANGED <<userVars, mailed, crossed>>

\* consume's UPDATE, and what resetPassword does with its result.
ResetMark(r) ==
  /\ present
  /\ MarkUsed(r)
  /\ Move(r, {"consume"}, IF call'[r].step = "consumed" THEN "update" ELSE "400")
  /\ UNCHANGED <<userVars, mailed, crossed>>

\* updatePassword, after the new password is hashed: one UPDATE, which also
\* ends the session (Sessions).  That it hit no row is not noticed.
ResetUpdate(r) ==
  /\ Move(r, {"update"}, "200")
  /\ IF present
     THEN password' = r /\ changed' = changed \cup {r} /\ Crosses(r, Holding)
     ELSE UNCHANGED <<password, changed, crossed>>
  /\ UNCHANGED <<otpVars, redis, present, mailed>>

-----------------------------------------------------------------------------

RemoveUser ==
  /\ present /\ present' = FALSE
  /\ UNCHANGED <<otpVars, redis, password, changed, handlerVars>>

\* The process dies with every handler it is running, and with the inline
\* deliveries it has not begun.
Crash ==
  /\ \E r \in Calls : handler[r] \in Delivering \cup Resetting
  /\ handler' = [r \in Calls |->
       IF redis /\ handler[r] \in Delivering THEN "stalled"
       ELSE IF handler[r] \in Delivering \cup Resetting \cup (IF redis THEN {} ELSE {"queued"})
       THEN "lost" ELSE handler[r]]
  /\ UNCHANGED <<otpVars, userVars, mailed, crossed>>

TimePasses == Tick /\ UNCHANGED <<userVars, handlerVars>>

PrInit ==
  /\ OtpInit
  /\ redis \in BOOLEAN
  /\ present = TRUE
  /\ password = NULL
  /\ handler = [r \in Calls |-> "new"]
  /\ mailed = {} /\ changed = {}
  /\ crossed = FALSE

PrNext ==
  \/ TimePasses \/ RemoveUser \/ Crash
  \/ \E r \in Calls :
       \/ Forgot(r) \/ StartDelivery(r) \/ IssueFirst(r) \/ IssueSecond(r)
       \/ \E accepted \in BOOLEAN : HandOver(r, accepted)
       \/ Settle(r)
       \/ ResetFind(r) \/ ResetFindsNoRow(r) \/ ResetMark(r) \/ ResetUpdate(r)
       \/ \E s \in Calls : Redeliver(r, s) \/ ResetSelect(r, s)

PrSpec == PrInit /\ [][PrNext]_prVars

-----------------------------------------------------------------------------
(* Properties *)

PrTypeOK ==
  /\ OtpTypeOK
  /\ redis \in BOOLEAN /\ present \in BOOLEAN /\ crossed \in BOOLEAN
  /\ password \in Calls \cup {NULL}
  /\ handler \in [Calls -> Places]
  /\ mailed \subseteq Calls /\ changed \subseteq Calls

\* Whatever is lost in between, a reset reaches the UPDATE of the password,
\* and its 200, only by a code that was mailed and that it alone used; the
\* password in force is that of a reset that was answered so.
ResetsOwnTheirCode ==
  /\ \A r \in Calls :
       /\ handler[r] \in {"update", "200"} => call[r].step = "consumed"
       /\ call[r].step \in {"matched", "consumed"} => call[r].row \in mailed
       /\ call[r].step = "consumed" => otps[call[r].row].usedBy = r
  /\ \A r \in changed : handler[r] = "200"
  /\ password = NULL <=> changed = {}
  /\ password # NULL => password \in changed

\* What the handlers carry: codes mailed were saved, and a delivery past its
\* INSERT has saved one.
DeliveriesAgreeWithCodes ==
  \A r \in Calls :
    /\ r \in mailed => Stored(r)
    /\ handler[r] = "mail" => Stored(r)
    /\ handler[r] \in {"new", "queued"} => call[r].step = "idle"

ResetInv == PrTypeOK /\ ResetsOwnTheirCode /\ DeliveriesAgreeWithCodes

\* The password in force is the one set with the newest code that ever changed
\* it: an older code is never good again, whatever was lost, delivered twice or
\* expired between.  Only two kinds of race can break it: a code saved after
\* another delivery invalidated and before that one saved, so that two are good
\* at once, and a password set while another reset holds a code.
OnlyCrossingsUndoNewest ==
  ~crossed => \A r \in changed : otps[call[r].row].seq <= otps[call[password].row].seq

\* A code can be claimed, whether or not it has expired: the UPDATE of consume
\* does not look at expires_at again.
Claimable(c) == Stored(c) /\ present /\ otps[c].usedBy = NULL

grantOf == [c \in Calls |-> IF ~Stored(c) THEN "none"
                            ELSE IF Claimable(c) THEN "open" ELSE "closed"]
claimOf == [c \in Calls |-> IF call[c].step = "consumed" THEN call[c].row ELSE NULL]

Grants == INSTANCE ResetGrants WITH
  Grants <- Calls, Claims <- Calls, Nobody <- NULL,
  grant <- grantOf, claim <- claimOf, spent <- changed

\* Reset codes are grants that each change the password at most once: the
\* two statements of consume, the late UPDATE of the password, redelivered
\* codes, removal and crashes keep what ResetGrants promises.
ImplementsGrants == Grants!GrantsSpec

\* The code service behaves as OneTimeCodes specifies it, so what is proved of
\* OneTimeCodes holds here.
ImplementsCodes == OtpSpec

=============================================================================
