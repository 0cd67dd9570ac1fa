----------------------------- MODULE MailPipeline -----------------------------
(***************************************************************************)
(* The way of a password-reset mail: the delivery queue and, behind it,    *)
(* OutboundEmailQueueService.  Without Redis a delivery sends the mail     *)
(* itself; with Redis it adds a second job, which the e-mail worker of the *)
(* process takes, checks and sends.  One process runs both workers, and    *)
(* its stops hit both.                                                     *)
(*                                                                         *)
(* A delivery that is repeated hands over again, so that an e-mail is      *)
(* named by the delivery and the turn at which it was handed over.         *)
(***************************************************************************)
EXTENDS DeliveryQueue

VARIABLES
  email,         \* where each e-mail is
  emailStalls,   \* BullMQ's count of how often its worker died
  sends          \* history: how often the provider accepted it

emailVars == <<email, emailStalls, sends>>
mpVars    == <<dqVars, emailVars>>

Turns   == 1..(MaxStalledCount + 1)
Emails  == Jobs \X Turns
Sending == {"sending", "sent", "threw"}
EmailStates == {"none", "queued", "stalled", "completed", "failed"} \cup Sending

MoveEmail(e, from, to) == email[e] = from /\ email' = [email EXCEPT ![e] = to]

\* The number of mails a request for a reset made the provider send.
SendsOf(j) == sends[<<j, 1>>] + sends[<<j, 2>>]

-----------------------------------------------------------------------------
(* The delivery hands the mail over *)

\* Seeded fault: the mail is both sent and queued.
DeliverTwice(j) ==
  /\ Deliver(j)
  /\ LET e == <<j, mailed'[j]>> IN
       IF mailed' = mailed
       THEN UNCHANGED <<email, sends>>
       ELSE /\ email' = [email EXCEPT ![e] = IF redis THEN "queued" ELSE @]
            /\ sends' = [sends EXCEPT ![e] = @ + 1]
  /\ UNCHANGED emailStalls

\* Seeded fault: the delivery does not wait for queue.add, which may fail.
DeliverUnawaited(j) ==
  /\ Deliver(j)
  /\ LET e == <<j, mailed'[j]>> IN
       IF mailed' = mailed
       THEN UNCHANGED <<email, sends>>
       ELSE /\ email' \in {email, [email EXCEPT ![e] = IF redis THEN "queued" ELSE @]}
            /\ sends' = [sends EXCEPT ![e] = IF redis THEN @ ELSE @ + 1]
  /\ UNCHANGED emailStalls

\* enqueuePasswordReset: sends at once without Redis, else awaits queue.add.
\* A payload, provider or Redis that fails makes the delivery throw.
DeliverMail(j) ==
  /\ Deliver(j)
  /\ LET e == <<j, mailed'[j]>> IN
       IF mailed' = mailed
       THEN UNCHANGED <<email, sends>>
       ELSE /\ email' = [email EXCEPT ![e] = IF redis THEN "queued" ELSE @]
            /\ sends' = [sends EXCEPT ![e] = IF redis THEN @ ELSE @ + 1]
  /\ UNCHANGED emailStalls

-----------------------------------------------------------------------------
(* The e-mail worker *)

\* The worker, idle and not closing, takes a job.
TakeEmail(e) ==
  /\ redis /\ process = "up"
  /\ \A f \in Emails : email[f] \notin Sending
  /\ MoveEmail(e, "queued", "sending")
  /\ UNCHANGED <<dqVars, emailStalls, sends>>

\* The provider has the mail, or the name of the job or its payload is
\* refused, a part of it cannot be converted, or the provider refuses it.
SendEmail(e) ==
  /\ process # "down"
  /\ \/ /\ MoveEmail(e, "sending", "sent")
        /\ sends' = [sends EXCEPT ![e] = @ + 1]
     \/ /\ MoveEmail(e, "sending", "threw")
        /\ UNCHANGED sends
  /\ UNCHANGED <<dqVars, emailStalls>>

\* BullMQ: done, or failed with its only attempt.
SettleEmail(e) ==
  /\ process # "down"
  /\ MoveEmail(e, "sent", "completed") \/ MoveEmail(e, "threw", "failed")
  /\ UNCHANGED <<dqVars, emailStalls, sends>>

\* BullMQ's stalled-job check, with the same default as the delivery queue's.
RecoverEmail(e) ==
  /\ process = "up"
  /\ emailStalls' = [emailStalls EXCEPT ![e] = @ + 1]
  /\ MoveEmail(e, "stalled", IF emailStalls[e] < MaxStalledCount THEN "queued" ELSE "failed")
  /\ UNCHANGED <<dqVars, sends>>

-----------------------------------------------------------------------------
(* The process *)

StallEmails ==
  /\ email' = [e \in Emails |-> IF email[e] \in Sending THEN "stalled" ELSE email[e]]
  /\ UNCHANGED <<emailStalls, sends>>

MpCrash == Crash /\ StallEmails

\* onModuleDestroy of both services: closing a worker waits for its job.
MpExit ==
  /\ \A e \in Emails : email[e] \notin Sending
  /\ Exit
  /\ UNCHANGED emailVars

-----------------------------------------------------------------------------

MpInit ==
  /\ DqInit
  /\ email = [e \in Emails |-> "none"]
  /\ emailStalls = [e \in Emails |-> 0]
  /\ sends = [e \in Emails |-> 0]

\* Steps of the delivery queue and its waiters that no e-mail notices.
QueueOnly ==
  /\ \/ \E j \in Jobs : Enqueue(j) \/ AddSettles(j) \/ Start(j)
                          \/ SettleInline(j) \/ SettleJob(j) \/ Recover(j)
     \/ \E w \in Waiters : AwaitIdle(w)
     \/ Close \/ Restart
  /\ UNCHANGED emailVars

MpNext ==
  \/ QueueOnly
  \/ \E j \in Jobs : DeliverMail(j)
  \/ \E e \in Emails : TakeEmail(e) \/ SendEmail(e) \/ SettleEmail(e) \/ RecoverEmail(e)
  \/ MpCrash \/ MpExit

\* The event loop keeps turning and what it calls settles, one way or the
\* other; the workers take jobs and BullMQ looks for stalled ones; a supervisor
\* starts a stopped process again.  Nothing makes a client ask, and nothing
\* makes the process stop.
Alone(A) == A /\ UNCHANGED emailVars
MpFairness ==
  /\ \A j \in Jobs : WF_mpVars(Alone(AddSettles(j))) /\ WF_mpVars(DeliverMail(j))
  /\ \A j \in Jobs : WF_mpVars(Alone(SettleInline(j))) /\ WF_mpVars(Alone(SettleJob(j)))
  /\ WF_mpVars(Alone(\E j \in Jobs : Start(j)))
  /\ WF_mpVars(Alone(\E j \in Jobs : Recover(j)))
  /\ \A e \in Emails : WF_mpVars(SendEmail(e)) /\ WF_mpVars(SettleEmail(e))
  /\ WF_mpVars(\E e \in Emails : TakeEmail(e)) /\ WF_mpVars(\E e \in Emails : RecoverEmail(e))
  /\ WF_mpVars(MpExit) /\ WF_mpVars(Alone(Restart))

MpSpec     == MpInit /\ [][MpNext]_mpVars
MpFairSpec == MpSpec /\ MpFairness

-----------------------------------------------------------------------------
(* Properties *)

MpTypeOK ==
  /\ DqTypeOK
  /\ email \in [Emails -> EmailStates]
  /\ emailStalls \in [Emails -> Nat]
  /\ sends \in [Emails -> Nat]

\* Redis has an e-mail for every time a delivery handed one over, no more and
\* no less, whatever stopped or was done again in between; without Redis
\* there is none.
EmailsMatchHandOvers ==
  \A j \in Jobs, n \in Turns : email[<<j, n>>] # "none" <=> redis /\ n <= mailed[j]

PipelineInv == MpTypeOK /\ EmailsMatchHandOvers

\* While the process is not stopped a request mails at most once.  One stop
\* can repeat both the delivery and the e-mail it had handed over, so it can
\* add two mails, each but the last with a code that is no longer good; after
\* four mails nothing is repeated.  Without Redis there is never a second.
MailsNeedStops ==
  \A j \in Jobs :
    IF redis THEN SendsOf(j) <= 1 + 2 * stops /\ SendsOf(j) <= 4
             ELSE SendsOf(j) <= 1

\* A delivery that reached Redis ends, and so does every e-mail it handed
\* over, whatever stops in between: neither queue loses or forgets one.
QueuedMailIsSettled ==
  \A j \in Jobs :
    job[j] = "queued" ~>
      /\ job[j] \in {"completed", "failed"}
      /\ \A n \in Turns : email[<<j, n>>] \in {"none", "completed", "failed"}

\* The delivery queue behaves as DeliveryQueue specifies it, so what is proved
\* of DeliveryQueue holds here.
ImplementsQueue == DqSpec

=============================================================================
