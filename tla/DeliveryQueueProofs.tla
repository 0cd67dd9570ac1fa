-------------------------- MODULE DeliveryQueueProofs --------------------------
(***************************************************************************)
(* Theorems of DeliveryQueue and of MailPipeline, which adds the e-mail    *)
(* queue to it: inlinePending counts the inline deliveries for every set   *)
(* of them, whatever throws and whatever stops the process; whoever waits  *)
(* has one to wait for; and neither deliveries nor mails are repeated more *)
(* often than the stops and BullMQ's limit allow.                          *)
(***************************************************************************)
EXTENDS MailPipeline, FiniteSetTheorems, TLAPS

\* The process, its count, the deliveries and the waiters keep their types.
LEMMA QueueInvInductive ==
  /\ DqInit => QueueInv
  /\ QueueInv /\ [DqNext]_dqVars => QueueInv'
<1>init. DqInit => QueueInv
  <2> SUFFICES ASSUME DqInit PROVE QueueInv
    OBVIOUS
  <2>1. DqTypeOK
    BY QueueAssumption DEF DqInit, DqTypeOK, JobStates, WaiterStates
  <2>2. InlineUnsettled = {}
    BY DEF DqInit, InlineUnsettled, Delivering
  <2>3. PendingCountsDeliveries
    BY <2>2, FS_EmptySet DEF DqInit, PendingCountsDeliveries
  <2> QED BY <2>1, <2>3 DEF QueueInv, DqInit, WaitersHaveWork
<1>step. QueueInv /\ [DqNext]_dqVars => QueueInv'
  <2> SUFFICES ASSUME QueueInv, [DqNext]_dqVars PROVE QueueInv'
    OBVIOUS
  <2> USE DEF QueueInv
  <2>fin. IsFiniteSet(InlineUnsettled)
    BY QueueAssumption, FS_Subset DEF InlineUnsettled
  \* A step that keeps the unsettled inline deliveries, the count and the
  \* waiters keeps what is said of them.
  <2>same. ASSUME DqTypeOK', InlineUnsettled' = InlineUnsettled,
                  inlinePending' = inlinePending, waiter' = waiter
           PROVE  QueueInv'
    BY <2>same DEF PendingCountsDeliveries, WaitersHaveWork
  <2>1. ASSUME NEW j \in Jobs, Enqueue(j) PROVE QueueInv'
    <3> USE <2>1 DEF Enqueue, Move, processVars
    <3>1. DqTypeOK'
      BY DEF DqTypeOK, JobStates
    <3>2. CASE redis
      <4>1. InlineUnsettled' = InlineUnsettled
        BY <3>2 DEF InlineUnsettled
      <4> QED BY <3>1, <3>2, <4>1, <2>same
    <3>3. CASE ~redis
      <4>1. j \notin InlineUnsettled
        BY DEF InlineUnsettled, Delivering
      <4>2. InlineUnsettled' = InlineUnsettled \cup {j}
        BY <3>3 DEF InlineUnsettled, DqTypeOK
      <4>3. Cardinality(InlineUnsettled') = Cardinality(InlineUnsettled) + 1
        BY <2>fin, <4>1, <4>2, FS_AddElement
      <4>4. PendingCountsDeliveries'
        BY <3>3, <4>3 DEF PendingCountsDeliveries
      <4>5. WaitersHaveWork'
        BY <3>3 DEF WaitersHaveWork, DqTypeOK
      <4> QED BY <3>1, <4>4, <4>5
    <3> QED BY <3>2, <3>3
  <2>2. ASSUME NEW j \in Jobs, AddSettles(j) PROVE QueueInv'
    <3>1. DqTypeOK'
      BY <2>2 DEF AddSettles, Move, processVars, DqTypeOK, JobStates
    <3>2. InlineUnsettled' = InlineUnsettled
      BY <2>2 DEF AddSettles, Move, processVars, InlineUnsettled, Delivering, DqTypeOK
    <3> QED BY <2>2, <3>1, <3>2, <2>same DEF AddSettles
  <2>3. ASSUME NEW j \in Jobs, Start(j) PROVE QueueInv'
    <3>1. DqTypeOK'
      BY <2>3 DEF Start, Move, processVars, DqTypeOK, JobStates, Delivering
    <3>2. InlineUnsettled' = InlineUnsettled
      BY <2>3 DEF Start, Move, processVars, InlineUnsettled, Delivering, DqTypeOK
    <3> QED BY <2>3, <3>1, <3>2, <2>same DEF Start
  <2>4. ASSUME NEW j \in Jobs, Deliver(j) PROVE QueueInv'
    <3>1. PICK outcome \in {"gone", "mailed", "threw"} :
            /\ Move(j, "delivering", outcome)
            /\ mailed' = IF outcome = "mailed" THEN [mailed EXCEPT ![j] = @ + 1] ELSE mailed
      BY <2>4 DEF Deliver
    <3>2. mailed' \in [Jobs -> Nat]
      BY <3>1 DEF DqTypeOK
    <3>3. DqTypeOK'
      BY <2>4, <3>1, <3>2 DEF Deliver, Move, processVars, DqTypeOK, JobStates, Delivering
    <3>4. InlineUnsettled' = InlineUnsettled
      BY <2>4, <3>1 DEF Deliver, Move, processVars, InlineUnsettled, Delivering, DqTypeOK
    <3> QED BY <2>4, <3>3, <3>4, <2>same DEF Deliver
  <2>5. ASSUME NEW j \in Jobs, SettleInline(j) PROVE QueueInv'
    <3>1. PICK outcome \in {"gone", "mailed", "threw"} : Move(j, outcome, "completed")
      BY <2>5 DEF SettleInline
    <3>2. ~redis /\ redis' = redis
      BY <2>5 DEF SettleInline, processVars
    <3>3. j \in InlineUnsettled
      BY <3>1, <3>2 DEF Move, InlineUnsettled, Delivering
    <3>4. InlineUnsettled' = InlineUnsettled \ {j}
      BY <3>1, <3>2 DEF Move, InlineUnsettled, Delivering, DqTypeOK
    <3>5. Cardinality(InlineUnsettled') = Cardinality(InlineUnsettled) - 1
      BY <2>fin, <3>3, <3>4, FS_RemoveElement
    <3>6. IsFiniteSet(InlineUnsettled')
      BY <2>fin, <3>4, FS_Subset
    <3>7. inlinePending' = Cardinality(InlineUnsettled') /\ inlinePending' \in Nat
      BY <2>5, <3>5, <3>6, FS_CardinalityType DEF SettleInline, PendingCountsDeliveries
    <3>8. job' \in [Jobs -> JobStates]
      BY <3>1 DEF Move, DqTypeOK, JobStates
    <3>9. waiter' \in [Waiters -> WaiterStates]
      BY <2>5 DEF SettleInline, FlushInlineWaiters, DqTypeOK, WaiterStates
    <3>10. DqTypeOK'
      BY <2>5, <3>7, <3>8, <3>9 DEF SettleInline, processVars, DqTypeOK
    <3>11. ASSUME inlinePending' = 0 PROVE \A w \in Waiters : waiter'[w] # "waiting"
      BY <2>5, <3>11 DEF SettleInline, FlushInlineWaiters
    <3>12. WaitersHaveWork'
      BY <3>7, <3>11 DEF WaitersHaveWork
    <3> QED BY <3>7, <3>10, <3>12 DEF PendingCountsDeliveries
  <2>6. ASSUME NEW j \in Jobs, SettleJob(j) PROVE QueueInv'
    <3>1. DqTypeOK'
      BY <2>6 DEF SettleJob, Move, processVars, DqTypeOK, JobStates
    <3>2. InlineUnsettled' = InlineUnsettled
      BY <2>6 DEF SettleJob, processVars, InlineUnsettled
    <3> QED BY <2>6, <3>1, <3>2, <2>same DEF SettleJob
  <2>7. ASSUME NEW j \in Jobs, Recover(j) PROVE QueueInv'
    <3>1. stalls' \in [Jobs -> Nat]
      BY <2>7 DEF Recover, DqTypeOK
    <3>2. job' \in [Jobs -> JobStates]
      BY <2>7 DEF Recover, Move, DqTypeOK, JobStates
    <3>3. DqTypeOK'
      BY <2>7, <3>1, <3>2 DEF Recover, processVars, DqTypeOK
    <3>4. InlineUnsettled' = InlineUnsettled
      BY <2>7 DEF Recover, Move, processVars, InlineUnsettled, Delivering, DqTypeOK
    <3> QED BY <2>7, <3>3, <3>4, <2>same DEF Recover
  <2>8. ASSUME NEW w \in Waiters, AwaitIdle(w) PROVE QueueInv'
    <3>1. DqTypeOK'
      BY <2>8 DEF AwaitIdle, processVars, DqTypeOK, WaiterStates
    <3>2. PendingCountsDeliveries'
      BY <2>8 DEF AwaitIdle, processVars, PendingCountsDeliveries, InlineUnsettled
    <3>3. WaitersHaveWork'
      BY <2>8 DEF AwaitIdle, WaitersHaveWork, DqTypeOK
    <3> QED BY <3>1, <3>2, <3>3
  <2>9. ASSUME LoseMemory, stops' \in 0..MaxStops PROVE QueueInv'
    <3>1. InlineUnsettled' = {}
      BY <2>9 DEF LoseMemory, InlineUnsettled, Delivering
    <3>2. PendingCountsDeliveries'
      BY <2>9, <3>1, FS_EmptySet DEF LoseMemory, PendingCountsDeliveries
    <3>3. WaitersHaveWork'
      BY <2>9 DEF LoseMemory, WaitersHaveWork
    <3>4. job' \in [Jobs -> JobStates]
      BY <2>9 DEF LoseMemory, DqTypeOK, JobStates
    <3>5. waiter' \in [Waiters -> WaiterStates]
      BY <2>9 DEF LoseMemory, DqTypeOK, WaiterStates
    <3>6. DqTypeOK'
      BY <2>9, <3>4, <3>5 DEF LoseMemory, DqTypeOK
    <3> QED BY <3>2, <3>3, <3>6
  <2>10. CASE Crash
    BY <2>10, <2>9, QueueAssumption DEF Crash, DqTypeOK
  <2>11. CASE Exit
    BY <2>11, <2>9 DEF Exit, DqTypeOK
  <2>12. CASE Close
    <3>1. DqTypeOK'
      BY <2>12, QueueAssumption DEF Close, DqTypeOK
    <3> QED BY <2>12, <3>1, <2>same DEF Close, InlineUnsettled
  <2>13. CASE Restart
    <3>1. DqTypeOK'
      BY <2>13 DEF Restart, DqTypeOK
    <3> QED BY <2>13, <3>1, <2>same DEF Restart, InlineUnsettled
  <2>14. CASE UNCHANGED dqVars
    <3>1. DqTypeOK'
      BY <2>14 DEF dqVars, processVars, DqTypeOK
    <3> QED BY <2>14, <3>1, <2>same DEF dqVars, processVars, InlineUnsettled
  <2> QED
    BY <2>1, <2>2, <2>3, <2>4, <2>5, <2>6, <2>7, <2>8, <2>10, <2>11, <2>12, <2>13, <2>14
    DEF DqNext, JobStep
<1> QED BY <1>init, <1>step

\* inlinePending is the number of inline deliveries that have not settled.
THEOREM InlinePendingIsExact == DqSpec => []PendingCountsDeliveries
<1>1. QueueInv => PendingCountsDeliveries
  BY DEF QueueInv
<1> QED BY <1>1, QueueInvInductive, PTL DEF DqSpec

\* No waiter is left in inlineIdleWaiters when no delivery is pending.
THEOREM NoWaiterIsForgotten == DqSpec => []WaitersHaveWork
<1>1. QueueInv => WaitersHaveWork
  BY DEF QueueInv
<1> QED BY <1>1, QueueInvInductive, PTL DEF DqSpec

\* The queue's state keeps its type.
LEMMA QueueTypeCorrect == DqSpec => []DqTypeOK
<1>1. QueueInv => DqTypeOK
  BY DEF QueueInv
<1> QED BY <1>1, QueueInvInductive, PTL DEF DqSpec

-----------------------------------------------------------------------------
(* Repeated deliveries *)

\* What a delivery may have mailed, where it is, for the times its worker died.
StallsBoundRepeats ==
  \A j \in Jobs :
    /\ ~redis => job[j] \notin {"adding", "queued", "stalled", "failed"} /\ stalls[j] = 0
    /\ redis => job[j] \notin {"scheduled"}
    /\ job[j] \in {"new", "scheduled", "adding", "queued", "delivering", "gone", "threw"} =>
         mailed[j] <= stalls[j]
    /\ job[j] \notin {"failed"} => mailed[j] <= stalls[j] + 1 /\ stalls[j] <= 1
                                   /\ stalls[j] <= stops
    /\ job[j] = "stalled" => stalls[j] + 1 <= stops
    /\ mailed[j] <= 2

LEMMA RepeatsStep == DqTypeOK /\ StallsBoundRepeats /\ [DqNext]_dqVars => StallsBoundRepeats'
<1> SUFFICES ASSUME DqTypeOK, StallsBoundRepeats, [DqNext]_dqVars PROVE StallsBoundRepeats'
  OBVIOUS
<1> USE DEF StallsBoundRepeats, Move, processVars, MaxStalledCount
<1>typed. /\ job \in [Jobs -> JobStates] /\ mailed \in [Jobs -> Nat] /\ stalls \in [Jobs -> Nat]
          /\ redis \in BOOLEAN /\ stops \in Nat /\ MaxStops \in Nat
  BY QueueAssumption DEF DqTypeOK
<1>1. ASSUME NEW j \in Jobs, Enqueue(j) PROVE StallsBoundRepeats'
  BY <1>1, <1>typed DEF Enqueue
<1>2. ASSUME NEW j \in Jobs, AddSettles(j) PROVE StallsBoundRepeats'
  BY <1>2, <1>typed DEF AddSettles
<1>3. ASSUME NEW j \in Jobs, Start(j) PROVE StallsBoundRepeats'
  BY <1>3, <1>typed DEF Start
<1>4. ASSUME NEW j \in Jobs, Deliver(j) PROVE StallsBoundRepeats'
  <2>1. PICK outcome \in {"gone", "mailed", "threw"} :
          /\ Move(j, "delivering", outcome)
          /\ mailed' = IF outcome = "mailed" THEN [mailed EXCEPT ![j] = @ + 1] ELSE mailed
    BY <1>4 DEF Deliver
  <2>2. UNCHANGED <<redis, stops, stalls>>
    BY <1>4 DEF Deliver
  <2>3. \A k \in Jobs : k # j => job'[k] = job[k] /\ mailed'[k] = mailed[k]
    BY <2>1, <1>typed
  <2>4. /\ job[j] = "delivering" /\ job'[j] = outcome
        /\ mailed'[j] = IF outcome = "mailed" THEN mailed[j] + 1 ELSE mailed[j]
    BY <2>1, <1>typed
  <2> QED BY <2>2, <2>3, <2>4, <1>typed
<1>5. ASSUME NEW j \in Jobs, SettleInline(j) PROVE StallsBoundRepeats'
  BY <1>5, <1>typed DEF SettleInline
<1>6. ASSUME NEW j \in Jobs, SettleJob(j) PROVE StallsBoundRepeats'
  BY <1>6, <1>typed DEF SettleJob
<1>7. ASSUME NEW j \in Jobs, Recover(j) PROVE StallsBoundRepeats'
  <2>1. /\ job[j] = "stalled" /\ stalls'[j] = stalls[j] + 1
        /\ job'[j] = IF stalls[j] < 1 THEN "queued" ELSE "failed"
        /\ \A k \in Jobs : k # j => job'[k] = job[k] /\ stalls'[k] = stalls[k]
        /\ UNCHANGED <<redis, stops, mailed>>
    BY <1>7, <1>typed DEF Recover
  <2> QED BY <2>1, <1>typed
<1>8. ASSUME NEW w \in Waiters, AwaitIdle(w) PROVE StallsBoundRepeats'
  BY <1>8, <1>typed DEF AwaitIdle
<1>9. ASSUME LoseMemory, stops' \in Nat, stops' >= stops,
             (\E j \in Jobs : redis /\ job[j] \in Delivering) => stops' = stops + 1
      PROVE  StallsBoundRepeats'
  <2>1. UNCHANGED <<redis, mailed, stalls>>
    BY <1>9 DEF LoseMemory
  <2>2. \A j \in Jobs :
          job'[j] = IF redis /\ job[j] \in Delivering THEN "stalled"
                    ELSE IF job[j] \in {"scheduled", "adding"} \cup Delivering THEN "lost"
                    ELSE job[j]
    BY <1>9 DEF LoseMemory
  <2>3. ASSUME NEW j \in Jobs
        PROVE  /\ ~redis' => job'[j] \notin {"adding", "queued", "stalled", "failed"} /\ stalls'[j] = 0
               /\ redis' => job'[j] \notin {"scheduled"}
               /\ job'[j] \in {"new", "scheduled", "adding", "queued", "delivering", "gone", "threw"}
                    => mailed'[j] <= stalls'[j]
               /\ job'[j] \notin {"failed"} => mailed'[j] <= stalls'[j] + 1 /\ stalls'[j] <= 1
                                               /\ stalls'[j] <= stops'
               /\ job'[j] = "stalled" => stalls'[j] + 1 <= stops'
               /\ mailed'[j] <= 2
    BY <1>9, <1>typed, <2>1, <2>2 DEF Delivering
  <2> QED BY <2>3
<1>10. CASE Crash
  <2>1. stops' = stops + 1 /\ LoseMemory
    BY <1>10 DEF Crash
  <2> QED BY <2>1, <1>9, <1>typed
<1>11. CASE Exit
  <2>1. stops' = stops /\ LoseMemory /\ (redis => \A j \in Jobs : job[j] \notin Delivering)
    BY <1>11 DEF Exit
  <2> QED BY <2>1, <1>9, <1>typed
<1>12. CASE Close
  BY <1>12, <1>typed DEF Close
<1>13. CASE Restart
  BY <1>13, <1>typed DEF Restart
<1>14. CASE UNCHANGED dqVars
  BY <1>14, <1>typed DEF dqVars
<1> QED
  BY <1>1, <1>2, <1>3, <1>4, <1>5, <1>6, <1>7, <1>8, <1>10, <1>11, <1>12, <1>13, <1>14
  DEF DqNext, JobStep

LEMMA RepeatsHold == DqSpec => [](DqTypeOK /\ StallsBoundRepeats)
<1>1. DqInit => StallsBoundRepeats
  BY DEF DqInit, StallsBoundRepeats
<1> QED BY <1>1, QueueTypeCorrect, RepeatsStep, PTL DEF DqSpec

\* However often the process stops, a delivery mails at most once inline and
\* twice as a job: BullMQ gives up a job whose worker died twice.
THEOREM DeliveriesRepeatOnce == DqSpec => []RepeatsAreBounded
<1>1. DqTypeOK /\ StallsBoundRepeats => RepeatsAreBounded
  <2> SUFFICES ASSUME DqTypeOK, StallsBoundRepeats, NEW j \in Jobs
               PROVE  mailed[j] <= IF redis THEN 2 ELSE 1
    BY DEF RepeatsAreBounded
  <2>1. mailed[j] \in Nat /\ stalls[j] \in Nat /\ redis \in BOOLEAN
    BY DEF DqTypeOK
  <2>2. CASE redis
    BY <2>2 DEF StallsBoundRepeats
  <2>3. CASE ~redis
    BY <2>1, <2>3 DEF StallsBoundRepeats
  <2> QED BY <2>1, <2>2, <2>3
<1> QED BY <1>1, RepeatsHold, PTL

-----------------------------------------------------------------------------
(* The e-mail queue behind it *)

\* Every step of the pipeline is a step of the delivery queue or none of it.
THEOREM PipelineUsesQueue == MpSpec => ImplementsQueue
<1>1. MpInit => DqInit
  BY DEF MpInit
<1>2. [MpNext]_mpVars => [DqNext]_dqVars
  <2> SUFFICES ASSUME [MpNext]_mpVars PROVE [DqNext]_dqVars
    OBVIOUS
  <2>1. CASE QueueOnly
    BY <2>1 DEF QueueOnly, DqNext, JobStep
  <2>2. ASSUME NEW j \in Jobs, DeliverMail(j) PROVE DqNext
    BY <2>2 DEF DeliverMail, DqNext, JobStep
  <2>3. ASSUME NEW e \in Emails, TakeEmail(e) \/ SendEmail(e) \/ SettleEmail(e) \/ RecoverEmail(e)
        PROVE  UNCHANGED dqVars
    BY <2>3 DEF TakeEmail, SendEmail, SettleEmail, RecoverEmail
  <2>4. CASE MpCrash \/ MpExit
    BY <2>4 DEF MpCrash, MpExit, DqNext
  <2>5. CASE UNCHANGED mpVars
    BY <2>5 DEF mpVars
  <2> QED BY <2>1, <2>2, <2>3, <2>4, <2>5 DEF MpNext
<1> QED BY <1>1, <1>2, PTL DEF MpSpec, ImplementsQueue, DqSpec

\* What an e-mail may have been sent, where it is, for the times its worker
\* died; the turn it was handed over at had a stop of its own before it.
EmailBound(e) ==
  /\ email[e] # "none" <=> redis /\ e[2] <= mailed[e[1]]
  /\ ~redis => sends[e] = IF e[2] <= mailed[e[1]] THEN 1 ELSE 0
  /\ redis /\ email[e] = "none" => sends[e] = 0 /\ emailStalls[e] = 0
  /\ redis /\ email[e] # "none" =>
       /\ email[e] \in {"queued", "sending", "threw"} => sends[e] <= emailStalls[e]
       /\ email[e] # "failed" => /\ sends[e] <= emailStalls[e] + 1
                                 /\ emailStalls[e] <= 1
                                 /\ emailStalls[e] + e[2] <= stops + 1
       /\ email[e] = "stalled" => emailStalls[e] + e[2] <= stops
       /\ sends[e] <= 2 /\ sends[e] + e[2] <= stops + 2

MpInv == DqTypeOK /\ StallsBoundRepeats /\ MpTypeOK /\ \A e \in Emails : EmailBound(e)

LEMMA EmailsArePairs ==
  \A e \in Emails : e = <<e[1], e[2]>> /\ e[1] \in Jobs /\ e[2] \in {1, 2}
BY DEF Emails, Turns, MaxStalledCount

LEMMA EmailStep ==
  MpInv /\ DqTypeOK' /\ StallsBoundRepeats' /\ [MpNext]_mpVars => MpInv'
<1> SUFFICES ASSUME MpInv, DqTypeOK', StallsBoundRepeats', [MpNext]_mpVars PROVE MpInv'
  OBVIOUS
<1>typed. /\ email \in [Emails -> EmailStates] /\ emailStalls \in [Emails -> Nat]
          /\ sends \in [Emails -> Nat] /\ mailed \in [Jobs -> Nat] /\ stalls \in [Jobs -> Nat]
          /\ redis \in BOOLEAN /\ stops \in Nat /\ stops' \in Nat
  BY QueueAssumption DEF MpInv, MpTypeOK, DqTypeOK
<1>bound. \A e \in Emails : EmailBound(e)
  BY DEF MpInv
<1> USE DEF MaxStalledCount
\* Steps that leave the e-mails alone.
<1>quiet. ASSUME UNCHANGED emailVars, UNCHANGED <<redis, mailed>>, stops' >= stops PROVE MpInv'
  <2>1. MpTypeOK'
    BY <1>quiet, <1>typed DEF MpTypeOK, emailVars
  <2>2. ASSUME NEW e \in Emails PROVE EmailBound(e)'
    <3>1. EmailBound(e) /\ sends[e] \in Nat /\ emailStalls[e] \in Nat /\ e[2] \in {1, 2}
      BY <1>bound, <1>typed, EmailsArePairs
    <3> QED BY <3>1, <1>quiet, <1>typed DEF EmailBound, emailVars
  <2> QED BY <2>1, <2>2 DEF MpInv
\* Steps of one e-mail.
<1>one. ASSUME NEW e \in Emails, UNCHANGED dqVars, EmailBound(e)',
               email'[e] \in EmailStates, emailStalls'[e] \in Nat, sends'[e] \in Nat,
               email' = [email EXCEPT ![e] = email'[e]],
               emailStalls' = [emailStalls EXCEPT ![e] = emailStalls'[e]],
               sends' = [sends EXCEPT ![e] = sends'[e]]
        PROVE  MpInv'
  <2>1. MpTypeOK'
    BY <1>one, <1>typed DEF MpTypeOK
  <2>2. UNCHANGED <<redis, mailed, stops>>
    BY <1>one DEF dqVars, processVars
  <2>3. ASSUME NEW f \in Emails PROVE EmailBound(f)'
    <3>1. CASE f = e
      BY <3>1, <1>one
    <3>2. CASE f # e
      <4>1. email'[f] = email[f] /\ emailStalls'[f] = emailStalls[f] /\ sends'[f] = sends[f]
        BY <1>one, <1>typed, <3>2
      <4> QED BY <4>1, <2>2, <1>bound DEF EmailBound
    <3> QED BY <3>1, <3>2
  <2> QED BY <2>1, <2>3 DEF MpInv
<1>1. CASE QueueOnly
  <2>1. UNCHANGED <<redis, mailed>> /\ stops' >= stops /\ UNCHANGED emailVars
    BY <1>1, <1>typed DEF QueueOnly, Enqueue, AddSettles, Start, SettleInline, SettleJob, Recover,
       AwaitIdle, Close, Restart, processVars
  <2> QED BY <2>1, <1>quiet
<1>2. ASSUME NEW j \in Jobs, DeliverMail(j) PROVE MpInv'
  <2>1. PICK outcome \in {"gone", "mailed", "threw"} :
          /\ Move(j, "delivering", outcome)
          /\ mailed' = IF outcome = "mailed" THEN [mailed EXCEPT ![j] = @ + 1] ELSE mailed
    BY <1>2 DEF DeliverMail, Deliver
  <2>2. UNCHANGED <<redis, stops, stalls>> /\ emailStalls' = emailStalls
    BY <1>2 DEF DeliverMail, Deliver, processVars
  <2>3. CASE outcome # "mailed"
    <3>1. mailed' = mailed
      BY <2>1, <2>3
    <3>2. UNCHANGED emailVars
      BY <1>2, <3>1, <2>2 DEF DeliverMail, emailVars
    <3> QED BY <2>2, <3>1, <3>2, <1>quiet, <1>typed
  <2>4. CASE outcome = "mailed"
    <3>0. mailed[j] <= stalls[j] /\ stalls[j] <= stops /\ mailed[j] + 1 \in {1, 2}
      <4>1. job[j] = "delivering"
        BY <2>1 DEF Move
      <4> QED BY <4>1, <1>typed DEF MpInv, StallsBoundRepeats
    <3>n. PICK n \in {1, 2} : n = mailed[j] + 1
      BY <3>0
    <3>e. PICK e \in Emails : e = <<j, n>> /\ e[1] = j /\ e[2] = n
      <4>1. <<j, n>> \in Emails
        BY <3>n DEF Emails, Turns
      <4> QED BY <4>1
    <3>1. mailed'[j] = n /\ mailed' # mailed /\ \A k \in Jobs : k # j => mailed'[k] = mailed[k]
      BY <2>1, <2>4, <3>n, <1>typed
    <3>4. /\ email' = [email EXCEPT ![e] = IF redis THEN "queued" ELSE @]
          /\ sends' = [sends EXCEPT ![e] = IF redis THEN @ ELSE @ + 1]
      BY <1>2, <3>1, <3>e DEF DeliverMail
    <3>5. MpTypeOK'
      BY <1>typed, <2>2, <3>4 DEF MpTypeOK, EmailStates
    <3>6. EmailBound(e)'
      <4>1. EmailBound(e) /\ n = mailed[j] + 1 /\ e[1] = j /\ e[2] = n
        BY <1>bound, <3>n, <3>e
      <4>2. email'[e] = (IF redis THEN "queued" ELSE email[e])
            /\ sends'[e] = (IF redis THEN sends[e] ELSE sends[e] + 1)
        BY <1>typed, <3>4
      <4>3. sends[e] \in Nat /\ emailStalls[e] \in Nat /\ mailed[j] \in Nat
        BY <1>typed
      <4> QED BY <4>1, <4>2, <4>3, <2>2, <3>0, <3>1, <1>typed DEF EmailBound
    <3>7. ASSUME NEW f \in Emails, f # e PROVE EmailBound(f)'
      <4>1. email'[f] = email[f] /\ sends'[f] = sends[f]
        BY <1>typed, <3>4, <3>7
      <4>2. f[1] \in Jobs /\ f[2] \in {1, 2} /\ (f[1] = j => f[2] # n)
        BY <3>7, <3>e, EmailsArePairs
      <4>3. EmailBound(f) /\ mailed[f[1]] \in Nat
        BY <1>bound, <1>typed, <4>2
      <4>4. f[2] <= mailed'[f[1]] <=> f[2] <= mailed[f[1]]
        BY <3>1, <3>n, <4>2, <4>3
      <4> QED BY <2>2, <4>1, <4>3, <4>4 DEF EmailBound
    <3>8. \A f \in Emails : EmailBound(f)'
      BY <3>6, <3>7
    <3> QED BY <3>5, <3>8 DEF MpInv
  <2> QED BY <2>3, <2>4
<1>3. ASSUME NEW e \in Emails, TakeEmail(e) \/ SendEmail(e) \/ SettleEmail(e) \/ RecoverEmail(e)
      PROVE  MpInv'
  <2>0. /\ EmailBound(e) /\ sends[e] \in Nat /\ emailStalls[e] \in Nat /\ e[2] \in {1, 2}
        /\ mailed[e[1]] \in Nat
    BY <1>bound, <1>typed, EmailsArePairs
  <2>1. UNCHANGED dqVars /\ UNCHANGED <<redis, mailed, stops>>
    BY <1>3 DEF TakeEmail, SendEmail, SettleEmail, RecoverEmail, dqVars, processVars
  <2>2. CASE TakeEmail(e)
    <3>1. email[e] = "queued" /\ email' = [email EXCEPT ![e] = "sending"]
          /\ UNCHANGED <<emailStalls, sends>>
      BY <2>2 DEF TakeEmail, MoveEmail
    <3>2. email'[e] = "sending"
      BY <3>1, <1>typed
    <3>3. EmailBound(e)'
      BY <2>0, <2>1, <3>1, <3>2 DEF EmailBound
    <3> QED BY <2>0, <2>1, <3>1, <3>2, <3>3, <1>one, <1>typed DEF EmailStates, Sending
  <2>3. CASE SendEmail(e)
    <3>1. /\ email[e] = "sending" /\ emailStalls' = emailStalls
          /\ \/ /\ email' = [email EXCEPT ![e] = "sent"]
                /\ sends' = [sends EXCEPT ![e] = @ + 1]
             \/ /\ email' = [email EXCEPT ![e] = "threw"]
                /\ sends' = sends
      BY <2>3 DEF SendEmail, MoveEmail
    <3>2. /\ email'[e] \in {"sent", "threw"}
          /\ email'[e] = "sent" => sends'[e] = sends[e] + 1
          /\ email'[e] = "threw" => sends'[e] = sends[e]
          /\ email' = [email EXCEPT ![e] = email'[e]]
          /\ sends' = [sends EXCEPT ![e] = sends'[e]]
      BY <3>1, <1>typed
    <3>3. EmailBound(e)'
      BY <2>0, <2>1, <3>1, <3>2, <1>typed DEF EmailBound
    <3>4. sends'[e] \in Nat /\ email'[e] \in EmailStates
      BY <2>0, <3>2 DEF EmailStates, Sending
    <3>5. emailStalls' = [emailStalls EXCEPT ![e] = emailStalls'[e]] /\ emailStalls'[e] \in Nat
      BY <2>0, <3>1, <1>typed
    <3> QED BY <2>1, <3>2, <3>3, <3>4, <3>5, <1>one
  <2>4. CASE SettleEmail(e)
    <3>1. /\ UNCHANGED <<emailStalls, sends>>
          /\ \/ email[e] = "sent" /\ email' = [email EXCEPT ![e] = "completed"]
             \/ email[e] = "threw" /\ email' = [email EXCEPT ![e] = "failed"]
      BY <2>4 DEF SettleEmail, MoveEmail
    <3>2. /\ \/ email[e] = "sent" /\ email'[e] = "completed"
             \/ email[e] = "threw" /\ email'[e] = "failed"
          /\ email' = [email EXCEPT ![e] = email'[e]]
      BY <3>1, <1>typed
    <3>3. EmailBound(e)'
      BY <2>0, <2>1, <3>1, <3>2 DEF EmailBound
    <3> QED BY <2>0, <2>1, <3>1, <3>2, <3>3, <1>one, <1>typed DEF EmailStates, Sending
  <2>5. CASE RecoverEmail(e)
    <3>1. /\ email[e] = "stalled" /\ sends' = sends
          /\ emailStalls' = [emailStalls EXCEPT ![e] = @ + 1]
          /\ email' = [email EXCEPT ![e] = IF emailStalls[e] < 1 THEN "queued" ELSE "failed"]
      BY <2>5 DEF RecoverEmail, MoveEmail
    <3>2. /\ email'[e] = IF emailStalls[e] < 1 THEN "queued" ELSE "failed"
          /\ emailStalls'[e] = emailStalls[e] + 1
      BY <3>1, <1>typed
    <3>3. EmailBound(e)'
      BY <2>0, <2>1, <3>1, <3>2, <1>typed DEF EmailBound
    <3>4. emailStalls'[e] \in Nat /\ email'[e] \in EmailStates
      BY <2>0, <3>2 DEF EmailStates
    <3>5. /\ emailStalls' = [emailStalls EXCEPT ![e] = emailStalls'[e]]
          /\ email' = [email EXCEPT ![e] = email'[e]]
          /\ sends' = [sends EXCEPT ![e] = sends'[e]] /\ sends'[e] \in Nat
      BY <2>0, <3>1, <3>2, <1>typed
    <3> QED BY <2>1, <3>3, <3>4, <3>5, <1>one
  <2> QED BY <1>3, <2>2, <2>3, <2>4, <2>5
<1>4. CASE MpCrash
  <2>1. /\ UNCHANGED <<redis, mailed, emailStalls, sends>> /\ stops' = stops + 1
        /\ email' = [e \in Emails |-> IF email[e] \in Sending THEN "stalled" ELSE email[e]]
    BY <1>4 DEF MpCrash, Crash, LoseMemory, StallEmails
  <2>2. MpTypeOK'
    BY <2>1, <1>typed DEF MpTypeOK, EmailStates, Sending
  <2>3. ASSUME NEW e \in Emails PROVE EmailBound(e)'
    <3>1. EmailBound(e) /\ sends[e] \in Nat /\ emailStalls[e] \in Nat /\ e[2] \in {1, 2}
      BY <1>bound, <1>typed, EmailsArePairs
    <3>2. email'[e] = IF email[e] \in Sending THEN "stalled" ELSE email[e]
      BY <2>1
    <3> QED BY <3>1, <3>2, <2>1, <1>typed DEF EmailBound, Sending
  <2> QED BY <2>2, <2>3 DEF MpInv
<1>5. CASE MpExit
  BY <1>5, <1>quiet, <1>typed DEF MpExit, Exit, LoseMemory
<1>6. CASE UNCHANGED mpVars
  BY <1>6, <1>quiet, <1>typed DEF mpVars, dqVars, processVars
<1> QED
  BY <1>1, <1>2, <1>3, <1>4, <1>5, <1>6 DEF MpNext

LEMMA MpInvHolds == MpSpec => []MpInv
<1>1. MpSpec => [](DqTypeOK /\ StallsBoundRepeats)
  BY PipelineUsesQueue, RepeatsHold, PTL DEF ImplementsQueue
<1>2. MpInit /\ DqTypeOK /\ StallsBoundRepeats => MpInv
  <2> SUFFICES ASSUME MpInit, DqTypeOK, StallsBoundRepeats PROVE MpInv
    OBVIOUS
  <2>1. MpTypeOK
    BY DEF MpInit, MpTypeOK, EmailStates
  <2>2. ASSUME NEW e \in Emails PROVE EmailBound(e)
    <3>1. e[1] \in Jobs /\ e[2] \in {1, 2}
      BY EmailsArePairs
    <3>2. mailed[e[1]] = 0 /\ email[e] = "none" /\ emailStalls[e] = 0 /\ sends[e] = 0
      BY <3>1 DEF MpInit, DqInit
    <3> QED BY <3>1, <3>2 DEF EmailBound
  <2> QED BY <2>1, <2>2 DEF MpInv
<1> QED BY <1>1, <1>2, EmailStep, PTL DEF MpSpec

\* The pipeline keeps its types, and Redis has one e-mail for each time a
\* delivery handed one over.
THEOREM PipelineInvariant == MpSpec => []PipelineInv
<1>1. MpInv => PipelineInv
  <2> SUFFICES ASSUME MpInv, NEW j \in Jobs, NEW n \in Turns
               PROVE  email[<<j, n>>] # "none" <=> redis /\ n <= mailed[j]
    BY DEF MpInv, PipelineInv, EmailsMatchHandOvers
  <2>1. <<j, n>> \in Emails
    BY DEF Emails
  <2> QED BY <2>1 DEF MpInv, EmailBound
<1> QED BY <1>1, MpInvHolds, PTL

\* A request mails twice only if the process stopped: each stop adds at most
\* two mails, four are the most there ever are, and one without Redis.
THEOREM MailsAreBounded == MpSpec => []MailsNeedStops
<1>1. MpInv => MailsNeedStops
  <2> SUFFICES ASSUME MpInv, NEW j \in Jobs
               PROVE  IF redis THEN SendsOf(j) <= 1 + 2 * stops /\ SendsOf(j) <= 4
                               ELSE SendsOf(j) <= 1
    BY DEF MailsNeedStops
  <2> DEFINE e1 == <<j, 1>>
             e2 == <<j, 2>>
  <2>1. e1 \in Emails /\ e2 \in Emails /\ e1[1] = j /\ e2[1] = j /\ e1[2] = 1 /\ e2[2] = 2
    BY DEF Emails, Turns, MaxStalledCount
  <2>2. SendsOf(j) = sends[e1] + sends[e2]
    BY DEF SendsOf
  <2> HIDE DEF e1, e2
  <2>3. /\ EmailBound(e1) /\ EmailBound(e2) /\ sends[e1] \in Nat /\ sends[e2] \in Nat
        /\ stops \in Nat /\ mailed[j] \in Nat /\ redis \in BOOLEAN
    BY <2>1, QueueAssumption DEF MpInv, MpTypeOK, DqTypeOK
  <2>4. CASE redis
    BY <2>1, <2>2, <2>3, <2>4 DEF EmailBound
  <2>5. CASE ~redis
    <3>1. mailed[j] <= 1
      BY <2>3, <2>5 DEF MpInv, StallsBoundRepeats
    <3> QED BY <2>1, <2>2, <2>3, <2>5, <3>1 DEF EmailBound
  <2> QED BY <2>3, <2>4, <2>5
<1> QED BY <1>1, MpInvHolds, PTL
=============================================================================
