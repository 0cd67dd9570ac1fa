----------------------------- MODULE DeliveryQueue -----------------------------
(***************************************************************************)
(* PasswordResetQueueService: deliveries that forgotPassword enqueues and  *)
(* does not wait for.  Without Redis a delivery runs inline, on the event  *)
(* loop of the process, counted by inlinePending for awaitIdleForTests;    *)
(* with Redis it is a BullMQ job, taken by a worker of the process.        *)
(*                                                                         *)
(* The process can crash, be shut down and be started again.  A delivery   *)
(* is deliverForUser: look the user up, issue a code, hand the mail over.  *)
(* BullMQ is external, modelled as the service configures it: one job at a *)
(* time, one attempt, and a job whose worker died put back once.           *)
(***************************************************************************)
EXTENDS Naturals, FiniteSets

CONSTANTS
  Jobs,       \* the calls of enqueue
  Waiters,    \* the calls of awaitIdleForTests
  MaxStops    \* bound: how often the process stops

ASSUME QueueAssumption ==
  /\ IsFiniteSet(Jobs)
  /\ MaxStops \in Nat

VARIABLES
  redis,           \* whether REDIS_URL is set, fixed while the service is deployed
  process,         \* "up", "closing" (onModuleDestroy) or "down"
  stops,           \* how often it stopped
  job,             \* where each delivery is
  inlinePending,
  waiter,          \* each waiter; those in inlineIdleWaiters are "waiting"
  mailed,          \* history: mails handed over per delivery
  stalls           \* BullMQ's count of how often a job's worker died

processVars == <<redis, process, stops>>
dqVars      == <<processVars, job, inlinePending, waiter, mailed, stalls>>

Delivering == {"delivering", "gone", "mailed", "threw"}
JobStates  ==
  {"new", "scheduled", "adding", "queued", "stalled", "completed", "failed",
   "dropped", "lost"} \cup Delivering
WaiterStates == {"new", "waiting", "released", "lost"}

\* Seeded fault: the Worker is given an option of two.
MaxStalledCountOfTwo == 2

\* onModuleInit makes the Worker without the option, which is one by default.
MaxStalledCount == 1

\* Inline deliveries that have been counted in and not out again.
InlineUnsettled == {j \in Jobs : ~redis /\ job[j] \in {"scheduled"} \cup Delivering}

Move(j, from, to) == job[j] = from /\ job' = [job EXCEPT ![j] = to]

-----------------------------------------------------------------------------
(* forgotPassword's side *)

\* enqueue: count it in and setImmediate, or call queue.add and not await it.
Enqueue(j) ==
  /\ process # "down"
  /\ IF redis
     THEN /\ Move(j, "new", "adding")
          /\ UNCHANGED inlinePending
     ELSE /\ Move(j, "new", "scheduled")
          /\ inlinePending' = inlinePending + 1
  /\ UNCHANGED <<processVars, waiter, mailed, stalls>>

\* queue.add resolves once Redis holds the job; its failure is only logged.
AddSettles(j) ==
  /\ process # "down"
  /\ Move(j, "adding", "queued") \/ Move(j, "adding", "dropped")
  /\ UNCHANGED <<processVars, inlinePending, waiter, mailed, stalls>>

-----------------------------------------------------------------------------
(* Delivering *)

\* Seeded fault: the Worker is only made by the first process.
StartOnce(j) ==
  /\ IF redis
     THEN /\ process = "up" /\ stops = 0
          /\ \A k \in Jobs : job[k] \notin Delivering
          /\ Move(j, "queued", "delivering")
     ELSE process # "down" /\ Move(j, "scheduled", "delivering")
  /\ UNCHANGED <<processVars, inlinePending, waiter, mailed, stalls>>

\* The immediate fires; or the worker, idle and not closing, takes the job.
Start(j) ==
  /\ IF redis
     THEN /\ process = "up"
          /\ \A k \in Jobs : job[k] \notin Delivering
          /\ Move(j, "queued", "delivering")
     ELSE process # "down" /\ Move(j, "scheduled", "delivering")
  /\ UNCHANGED <<processVars, inlinePending, waiter, mailed, stalls>>

\* deliverForUser: nothing to do for a user that is gone, or the mail is
\* handed over, or a step of it throws.
Deliver(j) ==
  /\ process # "down"
  /\ \E outcome \in {"gone", "mailed", "threw"} :
       /\ Move(j, "delivering", outcome)
       /\ mailed' = IF outcome = "mailed" THEN [mailed EXCEPT ![j] = @ + 1] ELSE mailed
  /\ UNCHANGED <<processVars, inlinePending, waiter, stalls>>

\* flushInlineWaiters: every waiter is released when nothing is pending.
FlushInlineWaiters(pending) ==
  IF pending = 0
  THEN [w \in Waiters |-> IF waiter[w] = "waiting" THEN "released" ELSE waiter[w]]
  ELSE waiter

\* Seeded fault: the count is only decremented after a successful delivery.
SettleInlineSuccess(j) ==
  /\ ~redis /\ process # "down"
  /\ \E outcome \in {"gone", "mailed", "threw"} :
       /\ Move(j, outcome, "completed")
       /\ inlinePending' = IF outcome = "threw" THEN inlinePending ELSE inlinePending - 1
       /\ waiter' = FlushInlineWaiters(inlinePending')
  /\ UNCHANGED <<processVars, mailed, stalls>>

\* Seeded fault: the waiters are flushed before the count is decremented.
SettleInlineFlushFirst(j) ==
  /\ ~redis /\ process # "down"
  /\ \E outcome \in {"gone", "mailed", "threw"} : Move(j, outcome, "completed")
  /\ inlinePending' = inlinePending - 1
  /\ waiter' = FlushInlineWaiters(inlinePending)
  /\ UNCHANGED <<processVars, mailed, stalls>>

\* The finally block of an inline delivery, whether or not it threw (that is
\* only logged): count it out and flush.
SettleInline(j) ==
  /\ ~redis /\ process # "down"
  /\ \E outcome \in {"gone", "mailed", "threw"} : Move(j, outcome, "completed")
  /\ inlinePending' = inlinePending - 1
  /\ waiter' = FlushInlineWaiters(inlinePending')
  /\ UNCHANGED <<processVars, mailed, stalls>>

\* BullMQ: a job that returned is removed; one that threw has had its only
\* attempt and is kept as failed.
SettleJob(j) ==
  /\ redis /\ process # "down"
  /\ \/ \E outcome \in {"gone", "mailed"} : Move(j, outcome, "completed")
     \/ Move(j, "threw", "failed")
  /\ UNCHANGED <<processVars, inlinePending, waiter, mailed, stalls>>

-----------------------------------------------------------------------------
(* awaitIdleForTests *)

\* Seeded fault: the waiter is pushed even when nothing is pending.
AwaitIdleAlways(w) ==
  /\ process # "down"
  /\ waiter[w] = "new"
  /\ waiter' = [waiter EXCEPT ![w] = IF redis THEN "released" ELSE "waiting"]
  /\ UNCHANGED <<processVars, job, inlinePending, mailed, stalls>>

AwaitIdle(w) ==
  /\ process # "down"
  /\ waiter[w] = "new"
  /\ waiter' = [waiter EXCEPT ![w] =
       IF redis \/ inlinePending = 0 THEN "released" ELSE "waiting"]
  /\ UNCHANGED <<processVars, job, inlinePending, mailed, stalls>>

-----------------------------------------------------------------------------
(* The process *)

\* Whatever the process held in memory goes; what Redis holds stays.
LoseMemory ==
  /\ process' = "down"
  /\ job' = [j \in Jobs |->
       IF redis /\ job[j] \in Delivering THEN "stalled"
       ELSE IF job[j] \in {"scheduled", "adding"} \cup Delivering THEN "lost"
       ELSE job[j]]
  /\ inlinePending' = 0
  /\ waiter' = [w \in Waiters |-> IF waiter[w] = "waiting" THEN "lost" ELSE waiter[w]]
  /\ UNCHANGED <<redis, mailed, stalls>>

Crash ==
  /\ process # "down" /\ stops < MaxStops
  /\ stops' = stops + 1
  /\ LoseMemory

\* onModuleDestroy on a termination signal: the worker takes no more jobs,
\* and closing it waits for the one it has; inline deliveries are not waited for.
Close ==
  /\ process = "up" /\ stops < MaxStops
  /\ process' = "closing" /\ stops' = stops + 1
  /\ UNCHANGED <<redis, job, inlinePending, waiter, mailed, stalls>>

Exit ==
  /\ process = "closing"
  /\ redis => \A j \in Jobs : job[j] \notin Delivering
  /\ LoseMemory
  /\ UNCHANGED stops

\* onModuleInit: the worker finds what is queued in Redis.
Restart ==
  /\ process = "down"
  /\ process' = "up"
  /\ UNCHANGED <<redis, stops, job, inlinePending, waiter, mailed, stalls>>

\* BullMQ's stalled-job check.
Recover(j) ==
  /\ process = "up"
  /\ stalls' = [stalls EXCEPT ![j] = @ + 1]
  /\ Move(j, "stalled", IF stalls[j] < MaxStalledCount THEN "queued" ELSE "failed")
  /\ UNCHANGED <<processVars, inlinePending, waiter, mailed>>

-----------------------------------------------------------------------------

DqInit ==
  /\ redis \in BOOLEAN
  /\ process = "up" /\ stops = 0
  /\ job = [j \in Jobs |-> "new"]
  /\ inlinePending = 0
  /\ waiter = [w \in Waiters |-> "new"]
  /\ mailed = [j \in Jobs |-> 0]
  /\ stalls = [j \in Jobs |-> 0]

JobStep(j) == Enqueue(j) \/ AddSettles(j) \/ Start(j) \/ Deliver(j)
                \/ SettleInline(j) \/ SettleJob(j) \/ Recover(j)

DqNext ==
  \/ \E j \in Jobs : JobStep(j)
  \/ \E w \in Waiters : AwaitIdle(w)
  \/ Crash \/ Close \/ Exit \/ Restart

DqSpec == DqInit /\ [][DqNext]_dqVars

-----------------------------------------------------------------------------
(* Properties *)

DqTypeOK ==
  /\ redis \in BOOLEAN
  /\ process \in {"up", "closing", "down"}
  /\ stops \in 0..MaxStops
  /\ job \in [Jobs -> JobStates]
  /\ inlinePending \in Nat
  /\ waiter \in [Waiters -> WaiterStates]
  /\ mailed \in [Jobs -> Nat]
  /\ stalls \in [Jobs -> Nat]

\* The count is that of the inline deliveries scheduled or running: none is
\* counted out twice, missed when it throws, or left over by a stop.
PendingCountsDeliveries == inlinePending = Cardinality(InlineUnsettled)

\* Whoever waits for idle has a delivery to wait for, whose end will flush
\* it: no wake-up is lost between the test of inlinePending and the push.
WaitersHaveWork == (\E w \in Waiters : waiter[w] = "waiting") => inlinePending > 0

\* However often the process stops, an inline delivery mails at most once and
\* a BullMQ job at most twice, for the one recovery it is allowed.
RepeatsAreBounded ==
  \A j \in Jobs : mailed[j] <= IF redis THEN 2 ELSE 1

QueueInv == DqTypeOK /\ PendingCountsDeliveries /\ WaitersHaveWork

\* awaitIdleForTests resolves, unless the process goes first.
WaitersReleased ==
  \A w \in Waiters : waiter[w] = "waiting" ~> waiter[w] \in {"released", "lost"}

=============================================================================
