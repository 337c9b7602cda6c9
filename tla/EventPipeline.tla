----------------------------- MODULE EventPipeline -----------------------------
(***************************************************************************)
(* Outbox to consumers: the relay (OutboxRelay) adds the event jobs that   *)
(* the same worker processes run (EventJobs), over one table of events.  A *)
(* job may run before the publishing transaction that added it commits, or *)
(* although it rolls back; a crash takes a process's relay and its job     *)
(* runs together; and the relay may prune a row whose job still waits.     *)
(***************************************************************************)
EXTENDS OutboxRelay

CONSTANTS Slots, NoJob, MaxAttempts, MaxStalls,
    Host                 \* Host[s]: the worker process of slot s

ASSUME PipelineAssumption ==
    /\ Host \in [Slots -> Workers]
    /\ MaxAttempts \in Nat \ {0} /\ MaxStalls \in Nat
    /\ NoJob \notin Consumers \X Events

VARIABLES job, made, stalls, running, step, mine, processed, effects, dead, unburied

J == INSTANCE EventJobs WITH rows <- written \ pruned

queueing == <<job, made, stalls, running, step, mine, processed, effects, dead, unburied>>
allVars  == <<vars, queueing>>

SlotsOf(w) == {s \in Slots : Host[s] = w}
NoRuns(w)   == \A s \in SlotsOf(w) : step[s] = "idle"

-------------------------------------------------------------------------------

PInit == Init /\ J!Init

EnqueueJob(w, j) == Enqueue(w, j) /\ J!Add(j)

RelayStep(w) ==
    \/ Transact(w) /\ UNCHANGED queueing
    \/ \E j \in J!Jobs : EnqueueJob(w, j)

\* A process starts anew only when the previous one has ended, its job runs included.
StartProcess(w) == Start(w) /\ NoRuns(w) /\ UNCHANGED queueing

Lead(w) == (TryLead(w) \/ Wake(w) \/ StepDown(w) \/ Stopped(w)) /\ UNCHANGED queueing

CrashProcess(w) == Crash(w) /\ J!Lose(SlotsOf(w))

RelayBreak(w) ==
    /\ Fail(w) \/ CommitUnanswered(w) \/ LoseLock(w) \/ Shutdown(w)
    /\ UNCHANGED queueing

\* worker.close() takes no more jobs and lets the runs in progress finish.
TakeJob(s, j) == status[Host[s]] = "up" /\ J!Take(s, j) /\ UNCHANGED vars

RunJob(s) == J!Progress(s) /\ UNCHANGED vars

StallJob(j) == J!Stall(j) /\ UNCHANGED vars

RemoveJob(j) == J!Remove(j) /\ UNCHANGED vars

PNext ==
    \/ \E S \in SUBSET Events : Append(S) /\ UNCHANGED queueing
    \/ \E w \in Workers :
          RelayStep(w) \/ StartProcess(w) \/ Lead(w) \/ CrashProcess(w) \/ RelayBreak(w)
    \/ \E s \in Slots : RunJob(s) \/ \E j \in J!Jobs : TakeJob(s, j)
    \/ \E j \in J!Jobs : StallJob(j) \/ RemoveJob(j)

PSpec == PInit /\ [][PNext]_allVars

\* The relay's fairness; slots take what waits and finish what they run; and BullMQ's
\* stalled check finds an active job whose process died.
PFairness ==
    /\ \A w \in Workers :
          /\ WF_allVars(StartProcess(w)) /\ WF_allVars(RelayStep(w))
          /\ WF_allVars(TryLead(w) /\ UNCHANGED queueing)
          /\ WF_allVars(StepDown(w) /\ UNCHANGED queueing)
          /\ WF_allVars(Stopped(w) /\ UNCHANGED queueing)
          /\ WF_allVars(Wake(w) /\ UNCHANGED queueing)
    /\ \A s \in Slots : WF_allVars(RunJob(s))
    /\ \A j \in J!Jobs :
          /\ WF_allVars(\E s \in Slots : TakeJob(s, j))
          /\ WF_allVars(StallJob(j) /\ \A s \in Slots : ~J!Holds(s, j))

PFairSpec == PSpec /\ PFairness

-------------------------------------------------------------------------------
(* Properties. *)

JobsTypeOK == J!TypeOK

\* The pipeline seen from its ends.  A job whose run is about to copy it to the dead-letter
\* queue has failed already.
Pending == {j \in J!Jobs : job[j] \in {"waiting", "active"}}
Failed  ==
    dead \cup unburied \cup {j \in J!Jobs : \E s \in Slots : running[s] = j /\ step[s] = "bury"}

Delivery == INSTANCE EventDelivery
            WITH published <- Published, pending <- Pending, failed <- Failed

\* The pipeline keeps the promise of EventDelivery: a job is settled only for committed
\* effects, given up on only by failing for good, added only before its event is published,
\* and an event is published only when every consumer is cared for (relay.ts:263-318,
\* idempotent-handler.ts:28, jobs.module.ts:133).
DeliverySpec == Delivery!Spec

\* Stated in EventJobs; checked here with the relay and its failures around it.
ExactlyOnce == J!ExactlyOnce

\* A published event is not lost to a consumer: its job is handled, still to be run, or
\* failed for good, although jobs are added before the commit to a queue that is not part
\* of the transaction, and job ids are freed again (relay.ts:302, queues.ts:61).
NothingForgotten ==
    \A e \in Published : \A c \in Routes[e] : J!Accounted(<<c, e>>)

\* Every event of a committed transaction has its effects in every consumer in the end,
\* or its job has failed for good.
EventuallySettled ==
    \A e \in Events : \A c \in Routes[e] :
        e \in written ~> (effects[<<c, e>>] = 1 \/ <<c, e>> \in dead \cup unburied)
===============================================================================
