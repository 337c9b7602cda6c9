------------------------------- MODULE EventJobs -------------------------------
(***************************************************************************)
(* Event jobs: one BullMQ job per consumer and event, run by the slots of  *)
(* the JobWorkers (platform-kernel/jobs) through IdempotentHandler, which  *)
(* claims the pair in processed_events in the transaction of the handler.  *)
(*                                                                         *)
(* BullMQ and Redis are outside the repository: a job is known by its id,  *)
(* its lock can expire under a run that is still going on (a stall), and a *)
(* run that no longer holds the lock cannot complete or fail the job.      *)
(***************************************************************************)
EXTENDS Naturals, FiniteSets

CONSTANTS
    Consumers, Events,
    Slots,               \* concurrent runs, over all processes
    NoJob,
    MaxAttempts,         \* DEFAULT_ATTEMPTS
    MaxStalls            \* BullMQ's maxStalledCount

ASSUME JobsAssumption ==
    /\ MaxAttempts \in Nat \ {0}
    /\ MaxStalls \in Nat
    /\ NoJob \notin Consumers \X Events

VARIABLES
    rows,                \* ids present in outbox_events; others decide
    job,                 \* job[j]: where BullMQ has the job of consumer j[1] and event j[2]
    made,                \* job.attemptsMade
    stalls,              \* times the job stalled
    running,             \* running[s]: the job whose run() occupies the slot
    step,                \* how far that run is
    mine,                \* the run still holds the job's lock
    processed,           \* the table processed_events
    effects,             \* effects[j]: times the handler's writes for j were committed
    dead,                \* jobs copied to the dead-letter queue
    unburied             \* jobs that failed for good without a dead-letter copy

queueVars == <<job, made, stalls>>
runVars   == <<running, step, mine>>
outcome   == <<processed, effects>>
graves    == <<dead, unburied>>
jobVars   == <<queueVars, runVars, outcome, graves>>
vars      == <<rows, jobVars>>

Jobs  == Consumers \X Events
Steps == {"idle", "started", "claimed", "returned", "threw", "bury"}

Holds(s, j) == running[s] = j /\ mine[s]

-------------------------------------------------------------------------------

Init ==
    /\ rows = {}
    /\ job = [j \in Jobs |-> "none"]
    /\ made = [j \in Jobs |-> 0]
    /\ stalls = [j \in Jobs |-> 0]
    /\ running = [s \in Slots |-> NoJob]
    /\ step = [s \in Slots |-> "idle"]
    /\ mine = [s \in Slots |-> FALSE]
    /\ processed = {}
    /\ effects = [j \in Jobs |-> 0]
    /\ dead = {} /\ unburied = {}

Free(S) ==
    /\ running' = [s \in Slots |-> IF s \in S THEN NoJob ELSE running[s]]
    /\ step' = [s \in Slots |-> IF s \in S THEN "idle" ELSE step[s]]
    /\ mine' = [s \in Slots |-> IF s \in S THEN FALSE ELSE mine[s]]

\* enqueueEvent(): an add whose job id exists already is ignored.
Add(j) ==
    /\ \/ /\ job[j] = "none"
          /\ job' = [job EXCEPT ![j] = "waiting"]
          /\ made' = [made EXCEPT ![j] = 0]
          /\ stalls' = [stalls EXCEPT ![j] = 0]
       \/ job[j] # "none" /\ UNCHANGED queueVars
    /\ UNCHANGED <<runVars, outcome, graves>>

\* A free slot takes a job, new or after its backoff: run() calls process().
Take(s, j) ==
    /\ step[s] = "idle" /\ job[j] = "waiting"
    /\ job' = [job EXCEPT ![j] = "active"]
    /\ running' = [running EXCEPT ![s] = j]
    /\ step' = [step EXCEPT ![s] = "started"]
    /\ mine' = [mine EXCEPT ![s] = TRUE]
    /\ UNCHANGED <<made, stalls, outcome, graves>>

GoOn(s, next) ==
    /\ step' = [step EXCEPT ![s] = next]
    /\ UNCHANGED <<running, mine, queueVars, graves>>

\* Mutant for ExactlyOnce: an INSERT without the primary key's conflict.
NoClaim(s) == FALSE
\* INSERT INTO processed_events ... ON CONFLICT DO NOTHING finds the pair ...
Claimed(s) == running[s] \in processed
\* ... and waits for a transaction that has inserted it and is not over.
ClaimPending(s) == \E t \in Slots \ {s} : running[t] = running[s] /\ step[t] = "claimed"

\* Mutant for AddedIsKept: a claim that is still open counts as made.
SkipPending(s) ==
    /\ step[s] = "started" /\ (Claimed(s) \/ ClaimPending(s))
    /\ GoOn(s, "returned")
    /\ UNCHANGED outcome
\* The claim is somebody else's: "skipped".
Skip(s) ==
    /\ step[s] = "started" /\ Claimed(s)
    /\ GoOn(s, "returned")
    /\ UNCHANGED outcome

\* The claim is made and the event row read, within the transaction.
Claim(s) ==
    /\ step[s] = "started" /\ ~Claimed(s) /\ ~ClaimPending(s)
    /\ GoOn(s, IF running[s][2] \in rows THEN "claimed" ELSE "threw")
    /\ UNCHANGED outcome

\* Mutant for EventuallySettled: the claim is committed before the handler runs.
ClaimOnly(s) ==
    /\ step[s] = "claimed"
    /\ processed' = processed \cup {running[s]}
    /\ GoOn(s, "started")
    /\ UNCHANGED effects
\* handle() is done: its writes and the claim commit together.
Handle(s) ==
    /\ step[s] = "claimed"
    /\ processed' = processed \cup {running[s]}
    /\ effects' = [effects EXCEPT ![running[s]] = @ + 1]
    /\ GoOn(s, "returned")

\* handle() or a statement throws: everything is rolled back, the claim too.
Throw(s) ==
    /\ step[s] \in {"started", "claimed"}
    /\ GoOn(s, "threw")
    /\ UNCHANGED outcome

\* BullMQ completes the job of a run that returned.
Complete(s) ==
    /\ step[s] = "returned"
    /\ job' = [job EXCEPT ![running[s]] = IF mine[s] THEN "done" ELSE @]
    /\ Free({s})
    /\ UNCHANGED <<made, stalls, outcome, graves>>

\* Mutant for JobsTypeOK: one attempt too many.
LastAttemptLate(j) == made[j] >= MaxAttempts
LastAttempt(j) == made[j] + 1 >= MaxAttempts

\* BullMQ fails the attempt of a run that threw: retried after a backoff, or failed for
\* good after the last one.
FailAttempt(s) ==
    /\ step[s] = "threw" /\ mine[s]
    /\ LET j == running[s] IN
        /\ made' = [made EXCEPT ![j] = @ + 1]
        /\ \/ /\ ~LastAttempt(j)
              /\ job' = [job EXCEPT ![j] = "waiting"]
              /\ Free({s})
           \/ /\ LastAttempt(j)
              /\ job' = [job EXCEPT ![j] = "failed"]
              /\ step' = [step EXCEPT ![s] = "bury"]
              /\ UNCHANGED <<running, mine>>
    /\ UNCHANGED <<stalls, outcome, graves>>

\* A run that lost the lock cannot fail its job.
FailUnowned(s) ==
    /\ step[s] = "threw" /\ ~mine[s]
    /\ Free({s})
    /\ UNCHANGED <<queueVars, outcome, graves>>

\* onFailed() copies the job to the dead-letter queue ...
Bury(s) ==
    /\ step[s] = "bury"
    /\ dead' = dead \cup {running[s]}
    /\ Free({s})
    /\ UNCHANGED <<queueVars, outcome, unburied>>

\* ... or that add fails, which is only logged.
BuryFails(s) ==
    /\ step[s] = "bury"
    /\ unburied' = unburied \cup {running[s]}
    /\ Free({s})
    /\ UNCHANGED <<queueVars, outcome, dead>>

\* The lock of an active job expired: BullMQ requeues it, the run that may still be going
\* on notwithstanding, and after too many stalls fails it.  onFailed() then returns early,
\* as the attempts are not used up.
Stall(j) ==
    /\ job[j] = "active"
    /\ mine' = [s \in Slots |-> mine[s] /\ running[s] # j]
    /\ \/ /\ stalls[j] < MaxStalls
          /\ stalls' = [stalls EXCEPT ![j] = @ + 1]
          /\ job' = [job EXCEPT ![j] = "waiting"]
          /\ UNCHANGED unburied
       \/ /\ stalls[j] = MaxStalls
          /\ job' = [job EXCEPT ![j] = "failed"]
          /\ unburied' = unburied \cup {j}
          /\ UNCHANGED stalls
    /\ UNCHANGED <<made, running, step, outcome, dead>>

\* The process of the slots S dies: open transactions are rolled back, jobs stay "active"
\* without a holder until they stall, and a copy not yet made is not made.
Lose(S) ==
    /\ unburied' = unburied \cup {running[s] : s \in {t \in S : step[t] = "bury"}}
    /\ Free(S)
    /\ UNCHANGED <<queueVars, outcome, dead>>

\* removeOnComplete, removeOnFail: a day or a week later the job id is free again.
Remove(j) ==
    /\ job[j] \in {"done", "failed"}
    /\ \A s \in Slots : running[s] # j
    /\ job' = [job EXCEPT ![j] = "none"]
    /\ UNCHANGED <<made, stalls, runVars, outcome, graves>>

-------------------------------------------------------------------------------

Progress(s) ==
    \/ Skip(s) \/ Claim(s) \/ Handle(s) \/ Throw(s) \/ Complete(s)
    \/ FailAttempt(s) \/ FailUnowned(s) \/ Bury(s) \/ BuryFails(s)

Run(s) == Progress(s) \/ \E j \in Jobs : Take(s, j)

Queue == \E j \in Jobs : Stall(j) \/ Remove(j)

Next ==
    \/ (\E j \in Jobs : Add(j)) /\ UNCHANGED rows
    \/ (\E s \in Slots : Run(s)) /\ UNCHANGED rows
    \/ Queue /\ UNCHANGED rows
    \/ (\E S \in SUBSET Slots : Lose(S)) /\ UNCHANGED rows
    \/ rows' \in SUBSET Events /\ UNCHANGED jobVars

Spec == Init /\ [][Next]_vars

-------------------------------------------------------------------------------
(* Properties. *)

\* The job is handled, still to be run, or failed for good and known to be.
Accounted(j) ==
    \/ effects[j] = 1
    \/ job[j] \in {"waiting", "active"}
    \/ \E s \in Slots : running[s] = j /\ step[s] = "bury"
    \/ j \in dead \cup unburied

TypeOK ==
    /\ rows \subseteq Events
    /\ job \in [Jobs -> {"none", "waiting", "active", "done", "failed"}]
    /\ made \in [Jobs -> 0..MaxAttempts]
    /\ stalls \in [Jobs -> 0..MaxStalls]
    /\ running \in [Slots -> Jobs \cup {NoJob}]
    /\ step \in [Slots -> Steps]
    /\ \A s \in Slots : step[s] = "idle" <=> running[s] = NoJob
    /\ mine \in [Slots -> BOOLEAN]
    /\ processed \subseteq Jobs
    /\ effects \in [Jobs -> Nat]
    /\ dead \subseteq Jobs /\ unburied \subseteq Jobs

\* A consumer's effects for an event are committed once, with its claim, or not at all
\* (idempotent-handler.ts:28): not by a redelivery, a retry, a republished event, nor by a
\* run that goes on after its job stalled and was taken by another.
ExactlyOnce == \A j \in Jobs : effects[j] = IF j \in processed THEN 1 ELSE 0

\* A job whose id is taken is accounted for: a skipped run completes it only when another
\* run's effects are committed, not while that run may still roll back, and a zombie that
\* lost the job does not settle it (idempotent-handler.ts:53, jobs.module.ts:133).
AddedIsKept == \A j \in Jobs : job[j] # "none" => Accounted(j)
===============================================================================
