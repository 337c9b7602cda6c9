---------------------------- MODULE EventJobsProofs ----------------------------
(***************************************************************************)
(* Proofs about EventJobs, for any number of consumers, events, slots,     *)
(* attempts and stalls.  JobsInv is inductive: of the runs of one job, the *)
(* lock's holder alone settles the job, and at most one has an open claim  *)
(* in processed_events, whoever holds the lock.                            *)
(***************************************************************************)
EXTENDS EventJobs, TLAPS

\* The holder of a job's lock runs an active job, ...
OwnerInv == \A s \in Slots : mine[s] /\ step[s] # "bury" => job[running[s]] = "active"

\* ... and no two runs hold the lock of one job.
UniqueInv ==
    \A s, t \in Slots :
        mine[s] /\ mine[t] /\ running[s] = running[t] /\ step[s] # "bury" /\ step[t] # "bury"
            => s = t

\* A job that is being copied to the dead-letter queue has failed for good.
BuryInv == \A s \in Slots : step[s] = "bury" => job[running[s]] = "failed"

\* A free slot holds no lock.
FreeInv == \A s \in Slots : step[s] = "idle" => ~mine[s]

\* A job that can still run has an attempt left.
AttemptsInv == \A j \in Jobs : job[j] \in {"waiting", "active"} => made[j] < MaxAttempts

\* An open claim is on a pair that is not processed, and is the only one on it.
ClaimInv ==
    \A s \in Slots : step[s] = "claimed" =>
        /\ running[s] \notin processed
        /\ \A t \in Slots : step[t] = "claimed" /\ running[t] = running[s] => s = t

JobsInv ==
    /\ TypeOK
    /\ OwnerInv /\ UniqueInv /\ BuryInv /\ FreeInv /\ AttemptsInv /\ ClaimInv
    /\ ExactlyOnce

-------------------------------------------------------------------------------

LEMMA JobsInvInit == Init => JobsInv
<1> SUFFICES ASSUME Init PROVE JobsInv
  OBVIOUS
<1>1. TypeOK
  BY JobsAssumption DEF Init, TypeOK, Steps, Jobs
<1>2. OwnerInv /\ UniqueInv /\ BuryInv /\ FreeInv /\ AttemptsInv /\ ClaimInv
  BY JobsAssumption
  DEF Init, OwnerInv, UniqueInv, BuryInv, FreeInv, AttemptsInv, ClaimInv, Jobs
<1>3. ExactlyOnce
  BY DEF Init, ExactlyOnce
<1> QED
  BY <1>1, <1>2, <1>3 DEF JobsInv

\* A job added again, or for the first time, has all its attempts.
LEMMA AddStep ==
    ASSUME JobsInv, NEW j \in Jobs, Add(j), UNCHANGED rows
    PROVE  JobsInv'
<1>1. TypeOK'
  BY JobsAssumption DEF JobsInv, TypeOK, Add, queueVars, runVars, outcome, graves
<1>2. OwnerInv' /\ UniqueInv' /\ FreeInv' /\ ClaimInv' /\ ExactlyOnce'
  BY DEF JobsInv, TypeOK, OwnerInv, UniqueInv, FreeInv, ClaimInv, ExactlyOnce, Add,
         queueVars, runVars, outcome, graves
<1>3. BuryInv' /\ AttemptsInv'
  BY JobsAssumption
  DEF JobsInv, TypeOK, BuryInv, AttemptsInv, Add, queueVars, runVars, outcome, graves
<1> QED
  BY <1>1, <1>2, <1>3 DEF JobsInv

\* A run starts on a job that nobody holds the lock of.
LEMMA TakeStep ==
    ASSUME JobsInv, NEW s \in Slots, NEW j \in Jobs, Take(s, j), UNCHANGED rows
    PROVE  JobsInv'
<1> USE DEF JobsInv, Take, outcome, graves
<1>1. TypeOK'
  BY JobsAssumption DEF TypeOK, Steps, Jobs
<1>2. OwnerInv' /\ UniqueInv'
  BY DEF TypeOK, OwnerInv, UniqueInv
<1>3. BuryInv' /\ FreeInv' /\ AttemptsInv'
  BY DEF TypeOK, BuryInv, FreeInv, AttemptsInv
<1>4. ClaimInv' /\ ExactlyOnce'
  BY DEF TypeOK, ClaimInv, ExactlyOnce
<1> QED
  BY <1>1, <1>2, <1>3, <1>4

\* Freeing slots disturbs no conjunct when the job of each stays as it is.
LEMMA FreeStep ==
    ASSUME JobsInv, NEW S \in SUBSET Slots, Free(S),
           UNCHANGED <<rows, processed, effects>>,
           job' \in [Jobs -> {"none", "waiting", "active", "done", "failed"}],
           made' \in [Jobs -> 0..MaxAttempts], stalls' \in [Jobs -> 0..MaxStalls],
           (dead \subseteq Jobs /\ unburied \subseteq Jobs)',
           \A t \in Slots \ S : running[t] \in Jobs /\ (mine[t] \/ step[t] = "bury")
               => job'[running[t]] = job[running[t]],
           AttemptsInv'
    PROVE  JobsInv'
<1> USE DEF JobsInv, Free
<1>1. TypeOK'
  BY JobsAssumption DEF TypeOK, Steps
<1>2. OwnerInv' /\ UniqueInv'
  BY DEF TypeOK, OwnerInv, UniqueInv, FreeInv
<1>3. BuryInv' /\ FreeInv'
  BY DEF TypeOK, BuryInv, FreeInv
<1>4. ClaimInv' /\ ExactlyOnce'
  BY DEF TypeOK, ClaimInv, ExactlyOnce
<1> QED
  BY <1>1, <1>2, <1>3, <1>4

\* The steps of a run up to its return: the claim, the handler and the throw.
LEMMA RunStep ==
    ASSUME JobsInv, NEW s \in Slots, UNCHANGED rows,
           Skip(s) \/ Claim(s) \/ Handle(s) \/ Throw(s)
    PROVE  JobsInv'
<1> USE DEF JobsInv, queueVars, graves, outcome, GoOn
<1>1. running[s] \in Jobs
  BY DEF TypeOK, Skip, Claim, Handle, Throw
<1>2. TypeOK'
  <2>1. CASE Skip(s) \/ Throw(s)
    BY <1>1, <2>1 DEF TypeOK, Steps, Skip, Throw
  <2>2. CASE Claim(s)
    BY <1>1, <2>2 DEF TypeOK, Steps, Claim
  <2>3. CASE Handle(s)
    BY <1>1, <2>3 DEF TypeOK, Steps, Handle
  <2> QED
    BY <2>1, <2>2, <2>3
<1>3. OwnerInv' /\ UniqueInv' /\ BuryInv' /\ FreeInv' /\ AttemptsInv'
  BY DEF TypeOK, OwnerInv, UniqueInv, BuryInv, FreeInv, AttemptsInv, Skip, Claim, Handle, Throw
<1>4. ClaimInv' /\ ExactlyOnce'
  <2>1. CASE Skip(s)
    BY <2>1 DEF TypeOK, ClaimInv, ExactlyOnce, Skip
  <2>2. CASE Claim(s)
    BY <2>2 DEF TypeOK, ClaimInv, ExactlyOnce, Claim, Claimed, ClaimPending
  <2>3. CASE Handle(s)
    BY <1>1, <2>3 DEF TypeOK, ClaimInv, ExactlyOnce, Handle
  <2>4. CASE Throw(s)
    BY <2>4 DEF TypeOK, ClaimInv, ExactlyOnce, Throw
  <2> QED
    BY <2>1, <2>2, <2>3, <2>4
<1> QED
  BY <1>2, <1>3, <1>4

\* A run that ends settles its job only as the holder of the lock.
LEMMA CompleteStep ==
    ASSUME JobsInv, NEW s \in Slots, Complete(s), UNCHANGED rows
    PROVE  JobsInv'
<1>1. running[s] \in Jobs
  BY DEF JobsInv, TypeOK, Complete
<1>2. /\ job' \in [Jobs -> {"none", "waiting", "active", "done", "failed"}]
      /\ made' \in [Jobs -> 0..MaxAttempts] /\ stalls' \in [Jobs -> 0..MaxStalls]
      /\ (dead \subseteq Jobs /\ unburied \subseteq Jobs)'
  BY <1>1 DEF JobsInv, TypeOK, Complete, graves
<1>3. AttemptsInv'
  BY <1>1 DEF JobsInv, TypeOK, AttemptsInv, Complete
<1>4. \A t \in Slots \ {s} : running[t] \in Jobs /\ (mine[t] \/ step[t] = "bury")
         => job'[running[t]] = job[running[t]]
  BY <1>1 DEF JobsInv, TypeOK, OwnerInv, UniqueInv, BuryInv, Complete
<1>5. Free({s}) /\ UNCHANGED <<processed, effects>>
  BY DEF Complete, outcome
<1> QED
  BY <1>2, <1>3, <1>4, <1>5, FreeStep

LEMMA FailAttemptStep ==
    ASSUME JobsInv, NEW s \in Slots, FailAttempt(s), UNCHANGED rows
    PROVE  JobsInv'
<1>1. running[s] \in Jobs /\ job[running[s]] = "active" /\ mine[s]
  BY DEF JobsInv, TypeOK, OwnerInv, FailAttempt
<1>2. made[running[s]] \in 0..(MaxAttempts - 1)
  BY <1>1, JobsAssumption DEF JobsInv, TypeOK, AttemptsInv
<1>3. \A t \in Slots \ {s} : running[t] \in Jobs /\ (mine[t] \/ step[t] = "bury")
         => running[t] # running[s]
  BY <1>1 DEF JobsInv, TypeOK, OwnerInv, UniqueInv, BuryInv, FailAttempt
<1>4. CASE ~LastAttempt(running[s])
  <2>1. /\ job' = [job EXCEPT ![running[s]] = "waiting"]
        /\ made' = [made EXCEPT ![running[s]] = @ + 1]
        /\ Free({s}) /\ UNCHANGED <<stalls, processed, effects, dead, unburied>>
    BY <1>4 DEF FailAttempt, outcome, graves
  <2>2. /\ job' \in [Jobs -> {"none", "waiting", "active", "done", "failed"}]
        /\ made' \in [Jobs -> 0..MaxAttempts] /\ stalls' \in [Jobs -> 0..MaxStalls]
        /\ (dead \subseteq Jobs /\ unburied \subseteq Jobs)'
    BY <1>1, <1>2, <2>1, JobsAssumption DEF JobsInv, TypeOK
  <2>3. AttemptsInv'
    BY <1>1, <1>2, <1>4, <2>1, JobsAssumption DEF JobsInv, TypeOK, AttemptsInv, LastAttempt
  <2>4. \A t \in Slots \ {s} : running[t] \in Jobs /\ (mine[t] \/ step[t] = "bury")
           => job'[running[t]] = job[running[t]]
    BY <1>1, <1>3, <2>1 DEF JobsInv, TypeOK
  <2> QED
    BY <2>1, <2>2, <2>3, <2>4, FreeStep
<1>5. CASE LastAttempt(running[s])
  <2>1. /\ job' = [job EXCEPT ![running[s]] = "failed"]
        /\ made' = [made EXCEPT ![running[s]] = @ + 1]
        /\ step' = [step EXCEPT ![s] = "bury"]
        /\ UNCHANGED <<running, mine, stalls, processed, effects, dead, unburied>>
    BY <1>5 DEF FailAttempt, outcome, graves
  <2>2. TypeOK'
    BY <1>1, <1>2, <2>1, JobsAssumption DEF JobsInv, TypeOK, Steps, Jobs
  <2>3. OwnerInv' /\ UniqueInv' /\ FreeInv' /\ BuryInv'
    BY <1>1, <1>3, <2>1 DEF JobsInv, TypeOK, OwnerInv, UniqueInv, FreeInv, BuryInv
  <2>4. AttemptsInv' /\ ClaimInv' /\ ExactlyOnce'
    BY <1>1, <2>1 DEF JobsInv, TypeOK, AttemptsInv, ClaimInv, ExactlyOnce
  <2> QED
    BY <2>2, <2>3, <2>4 DEF JobsInv
<1> QED
  BY <1>4, <1>5

\* The ends of a run that leave every job where it is.
LEMMA EndStep ==
    ASSUME JobsInv, UNCHANGED rows,
           \/ \E s \in Slots : FailUnowned(s) \/ Bury(s) \/ BuryFails(s)
           \/ \E S \in SUBSET Slots : Lose(S)
    PROVE  JobsInv'
<1>1. \A s \in Slots : step[s] = "bury" => running[s] \in Jobs
  BY DEF JobsInv, TypeOK
<1>2. PICK S \in SUBSET Slots :
         /\ Free(S)
         /\ UNCHANGED <<job, made, stalls, processed, effects>>
         /\ dead' \subseteq Jobs /\ unburied' \subseteq Jobs
  <2>1. ASSUME NEW s \in Slots, FailUnowned(s) \/ Bury(s) \/ BuryFails(s)
        PROVE  /\ Free({s}) /\ UNCHANGED <<job, made, stalls, processed, effects>>
               /\ dead' \subseteq Jobs /\ unburied' \subseteq Jobs
    BY <1>1, <2>1
    DEF JobsInv, TypeOK, FailUnowned, Bury, BuryFails, queueVars, outcome, graves
  <2>2. ASSUME NEW T \in SUBSET Slots, Lose(T)
        PROVE  /\ Free(T) /\ UNCHANGED <<job, made, stalls, processed, effects>>
               /\ dead' \subseteq Jobs /\ unburied' \subseteq Jobs
    BY <1>1, <2>2 DEF JobsInv, TypeOK, Lose, queueVars, outcome, graves
  <2> QED
    BY <2>1, <2>2
<1>3. AttemptsInv'
  BY <1>2 DEF JobsInv, AttemptsInv
<1>4. /\ job' \in [Jobs -> {"none", "waiting", "active", "done", "failed"}]
      /\ made' \in [Jobs -> 0..MaxAttempts] /\ stalls' \in [Jobs -> 0..MaxStalls]
  BY <1>2 DEF JobsInv, TypeOK
<1> QED
  BY <1>2, <1>3, <1>4, FreeStep

\* BullMQ's own steps: a stall takes the lock from whoever holds it.
LEMMA QueueStep ==
    ASSUME JobsInv, NEW j \in Jobs, Stall(j) \/ Remove(j), UNCHANGED rows
    PROVE  JobsInv'
<1> USE DEF JobsInv, queueVars, runVars, outcome, graves
<1>1. CASE Stall(j)
  <2>1. TypeOK'
    BY <1>1, JobsAssumption DEF TypeOK, Stall
  <2>2. OwnerInv' /\ UniqueInv' /\ FreeInv' /\ BuryInv'
    BY <1>1, ZenonT(60) DEF TypeOK, OwnerInv, UniqueInv, FreeInv, BuryInv, Stall
  <2>3. AttemptsInv' /\ ClaimInv' /\ ExactlyOnce'
    BY <1>1 DEF TypeOK, AttemptsInv, ClaimInv, ExactlyOnce, Stall
  <2> QED
    BY <2>1, <2>2, <2>3
<1>2. CASE Remove(j)
  <2>1. TypeOK'
    BY <1>2 DEF TypeOK, Remove
  <2>2. OwnerInv' /\ UniqueInv' /\ FreeInv' /\ BuryInv'
    BY <1>2 DEF TypeOK, OwnerInv, UniqueInv, FreeInv, BuryInv, Remove
  <2>3. AttemptsInv' /\ ClaimInv' /\ ExactlyOnce'
    BY <1>2 DEF TypeOK, AttemptsInv, ClaimInv, ExactlyOnce, Remove
  <2> QED
    BY <2>1, <2>2, <2>3
<1> QED
  BY <1>1, <1>2

LEMMA JobsInvNext == JobsInv /\ [Next]_vars => JobsInv'
<1> SUFFICES ASSUME JobsInv, [Next]_vars PROVE JobsInv'
  OBVIOUS
<1>1. ASSUME NEW j \in Jobs, Add(j), UNCHANGED rows PROVE JobsInv'
  BY <1>1, AddStep
<1>2. ASSUME NEW s \in Slots, Run(s), UNCHANGED rows PROVE JobsInv'
  BY <1>2, TakeStep, RunStep, CompleteStep, FailAttemptStep, EndStep DEF Run, Progress
<1>3. CASE Queue /\ UNCHANGED rows
  BY <1>3, QueueStep DEF Queue
<1>4. ASSUME NEW S \in SUBSET Slots, Lose(S), UNCHANGED rows PROVE JobsInv'
  BY <1>4, EndStep
<1>5. CASE rows' \in SUBSET Events /\ UNCHANGED jobVars
  BY <1>5
  DEF JobsInv, TypeOK, OwnerInv, UniqueInv, BuryInv, FreeInv, AttemptsInv, ClaimInv, ExactlyOnce,
      jobVars, queueVars, runVars, outcome, graves
<1>6. CASE UNCHANGED vars
  BY <1>6
  DEF JobsInv, TypeOK, OwnerInv, UniqueInv, BuryInv, FreeInv, AttemptsInv, ClaimInv, ExactlyOnce,
      vars, jobVars, queueVars, runVars, outcome, graves
<1> QED
  BY <1>1, <1>2, <1>3, <1>4, <1>5, <1>6 DEF Next

THEOREM JobsInvariant == Spec => []JobsInv
  BY JobsInvInit, JobsInvNext, PTL DEF Spec

-------------------------------------------------------------------------------

\* Every variable keeps its type; with AttemptsInv, no job is tried more often than
\* DEFAULT_ATTEMPTS allows, whoever takes it after a stall.
THEOREM JobsTypeCorrect == Spec => []TypeOK
<1>1. JobsInv => TypeOK
  BY DEF JobsInv
<1> QED
  BY <1>1, JobsInvariant, PTL

\* For any number of consumers, events, runs, redeliveries, stalls and crashes, a
\* consumer's effects for an event are committed exactly when its claim is.
THEOREM EffectsOnce == Spec => []ExactlyOnce
<1>1. JobsInv => ExactlyOnce
  BY DEF JobsInv
<1> QED
  BY <1>1, JobsInvariant, PTL

-------------------------------------------------------------------------------
(* What was added is not forgotten. *)

\* A run returns when its pair is processed, and only then is a job done; the id of a job
\* that is run is taken; and a job whose id is taken is accounted for.
KeptInv ==
    /\ \A s \in Slots : step[s] = "returned" => running[s] \in processed
    /\ \A s \in Slots : step[s] # "idle" => job[running[s]] # "none"
    /\ \A j \in Jobs : job[j] = "done" => j \in processed
    /\ AddedIsKept

LEMMA KeptInit == Init => KeptInv
BY JobsAssumption DEF Init, KeptInv, AddedIsKept, Accounted, Jobs

\* What is handled stays handled.
LEMMA ProcessedGrows ==
    ASSUME JobsInv, [Next]_vars
    PROVE  processed \subseteq processed'
BY DEF Next, vars, jobVars, Add, Take, Run, Progress, Skip, Claim, Handle, Throw, Complete,
       FailAttempt, FailUnowned, Bury, BuryFails, Queue, Stall, Remove, Lose, outcome, GoOn

\* No step loses a job that is accounted for, nor a run's return.
LEMMA KeptStep ==
    ASSUME JobsInv, JobsInv', KeptInv, [Next]_vars
    PROVE  /\ KeptInv'
           /\ \A j \in Jobs : Accounted(j) => Accounted(j)'
<1>1. processed \subseteq processed'
  BY ProcessedGrows
<1>2. \A j \in Jobs : effects[j] = 1 => effects'[j] = 1
  BY <1>1 DEF JobsInv, ExactlyOnce
<1>3. \A j \in Jobs : j \in processed' => effects'[j] = 1
  BY DEF JobsInv, ExactlyOnce
<1> DEFINE Kept ==
      /\ \A s \in Slots : step'[s] = "returned" => running'[s] \in processed'
      /\ \A s \in Slots : step'[s] # "idle" => job'[running'[s]] # "none"
      /\ \A j \in Jobs : job'[j] = "done" => j \in processed'
      /\ \A j \in Jobs : job'[j] # "none" => job[j] # "none" \/ Accounted(j)'
      /\ \A j \in Jobs : Accounted(j) => Accounted(j)'
<1> SUFFICES Kept
  BY DEF KeptInv, AddedIsKept
<1> USE DEF JobsInv, KeptInv, AddedIsKept, Accounted, queueVars, runVars, outcome, graves
<1>4. ASSUME NEW j \in Jobs, Add(j) PROVE Kept
  BY <1>2, <1>4 DEF TypeOK, Add
<1>5. ASSUME NEW s \in Slots, NEW j \in Jobs, Take(s, j) PROVE Kept
  BY <1>2, <1>5 DEF TypeOK, Take
<1>6. ASSUME NEW s \in Slots, Skip(s) \/ Claim(s) \/ Handle(s) \/ Throw(s) PROVE Kept
  BY <1>1, <1>2, <1>6 DEF TypeOK, Skip, Claimed, Claim, Handle, Throw, GoOn
<1>7. ASSUME NEW s \in Slots, Complete(s) PROVE Kept
  BY <1>1, <1>2, <1>3, <1>7 DEF TypeOK, Complete, Free
<1>8. ASSUME NEW s \in Slots, FailAttempt(s) PROVE Kept
  <2>1. running[s] \in Jobs /\ step[s] = "threw"
    BY <1>8 DEF TypeOK, FailAttempt
  <2>2. CASE ~LastAttempt(running[s])
    <3>1. job' = [job EXCEPT ![running[s]] = "waiting"] /\ Free({s})
          /\ UNCHANGED <<processed, effects, dead, unburied>>
      BY <1>8, <2>2 DEF FailAttempt
    <3> QED
      BY <1>2, <2>1, <3>1 DEF TypeOK, Free
  <2>3. CASE LastAttempt(running[s])
    <3>1. job' = [job EXCEPT ![running[s]] = "failed"] /\ step' = [step EXCEPT ![s] = "bury"]
          /\ UNCHANGED <<running, processed, effects, dead, unburied>>
      BY <1>8, <2>3 DEF FailAttempt
    <3> QED
      BY <1>2, <2>1, <3>1 DEF TypeOK
  <2> QED
    BY <2>2, <2>3
<1>9. ASSUME NEW s \in Slots, FailUnowned(s) \/ Bury(s) \/ BuryFails(s) PROVE Kept
  <2>1. CASE FailUnowned(s)
    BY <1>2, <2>1 DEF TypeOK, FailUnowned, Free
  <2>2. CASE Bury(s)
    BY <1>2, <2>2 DEF TypeOK, Bury, Free
  <2>3. CASE BuryFails(s)
    BY <1>2, <2>3 DEF TypeOK, BuryFails, Free
  <2> QED
    BY <1>9, <2>1, <2>2, <2>3
<1>10. ASSUME NEW j \in Jobs, Stall(j) PROVE Kept
  BY <1>1, <1>2, <1>10 DEF TypeOK, Stall
<1>11. ASSUME NEW j \in Jobs, Remove(j) PROVE Kept
  BY <1>1, <1>2, <1>3, <1>11 DEF TypeOK, Remove, ExactlyOnce
<1>12. ASSUME NEW S \in SUBSET Slots, Lose(S) PROVE Kept
  BY <1>1, <1>2, <1>12 DEF TypeOK, Lose, Free
<1>13. CASE UNCHANGED jobVars
  BY <1>13 DEF jobVars
<1> QED
  BY <1>4, <1>5, <1>6, <1>7, <1>8, <1>9, <1>10, <1>11, <1>12, <1>13
  DEF Next, Run, Progress, Queue, vars

\* An added job is accounted for, whether its id was free or not.
LEMMA AddAccounts ==
    ASSUME JobsInv, KeptInv, NEW j \in Jobs, Add(j)
    PROVE  Accounted(j)'
BY DEF JobsInv, TypeOK, KeptInv, AddedIsKept, Accounted, Add, queueVars, runVars, outcome, graves

\* In every run of the queue and its workers, a job that was ever added and has not been
\* freed again is handled, waiting, running, buried or failed for good.
THEOREM JobsKept == Spec => []AddedIsKept
<1>1. Init => KeptInv
  BY KeptInit
<1>2. JobsInv /\ JobsInv' /\ KeptInv /\ [Next]_vars => KeptInv'
  BY KeptStep
<1>3. KeptInv => AddedIsKept
  BY DEF KeptInv
<1> QED
  BY <1>1, <1>2, <1>3, JobsInvariant, PTL DEF Spec
===============================================================================
