-------------------------- MODULE EventPipelineProofs --------------------------
(***************************************************************************)
(* Proofs about EventPipeline.  It is a composition: each of its steps is  *)
(* a step of the relay and a step of the queue, or leaves one of them      *)
(* alone, so the invariants proved of each hold of the whole.  What only   *)
(* the two together guarantee, that the consumers of a published event are *)
(* not forgotten, follows from both, and so does the refinement of the     *)
(* delivery that EventDelivery promises.                                   *)
(***************************************************************************)
EXTENDS EventPipeline, OutboxRelayProofs

JP == INSTANCE EventJobsProofs WITH rows <- written \ pruned

LEMMA QueueAssumption == JP!JobsAssumption
BY PipelineAssumption DEF JP!JobsAssumption

-------------------------------------------------------------------------------
(* A step of the pipeline is a step of the relay, and one of the queue. *)

LEMMA RelaySteps == [PNext]_allVars => [Next]_vars
<1> SUFFICES ASSUME [PNext]_allVars PROVE [Next]_vars
  OBVIOUS
<1> USE DEF Next, Publish, Elect, Break, Transact
<1>1. ASSUME NEW S \in SUBSET Events, Append(S) PROVE Next
  BY <1>1
<1>2. ASSUME NEW w \in Workers,
             RelayStep(w) \/ StartProcess(w) \/ Lead(w) \/ CrashProcess(w) \/ RelayBreak(w)
      PROVE  Next
  <2>1. ASSUME NEW j \in J!Jobs, EnqueueJob(w, j) PROVE Next
    BY <2>1 DEF EnqueueJob, J!Jobs
  <2> QED
    BY <1>2, <2>1 DEF RelayStep, StartProcess, Lead, CrashProcess, RelayBreak
<1>3. CASE UNCHANGED vars
  BY <1>3
<1> QED
  BY <1>1, <1>2, <1>3 DEF PNext, allVars, RunJob, TakeJob, StallJob, RemoveJob

\* The relay's steps change the events table within Events only.
LEMMA RowsStep == TypeOK' => (written \ pruned)' \in SUBSET Events
BY DEF TypeOK

LEMMA SameJobs == J!Jobs = JP!Jobs
BY DEF J!Jobs, JP!Jobs

\* Both instances of EventJobs have the same actions.
LEMMA SameActions ==
    /\ \A j \in JP!Jobs : (J!Add(j) => JP!Add(j)) /\ (J!Stall(j) => JP!Stall(j))
                          /\ (J!Remove(j) => JP!Remove(j))
    /\ \A s \in Slots : J!Progress(s) => JP!Progress(s)
    /\ \A s \in Slots, j \in JP!Jobs : J!Take(s, j) => JP!Take(s, j)
    /\ \A S \in SUBSET Slots : J!Lose(S) => JP!Lose(S)
BY DEF J!Add, JP!Add, J!Stall, JP!Stall, J!Remove, JP!Remove, J!Take, JP!Take, J!Lose, JP!Lose,
       J!Progress, JP!Progress, J!Skip, JP!Skip, J!Claim, JP!Claim, J!Handle, JP!Handle,
       J!Throw, JP!Throw, J!Complete, JP!Complete, J!FailAttempt, JP!FailAttempt,
       J!FailUnowned, JP!FailUnowned, J!Bury, JP!Bury, J!BuryFails, JP!BuryFails,
       J!Claimed, JP!Claimed, J!ClaimPending, JP!ClaimPending, J!LastAttempt, JP!LastAttempt,
       J!GoOn, JP!GoOn, J!Free, JP!Free, J!queueVars, JP!queueVars, J!runVars, JP!runVars,
       J!outcome, JP!outcome, J!graves, JP!graves

LEMMA QueueSteps ==
    ASSUME TypeOK', [PNext]_allVars
    PROVE  [JP!Next]_(JP!vars)
<1> USE DEF JP!Next
<1>1. CASE UNCHANGED queueing
  <2>1. UNCHANGED JP!jobVars
    BY <1>1 DEF queueing, JP!jobVars, JP!queueVars, JP!runVars, JP!outcome, JP!graves
  <2> QED
    BY <2>1, RowsStep
<1>2. ASSUME NEW w \in Workers, NEW j \in J!Jobs, EnqueueJob(w, j) PROVE JP!Next
  <2>1. UNCHANGED (written \ pruned)
    BY <1>2 DEF EnqueueJob, Enqueue, tableVars
  <2> QED
    BY <1>2, <2>1, SameJobs, SameActions DEF EnqueueJob
<1>3. ASSUME NEW w \in Workers, CrashProcess(w) PROVE JP!Next
  <2>1. UNCHANGED (written \ pruned)
    BY <1>3 DEF CrashProcess, Crash, tableVars
  <2>2. SlotsOf(w) \in SUBSET Slots
    BY DEF SlotsOf
  <2> QED
    BY <1>3, <2>1, <2>2, SameActions DEF CrashProcess
<1>4. ASSUME NEW s \in Slots, RunJob(s) PROVE JP!Next
  <2>1. UNCHANGED (written \ pruned)
    BY <1>4 DEF RunJob, vars, tableVars
  <2> QED
    BY <1>4, <2>1, SameActions DEF RunJob, JP!Run
<1>5. ASSUME NEW s \in Slots, NEW j \in J!Jobs, TakeJob(s, j) PROVE JP!Next
  <2>1. UNCHANGED (written \ pruned)
    BY <1>5 DEF TakeJob, vars, tableVars
  <2> QED
    BY <1>5, <2>1, SameJobs, SameActions DEF TakeJob, JP!Run
<1>6. ASSUME NEW j \in J!Jobs, StallJob(j) \/ RemoveJob(j) PROVE JP!Next
  <2>1. UNCHANGED (written \ pruned)
    BY <1>6 DEF StallJob, RemoveJob, vars, tableVars
  <2> QED
    BY <1>6, <2>1, SameJobs, SameActions DEF StallJob, RemoveJob, JP!Queue
<1> QED
  BY <1>1, <1>2, <1>3, <1>4, <1>5, <1>6
  DEF PNext, allVars, RelayStep, StartProcess, Lead, RelayBreak

LEMMA QueueInit == PInit => JP!Init
BY DEF PInit, J!Init, JP!Init, Init, Log!Init, J!Jobs, JP!Jobs

-------------------------------------------------------------------------------
(* The invariant of the composition. *)

\* A job that the open transaction has added, and every job of a published event, is
\* accounted for in the queue.
AddedInv ==
    \A w \in Workers : pc[w] = "enqueue" =>
        \A j \in JobsOf(batch[w]) : j \in todo[w] \/ JP!Accounted(j)

PublishedInv == \A e \in Published : \A c \in Routes[e] : JP!Accounted(<<c, e>>)

PInv == Inv /\ JP!JobsInv /\ JP!KeptInv /\ AddedInv /\ PublishedInv

LEMMA PInvInit == PInit => PInv
<1> SUFFICES ASSUME PInit PROVE PInv
  OBVIOUS
<1>1. Inv
  BY InvInit DEF PInit
<1>2. JP!JobsInv /\ JP!KeptInv
  BY QueueInit, QueueAssumption, JP!JobsInvInit, JP!KeptInit
<1>3. AddedInv /\ PublishedInv
  BY DEF PInit, Init, AddedInv, PublishedInv, Published, Log!Init, Log!Published
<1> QED
  BY <1>1, <1>2, <1>3 DEF PInv

\* A step keeps every job accounted for that was.
LEMMA AccountedStays ==
    ASSUME PInv, [PNext]_allVars
    PROVE  /\ Inv' /\ JP!JobsInv' /\ JP!KeptInv'
           /\ \A j \in JP!Jobs : JP!Accounted(j) => JP!Accounted(j)'
<1>1. Inv'
  BY RelaySteps, InvNext DEF PInv
<1>2. [JP!Next]_(JP!vars)
  BY <1>1, QueueSteps DEF Inv
<1>3. JP!JobsInv'
  BY <1>2, QueueAssumption, JP!JobsInvNext DEF PInv
<1> QED
  BY <1>1, <1>2, <1>3, QueueAssumption, JP!KeptStep DEF PInv

\* A relay step that publishes nothing and adds nothing to an open transaction.
Calm ==
    /\ UNCHANGED seq
    /\ \A v \in Workers : pc'[v] = "enqueue" =>
          pc[v] = "enqueue" /\ batch'[v] = batch[v] /\ todo'[v] = todo[v]

LEMMA CalmStep ==
    ASSUME PInv, [PNext]_allVars, Calm
    PROVE  AddedInv' /\ PublishedInv'
<1>1. \A j \in JP!Jobs : JP!Accounted(j) => JP!Accounted(j)'
  BY AccountedStays
<1>2. \A v \in Workers : \A j \in JobsOf(batch[v]) : pc[v] = "enqueue" => j \in JP!Jobs
  BY DEF PInv, Inv, TypeOK, BatchInv, InTx, JobsOf, JP!Jobs, Members, Log!Members
<1>3. AddedInv'
  BY <1>1, <1>2 DEF Calm, PInv, AddedInv, JobsOf, Members, Log!Members
<1>4. PublishedInv'
  BY <1>1, RelayAssumption DEF Calm, PInv, PublishedInv, Published, Log!Published, JP!Jobs
<1> QED
  BY <1>3, <1>4

\* The jobs of a batch are added one by one, each before the next statement.
LEMMA EnqueueJobStep ==
    ASSUME PInv, [PNext]_allVars, NEW w \in Workers, NEW j \in J!Jobs, EnqueueJob(w, j)
    PROVE  AddedInv' /\ PublishedInv'
<1>1. \A i \in JP!Jobs : JP!Accounted(i) => JP!Accounted(i)'
  BY AccountedStays
<1>2. JP!Accounted(j)'
  BY SameJobs, SameActions, QueueAssumption, JP!AddAccounts DEF EnqueueJob, PInv
<1>3. \A v \in Workers : \A i \in JobsOf(batch[v]) : pc[v] = "enqueue" => i \in JP!Jobs
  BY DEF PInv, Inv, TypeOK, BatchInv, InTx, JobsOf, JP!Jobs, Members, Log!Members
<1>4. /\ UNCHANGED <<seq, pc, batch>>
      /\ todo' = [todo EXCEPT ![w] = @ \ {j}]
  BY DEF EnqueueJob, Enqueue, tableVars
<1>5. AddedInv'
  BY <1>1, <1>2, <1>3, <1>4 DEF PInv, Inv, TypeOK, AddedInv, JobsOf, Members, Log!Members
<1>6. PublishedInv'
  BY <1>1, <1>4, RelayAssumption DEF PInv, PublishedInv, Published, Log!Published, JP!Jobs
<1> QED
  BY <1>5, <1>6

\* The commit publishes a batch whose jobs have all been added.
LEMMA PublishStep ==
    ASSUME PInv, [PNext]_allVars, NEW w \in Workers, Committing(w)
    PROVE  AddedInv' /\ PublishedInv'
<1>1. \A j \in JP!Jobs : JP!Accounted(j) => JP!Accounted(j)'
  BY AccountedStays
<1>2. \A v \in Workers : \A j \in JobsOf(batch[v]) : pc[v] = "enqueue" => j \in JP!Jobs
  BY DEF PInv, Inv, TypeOK, BatchInv, InTx, JobsOf, JP!Jobs, Members, Log!Members
<1>3. AddedInv'
  BY <1>1, <1>2 DEF Committing, PInv, AddedInv, InTx, JobsOf, Members, Log!Members
<1>4. Published' \subseteq Published \cup Members(batch[w])
  BY CommitNumbers DEF PInv, Published, Log!Published
<1>5. \A e \in Members(batch[w]) : \A c \in Routes[e] : e \in Events => <<c, e>> \in JobsOf(batch[w])
  BY RelayAssumption DEF JobsOf
<1>6. \A j \in JobsOf(batch[w]) : JP!Accounted(j)'
  BY <1>1, <1>2 DEF Committing, PInv, AddedInv
<1>7. PublishedInv'
  BY <1>1, <1>4, <1>5, <1>6, RelayAssumption
  DEF PInv, PublishedInv, Published, Log!Published, JP!Jobs
<1> QED
  BY <1>3, <1>7

LEMMA NumberingStep ==
    ASSUME PInv, [PNext]_allVars, NEW w \in Workers, Number(w)
    PROVE  AddedInv' /\ PublishedInv'
<1>1. \A j \in JP!Jobs : JP!Accounted(j) => JP!Accounted(j)'
  BY AccountedStays
<1>2. \A v \in Workers : \A j \in JobsOf(batch[v]) : pc[v] = "enqueue" => j \in JP!Jobs
  BY DEF PInv, Inv, TypeOK, BatchInv, InTx, JobsOf, JP!Jobs, Members, Log!Members
<1>3. /\ UNCHANGED <<seq, batch>>
      /\ todo' = [todo EXCEPT ![w] = JobsOf(batch[w])]
      /\ pc' = [pc EXCEPT ![w] = "enqueue"]
  BY DEF Number, tableVars
<1>4. AddedInv'
  BY <1>1, <1>2, <1>3 DEF PInv, Inv, TypeOK, AddedInv, JobsOf, Members, Log!Members
<1>5. PublishedInv'
  BY <1>1, <1>3, RelayAssumption DEF PInv, PublishedInv, Published, Log!Published, JP!Jobs
<1> QED
  BY <1>4, <1>5

LEMMA PInvNext == PInv /\ [PNext]_allVars => PInv'
<1> SUFFICES ASSUME PInv, [PNext]_allVars PROVE PInv'
  OBVIOUS
<1>1. Inv' /\ JP!JobsInv' /\ JP!KeptInv'
  BY AccountedStays
<1>2. AddedInv' /\ PublishedInv'
  <2> USE DEF tableVars, electVars, txVars
  <2>0. TypeOK
    BY DEF PInv, Inv
  <2>1. ASSUME NEW S \in SUBSET Events, Append(S) PROVE Calm
    BY <2>1 DEF Append, Log!Write, Calm
  <2>2. ASSUME NEW w \in Workers, Transact(w)
        PROVE  Calm \/ Number(w) \/ Committing(w)
    <3>1. CASE Commit(w)
      BY <2>0, <3>1 DEF Commit, Committing, InTx, TypeOK
    <3>2. CASE Select(w) \/ LockRows(w) \/ ReadMax(w) \/ Emit(w) \/ BatchDone(w)
      BY <2>0, <3>2 DEF Select, LockRows, ReadMax, Emit, BatchDone, Calm, TypeOK
    <3>3. CASE NumberConflict(w) \/ Prune(w)
      BY <2>0, <3>3 DEF NumberConflict, Prune, FinishDrain, Calm, TypeOK
    <3> QED
      BY <2>2, <3>1, <3>2, <3>3 DEF Transact
  <2>3. ASSUME NEW w \in Workers, StartProcess(w) \/ Lead(w) \/ CrashProcess(w)
        PROVE  Calm
    BY <2>0, <2>3
    DEF StartProcess, Lead, CrashProcess, Start, TryLead, Wake, WakeUp, StepDown, Stopped, Crash,
        Calm, TypeOK
  <2>4. ASSUME NEW w \in Workers, RelayBreak(w) PROVE Calm \/ Committing(w)
    <3>1. CASE CommitUnanswered(w)
      BY <2>0, <3>1 DEF CommitUnanswered, FinishDrain, Committing, InTx, TypeOK
    <3>2. CASE Fail(w) \/ LoseLock(w) \/ Shutdown(w)
      BY <2>0, <3>2 DEF Fail, FinishDrain, LoseLock, Shutdown, Calm, TypeOK
    <3> QED
      BY <2>4, <3>1, <3>2 DEF RelayBreak
  <2>5. CASE UNCHANGED vars
    <3>1. Calm
      BY <2>5 DEF vars, Calm
    <3> QED
      BY <3>1, CalmStep
  <2> QED
    BY <2>1, <2>2, <2>3, <2>4, <2>5, CalmStep, EnqueueJobStep, PublishStep, NumberingStep
    DEF PNext, allVars, RelayStep, RunJob, TakeJob, StallJob, RemoveJob
<1> QED
  BY <1>1, <1>2 DEF PInv

LEMMA PInvariance == PSpec => []PInv
BY PInvInit, PInvNext, PTL DEF PSpec

-------------------------------------------------------------------------------
(* The pipeline keeps the promise of EventDelivery. *)

\* What the promise needs beside PInv: the jobs still to be added are the batch's, and no
\* queue has ever been given a job of an event that is not committed.
SourceInv ==
    /\ \A w \in Workers : pc[w] = "enqueue" => todo[w] \subseteq JobsOf(batch[w])
    /\ \A j \in JP!Jobs : job[j] # "none" => j[2] \in written

LEMMA SourceInit == PInit => SourceInv
BY DEF PInit, Init, J!Init, SourceInv, JP!Jobs, J!Jobs

\* What an open transaction adds is of a committed event that is not published yet.
LEMMA AddsUnpublished ==
    ASSUME PInv, SourceInv, NEW w \in Workers, NEW j, pc[w] = "enqueue", j \in todo[w]
    PROVE  j \in JP!Jobs /\ j[2] \in written /\ seq[j[2]] = 0
<1>1. j \in JobsOf(batch[w])
  BY DEF SourceInv
<1>2. /\ Members(batch[w]) \subseteq written
      /\ \A e \in Members(batch[w]) : seq[e] = 0
      /\ written \subseteq Events
  BY DEF PInv, Inv, TypeOK, BatchInv, InTx
<1> QED
  BY <1>1, <1>2 DEF JobsOf, JP!Jobs

\* Only an added job's id becomes taken.
LEMMA TakenByAdd ==
    ASSUME PInv, [PNext]_allVars, NEW j \in JP!Jobs, job'[j] # "none", job[j] = "none"
    PROVE  \E w \in Workers : EnqueueJob(w, j)
<1> USE DEF J!queueVars
<1>0. /\ job \in [JP!Jobs -> {"none", "waiting", "active", "done", "failed"}]
      /\ \A s \in Slots : step[s] # "idle" => running[s] \in JP!Jobs /\ job[running[s]] # "none"
  BY DEF PInv, JP!JobsInv, JP!TypeOK, JP!KeptInv
<1>1. job' # job
  OBVIOUS
<1>2. ASSUME NEW w \in Workers, NEW i \in J!Jobs, EnqueueJob(w, i)
      PROVE  EnqueueJob(w, j)
  <2>1. i = j
    BY <1>0, <1>2, SameJobs DEF EnqueueJob, J!Add
  <2> QED
    BY <1>2, <2>1
<1>3. ASSUME NEW s \in Slots, RunJob(s) PROVE FALSE
  <2>1. CASE J!Complete(s)
    BY <1>0, <2>1 DEF J!Complete
  <2>2. CASE J!FailAttempt(s)
    BY <1>0, <2>2 DEF J!FailAttempt
  <2>3. CASE ~J!Complete(s) /\ ~J!FailAttempt(s)
    BY <1>1, <1>3, <2>3
    DEF RunJob, J!Progress, J!Skip, J!Claim, J!Handle, J!Throw, J!FailUnowned, J!Bury,
        J!BuryFails, J!GoOn
  <2> QED
    BY <2>1, <2>2, <2>3
<1>4. ASSUME NEW s \in Slots, NEW i \in J!Jobs, TakeJob(s, i) PROVE FALSE
  BY <1>0, <1>4, SameJobs DEF TakeJob, J!Take
<1>5. ASSUME NEW i \in J!Jobs, StallJob(i) \/ RemoveJob(i) PROVE FALSE
  BY <1>0, <1>5, SameJobs DEF StallJob, RemoveJob, J!Stall, J!Remove
<1>6. ASSUME NEW w \in Workers, CrashProcess(w) PROVE FALSE
  BY <1>1, <1>6 DEF CrashProcess, J!Lose
<1>7. ~UNCHANGED queueing
  BY <1>1 DEF queueing
<1> QED
  BY <1>2, <1>3, <1>4, <1>5, <1>6, <1>7
  DEF PNext, allVars, RelayStep, StartProcess, Lead, RelayBreak

LEMMA SourceNext ==
    ASSUME PInv, SourceInv, [PNext]_allVars
    PROVE  SourceInv'
<1>0. TypeOK
  BY DEF PInv, Inv
<1>1. written \subseteq written'
  <2>1. [Next]_vars
    BY RelaySteps
  <2> QED
    BY <2>1 DEF Next, Append, Log!Write, Publish, Transact, Select, LockRows, ReadMax, Number,
                NumberConflict, Enqueue, Commit, Emit, BatchDone, Prune, Elect, Start, TryLead,
                Wake, StepDown, Stopped, Break, Fail, CommitUnanswered, LoseLock, Crash, Shutdown,
                vars, tableVars
<1>2. ASSUME NEW j \in JP!Jobs, job'[j] # "none" PROVE j[2] \in written'
  <2>1. CASE job[j] # "none"
    BY <1>1, <2>1 DEF SourceInv
  <2>2. CASE job[j] = "none"
    <3>1. PICK w \in Workers : EnqueueJob(w, j)
      BY <1>2, <2>2, TakenByAdd
    <3> QED
      BY <1>1, <3>1, AddsUnpublished DEF EnqueueJob, Enqueue
  <2> QED
    BY <2>1, <2>2
<1>3. ASSUME NEW v \in Workers, pc'[v] = "enqueue" PROVE todo'[v] \subseteq JobsOf(batch'[v])
  <2> DEFINE Kept == \/ /\ pc[v] = "enqueue" /\ batch'[v] = batch[v]
                        /\ todo'[v] \subseteq todo[v]
                     \/ batch'[v] = batch[v] /\ todo'[v] = JobsOf(batch[v])
  <2> USE DEF tableVars, electVars, txVars
  <2>1. ASSUME NEW S \in SUBSET Events, Append(S) PROVE Kept
    BY <1>3, <2>1 DEF Append, Log!Write
  <2>2. ASSUME NEW w \in Workers, Transact(w) PROVE Kept
    <3>1. CASE Select(w) \/ LockRows(w) \/ ReadMax(w) \/ Emit(w) \/ BatchDone(w) \/ Commit(w)
      BY <1>0, <1>3, <3>1 DEF Select, LockRows, ReadMax, Emit, BatchDone, Commit, TypeOK
    <3>2. CASE NumberConflict(w) \/ Prune(w)
      BY <1>0, <1>3, <3>2 DEF NumberConflict, Prune, FinishDrain, TypeOK
    <3>3. CASE Number(w)
      BY <1>0, <1>3, <3>3 DEF Number, TypeOK
    <3> QED
      BY <2>2, <3>1, <3>2, <3>3 DEF Transact
  <2>3. ASSUME NEW w \in Workers, NEW j \in J!Jobs, EnqueueJob(w, j) PROVE Kept
    BY <1>0, <1>3, <2>3 DEF EnqueueJob, Enqueue, TypeOK
  <2>4. ASSUME NEW w \in Workers, StartProcess(w) \/ Lead(w) \/ CrashProcess(w) PROVE Kept
    BY <1>0, <1>3, <2>4
    DEF StartProcess, Lead, CrashProcess, Start, TryLead, Wake, WakeUp, StepDown, Stopped, Crash,
        TypeOK
  <2>5. ASSUME NEW w \in Workers, RelayBreak(w) PROVE Kept
    BY <1>0, <1>3, <2>5
    DEF RelayBreak, Fail, CommitUnanswered, FinishDrain, LoseLock, Shutdown, TypeOK
  <2>6. ASSUME UNCHANGED vars PROVE Kept
    BY <1>3, <2>6 DEF vars
  <2>7. Kept
    BY <2>1, <2>2, <2>3, <2>4, <2>5, <2>6
    DEF PNext, allVars, RelayStep, RunJob, TakeJob, StallJob, RemoveJob
  <2> QED
    BY <1>3, <2>7 DEF SourceInv, JobsOf, Members, Log!Members
<1> QED
  BY <1>2, <1>3 DEF SourceInv

\* What the queue's invariants say of the mapped state.
LEMMA MappedState ==
    ASSUME PInv
    PROVE  /\ J!Jobs = Delivery!Jobs /\ JP!Jobs = Delivery!Jobs
           /\ job \in [Delivery!Jobs -> {"none", "waiting", "active", "done", "failed"}]
           /\ effects \in [Delivery!Jobs -> Nat]
           /\ running \in [Slots -> Delivery!Jobs \cup {NoJob}]
           /\ step \in [Slots -> J!Steps]
           /\ \A s \in Slots : step[s] # "idle" =>
                 running[s] \in Delivery!Jobs /\ job[running[s]] # "none"
           /\ \A j \in Delivery!Jobs : job[j] # "none" =>
                 effects[j] = 1 \/ j \in Pending \cup Failed
           /\ \A j \in Delivery!Jobs : effects[j] = IF j \in processed THEN 1 ELSE 0
<1>1. J!Jobs = Delivery!Jobs /\ JP!Jobs = Delivery!Jobs
  BY DEF J!Jobs, JP!Jobs, Delivery!Jobs
<1>2. /\ JP!TypeOK
      /\ \A s \in Slots : step[s] # "idle" => running[s] \in JP!Jobs /\ job[running[s]] # "none"
      /\ JP!AddedIsKept /\ JP!ExactlyOnce
  BY DEF PInv, JP!JobsInv, JP!KeptInv, JP!TypeOK
<1>3. \A j \in Delivery!Jobs : job[j] # "none" => effects[j] = 1 \/ j \in Pending \cup Failed
  BY <1>1, <1>2 DEF JP!AddedIsKept, JP!Accounted, Pending, Failed
<1> QED
  BY <1>1, <1>2, <1>3 DEF JP!TypeOK, JP!ExactlyOnce, J!Steps, JP!Steps

\* The steps of the queue and its runs.
LEMMA QueueDelivers ==
    ASSUME PInv, SourceInv, UNCHANGED <<written, seq>>
    PROVE  /\ \A s \in Slots : J!Progress(s) => [Delivery!Next]_(Delivery!deliveryVars)
           /\ \A s \in Slots, j \in J!Jobs :
                 J!Take(s, j) => UNCHANGED <<Pending, effects, Failed>>
           /\ \A j \in J!Jobs : J!Stall(j) => [Delivery!Next]_(Delivery!deliveryVars)
           /\ \A j \in J!Jobs : J!Remove(j) => UNCHANGED <<Pending, effects, Failed>>
           /\ \A S \in SUBSET Slots : J!Lose(S) => UNCHANGED <<Pending, effects, Failed>>
           /\ \A j \in J!Jobs : J!Add(j) =>
                 UNCHANGED <<effects, Failed>> /\ Pending' \in {Pending, Pending \cup {j}}
<1> DEFINE Jobs == Delivery!Jobs
<1> USE DEF J!queueVars, J!runVars, J!outcome, J!graves, J!Steps
<1>0. /\ J!Jobs = Jobs /\ JP!Jobs = Jobs
      /\ job \in [Jobs -> {"none", "waiting", "active", "done", "failed"}]
      /\ effects \in [Jobs -> Nat]
      /\ running \in [Slots -> Jobs \cup {NoJob}] /\ step \in [Slots -> J!Steps]
      /\ \A s \in Slots : step[s] # "idle" => running[s] \in Jobs /\ job[running[s]] # "none"
      /\ \A j \in Jobs : job[j] # "none" => effects[j] = 1 \/ j \in Pending \cup Failed
      /\ \A j \in Jobs : effects[j] = IF j \in processed THEN 1 ELSE 0
  BY MappedState
<1>P. Pending = {j \in Jobs : job[j] \in {"waiting", "active"}}
      /\ Pending' = {j \in Jobs : job'[j] \in {"waiting", "active"}}
  BY <1>0 DEF Pending, J!Jobs, Delivery!Jobs
<1>F. /\ Failed = dead \cup unburied
                  \cup {j \in Jobs : \E s \in Slots : running[s] = j /\ step[s] = "bury"}
      /\ Failed' = dead' \cup unburied'
                  \cup {j \in Jobs : \E s \in Slots : running'[s] = j /\ step'[s] = "bury"}
  BY <1>0 DEF Failed, J!Jobs, Delivery!Jobs
<1>V. UNCHANGED <<written, Published>>
  BY DEF Published, Log!Published
<1> HIDE DEF Jobs
<1>D. Jobs = Delivery!Jobs
  BY DEF Jobs
<1>1. ASSUME NEW s \in Slots, J!Progress(s) PROVE [Delivery!Next]_(Delivery!deliveryVars)
  <2> DEFINE Same == UNCHANGED <<Pending, effects, Failed>>
  <2>0. Same => [Delivery!Next]_(Delivery!deliveryVars)
    BY <1>V DEF Delivery!deliveryVars
  <2>1. CASE J!Skip(s) \/ J!Claim(s) \/ J!Throw(s)
    <3>1. /\ UNCHANGED <<job, running, dead, unburied, effects>>
          /\ \E next \in {"returned", "claimed", "threw"} : step' = [step EXCEPT ![s] = next]
          /\ step[s] \in {"started", "claimed"}
      BY <2>1 DEF J!Skip, J!Claim, J!Throw, J!GoOn
    <3>2. \A t \in Slots : step'[t] = "bury" <=> step[t] = "bury"
      BY <1>0, <3>1
    <3> QED
      BY <1>P, <1>F, <2>0, <3>1, <3>2
  <2>2. CASE J!Handle(s)
    <3> DEFINE j == running[s]
    <3>1. /\ UNCHANGED <<job, running, dead, unburied>>
          /\ step' = [step EXCEPT ![s] = "returned"] /\ step[s] = "claimed"
          /\ effects' = [effects EXCEPT ![j] = @ + 1]
      BY <2>2 DEF J!Handle, J!GoOn
    <3>2. j \in Jobs /\ j \notin processed
      BY <1>0, <3>1 DEF PInv, JP!JobsInv, JP!ClaimInv
    <3>3. effects[j] = 0 /\ j \in Pending \cup Failed
      BY <1>0, <3>1, <3>2
    <3>4. effects' = [effects EXCEPT ![j] = 1]
      BY <3>1, <3>3
    <3>5. \A t \in Slots : step'[t] = "bury" <=> step[t] = "bury"
      BY <1>0, <3>1
    <3>6. UNCHANGED <<Pending, Failed>>
      BY <1>P, <1>F, <3>1, <3>5
    <3>7. Delivery!Handle(j)
      BY <1>V, <3>3, <3>4, <3>6 DEF Delivery!Handle
    <3> QED
      BY <1>D, <3>2, <3>7 DEF Delivery!Next
  <2>3. CASE J!Complete(s)
    <3> DEFINE j == running[s]
    <3>1. /\ UNCHANGED <<effects, dead, unburied>> /\ step[s] = "returned" /\ J!Free({s})
          /\ job' = [job EXCEPT ![j] = IF mine[s] THEN "done" ELSE @]
      BY <2>3 DEF J!Complete
    <3>2. j \in Jobs /\ j \in processed
      BY <1>0, <3>1 DEF PInv, JP!KeptInv
    <3>3. \A t \in Slots : (step'[t] = "bury" <=> step[t] = "bury")
                           /\ (step[t] = "bury" => running'[t] = running[t])
      BY <1>0, <3>1 DEF J!Free
    <3>4. Failed' = Failed
      BY <1>F, <3>1, <3>3
    <3>5. CASE mine[s]
      <4>1. job[j] = "active" /\ effects[j] = 1
        BY <1>0, <3>1, <3>2, <3>5 DEF PInv, JP!JobsInv, JP!OwnerInv
      <4>2. job' = [job EXCEPT ![j] = "done"]
        BY <3>1, <3>5
      <4>3. j \in Pending /\ Pending' = Pending \ {j}
        BY <1>0, <1>P, <3>2, <4>1, <4>2
      <4>4. Delivery!Settle(j)
        BY <1>V, <3>1, <3>4, <4>1, <4>3 DEF Delivery!Settle
      <4> QED
        BY <1>D, <3>2, <4>4 DEF Delivery!Next
    <3>6. CASE ~mine[s]
      <4>1. job' = job
        BY <1>0, <3>1, <3>2, <3>6
      <4> QED
        BY <1>P, <2>0, <3>1, <3>4, <4>1
    <3> QED
      BY <3>5, <3>6
  <2>4. CASE J!FailAttempt(s)
    <3> DEFINE j == running[s]
    <3>1. /\ UNCHANGED <<effects, dead, unburied>> /\ step[s] = "threw" /\ mine[s]
      BY <2>4 DEF J!FailAttempt
    <3>2. j \in Jobs /\ job[j] = "active"
      BY <1>0, <3>1 DEF PInv, JP!JobsInv, JP!OwnerInv
    <3>3. CASE ~J!LastAttempt(j)
      <4>1. job' = [job EXCEPT ![j] = "waiting"] /\ J!Free({s})
        BY <2>4, <3>3 DEF J!FailAttempt
      <4>2. \A t \in Slots : (step'[t] = "bury" <=> step[t] = "bury")
                             /\ (step[t] = "bury" => running'[t] = running[t])
        BY <1>0, <3>1, <4>1 DEF J!Free
      <4>3. Failed' = Failed
        BY <1>F, <3>1, <4>2
      <4>4. \A i \in Jobs : job'[i] \in {"waiting", "active"} <=> job[i] \in {"waiting", "active"}
        BY <1>0, <3>2, <4>1
      <4> QED
        BY <1>P, <2>0, <3>1, <4>3, <4>4
    <3>4. CASE J!LastAttempt(j)
      <4>1. job' = [job EXCEPT ![j] = "failed"] /\ step' = [step EXCEPT ![s] = "bury"]
            /\ running' = running
        BY <2>4, <3>4 DEF J!FailAttempt
      <4>2. j \in Pending /\ Pending' = Pending \ {j}
        BY <1>0, <1>P, <3>2, <4>1
      <4>3. \A t \in Slots : step'[t] = "bury" <=> t = s \/ step[t] = "bury"
        BY <1>0, <3>1, <4>1
      <4>4. Failed' = Failed \cup {j}
        BY <1>F, <3>1, <3>2, <4>1, <4>3
      <4>5. Delivery!GiveUp(j)
        BY <1>V, <3>1, <4>2, <4>4 DEF Delivery!GiveUp
      <4> QED
        BY <1>D, <3>2, <4>5 DEF Delivery!Next
    <3> QED
      BY <3>3, <3>4
  <2>5. CASE J!FailUnowned(s)
    <3>1. UNCHANGED <<job, effects, dead, unburied>> /\ step[s] = "threw" /\ J!Free({s})
      BY <2>5 DEF J!FailUnowned
    <3>2. \A t \in Slots : (step'[t] = "bury" <=> step[t] = "bury")
                           /\ (step[t] = "bury" => running'[t] = running[t])
      BY <1>0, <3>1 DEF J!Free
    <3> QED
      BY <1>P, <1>F, <2>0, <3>1, <3>2
  <2>6. CASE J!Bury(s) \/ J!BuryFails(s)
    <3>1. /\ UNCHANGED <<job, effects>> /\ step[s] = "bury" /\ J!Free({s})
          /\ dead' \cup unburied' = dead \cup unburied \cup {running[s]}
      BY <2>6 DEF J!Bury, J!BuryFails
    <3>2. /\ \A t \in Slots : step'[t] = "bury" <=> t # s /\ step[t] = "bury"
          /\ \A t \in Slots : t # s => running'[t] = running[t]
      BY <1>0, <3>1 DEF J!Free
    <3>3. Failed' = Failed
      BY <1>0, <1>F, <3>1, <3>2
    <3> QED
      BY <1>P, <2>0, <3>1, <3>3
  <2> QED
    BY <1>1, <2>1, <2>2, <2>3, <2>4, <2>5, <2>6 DEF J!Progress
<1>2. ASSUME NEW s \in Slots, NEW j \in J!Jobs, J!Take(s, j)
      PROVE  UNCHANGED <<Pending, effects, Failed>>
  <2>1. /\ UNCHANGED <<effects, dead, unburied>> /\ step[s] = "idle" /\ job[j] = "waiting"
        /\ job' = [job EXCEPT ![j] = "active"] /\ running' = [running EXCEPT ![s] = j]
        /\ step' = [step EXCEPT ![s] = "started"]
    BY <1>2 DEF J!Take
  <2>2. \A t \in Slots : (step'[t] = "bury" <=> step[t] = "bury")
                         /\ (step[t] = "bury" => running'[t] = running[t])
    BY <1>0, <2>1
  <2>3. \A i \in Jobs : job'[i] \in {"waiting", "active"} <=> job[i] \in {"waiting", "active"}
    BY <1>0, <2>1
  <2> QED
    BY <1>P, <1>F, <2>1, <2>2, <2>3
<1>3. ASSUME NEW j \in J!Jobs, J!Stall(j) PROVE [Delivery!Next]_(Delivery!deliveryVars)
  <2>1. UNCHANGED <<running, step, effects, dead>> /\ job[j] = "active" /\ j \in Jobs
    BY <1>0, <1>3 DEF J!Stall
  <2>2. CASE job' = [job EXCEPT ![j] = "waiting"] /\ unburied' = unburied
    <3>1. \A i \in Jobs : job'[i] \in {"waiting", "active"} <=> job[i] \in {"waiting", "active"}
      BY <1>0, <2>1, <2>2
    <3> QED
      BY <1>P, <1>F, <1>V, <2>1, <2>2, <3>1 DEF Delivery!deliveryVars
  <2>3. CASE job' = [job EXCEPT ![j] = "failed"] /\ unburied' = unburied \cup {j}
    <3>1. j \in Pending /\ Pending' = Pending \ {j}
      BY <1>0, <1>P, <2>1, <2>3
    <3>2. Failed' = Failed \cup {j}
      BY <1>F, <2>1, <2>3
    <3>3. Delivery!GiveUp(j)
      BY <1>V, <2>1, <3>1, <3>2 DEF Delivery!GiveUp
    <3> QED
      BY <1>D, <2>1, <3>3 DEF Delivery!Next
  <2> QED
    BY <1>3, <2>2, <2>3 DEF J!Stall
<1>4. ASSUME NEW j \in J!Jobs, J!Remove(j) PROVE UNCHANGED <<Pending, effects, Failed>>
  <2>1. /\ UNCHANGED <<running, step, effects, dead, unburied>> /\ job[j] \in {"done", "failed"}
        /\ job' = [job EXCEPT ![j] = "none"]
    BY <1>4 DEF J!Remove
  <2>2. \A i \in Jobs : job'[i] \in {"waiting", "active"} <=> job[i] \in {"waiting", "active"}
    BY <1>0, <2>1
  <2> QED
    BY <1>P, <1>F, <2>1, <2>2
<1>5. ASSUME NEW S \in SUBSET Slots, J!Lose(S) PROVE UNCHANGED <<Pending, effects, Failed>>
  <2>1. /\ UNCHANGED <<job, effects, dead>> /\ J!Free(S)
        /\ unburied' = unburied \cup {running[s] : s \in {t \in S : step[t] = "bury"}}
    BY <1>5 DEF J!Lose
  <2>2. \A t \in Slots : /\ step'[t] = "bury" <=> t \notin S /\ step[t] = "bury"
                         /\ t \notin S => running'[t] = running[t]
    BY <1>0, <2>1 DEF J!Free
  <2>3. Failed' = Failed
    BY <1>0, <1>F, <2>1, <2>2
  <2> QED
    BY <1>P, <2>1, <2>3
<1>6. ASSUME NEW j \in J!Jobs, J!Add(j)
      PROVE  UNCHANGED <<effects, Failed>> /\ Pending' \in {Pending, Pending \cup {j}}
  <2>1. UNCHANGED <<running, step, effects, dead, unburied>> /\ j \in Jobs
    BY <1>0, <1>6 DEF J!Add
  <2>2. Failed' = Failed
    BY <1>F, <2>1
  <2>3. Pending' \in {Pending, Pending \cup {j}}
    <3>1. CASE job' = job
      BY <1>P, <3>1
    <3>2. CASE job' = [job EXCEPT ![j] = "waiting"]
      BY <1>0, <1>P, <2>1, <3>2
    <3> QED
      BY <1>6, <3>1, <3>2 DEF J!Add
  <2> QED
    BY <2>1, <2>2, <2>3
<1> QED
  BY <1>1, <1>2, <1>3, <1>4, <1>5, <1>6

\* The commit of a batch publishes it, and its consumers are cared for.
LEMMA CommitDelivers ==
    ASSUME PInv, NEW w \in Workers, Committing(w), UNCHANGED queueing
    PROVE  Delivery!Publish(Members(batch[w]))
<1> DEFINE S == Members(batch[w])
<1>1. /\ first[w] > 0
      /\ \A i \in DOMAIN batch[w] : batch[w][i] \in Events /\ i \in Nat /\ i > 0
      /\ \A i \in DOMAIN batch[w] : seq'[batch[w][i]] = first[w] + i - 1
      /\ \A e \in Events \ S : seq'[e] = seq[e]
      /\ \A e \in S : seq[e] = 0
  BY CommitNumbers DEF PInv
<1>2. first[w] \in Nat /\ written \subseteq Events /\ seq \in [Events -> Nat]
  BY DEF PInv, Inv, TypeOK
<1>3. S # {} /\ S \subseteq written
  BY DEF PInv, Inv, BatchInv, InTx, Committing, Members, Log!Members
<1>4. S \subseteq written \ Published
  BY <1>1, <1>3 DEF Published, Log!Published
<1>5. Published' = Published \cup S
  <2>1. \A e \in S : seq'[e] > 0
    BY <1>1, <1>2 DEF Members, Log!Members
  <2> QED
    BY <1>1, <1>2, <1>3, <2>1 DEF Published, Log!Published
<1>6. \A e \in S : \A c \in Routes[e] : Delivery!CaredFor(<<c, e>>)
  <2> SUFFICES ASSUME NEW e \in S, NEW c \in Routes[e] PROVE Delivery!CaredFor(<<c, e>>)
    OBVIOUS
  <2>1. <<c, e>> \in JobsOf(batch[w]) /\ <<c, e>> \in JP!Jobs
    BY <1>2, <1>3, RelayAssumption DEF JobsOf, JP!Jobs
  <2>2. JP!Accounted(<<c, e>>)
    BY <2>1 DEF PInv, AddedInv, Committing
  <2> QED
    BY <2>1, <2>2, SameJobs DEF JP!Accounted, Delivery!CaredFor, Pending, Failed
<1>7. UNCHANGED <<written, Pending, effects, Failed>>
  BY DEF Committing, queueing, Pending, Failed, J!Jobs
<1> QED
  BY <1>3, <1>4, <1>5, <1>6, <1>7 DEF Delivery!Publish

LEMMA DeliveryStep ==
    ASSUME PInv, SourceInv, [PNext]_allVars
    PROVE  [Delivery!Next]_(Delivery!deliveryVars)
<1> DEFINE Step == [Delivery!Next]_(Delivery!deliveryVars)
<1> DEFINE Idle == UNCHANGED <<Pending, effects, Failed>>
<1> USE DEF tableVars, electVars, txVars
<1>0. TypeOK
  BY DEF PInv, Inv
<1>1. UNCHANGED queueing => Idle
  BY DEF queueing, Pending, Failed, J!Jobs
<1>2. UNCHANGED <<written, seq>> /\ Idle => Step
  BY DEF Delivery!deliveryVars, Published, Log!Published
<1>3. ASSUME NEW S \in SUBSET Events, Append(S), UNCHANGED queueing PROVE Step
  <2>1. Delivery!Write(S)
    BY <1>1, <1>3 DEF Append, Log!Write, Delivery!Write, Published, Log!Published
  <2> QED
    BY <2>1 DEF Delivery!Next
<1>4. ASSUME NEW w \in Workers, Committing(w), UNCHANGED queueing PROVE Step
  <2>1. Members(batch[w]) \in SUBSET Events
    BY <1>4, CommitNumbers DEF PInv, Members, Log!Members
  <2> QED
    BY <1>4, <2>1, CommitDelivers DEF Delivery!Next
<1>5. ASSUME NEW w \in Workers, Transact(w), UNCHANGED queueing PROVE Step
  <2>1. CASE Commit(w)
    <3>1. Committing(w)
      BY <1>0, <2>1 DEF Commit, Committing, InTx, TypeOK
    <3> QED
      BY <1>4, <1>5, <3>1
  <2>2. CASE ~Commit(w)
    BY <1>1, <1>2, <1>5, <2>2
    DEF Transact, Select, LockRows, ReadMax, Number, NumberConflict, Emit, BatchDone, Prune
  <2> QED
    BY <2>1, <2>2
<1>6. ASSUME NEW w \in Workers, NEW j \in J!Jobs, EnqueueJob(w, j) PROVE Step
  <2>1. j \in Delivery!Jobs /\ j[2] \in written /\ seq[j[2]] = 0
    BY <1>6, AddsUnpublished, MappedState DEF EnqueueJob, Enqueue
  <2>2. UNCHANGED <<written, seq>>
    BY <1>6 DEF EnqueueJob, Enqueue
  <2>3. UNCHANGED <<effects, Failed>> /\ Pending' \in {Pending, Pending \cup {j}}
    BY <1>6, <2>2, QueueDelivers DEF EnqueueJob
  <2>4. CASE Pending' = Pending
    BY <1>2, <2>2, <2>3, <2>4
  <2>5. CASE Pending' = Pending \cup {j}
    <3>1. Delivery!Add(j)
      BY <2>1, <2>2, <2>3, <2>5 DEF Delivery!Add, Published, Log!Published
    <3> QED
      BY <2>1, <3>1 DEF Delivery!Next
  <2> QED
    BY <2>3, <2>4, <2>5
<1>7. ASSUME NEW w \in Workers, CrashProcess(w) PROVE Step
  <2>1. UNCHANGED <<written, seq>> /\ J!Lose(SlotsOf(w)) /\ SlotsOf(w) \in SUBSET Slots
    BY <1>7 DEF CrashProcess, Crash, SlotsOf
  <2> QED
    BY <1>2, <2>1, QueueDelivers
<1>8. ASSUME NEW w \in Workers, StartProcess(w) \/ Lead(w) PROVE Step
  BY <1>1, <1>2, <1>8 DEF StartProcess, Lead, Start, TryLead, Wake, StepDown, Stopped
<1>9. ASSUME NEW w \in Workers, RelayBreak(w) PROVE Step
  <2>1. CASE CommitUnanswered(w)
    <3>1. Committing(w)
      BY <1>0, <2>1 DEF CommitUnanswered, FinishDrain, Committing, InTx, TypeOK
    <3> QED
      BY <1>4, <1>9, <3>1 DEF RelayBreak
  <2>2. CASE Fail(w) \/ LoseLock(w) \/ Shutdown(w)
    BY <1>1, <1>2, <1>9, <2>2 DEF RelayBreak, Fail, LoseLock, Shutdown
  <2> QED
    BY <1>9, <2>1, <2>2 DEF RelayBreak
<1>10. ASSUME NEW s \in Slots, RunJob(s) PROVE Step
  <2>1. UNCHANGED <<written, seq>> /\ J!Progress(s)
    BY <1>10 DEF RunJob, vars
  <2> QED
    BY <2>1, QueueDelivers
<1>11. ASSUME NEW s \in Slots, NEW j \in J!Jobs, TakeJob(s, j) PROVE Step
  <2>1. UNCHANGED <<written, seq>> /\ J!Take(s, j)
    BY <1>11 DEF TakeJob, vars
  <2> QED
    BY <1>2, <2>1, QueueDelivers
<1>12. ASSUME NEW j \in J!Jobs, StallJob(j) \/ RemoveJob(j) PROVE Step
  <2>1. UNCHANGED <<written, seq>> /\ (J!Stall(j) \/ J!Remove(j))
    BY <1>12 DEF StallJob, RemoveJob, vars
  <2> QED
    BY <1>2, <2>1, QueueDelivers
<1>13. ASSUME UNCHANGED allVars PROVE Step
  <2>1. UNCHANGED queueing /\ UNCHANGED <<written, seq>>
    BY <1>13 DEF allVars, vars
  <2> QED
    BY <1>1, <1>2, <2>1
<1> HIDE DEF Step
<1>14. Step
  BY <1>3, <1>5, <1>6, <1>7, <1>8, <1>9, <1>10, <1>11, <1>12, <1>13 DEF PNext, RelayStep
<1> QED
  BY <1>14 DEF Step

-------------------------------------------------------------------------------
(* The results. *)

\* The pipeline runs the relay as specified: whatever is proved of the relay alone, from
\* the dense numbers to the refinement of EventLog, holds with the queue beside it.
THEOREM PipelineRunsRelay == PSpec => Spec
<1>1. PInit => Init
  BY DEF PInit
<1> QED
  BY <1>1, RelaySteps, PTL DEF PSpec, Spec

\* In the whole pipeline, through relay failures, crashes that take a relay and its job
\* runs together, stalls and republished events, effects are committed with the claim.
THEOREM PipelineExactlyOnce == PSpec => []ExactlyOnce
<1>1. PInv => ExactlyOnce
  BY DEF PInv, JP!JobsInv, JP!ExactlyOnce, ExactlyOnce, J!ExactlyOnce, J!Jobs, JP!Jobs
<1> QED
  BY <1>1, PInvariance, PTL

\* A published event is never lost to a consumer: its job is handled, waits, runs, or has
\* failed for good, for any number of events, consumers, workers, slots and faults.
THEOREM PipelineForgetsNothing == PSpec => []NothingForgotten
<1>1. PInv => NothingForgotten
  BY DEF PInv, PublishedInv, NothingForgotten, J!Accounted, JP!Accounted
<1> QED
  BY <1>1, PInvariance, PTL

\* The queue's variables keep their types, and no attempt or stall exceeds its limit.
THEOREM PipelineJobsTyped == PSpec => []JobsTypeOK
<1>1. PInv => JobsTypeOK
  BY DEF PInv, JP!JobsInv, JP!TypeOK, JobsTypeOK, J!TypeOK, J!Jobs, JP!Jobs, J!Steps, JP!Steps
<1> QED
  BY <1>1, PInvariance, PTL

\* Seen from its ends the pipeline is the delivery EventDelivery promises, whatever happens
\* to relays, transactions, queues, runs and processes in between.
THEOREM PipelineKeepsPromise == PSpec => DeliverySpec
<1>1. PInit => Delivery!Init
  BY DEF PInit, Init, Log!Init, Log!Published, J!Init, J!Jobs, Delivery!Init, Delivery!Jobs,
         Published, Pending, Failed
<1>2. PInit => SourceInv
  BY SourceInit
<1>3. PInv /\ SourceInv /\ [PNext]_allVars => SourceInv'
  BY SourceNext
<1>4. PInv /\ SourceInv /\ [PNext]_allVars => [Delivery!Next]_(Delivery!deliveryVars)
  BY DeliveryStep
<1> QED
  BY <1>1, <1>2, <1>3, <1>4, PInvariance, PTL DEF PSpec, DeliverySpec, Delivery!Spec
===============================================================================
