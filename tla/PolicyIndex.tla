------------------------------ MODULE PolicyIndex ------------------------------
(***************************************************************************)
(* The versions of one policy document (ai/knowledge/): an admin writes    *)
(* them, an ai-index job of each reads, embeds and swaps it in, and the    *)
(* assistant searches the passages of the active one.  No transaction is   *)
(* open while the provider is called, so jobs of several versions, a       *)
(* deletion and second runs of a job meet at the swap.                     *)
(*                                                                         *)
(* A version is its place in the order of creation (isNewer).  What the    *)
(* provider answers and what a file holds is external.                     *)
(***************************************************************************)
EXTENDS Naturals, FiniteSets

CONSTANTS
    Versions,            \* a set of numbers: greater is newer
    Runs, NoRun,         \* slots of the workers, and none
    MaxWaits,            \* MAX_SCAN_WAITS
    MaxAttempts,         \* INDEX_ATTEMPTS
    MaxStalls,           \* BullMQ's maxStalledCount
    MaxFaults            \* bound: failures in a behaviour

VARIABLES
    deleted,             \* ai_policy_documents.deleted_at is set
    state,               \* ai_policy_versions.status
    source,              \* source[v]: a text or clean file, or what is known of the file
    passages,            \* the versions that ai_policy_chunks has passages of
    job, tries, stalls,  \* the job of v, attemptsMade, stalls
    waits,               \* job.data.waits
    owner,               \* the run that holds the lock of v's job
    run,                 \* run[r]: its step, and the version and job as it read them
    lost,                \* ghost: versions whose job ended without a chance to say so
    faults

PolicyConstants ==
    /\ Versions \subseteq Nat /\ NoRun \notin Runs /\ MaxAttempts \in Nat \ {0}
    /\ MaxWaits \in Nat /\ MaxStalls \in Nat /\ MaxFaults \in Nat

jobVars == <<job, tries, stalls, waits, owner>>
vars    == <<deleted, state, source, passages, jobVars, run, lost, faults>>

\* Unfit: blocked by the scan, or nothing that can be made passages of.
Sources == {"none", "readable", "unfit", "pending"}
Idle    == [step |-> "idle", of |-> 0, tries |-> 0, waits |-> 0, source |-> "none"]

Init ==
    /\ deleted = FALSE /\ passages = {}
    /\ state = [v \in Versions |-> "none"] /\ source = [v \in Versions |-> "none"]
    /\ job = [v \in Versions |-> "none"] /\ tries = [v \in Versions |-> 0]
    /\ stalls = [v \in Versions |-> 0] /\ waits = [v \in Versions |-> 0]
    /\ owner = [v \in Versions |-> NoRun]
    /\ run = [r \in Runs |-> Idle] /\ lost = {} /\ faults = 0

Fault == faults < MaxFaults /\ faults' = faults + 1

Active == {v \in Versions : state[v] = "active"}

-------------------------------------------------------------------------------
(* The admins' and the scanner's side. *)

\* created_at is when the transaction began, the document's lock comes later: any order.
CreateVersion(v) ==
    /\ state[v] = "none" /\ ~deleted
    /\ state' = [state EXCEPT ![v] = "processing"]
    /\ \E s \in {"readable", "unfit", "pending"} : source' = [source EXCEPT ![v] = s]
    /\ UNCHANGED <<deleted, passages, jobVars, run, lost, faults>>

\* The event's consumer adds the job; the job id makes a retry of it add nothing.
Enqueue(v) ==
    /\ state[v] # "none" /\ job[v] = "none"
    /\ job' = [job EXCEPT ![v] = "queued"]
    /\ UNCHANGED <<deleted, state, source, passages, tries, stalls, waits, owner, run,
                   lost, faults>>

ScanEnds(v) ==
    /\ source[v] = "pending"
    /\ \E s \in {"readable", "unfit"} : source' = [source EXCEPT ![v] = s]
    /\ UNCHANGED <<deleted, state, passages, jobVars, run, lost, faults>>

RemoveDocument ==
    /\ \E v \in Versions : state[v] # "none"
    /\ ~deleted /\ deleted' = TRUE /\ passages' = {}
    /\ UNCHANGED <<state, source, jobVars, run, lost, faults>>

-------------------------------------------------------------------------------
(* AiIndexJob.run in a slot r. *)

documentVars == <<deleted, state, passages>>

At(r, step)    == run[r].step = step
GoTo(r, step)  == run' = [run EXCEPT ![r].step = step]

Take(r) ==
    /\ At(r, "idle")
    /\ \E v \in Versions :
          /\ job[v] = "queued" /\ job' = [job EXCEPT ![v] = "active"]
          /\ owner' = [owner EXCEPT ![v] = r]
          /\ run' = [run EXCEPT ![r] = [step |-> "read", of |-> v, tries |-> tries[v],
                                        waits |-> waits[v], source |-> "none"]]
    /\ UNCHANGED <<documentVars, source, tries, stalls, waits, lost, faults>>

Read(r) ==
    /\ At(r, "read")
    /\ LET v == run[r].of IN
        run' = [run EXCEPT ![r].source = source[v],
                           ![r].step = IF state[v] = "processing" /\ ~deleted
                                       THEN "prepare" ELSE "returned"]
    /\ UNCHANGED <<documentVars, source, jobVars, lost, faults>>

\* What was read of the file and the polls is not looked at again.
Prepared(r, step) == run' = [run EXCEPT ![r].step = step, ![r].source = "none", ![r].waits = 0]

Newer(v) == \E a \in Active : a > v

\* job.updateData and job.moveToDelayed, which throws without the job's lock.
Delay(r) ==
    LET v == run[r].of IN
    /\ waits' = [waits EXCEPT ![v] = run[r].waits + 1]
    /\ \/ owner[v] = r /\ run' = [run EXCEPT ![r] = Idle]
          /\ job' = [job EXCEPT ![v] = "queued"] /\ owner' = [owner EXCEPT ![v] = NoRun]
       \/ owner[v] # r /\ GoTo(r, "error") /\ UNCHANGED <<job, owner>>
    /\ UNCHANGED <<tries, stalls>>

Prepare(r) ==
    /\ At(r, "prepare")
    /\ LET s == run[r].source IN
        \/ Newer(run[r].of) /\ Prepared(r, "supersede") /\ UNCHANGED jobVars
        \/ /\ ~Newer(run[r].of)
           /\ \/ s = "pending" /\ run[r].waits < MaxWaits /\ Delay(r)
              \/ /\ s = "unfit" \/ (s = "pending" /\ run[r].waits >= MaxWaits)
                 /\ Prepared(r, "fail") /\ UNCHANGED jobVars
              \/ s = "readable" /\ Prepared(r, "embed") /\ UNCHANGED jobVars
    /\ UNCHANGED <<documentVars, source, lost, faults>>

\* The provider answers; or the tenant's AI is paused, or is now, as its key was refused.
Embed(r) ==
    /\ At(r, "embed")
    /\ GoTo(r, "swap") \/ GoTo(r, "fail")
    /\ UNCHANGED <<documentVars, source, jobVars, lost, faults>>

\* Under the document's and the version's locks.
Open(v) == ~deleted /\ state[v] = "processing"

Activate(v) ==
    /\ state' = [w \in Versions |->
                    IF w = v THEN "active" ELSE IF w \in Active THEN "superseded" ELSE state[w]]
    /\ passages' = {v}

\* Mutant for NewestServed: the order is looked at before the embedding only.
SwapAnyway(r) ==
    /\ At(r, "swap") /\ GoTo(r, "returned")
    /\ IF Open(run[r].of) THEN Activate(run[r].of) ELSE UNCHANGED <<state, passages>>
    /\ UNCHANGED <<deleted, source, jobVars, lost, faults>>
Swap(r) ==
    /\ At(r, "swap") /\ GoTo(r, "returned")
    /\ LET v == run[r].of IN
        CASE ~Open(v)             -> UNCHANGED <<state, passages>>
          [] Open(v) /\ Newer(v)  -> /\ state' = [state EXCEPT ![v] = "superseded"]
                                     /\ UNCHANGED passages
          [] Open(v) /\ ~Newer(v) -> Activate(v)
    /\ UNCHANGED <<deleted, source, jobVars, lost, faults>>

\* supersede() and fail(): what is still open is closed, then the run returns or throws on.
Close(r, how, next) ==
    LET v == run[r].of IN
    /\ GoTo(r, next)
    /\ state' = IF Open(v) THEN [state EXCEPT ![v] = how] ELSE state
    /\ UNCHANGED <<deleted, passages, source, jobVars, lost, faults>>

Supersede(r) == At(r, "supersede") /\ Close(r, "superseded", "returned")
Fail(r)      == At(r, "fail") /\ Close(r, "failed", "returned")
FailLast(r)  == At(r, "failLast") /\ Close(r, "failed", "threw")

LastAttempt(r) == run[r].tries + 1 >= MaxAttempts

\* The catch: an error on the last attempt marks the version, any other is for the retry.
Catch(r) ==
    /\ At(r, "error")
    /\ GoTo(r, IF LastAttempt(r) THEN "failLast" ELSE "threw")
    /\ UNCHANGED <<documentVars, source, jobVars, lost, faults>>

\* The database, the storage or the provider fails: inside the try, or outside of it.
Throw(r) ==
    /\ Fault
    /\ \/ run[r].step \in {"prepare", "embed", "swap", "supersede"} /\ GoTo(r, "error")
          /\ UNCHANGED lost
       \/ run[r].step \in {"read", "fail", "failLast"} /\ GoTo(r, "threw")
          /\ lost' = IF LastAttempt(r) THEN lost \cup {run[r].of} ELSE lost
    /\ UNCHANGED <<documentVars, source, jobVars>>

Indexing(r) ==
    \/ Read(r) \/ Prepare(r) \/ Embed(r) \/ Swap(r)
    \/ Supersede(r) \/ Fail(r) \/ FailLast(r) \/ Catch(r)

-------------------------------------------------------------------------------
(* The job around it, as in EventJobs. *)

\* The run ends.  Without the job's lock it settles nothing.
End(r) ==
    /\ run[r].step \in {"returned", "threw"} /\ run' = [run EXCEPT ![r] = Idle]
    /\ LET v == run[r].of IN
        IF owner[v] # r THEN UNCHANGED jobVars
        ELSE /\ owner' = [owner EXCEPT ![v] = NoRun] /\ UNCHANGED <<stalls, waits>>
             /\ \/ At(r, "returned") /\ job' = [job EXCEPT ![v] = "done"] /\ UNCHANGED tries
                \/ /\ At(r, "threw") /\ tries' = [tries EXCEPT ![v] = @ + 1]
                   /\ job' = [job EXCEPT ![v] = IF LastAttempt(r) THEN "failed" ELSE "queued"]
    /\ UNCHANGED <<documentVars, source, lost, faults>>

Crash(r) ==
    /\ ~At(r, "idle") /\ Fault /\ run' = [run EXCEPT ![r] = Idle]
    /\ owner' = [v \in Versions |-> IF owner[v] = r THEN NoRun ELSE owner[v]]
    /\ UNCHANGED <<documentVars, source, job, tries, stalls, waits, lost>>

\* The job's lock expires, with its run dead or merely slow: requeued, or failed for good.
Stall(v) ==
    /\ job[v] = "active"
    /\ IF owner[v] = NoRun THEN UNCHANGED faults ELSE Fault
    /\ owner' = [owner EXCEPT ![v] = NoRun]
    /\ \/ /\ stalls[v] < MaxStalls /\ stalls' = [stalls EXCEPT ![v] = @ + 1]
          /\ job' = [job EXCEPT ![v] = "queued"] /\ UNCHANGED lost
       \/ /\ stalls[v] = MaxStalls /\ job' = [job EXCEPT ![v] = "failed"]
          /\ lost' = lost \cup {v} /\ UNCHANGED stalls
    /\ UNCHANGED <<documentVars, source, tries, waits, run>>

Next ==
    \/ \E v \in Versions : CreateVersion(v) \/ Enqueue(v) \/ ScanEnds(v) \/ Stall(v)
    \/ RemoveDocument
    \/ \E r \in Runs : Take(r) \/ Indexing(r) \/ Throw(r) \/ End(r) \/ Crash(r)

Spec == Init /\ [][Next]_vars

-------------------------------------------------------------------------------
(* Properties. *)

TypeOK ==
    /\ deleted \in BOOLEAN
    /\ state \in [Versions -> {"none", "processing", "active", "failed", "superseded"}]
    /\ source \in [Versions -> Sources] /\ passages \subseteq Versions
    /\ job \in [Versions -> {"none", "queued", "active", "done", "failed"}]
    /\ tries \in [Versions -> 0..MaxAttempts] /\ stalls \in [Versions -> 0..MaxStalls]
    /\ waits \in [Versions -> 0..MaxWaits] /\ owner \in [Versions -> Runs \cup {NoRun}]
    /\ run \in [Runs -> [step : {"idle", "read", "prepare", "embed", "swap", "supersede", "fail",
                                 "error", "failLast", "returned", "threw"},
                         of : Versions \cup {0}, tries : 0..MaxAttempts, waits : 0..MaxWaits,
                         source : Sources]]
    /\ lost \subseteq Versions /\ faults \in 0..MaxFaults

\* A version does not stay "processing" once its job is over (policy-index.job.ts:156), unless
\* the mark itself failed on the last attempt or the job was given up as stalled.
Concluded(v) == job[v] \in {"done", "failed"} /\ state[v] = "processing" => deleted \/ v \in lost

\* Whatever order versions are embedded in, what is searched is the passages of the newest
\* version that was ever good, of it alone, and of none after a deletion: a slow embedding of
\* an older text never replaces a newer one (policy-index.job.ts:243); and every version comes
\* to an end with its job.
NewestServed ==
    /\ passages = IF deleted THEN {} ELSE Active
    /\ \A a \in Active, v \in Versions : state[v] \in {"active", "superseded"} => v <= a
    /\ \A v \in Versions : Concluded(v)
===============================================================================
