---------------------------- MODULE AttachmentScan ----------------------------
(***************************************************************************)
(* One attachment: the upload (attachments.service.ts), the malware scan   *)
(* of the worker (scan.job.ts) and the retention purge.  Files are in a    *)
(* storage that no transaction covers; moving a file is a copy and a       *)
(* removal, as the S3 adapter does it (the local one renames: nothing      *)
(* comes between).                                                         *)
(*                                                                         *)
(* A scan is a run of an event job (see EventJobs).  Here the job is its   *)
(* attempts: a run may fail, die, or lose the job or its transaction and   *)
(* go on, and the job is then given to another run.                        *)
(***************************************************************************)
EXTENDS Naturals, FiniteSets

CONSTANTS
    Runs, NoRun,         \* slots of the worker, and none
    MaxAttempts,         \* DEFAULT_ATTEMPTS
    MaxStalls,           \* BullMQ's maxStalledCount
    MaxFaults            \* bound: failures in a behaviour

VARIABLES
    infected,            \* what the scanner says of the content
    upload,              \* how far upload() is
    row,                 \* attachments.scan_status, "none" before and "gone" after the row
    stored,              \* the areas that hold the file
    handled,             \* processed_events has the scan of this upload
    job, made, stalls,   \* the job in BullMQ, attemptsMade, stalls
    owner,               \* the run that holds the job's lock
    pc,                  \* how far each run is
    tx,                  \* runs with an open transaction: claim and row lock are theirs
    faults,
    purged              \* ghost: a purge deleted the files

ScanConstants ==
    /\ NoRun \notin Runs /\ MaxAttempts \in Nat \ {0}
    /\ MaxStalls \in Nat /\ MaxFaults \in Nat

jobVars == <<job, made, stalls, owner>>
vars    == <<infected, upload, row, stored, handled, jobVars, pc, tx, faults, purged>>

Areas == {"quarantine", "files"}
Busy  == {"claim", "read", "scan", "copy", "remove", "delete", "clean", "block"}

Init ==
    /\ infected \in BOOLEAN
    /\ upload = "idle" /\ row = "none" /\ stored = {} /\ handled = FALSE
    /\ job = "none" /\ made = 0 /\ stalls = 0 /\ owner = NoRun
    /\ pc = [r \in Runs |-> "idle"] /\ tx = {}
    /\ faults = 0 /\ purged = FALSE

Fault == faults < MaxFaults /\ faults' = faults + 1

-------------------------------------------------------------------------------
(* upload(): the file first, then the row and its event. *)

unchangedByUpload == <<infected, handled, made, stalls, owner, pc, tx, purged>>

Put ==
    /\ upload = "idle" /\ upload' = "put"
    /\ stored' = {"quarantine"}
    /\ UNCHANGED <<row, job, faults, unchangedByUpload>>

Inserted == row' = "pending" /\ job' = "waiting"

Insert ==
    /\ upload = "put" /\ upload' = "answered"
    /\ Inserted
    /\ UNCHANGED <<stored, faults, unchangedByUpload>>

\* The transaction throws: it was rolled back, or only its answer was lost.
InsertThrows ==
    /\ upload = "put" /\ upload' = "cleanup" /\ Fault
    /\ Inserted \/ UNCHANGED <<row, job>>
    /\ UNCHANGED <<stored, unchangedByUpload>>

\* catch: the file is deleted, and a failure to delete it is ignored.
Cleanup ==
    /\ upload = "cleanup" /\ upload' = "answered"
    /\ stored' \in {stored, stored \ {"quarantine"}}
    /\ UNCHANGED <<row, job, faults, unchangedByUpload>>

Uploading == Put \/ Insert \/ InsertThrows \/ Cleanup

-------------------------------------------------------------------------------
(* handle() in a run r. *)

unchangedByScan == <<infected, upload, jobVars, faults, purged>>

GoTo(r, next) == pc' = [pc EXCEPT ![r] = next]

\* The transaction ends without a commit, if it was still there.
ThrowNow(r) ==
    /\ GoTo(r, "threw")
    /\ tx' = tx \ {r}
    /\ UNCHANGED <<row, stored, handled, unchangedByScan>>

\* The claim of IdempotentHandler waits for a transaction that holds it; then the row is locked.
Claim(r) ==
    /\ pc[r] = "claim" /\ tx = {}
    /\ \/ handled /\ GoTo(r, "returned") /\ UNCHANGED <<tx, handled>>
       \/ ~handled /\ row # "pending" /\ GoTo(r, "returned") /\ handled' = TRUE /\ UNCHANGED tx
       \/ ~handled /\ row = "pending" /\ GoTo(r, "read") /\ tx' = {r} /\ UNCHANGED handled
    /\ UNCHANGED <<row, stored, unchangedByScan>>

\* Mutant for CleanIsScanned: a missing file is taken for a promoted one, unseen.
ReadTrusting(r) ==
    /\ pc[r] = "read"
    /\ GoTo(r, IF "quarantine" \in stored THEN "scan" ELSE "clean")
    /\ UNCHANGED <<row, stored, handled, tx, unchangedByScan>>
\* Mutant for UsesUpAttempts: only the quarantine is looked at.
ReadQuarantine(r) ==
    /\ pc[r] = "read"
    /\ \/ "quarantine" \notin stored /\ ThrowNow(r)
       \/ /\ "quarantine" \in stored /\ GoTo(r, "scan")
          /\ UNCHANGED <<row, stored, handled, tx, unchangedByScan>>
\* verdict(): the quarantined file, or the one an earlier attempt has promoted, or a throw.
Read(r) ==
    /\ pc[r] = "read"
    /\ \/ stored = {} /\ ThrowNow(r)
       \/ /\ stored # {}
          /\ GoTo(r, IF "quarantine" \in stored THEN "scan" ELSE "clean")
          /\ UNCHANGED <<row, stored, handled, tx, unchangedByScan>>

Scan(r) ==
    /\ pc[r] = "scan"
    /\ GoTo(r, IF infected THEN "delete" ELSE "copy")
    /\ UNCHANGED <<row, stored, handled, tx, unchangedByScan>>

\* promote(): CopyObject, which throws without its source, then DeleteObject.
Copy(r) ==
    /\ pc[r] = "copy"
    /\ \/ "quarantine" \notin stored /\ ThrowNow(r)
       \/ /\ "quarantine" \in stored
          /\ stored' = Areas /\ GoTo(r, "remove")
          /\ UNCHANGED <<row, handled, tx, unchangedByScan>>

Remove(r) ==
    /\ pc[r] = "remove" /\ GoTo(r, "clean")
    /\ stored' = stored \ {"quarantine"}
    /\ UNCHANGED <<row, handled, tx, unchangedByScan>>

Delete(r) ==
    /\ pc[r] = "delete" /\ GoTo(r, "block")
    /\ stored' = stored \ {"quarantine"}
    /\ UNCHANGED <<row, handled, tx, unchangedByScan>>

\* mark(), the event to the sender and the commit; a run without its transaction throws.
Mark(r) ==
    /\ pc[r] \in {"clean", "block"}
    /\ \/ r \notin tx /\ ThrowNow(r)
       \/ /\ r \in tx
          /\ row' = IF pc[r] = "clean" THEN "clean" ELSE "blocked"
          /\ handled' = TRUE /\ tx' = tx \ {r} /\ GoTo(r, "returned")
          /\ UNCHANGED <<stored, unchangedByScan>>

Scanning(r) == Claim(r) \/ Read(r) \/ Scan(r) \/ Copy(r) \/ Remove(r) \/ Delete(r) \/ Mark(r)

-------------------------------------------------------------------------------
(* The job around it. *)

unchangedByJob == <<infected, upload, row, stored, handled, purged>>

Take(r) ==
    /\ job = "waiting" /\ pc[r] = "idle"
    /\ job' = "active" /\ owner' = r /\ GoTo(r, "claim")
    /\ UNCHANGED <<made, stalls, tx, faults, unchangedByJob>>

\* The run ends.  Without the job's lock it settles nothing.
End(r) ==
    /\ pc[r] \in {"returned", "threw"} /\ GoTo(r, "idle")
    /\ \/ owner # r /\ UNCHANGED jobVars
       \/ /\ owner = r /\ pc[r] = "returned"
          /\ job' = "done" /\ owner' = NoRun /\ UNCHANGED <<made, stalls>>
       \/ /\ owner = r /\ pc[r] = "threw"
          /\ made' = made + 1 /\ owner' = NoRun
          /\ job' = IF made + 1 >= MaxAttempts THEN "failed" ELSE "waiting"
          /\ UNCHANGED stalls
    /\ UNCHANGED <<tx, faults, unchangedByJob>>

\* A statement or a storage call fails.
Throw(r) ==
    /\ pc[r] \in Busy /\ Fault /\ GoTo(r, "threw") /\ tx' = tx \ {r}
    /\ UNCHANGED <<jobVars, unchangedByJob>>

\* The connection of the transaction breaks: the run finds out at its next statement.
LoseTx(r) ==
    /\ r \in tx /\ Fault /\ tx' = tx \ {r}
    /\ UNCHANGED <<pc, jobVars, unchangedByJob>>

Crash(r) ==
    /\ pc[r] # "idle" /\ Fault
    /\ GoTo(r, "idle") /\ tx' = tx \ {r}
    /\ owner' = IF owner = r THEN NoRun ELSE owner
    /\ UNCHANGED <<job, made, stalls, unchangedByJob>>

\* The job's lock expires, with its run dead or merely slow: requeued, or failed for good.
Stall ==
    /\ job = "active"
    /\ IF owner = NoRun THEN UNCHANGED faults ELSE Fault
    /\ owner' = NoRun
    /\ \/ stalls < MaxStalls /\ stalls' = stalls + 1 /\ job' = "waiting"
       \/ stalls = MaxStalls /\ job' = "failed" /\ UNCHANGED stalls
    /\ UNCHANGED <<made, pc, tx, unchangedByJob>>

\* The retention purge of the ticket, months later, deletes both objects before its commit.
Purge ==
    /\ upload = "answered" /\ row \in {"clean", "blocked"}
    /\ \A r \in Runs : pc[r] = "idle"
    /\ stored' = {} /\ purged' = TRUE
    /\ \/ row' = "gone" /\ UNCHANGED faults
       \/ Fault /\ UNCHANGED row
    /\ UNCHANGED <<infected, upload, handled, jobVars, pc, tx>>

Working(r) == Take(r) \/ Scanning(r) \/ End(r) \/ Throw(r) \/ LoseTx(r) \/ Crash(r)

Next == Uploading \/ Stall \/ Purge \/ \E r \in Runs : Working(r)

Spec == Init /\ [][Next]_vars

-------------------------------------------------------------------------------
(* Properties. *)

TypeOK ==
    /\ infected \in BOOLEAN /\ handled \in BOOLEAN
    /\ upload \in {"idle", "put", "cleanup", "answered"}
    /\ row \in {"none", "pending", "clean", "blocked", "gone"}
    /\ stored \subseteq Areas
    /\ job \in {"none", "waiting", "active", "done", "failed"}
    /\ made \in 0..MaxAttempts /\ stalls \in 0..MaxStalls /\ owner \in Runs \cup {NoRun}
    /\ pc \in [Runs -> Busy \cup {"idle", "returned", "threw"}]
    /\ tx \subseteq Runs /\ faults \in 0..MaxFaults
    /\ purged \in BOOLEAN

\* A file that is shown as clean and offered for download (download.controller.ts:126) was
\* scanned clean and is in the area downloads are served from, whatever attempts before the
\* one that marked it had moved or deleted (scan.job.ts:127); only a purge that failed after
\* its deletions (retention.service.ts:98) leaves a clean row without its file.
CleanIsScanned == row = "clean" => ~infected /\ ("files" \in stored \/ purged)

\* A scan uses up its attempts only when there is no file left to scan: a failure at any
\* point, a promotion half done included, leaves the retry something it can finish with
\* (scan.job.ts:126).
UsesUpAttempts == made = MaxAttempts => stored = {}
===============================================================================
