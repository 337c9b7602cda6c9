------------------------------ MODULE FileServices ------------------------------
(***************************************************************************)
(* What the workers do with a file: the scan of an attachment and the      *)
(* index of a policy.  The components share no state; here they get        *)
(* constants and variables of their own, and their properties names that   *)
(* runs and theorems use.                                                  *)
(***************************************************************************)
EXTENDS Naturals

CONSTANTS
    FileRuns, NoFileRun,
    ScanAttempts, ScanStalls, ScanFaults,
    Versions, IndexWaits, IndexAttempts, IndexStalls, IndexFaults

VARIABLES
    infected, upload, attachment, stored, handled, scanJob, scanMade, scanStalls, scanOwner, scan,
    tx, scanFaults, purged,
    deleted, state, source, passages, indexJob, tries, indexStalls, polls, indexOwner, index,
    unmarked, indexFaults

Scan ==
    INSTANCE AttachmentScan WITH
        Runs <- FileRuns, NoRun <- NoFileRun, MaxAttempts <- ScanAttempts, MaxStalls <- ScanStalls,
        MaxFaults <- ScanFaults,
        row <- attachment, job <- scanJob, made <- scanMade, stalls <- scanStalls,
        owner <- scanOwner, pc <- scan, faults <- scanFaults

Index ==
    INSTANCE PolicyIndex WITH
        Runs <- FileRuns, NoRun <- NoFileRun, MaxWaits <- IndexWaits, MaxAttempts <- IndexAttempts,
        MaxStalls <- IndexStalls, MaxFaults <- IndexFaults,
        job <- indexJob, stalls <- indexStalls, waits <- polls, owner <- indexOwner, run <- index,
        lost <- unmarked, faults <- indexFaults

ASSUME FileAssumption == Scan!ScanConstants /\ Index!PolicyConstants

\* A file marked clean was scanned clean and is where downloads look (scan.job.ts:127).
CleanIsScanned == Scan!CleanIsScanned
\* A scan uses up its attempts only with no file left to scan (scan.job.ts:126).
UsesUpAttempts == Scan!UsesUpAttempts

\* The passages searched are those of the newest good version (policy-index.job.ts:243).
NewestServed == Index!NewestServed
===============================================================================
