---------------------------- MODULE BrowserServices ----------------------------
(***************************************************************************)
(* What a browser is served from a cache: its session and the socket that  *)
(* was opened with it, and the counts of its views.  The components share  *)
(* no state; here they get constants and variables of their own, and their *)
(* properties names that runs and theorems use.                            *)
(***************************************************************************)
EXTENDS Naturals

CONSTANTS
    Lookups, IdleLimit, TouchInterval, CacheTtl, SessionFaults,
    Changes, ViewWorkers, Requests, NoRequest, NoCount, ViewFaults

VARIABLES
    session, cache, lookup, socket, revocation, deadTicks, sessionFaults,
    committed, handling, process, window, timer, flushing, hint, counts, request, current, shown,
    recounted, lostHint, stale, viewFaults

Session ==
    INSTANCE Sessions WITH
        Idle <- IdleLimit, MaxFaults <- SessionFaults,
        row <- session, dead <- deadTicks, faults <- sessionFaults

Views ==
    INSTANCE ViewCounts WITH
        Workers <- ViewWorkers, MaxFaults <- ViewFaults,
        step <- handling, cache <- counts, dropped <- recounted, lost <- lostHint,
        faults <- viewFaults

ASSUME BrowserAssumption == Session!SessionConstants /\ Views!ViewConstants

\* A revoked session is accepted no longer than a cache entry lives (session.service.ts:150).
RevokedStops == Session!RevokedStops
\* A socket does not outlive its session for good (session-expiry.ts:11).
OverIsClosed == Session!OverIsClosed

\* When nothing is under way the viewer sees the count as it is (counts-notifier.ts:27).
ShowsLatest == Views!ShowsLatest
===============================================================================
