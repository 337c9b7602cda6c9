------------------------------- MODULE ViewCounts -------------------------------
(***************************************************************************)
(* The count of one view for one viewer (views/): the API counts and       *)
(* caches it in Redis, the workers drop the cached count when a ticket     *)
(* changed and hint the viewer's web client, which fetches again.  Hints   *)
(* are throttled: the first of a window is appended with the consumer's    *)
(* transaction, later ones wait in a timer of their process.               *)
(*                                                                         *)
(* A count is the set of changes it has seen.  A consumer's run is that of *)
(* an event job (see EventJobs), retried until it commits; a hint that is  *)
(* committed reaches the client (see RealtimeSync).  Redis failing to read *)
(* or keep a count costs the cache only, and is left out.                  *)
(***************************************************************************)
EXTENDS FiniteSets, Naturals

CONSTANTS
    Changes,             \* ticket changes that matter to the viewer
    Workers,             \* worker processes
    Requests, NoRequest, \* slots for GET /views/counts, and none
    NoCount,             \* the cache has none
    MaxFaults            \* bound: failures in a behaviour

VARIABLES
    committed,           \* changes that are committed
    step, process,       \* the consumer's run of each change, and where it runs
    window,              \* the viewer's key of 500 ms in Redis
    timer, flushing,     \* workers with a trailing timer, with flush() under way
    hint,                \* a committed hint the client has not handled
    cache,               \* the cached count
    request,             \* request[q]: its step and what it counted
    current,             \* the request whose answer the client waits for
    shown,               \* the count on the viewer's screen
    dropped,             \* ghost: changes whose handling has dropped the cache
    lost, stale,         \* ghosts: a trailing hint was lost; an old count is cached
    faults

ViewConstants ==
    /\ (\A S \in SUBSET Changes : S # NoCount) /\ NoRequest \notin Requests /\ MaxFaults \in Nat

runVars    == <<step, process, window>>
trailing   == <<timer, flushing>>
clientVars == <<request, current, shown>>
vars       == <<committed, runVars, trailing, hint, cache, clientVars, dropped, lost, stale, faults>>

NoWait == [step |-> "idle", count |-> {}]

Init ==
    /\ committed = {} /\ step = [e \in Changes |-> "none"]
    /\ process \in [Changes -> Workers]
    /\ window = FALSE /\ timer = {} /\ flushing = {} /\ hint = FALSE
    /\ cache = NoCount /\ request = [q \in Requests |-> NoWait]
    /\ current = NoRequest /\ shown = {}
    /\ dropped = {} /\ lost = FALSE /\ stale = FALSE /\ faults = 0

Fault == faults < MaxFaults /\ faults' = faults + 1

-------------------------------------------------------------------------------
(* A change, and its run in the ViewCountsConsumer: changed() for the viewer. *)

Commit(e) ==
    /\ e \notin committed /\ committed' = committed \cup {e}
    /\ UNCHANGED <<runVars, trailing, hint, cache, clientVars, dropped, lost, stale, faults>>

\* invalidate(): a failure of Redis is logged, and the cached count stays.
Invalidate(e) ==
    /\ e \in committed /\ step[e] = "none" /\ step' = [step EXCEPT ![e] = "window"]
    /\ \/ cache' = NoCount /\ dropped' = dropped \cup {e} /\ UNCHANGED <<stale, faults>>
       \/ Fault /\ stale' = TRUE /\ UNCHANGED <<cache, dropped>>
    /\ UNCHANGED <<committed, process, window, trailing, hint, clientVars, lost>>

\* Mutant for ShowsLatest: a throttle without its trailing edge.
NoTrailing(w) == UNCHANGED timer
\* scheduleTrailing(): one timer of the process is enough.
ScheduleTrailing(w) == timer' = timer \cup {w}

GoTo(e, next) == step' = [step EXCEPT ![e] = next]

\* SET NX PX: the first of the window, or any when Redis fails, will append the hint.
OpensWindow(e) ==
    /\ step[e] = "window"
    /\ \/ ~window /\ window' = TRUE /\ GoTo(e, "hint") /\ UNCHANGED <<timer, faults>>
       \/ window /\ GoTo(e, "later") /\ ScheduleTrailing(process[e]) /\ UNCHANGED <<window, faults>>
       \/ Fault /\ GoTo(e, "hint") /\ UNCHANGED <<window, timer>>
    /\ UNCHANGED <<committed, process, flushing, hint, cache, clientVars, dropped, lost, stale>>

CommitRun(e) ==
    /\ step[e] \in {"hint", "later"} /\ step' = [step EXCEPT ![e] = "done"]
    /\ hint' = (hint \/ step[e] = "hint")
    /\ UNCHANGED <<committed, process, window, trailing, cache, clientVars, dropped, lost, stale,
                   faults>>

Handling(e) == Invalidate(e) \/ OpensWindow(e) \/ CommitRun(e)

Rollback(e) ==
    /\ step[e] \in {"window", "hint", "later"} /\ Fault
    /\ step' = [step EXCEPT ![e] = "none"]
    /\ UNCHANGED <<committed, process, window, trailing, hint, cache, clientVars, dropped, lost,
                   stale>>

WindowEnds ==
    /\ window /\ window' = FALSE
    /\ UNCHANGED <<committed, step, process, trailing, hint, cache, clientVars, dropped, lost, stale,
                   faults>>

\* The timer is over, or a graceful stop does not wait for it.
FlushStarts(w) ==
    /\ w \in timer /\ timer' = timer \ {w} /\ flushing' = flushing \cup {w}
    /\ UNCHANGED <<committed, runVars, hint, cache, clientVars, dropped, lost, stale, faults>>

\* flush(): a transaction of its own, and a failure is only logged.
Flush(w) ==
    /\ w \in flushing /\ flushing' = flushing \ {w}
    /\ \/ hint' = TRUE /\ UNCHANGED <<lost, faults>>
       \/ Fault /\ lost' = TRUE /\ UNCHANGED hint
    /\ UNCHANGED <<committed, runVars, timer, cache, clientVars, dropped, stale>>

\* A worker dies: its runs are rolled back and done by another one, its timers are gone.
Crash(w) ==
    /\ Fault
    /\ step' = [e \in Changes |-> IF process[e] = w /\ step[e] # "done" THEN "none" ELSE step[e]]
    /\ process' \in [Changes -> Workers]
    /\ timer' = timer \ {w} /\ flushing' = flushing \ {w}
    /\ lost' = (lost \/ w \in timer \cup flushing)
    /\ UNCHANGED <<committed, window, hint, cache, clientVars, dropped, stale>>

-------------------------------------------------------------------------------
(* GET /views/counts, of the client or of another tab of the viewer. *)

Answer(q, count) ==
    /\ request' = [request EXCEPT ![q] = NoWait]
    /\ IF current = q THEN shown' = count /\ current' = NoRequest ELSE UNCHANGED <<shown, current>>

\* A cached count is the answer; the client shows the answer to its last request.
Ask(q, client) ==
    /\ request[q].step = "idle"
    /\ IF cache # NoCount
       THEN /\ UNCHANGED request
            /\ IF client THEN shown' = cache /\ current' = NoRequest
                         ELSE UNCHANGED <<shown, current>>
       ELSE /\ request' = [request EXCEPT ![q].step = "count"] /\ UNCHANGED shown
            /\ current' = IF client THEN q ELSE current
    /\ UNCHANGED <<committed, runVars, trailing, cache, dropped, lost, stale, faults>>

\* The hint cancels what the client waits for, and asks again.
Hear(q) == hint /\ hint' = FALSE /\ Ask(q, TRUE)
\* Every 60 s, and whenever a tab opens.
Poll(q) == UNCHANGED hint /\ \E client \in BOOLEAN : Ask(q, client)

Count(q) ==
    /\ request[q].step = "count"
    /\ request' = [request EXCEPT ![q] = [step |-> "write", count |-> committed]]
    /\ UNCHANGED <<committed, runVars, trailing, hint, cache, current, shown, dropped, lost, stale,
                   faults>>

WriteCache(q) ==
    /\ request[q].step = "write" /\ Answer(q, request[q].count)
    /\ cache' = request[q].count
    /\ stale' = (stale \/ ~(dropped \subseteq request[q].count))
    /\ UNCHANGED <<committed, runVars, trailing, hint, dropped, lost, faults>>

\* After 30 s.
CacheExpires ==
    /\ cache # NoCount /\ cache' = NoCount
    /\ UNCHANGED <<committed, runVars, trailing, hint, clientVars, dropped, lost, stale, faults>>

Next ==
    \/ \E e \in Changes : Commit(e) \/ Handling(e) \/ Rollback(e)
    \/ \E w \in Workers : FlushStarts(w) \/ Flush(w) \/ Crash(w)
    \/ WindowEnds \/ CacheExpires
    \/ \E q \in Requests : Hear(q) \/ Poll(q) \/ Count(q) \/ WriteCache(q)

Spec == Init /\ [][Next]_vars

-------------------------------------------------------------------------------
(* Properties. *)

TypeOK ==
    /\ committed \subseteq Changes /\ dropped \subseteq committed
    /\ step \in [Changes -> {"none", "window", "hint", "later", "done"}]
    /\ process \in [Changes -> Workers]
    /\ timer \subseteq Workers /\ flushing \subseteq Workers
    /\ {window, hint, lost, stale} \subseteq BOOLEAN
    /\ cache \in {NoCount} \cup SUBSET Changes /\ shown \subseteq Changes
    /\ request \in [Requests -> [step : {"idle", "count", "write"},
                                 count : SUBSET Changes]]
    /\ current \in Requests \cup {NoRequest} /\ faults \in 0..MaxFaults

\* Nothing is under way that would make the client ask again.
Settled ==
    /\ \A e \in committed : step[e] = "done"
    /\ timer = {} /\ flushing = {} /\ ~hint /\ current = NoRequest

\* A refetch after a hint "can't cache the old counts again" (counts-notifier.ts:27): with all
\* changes handled and all hints heard the viewer sees the count as it is, however windows,
\* timers, requests and retries overlap; unless a trailing hint was lost with its process or
\* its flush, or a count from before a change was cached after the change had dropped it, for
\* which the client's poll and the entry's 30 s are there (view-counts.ts:34).
ShowsLatest == Settled => shown = committed \/ lost \/ stale
===============================================================================
