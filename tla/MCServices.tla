------------------------------- MODULE MCServices -------------------------------
(***************************************************************************)
(* The components that share no state with each other, checked in one run: *)
(* a behaviour is one of the component that focus names, the others stay   *)
(* in an initial state.  EventJobs is the one this module extends.         *)
(***************************************************************************)
EXTENDS EventJobs, OutgoingServices, FileServices, TicketServices, BrowserServices

CONSTANTS
    Components,                            \* those that a run is about
    RelayWorkers, a1, a2, Nil

ASSUME ServicesAssumption == Nil \notin RelayWorkers

VARIABLES
    focus,
    written, seq, pruned, enqueued, emitted, lock, status, leader, again, drain, snap, batch,
    first, todo, drainAt, relayFaults

\* One event without consumers, one for all of them.
RelayRoutes == [e \in {1, 2} |-> IF e = 1 THEN {} ELSE Consumers]

Relay ==
    INSTANCE OutboxRelay WITH
        Events <- {1, 2}, Workers <- RelayWorkers, Routes <- RelayRoutes,
        BatchSize <- 1, NoWorker <- Nil, MaxFaults <- 1,
        queued <- enqueued, pc <- drain, at <- drainAt, faults <- relayFaults

\* Two rules that trigger each other; one that an event triggers and one that the clock does,
\* when the customer has waited or when nothing has happened for long.
PingPong ==
    [r \in {a1, a2} |-> [on |-> "event", when |-> {0, 1}, set |-> IF r = a1 THEN 1 ELSE 0]]
Relapse  ==
    [r \in {a1, a2} |-> IF r = a1 THEN [on |-> "event", when |-> {0}, set |-> 1]
                                  ELSE [on |-> "time", when |-> {0, 1}, set |-> 0]]
Silence  == [Relapse EXCEPT ![a2].on = "quiet"]

MCRulebooks == {PingPong, Relapse, Silence}

\* Policies: short and long, one without two of the targets, and three with a target that
\* the business hours cannot meet.
SlaPolicy(f, n, r) ==
    [t \in {"first_response", "next_response", "resolution"} |->
        IF t = "first_response" THEN f ELSE IF t = "next_response" THEN n ELSE r]

MCMinutes ==
    {SlaPolicy(1, 1, 1), SlaPolicy(2, 2, 2), SlaPolicy(-1, 1, -1),
     SlaPolicy(-2, 1, 1), SlaPolicy(1, -2, 1), SlaPolicy(1, 1, -2)}

-------------------------------------------------------------------------------

relayVars ==
    <<written, seq, pruned, enqueued, emitted, lock, status, leader, again, drain, snap, batch,
      first, todo, drainAt, relayFaults>>
scanVars ==
    <<infected, upload, attachment, stored, handled, scanJob, scanMade, scanStalls, scanOwner,
      scan, tx, scanFaults, purged>>
hookVars ==
    <<active, endpoint, aged, attempt, due, deliveries, delivery, at, left, result, hookFaults>>
slaVars ==
    <<now, ticket, moved, minutes, slaEvents, recompute, reapply, behind, sla, announced, said,
      changes, slaFaults>>
aiVars ==
    <<history, mode, paused, stopped, replied, turns, draft, triggers, staffReplies, turnJobs,
      turn, owed, incidents>>
autoVars ==
    <<rule, enabled, value, changed, pending, since, runJobs, knownRuns, ruleRun, recorded,
      autoReplies, autoFaults>>
digestVars ==
    <<counting, count, expires, digests, knownDigests, digestMade, sender, untold, stranded,
      dropped, digestFaults>>
sessionVars ==
    <<session, cache, lookup, socket, revocation, deadTicks, sessionFaults>>
policyVars ==
    <<deleted, state, source, passages, indexJob, tries, indexStalls, polls, indexOwner, index,
      unmarked, indexFaults>>
viewVars ==
    <<committed, handling, process, window, timer, flushing, hint, counts, request, current, shown,
      recounted, lostHint, stale, viewFaults>>

\* A component out of focus is in one of its initial states.
ServicesInit ==
    /\ focus \in Components
    /\ Init /\ Relay!Init /\ Hook!Init /\ Digest!Init /\ Session!Init /\ Index!Init /\ Views!Init
    /\ Scan!Init /\ (focus # "scan" => ~infected)
    /\ Sla!Init /\ (focus # "sla" => minutes = [p \in Policies |-> SlaPolicy(1, 1, 1)])
    /\ Ai!Init /\ (focus # "assistant" => mode = "auto")
    /\ Automation!Init /\ (focus # "automation" => rule = Relapse /\ value = 0)

\* The components out of focus stay as they are.
OthersUnchanged ==
    /\ focus = "jobs" \/ (focus # "jobs" /\ UNCHANGED vars)
    /\ focus = "relay" \/ (focus # "relay" /\ UNCHANGED relayVars)
    /\ focus = "scan" \/ (focus # "scan" /\ UNCHANGED scanVars)
    /\ focus = "webhooks" \/ (focus # "webhooks" /\ UNCHANGED hookVars)
    /\ focus = "sla" \/ (focus # "sla" /\ UNCHANGED slaVars)
    /\ focus = "assistant" \/ (focus # "assistant" /\ UNCHANGED aiVars)
    /\ focus = "automation" \/ (focus # "automation" /\ UNCHANGED autoVars)
    /\ focus = "digest" \/ (focus # "digest" /\ UNCHANGED digestVars)
    /\ focus = "sessions" \/ (focus # "sessions" /\ UNCHANGED sessionVars)
    /\ focus = "policy" \/ (focus # "policy" /\ UNCHANGED policyVars)
    /\ focus = "views" \/ (focus # "views" /\ UNCHANGED viewVars)

ServicesNext ==
    /\ UNCHANGED focus /\ OthersUnchanged
    /\ \/ focus = "jobs" /\ Next
       \/ focus = "relay" /\ Relay!Next
       \/ focus = "scan" /\ Scan!Next
       \/ focus = "webhooks" /\ Hook!Next
       \/ focus = "sla" /\ Sla!Next
       \/ focus = "assistant" /\ Ai!Next
       \/ focus = "automation" /\ Automation!Next
       \/ focus = "digest" /\ Digest!Next
       \/ focus = "sessions" /\ Session!Next
       \/ focus = "policy" /\ Index!Next
       \/ focus = "views" /\ Views!Next

servicesVars ==
    <<focus, vars, relayVars, scanVars, hookVars, slaVars, aiVars, autoVars, digestVars,
      sessionVars, policyVars, viewVars>>

\* After a hint is lost or an old count cached, which stays so, ShowsLatest says nothing.
ServicesConstraint == ~lostHint /\ ~stale

\* Relay: as in OutboxRelay.  Webhooks: the sweep is a repeatable job, workers take queued jobs
\* and finish them, time goes on.  SLA: the sweep goes on with an up to date clock.  Assistant:
\* event jobs and turn jobs are run.  Sessions: time goes on, the sweep runs every minute, a
\* lookup is answered.  No step of a person and no fault is fair.
ServicesFairness ==
    /\ \A w \in RelayWorkers :
        /\ WF_relayVars(focus = "relay" /\ Relay!Start(w))
        /\ WF_relayVars(focus = "relay" /\ Relay!TryLead(w))
        /\ WF_relayVars(focus = "relay" /\ Relay!StepDown(w))
        /\ WF_relayVars(focus = "relay" /\ Relay!Stopped(w))
        /\ WF_relayVars(focus = "relay" /\ Relay!Wake(w))
        /\ WF_relayVars(focus = "relay" /\ Relay!Publish(w))
    /\ WF_hookVars(focus = "webhooks" /\ Hook!Tick)
    /\ WF_hookVars(focus = "webhooks" /\ Hook!Sweep)
    /\ \A w \in Senders :
        /\ WF_hookVars(focus = "webhooks" /\ Hook!Working(w))
        /\ WF_hookVars(focus = "webhooks" /\ \E a \in 1..2 : Hook!Take(w, a))
    /\ WF_slaVars(focus = "sla" /\ Sla!Emit(now))
    /\ WF_aiVars(focus = "assistant" /\ Ai!Trigger)
    /\ \A r \in AiRuns :
        /\ WF_aiVars(focus = "assistant" /\ (Ai!Thinking(r) \/ Ai!Write(r)))
        /\ WF_aiVars(focus = "assistant" /\ \E n \in 0..1 : Ai!Read(r, n))
    /\ WF_sessionVars(focus = "sessions" /\ Session!Tick)
    /\ WF_sessionVars(focus = "sessions" /\ Session!Sweep)
    /\ \A l \in Lookups : WF_sessionVars(focus = "sessions" /\ Session!Answer(l))

ServicesSpec     == ServicesInit /\ [][ServicesNext]_servicesVars
ServicesFairSpec == ServicesSpec /\ ServicesFairness

-------------------------------------------------------------------------------
(* What the runs check beside the properties of EventJobs and of the groups of services. *)

\* Every component keeps to its types (one TypeOK each).
ServicesTypeOK ==
    /\ focus = "jobs" => TypeOK
    /\ focus = "relay" => Relay!TypeOK
    /\ focus = "scan" => Scan!TypeOK
    /\ focus = "webhooks" => Hook!TypeOK
    /\ focus = "sla" => Sla!TypeOK
    /\ focus = "assistant" => Ai!TypeOK
    /\ focus = "automation" => Automation!TypeOK
    /\ focus = "digest" => Digest!TypeOK
    /\ focus = "sessions" => Session!TypeOK
    /\ focus = "policy" => Index!TypeOK
    /\ focus = "views" => Views!TypeOK

\* What is committed to the outbox is published in the end (relay.ts:263).
EventuallyPublished == Relay!EventuallyPublished
===============================================================================
