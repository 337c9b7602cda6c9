----------------------------- MODULE TicketServices -----------------------------
(***************************************************************************)
(* The services that act on a ticket by themselves: the AI assistant, the  *)
(* automation rules and the SLA timers.  The components share no state;    *)
(* here they get constants and variables of their own, and their           *)
(* properties names that runs and theorems use.                            *)
(***************************************************************************)
EXTENDS Integers, Sequences

CONSTANTS
    AiRuns, AiAttempts, ChatEntries, AiIncidents,
    Rules, Nobody, Values, Rulebooks, MaxDepth, RuleSlots, RuleChanges, RulePeriods, RuleFaults,
    Policies, NoPolicy, Minutes, Early, SweepLag, MaxTime, SlaChanges, SlaFaults

VARIABLES
    history, mode, paused, stopped, replied, turns, draft, triggers, staffReplies, turnJobs, turn,
    owed, incidents,
    rule, enabled, value, changed, pending, since, runJobs, knownRuns, ruleRun, recorded,
    autoReplies, autoFaults,
    now, ticket, moved, minutes, slaEvents, recompute, reapply, behind, sla, announced, said,
    changes, slaFaults

Ai ==
    INSTANCE AiTurns WITH
        Runs <- AiRuns, MaxAttempts <- AiAttempts, MaxEntries <- ChatEntries,
        MaxIncidents <- AiIncidents,
        replies <- staffReplies, waiting <- turnJobs, run <- turn

Automation ==
    INSTANCE AutomationRuns WITH
        Slots <- RuleSlots, MaxChanges <- RuleChanges, MaxPeriods <- RulePeriods, MaxFaults <- RuleFaults,
        events <- changed, queued <- runJobs, known <- knownRuns, run <- ruleRun,
        replies <- autoReplies, faults <- autoFaults

Sla ==
    INSTANCE SlaTimers WITH
        MaxChanges <- SlaChanges, MaxFaults <- SlaFaults,
        events <- slaEvents, run <- recompute, recorded <- announced, faults <- slaFaults

ASSUME TicketAssumption ==
    Ai!AiConstants /\ Automation!AutomationConstants /\ Sla!SlaConstants

\* The assistant's answer follows the message it is to, alone (ai-turn.job.ts:186).
AnswersInPlace == Ai!AnswersInPlace
\* After a take-over or hand-off it says nothing before a hand-back (ai-takeover.service.ts:26).
SilentWhenStopped == Ai!SilentWhenStopped
\* A turn that was queued is paid, if by a hand-off (ai-turn.job.ts:113).
OwedIsPaid == Ai!OwedIsPaid

\* A rule answers the customer once for a trigger (automation-run.job.ts:84).
RepliesOnce == Automation!RepliesOnce
\* Rules that trigger each other stop (automation.consumer.ts:21).
ChainsEnd == Automation!ChainsEnd

\* The SLA row converges on the ticket's facts (sla-recompute.service.ts:45).
Converged == Sla!Converged
\* A warning or breach is announced once (sla-sweep.ts:24).
SaidOnce == Sla!SaidOnce
\* What is overdue and stays so is announced (sla-sweep.ts:72).
BreachSaid == Sla!BreachSaid
===============================================================================
