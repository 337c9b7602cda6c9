----------------------------- MODULE AutomationRuns -----------------------------
(***************************************************************************)
(* Automation rules on one ticket (routing/automation): the consumer that  *)
(* queues a run of each rule an event triggers, the sweep that queues the  *)
(* runs of time rules, and the run job.                                    *)
(*                                                                         *)
(* A ticket is one value, which conditions look at and actions set; a rule *)
(* may also send an auto-reply.  A time rule waits since a person's last   *)
(* change, or since the ticket's last update, which may be the rule's own. *)
(* Job ids are kept for as long as a behaviour lasts.                      *)
(***************************************************************************)
EXTENDS Naturals, Sequences, FiniteSets

CONSTANTS
    Rules, Nobody,       \* the rules, and a person in their place
    Values,
    Rulebooks,           \* what the rules may be: [on, when, set] of each
    MaxDepth,            \* MAX_CHAIN_DEPTH
    Slots,               \* of the worker's "automation" queue
    MaxChanges,          \* bound: changes made by people
    MaxPeriods,          \* bound: events after which the clock triggers nothing
    MaxFaults            \* bound: failures, and rules disabled, in a behaviour

VARIABLES
    rule,                \* automation_rules: the trigger ("event"; of time rules "time" or
                         \* "quiet", when it waits since updated_at), the values its conditions
                         \* match, the value its actions set
    enabled,
    value,               \* the ticket
    events,              \* ticket.updated events: their actor, cause and the cause's depth
    pending,             \* events the consumer has not handled
    since,               \* the last event of a person, 0 when there is none yet
    queued, known,       \* run jobs to be run, and ids BullMQ has
    run,                 \* run[s]: the job in slot s and how far it is
    recorded,            \* automation_runs: pairs of rule and trigger key
    replies,             \* the auto-replies, by rule and trigger key
    faults

AutomationConstants ==
    /\ Nobody \notin Rules /\ MaxDepth \in Nat \ {0}
    /\ MaxChanges \in Nat /\ MaxPeriods \in Nat /\ MaxFaults \in Nat
    /\ \A book \in Rulebooks : \A r \in Rules : book[r].set \in Values

rules == <<rule, enabled>>
ticket == <<value, events, since, replies>>
jobs  == <<queued, known>>
vars  == <<rules, ticket, pending, jobs, run, recorded, faults>>

Idle == [step |-> "idle", job |-> [rule |-> Nobody, key |-> <<"none", 0>>, depth |-> 0]]

Init ==
    /\ rule \in Rulebooks
    /\ enabled = Rules /\ value \in Values
    /\ events = << >> /\ pending = {} /\ since = 0
    /\ queued = {} /\ known = {} /\ run = [s \in Slots |-> Idle]
    /\ recorded = {} /\ replies = << >> /\ faults = 0

Fault == faults < MaxFaults /\ faults' = faults + 1

Id(j) == <<j.rule, j.key>>

Matches(r) == value \in rule[r].when

\* add() with a job id: ignored when BullMQ has the id.
Add(J) ==
    /\ queued' = queued \cup {j \in J : Id(j) \notin known}
    /\ known' = known \cup {Id(j) : j \in J}

\* applyLocked(): an event when something changed, with the run's rule, depth and event.
Set(v, by, depth, cause) ==
    \/ v = value /\ UNCHANGED <<value, events, pending>>
    \/ /\ v # value /\ value' = v
       /\ events' = Append(events, [by |-> by, depth |-> depth, cause |-> cause])
       /\ pending' = pending \cup {Len(events) + 1}

-------------------------------------------------------------------------------

PersonChanges ==
    /\ Cardinality({i \in DOMAIN events : events[i].by = Nobody}) < MaxChanges
    /\ \E v \in Values \ {value} : Set(v, Nobody, 0, 0)
    /\ since' = Len(events')
    /\ UNCHANGED <<rules, replies, jobs, run, recorded, faults>>

Disable ==
    /\ Fault /\ \E r \in enabled : enabled' = enabled \ {r}
    /\ UNCHANGED <<rule, ticket, pending, jobs, run, recorded>>

\* The rules that event i triggers: not at the end of a chain, nor the one that caused it.
Triggered(i) ==
    IF events[i].depth >= MaxDepth THEN {}
    ELSE {r \in enabled \ {events[i].by} : rule[r].on = "event" /\ Matches(r)}

RunsFor(i) == {[rule |-> r, key |-> <<"event", i>>, depth |-> events[i].depth + 1] : r \in Triggered(i)}

\* handle(): all of them are queued; a failure half-way has queued some, and is retried.
Consume ==
    /\ \E i \in pending :
          \/ Add(RunsFor(i)) /\ pending' = pending \ {i} /\ UNCHANGED faults
          \/ (\E J \in SUBSET RunsFor(i) : Add(J)) /\ Fault /\ UNCHANGED pending
    /\ UNCHANGED <<rules, ticket, run, recorded>>

\* sinceKeySql(): the event that began the waiting period of a time rule.
Period(r) == IF rule[r].on = "quiet" THEN Len(events) ELSE since

\* sweepTenant(): the time rules that have waited and have no run for the period.
Sweep ==
    /\ \E r \in enabled :
          /\ rule[r].on \in {"time", "quiet"} /\ Period(r) <= MaxPeriods
          /\ Matches(r) /\ <<r, <<"since", Period(r)>>>> \notin recorded
          /\ Add({[rule |-> r, key |-> <<"since", Period(r)>>, depth |-> 1]})
    /\ UNCHANGED <<rules, ticket, pending, run, recorded, faults>>

-------------------------------------------------------------------------------
(* The run job. *)

Settle(s) == run' = [run EXCEPT ![s] = Idle]
GoTo(s, next) == run' = [run EXCEPT ![s].step = next]

Take(s) ==
    /\ run[s] = Idle
    /\ \E j \in queued : queued' = queued \ {j} /\ run' = [run EXCEPT ![s] = [step |-> "check", job |-> j]]
    /\ UNCHANGED <<rules, ticket, pending, known, recorded, faults>>

\* Before the ticket is locked: the rule is enabled still, and has not run for the key.
Check(s) ==
    /\ run[s].step = "check"
    /\ \/ run[s].job.rule \in enabled /\ Id(run[s].job) \notin recorded /\ GoTo(s, "apply")
       \/ (run[s].job.rule \notin enabled \/ Id(run[s].job) \in recorded) /\ Settle(s)
    /\ UNCHANGED <<rules, ticket, pending, jobs, recorded, faults>>

\* Under the lock: the ticket matches still, and the waiting period is the same.
Due(j) == Matches(j.rule) /\ (j.key[1] = "since" => j.key[2] = Period(j.rule))

\* Mutant for RepliesOnce: the reply's client_message_id is a fresh one.
NeverReplied(j) == TRUE
\* AutomationMessageWriter: the reply of this rule and key exists already.
Unreplied(j) == \A i \in DOMAIN replies : replies[i] # Id(j)

\* Mutant for ChainsEnd: every run is the first link.
FirstLink(j) == 1
Link(j) == j.depth

\* The actions and the record, in one transaction.  That a record exists already is not noticed.
Apply(s) ==
    /\ run[s].step = "apply" /\ Settle(s)
    /\ LET j == run[s].job IN
         \/ ~Due(j) /\ UNCHANGED <<value, events, pending, replies, recorded>>
         \/ /\ Due(j)
            /\ Set(rule[j.rule].set, j.rule, Link(j), IF j.key[1] = "event" THEN j.key[2] ELSE 0)
            /\ replies' = IF Unreplied(j) THEN Append(replies, Id(j)) ELSE replies
            /\ recorded' = recorded \cup {Id(j)}
    /\ UNCHANGED <<rules, since, jobs, faults>>

\* A refusal rolls back, and is recorded in a transaction of its own.
Refuse(s) ==
    /\ run[s].step = "apply" /\ Due(run[s].job) /\ GoTo(s, "refused")
    /\ UNCHANGED <<rules, ticket, pending, jobs, recorded, faults>>

RecordRefusal(s) ==
    /\ run[s].step = "refused" /\ Settle(s)
    /\ recorded' = recorded \cup {Id(run[s].job)}
    /\ UNCHANGED <<rules, ticket, pending, jobs, faults>>

\* A run throws or dies and the job is retried; or it stalls: retried, and the run goes on.
Retry(s) ==
    /\ run[s] # Idle /\ Fault
    /\ queued' = queued \cup {run[s].job}
    /\ Settle(s) \/ UNCHANGED run
    /\ UNCHANGED <<rules, ticket, pending, known, recorded>>

Running(s) == Take(s) \/ Check(s) \/ Apply(s) \/ RecordRefusal(s)

Next ==
    \/ PersonChanges \/ Disable \/ Consume \/ Sweep
    \/ \E s \in Slots : Running(s) \/ Refuse(s) \/ Retry(s)

Spec == Init /\ [][Next]_vars

-------------------------------------------------------------------------------
(* Properties. *)

Keys == {"none", "event", "since"} \X Nat

TypeOK ==
    /\ rule \in Rulebooks /\ enabled \subseteq Rules /\ value \in Values
    /\ \A i \in DOMAIN events :
          events[i].by \in Rules \cup {Nobody} /\ events[i].depth \in Nat /\ events[i].cause < i
    /\ pending \subseteq DOMAIN events /\ since \in 0..Len(events)
    /\ \A j \in queued : j.rule \in Rules /\ j.key \in Keys /\ j.depth \in 1..MaxDepth
    /\ known \subseteq Rules \X Keys /\ recorded \subseteq known
    /\ \A s \in Slots : run[s].step \in {"idle", "check", "apply", "refused"}
    /\ \A i \in DOMAIN replies : replies[i] \in known
    /\ faults \in 0..MaxFaults

\* A rule answers the customer once for a trigger, also when its job stalled and two runs that
\* both found no record of it follow on each other (automation-run.job.ts:84).
RepliesOnce == \A i, k \in DOMAIN replies : replies[i] = replies[k] => i = k

\* "A rule never runs on an event it caused itself, and ... rules that trigger each other stop
\* after three links" (automation.consumer.ts:21): from any event a rule's run wrote, its causes
\* lead back to a person's change or the clock's in at most MaxDepth links (they can be numbered
\* with that many numbers, each greater than its cause's), no two next to each other of one rule.
ChainsEnd ==
    /\ \E links \in [DOMAIN events -> 0..MaxDepth] :
          \A i \in DOMAIN events :
              events[i].by # Nobody =>
                  links[i] > (IF events[i].cause = 0 THEN 0 ELSE links[events[i].cause])
    /\ \A i \in DOMAIN events : events[i].cause > 0 => events[events[i].cause].by # events[i].by
===============================================================================
