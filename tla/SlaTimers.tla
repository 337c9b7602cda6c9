------------------------------- MODULE SlaTimers -------------------------------
(***************************************************************************)
(* The SLA of one ticket (sla/): the consumer recomputes ticket_sla from   *)
(* the ticket's facts at each of its events, policy edits are re-applied   *)
(* after their commit, and the sweep announces warnings and breaches.      *)
(*                                                                         *)
(* Time is in ticks since the ticket's creation, all of them business      *)
(* time.  A policy and its business hours are the minutes of each target;  *)
(* a target's warning comes Early ticks before it is due.  An event stands *)
(* for all those of one change; its job is retried until it succeeds       *)
(* (see EventJobs), in no order with others.  A message moved to or from   *)
(* another ticket changes the facts, and the consumer is not told.         *)
(***************************************************************************)
EXTENDS Integers, FiniteSets

CONSTANTS
    Policies, NoPolicy,
    Minutes,             \* what a policy may be set to
    Early,
    SweepLag,            \* bound: how long before an emission its sweep began
    MaxTime,             \* bound: ticks
    MaxChanges,          \* bound: changes of the ticket and edits of the policies
    MaxFaults            \* bound: failures in a behaviour

VARIABLES
    now,
    ticket,              \* the facts: its state, the last staff reply, since when the customer
                         \* waits for one, the policy that matches
    moved,               \* ghost: a message was moved since the last recompute began
    minutes,             \* minutes[p]: the policy p as it is now
    events,              \* events of the ticket the consumer has not handled
    run,                 \* run[k]: the recompute of an event or a re-application that holds
                         \* the advisory lock: the facts it read; a policy was edited since
    reapply,             \* a committed edit is still to be re-applied
    behind,              \* ghost: the re-application failed, and no event came since
    sla,                 \* the row of ticket_sla
    recorded,            \* sla_events: pairs of target and kind
    said,                \* said[e]: times the event for e was appended
    changes, faults

None    == -1            \* NULL, of a time or of a target's minutes
Never   == -2            \* more minutes than its business hours have in the years looked at
Targets == {"first_response", "next_response", "resolution"}

SlaConstants ==
    /\ NoPolicy \notin Policies /\ Minutes \subseteq [Targets -> Nat \cup {None, Never}]
    /\ Early \in Nat /\ SweepLag \in Nat
    /\ MaxTime \in Nat /\ MaxChanges \in Nat /\ MaxFaults \in Nat

vars ==
    <<now, ticket, moved, minutes, events, run, reapply, behind, sla, recorded, said, changes, faults>>

Kinds   == {"warning", "breached"}
NoRow   == [policy |-> NoPolicy, due |-> [t \in Targets |-> None], paused |-> None,
            status |-> "ok"]
Runs    == {"event", "reset"}
NoRun   == [facts |-> [state |-> "none", replied |-> None, asked |-> None, match |-> NoPolicy],
            stale |-> FALSE]

Init ==
    /\ now = 0
    /\ ticket \in [state : {"open"}, replied : {None}, asked : {0}, match : Policies]
    /\ moved = FALSE
    /\ minutes \in [Policies -> Minutes]
    /\ events = 1 /\ run = [k \in Runs |-> NoRun] /\ reapply = FALSE /\ behind = FALSE
    /\ sla = NoRow /\ recorded = {}
    /\ said = [e \in Targets \X Kinds |-> 0]
    /\ changes = 0 /\ faults = 0

Fault == faults < MaxFaults /\ faults' = faults + 1

-------------------------------------------------------------------------------
(* The ticket changes, and an event says so; an administrator edits a policy or *)
(* its business hours, which may also make another policy match, and only the   *)
(* re-application says so.                                                      *)

Change(new) ==
    /\ changes < MaxChanges /\ changes' = changes + 1
    /\ ticket' = new /\ new # ticket
    /\ events' = events + 1
    /\ UNCHANGED <<now, moved, minutes, run, reapply, behind, sla, recorded, said, faults>>

CustomerWrites ==
    Change([ticket EXCEPT !.asked = IF @ = None THEN now ELSE @, !.state = "open"])

StaffReplies == Change([ticket EXCEPT !.asked = None, !.replied = now])

SetState == \E s \in {"open", "pending", "done"} : Change([ticket EXCEPT !.state = s])

Rematch == \E p \in Policies \cup {NoPolicy} : Change([ticket EXCEPT !.match = p])

\* message.moved is not among the consumer's events: a customer's message since the last reply
\* is moved here or away.
MoveMessage ==
    /\ changes < MaxChanges /\ changes' = changes + 1
    /\ \E asked \in {None} \cup {i \in 0..now : i >= ticket.replied} :
          asked # ticket.asked /\ ticket' = [ticket EXCEPT !.asked = asked]
    /\ moved' = TRUE
    /\ UNCHANGED <<now, minutes, events, run, reapply, behind, sla, recorded, said, faults>>

EditPolicy ==
    /\ changes < MaxChanges /\ changes' = changes + 1
    /\ \E p \in Policies, m \in Minutes : minutes' = [minutes EXCEPT ![p] = m]
    /\ \E p \in Policies \cup {NoPolicy} : ticket' = [ticket EXCEPT !.match = p]
    /\ reapply' = TRUE
    /\ run' = [k \in Runs |-> [run[k] EXCEPT !.stale = run[k] # NoRun]]
    /\ UNCHANGED <<now, moved, events, behind, sla, recorded, said, faults>>

-------------------------------------------------------------------------------
(* recompute(). *)

\* Mutant for Converged: nothing keeps two recomputes apart.
NoLock == TRUE
\* pg_advisory_xact_lock of the ticket
Unlocked == \A k \in Runs : run[k] = NoRun

Lock(k) ==
    /\ run[k] = NoRun /\ run' = [run EXCEPT ![k] = [facts |-> ticket, stale |-> FALSE]]
    /\ moved' = FALSE

\* The ticket is read under the lock, but not locked itself.
BeginEvent ==
    /\ Unlocked /\ events > 0 /\ Lock("event")
    /\ UNCHANGED <<now, ticket, minutes, events, reapply, behind, sla, recorded, said, changes, faults>>

\* One page of open tickets; a ticket that is done is not in it.
BeginReapply ==
    /\ Unlocked /\ reapply
    /\ \/ ticket.state # "done" /\ Lock("reset") /\ UNCHANGED reapply
       \/ ticket.state = "done" /\ reapply' = FALSE /\ UNCHANGED <<run, moved>>
    /\ UNCHANGED <<now, ticket, minutes, events, behind, sla, recorded, said, changes, faults>>

\* The stored resolution stays while the policy does, so that served pauses survive.
Keeps(p, reset) ==
    ~reset /\ sla.policy = p /\ sla.due["resolution"] # None /\ minutes[p]["resolution"] # None

\* The targets that are computed from the policy's minutes, for the facts f as read and the
\* first unanswered message as of then or now; and when each is due.
Fresh(f, asked, reset) ==
    {t \in Targets :
        /\ f.state # "done" /\ minutes[f.match][t] # None
        /\ t = "first_response" => f.replied = None
        /\ t = "next_response" => f.replied # None /\ asked # None
        /\ t = "resolution" => ~Keeps(f.match, reset)}

Due(f, asked, reset) ==
    [t \in Targets |->
        IF t \in Fresh(f, asked, reset)
        THEN minutes[f.match][t] + (IF t = "next_response" THEN asked ELSE 0)
        ELSE IF t = "resolution" /\ f.state # "done" /\ Keeps(f.match, reset)
        THEN sla.due[t] + (IF f.state # "pending" /\ sla.paused # None THEN now - sla.paused ELSE 0)
        ELSE None]

\* addBusinessMinutes() throws for one of them.
Unusable(f, asked, reset) == \E t \in Fresh(f, asked, reset) : minutes[f.match][t] = Never

Paused(f) ==
    IF f.state # "pending" \/ minutes[f.match]["resolution"] = None THEN None
    ELSE IF sla.paused # None THEN sla.paused ELSE now

Running(due, paused) == {t \in Targets : due[t] # None /\ (t = "resolution" => paused = None)}

Status(due, paused, at) ==
    IF \E t \in Running(due, paused) : due[t] <= at THEN "breached"
    ELSE IF \E t \in Running(due, paused) : due[t] - Early <= at THEN "warning" ELSE "ok"

Computed(f, asked, reset) ==
    LET due == Due(f, asked, reset)
    IN  [policy |-> f.match, due |-> due, paused |-> Paused(f),
         status |-> Status(due, Paused(f), now)]

\* The row is stored or removed, and the transaction commits.  A ticket that is done and had
\* no row gets none; with business hours that a target cannot be computed on the row stays as
\* it is, and the event counts as handled.
Store(k) ==
    /\ run[k] # NoRun /\ run' = [run EXCEPT ![k] = NoRun]
    /\ LET f == run[k].facts
           none == f.match = NoPolicy \/ (f.state = "done" /\ sla = NoRow)
       IN \/ none /\ sla' = NoRow
          \/ ~none /\ \E asked \in {f.asked, ticket.asked} :
                IF Unusable(f, asked, k = "reset") THEN UNCHANGED sla
                ELSE sla' = Computed(f, asked, k = "reset")
    /\ \/ /\ k = "event" /\ events' = events - 1 /\ behind' = (behind /\ run[k].stale)
          /\ UNCHANGED reapply
       \/ k = "reset" /\ reapply' = run[k].stale /\ UNCHANGED <<events, behind>>
    /\ UNCHANGED <<now, ticket, moved, minutes, recorded, said, changes, faults>>

\* The transaction fails: a job is retried, a page is skipped for good.
RunFails(k) ==
    /\ run[k] # NoRun /\ run' = [run EXCEPT ![k] = NoRun] /\ Fault
    /\ \/ k = "event" /\ UNCHANGED <<reapply, behind>>
       \/ k = "reset" /\ reapply' = run[k].stale /\ behind' = TRUE
    /\ UNCHANGED <<now, ticket, moved, minutes, events, sla, recorded, said, changes>>

\* The process dies between the commit of the edit and its re-application.
ReapplyLost ==
    /\ reapply /\ run["reset"] = NoRun /\ Fault
    /\ reapply' = FALSE /\ behind' = TRUE
    /\ UNCHANGED <<now, ticket, moved, minutes, events, run, sla, recorded, said, changes>>

-------------------------------------------------------------------------------
(* The sweep. *)

Warned(at)   == {t \in Running(sla.due, sla.paused) : sla.due[t] - Early <= at}
Breached(at) == {t \in Running(sla.due, sla.paused) : sla.due[t] <= at}

\* Mutant for SaidOnce: the result of the insert is not looked at.
Always(e) == TRUE
\* INSERT INTO sla_events ... ON CONFLICT DO NOTHING returned a row.
New(e) == e \notin recorded

\* Mutant for BreachSaid: a ticket whose status says so already is done with.
StaleStatus(at) == sla.status # Status(sla.due, sla.paused, at)
\* candidates(): something to record, or a status the clock has overtaken.
Candidate(at) ==
    \/ \E t \in Warned(at) : <<t, "warning">> \notin recorded
    \/ \E t \in Breached(at) : <<t, "breached">> \notin recorded
    \/ Status(sla.due, sla.paused, at) = "breached" /\ sla.status # "breached"
    \/ Status(sla.due, sla.paused, at) = "warning" /\ sla.status = "ok"

\* emitSlaEvents(): an overdue target's warning is recorded and not announced.
Emit(at) ==
    /\ sla # NoRow /\ ticket.state # "done" /\ Candidate(at)
    /\ LET due  == {<<t, "warning">> : t \in Warned(at)} \cup {<<t, "breached">> : t \in Breached(at)}
           says == {e \in due : New(e) /\ (e[2] = "warning" => e[1] \notin Breached(at))}
       IN /\ recorded' = recorded \cup due
          /\ said' = [e \in DOMAIN said |-> IF e \in says THEN said[e] + 1 ELSE said[e]]
    /\ sla' = [sla EXCEPT !.status = Status(sla.due, sla.paused, at)]
    /\ UNCHANGED <<now, ticket, moved, minutes, events, run, reapply, behind, changes, faults>>

Sweep == \E at \in (now - SweepLag)..now : Emit(at)

Tick ==
    /\ now < MaxTime /\ now' = now + 1
    /\ UNCHANGED <<ticket, moved, minutes, events, run, reapply, behind, sla, recorded, said, changes, faults>>

Next ==
    \/ CustomerWrites \/ StaffReplies \/ SetState \/ Rematch \/ MoveMessage \/ EditPolicy
    \/ BeginEvent \/ BeginReapply \/ ReapplyLost \/ Sweep \/ Tick
    \/ \E k \in Runs : Store(k) \/ RunFails(k)

Spec == Init /\ [][Next]_vars

-------------------------------------------------------------------------------
(* Properties. *)

Facts == [state : {"open", "pending", "done"}, replied : -1..MaxTime, asked : -1..MaxTime,
          match : Policies \cup {NoPolicy}]

TypeOK ==
    /\ now \in 0..MaxTime /\ ticket \in Facts /\ moved \in BOOLEAN
    /\ minutes \in [Policies -> Minutes] /\ events \in 0..(MaxChanges + 1)
    /\ run \in [Runs -> [facts : Facts \cup {NoRun.facts}, stale : BOOLEAN]]
    /\ reapply \in BOOLEAN /\ behind \in BOOLEAN
    /\ sla \in [policy : Policies \cup {NoPolicy}, due : [Targets -> Int], paused : -1..MaxTime,
                status : {"ok", "warning", "breached"}]
    /\ recorded \subseteq Targets \X Kinds /\ said \in [Targets \X Kinds -> Nat]
    /\ changes \in 0..MaxChanges /\ faults \in 0..MaxFaults

\* "events processed late or out of order converge on the same row"
\* (sla-recompute.service.ts:45): with every event handled and every edit re-applied, the row
\* is of the policy that matches, runs the targets the ticket's facts call for, is paused with
\* it, and runs nothing when it is done.  Two things leave it behind until the next event: a target
\* whose minutes the business hours do not have, for which recompute() skips the ticket; and,
\* for the next response, a message moved since, which triggers none (sla.consumer.ts:50).
Quiet == events = 0 /\ (\A k \in Runs : run[k] = NoRun) /\ ~reapply /\ ~behind
Skipped ==
    LET m == minutes[ticket.match]
    IN  /\ ticket.match # NoPolicy
        /\ \/ m["resolution"] = Never
           \/ m["first_response"] = Never /\ ticket.replied = None
           \/ m["next_response"] = Never /\ ticket.replied # None /\ (ticket.asked # None \/ moved)
Converged ==
    Quiet =>
        /\ ticket.state = "done" => sla.due = NoRow.due
        /\ ticket.state # "done" /\ ~Skipped =>
            /\ sla.policy = ticket.match
            /\ sla # NoRow =>
                LET m == minutes[ticket.match]
                IN  /\ sla.due["first_response"] =
                          IF ticket.replied = None THEN m["first_response"] ELSE None
                    /\ ~moved =>
                       sla.due["next_response"] =
                          IF ticket.replied # None /\ ticket.asked # None
                             /\ m["next_response"] # None
                          THEN ticket.asked + m["next_response"] ELSE None
                    /\ (sla.due["resolution"] # None) <=> m["resolution"] # None
                    /\ (sla.paused # None) <=> ticket.state = "pending" /\ m["resolution"] # None

\* Each warning and each breach is announced once, however sweeps, recomputes that move the
\* due time and policy changes follow on each other (sla-sweep.ts:24).
SaidOnce == \A e \in Targets \X Kinds : said[e] <= 1

\* What is overdue and running is announced as breached, or is answered, paused, moved or done
\* first: also when a recompute had found it overdue and set the status (sla-sweep.ts:72).
Overdue(t) == sla # NoRow /\ ticket.state # "done" /\ t \in Breached(now)
BreachSaid == []<>(\A t \in Targets : Overdue(t) => said[<<t, "breached">>] = 1)
===============================================================================
