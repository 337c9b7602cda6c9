-------------------------- MODULE TicketStateMachine --------------------------
(***************************************************************************)
(* The ticket state machine (tickets/state-machine.ts), a pure function    *)
(* from a ticket's state and timers, a cause and the time to the next      *)
(* state and timers.  Where the code throws (409 INVALID_TRANSITION, or a  *)
(* missing or past pending date), Allowed is false.                        *)
(*                                                                         *)
(* A date that is compared with the clock is a number, NoDate for null;    *)
(* resolved_at and closed_at are never compared, so only whether they are  *)
(* set is kept.                                                            *)
(***************************************************************************)
EXTENDS Integers

NoDate == 0

Pending == {"pending_reminder", "pending_close"}
Active  == {"new", "open"} \cup Pending         \* ACTIVE_STATES
States  == Active \cup {"resolved", "closed"}

AGENT_TARGETS ==
    [new              |-> {"open", "pending_reminder", "pending_close", "resolved"},
     open             |-> {"pending_reminder", "pending_close", "resolved"},
     pending_reminder |-> {"open", "resolved"},
     pending_close    |-> {"open", "resolved"},
     resolved         |-> {"open", "closed"},
     closed           |-> {"open"}]

\* The sweeper closes a pending_close or a resolved ticket, and nothing else.
SWEEPER_TARGETS ==
    [s \in States |-> IF s \in {"pending_close", "resolved"} THEN {"closed"} ELSE {}]

InitialState(origin) == IF origin = "staff_started" THEN "open" ELSE "new"

\* Mutant: a pending date may be the current time.
AllowedNow(row, cause, to, until, now) ==
    \/ cause \in {"customer_message", "agent_reply"}
    \/ /\ cause \in {"agent", "sweeper"}
       /\ \/ to = row.state
          \/ to \in (IF cause = "agent" THEN AGENT_TARGETS ELSE SWEEPER_TARGETS)[row.state]
       /\ cause = "agent" /\ to \in Pending => until >= now

\* The transition does not throw.
Allowed(row, cause, to, until, now) ==
    \/ cause \in {"customer_message", "agent_reply"}
    \/ /\ cause \in {"agent", "sweeper"}
       /\ \/ to = row.state
          \/ to \in (IF cause = "agent" THEN AGENT_TARGETS ELSE SWEEPER_TARGETS)[row.state]
       /\ cause = "agent" /\ to \in Pending => until > now

TargetFor(state, cause, to) ==
    CASE cause = "customer_message" -> IF state = "new" THEN "new" ELSE "open"
      [] cause = "agent_reply"      -> IF state = "new" THEN "open" ELSE state
      [] OTHER                      -> to

\* Mutant: leaving a pending state keeps its date.
TransitionKeepsDate(row, cause, to, until, now, grace) ==
    LET state == TargetFor(row.state, cause, to) IN
    [row EXCEPT
        !.state     = state,
        !.pending   = IF state \in Pending /\ cause = "agent" THEN until ELSE @,
        !.autoClose = IF state # "resolved" THEN NoDate
                      ELSE IF row.state # "resolved" THEN now + grace ELSE @,
        !.resolved  = (@ \/ state = "resolved") /\ state # "open",
        !.closed    = (@ \/ state = "closed") /\ state # "open"]

Transition(row, cause, to, until, now, grace) ==
    LET state == TargetFor(row.state, cause, to) IN
    [row EXCEPT
        !.state     = state,
        !.pending   = IF state \notin Pending THEN NoDate
                      ELSE IF cause = "agent" THEN until ELSE @,
        !.autoClose = IF state # "resolved" THEN NoDate
                      ELSE IF row.state # "resolved" THEN now + grace ELSE @,
        !.resolved  = (@ \/ state = "resolved") /\ state # "open",
        !.closed    = (@ \/ state = "closed") /\ state # "open"]

===============================================================================
