------------------------- MODULE ConversationRouting -------------------------
(***************************************************************************)
(* One customer's tickets, and every transaction that moves them: the      *)
(* customer's sends (messaging/customer-message-router.ts), the staff's    *)
(* changes, replies, merges, splits, moves and deletions (tickets/,        *)
(* messaging/), and the sweeper's timers (tickets/sweeper.job.ts).         *)
(*                                                                         *)
(* Transactions run at READ COMMITTED.  A send and a sweep are split at    *)
(* the statements between which another transaction can commit; a staff    *)
(* transaction takes its locks, re-reads and writes in one step, enabled   *)
(* when the locks it waits for are free.  Ids follow creation order, a     *)
(* message is its client_message_id, and the clocks of the processes agree.*)
(***************************************************************************)
EXTENDS TicketStateMachine

CONSTANTS
    MaxTickets,          \* bound: tickets ever created
    MaxTime,             \* bound: the clock's last tick
    Grace,               \* grace_period_hours, in ticks
    Messages,            \* the client_message_ids the customer sends, and retries
    Routers,             \* requests that accept() serves at once
    Sweepers,            \* worker processes, each running the sweep job
    None                 \* no message, no ticket chosen

ASSUME RoutingAssumption ==
    MaxTickets \in Nat /\ MaxTime \in Nat \ {0} /\ Grace \in Nat \ {0}

VARIABLES
    ticket,              \* ticket[t]: its row, of state "absent" when there is none
    created,             \* tickets created so far; ids are 1..created
    home,                \* home[m]: the ticket message m is on, 0 before it is stored
    clock,
    send,                \* send[r]: what router r's transaction has read so far
    sweep,               \* sweep[s]: the sweep that s is running
    byStaff,             \* tickets that staff made active (and not a customer's message)
    reminded             \* reminded[t]: reminders for its current pending date

routeVars == <<ticket, created, home, byStaff, reminded>>
vars == <<routeVars, clock, send, sweep>>

Tickets == 1..MaxTickets
Dates   == 0..(MaxTime + Grace + 1)
Exists(t) == ticket[t].state # "absent"
Absent  == [state |-> "absent", pending |-> NoDate, resolved |-> FALSE, autoClose |-> NoDate,
            closed |-> FALSE, merged |-> 0, notified |-> NoDate]

\* Tickets as a SELECT sees them.
Unmerged       == {t \in Tickets : Exists(t) /\ ticket[t].merged = 0}
ActiveUnmerged == {t \in Unmerged : ticket[t].state \in Active}

Idle    == [step |-> "idle", msg |-> None, now |-> 0, seen |-> {}, on |-> 0,
            fresh |-> FALSE]
Resting == [now |-> 0, due |-> {}, at |-> 0, branch |-> "none"]

\* The customer's advisory lock, held from the first statement to the commit.
CustomerFree == \A r \in Routers : send[r].step = "idle"

\* Mutant: tickets are selected without FOR UPDATE.
NoRowLocks(t) == TRUE

\* The row lock of a ticket a send has chosen.
RowFree(t) == \A r \in Routers : send[r].step # "write" \/ send[r].on # t

\* The tables after a ticket's row is written.  A new pending date starts its reminder afresh.
Write(new, staff) ==
    /\ ticket' = new
    /\ byStaff' = {t \in byStaff \cup staff : new[t].state \in Active}
    /\ reminded' = [t \in Tickets |->
                      IF new[t].state = "pending_reminder" /\ new[t].pending = ticket[t].pending
                      THEN reminded[t] ELSE 0]

\* A row as insert() makes it, of the next id: no timer is set.
NewRow(origin) == [Absent EXCEPT !.state = InitialState(origin)]

-------------------------------------------------------------------------------

Init ==
    /\ ticket = [t \in Tickets |-> Absent]
    /\ created = 0
    /\ home = [m \in Messages |-> 0]
    /\ clock = 1
    /\ send = [r \in Routers |-> Idle]
    /\ sweep = [s \in Sweepers |-> Resting]
    /\ byStaff = {}
    /\ reminded = [t \in Tickets |-> 0]

Tick ==
    /\ clock < MaxTime
    /\ clock' = clock + 1
    /\ UNCHANGED <<routeVars, send, sweep>>

-------------------------------------------------------------------------------
(* A customer's message: CustomerMessageRouter.accept(). *)

\* Mutant: the transaction starts without the customer's lock.
BeginUnlocked(r, m) ==
    /\ send[r].step = "idle" /\ home[m] = 0
    /\ send' = [send EXCEPT ![r] = [Idle EXCEPT !.step = "active", !.msg = m, !.now = clock,
                                                !.seen = ActiveUnmerged]]
    /\ UNCHANGED <<routeVars, clock, sweep>>

\* lockCustomer(), no message of this client_message_id yet, and the snapshot
\* of lockActiveForCustomer().  (A stored message is returned: nothing changes.)
Begin(r, m) ==
    /\ send[r].step = "idle" /\ CustomerFree
    /\ home[m] = 0
    /\ send' = [send EXCEPT ![r] = [Idle EXCEPT !.step = "active", !.msg = m, !.now = clock,
                                                !.seen = ActiveUnmerged]]
    /\ UNCHANGED <<routeVars, clock, sweep>>

\* Mutant: pending tickets do not count as active.
PickOpen(r) ==
    /\ send[r].step = "active"
    /\ LET found == {t \in send[r].seen \cap ActiveUnmerged : ticket[t].state \in {"new", "open"}} IN
       IF found # {}
       THEN \E t \in found : send' = [send EXCEPT ![r].step = "write", ![r].on = t, ![r].seen = {}]
       ELSE send' = [send EXCEPT ![r].step = "latest", ![r].seen = Unmerged]
    /\ UNCHANGED <<routeVars, clock, sweep>>

\* FOR UPDATE waited for its row and re-checks it.  Which of several active
\* tickets was updated last is left open.  With none, the next SELECT starts.
PickActive(r) ==
    /\ send[r].step = "active"
    /\ LET found == send[r].seen \cap ActiveUnmerged IN
       IF found # {}
       THEN \E t \in found : send' = [send EXCEPT ![r].step = "write", ![r].on = t, ![r].seen = {}]
       ELSE send' = [send EXCEPT ![r].step = "latest", ![r].seen = Unmerged]
    /\ UNCHANGED <<routeVars, clock, sweep>>

\* Resolved past its grace period, and not swept yet.
Expired(t, now) == ticket[t].state = "resolved" /\ now >= ticket[t].autoClose

\* target(): the latest ticket within its grace period takes the message, an
\* older one as after_close_behavior says, and with none a ticket is created.
PickLatest(r) ==
    /\ send[r].step = "latest"
    /\ LET found == send[r].seen \cap Unmerged IN
       \E on \in found \cup {0}, fresh \in BOOLEAN :
          /\ \A t \in found : t <= on
          /\ fresh => created < MaxTickets
          /\ fresh \/ on # 0
          /\ fresh /\ on # 0 => ticket[on].state # "resolved" \/ Expired(on, send[r].now)
          /\ send' = [send EXCEPT ![r].step = "write", ![r].seen = {}, ![r].fresh = fresh, ![r].on = on]
    /\ UNCHANGED <<routeVars, clock, sweep>>

\* closeExpired(), create(), the insert and applyMessage(), and the commit.
Commit(r) ==
    LET on  == send[r].on
        now == send[r].now
        to  == IF send[r].fresh THEN created + 1 ELSE on
        old == [t \in Tickets |->
                  IF t = on /\ Expired(t, now)
                  THEN Transition(ticket[t], "sweeper", "closed", NoDate, now, Grace)
                  ELSE IF t = to /\ send[r].fresh THEN NewRow("customer_message") ELSE ticket[t]]
    IN
    /\ send[r].step = "write"
    /\ created' = IF send[r].fresh THEN created + 1 ELSE created
    /\ home' = [home EXCEPT ![send[r].msg] = to]
    /\ Write([old EXCEPT ![to] = Transition(@, "customer_message", @.state, NoDate, now, Grace)], {})
    /\ send' = [send EXCEPT ![r] = Idle]
    /\ UNCHANGED <<clock, sweep>>

\* The transaction rolls back (an attachment is refused, the process dies).
Abort(r) ==
    /\ send[r].step # "idle"
    /\ send' = [send EXCEPT ![r] = Idle]
    /\ UNCHANGED <<routeVars, clock, sweep>>

-------------------------------------------------------------------------------
(* The staff's transactions. *)

\* TicketsService.update() of the state or the pending date, by an agent, a
\* rule or the assistant.  Neither the customer's lock nor a merge matters to it.
Update(t, to, until) ==
    /\ Exists(t) /\ RowFree(t)
    /\ Allowed(ticket[t], "agent", to, until, clock)
    /\ Write([ticket EXCEPT ![t] = Transition(@, "agent", to, until, clock, Grace)],
             IF ticket[t].state \in Active THEN {} ELSE {t})
    /\ UNCHANGED <<created, home, clock, send, sweep>>

\* PublicReplyService.publish(), which only moves a new ticket.
Reply(t) ==
    /\ ticket[t].state = "new" /\ RowFree(t)
    /\ Write([ticket EXCEPT ![t] = Transition(@, "agent_reply", @.state, NoDate, clock, Grace)], {})
    /\ UNCHANGED <<created, home, clock, send, sweep>>

\* What merge() writes on the source, without the state machine.
Merged(row, into) ==
    IF row.state = "closed" THEN [row EXCEPT !.merged = into]
    ELSE [row EXCEPT !.merged = into, !.state = "closed", !.closed = TRUE,
                     !.pending = NoDate, !.autoClose = NoDate]

\* Mutant: tickets merged into the source stay there.
MergeAlone(source, target) ==
    /\ CustomerFree
    /\ source # target /\ {source, target} \subseteq Unmerged
    /\ Write([ticket EXCEPT ![source] = Merged(@, target)], {})
    /\ UNCHANGED <<created, home, clock, send, sweep>>

\* merge(): tickets merged into the source are repointed.
Merge(source, target) ==
    /\ CustomerFree
    /\ source # target /\ {source, target} \subseteq Unmerged
    /\ Write([t \in Tickets |-> IF t = source THEN Merged(ticket[t], target)
                                ELSE IF ticket[t].merged = source THEN [ticket[t] EXCEPT !.merged = target]
                                ELSE ticket[t]], {})
    /\ UNCHANGED <<created, home, clock, send, sweep>>

\* A ticket that staff open: StaffStartedTicketService.create(), or split() of
\* a message in the timeline of an existing ticket.
StaffStart ==
    /\ CustomerFree /\ created < MaxTickets
    /\ created' = created + 1
    /\ Write([ticket EXCEPT ![created + 1] = NewRow("staff_started")], {created + 1})
    /\ UNCHANGED <<home, clock, send, sweep>>

Split(t, m) ==
    /\ CustomerFree /\ created < MaxTickets
    /\ Exists(t) /\ home[m] # 0 /\ (home[m] = t \/ ticket[home[m]].merged = t)
    /\ created' = created + 1
    /\ home' = [home EXCEPT ![m] = created + 1]
    /\ Write([ticket EXCEPT ![created + 1] = NewRow("split")], {created + 1})
    /\ UNCHANGED <<clock, send, sweep>>

\* MessageMoveService.move() locks nothing, and takes any ticket of the customer.
Move(m, t) ==
    /\ home[m] \notin {0, t} /\ Exists(t)
    /\ home' = [home EXCEPT ![m] = t]
    /\ UNCHANGED <<ticket, created, clock, send, sweep, byStaff, reminded>>

\* delete(): messages cascade, and tickets merged into it are unmerged.  Bound:
\* one of the last tickets is never deleted.
Delete(t) ==
    /\ Exists(t) /\ RowFree(t) /\ created < MaxTickets
    /\ home' = [m \in Messages |-> IF home[m] = t THEN 0 ELSE home[m]]
    /\ Write([u \in Tickets |-> IF u = t THEN Absent
                                ELSE IF ticket[u].merged = t THEN [ticket[u] EXCEPT !.merged = 0]
                                ELSE ticket[u]], {})
    /\ UNCHANGED <<created, clock, send, sweep>>

-------------------------------------------------------------------------------
(* The sweep: TicketSweeperJob. *)

\* Mutant: a reminder is due again whenever the sweep looks.
DueAgain(row, now) ==
    \/ row.state \in Pending /\ row.pending <= now
    \/ row.state = "resolved" /\ row.autoClose <= now

\* dueFilter()
Due(row, now) ==
    \/ row.state = "pending_reminder" /\ row.pending <= now /\ row.notified < row.pending
    \/ row.state = "pending_close" /\ row.pending <= now
    \/ row.state = "resolved" /\ row.autoClose <= now

\* Mutant: the scan forgets tickets past their grace period.
PendingCandidates(now) == {t \in Tickets : ticket[t].state \in Pending /\ Due(ticket[t], now)}

\* dueCandidates(), a scan without locks.
dueCandidates(now) == {t \in Tickets : Due(ticket[t], now)}

Scan(s) ==
    /\ sweep[s].due = {} /\ dueCandidates(clock) # {}
    /\ sweep' = [sweep EXCEPT ![s] = [Resting EXCEPT !.now = clock, !.due = dueCandidates(clock)]]
    /\ UNCHANGED <<routeVars, clock, send>>

\* The sweep is done with its candidate t.
DoneWith(s, t) == LET rest == sweep[s].due \ {t} IN
    sweep' = [sweep EXCEPT ![s] = IF rest = {} THEN Resting
                                  ELSE [Resting EXCEPT !.now = sweep[s].now, !.due = rest]]

\* peek() chooses the branch, in candidate order.
Peek(s) ==
    /\ sweep[s].at = 0 /\ sweep[s].due # {}
    /\ \E t \in sweep[s].due :
          /\ \A u \in sweep[s].due : t <= u
          /\ IF Due(ticket[t], sweep[s].now)
             THEN sweep' = [sweep EXCEPT ![s].at = t, ![s].branch = ticket[t].state]
             ELSE DoneWith(s, t)
    /\ UNCHANGED <<routeVars, clock, send>>

\* claim() re-checks the row under its lock; a close takes the customer's lock
\* first.  Which of the two it is stays as peeked.
Claim(s) ==
    LET t   == sweep[s].at
        now == sweep[s].now
    IN
    /\ t # 0 /\ RowFree(t)
    /\ sweep[s].branch = "pending_reminder" \/ CustomerFree
    /\ IF ~Due(ticket[t], now) THEN UNCHANGED <<ticket, byStaff, reminded>>
       ELSE IF sweep[s].branch = "pending_reminder"
       THEN /\ ticket' = [ticket EXCEPT ![t].notified = now]
            /\ reminded' = [reminded EXCEPT ![t] = @ + 1]
            /\ UNCHANGED byStaff
       ELSE /\ Allowed(ticket[t], "sweeper", "closed", NoDate, now)
            /\ Write([ticket EXCEPT ![t] = Transition(@, "sweeper", "closed", NoDate, now, Grace)], {})
    /\ DoneWith(s, t)
    /\ UNCHANGED <<created, home, clock, send>>

\* SKIP LOCKED: the row is in use, so this sweep leaves it.
Skip(s) ==
    /\ sweep[s].at # 0 /\ sweep[s].branch = "pending_reminder"
    /\ ~RowFree(sweep[s].at)
    /\ DoneWith(s, sweep[s].at)
    /\ UNCHANGED <<routeVars, clock, send>>

-------------------------------------------------------------------------------

Send(r)  == PickActive(r) \/ PickLatest(r) \/ Commit(r)
Sweep(s) == Scan(s) \/ Peek(s) \/ Claim(s) \/ Skip(s)

Next ==
    \/ Tick
    \/ StaffStart
    \/ \E r \in Routers : (\E m \in Messages : Begin(r, m)) \/ Send(r) \/ Abort(r)
    \/ \E s \in Sweepers : Sweep(s)
    \/ \E t \in Tickets : Reply(t) \/ Delete(t)
    \/ \E t \in Tickets, to \in States \ Pending : Update(t, to, NoDate)
    \/ \E t \in Tickets, to \in Pending, until \in 2..MaxTime : Update(t, to, until)
    \/ \E source, target \in Tickets : Merge(source, target)
    \/ \E t \in Tickets, m \in Messages : Split(t, m) \/ Move(m, t)

Spec == Init /\ [][Next]_vars

\* A transaction that has its locks goes on, a send is not rolled back for ever,
\* and the repeatable sweep job runs on.  Its claim may wait while sends come and
\* go, but not for ever.
Fairness ==
    /\ \A r \in Routers : WF_vars(Send(r)) /\ SF_vars(Commit(r))
    /\ \A s \in Sweepers : WF_vars(Scan(s)) /\ WF_vars(Peek(s)) /\ SF_vars(Claim(s))

FairSpec == Spec /\ Fairness

-------------------------------------------------------------------------------
(* Properties. *)

Row == [state : States \cup {"absent"}, pending : Dates, resolved : BOOLEAN, autoClose : Dates,
        closed : BOOLEAN, merged : 0..MaxTickets, notified : Dates]

\* Every variable has its type: rows, ids and dates stay in range, and a send
\* that has chosen has a ticket to write on or makes a new one.
TypeOK ==
    /\ ticket \in [Tickets -> Row]
    /\ created \in 0..MaxTickets
    /\ home \in [Messages -> 0..MaxTickets]
    /\ clock \in 1..MaxTime
    /\ send \in [Routers -> [step : {"idle", "active", "latest", "write"}, msg : Messages \cup {None},
                             now : 0..MaxTime, seen : SUBSET Tickets, on : 0..MaxTickets,
                             fresh : BOOLEAN]]
    /\ sweep \in [Sweepers -> [now : 0..MaxTime, due : SUBSET Tickets, at : 0..MaxTickets,
                               branch : Pending \cup {"resolved", "none"}]]
    /\ byStaff \subseteq Tickets
    /\ reminded \in [Tickets -> Nat]

TimersFit(row) ==
    /\ row.pending # NoDate <=> row.state \in Pending
    /\ row.autoClose # NoDate <=> row.state = "resolved"
    /\ row.closed <=> row.state = "closed"
    /\ row.resolved => row.state \in {"resolved", "closed"}
    /\ row.state = "resolved" => row.resolved

\* A ticket's timers say what its state says: a pending date in the pending
\* states only, an auto-close date in resolved only, closed_at in closed only,
\* and resolved_at in no state that a customer could still write into.  Five
\* writers keep it, and merge() does so without the state machine.
TimersMatchState == \A t \in Tickets : TimersFit(ticket[t])

\* A send and its retries never meet at the unique index of client_message_id:
\* whoever inserts is the only one, however the requests interleave.
NoSendConflict ==
    \A r \in Routers : send[r].step = "write" =>
        /\ home[send[r].msg] = 0
        /\ \A q \in Routers \ {r} : send[q].step # "write"

\* The customer's messages never open a second ticket beside an active one: of
\* two active tickets, staff started, split or reopened at least one.
OneActive ==
    \A t, u \in ActiveUnmerged : t # u => t \in byStaff \/ u \in byStaff

\* A message lands where staff will see it: on a ticket that was not merged
\* away, or deleted, while the send was choosing, and that is new or open after.
LandsOnLive ==
    [][\A m \in Messages : home[m] = 0 /\ home'[m] # 0 =>
          /\ home'[m] \in Unmerged \/ home'[m] = created'
          /\ ticket'[home'[m]].state \in {"new", "open"}]_vars

\* However many sweeps run, and however old the time they started with, a
\* pending date reminds at most once.
RemindOnce == \A t \in Tickets : reminded[t] <= 1

\* claim() re-checks that the ticket is due but not why; it is still due for
\* the reason peek() chose its branch by.
ClaimsWhatItPeeked ==
    \A s \in Sweepers : LET t == sweep[s].at IN
        t # 0 /\ Due(ticket[t], sweep[s].now) => ticket[t].state = sweep[s].branch

\* A merged ticket points at the ticket that shows its messages, which exists
\* and is not merged itself, through merges of merges and deletions.
NoMergeChains ==
    \A t \in Tickets : ticket[t].merged # 0 => ticket[t].merged \in Unmerged

\* A ticket whose timer has run out is reminded of, closed or changed.
SweptEventually ==
    \A t \in Tickets : Due(ticket[t], clock) ~> ~Due(ticket[t], clock)

===============================================================================
