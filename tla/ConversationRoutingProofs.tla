----------------------- MODULE ConversationRoutingProofs -----------------------
(***************************************************************************)
(* Proofs about ConversationRouting, for any number of tickets, messages,  *)
(* requests and sweeps, and any grace period.  IInv is inductive: what a   *)
(* send has read stays true of what others may still change, since they    *)
(* need the customer's lock, the row's lock, or a member of the staff.     *)
(***************************************************************************)
EXTENDS ConversationRouting, TLAPS

TablesType ==
    /\ ticket \in [Tickets -> Row]
    /\ created \in 0..MaxTickets
    /\ home \in [Messages -> 0..MaxTickets]
    /\ clock \in 1..MaxTime
    /\ byStaff \subseteq Tickets
    /\ reminded \in [Tickets -> Nat]

SendRec == [step : {"idle", "active", "latest", "write"}, msg : Messages \cup {None},
            now : 0..MaxTime, seen : SUBSET Tickets, on : 0..MaxTickets, fresh : BOOLEAN]

SendType == send \in [Routers -> SendRec]

SweepRec == [now : 0..MaxTime, due : SUBSET Tickets, at : 0..MaxTickets,
             branch : Pending \cup {"resolved", "none"}]

SweepType == sweep \in [Sweepers -> SweepRec]

\* One send at a time, of a message that is not stored; when it writes, its ticket is there.
SendInv ==
    /\ \A q, r \in Routers : send[q].step # "idle" /\ send[r].step # "idle" => q = r
    /\ \A r \in Routers : send[r].step # "idle" =>
          /\ send[r].msg \in Messages
          /\ home[send[r].msg] = 0
          /\ send[r].fresh => send[r].step = "write"
    /\ \A r \in Routers : send[r].step = "write" =>
          /\ send[r].fresh => created < MaxTickets
          /\ send[r].fresh \/ send[r].on # 0
          /\ send[r].on # 0 => send[r].on \in Unmerged

\* A ticket that was merged away and is active again was reopened by staff.
MergeInv == \A t \in Tickets : ticket[t].merged # 0 /\ ticket[t].state \in Active => t \in byStaff

\* Every active ticket that a send has not seen is the staff's doing; when it has seen
\* none, all of them are.
SeenInv ==
    /\ \A r \in Routers : send[r].step = "active" => ActiveUnmerged \subseteq byStaff \cup send[r].seen
    /\ \A r \in Routers :
          \/ send[r].step = "latest"
          \/ send[r].step = "write" /\ (send[r].fresh \/ send[r].on \notin ActiveUnmerged)
          => ActiveUnmerged \subseteq byStaff

\* Ids above the last one created are free.
FreshInv == \A t \in Tickets : t > created => ~Exists(t)

\* A ticket that has been reminded of is not due again.
RemindInv ==
    \A t \in Tickets :
        \/ reminded[t] = 0
        \/ /\ reminded[t] = 1
           /\ ticket[t].state = "pending_reminder"
           /\ ticket[t].notified >= ticket[t].pending

TablesInv ==
    /\ TablesType /\ SendType
    /\ SendInv /\ SeenInv /\ FreshInv
    /\ TimersMatchState /\ NoMergeChains /\ MergeInv /\ OneActive /\ RemindInv

\* No sweep is ahead of the clock.
SweepInv ==
    /\ SweepType
    /\ \A s \in Sweepers : sweep[s].now <= clock
    /\ ClaimsWhatItPeeked

IInv == TablesInv /\ SweepInv

\* No ticket comes to be due, at a time already past, that was not, or for another reason.
NoneComesDue ==
    \A t \in Tickets : \A n \in 0..clock :
        Due(ticket'[t], n) => Due(ticket[t], n) /\ ticket'[t].state = ticket[t].state

-------------------------------------------------------------------------------
(* Rows. *)

\* A transition that does not throw gives a row whose timers fit its state, and leaves the
\* merge link and the reminder alone.
LEMMA TransitionFits ==
    ASSUME NEW row \in Row, TimersFit(row), row.state \in States,
           NEW cause, NEW to \in States, NEW until \in Dates, NEW now \in 0..MaxTime,
           Allowed(row, cause, to, until, now),
           cause = "agent_reply" => row.state = "new"
    PROVE  LET new == Transition(row, cause, to, until, now, Grace) IN
           /\ new \in Row
           /\ TimersFit(new)
           /\ new.state = TargetFor(row.state, cause, to)
           /\ new.state \in States
           /\ new.merged = row.merged
           /\ new.notified = row.notified
<1> DEFINE new == Transition(row, cause, to, until, now, Grace)
           state == TargetFor(row.state, cause, to)
<1>1. cause \in {"customer_message", "agent_reply", "agent", "sweeper"}
  BY DEF Allowed
<1>2. state \in States
  BY <1>1 DEF TargetFor, States, Active, Pending
<1>3. until = NoDate \/ until \in Nat \ {0}
  BY DEF Dates, NoDate
<1>4. cause = "agent" /\ state \in Pending => until # NoDate
  BY <1>3 DEF Allowed, TargetFor, NoDate
<1>5. state \in Pending /\ cause # "agent" => row.state \in Pending
  BY <1>1 DEF Allowed, TargetFor, SWEEPER_TARGETS, States, Active, Pending
<1>6. row.resolved /\ row.state # "resolved" => row.state = "closed"
  BY DEF TimersFit
<1>7. row.state = "resolved" => state \in {"resolved", "closed", "open"}
  BY <1>1 DEF Allowed, TargetFor, AGENT_TARGETS, SWEEPER_TARGETS, States, Active, Pending
<1>8. row.state = "closed" => state \in {"closed", "open"}
  BY <1>1 DEF Allowed, TargetFor, AGENT_TARGETS, SWEEPER_TARGETS, States, Active, Pending
<1>9. /\ new.state = state
      /\ new.pending = IF state \notin Pending THEN NoDate
                       ELSE IF cause = "agent" THEN until ELSE row.pending
      /\ new.autoClose = IF state # "resolved" THEN NoDate
                         ELSE IF row.state # "resolved" THEN now + Grace ELSE row.autoClose
      /\ new.resolved = ((row.resolved \/ state = "resolved") /\ state # "open")
      /\ new.closed = ((row.closed \/ state = "closed") /\ state # "open")
      /\ new.merged = row.merged /\ new.notified = row.notified
  BY DEF Transition, Row
<1>10. now + Grace \in Dates /\ now + Grace # NoDate /\ NoDate \in Dates
  BY RoutingAssumption DEF Dates, NoDate
<1>11. new \in Row
  BY <1>2, <1>10, ZenonT(60) DEF Transition, Row
<1> HIDE DEF new, state
<1>12. new.pending # NoDate <=> new.state \in Pending
  BY <1>4, <1>5, <1>9 DEF TimersFit
<1>13. new.autoClose # NoDate <=> new.state = "resolved"
  BY <1>9, <1>10 DEF TimersFit
<1>14. new.closed <=> new.state = "closed"
  BY <1>8, <1>9 DEF TimersFit
<1>15. (new.resolved => new.state \in {"resolved", "closed"}) /\ (new.state = "resolved" => new.resolved)
  BY <1>6, <1>7, <1>8, <1>9 DEF TimersFit
<1>16. TimersFit(new)
  BY <1>12, <1>13, <1>14, <1>15 DEF TimersFit
<1> QED
  BY <1>2, <1>9, <1>11, <1>16 DEF new, state

\* After a transition a row is due for a time not past its own only if it was before, and
\* for the same reason.
LEMMA TransitionNotDue ==
    ASSUME NEW row \in Row, TimersFit(row), row.state \in States,
           NEW cause, NEW to \in States, NEW until \in Dates, NEW now \in 0..MaxTime,
           Allowed(row, cause, to, until, now),
           cause = "agent_reply" => row.state = "new",
           NEW n \in 0..MaxTime, n <= now \/ cause \in {"customer_message", "sweeper"},
           cause = "sweeper" => to = "closed",
           Due(Transition(row, cause, to, until, now, Grace), n)
    PROVE  Due(row, n) /\ TargetFor(row.state, cause, to) = row.state
<1> DEFINE new == Transition(row, cause, to, until, now, Grace)
           state == TargetFor(row.state, cause, to)
<1>1. cause \in {"customer_message", "agent_reply", "agent", "sweeper"}
  BY DEF Allowed
<1>2. /\ new.state = state
      /\ new.pending = IF state \notin Pending THEN NoDate
                       ELSE IF cause = "agent" THEN until ELSE row.pending
      /\ new.autoClose = IF state # "resolved" THEN NoDate
                         ELSE IF row.state # "resolved" THEN now + Grace ELSE row.autoClose
      /\ new.notified = row.notified
  BY DEF Transition, Row
<1>3. state \in {"pending_reminder", "pending_close", "resolved"}
  BY <1>2 DEF Due
<1>4. cause = "agent"
  BY <1>1, <1>3 DEF TargetFor
<1>5. n <= now /\ state = to /\ (to \in Pending => until > now)
  BY <1>4 DEF Allowed, TargetFor
<1>6. state \notin Pending
  BY <1>2, <1>4, <1>5 DEF Due, Pending, Dates
<1>7. state = "resolved" /\ new.autoClose <= n
  BY <1>2, <1>3, <1>6 DEF Due, Pending
<1>8. row.state = "resolved"
  BY <1>2, <1>5, <1>7, RoutingAssumption
<1> QED
  BY <1>2, <1>7, <1>8 DEF Due

-------------------------------------------------------------------------------
(* Steps that write tickets. *)

\* The row of an existing ticket that no send has locked changes, within its timers: a
\* ticket that becomes active is the staff's doing.
LEMMA RowStep ==
    ASSUME TablesInv, NEW t \in Tickets, NEW row \in Row, NEW staff \in SUBSET {t},
           Write([ticket EXCEPT ![t] = row], staff), Exists(t), RowFree(t),
           TimersFit(row), row.state \in States,
           row.merged = ticket[t].merged, row.notified = ticket[t].notified,
           row.state \in Active => ticket[t].state \in Active \/ t \in staff,
           UNCHANGED <<created, home, clock, send>>
    PROVE  TablesInv'
<1> DEFINE new == [ticket EXCEPT ![t] = row]
<1>1. /\ ticket' = new
      /\ new[t] = row
      /\ \A u \in Tickets \ {t} : new[u] = ticket[u]
      /\ new \in [Tickets -> Row]
  BY DEF Write, TablesInv, TablesType
<1>2. byStaff' = {u \in byStaff \cup staff : new[u].state \in Active}
  BY DEF Write
<1>3. \A u \in Tickets : reminded'[u] = IF new[u].state = "pending_reminder" /\ new[u].pending = ticket[u].pending
                                        THEN reminded[u] ELSE 0
  BY DEF Write
<1>4. reminded' \in [Tickets -> Nat]
  BY DEF Write, TablesInv, TablesType
<1> HIDE DEF new
<1>5. TablesType' /\ SendType'
  BY <1>1, <1>2, <1>4 DEF TablesInv, TablesType, SendType, Tickets
<1>6. \A u \in Tickets : Exists(u)' <=> Exists(u)
  BY <1>1 DEF Exists, States, Active, Pending
<1>7. Unmerged' = Unmerged
  BY <1>1, <1>6 DEF Unmerged
<1>8. ActiveUnmerged' \subseteq ActiveUnmerged \cup staff
  BY <1>1, <1>7 DEF ActiveUnmerged, Unmerged
<1>9. \A u \in ActiveUnmerged' : u \in byStaff \cup staff => u \in byStaff'
  BY <1>1, <1>2 DEF ActiveUnmerged, Unmerged
<1>10. SendInv'
  BY <1>7 DEF TablesInv, SendInv
<1>11. SeenInv'
  <2>1. \A u \in Tickets \ {t} : u \in ActiveUnmerged' <=> u \in ActiveUnmerged
    BY <1>1, <1>7 DEF ActiveUnmerged, Unmerged
  <2>2. ASSUME NEW r \in Routers, send[r].step = "write", send[r].on \notin ActiveUnmerged'
        PROVE  send[r].on \notin ActiveUnmerged
    BY <2>1, <2>2 DEF RowFree, ActiveUnmerged, Unmerged
  <2>3. \A r \in Routers : send[r].step = "active" =>
           ActiveUnmerged' \subseteq byStaff' \cup send[r].seen
    BY <1>8, <1>9 DEF TablesInv, SeenInv
  <2>4. ASSUME ActiveUnmerged \subseteq byStaff PROVE ActiveUnmerged' \subseteq byStaff'
    BY <1>8, <1>9, <2>4
  <2> QED
    BY <2>2, <2>3, <2>4 DEF TablesInv, SeenInv
<1>12. FreshInv'
  BY <1>6 DEF TablesInv, FreshInv
<1>13. TimersMatchState'
  BY <1>1 DEF TablesInv, TimersMatchState
<1>14. NoMergeChains'
  BY <1>1, <1>7 DEF TablesInv, NoMergeChains
<1>15. MergeInv'
  BY <1>1, <1>2 DEF TablesInv, MergeInv
<1>16. OneActive'
  BY <1>8, <1>9 DEF TablesInv, OneActive
<1>17. RemindInv'
  BY <1>1, <1>3 DEF TablesInv, RemindInv
<1> QED
  BY <1>5, <1>10, <1>11, <1>12, <1>13, <1>14, <1>15, <1>16, <1>17 DEF TablesInv

\* What Write() does to the tables.
LEMMA WriteStep ==
    ASSUME TablesType, NEW new \in [Tickets -> Row], NEW staff \in SUBSET Tickets, Write(new, staff)
    PROVE  /\ ticket' = new
           /\ byStaff' = {t \in byStaff \cup staff : new[t].state \in Active}
           /\ byStaff' \subseteq Tickets
           /\ reminded' \in [Tickets -> Nat]
           /\ \A t \in Tickets :
                 reminded'[t] = IF new[t].state = "pending_reminder" /\ new[t].pending = ticket[t].pending
                                THEN reminded[t] ELSE 0
BY DEF TablesType, Write

\* A new row has no timer, and its state is new or open.
LEMMA NewRowFits ==
    ASSUME NEW origin
    PROVE  /\ NewRow(origin) \in Row
           /\ TimersFit(NewRow(origin))
           /\ NewRow(origin).state \in {"new", "open"}
           /\ NewRow(origin).merged = 0
<1>1. NoDate \in Dates /\ 0 \in 0..MaxTickets
  BY RoutingAssumption DEF Dates, NoDate
<1>2. InitialState(origin) \in {"new", "open"}
  BY DEF InitialState
<1>3. Absent \in Row
  BY <1>1 DEF Absent, Row
<1> QED
  BY <1>2, <1>3 DEF NewRow, Absent, Row, TimersFit, States, Active, Pending

\* Staff open a ticket, in the transaction of the customer's lock.
LEMMA OpenStep ==
    ASSUME TablesInv, NEW origin, CustomerFree, created < MaxTickets, created' = created + 1,
           Write([ticket EXCEPT ![created + 1] = NewRow(origin)], {created + 1}),
           home' \in [Messages -> 0..MaxTickets], UNCHANGED <<clock, send>>
    PROVE  TablesInv' /\ NoneComesDue
<1> DEFINE t == created + 1
           new == [ticket EXCEPT ![t] = NewRow(origin)]
<1>1. t \in Tickets
  BY RoutingAssumption DEF TablesInv, TablesType, Tickets
<1>2. /\ new \in [Tickets -> Row]
      /\ new[t] = NewRow(origin)
      /\ \A u \in Tickets \ {t} : new[u] = ticket[u]
      /\ Write(new, {t}) /\ {t} \in SUBSET Tickets
  BY <1>1, NewRowFits DEF TablesInv, TablesType
<1> HIDE DEF new
<1>3. /\ ticket' = new
      /\ byStaff' = {u \in byStaff \cup {t} : new[u].state \in Active}
      /\ byStaff' \subseteq Tickets
      /\ reminded' \in [Tickets -> Nat]
      /\ \A u \in Tickets :
            reminded'[u] = IF new[u].state = "pending_reminder" /\ new[u].pending = ticket[u].pending
                           THEN reminded[u] ELSE 0
  BY <1>2, WriteStep DEF TablesInv
<1>4. ~Exists(t)
  BY <1>1 DEF TablesInv, TablesType, FreshInv
<1>5. /\ Unmerged' = Unmerged \cup {t}
      /\ ActiveUnmerged' = ActiveUnmerged \cup {t}
      /\ t \in byStaff'
      /\ \A u \in ActiveUnmerged : u \in byStaff => u \in byStaff'
  BY <1>1, <1>2, <1>3, <1>4, NewRowFits
  DEF Unmerged, ActiveUnmerged, Exists, States, Active, Pending
<1>6. TablesType' /\ SendType'
  BY <1>1, <1>2, <1>3 DEF TablesInv, TablesType, SendType, Tickets
<1>7. SendInv' /\ SeenInv'
  BY DEF TablesInv, SendInv, SeenInv, CustomerFree
<1>8. FreshInv'
  BY <1>2, <1>3 DEF TablesInv, TablesType, FreshInv, Exists, Tickets
<1>9. TimersMatchState'
  BY <1>2, <1>3, NewRowFits DEF TablesInv, TimersMatchState
<1>10. NoMergeChains' /\ MergeInv'
  BY <1>2, <1>3, <1>5, NewRowFits DEF TablesInv, NoMergeChains, MergeInv
<1>11. OneActive'
  BY <1>5 DEF TablesInv, OneActive
<1>12. RemindInv'
  BY <1>2, <1>3, NewRowFits DEF TablesInv, RemindInv
<1>13. NoneComesDue
  BY <1>2, <1>3, NewRowFits DEF NoneComesDue, Due, Pending
<1> QED
  BY <1>6, <1>7, <1>8, <1>9, <1>10, <1>11, <1>12, <1>13 DEF TablesInv

\* merge() closes the source and clears its timers, whatever its state.
LEMMA MergedFits ==
    ASSUME NEW row \in Row, TimersFit(row), NEW into \in Tickets
    PROVE  /\ Merged(row, into) \in Row
           /\ TimersFit(Merged(row, into))
           /\ Merged(row, into).merged = into
           /\ Merged(row, into).state = "closed"
<1>1. into \in 0..MaxTickets /\ NoDate \in Dates
  BY RoutingAssumption DEF Tickets, Dates, NoDate
<1>2. CASE row.state = "closed"
  BY <1>1, <1>2 DEF Merged, Row, TimersFit
<1>3. CASE row.state # "closed"
  BY <1>1, <1>3 DEF Merged, Row, TimersFit, Pending, States
<1> QED
  BY <1>2, <1>3

\* Repointing a row's merge link changes nothing else.
LEMMA RepointFits ==
    ASSUME NEW row \in Row, TimersFit(row), NEW into \in 0..MaxTickets
    PROVE  LET new == [row EXCEPT !.merged = into] IN
           /\ new \in Row
           /\ TimersFit(new)
           /\ new.merged = into
           /\ new.state = row.state /\ new.pending = row.pending /\ new.notified = row.notified
           /\ new.autoClose = row.autoClose
BY DEF Row, TimersFit

\* A ticket is merged into another, and takes along what was merged into it.
LEMMA MergeStep ==
    ASSUME TablesInv, NEW source \in Tickets, NEW target \in Tickets, Merge(source, target)
    PROVE  TablesInv' /\ NoneComesDue
<1> DEFINE new == [t \in Tickets |->
                     IF t = source THEN Merged(ticket[t], target)
                     ELSE IF ticket[t].merged = source THEN [ticket[t] EXCEPT !.merged = target]
                     ELSE ticket[t]]
<1>1. source # target /\ source \in Unmerged /\ target \in Unmerged /\ CustomerFree
      /\ Write(new, {}) /\ UNCHANGED <<created, home, clock, send>>
  BY DEF Merge
<1>2. target \in 0..MaxTickets
  BY RoutingAssumption DEF Tickets
<1>3. /\ new[source] \in Row /\ TimersFit(new[source])
      /\ new[source].merged = target /\ new[source].state = "closed"
  BY MergedFits DEF TablesInv, TablesType, TimersMatchState
<1>4. \A t \in Tickets \ {source} :
         /\ new[t] \in Row /\ TimersFit(new[t])
         /\ new[t].merged = IF ticket[t].merged = source THEN target ELSE ticket[t].merged
         /\ new[t].state = ticket[t].state /\ new[t].pending = ticket[t].pending
         /\ new[t].notified = ticket[t].notified /\ new[t].autoClose = ticket[t].autoClose
  BY <1>2, RepointFits DEF TablesInv, TablesType, TimersMatchState
<1>5. new \in [Tickets -> Row]
  BY <1>3, <1>4
<1> HIDE DEF new
<1>6. /\ ticket' = new
      /\ byStaff' = {t \in byStaff : new[t].state \in Active}
      /\ byStaff' \subseteq Tickets
      /\ reminded' \in [Tickets -> Nat]
      /\ \A t \in Tickets :
            reminded'[t] = IF new[t].state = "pending_reminder" /\ new[t].pending = ticket[t].pending
                           THEN reminded[t] ELSE 0
  BY <1>1, <1>5, WriteStep DEF TablesInv
<1>7. \A t \in Tickets : Exists(t)' <=> Exists(t)
  BY <1>1, <1>3, <1>4, <1>6 DEF Exists, Unmerged
<1>8. Unmerged' = Unmerged \ {source}
  BY <1>1, <1>3, <1>4, <1>6, <1>7 DEF Unmerged, Tickets
<1>9. \A t \in ActiveUnmerged' : t \in ActiveUnmerged /\ (t \in byStaff => t \in byStaff')
  BY <1>4, <1>6, <1>8 DEF ActiveUnmerged, Unmerged
<1>10. TablesType' /\ SendType'
  BY <1>1, <1>5, <1>6 DEF TablesInv, TablesType, SendType
<1>11. SendInv' /\ SeenInv'
  BY <1>1 DEF TablesInv, SendInv, SeenInv, CustomerFree
<1>12. FreshInv'
  BY <1>1, <1>7 DEF TablesInv, FreshInv
<1>13. TimersMatchState'
  BY <1>3, <1>4, <1>6 DEF TimersMatchState
<1>14. NoMergeChains'
  BY <1>1, <1>3, <1>4, <1>6, <1>8 DEF TablesInv, NoMergeChains
<1>15. MergeInv'
  BY <1>1, <1>3, <1>4, <1>6 DEF TablesInv, MergeInv, Active, Pending, Tickets
<1>16. OneActive'
  BY <1>9 DEF TablesInv, OneActive
<1>17. RemindInv'
  BY <1>3, <1>4, <1>6 DEF TablesInv, RemindInv
<1>18. NoneComesDue
  BY <1>3, <1>4, <1>6 DEF NoneComesDue, Due, Pending
<1> QED
  BY <1>10, <1>11, <1>12, <1>13, <1>14, <1>15, <1>16, <1>17, <1>18 DEF TablesInv

\* A ticket is deleted, and those merged into it stand on their own again: an active one
\* among them was reopened by staff.
LEMMA DeleteStep ==
    ASSUME TablesInv, NEW t \in Tickets, Delete(t)
    PROVE  TablesInv' /\ NoneComesDue
<1> DEFINE new == [u \in Tickets |-> IF u = t THEN Absent
                                     ELSE IF ticket[u].merged = t THEN [ticket[u] EXCEPT !.merged = 0]
                                     ELSE ticket[u]]
<1>1. /\ Exists(t) /\ RowFree(t) /\ Write(new, {}) /\ UNCHANGED <<created, clock, send>>
      /\ home' = [m \in Messages |-> IF home[m] = t THEN 0 ELSE home[m]]
  BY DEF Delete
<1>2. 0 \in 0..MaxTickets /\ NoDate \in Dates
  BY RoutingAssumption DEF Dates, NoDate
<1>3. new[t] = Absent /\ Absent \in Row /\ TimersFit(Absent) /\ Absent.state = "absent" /\ Absent.merged = 0
  BY <1>2 DEF Absent, Row, TimersFit, States, Active, Pending
<1>4. \A u \in Tickets \ {t} :
         /\ new[u] \in Row /\ TimersFit(new[u])
         /\ new[u].merged = IF ticket[u].merged = t THEN 0 ELSE ticket[u].merged
         /\ new[u].state = ticket[u].state /\ new[u].pending = ticket[u].pending
         /\ new[u].notified = ticket[u].notified /\ new[u].autoClose = ticket[u].autoClose
  BY <1>2, RepointFits DEF TablesInv, TablesType, TimersMatchState
<1>5. new \in [Tickets -> Row]
  BY <1>3, <1>4
<1> HIDE DEF new
<1>6. /\ ticket' = new
      /\ byStaff' = {u \in byStaff : new[u].state \in Active}
      /\ byStaff' \subseteq Tickets
      /\ reminded' \in [Tickets -> Nat]
      /\ \A u \in Tickets :
            reminded'[u] = IF new[u].state = "pending_reminder" /\ new[u].pending = ticket[u].pending
                           THEN reminded[u] ELSE 0
  BY <1>1, <1>5, WriteStep DEF TablesInv
<1>7. \A u \in Tickets : Exists(u)' <=> Exists(u) /\ u # t
  BY <1>3, <1>4, <1>6 DEF Exists
<1>8. t # 0
  BY DEF Tickets
<1>9. Unmerged' = (Unmerged \ {t}) \cup {u \in Tickets \ {t} : Exists(u) /\ ticket[u].merged = t}
  BY <1>3, <1>4, <1>6, <1>7, <1>8 DEF Unmerged
<1>10. \A u \in ActiveUnmerged' :
          /\ u \in ActiveUnmerged \/ u \in byStaff
          /\ u \in byStaff => u \in byStaff'
  BY <1>4, <1>6, <1>8, <1>9 DEF TablesInv, MergeInv, ActiveUnmerged, Unmerged
<1>11. TablesType' /\ SendType'
  BY <1>1, <1>2, <1>5, <1>6 DEF TablesInv, TablesType, SendType
<1>12. \A r \in Routers : send[r].step = "write" => send[r].on # t
  BY <1>1 DEF RowFree
<1>13. SendInv'
  BY <1>1, <1>9, <1>12 DEF TablesInv, SendInv
<1>14. SeenInv'
  <2>1. \A u \in ActiveUnmerged \ {t} : u \in ActiveUnmerged'
    BY <1>4, <1>6, <1>9 DEF ActiveUnmerged, Unmerged
  <2>2. \A r \in Routers : send[r].step = "write" /\ send[r].on \notin ActiveUnmerged'
           => send[r].on \notin ActiveUnmerged
    BY <1>12, <2>1
  <2>3. \A r \in Routers : send[r].step = "active" =>
           ActiveUnmerged' \subseteq byStaff' \cup send[r].seen
    BY <1>10 DEF TablesInv, SeenInv
  <2>4. ASSUME ActiveUnmerged \subseteq byStaff PROVE ActiveUnmerged' \subseteq byStaff'
    BY <1>10, <2>4
  <2> QED
    BY <1>1, <2>2, <2>3, <2>4 DEF TablesInv, SeenInv
<1>15. FreshInv'
  BY <1>1, <1>7 DEF TablesInv, FreshInv
<1>16. TimersMatchState'
  BY <1>3, <1>4, <1>6 DEF TimersMatchState
<1>17. NoMergeChains'
  BY <1>3, <1>4, <1>6, <1>9 DEF TablesInv, NoMergeChains
<1>18. MergeInv'
  BY <1>3, <1>4, <1>6 DEF TablesInv, MergeInv
<1>19. OneActive'
  BY <1>10 DEF TablesInv, OneActive
<1>20. RemindInv'
  BY <1>3, <1>4, <1>6 DEF TablesInv, RemindInv
<1>21. NoneComesDue
  BY <1>3, <1>4, <1>6 DEF NoneComesDue, Due, Pending
<1> QED
  BY <1>11, <1>13, <1>14, <1>15, <1>16, <1>17, <1>18, <1>19, <1>20, <1>21 DEF TablesInv

-------------------------------------------------------------------------------
(* The customer's send. *)

\* A step of a send that writes no table.
LEMMA SendKeeps ==
    ASSUME TablesInv, UNCHANGED <<routeVars, clock>>, SendType', SendInv', SeenInv'
    PROVE  TablesInv' /\ NoneComesDue
<1>1. Unmerged' = Unmerged /\ ActiveUnmerged' = ActiveUnmerged
  BY DEF routeVars, Unmerged, ActiveUnmerged, Exists
<1>2. TablesType' /\ FreshInv' /\ TimersMatchState' /\ MergeInv' /\ RemindInv'
  BY DEF routeVars, TablesInv, TablesType, FreshInv, TimersMatchState, MergeInv, RemindInv, Exists
<1>3. NoMergeChains' /\ OneActive'
  BY <1>1 DEF routeVars, TablesInv, NoMergeChains, OneActive
<1> QED
  BY <1>2, <1>3 DEF TablesInv, NoneComesDue, routeVars, Due

LEMMA BeginStep ==
    ASSUME TablesInv, NEW r \in Routers, NEW m \in Messages, Begin(r, m)
    PROVE  TablesInv' /\ NoneComesDue
<1> DEFINE x == [Idle EXCEPT !.step = "active", !.msg = m, !.now = clock, !.seen = ActiveUnmerged]
<1>1. /\ CustomerFree /\ home[m] = 0 /\ UNCHANGED <<routeVars, clock>>
      /\ send' = [send EXCEPT ![r] = x]
  BY DEF Begin
<1>2. /\ x.step = "active" /\ x.msg = m /\ x.seen = ActiveUnmerged /\ ~x.fresh
      /\ x \in SendRec
  <2>1. ActiveUnmerged \in SUBSET Tickets /\ clock \in 0..MaxTime /\ 0 \in 0..MaxTickets
    BY RoutingAssumption DEF TablesInv, TablesType, ActiveUnmerged, Unmerged
  <2>2. Idle \in SendRec
    BY RoutingAssumption DEF Idle, SendRec
  <2>3. x \in SendRec
    BY <2>1, <2>2 DEF SendRec
  <2>4. x.step = "active" /\ x.msg = m /\ x.seen = ActiveUnmerged /\ ~x.fresh
    BY DEF Idle
  <2> HIDE DEF x
  <2> QED
    BY <2>3, <2>4
<1> HIDE DEF x
<1>3. /\ send'[r] = x
      /\ \A q \in Routers \ {r} : send'[q].step = "idle"
      /\ SendType'
  BY <1>1, <1>2 DEF TablesInv, SendType, CustomerFree
<1>4. ActiveUnmerged' = ActiveUnmerged
  BY <1>1 DEF routeVars, Unmerged, ActiveUnmerged, Exists
<1>5. SendInv' /\ SeenInv'
  BY <1>1, <1>2, <1>3, <1>4 DEF SendInv, SeenInv, routeVars
<1> QED
  BY <1>1, <1>3, <1>5, SendKeeps

\* The send was the only one: whatever it reads next, the others are idle.
LEMMA PickActiveStep ==
    ASSUME TablesInv, NEW r \in Routers, PickActive(r)
    PROVE  TablesInv' /\ NoneComesDue
<1> DEFINE found == send[r].seen \cap ActiveUnmerged
<1>1. send[r].step = "active" /\ UNCHANGED <<routeVars, clock>>
  BY DEF PickActive
<1>2. \A q \in Routers \ {r} : send[q].step = "idle"
  BY <1>1 DEF TablesInv, SendInv
<1>3. send[r].msg \in Messages /\ home[send[r].msg] = 0 /\ ~send[r].fresh
  BY <1>1 DEF TablesInv, SendInv
<1>4. ActiveUnmerged' = ActiveUnmerged /\ Unmerged' = Unmerged
  BY <1>1 DEF routeVars, Unmerged, ActiveUnmerged, Exists
<1>5. ActiveUnmerged \subseteq byStaff \cup send[r].seen
  BY <1>1 DEF TablesInv, SeenInv
<1>6. CASE found # {}
  <2>1. PICK t \in found : send' = [send EXCEPT ![r].step = "write", ![r].on = t, ![r].seen = {}]
    BY <1>6 DEF PickActive
  <2>2. t \in Unmerged /\ t \in ActiveUnmerged /\ t \in 0..MaxTickets /\ t # 0
    BY <2>1, RoutingAssumption DEF ActiveUnmerged, Unmerged, Tickets
  <2>3. /\ SendType'
        /\ send'[r].step = "write" /\ send'[r].on = t
        /\ send'[r].msg = send[r].msg /\ (send'[r].fresh <=> send[r].fresh)
        /\ \A q \in Routers \ {r} : send'[q].step = "idle"
    BY <1>2, <2>1, <2>2 DEF TablesInv, SendType, SendRec
  <2>4. SendInv' /\ SeenInv'
    BY <1>1, <1>3, <1>4, <2>2, <2>3 DEF SendInv, SeenInv, routeVars
  <2> QED
    BY <1>1, <2>3, <2>4, SendKeeps
<1>7. CASE found = {}
  <2>1. send' = [send EXCEPT ![r].step = "latest", ![r].seen = Unmerged]
    BY <1>7 DEF PickActive
  <2>2. Unmerged \subseteq Tickets
    BY DEF Unmerged
  <2>3. /\ SendType'
        /\ send'[r].step = "latest"
        /\ send'[r].msg = send[r].msg /\ (send'[r].fresh <=> send[r].fresh)
        /\ \A q \in Routers \ {r} : send'[q].step = "idle"
    BY <1>2, <2>1, <2>2, ZenonT(60) DEF TablesInv, SendType, SendRec
  <2>4. ActiveUnmerged \subseteq byStaff
    BY <1>5, <1>7
  <2>5. SendInv' /\ SeenInv'
    BY <1>1, <1>3, <1>4, <2>3, <2>4 DEF SendInv, SeenInv, routeVars
  <2> QED
    BY <1>1, <2>3, <2>5, SendKeeps
<1> QED
  BY <1>6, <1>7

LEMMA PickLatestStep ==
    ASSUME TablesInv, NEW r \in Routers, PickLatest(r)
    PROVE  TablesInv' /\ NoneComesDue
<1>1. send[r].step = "latest" /\ UNCHANGED <<routeVars, clock>>
  BY DEF PickLatest
<1>2. \A q \in Routers \ {r} : send[q].step = "idle"
  BY <1>1 DEF TablesInv, SendInv
<1>3. send[r].msg \in Messages /\ home[send[r].msg] = 0
  BY <1>1 DEF TablesInv, SendInv
<1>4. ActiveUnmerged' = ActiveUnmerged /\ Unmerged' = Unmerged
  BY <1>1 DEF routeVars, Unmerged, ActiveUnmerged, Exists
<1>5. ActiveUnmerged \subseteq byStaff
  BY <1>1 DEF TablesInv, SeenInv
<1>6. PICK on \in (send[r].seen \cap Unmerged) \cup {0}, fresh \in BOOLEAN :
         /\ fresh => created < MaxTickets
         /\ fresh \/ on # 0
         /\ send' = [send EXCEPT ![r].step = "write", ![r].seen = {}, ![r].fresh = fresh, ![r].on = on]
  BY DEF PickLatest
<1>7. on \in 0..MaxTickets /\ (on # 0 => on \in Unmerged)
  BY RoutingAssumption DEF Unmerged, Tickets
<1>8. /\ SendType'
      /\ send'[r].step = "write" /\ send'[r].on = on
      /\ send'[r].msg = send[r].msg /\ (send'[r].fresh <=> fresh)
      /\ \A q \in Routers \ {r} : send'[q].step = "idle"
  <2> DEFINE x == [send[r] EXCEPT !.step = "write", !.seen = {}, !.fresh = fresh, !.on = on]
  <2>1. send' = [send EXCEPT ![r] = x]
    BY <1>6
  <2>2. send[r] \in SendRec
    BY DEF TablesInv, SendType
  <2>3. /\ x \in SendRec
        /\ x.step = "write" /\ x.msg = send[r].msg /\ x.on = on /\ (x.fresh <=> fresh)
    BY <1>6, <1>7, <2>2 DEF SendRec
  <2> HIDE DEF x
  <2> QED
    BY <1>2, <2>1, <2>3 DEF TablesInv, SendType
<1>9. SendInv'
  <2>1. UNCHANGED <<home, created>>
    BY <1>1 DEF routeVars
  <2>2. (send'[r].fresh => created < MaxTickets) /\ (send'[r].fresh \/ on # 0)
    BY <1>6, <1>8
  <2> QED
    BY <1>3, <1>4, <1>7, <1>8, <2>1, <2>2 DEF SendInv
<1>10. SeenInv'
  BY <1>1, <1>4, <1>5, <1>8 DEF SeenInv, routeVars
<1> QED
  BY <1>1, <1>8, <1>9, <1>10, SendKeeps

LEMMA AbortStep ==
    ASSUME TablesInv, NEW r \in Routers, Abort(r)
    PROVE  TablesInv' /\ NoneComesDue
<1>1. UNCHANGED <<routeVars, clock>> /\ send' = [send EXCEPT ![r] = Idle]
  BY DEF Abort
<1>2. Idle \in SendRec /\ Idle.step = "idle"
  BY RoutingAssumption DEF Idle, SendRec
<1>3. /\ SendType' /\ send'[r].step = "idle"
      /\ \A q \in Routers \ {r} : send'[q] = send[q]
  BY <1>1, <1>2 DEF TablesInv, SendType
<1>4. ActiveUnmerged' = ActiveUnmerged /\ Unmerged' = Unmerged
  BY <1>1 DEF routeVars, Unmerged, ActiveUnmerged, Exists
<1>5. SendInv' /\ SeenInv'
  BY <1>1, <1>3, <1>4 DEF TablesInv, SendInv, SeenInv, routeVars
<1> QED
  BY <1>1, <1>3, <1>5, SendKeeps

\* What a commit does: the message's ticket is its own or a new one, new or open after, and
\* a ticket whose grace period had run out may be closed.
LEMMA CommitWrites ==
    ASSUME TablesInv, NEW r \in Routers, Commit(r)
    PROVE  LET on == send[r].on
               to == IF send[r].fresh THEN created + 1 ELSE on
           IN
           /\ to \in Tickets
           /\ IF send[r].fresh THEN ~Exists(to) ELSE to \in Unmerged
           /\ created' = IF send[r].fresh THEN created + 1 ELSE created
           /\ home' = [home EXCEPT ![send[r].msg] = to]
           /\ ticket' \in [Tickets -> Row]
           /\ \A t \in Tickets : TimersFit(ticket'[t])
           /\ ticket'[to].state \in {"new", "open"} /\ ticket'[to].merged = 0
           /\ \A t \in Tickets \ {to} :
                 \/ ticket'[t] = ticket[t]
                 \/ /\ ticket[t].state = "resolved" /\ ticket'[t].state = "closed"
                    /\ ticket'[t].merged = ticket[t].merged
           /\ byStaff' = {t \in byStaff : ticket'[t].state \in Active}
           /\ byStaff' \subseteq Tickets
           /\ reminded' \in [Tickets -> Nat]
           /\ \A t \in Tickets :
                 reminded'[t] = IF /\ ticket'[t].state = "pending_reminder"
                                   /\ ticket'[t].pending = ticket[t].pending
                                THEN reminded[t] ELSE 0
<1> DEFINE on  == send[r].on
           now == send[r].now
           to  == IF send[r].fresh THEN created + 1 ELSE on
           old == [t \in Tickets |->
                     IF t = on /\ Expired(t, now)
                     THEN Transition(ticket[t], "sweeper", "closed", NoDate, now, Grace)
                     ELSE IF t = to /\ send[r].fresh THEN NewRow("customer_message") ELSE ticket[t]]
           new == [old EXCEPT ![to] = Transition(@, "customer_message", @.state, NoDate, now, Grace)]
<1>1. /\ send[r].step = "write"
      /\ created' = IF send[r].fresh THEN created + 1 ELSE created
      /\ home' = [home EXCEPT ![send[r].msg] = to]
      /\ Write(new, {})
  BY DEF Commit
<1>2. /\ send[r].fresh => created < MaxTickets
      /\ send[r].fresh \/ on # 0
      /\ on # 0 => on \in Unmerged
  BY <1>1 DEF TablesInv, SendInv
<1>3. /\ to \in Tickets
      /\ send[r].fresh => ~Exists(to)
      /\ ~send[r].fresh => to \in Unmerged
      /\ send[r].fresh => to # on
  <2>1. CASE send[r].fresh
    <3>1. to \in Tickets /\ to > created
      BY <1>2, <2>1, RoutingAssumption DEF TablesInv, TablesType, Tickets
    <3>2. ~Exists(to)
      BY <3>1 DEF TablesInv, FreshInv
    <3>3. to # on
      BY <1>2, <3>1, <3>2 DEF Unmerged, Tickets
    <3> QED
      BY <2>1, <3>1, <3>2, <3>3
  <2>2. CASE ~send[r].fresh
    BY <1>2, <2>2 DEF Unmerged
  <2> QED
    BY <2>1, <2>2
<1>4. now \in 0..MaxTime /\ NoDate \in Dates /\ "closed" \in States
  BY RoutingAssumption DEF TablesInv, SendType, SendRec, Dates, NoDate, States
<1>5. \A t \in Tickets : ticket[t] \in Row /\ TimersFit(ticket[t])
  BY DEF TablesInv, TablesType, TimersMatchState
<1>6. ASSUME on \in Tickets, Expired(on, now)
      PROVE  LET row == Transition(ticket[on], "sweeper", "closed", NoDate, now, Grace) IN
             /\ row \in Row /\ TimersFit(row) /\ row.state = "closed"
             /\ row.merged = ticket[on].merged /\ ticket[on].state = "resolved"
  <2>1. ticket[on].state = "resolved" /\ ticket[on].state \in States
    BY <1>6 DEF Expired, States
  <2>2. Allowed(ticket[on], "sweeper", "closed", NoDate, now)
    BY <2>1 DEF Allowed, SWEEPER_TARGETS
  <2>3. TargetFor(ticket[on].state, "sweeper", "closed") = "closed"
    BY DEF TargetFor
  <2> QED
    BY <1>4, <1>5, <1>6, <2>1, <2>2, <2>3, TransitionFits
<1>7. /\ old[to] \in Row /\ TimersFit(old[to]) /\ old[to].state \in States /\ old[to].merged = 0
      /\ send[r].fresh => old[to].state = "new"
  <2>1. CASE send[r].fresh
    <3>1. old[to] = NewRow("customer_message")
      BY <1>3, <2>1
    <3>2. NewRow("customer_message").state = "new"
      BY DEF NewRow, Absent, InitialState
    <3> QED
      BY <2>1, <3>1, <3>2, NewRowFits DEF States, Active
  <2>2. CASE ~send[r].fresh
    <3>1. to = on /\ on \in Tickets /\ ticket[on].merged = 0 /\ ticket[on].state \in States
      BY <1>2, <1>5, <2>2 DEF Unmerged, Exists, Row
    <3>2. CASE Expired(on, now)
      BY <1>6, <2>2, <3>1, <3>2 DEF States
    <3>3. CASE ~Expired(on, now)
      BY <1>5, <2>2, <3>1, <3>3
    <3> QED
      BY <3>2, <3>3
  <2> QED
    BY <2>1, <2>2
<1>8. \A t \in Tickets \ {to} :
         /\ old[t] \in Row /\ TimersFit(old[t])
         /\ \/ old[t] = ticket[t]
            \/ /\ ticket[t].state = "resolved" /\ old[t].state = "closed"
               /\ old[t].merged = ticket[t].merged
  BY <1>5, <1>6
<1>9. \A t \in Tickets : old[t] \in Row
  BY <1>7, <1>8
<1>10. old \in [Tickets -> Row]
  BY <1>9
<1> HIDE DEF old
<1>11. new = [old EXCEPT ![to] = Transition(old[to], "customer_message", old[to].state, NoDate, now, Grace)]
  OBVIOUS
<1>12. LET row == Transition(old[to], "customer_message", old[to].state, NoDate, now, Grace) IN
       /\ row \in Row /\ TimersFit(row) /\ row.merged = 0
       /\ row.state \in {"new", "open"}
  <2>1. Allowed(old[to], "customer_message", old[to].state, NoDate, now)
    BY DEF Allowed
  <2>2. TargetFor(old[to].state, "customer_message", old[to].state) \in {"new", "open"}
    BY DEF TargetFor
  <2> QED
    BY <1>4, <1>7, <2>1, <2>2, TransitionFits
<1> HIDE DEF new, to
<1>13. /\ new \in [Tickets -> Row]
       /\ new[to] \in Row /\ TimersFit(new[to]) /\ new[to].merged = 0
       /\ new[to].state \in {"new", "open"}
       /\ \A t \in Tickets \ {to} : new[t] = old[t]
  BY <1>3, <1>10, <1>11, <1>12
<1>14. /\ ticket' = new
       /\ byStaff' = {t \in byStaff : new[t].state \in Active}
       /\ byStaff' \subseteq Tickets
       /\ reminded' \in [Tickets -> Nat]
       /\ \A t \in Tickets :
             reminded'[t] = IF new[t].state = "pending_reminder" /\ new[t].pending = ticket[t].pending
                            THEN reminded[t] ELSE 0
  BY <1>1, <1>13, WriteStep DEF TablesInv
<1>15. \A t \in Tickets : TimersFit(ticket'[t])
  BY <1>8, <1>13, <1>14
<1>16. \A t \in Tickets \ {to} :
          \/ ticket'[t] = ticket[t]
          \/ /\ ticket[t].state = "resolved" /\ ticket'[t].state = "closed"
             /\ ticket'[t].merged = ticket[t].merged
  BY <1>8, <1>13, <1>14
<1> QED
  BY <1>1, <1>3, <1>13, <1>14, <1>15, <1>16 DEF to

\* A new ticket is made when every active one is the staff's doing.
LEMMA CommitStep ==
    ASSUME TablesInv, NEW r \in Routers, Commit(r)
    PROVE  TablesInv' /\ NoneComesDue
<1> DEFINE on == send[r].on
           to == IF send[r].fresh THEN created + 1 ELSE on
<1>1. /\ send[r].step = "write" /\ send' = [send EXCEPT ![r] = Idle] /\ clock' = clock
  BY DEF Commit
<1>2. /\ to \in Tickets
      /\ send[r].fresh => ~Exists(to)
      /\ ~send[r].fresh => to = on /\ to \in Unmerged
      /\ created' = IF send[r].fresh THEN created + 1 ELSE created
      /\ send[r].fresh => to = created + 1
      /\ home' = [home EXCEPT ![send[r].msg] = to]
  BY CommitWrites
<1>3. /\ ticket' \in [Tickets -> Row]
      /\ \A t \in Tickets : TimersFit(ticket'[t])
      /\ ticket'[to].state \in {"new", "open"} /\ ticket'[to].merged = 0
      /\ \A t \in Tickets \ {to} :
            \/ ticket'[t] = ticket[t]
            \/ /\ ticket[t].state = "resolved" /\ ticket'[t].state = "closed"
               /\ ticket'[t].merged = ticket[t].merged
  BY CommitWrites
<1>4. /\ byStaff' = {t \in byStaff : ticket'[t].state \in Active}
      /\ byStaff' \subseteq Tickets
      /\ reminded' \in [Tickets -> Nat]
      /\ \A t \in Tickets :
            reminded'[t] = IF /\ ticket'[t].state = "pending_reminder"
                              /\ ticket'[t].pending = ticket[t].pending
                           THEN reminded[t] ELSE 0
  BY CommitWrites
<1>5. send[r].fresh => created < MaxTickets
  BY <1>1 DEF TablesInv, SendInv
<1> HIDE DEF to
<1>6. \A t \in Tickets \ {to} : Exists(t)' <=> Exists(t)
  BY <1>3 DEF Exists
<1>7. ticket'[to].state # "absent"
  BY <1>3
<1>8. Unmerged' = Unmerged \cup {to}
  BY <1>2, <1>3, <1>6, <1>7 DEF Unmerged, Exists
<1>9. ActiveUnmerged' = ActiveUnmerged \cup {to}
  BY <1>2, <1>3, <1>8 DEF ActiveUnmerged, Unmerged, Active, Pending
<1>10. \A t \in ActiveUnmerged' : t \in byStaff => t \in byStaff'
  BY <1>4 DEF ActiveUnmerged, Unmerged
<1>11. TablesType'
  <2>1. created' \in 0..MaxTickets
    BY <1>2, <1>5, RoutingAssumption DEF TablesInv, TablesType
  <2>2. to \in 0..MaxTickets
    BY <1>2, RoutingAssumption DEF Tickets
  <2>3. home' \in [Messages -> 0..MaxTickets]
    BY <1>2, <2>2 DEF TablesInv, TablesType
  <2> QED
    BY <1>1, <1>3, <1>4, <2>1, <2>3 DEF TablesInv, TablesType
<1>12. Idle \in SendRec /\ Idle.step = "idle"
  BY RoutingAssumption DEF Idle, SendRec
<1>13. /\ SendType'
       /\ \A q \in Routers : send'[q].step = "idle"
  BY <1>1, <1>12 DEF TablesInv, SendType, SendInv
<1>14. SendInv' /\ SeenInv'
  BY <1>13 DEF SendInv, SeenInv
<1>15. FreshInv'
  <2>1. \A t \in Tickets : t > created' => t # to /\ t > created
    BY <1>2 DEF TablesInv, TablesType, FreshInv, Unmerged, Tickets
  <2> QED
    BY <1>6, <2>1 DEF TablesInv, FreshInv
<1>16. TimersMatchState'
  BY <1>3 DEF TimersMatchState
<1>17. NoMergeChains'
  BY <1>3, <1>8 DEF TablesInv, NoMergeChains
<1>18. MergeInv'
  BY <1>3, <1>4 DEF TablesInv, MergeInv, Active, Pending
<1>19. OneActive'
  <2>1. CASE send[r].fresh \/ on \notin ActiveUnmerged
    <3>1. ActiveUnmerged \subseteq byStaff
      BY <1>1, <2>1 DEF TablesInv, SeenInv
    <3> QED
      BY <1>9, <1>10, <3>1 DEF OneActive
  <2>2. CASE ~send[r].fresh /\ on \in ActiveUnmerged
    BY <1>2, <1>9, <1>10, <2>2 DEF TablesInv, OneActive
  <2> QED
    BY <2>1, <2>2
<1>20. RemindInv'
  BY <1>3, <1>4 DEF TablesInv, RemindInv
<1>21. NoneComesDue
  BY <1>3 DEF NoneComesDue, Due, Pending
<1> QED
  BY <1>11, <1>13, <1>14, <1>15, <1>16, <1>17, <1>18, <1>19, <1>20, <1>21 DEF TablesInv

-------------------------------------------------------------------------------
(* The staff's changes of one ticket, and the sweep's. *)

\* Every row that exists has a state of the machine.
LEMMA RowStates ==
    ASSUME TablesInv, NEW t \in Tickets, Exists(t)
    PROVE  ticket[t] \in Row /\ TimersFit(ticket[t]) /\ ticket[t].state \in States
BY DEF TablesInv, TablesType, TimersMatchState, Exists, Row

LEMMA UpdateStep ==
    ASSUME TablesInv, NEW t \in Tickets, NEW to \in States, NEW until \in Dates, Update(t, to, until)
    PROVE  TablesInv' /\ NoneComesDue
<1> DEFINE row == Transition(ticket[t], "agent", to, until, clock, Grace)
           staff == IF ticket[t].state \in Active THEN {} ELSE {t}
<1>1. /\ Exists(t) /\ RowFree(t) /\ Allowed(ticket[t], "agent", to, until, clock)
      /\ Write([ticket EXCEPT ![t] = row], staff)
      /\ UNCHANGED <<created, home, clock, send>>
  BY DEF Update
<1>2. ticket[t] \in Row /\ TimersFit(ticket[t]) /\ ticket[t].state \in States
  BY <1>1, RowStates
<1>3. clock \in 0..MaxTime /\ clock \in Int
  BY DEF TablesInv, TablesType
<1>4. /\ row \in Row /\ TimersFit(row) /\ row.state \in States
      /\ row.merged = ticket[t].merged /\ row.notified = ticket[t].notified
  BY <1>1, <1>2, <1>3, TransitionFits
<1>5. \A n \in 0..clock : Due(row, n) => Due(ticket[t], n) /\ row.state = ticket[t].state
  <2>1. \A n \in 0..clock : n \in 0..MaxTime /\ n <= clock
    BY <1>3, RoutingAssumption
  <2>2. row.state = TargetFor(ticket[t].state, "agent", to)
    BY <1>1, <1>2, <1>3, TransitionFits
  <2> QED
    BY <1>1, <1>2, <1>3, <2>1, <2>2, TransitionNotDue
<1>6. staff \in SUBSET {t} /\ (row.state \in Active => ticket[t].state \in Active \/ t \in staff)
  OBVIOUS
<1> HIDE DEF row, staff
<1>7. TablesInv'
  BY <1>1, <1>4, <1>6, RowStep
<1>8. ticket' = [ticket EXCEPT ![t] = row] /\ ticket \in [Tickets -> Row]
  BY <1>1 DEF Write, TablesInv, TablesType
<1>9. NoneComesDue
  BY <1>5, <1>8 DEF NoneComesDue
<1> QED
  BY <1>7, <1>9

LEMMA ReplyStep ==
    ASSUME TablesInv, NEW t \in Tickets, Reply(t)
    PROVE  TablesInv' /\ NoneComesDue
<1> DEFINE row == Transition(ticket[t], "agent_reply", ticket[t].state, NoDate, clock, Grace)
<1>1. /\ ticket[t].state = "new" /\ RowFree(t)
      /\ Write([ticket EXCEPT ![t] = row], {})
      /\ UNCHANGED <<created, home, clock, send>>
  BY DEF Reply
<1>2. Exists(t) /\ ticket[t].state \in Active
  BY <1>1 DEF Exists, Active
<1>3. ticket[t] \in Row /\ TimersFit(ticket[t]) /\ ticket[t].state \in States
  BY <1>2, RowStates
<1>4. clock \in 0..MaxTime /\ NoDate \in Dates
  BY RoutingAssumption DEF TablesInv, TablesType, Dates, NoDate
<1>5. Allowed(ticket[t], "agent_reply", ticket[t].state, NoDate, clock)
  BY DEF Allowed
<1>6. /\ row \in Row /\ TimersFit(row) /\ row.state \in States
      /\ row.merged = ticket[t].merged /\ row.notified = ticket[t].notified
      /\ row.state = TargetFor(ticket[t].state, "agent_reply", ticket[t].state)
  BY <1>1, <1>3, <1>4, <1>5, TransitionFits
<1>7. row.state = "open"
  BY <1>1, <1>6 DEF TargetFor
<1>8. {} \in SUBSET {t}
  OBVIOUS
<1> HIDE DEF row
<1>9. TablesInv'
  BY <1>1, <1>2, <1>6, <1>8, RowStep
<1>10. ticket' = [ticket EXCEPT ![t] = row] /\ ticket \in [Tickets -> Row]
  BY <1>1 DEF Write, TablesInv, TablesType
<1>11. NoneComesDue
  BY <1>7, <1>10 DEF NoneComesDue, Due
<1> QED
  BY <1>9, <1>11

\* A message moves between tickets: one that is being sent is on none.
LEMMA MoveStep ==
    ASSUME TablesInv, NEW m \in Messages, NEW t \in Tickets, Move(m, t)
    PROVE  TablesInv' /\ NoneComesDue
<1>1. /\ home[m] # 0 /\ home' = [home EXCEPT ![m] = t]
      /\ UNCHANGED <<ticket, created, clock, send, byStaff, reminded>>
  BY DEF Move
<1>2. t \in 0..MaxTickets
  BY RoutingAssumption DEF Tickets
<1>3. Unmerged' = Unmerged /\ ActiveUnmerged' = ActiveUnmerged
  BY <1>1 DEF Unmerged, ActiveUnmerged, Exists
<1>4. TablesType' /\ SendType'
  BY <1>1, <1>2 DEF TablesInv, TablesType, SendType
<1>5. SendInv' /\ SeenInv'
  BY <1>1, <1>3 DEF TablesInv, TablesType, SendInv, SeenInv
<1>6. FreshInv' /\ TimersMatchState' /\ MergeInv' /\ RemindInv' /\ NoMergeChains' /\ OneActive'
  BY <1>1, <1>3 DEF TablesInv, FreshInv, TimersMatchState, MergeInv, RemindInv, NoMergeChains,
                    OneActive, Exists
<1> QED
  BY <1>1, <1>4, <1>5, <1>6 DEF TablesInv, NoneComesDue

\* Time passes for the tables: whatever is kept, is kept.
LEMMA TickStep ==
    ASSUME TablesInv, UNCHANGED <<routeVars, send>>, clock' \in 1..MaxTime
    PROVE  TablesInv' /\ NoneComesDue
<1>1. Unmerged' = Unmerged /\ ActiveUnmerged' = ActiveUnmerged
  BY DEF routeVars, Unmerged, ActiveUnmerged, Exists
<1>2. TablesType' /\ SendType' /\ SendInv' /\ SeenInv'
  BY <1>1 DEF routeVars, TablesInv, TablesType, SendType, SendInv, SeenInv
<1>3. FreshInv' /\ TimersMatchState' /\ MergeInv' /\ RemindInv' /\ NoMergeChains' /\ OneActive'
  BY <1>1 DEF routeVars, TablesInv, FreshInv, TimersMatchState, MergeInv, RemindInv, NoMergeChains,
              OneActive, Exists
<1> QED
  BY <1>2, <1>3 DEF TablesInv, NoneComesDue, routeVars

\* A reminder is claimed while the row is pending and not reminded of for its date.
LEMMA RemindStep ==
    ASSUME TablesInv, NEW t \in Tickets, NEW now \in 0..MaxTime,
           Due(ticket[t], now), ticket[t].state = "pending_reminder",
           ticket' = [ticket EXCEPT ![t].notified = now],
           reminded' = [reminded EXCEPT ![t] = @ + 1],
           UNCHANGED <<created, home, clock, send, byStaff>>
    PROVE  TablesInv' /\ NoneComesDue
<1> DEFINE row == [ticket[t] EXCEPT !.notified = now]
<1>1. now \in Dates
  BY RoutingAssumption DEF Dates
<1>2. ticket[t] \in Row
  BY DEF TablesInv, TablesType
<1>3. /\ row \in Row
      /\ row.state = ticket[t].state /\ row.pending = ticket[t].pending
      /\ row.autoClose = ticket[t].autoClose /\ row.merged = ticket[t].merged
      /\ (row.closed <=> ticket[t].closed) /\ (row.resolved <=> ticket[t].resolved)
      /\ row.notified = now
  BY <1>1, <1>2 DEF Row
<1>4. TimersFit(row)
  <2>1. TimersFit(ticket[t])
    BY DEF TablesInv, TimersMatchState
  <2> QED
    BY <1>3, <2>1 DEF TimersFit
<1>5. ticket' = [ticket EXCEPT ![t] = row]
  OBVIOUS
<1> HIDE DEF row
<1>6. /\ ticket' \in [Tickets -> Row] /\ ticket'[t] = row
      /\ \A u \in Tickets \ {t} : ticket'[u] = ticket[u]
  BY <1>3, <1>5 DEF TablesInv, TablesType
<1>7. \A u \in Tickets : /\ ticket'[u].state = ticket[u].state
                         /\ ticket'[u].merged = ticket[u].merged
  BY <1>3, <1>6
<1>8. Unmerged' = Unmerged /\ ActiveUnmerged' = ActiveUnmerged
  BY <1>7 DEF Unmerged, ActiveUnmerged, Exists
<1>9. ticket[t].pending <= now /\ ticket[t].notified < ticket[t].pending
  BY DEF Due
<1>10. ticket[t].pending \in Int /\ ticket[t].notified \in Int /\ now \in Int
  BY <1>2 DEF Row, Dates
<1>11. reminded[t] = 0
  BY <1>9, <1>10 DEF TablesInv, RemindInv
<1>12. /\ reminded'[t] = 1 /\ reminded' \in [Tickets -> Nat]
       /\ \A u \in Tickets \ {t} : reminded'[u] = reminded[u]
  BY <1>11 DEF TablesInv, TablesType
<1>13. TablesType' /\ SendType'
  BY <1>6, <1>12 DEF TablesInv, TablesType, SendType
<1>14. SendInv' /\ SeenInv'
  BY <1>8 DEF TablesInv, SendInv, SeenInv
<1>15. FreshInv' /\ MergeInv' /\ NoMergeChains' /\ OneActive'
  BY <1>7, <1>8 DEF TablesInv, FreshInv, MergeInv, NoMergeChains, OneActive, Exists
<1>16. TimersMatchState'
  BY <1>4, <1>6 DEF TablesInv, TimersMatchState
<1>17. RemindInv'
  BY <1>3, <1>6, <1>9, <1>10, <1>12 DEF TablesInv, RemindInv
<1>18. NoneComesDue
  <2>1. \A n \in 0..clock : Due(row, n) => Due(ticket[t], n)
    BY <1>3, <1>9, <1>10 DEF Due, Pending
  <2> QED
    BY <1>3, <1>6, <2>1 DEF NoneComesDue
<1> QED
  BY <1>13, <1>14, <1>15, <1>16, <1>17, <1>18 DEF TablesInv

-------------------------------------------------------------------------------
(* The sweep. *)

\* A sweep's own times are past, so what another transaction writes does not come to be
\* due for it.
LEMMA SweepKept ==
    ASSUME TablesInv, SweepInv, NoneComesDue, sweep' = sweep, clock' \in Int, clock <= clock'
    PROVE  SweepInv'
<1>1. SweepType' /\ \A s \in Sweepers : sweep'[s].now <= clock'
  BY DEF SweepInv, SweepType, SweepRec, TablesInv, TablesType
<1>2. ASSUME NEW s \in Sweepers, sweep[s].at # 0, Due(ticket'[sweep[s].at], sweep[s].now)
      PROVE  ticket'[sweep[s].at].state = sweep[s].branch
  <2>1. sweep[s].at \in Tickets /\ sweep[s].now \in 0..clock
    BY <1>2, RoutingAssumption DEF SweepInv, SweepType, SweepRec, TablesInv, TablesType, Tickets
  <2>2. /\ Due(ticket[sweep[s].at], sweep[s].now)
        /\ ticket'[sweep[s].at].state = ticket[sweep[s].at].state
    BY <1>2, <2>1 DEF NoneComesDue
  <2> QED
    BY <1>2, <2>2 DEF SweepInv, ClaimsWhatItPeeked
<1> QED
  BY <1>1, <1>2 DEF SweepInv, ClaimsWhatItPeeked

\* The same when a sweep moves on to a candidate, or gives the one it has up.
LEMMA SweepMoves ==
    ASSUME TablesInv, SweepInv, NoneComesDue, clock' = clock,
           NEW s \in Sweepers, NEW x \in SweepRec, sweep' = [sweep EXCEPT ![s] = x], x.now <= clock,
           x.at # 0 /\ Due(ticket'[x.at], x.now) => ticket'[x.at].state = x.branch
    PROVE  SweepInv'
<1>1. /\ SweepType' /\ sweep'[s] = x
      /\ \A q \in Sweepers \ {s} : sweep'[q] = sweep[q]
  BY DEF SweepInv, SweepType, SweepRec
<1>2. \A q \in Sweepers : sweep'[q].now <= clock'
  BY <1>1 DEF SweepInv
<1>3. ASSUME NEW q \in Sweepers \ {s}, sweep[q].at # 0, Due(ticket'[sweep[q].at], sweep[q].now)
      PROVE  ticket'[sweep[q].at].state = sweep[q].branch
  <2>1. sweep[q].at \in Tickets /\ sweep[q].now \in 0..clock
    BY <1>3, RoutingAssumption DEF SweepInv, SweepType, SweepRec, TablesInv, TablesType, Tickets
  <2>2. /\ Due(ticket[sweep[q].at], sweep[q].now)
        /\ ticket'[sweep[q].at].state = ticket[sweep[q].at].state
    BY <1>3, <2>1 DEF NoneComesDue
  <2> QED
    BY <1>3, <2>2 DEF SweepInv, ClaimsWhatItPeeked
<1>4. ClaimsWhatItPeeked'
  BY <1>1, <1>3 DEF ClaimsWhatItPeeked
<1> QED
  BY <1>1, <1>2, <1>4 DEF SweepInv

LEMMA RestingRec == Resting \in SweepRec /\ Resting.at = 0 /\ Resting.now = 0
BY RoutingAssumption DEF Resting, SweepRec

LEMMA DoneStep ==
    ASSUME TablesInv, SweepInv, NoneComesDue, clock' = clock,
           NEW s \in Sweepers, NEW t, DoneWith(s, t)
    PROVE  SweepInv'
<1> DEFINE rest == sweep[s].due \ {t}
           y == [Resting EXCEPT !.now = sweep[s].now, !.due = rest]
           x == IF rest = {} THEN Resting ELSE y
<1>1. sweep' = [sweep EXCEPT ![s] = x]
  BY DEF DoneWith
<1>2. sweep[s] \in SweepRec /\ sweep[s].now <= clock
  BY DEF SweepInv, SweepType, SweepRec
<1>3. y \in SweepRec /\ y.at = 0 /\ y.now = sweep[s].now
  BY <1>2, RestingRec DEF SweepRec
<1>4. x \in SweepRec /\ x.at = 0 /\ x.now <= clock
  BY <1>2, <1>3, RestingRec DEF TablesInv, TablesType
<1> HIDE DEF x
<1> QED
  BY <1>1, <1>4, SweepMoves

\* What the sweep reads, and which branch it takes, changes no table.
LEMMA ReadStep ==
    ASSUME TablesInv, UNCHANGED <<routeVars, clock, send>>
    PROVE  TablesInv' /\ NoneComesDue
BY TickStep DEF TablesInv, TablesType

LEMMA ScanStep ==
    ASSUME IInv, NEW s \in Sweepers, Scan(s)
    PROVE  IInv'
<1> DEFINE x == [Resting EXCEPT !.now = clock, !.due = dueCandidates(clock)]
<1>1. sweep' = [sweep EXCEPT ![s] = x] /\ UNCHANGED <<routeVars, clock, send>>
  BY DEF Scan
<1>2. TablesInv' /\ NoneComesDue
  BY <1>1, ReadStep DEF IInv
<1>3. dueCandidates(clock) \in SUBSET Tickets /\ clock \in 0..MaxTime /\ clock <= clock
  BY DEF dueCandidates, IInv, TablesInv, TablesType
<1>4. x \in SweepRec /\ x.at = 0 /\ x.now = clock
  BY <1>3, RestingRec DEF SweepRec
<1> HIDE DEF x
<1>5. SweepInv'
  BY <1>1, <1>2, <1>3, <1>4, SweepMoves DEF IInv
<1> QED
  BY <1>2, <1>5 DEF IInv

LEMMA PeekStep ==
    ASSUME IInv, NEW s \in Sweepers, Peek(s)
    PROVE  IInv'
<1>1. UNCHANGED <<routeVars, clock, send>>
  BY DEF Peek
<1>2. TablesInv' /\ NoneComesDue
  BY <1>1, ReadStep DEF IInv
<1>3. PICK t \in sweep[s].due :
         IF Due(ticket[t], sweep[s].now)
         THEN sweep' = [sweep EXCEPT ![s].at = t, ![s].branch = ticket[t].state]
         ELSE DoneWith(s, t)
  BY DEF Peek
<1>4. CASE ~Due(ticket[t], sweep[s].now)
  BY <1>1, <1>2, <1>3, <1>4, DoneStep DEF IInv
<1>5. CASE Due(ticket[t], sweep[s].now)
  <2> DEFINE x == [sweep[s] EXCEPT !.at = t, !.branch = ticket[t].state]
  <2>1. sweep' = [sweep EXCEPT ![s] = x]
    BY <1>3, <1>5
  <2>2. sweep[s] \in SweepRec /\ sweep[s].now <= clock
    BY DEF IInv, SweepInv, SweepType, SweepRec
  <2>3. t \in Tickets /\ t \in 0..MaxTickets
    BY <2>2, RoutingAssumption DEF SweepRec, Tickets
  <2>4. ticket[t].state \in Pending \cup {"resolved", "none"}
    BY <1>5 DEF Due, Pending
  <2>5. x \in SweepRec /\ x.now = sweep[s].now /\ x.at = t /\ x.branch = ticket[t].state
    BY <2>2, <2>3, <2>4 DEF SweepRec
  <2> HIDE DEF x
  <2>6. ticket' = ticket
    BY <1>1 DEF routeVars
  <2>7. SweepInv'
    BY <1>1, <1>2, <2>1, <2>2, <2>5, <2>6, SweepMoves DEF IInv
  <2> QED
    BY <1>2, <2>7 DEF IInv
<1> QED
  BY <1>4, <1>5

LEMMA SkipStep ==
    ASSUME IInv, NEW s \in Sweepers, Skip(s)
    PROVE  IInv'
<1>1. UNCHANGED <<routeVars, clock, send>> /\ DoneWith(s, sweep[s].at)
  BY DEF Skip
<1>2. TablesInv' /\ NoneComesDue
  BY <1>1, ReadStep DEF IInv
<1> QED
  BY <1>1, <1>2, DoneStep DEF IInv

\* The claim holds the row, and the row is due: for the reason the sweep peeked at.
LEMMA ClaimStep ==
    ASSUME IInv, NEW s \in Sweepers, Claim(s)
    PROVE  IInv'
<1> DEFINE t   == sweep[s].at
           now == sweep[s].now
<1>1. /\ t # 0 /\ RowFree(t) /\ DoneWith(s, t)
      /\ UNCHANGED <<created, home, clock, send>>
  BY DEF Claim
<1>2. t \in Tickets /\ now \in 0..MaxTime /\ now \in 0..clock
  BY <1>1, RoutingAssumption DEF IInv, SweepInv, SweepType, SweepRec, TablesInv, TablesType, Tickets
<1>3. TablesInv' /\ NoneComesDue
  <2>1. CASE ~Due(ticket[t], now)
    <3>1. UNCHANGED <<routeVars, clock, send>>
      BY <1>1, <2>1 DEF Claim, routeVars
    <3> QED
      BY <3>1, ReadStep DEF IInv
  <2>2. CASE Due(ticket[t], now) /\ sweep[s].branch = "pending_reminder"
    <3>1. ticket[t].state = "pending_reminder"
      BY <1>1, <2>2 DEF IInv, SweepInv, ClaimsWhatItPeeked
    <3>2. /\ ticket' = [ticket EXCEPT ![t].notified = now]
          /\ reminded' = [reminded EXCEPT ![t] = @ + 1]
          /\ UNCHANGED byStaff
      BY <2>2 DEF Claim
    <3> HIDE DEF t, now
    <3> QED
      BY <1>1, <1>2, <2>2, <3>1, <3>2, RemindStep DEF IInv
  <2>3. CASE Due(ticket[t], now) /\ sweep[s].branch # "pending_reminder"
    <3> DEFINE row == Transition(ticket[t], "sweeper", "closed", NoDate, now, Grace)
    <3>1. /\ Allowed(ticket[t], "sweeper", "closed", NoDate, now)
          /\ Write([ticket EXCEPT ![t] = row], {})
      BY <2>3 DEF Claim
    <3>2. Exists(t) /\ ticket[t].state \in States
      BY <2>3 DEF Due, Exists, States, Active, Pending
    <3>3. ticket[t] \in Row /\ TimersFit(ticket[t])
      BY <1>2, <3>2, RowStates DEF IInv
    <3>4. NoDate \in Dates /\ "closed" \in States
      BY RoutingAssumption DEF Dates, NoDate, States
    <3>5. /\ row \in Row /\ TimersFit(row) /\ row.state \in States
          /\ row.merged = ticket[t].merged /\ row.notified = ticket[t].notified
          /\ row.state = TargetFor(ticket[t].state, "sweeper", "closed")
      BY <1>2, <3>1, <3>2, <3>3, <3>4, TransitionFits
    <3>6. row.state = "closed" /\ row.state \notin Active
      BY <3>5 DEF TargetFor, Active, Pending
    <3>7. {} \in SUBSET {t}
      OBVIOUS
    <3> HIDE DEF row, t
    <3>8. TablesInv'
      BY <1>1, <1>2, <3>1, <3>2, <3>5, <3>6, <3>7, RowStep DEF IInv
    <3>9. ticket' = [ticket EXCEPT ![t] = row] /\ ticket \in [Tickets -> Row]
      BY <3>1 DEF Write, IInv, TablesInv, TablesType
    <3>10. NoneComesDue
      BY <3>6, <3>9 DEF NoneComesDue, Due, Pending
    <3> QED
      BY <3>8, <3>10
  <2> QED
    BY <2>1, <2>2, <2>3
<1>4. SweepInv'
  BY <1>1, <1>3, DoneStep DEF IInv
<1> QED
  BY <1>3, <1>4 DEF IInv

-------------------------------------------------------------------------------
(* The invariant. *)

LEMMA InitIInv == Init => IInv
<1> SUFFICES ASSUME Init PROVE IInv
  OBVIOUS
<1>1. Absent \in Row /\ TimersFit(Absent) /\ Absent.state = "absent" /\ Absent.merged = 0
  <2>1. NoDate \in Dates /\ 0 \in 0..MaxTickets
    BY RoutingAssumption DEF Dates, NoDate
  <2> QED
    BY <2>1 DEF Absent, Row, TimersFit, States, Active, Pending
<1>2. \A t \in Tickets : ticket[t] = Absent /\ reminded[t] = 0
  BY DEF Init
<1>3. Unmerged = {} /\ ActiveUnmerged = {}
  BY <1>1, <1>2 DEF Unmerged, ActiveUnmerged, Exists
<1>4. TablesType
  BY <1>1, RoutingAssumption DEF Init, TablesType
<1>5. Idle \in SendRec /\ Idle.step = "idle"
  BY RoutingAssumption DEF Idle, SendRec
<1>6. SendType /\ \A r \in Routers : send[r].step = "idle"
  BY <1>5 DEF Init, SendType
<1>7. SendInv /\ SeenInv
  BY <1>6 DEF SendInv, SeenInv
<1>8. FreshInv /\ TimersMatchState /\ MergeInv /\ RemindInv /\ NoMergeChains /\ OneActive
  BY <1>1, <1>2, <1>3 DEF FreshInv, TimersMatchState, MergeInv, RemindInv, NoMergeChains,
                           OneActive, Exists
<1>9. SweepType /\ \A s \in Sweepers : sweep[s].at = 0 /\ sweep[s].now = 0
  BY RestingRec DEF Init, SweepType, SweepRec
<1>10. SweepInv
  BY <1>4, <1>9 DEF SweepInv, ClaimsWhatItPeeked, TablesType
<1> QED
  BY <1>4, <1>6, <1>7, <1>8, <1>10 DEF IInv, TablesInv

\* A step of the tables while the sweeps stand still.
LEMMA TablesStep ==
    ASSUME IInv, TablesInv', NoneComesDue, UNCHANGED <<clock, sweep>>
    PROVE  IInv'
BY SweepKept DEF IInv, TablesInv, TablesType

LEMMA NextIInv == IInv /\ [Next]_vars => IInv'
<1> SUFFICES ASSUME IInv, [Next]_vars PROVE IInv'
  OBVIOUS
<1>1. TablesInv
  BY DEF IInv
<1>2. CASE Tick
  <2>1. UNCHANGED <<routeVars, send>> /\ sweep' = sweep /\ clock' \in 1..MaxTime /\ clock <= clock'
    BY <1>1, <1>2, RoutingAssumption DEF Tick, TablesInv, TablesType
  <2>2. TablesInv' /\ NoneComesDue
    BY <1>1, <2>1, TickStep
  <2> QED
    BY <1>1, <2>1, <2>2, SweepKept DEF IInv, TablesInv, TablesType
<1>3. CASE StaffStart
  <2>1. home' \in [Messages -> 0..MaxTickets]
    BY <1>1, <1>3 DEF StaffStart, TablesInv, TablesType
  <2>2. TablesInv' /\ NoneComesDue
    BY <1>1, <1>3, <2>1, OpenStep DEF StaffStart
  <2> QED
    BY <1>3, <2>2, TablesStep DEF StaffStart
<1>4. ASSUME NEW r \in Routers, NEW m \in Messages, Begin(r, m) PROVE IInv'
  BY <1>1, <1>4, BeginStep, TablesStep DEF Begin
<1>5. ASSUME NEW r \in Routers, PickActive(r) PROVE IInv'
  BY <1>1, <1>5, PickActiveStep, TablesStep DEF PickActive
<1>6. ASSUME NEW r \in Routers, PickLatest(r) PROVE IInv'
  BY <1>1, <1>6, PickLatestStep, TablesStep DEF PickLatest
<1>7. ASSUME NEW r \in Routers, Commit(r) PROVE IInv'
  BY <1>1, <1>7, CommitStep, TablesStep DEF Commit
<1>8. ASSUME NEW r \in Routers, Abort(r) PROVE IInv'
  BY <1>1, <1>8, AbortStep, TablesStep DEF Abort
<1>9. ASSUME NEW s \in Sweepers, Sweep(s) PROVE IInv'
  BY <1>9, ScanStep, PeekStep, ClaimStep, SkipStep DEF Sweep
<1>10. ASSUME NEW t \in Tickets, Reply(t) PROVE IInv'
  BY <1>1, <1>10, ReplyStep, TablesStep DEF Reply
<1>11. ASSUME NEW t \in Tickets, Delete(t) PROVE IInv'
  BY <1>1, <1>11, DeleteStep, TablesStep DEF Delete
<1>12. ASSUME NEW t \in Tickets, NEW to \in States, NEW until \in Dates, Update(t, to, until)
       PROVE  IInv'
  BY <1>1, <1>12, UpdateStep, TablesStep DEF Update
<1>13. ASSUME NEW source \in Tickets, NEW target \in Tickets, Merge(source, target) PROVE IInv'
  BY <1>1, <1>13, MergeStep, TablesStep DEF Merge
<1>14. ASSUME NEW t \in Tickets, NEW m \in Messages, Split(t, m) PROVE IInv'
  <2>1. created + 1 \in 0..MaxTickets
    BY <1>1, <1>14, RoutingAssumption DEF Split, TablesInv, TablesType
  <2>2. home' \in [Messages -> 0..MaxTickets]
    BY <1>1, <1>14, <2>1 DEF Split, TablesInv, TablesType
  <2>3. TablesInv' /\ NoneComesDue
    BY <1>1, <1>14, <2>2, OpenStep DEF Split
  <2> QED
    BY <1>14, <2>3, TablesStep DEF Split
<1>15. ASSUME NEW t \in Tickets, NEW m \in Messages, Move(m, t) PROVE IInv'
  BY <1>1, <1>15, MoveStep, TablesStep DEF Move
<1>16. CASE UNCHANGED vars
  <2>1. UNCHANGED <<routeVars, clock, send>> /\ UNCHANGED <<clock, sweep>>
    BY <1>16 DEF vars
  <2> QED
    BY <1>1, <2>1, ReadStep, TablesStep
<1>17. /\ \A until \in 2..MaxTime : until \in Dates
       /\ NoDate \in Dates
       /\ States \ Pending \subseteq States /\ Pending \subseteq States
  BY RoutingAssumption DEF Dates, NoDate, States, Active
<1> QED
  BY <1>2, <1>3, <1>4, <1>5, <1>6, <1>7, <1>8, <1>9, <1>10, <1>11, <1>12, <1>13, <1>14, <1>15,
     <1>16, <1>17
  DEF Next, Send

\* IInv holds throughout, whatever the interleaving.
THEOREM InvariantHolds == Spec => []IInv
BY InitIInv, NextIInv, PTL DEF Spec

\* Every variable keeps its type: a new ticket's id and a set timer stay in range.
THEOREM RoutingTypeCorrect == Spec => []TypeOK
<1>1. IInv => TypeOK
  BY DEF IInv, TablesInv, SweepInv, TablesType, SendType, SendRec, SweepType, SweepRec, TypeOK
<1> QED
  BY <1>1, InvariantHolds, PTL

\* Timers match states, whichever of the five writers wrote last.
THEOREM TimersAgree == Spec => []TimersMatchState
<1>1. IInv => TimersMatchState
  BY DEF IInv, TablesInv
<1> QED
  BY <1>1, InvariantHolds, PTL

\* Two sends of a customer never insert the same message, or write at the same time.
THEOREM SendsExclude == Spec => []NoSendConflict
<1>1. IInv => NoSendConflict
  BY DEF IInv, TablesInv, SendInv, NoSendConflict
<1> QED
  BY <1>1, InvariantHolds, PTL

\* A customer's message never opens a ticket beside an active one.
THEOREM SendsOpenOne == Spec => []OneActive
<1>1. IInv => OneActive
  BY DEF IInv, TablesInv
<1> QED
  BY <1>1, InvariantHolds, PTL

\* A merged ticket always points at one that exists and is not merged.
THEOREM MergesStayFlat == Spec => []NoMergeChains
<1>1. IInv => NoMergeChains
  BY DEF IInv, TablesInv
<1> QED
  BY <1>1, InvariantHolds, PTL

\* A pending date reminds at most once, of any number of sweeps.
THEOREM RemindsOnce == Spec => []RemindOnce
<1>1. IInv => RemindOnce
  BY DEF IInv, TablesInv, RemindInv, RemindOnce
<1> QED
  BY <1>1, InvariantHolds, PTL

\* A sweep that finds its row due finds it due for the reason it peeked at.
THEOREM ClaimsArePeeked == Spec => []ClaimsWhatItPeeked
<1>1. IInv => ClaimsWhatItPeeked
  BY DEF IInv, SweepInv
<1> QED
  BY <1>1, InvariantHolds, PTL

\* A message is stored on a ticket that is neither merged nor deleted, and is new or open after.
THEOREM MessagesLandOnLive == Spec => LandsOnLive
<1> DEFINE Lands == \A m \in Messages : home[m] = 0 /\ home'[m] # 0 =>
                       /\ home'[m] \in Unmerged \/ home'[m] = created'
                       /\ ticket'[home'[m]].state \in {"new", "open"}
<1>1. ASSUME IInv, [Next]_vars PROVE [Lands]_vars
  <2> SUFFICES ASSUME NEW m \in Messages, home[m] = 0, home'[m] # 0
               PROVE  /\ home'[m] \in Unmerged \/ home'[m] = created'
                      /\ ticket'[home'[m]].state \in {"new", "open"}
    OBVIOUS
  <2>1. TablesInv /\ home \in [Messages -> 0..MaxTickets]
    BY <1>1 DEF IInv, TablesInv, TablesType
  <2>2. ASSUME NEW r \in Routers, Commit(r)
        PROVE  /\ home'[m] \in Unmerged \/ home'[m] = created'
               /\ ticket'[home'[m]].state \in {"new", "open"}
    BY <2>1, <2>2, CommitWrites
  <2>3. ASSUME NEW t \in Tickets, NEW n \in Messages, Split(t, n) \/ Move(n, t) PROVE FALSE
    BY <2>1, <2>3 DEF Split, Move
  <2>4. ASSUME NEW t \in Tickets, Delete(t) PROVE FALSE
    BY <2>1, <2>4 DEF Delete
  <2>5. CASE UNCHANGED home
    BY <2>5
  <2> QED
    BY <1>1, <2>2, <2>3, <2>4, <2>5
    DEF Next, Send, Sweep, Tick, StaffStart, Begin, PickActive, PickLatest, Abort, Scan, Peek, Claim,
        Skip, Reply, Update, Merge, routeVars, vars
<1> QED
  BY <1>1, InvariantHolds, PTL DEF Spec, LandsOnLive
===============================================================================
