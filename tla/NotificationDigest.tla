--------------------------- MODULE NotificationDigest ---------------------------
(***************************************************************************)
(* The digest of one recipient, channel and group key (notifications/):    *)
(* each customer message is handled by the notifications consumer, which   *)
(* counts it in Redis and, at the first, adds the digest job; the job      *)
(* takes the count after the window and sends one message.                 *)
(*                                                                         *)
(* Redis and the queue are not part of the consumer's transaction.  Its    *)
(* runs are those of an event job (see EventJobs), retried until one       *)
(* commits; the in-app entry, whose lock keeps two runs apart for most     *)
(* recipients, is left out: this one wants the channel only.               *)
(***************************************************************************)
EXTENDS Naturals, FiniteSets

CONSTANTS
    Events,              \* customer messages on the ticket
    Senders, NoEvent,    \* slots of the worker that run digest jobs; no event
    MaxAttempts,         \* DEFAULT_ATTEMPTS
    MaxFaults            \* bound: failures in a behaviour

VARIABLES
    step,                \* step[e]: how far the run of e is
    count,               \* the counter, 0 when Redis has none
    expires,             \* the counter has a time to live
    queued, known,       \* digest jobs to be run and ids BullMQ has, by their events
    made,                \* made[e]: attemptsMade of the job that e added
    sender,              \* sender[s]: the job in slot s and how far it is
    untold,              \* ghost: messages counted, no digest sent since
    stranded,            \* ghost: a counter was started and no job added for it
    dropped,             \* ghost: a digest job failed for good
    faults

DigestConstants == NoEvent \notin Events /\ MaxAttempts \in Nat \ {0} /\ MaxFaults \in Nat

redis == <<count, expires>>
jobs  == <<queued, known, made>>
ghosts == <<untold, stranded, dropped>>
vars  == <<step, redis, jobs, sender, ghosts, faults>>

Idle == [step |-> "idle", job |-> NoEvent, covers |-> {}]

Init ==
    /\ step = [e \in Events |-> "none"]
    /\ count = 0 /\ expires = FALSE
    /\ queued = {} /\ known = {} /\ made = [e \in Events |-> 0]
    /\ sender = [s \in Senders |-> Idle]
    /\ untold = {} /\ stranded = FALSE /\ dropped = FALSE /\ faults = 0

Fault == faults < MaxFaults /\ faults' = faults + 1

GoTo(e, next) == step' = [step EXCEPT ![e] = next]

-------------------------------------------------------------------------------
(* handle() and schedule(): the delivery is claimed in the transaction. *)

Claim(e) ==
    /\ step[e] = "none" /\ GoTo(e, "claimed")
    /\ UNCHANGED <<redis, jobs, sender, ghosts, faults>>

Count(e) ==
    /\ step[e] = "claimed"
    /\ count' = count + 1 /\ untold' = untold \cup {e}
    /\ GoTo(e, IF count = 0 THEN "first" ELSE "scheduled")
    /\ UNCHANGED <<expires, jobs, sender, stranded, dropped, faults>>

LetExpire(e) ==
    /\ step[e] = "first" /\ GoTo(e, "add")
    /\ expires' = (count > 0)
    /\ UNCHANGED <<count, jobs, sender, ghosts, faults>>

\* The job id names the event: a retry of the run that added it adds nothing.
AddJob(e) ==
    /\ step[e] = "add" /\ GoTo(e, "scheduled")
    /\ queued' = queued \cup ({e} \ known) /\ known' = known \cup {e}
    /\ stranded' = (stranded \/ e \in known)
    /\ UNCHANGED <<redis, made, sender, untold, dropped, faults>>

Commit(e) ==
    /\ step[e] = "scheduled" /\ GoTo(e, "done")
    /\ UNCHANGED <<redis, jobs, sender, ghosts, faults>>

\* The run throws or dies: its transaction is rolled back, Redis keeps what it was told.
Rollback(e) ==
    /\ step[e] \notin {"none", "done"} /\ Fault
    /\ GoTo(e, "none")
    /\ stranded' = (stranded \/ step[e] \in {"first", "add"})
    /\ UNCHANGED <<redis, jobs, sender, untold, dropped>>

\* The safety net: five windows after the first message.
Expire ==
    /\ expires /\ count' = 0 /\ expires' = FALSE
    /\ UNCHANGED <<step, jobs, sender, ghosts, faults>>

-------------------------------------------------------------------------------
(* The digest job, two minutes after it was added. *)

Take(s) ==
    /\ sender[s] = Idle
    /\ \E j \in queued :
          /\ queued' = queued \ {j}
          /\ sender' = [sender EXCEPT ![s] = [step |-> "take", job |-> j, covers |-> {}]]
    /\ UNCHANGED <<step, redis, known, made, ghosts, faults>>

\* Mutant for BurstHasJob: GET, which leaves the counter to its time to live.
TakeKeeps(s) ==
    /\ sender[s].step = "take" /\ UNCHANGED redis
    /\ sender' = [sender EXCEPT ![s].step = "send", ![s].covers = untold]
    /\ UNCHANGED <<step, jobs, ghosts, faults>>
\* GETDEL: "anything arriving from now on starts the next digest".
TakeCount(s) ==
    /\ sender[s].step = "take" /\ count' = 0 /\ expires' = FALSE
    /\ sender' = [sender EXCEPT ![s].step = "send", ![s].covers = untold]
    /\ UNCHANGED <<step, jobs, ghosts, faults>>

\* Sent, or skipped for a recipient who no longer wants it; the deliveries are marked.
SendDigest(s) ==
    /\ sender[s].step = "send" /\ sender' = [sender EXCEPT ![s] = Idle]
    /\ untold' = untold \ sender[s].covers
    /\ UNCHANGED <<step, redis, jobs, stranded, dropped, faults>>

\* The job throws, before or after the message has gone; or its worker dies.
JobFails(s) ==
    /\ sender[s] # Idle /\ Fault
    /\ sender' = [sender EXCEPT ![s] = Idle]
    /\ LET j == sender[s].job IN
        /\ made' = [made EXCEPT ![j] = @ + 1]
        /\ \/ made[j] + 1 < MaxAttempts /\ queued' = queued \cup {j} /\ UNCHANGED dropped
           \/ made[j] + 1 >= MaxAttempts /\ dropped' = TRUE /\ UNCHANGED queued
    /\ untold' \in {untold, untold \ sender[s].covers}
    /\ UNCHANGED <<step, redis, known, stranded>>

Handling(e) == Claim(e) \/ Count(e) \/ LetExpire(e) \/ AddJob(e) \/ Commit(e)
Sending(s)  == Take(s) \/ TakeCount(s) \/ SendDigest(s)

Next ==
    \/ \E e \in Events : Handling(e) \/ Rollback(e)
    \/ \E s \in Senders : Sending(s) \/ JobFails(s)
    \/ Expire

Spec == Init /\ [][Next]_vars

-------------------------------------------------------------------------------
(* Properties. *)

TypeOK ==
    /\ step \in [Events -> {"none", "claimed", "first", "add", "scheduled", "done"}]
    /\ count \in Nat /\ expires \in BOOLEAN /\ (expires => count > 0)
    /\ queued \subseteq known /\ known \subseteq Events
    /\ made \in [Events -> 0..MaxAttempts]
    /\ sender \in [Senders -> [step : {"idle", "take", "send"},
                               job : Events \cup {NoEvent}, covers : SUBSET Events]]
    /\ untold \subseteq Events /\ stranded \in BOOLEAN /\ dropped \in BOOLEAN
    /\ faults \in 0..MaxFaults

\* The digest of message e is on its way: a job is waiting, or one that began to send after e
\* was counted, or the run that started the counter is about to add one.
OnItsWay(e) ==
    \/ queued # {}
    \/ \E s \in Senders : sender[s].step = "take" \/ e \in sender[s].covers
    \/ \E f \in Events : step[f] \in {"first", "add"}

\* "Anything arriving from now on starts the next digest" (notification-digest.job.ts:54): a
\* message that was counted is told of by a job to come, however messages, retries, the
\* expiry of the counter and the jobs follow on each other; unless a counter was started and
\* its job not added, or a job used up its attempts.
BurstHasJob == stranded \/ dropped \/ \A e \in untold : OnItsWay(e)

\* "If that transaction then fails, the retry finds the counter already started and schedules
\* no second job, so the worst case is a count one too high" (channel-scheduler.ts:23): no
\* message that was handled is left without a digest.
WorstIsOneTooMany == dropped \/ \A e \in untold : step[e] = "done" => OnItsWay(e)
===============================================================================
