---------------------------- MODULE WebhookDelivery ----------------------------
(***************************************************************************)
(* The deliveries of one event to one endpoint (integrations/webhooks): a  *)
(* row of webhook_deliveries per attempt, delivery jobs that claim a due   *)
(* row by moving its due time past the request's timeout, and the sweep    *)
(* that queues overdue rows again and deletes those past the retention of  *)
(* 30 days.  Times are in ticks from now, but for the retention: an        *)
(* attempt is past it at some moment, when it has long been overdue, is    *)
(* just being sent, or has its outcome.                                    *)
(*                                                                         *)
(* Workers are prompt: a claimed attempt has its outcome stored within its *)
(* request's timeout, unless its worker dies.  BullMQ runs a queued job at *)
(* any moment, and a job that threw is retried or, used up, dropped.       *)
(***************************************************************************)
EXTENDS Integers, FiniteSets

CONSTANTS
    Workers,
    MaxAttempts,         \* MAX_ATTEMPTS
    Timeout, Lease,      \* REQUEST_TIMEOUT_MS, LEASE_MS
    Delay,               \* RETRY_DELAYS_MS
    Grace,               \* GRACE_MS
    MaxQueued,           \* bound: jobs of one attempt in the queue
    MaxFaults            \* bound: failures in a behaviour

VARIABLES
    active,              \* the tenant's status is "active"
    endpoint,            \* the row of webhooks: "on", "off" (not enabled) or "gone"
    aged,                \* attempts 1..aged were created longer ago than the retention
    row,                 \* row[a]: status of attempt a, or "none"
    due,                 \* due[a]: ticks until next_attempt_at, negative when overdue
    queued,              \* queued[a]: delivery jobs for attempt a
    pc, at,              \* how far each worker is, and with which attempt
    left,                \* ticks until its request times out
    result,              \* what its request came to
    faults

settings == <<active, endpoint, aged>>
rows     == <<row, due>>
work     == <<pc, at, left, result>>
vars     == <<settings, rows, queued, work, faults>>

\* A request is over before the lease on its attempt is (delivery.job.ts:35).
HookConstants ==
    /\ MaxAttempts \in Nat \ {0} /\ Timeout \in Nat /\ Lease \in Nat /\ Timeout < Lease
    /\ Delay \in Nat /\ Grace \in Nat /\ MaxQueued \in Nat /\ MaxFaults \in Nat

Attempts == 1..MaxAttempts
Final    == {"succeeded", "gave_up"}

Init ==
    /\ active = TRUE /\ endpoint = "on" /\ aged = 0
    /\ row = [a \in Attempts |-> "none"] /\ due = [a \in Attempts |-> 0]
    /\ queued = [a \in Attempts |-> 0]
    /\ pc = [w \in Workers |-> "idle"] /\ at = [w \in Workers |-> 1]
    /\ left = [w \in Workers |-> 0] /\ result = [w \in Workers |-> "none"]
    /\ faults = 0

Fault == faults < MaxFaults /\ faults' = faults + 1

Queue(a) == queued' = [queued EXCEPT ![a] = IF @ < MaxQueued THEN @ + 1 ELSE @]

Free(w) ==
    /\ pc' = [pc EXCEPT ![w] = "idle"] /\ at' = [at EXCEPT ![w] = 1]
    /\ left' = [left EXCEPT ![w] = 0] /\ result' = [result EXCEPT ![w] = "none"]

-------------------------------------------------------------------------------

\* The event's consumer inserts attempt 1 for an enabled endpoint and queues it after the
\* commit, if it lives to do so.  The event is gone before the attempt is past its retention.
Publish ==
    /\ row[1] = "none" /\ aged = 0 /\ endpoint = "on"
    /\ row' = [row EXCEPT ![1] = "pending"]
    /\ due' = [due EXCEPT ![1] = 0]
    /\ \/ Queue(1) /\ UNCHANGED faults
       \/ Fault /\ UNCHANGED queued
    /\ UNCHANGED <<settings, work>>

\* process(): the tenant's status is read first; a job of an inactive tenant is over.
Take(w, a) ==
    /\ pc[w] = "idle" /\ queued[a] > 0
    /\ queued' = [queued EXCEPT ![a] = @ - 1]
    /\ \/ active /\ pc' = [pc EXCEPT ![w] = "claim"] /\ at' = [at EXCEPT ![w] = a]
       \/ ~active /\ UNCHANGED <<pc, at>>
    /\ UNCHANGED <<settings, rows, left, result, faults>>

\* Mutant for OneSender: the due time is not looked at.
ClaimablePending(a) == row[a] = "pending"
\* UPDATE ... WHERE status = 'pending' AND next_attempt_at <= now
Claimable(a) == row[a] = "pending" /\ due[a] <= 0

Claim(w) ==
    /\ pc[w] = "claim"
    /\ \/ ~Claimable(at[w]) /\ Free(w) /\ UNCHANGED rows
       \/ /\ Claimable(at[w]) /\ endpoint = "off"
          /\ row' = [row EXCEPT ![at[w]] = "gave_up"]
          /\ Free(w) /\ UNCHANGED due
       \/ /\ Claimable(at[w]) /\ endpoint = "on"
          /\ due' = [due EXCEPT ![at[w]] = Lease]
          /\ pc' = [pc EXCEPT ![w] = "send"] /\ left' = [left EXCEPT ![w] = Timeout]
          /\ UNCHANGED <<row, at, result>>
    /\ UNCHANGED <<settings, queued, faults>>

\* The endpoint answers, or the request fails or times out.
Send(w) ==
    /\ pc[w] = "send" /\ pc' = [pc EXCEPT ![w] = "store"]
    /\ \E r \in {"succeeded", IF at[w] >= MaxAttempts THEN "gave_up" ELSE "failed"} :
          result' = [result EXCEPT ![w] = r]
    /\ UNCHANGED <<settings, rows, queued, at, left, faults>>

\* Mutant for OneAlive: the next attempt is inserted whatever the answer was.
RetriesAlways(w) == at[w] < MaxAttempts
Retries(w) == result[w] = "failed"

\* complete() and insertAttempt() in one transaction; complete() overwrites whatever is
\* there, and a deleted endpoint has no rows (the insert then throws).
Store(w) ==
    /\ pc[w] = "store"
    /\ LET a == at[w]
           next == a + 1
           inserts == endpoint # "gone" /\ Retries(w) /\ row[next] = "none"
       IN
        /\ row' = [b \in Attempts |->
                     IF b = a /\ row[a] # "none" THEN result[w]
                     ELSE IF inserts /\ b = next THEN "pending" ELSE row[b]]
        /\ due' = [b \in Attempts |-> IF inserts /\ b = next THEN Delay ELSE due[b]]
        /\ \/ inserts /\ pc' = [pc EXCEPT ![w] = "enqueue"] /\ UNCHANGED <<at, left, result>>
           \/ ~inserts /\ Free(w)
    /\ UNCHANGED <<settings, queued, faults>>

\* After the commit the next attempt is queued; BullMQ holds it back by its delay.
Enqueue(w) ==
    /\ pc[w] = "enqueue" /\ Queue(at[w] + 1) /\ Free(w)
    /\ UNCHANGED <<settings, rows, faults>>

\* A statement or an add throws, or the worker dies: the job may run again or not.
Fail(w) ==
    /\ pc[w] # "idle" /\ Fault /\ Free(w)
    /\ Queue(at[w]) \/ UNCHANGED queued
    /\ UNCHANGED <<settings, rows>>

-------------------------------------------------------------------------------
(* The sweep, every minute, under a job id of that minute. *)

\* Mutant for EventuallyFinal: the status an attempt gets when its request failed.
OverdueFailed(a) == row[a] = "failed" /\ due[a] <= -Grace
Overdue(a) == row[a] = "pending" /\ due[a] <= -Grace

\* One transaction reads what is overdue and deletes what is past the retention, whatever its
\* status; after the commit the overdue attempts are queued, if the sweep lives to do so.
Sweep ==
    /\ active
    /\ \E old \in SUBSET {a \in 1..aged : row[a] # "none"} :
        /\ row' = [a \in Attempts |-> IF a \in old THEN "none" ELSE row[a]]
        /\ due' = [a \in Attempts |-> IF a \in old THEN 0 ELSE due[a]]
        /\ \/ \E a \in Attempts : Overdue(a) /\ Queue(a) /\ UNCHANGED faults
           \/ old # {} /\ (\A a \in Attempts : ~Overdue(a)) /\ UNCHANGED <<queued, faults>>
           \/ old # {} /\ Fault /\ UNCHANGED queued
    /\ UNCHANGED <<settings, work>>

-------------------------------------------------------------------------------
(* Administrators, the platform, and time. *)

SwitchEndpoint ==
    /\ endpoint # "gone"
    /\ endpoint' = IF endpoint = "on" THEN "off" ELSE "on"
    /\ UNCHANGED <<active, aged, rows, queued, work, faults>>

\* The deliveries go with their endpoint (ON DELETE CASCADE).
DeleteEndpoint ==
    /\ endpoint # "gone" /\ endpoint' = "gone"
    /\ row' = [a \in Attempts |-> "none"] /\ due' = [a \in Attempts |-> 0]
    /\ UNCHANGED <<active, aged, queued, work, faults>>

SuspendOrResume ==
    active' = ~active /\ UNCHANGED <<endpoint, aged, rows, queued, work, faults>>

\* An outcome is stored before its request is older than its timeout.
Tick ==
    /\ \A w \in Workers : pc[w] \in {"send", "store"} => left[w] > 0
    /\ due' = [a \in Attempts |->
                 IF row[a] = "pending" /\ due[a] > -Grace THEN due[a] - 1 ELSE due[a]]
    /\ left' = [w \in Workers |-> IF left[w] > 0 THEN left[w] - 1 ELSE 0]
    /\ UNCHANGED <<settings, row, queued, pc, at, result, faults>>

\* An attempt's row is past the retention: one still to be sent has been overdue for long, or is
\* being sent only now.
Age ==
    /\ aged < MaxAttempts /\ aged' = aged + 1 /\ row[aged'] # "none"
    /\ row[aged'] = "pending" =>
          due[aged'] = -Grace \/ \E w \in Workers : pc[w] \in {"send", "store"} /\ at[w] = aged'
    /\ UNCHANGED <<active, endpoint, rows, queued, work, faults>>

Working(w) == Claim(w) \/ Send(w) \/ Store(w) \/ Enqueue(w)

Next ==
    \/ Publish \/ Sweep \/ SwitchEndpoint \/ DeleteEndpoint \/ SuspendOrResume \/ Tick \/ Age
    \/ \E w \in Workers : Working(w) \/ Fail(w) \/ \E a \in Attempts : Take(w, a)

Spec == Init /\ [][Next]_vars

-------------------------------------------------------------------------------
(* Properties. *)

TypeOK ==
    /\ active \in BOOLEAN /\ endpoint \in {"on", "off", "gone"} /\ aged \in 0..MaxAttempts
    /\ row \in [Attempts -> {"none", "pending", "failed"} \cup Final]
    /\ due \in [Attempts -> Int] /\ \A a \in Attempts : -Grace <= due[a]
    /\ queued \in [Attempts -> 0..MaxQueued]
    /\ pc \in [Workers -> {"idle", "claim", "send", "store", "enqueue"}]
    /\ at \in [Workers -> Attempts] /\ left \in [Workers -> 0..Timeout]
    /\ result \in [Workers -> {"none", "failed"} \cup Final]
    /\ faults \in 0..MaxFaults

Sending(w, a) == pc[w] \in {"send", "store"} /\ at[w] = a

\* "a claimed attempt is never sent twice at once" (delivery.job.ts:38), whatever jobs the
\* sweep, a retry and a duplicate queue for it.
OneSender ==
    \A v, w \in Workers : \A a \in Attempts : Sending(v, a) /\ Sending(w, a) => v = w

\* An event is delivered along one chain of attempts: at most one is pending, each before it
\* failed or is past the retention and deleted, and once one has succeeded or was the last, none
\* is to be sent any more (delivery.job.ts:132).
Purged(a) == row[a] = "none" /\ a <= aged
OneAlive ==
    \A a \in Attempts : row[a] # "none" =>
        /\ \A b \in Attempts : b < a => row[b] = "failed" \/ Purged(b)
        /\ row[a] \in Final \cup {"pending"} => \A b \in Attempts : b > a => row[b] = "none"

\* An attempt that is to be sent comes to an end when the tenant stays active, although its job
\* may be lost, come too early, find the tenant suspended, or die between the request and its
\* outcome (webhook-sweep.job.ts:20): the event's delivery has succeeded or is given up, or its
\* rows are gone, with their endpoint or because they were older than 30 days.
Ended   == endpoint = "gone" \/ \E a \in Attempts : row[a] \in Final
Expired == aged > 0 /\ \A a \in Attempts : row[a] = "none"
EventuallyFinal == <>[]active => ((\E a \in Attempts : row[a] = "pending") ~> Ended \/ Expired)
===============================================================================
