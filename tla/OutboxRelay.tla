------------------------------ MODULE OutboxRelay ------------------------------
(***************************************************************************)
(* The outbox relay (platform-kernel/outbox/relay.ts) in every worker      *)
(* process: leader election on a PostgreSQL advisory lock, wake-ups, the   *)
(* publishing transaction, the emits that follow it and pruning.  The      *)
(* database is PostgreSQL at READ COMMITTED: each statement reads what is  *)
(* committed when it starts, FOR UPDATE waits for the rows another         *)
(* transaction has locked, and the unique index on seq makes an UPDATE     *)
(* wait for, or fail on, a number another transaction has taken.           *)
(*                                                                         *)
(* The advisory lock belongs to a connection of its own: the server can    *)
(* drop it while the process still believes it leads, and a batch in       *)
(* progress goes on, so two processes may be publishing at a time.         *)
(***************************************************************************)
EXTENDS Naturals, FiniteSets

CONSTANTS
    Events,              \* outbox_events ids (uuidv7), ordered as numbers
    Workers,             \* worker processes
    Consumers,           \* event consumers
    Routes,              \* Routes[e]: the consumers of event e (JobRouter.routesFor)
    BatchSize,           \* BATCH_SIZE
    NoWorker,            \* the advisory lock is free
    MaxFaults            \* bound: crashes, lost connections, failed statements, shutdowns

ASSUME RelayAssumption ==
    /\ Events \subseteq Nat
    /\ Routes \in [Events -> SUBSET Consumers]
    /\ BatchSize \in Nat \ {0}
    /\ NoWorker \notin Workers
    /\ MaxFaults \in Nat

VARIABLES
    written, seq, pruned,  \* the table outbox_events, as in EventLog
    queued,              \* <<consumer, event>> jobs ever added to the queues
    emitted,             \* events whose live envelopes went to the Redis emitter
    lock,                \* the worker whose connection holds RELAY_LOCK_KEY
    status,              \* "down", "up", or "stopping" (this.stopped)
    leader,              \* this.leader
    again,               \* this.wakeRequested
    pc,                  \* where drain() is; "idle" is this.running = false
    snap,                \* the unpublished rows the SELECT's snapshot saw
    batch,               \* the locked rows, in id order
    first,               \* max(seq) + 1 as read; 0 before
    todo,                \* jobs of the batch still to be added
    at,                  \* index in batch of the next event to emit
    faults               \* faults so far

tableVars  == <<written, seq, pruned>>
electVars  == <<lock, status, leader>>
txVars     == <<snap, batch, first, todo, at>>
vars == <<tableVars, queued, emitted, electVars, again, pc, txVars, faults>>

Log == INSTANCE EventLog

Phases == {"idle", "select", "lock", "max", "update", "enqueue", "emit", "prune"}
BatchSeqs == UNION {[1..n -> Events] : n \in 0..BatchSize}

-------------------------------------------------------------------------------
(* The publishing transaction's view of the table. *)

Published   == Log!Published
Retained    == Log!Retained
\* Mutant for EventuallyPublished: only ids above everything published are scanned.
UnpublishedAboveCursor == {e \in Log!Unpublished : \A d \in Log!Published : d < e}
Unpublished == Log!Unpublished
Members(b)  == Log!Members(b)

\* Rows that w's open transaction has locked FOR UPDATE.
LockedBy(w) == IF pc[w] \in {"max", "update", "enqueue"} THEN Members(batch[w]) ELSE {}

\* ORDER BY id LIMIT BATCH_SIZE over the rows of S.
FirstRows(S) ==
    {b \in UNION {[1..n -> S] : n \in 0..BatchSize} :
        /\ \A i, j \in DOMAIN b : i < j => b[i] < b[j]
        /\ \A e \in S \ Members(b) :
              DOMAIN b = 1..BatchSize /\ \A i \in DOMAIN b : b[i] < e}

\* The numbers w's UPDATE gives to its batch.
Numbers(w) == {first[w] + i - 1 : i \in DOMAIN batch[w]}

\* Mutant for LogSpec: seq has no unique index.
NoUniqueIndex(w) == FALSE
\* A row of the unique index outbox_events_seq already has one of those numbers ...
UniqueViolation(w) == \E e \in Retained : seq[e] \in Numbers(w)
\* ... or an open transaction has just given it to a row: the UPDATE waits for its end.
Contended(w) == \E v \in Workers \ {w} : pc[v] = "enqueue" /\ Numbers(v) \cap Numbers(w) # {}

JobsOf(b) == {j \in Consumers \X Members(b) : j[1] \in Routes[j[2]]}

-------------------------------------------------------------------------------
(* Process memory. *)

\* wake(): starts drain(), or asks the running one for another round.
WakeUp(w) ==
    IF pc[w] = "idle"
    THEN pc' = [pc EXCEPT ![w] = "select"] /\ UNCHANGED again
    ELSE again' = [again EXCEPT ![w] = TRUE] /\ UNCHANGED pc

\* The end of drain(): the batch is forgotten, running is cleared, and a wake-up that
\* came meanwhile is honoured if the process still leads.
FinishDrain(w) ==
    /\ pc' = [pc EXCEPT ![w] = IF again[w] /\ leader[w] THEN "select" ELSE "idle"]
    /\ again' = [again EXCEPT ![w] = FALSE]
    /\ snap' = [snap EXCEPT ![w] = {}]
    /\ batch' = [batch EXCEPT ![w] = << >>]
    /\ first' = [first EXCEPT ![w] = 0]
    /\ todo' = [todo EXCEPT ![w] = {}]
    /\ at' = [at EXCEPT ![w] = 0]

Fault == faults < MaxFaults /\ faults' = faults + 1

-------------------------------------------------------------------------------

Init ==
    /\ Log!Init
    /\ queued = {} /\ emitted = {}
    /\ lock = NoWorker
    /\ status = [w \in Workers |-> "down"]
    /\ leader = [w \in Workers |-> FALSE]
    /\ again = [w \in Workers |-> FALSE]
    /\ pc = [w \in Workers |-> "idle"]
    /\ snap = [w \in Workers |-> {}]
    /\ batch = [w \in Workers |-> << >>]
    /\ first = [w \in Workers |-> 0]
    /\ todo = [w \in Workers |-> {}]
    /\ at = [w \in Workers |-> 0]
    /\ faults = 0

\* OutboxService.append in domain transactions, up to their commit.  Ids come from the
\* clocks of several processes and commits from several connections, so any unused id
\* may appear next.
Append(S) ==
    /\ Log!Write(S)
    /\ UNCHANGED <<queued, emitted, electVars, again, pc, txVars, faults>>

\* onApplicationBootstrap
Start(w) ==
    /\ status[w] = "down"
    /\ status' = [status EXCEPT ![w] = "up"]
    /\ UNCHANGED <<tableVars, queued, emitted, lock, leader, again, pc, txVars, faults>>

\* tryLead(): the lock is free, LISTEN, lead, and a first wake-up.
TryLead(w) ==
    /\ status[w] = "up" /\ ~leader[w]
    /\ lock = NoWorker
    /\ lock' = w
    /\ leader' = [leader EXCEPT ![w] = TRUE]
    /\ WakeUp(w)
    /\ UNCHANGED <<tableVars, queued, emitted, status, txVars, faults>>

\* wake() from NOTIFY outbox_new or from the poll timer.
Wake(w) ==
    /\ leader[w]
    /\ WakeUp(w)
    /\ UNCHANGED <<tableVars, queued, emitted, electVars, txVars, faults>>

\* publishBatch() sends its SELECT ... FOR UPDATE: the statement's snapshot.
Select(w) ==
    /\ pc[w] = "select"
    /\ snap' = [snap EXCEPT ![w] = Unpublished]
    /\ pc' = [pc EXCEPT ![w] = "lock"]
    /\ UNCHANGED <<tableVars, queued, emitted, electVars, again, batch, first, todo, at, faults>>

\* ... which ends when it holds its rows: one that another transaction has locked is
\* waited for, and skipped when that transaction has published it.
LockRows(w) ==
    /\ pc[w] = "lock"
    /\ \E b \in FirstRows(snap[w] \cap Unpublished) :
          /\ \A v \in Workers \ {w} : Members(b) \cap LockedBy(v) = {}
          /\ batch' = [batch EXCEPT ![w] = b]
          /\ pc' = [pc EXCEPT ![w] = IF b = << >> THEN "prune" ELSE "max"]
    /\ snap' = [snap EXCEPT ![w] = {}]
    /\ UNCHANGED <<tableVars, queued, emitted, electVars, again, first, todo, at, faults>>

\* SELECT max(seq): a later statement, so it sees what was committed meanwhile.
ReadMax(w) ==
    /\ pc[w] = "max"
    /\ \E last \in {0} \cup {seq[e] : e \in Retained} :
          /\ \A e \in Retained : seq[e] <= last
          /\ first' = [first EXCEPT ![w] = last + 1]
    /\ pc' = [pc EXCEPT ![w] = "update"]
    /\ UNCHANGED <<tableVars, queued, emitted, electVars, again, snap, batch, todo, at, faults>>

\* Mutant for EmitAfterCommit: the envelopes go out inside the transaction.
NumberAndEmit(w) ==
    /\ pc[w] = "update"
    /\ ~UniqueViolation(w) /\ ~Contended(w)
    /\ todo' = [todo EXCEPT ![w] = JobsOf(batch[w])]
    /\ emitted' = emitted \cup Members(batch[w])
    /\ pc' = [pc EXCEPT ![w] = "enqueue"]
    /\ UNCHANGED <<tableVars, queued, electVars, again, snap, batch, first, at, faults>>
\* UPDATE ... SET seq = first + n - 1, published_at = now(), seen by others at commit.
Number(w) ==
    /\ pc[w] = "update"
    /\ ~UniqueViolation(w) /\ ~Contended(w)
    /\ todo' = [todo EXCEPT ![w] = JobsOf(batch[w])]
    /\ pc' = [pc EXCEPT ![w] = "enqueue"]
    /\ UNCHANGED <<tableVars, queued, emitted, electVars, again, snap, batch, first, at, faults>>

\* The UPDATE fails on the unique index; drain() logs it and gives up this round.
NumberConflict(w) ==
    /\ pc[w] = "update"
    /\ UniqueViolation(w)
    /\ FinishDrain(w)
    /\ UNCHANGED <<tableVars, queued, emitted, electVars, faults>>

\* enqueueJobs(): one BullMQ add per route, before the commit.
Enqueue(w, j) ==
    /\ pc[w] = "enqueue"
    /\ j \in todo[w]
    /\ queued' = queued \cup {j}
    /\ todo' = [todo EXCEPT ![w] = @ \ {j}]
    /\ UNCHANGED <<tableVars, emitted, electVars, again, pc, snap, batch, first, at, faults>>

\* Mutant for JobsBeforePublish: the adds are not awaited.
CommitAtOnce(w) ==
    /\ pc[w] = "enqueue"
    /\ seq' = Log!Numbered(batch[w], first[w])
    /\ pc' = [pc EXCEPT ![w] = "emit"]
    /\ at' = [at EXCEPT ![w] = 1]
    /\ UNCHANGED <<written, pruned, queued, emitted, electVars, again, snap, batch, first, todo, faults>>
\* COMMIT
Commit(w) ==
    /\ pc[w] = "enqueue" /\ todo[w] = {}
    /\ seq' = Log!Numbered(batch[w], first[w])
    /\ pc' = [pc EXCEPT ![w] = "emit"]
    /\ at' = [at EXCEPT ![w] = 1]
    /\ UNCHANGED <<written, pruned, queued, emitted, electVars, again, snap, batch, first, todo, faults>>

\* emit() of the next event of the batch, to its rooms and to the gateways.
Emit(w) ==
    /\ pc[w] = "emit" /\ at[w] \in DOMAIN batch[w]
    /\ emitted' = emitted \cup {batch[w][at[w]]}
    /\ at' = [at EXCEPT ![w] = @ + 1]
    /\ UNCHANGED <<tableVars, queued, electVars, again, pc, snap, batch, first, todo, faults>>

\* drain()'s loop: a full batch is followed by another one while the process leads.
BatchDone(w) ==
    /\ pc[w] = "emit" /\ at[w] \notin DOMAIN batch[w]
    /\ pc' = [pc EXCEPT ![w] =
                IF DOMAIN batch[w] = 1..BatchSize /\ leader[w] THEN "select" ELSE "prune"]
    /\ batch' = [batch EXCEPT ![w] = << >>]
    /\ first' = [first EXCEPT ![w] = 0]
    /\ at' = [at EXCEPT ![w] = 0]
    /\ UNCHANGED <<tableVars, queued, emitted, electVars, again, snap, todo, faults>>

\* Mutant for SeqDense: the newest published event may be deleted too.
PruneOld(old, last) == old
\* The rows pruneIfDue() deletes of those over 7 days old: the newest published event, last,
\* stays.
PruneRows(old, last) == {e \in old : seq[e] < last}

\* No publishing transaction stays open for the 7 days that an event is retained.
RetentionOutlastsTx(old) ==
    \A v \in Workers : pc[v] \in {"update", "enqueue"} => \A e \in old : seq[e] < first[v]

\* pruneIfDue(), and the end of drain().  published_at is the time its transaction began, so two
\* leaders that overlap may write it in another order than seq: any rows may be the old ones.
Prune(w) ==
    /\ pc[w] = "prune"
    /\ \E old \in SUBSET Retained, last \in {0} \cup {seq[e] : e \in Retained} :
          /\ \A e \in Retained : seq[e] <= last
          /\ RetentionOutlastsTx(old)
          /\ pruned' = pruned \cup PruneRows(old, last)
    /\ FinishDrain(w)
    /\ UNCHANGED <<written, seq, queued, emitted, electVars, faults>>

-------------------------------------------------------------------------------
(* What goes wrong. *)

\* A statement, a job add or the transaction fails: it rolls back, and drain() logs it.
Fail(w) ==
    /\ pc[w] \in {"select", "lock", "max", "update", "enqueue", "prune"}
    /\ Fault
    /\ FinishDrain(w)
    /\ UNCHANGED <<tableVars, queued, emitted, electVars>>

\* The commit takes effect and its answer is lost: the batch is published, drain() fails.
CommitUnanswered(w) ==
    /\ pc[w] = "enqueue" /\ todo[w] = {}
    /\ Fault
    /\ seq' = Log!Numbered(batch[w], first[w])
    /\ FinishDrain(w)
    /\ UNCHANGED <<written, pruned, queued, emitted, electVars>>

\* The server ends the connection that holds the advisory lock.
LoseLock(w) ==
    /\ lock = w
    /\ Fault
    /\ lock' = NoWorker
    /\ UNCHANGED <<tableVars, queued, emitted, status, leader, again, pc, txVars>>

\* stepDown(): the process learns of it.
StepDown(w) ==
    /\ leader[w] /\ lock # w
    /\ leader' = [leader EXCEPT ![w] = FALSE]
    /\ UNCHANGED <<tableVars, queued, emitted, lock, status, again, pc, txVars, faults>>

\* The process dies: its connections, its locks and its open transaction go with it.
Crash(w) ==
    /\ status[w] # "down"
    /\ Fault
    /\ status' = [status EXCEPT ![w] = "down"]
    /\ leader' = [leader EXCEPT ![w] = FALSE]
    /\ lock' = IF lock = w THEN NoWorker ELSE lock
    /\ pc' = [pc EXCEPT ![w] = "idle"]
    /\ again' = [again EXCEPT ![w] = FALSE]
    /\ snap' = [snap EXCEPT ![w] = {}]
    /\ batch' = [batch EXCEPT ![w] = << >>]
    /\ first' = [first EXCEPT ![w] = 0]
    /\ todo' = [todo EXCEPT ![w] = {}]
    /\ at' = [at EXCEPT ![w] = 0]
    /\ UNCHANGED <<tableVars, queued, emitted>>

\* onApplicationShutdown(): leads no more, lets the drain in progress finish ...
Shutdown(w) ==
    /\ status[w] = "up"
    /\ Fault
    /\ status' = [status EXCEPT ![w] = "stopping"]
    /\ leader' = [leader EXCEPT ![w] = FALSE]
    /\ UNCHANGED <<tableVars, queued, emitted, lock, again, pc, txVars>>

\* ... and then ends the connection that held the lock.
Stopped(w) ==
    /\ status[w] = "stopping" /\ pc[w] = "idle"
    /\ status' = [status EXCEPT ![w] = "down"]
    /\ lock' = IF lock = w THEN NoWorker ELSE lock
    /\ UNCHANGED <<tableVars, queued, emitted, leader, again, pc, txVars, faults>>

-------------------------------------------------------------------------------

Transact(w) ==
    \/ Select(w) \/ LockRows(w) \/ ReadMax(w) \/ Number(w) \/ NumberConflict(w)
    \/ Commit(w) \/ Emit(w) \/ BatchDone(w) \/ Prune(w)

Publish(w) == Transact(w) \/ \E j \in Consumers \X Events : Enqueue(w, j)

Elect(w) == Start(w) \/ TryLead(w) \/ Wake(w) \/ StepDown(w) \/ Stopped(w)

Break(w) == Fail(w) \/ CommitUnanswered(w) \/ LoseLock(w) \/ Crash(w) \/ Shutdown(w)

Next ==
    \/ \E S \in SUBSET Events : Append(S)
    \/ \E w \in Workers : Publish(w) \/ Elect(w) \/ Break(w)

Spec == Init /\ [][Next]_vars

\* A supervised process restarts, a leaderless worker retries every 5 s, a leader polls
\* every 500 ms, a dead connection is noticed, and a drain in progress goes on.
Fairness ==
    \A w \in Workers :
        /\ WF_vars(Start(w)) /\ WF_vars(TryLead(w)) /\ WF_vars(StepDown(w))
        /\ WF_vars(Stopped(w)) /\ WF_vars(Wake(w)) /\ WF_vars(Publish(w))

FairSpec == Spec /\ Fairness

-------------------------------------------------------------------------------
(* Properties. *)

TypeOK ==
    /\ written \subseteq Events
    /\ seq \in [Events -> Nat]
    /\ pruned \subseteq Events
    /\ queued \subseteq Consumers \X Events
    /\ emitted \subseteq Events
    /\ lock \in Workers \cup {NoWorker}
    /\ status \in [Workers -> {"down", "up", "stopping"}]
    /\ leader \in [Workers -> BOOLEAN]
    /\ again \in [Workers -> BOOLEAN]
    /\ pc \in [Workers -> Phases]
    /\ snap \in [Workers -> SUBSET Events]
    /\ batch \in [Workers -> BatchSeqs]
    /\ first \in [Workers -> Nat]
    /\ todo \in [Workers -> SUBSET (Consumers \X Events)]
    /\ at \in [Workers -> Nat]
    /\ faults \in 0..MaxFaults

\* "max + 1: a single writer, so gap-free in publish order" (relay.ts:40): whatever
\* happens to the leadership, and after pruning, the numbers given so far are 1..n, each
\* to one event.
SeqDense ==
    /\ \A d, e \in Published : seq[d] = seq[e] => d = e
    /\ \A e \in Events : \A n \in 1..seq[e] : \E d \in Events : seq[d] = n

\* "every seq a client receives is already visible to sync" (relay.ts:46): an envelope
\* goes out only for a committed number, and no transaction still open will commit a
\* smaller one, so a socket that syncs up to it misses nothing below it.
EmitAfterCommit ==
    \A e \in emitted :
        /\ e \in Published
        /\ \A v \in Workers : pc[v] = "enqueue" => first[v] > seq[e]

\* A published event has had a job added for each of its consumers, although the jobs are
\* not part of the transaction (relay.ts:302): none is lost when a batch fails half-way.
JobsBeforePublish ==
    \A e \in Published : \A c \in Routes[e] : <<c, e>> \in queued

\* The relay implements the abstract log: at most one batch at a time takes numbers, they
\* follow every number ever given, a published event keeps its number, and pruning never
\* takes the newest (relay.ts:263-353).
LogSpec == Log!Spec

\* Every event of a committed transaction is published in the end, if the faults stop.
EventuallyPublished == \A e \in Events : e \in written ~> e \in Published
===============================================================================
