------------------------------- MODULE EventLog -------------------------------
(***************************************************************************)
(* What the transactional outbox promises to everyone who reads it: events *)
(* are written once, each gets one sequence number when it is published,   *)
(* the numbers 1, 2, 3, ... are given in publish order without a gap, and  *)
(* only published events are ever deleted, and never the newest.           *)
(*                                                                         *)
(* This is the contract of outbox_events as the relay's class comment and  *)
(* contracts/realtime-events.md state it (`seq` gap-free in publish order, *)
(* events kept for the replay of `sync`).  OutboxRelay is shown to         *)
(* implement it; RealtimeSync is built on it.                              *)
(***************************************************************************)
EXTENDS Naturals

CONSTANTS
    Events,              \* outbox_events ids (uuidv7), ordered as numbers
    BatchSize            \* the most events published at a time

VARIABLES
    written,             \* ids of the rows committed so far, deleted ones included
    seq,                 \* seq[e]: the published sequence number, 0 while it is NULL
    pruned               \* ids of the rows deleted again by the relay

logVars == <<written, seq, pruned>>

Published == {e \in Events : seq[e] > 0}
Retained  == Published \ pruned
Unpublished == {e \in written : seq[e] = 0}

\* The events of a batch, and the sequence numbers it gives when its first one gets `first`.
Members(b) == {b[i] : i \in DOMAIN b}
Numbered(b, first) ==
    [e \in Events |-> IF e \in Members(b)
                      THEN first + (CHOOSE i \in DOMAIN b : b[i] = e) - 1
                      ELSE seq[e]]

\* The non-empty sequences of at most BatchSize distinct unpublished events.
Batches ==
    {b \in UNION {[1..n -> Unpublished] : n \in 1..BatchSize} :
        \A i, j \in DOMAIN b : b[i] = b[j] => i = j}

-------------------------------------------------------------------------------

Init ==
    /\ written = {}
    /\ seq = [e \in Events |-> 0]
    /\ pruned = {}

\* A domain transaction commits: every event it appended becomes a row, at once.
Write(S) ==
    /\ S # {}
    /\ S \cap written = {}
    /\ written' = written \cup S
    /\ UNCHANGED <<seq, pruned>>

\* A batch of unpublished events takes the next numbers, after every number ever given.
Publish(b) ==
    /\ \E last \in {0} \cup {seq[e] : e \in Events} :
          /\ \A e \in Events : seq[e] <= last
          /\ seq' = Numbered(b, last + 1)
    /\ UNCHANGED <<written, pruned>>

\* The events S are deleted; one above all of them stays.
Prune(S) ==
    /\ \E e \in Retained : \A d \in S : seq[d] < seq[e]
    /\ pruned' = pruned \cup S
    /\ UNCHANGED <<written, seq>>

Next ==
    \/ \E S \in SUBSET Events : Write(S)
    \/ \E b \in Batches : Publish(b)
    \/ \E S \in SUBSET Retained : Prune(S)

Spec == Init /\ [][Next]_logVars
===============================================================================
