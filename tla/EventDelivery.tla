---------------------------- MODULE EventDelivery ----------------------------
(***************************************************************************)
(* What the whole event pipeline promises to a consumer of events, with no *)
(* relay, lock, job queue or worker in sight: an event is published only   *)
(* when each of its consumers is taken care of, a consumer's effects are   *)
(* committed once, and an event is given up on only in the open.           *)
(*                                                                         *)
(* This is the contract of OutboxRelay.publishBatch, enqueueEvent and      *)
(* IdempotentHandler taken together; EventPipeline is shown to keep it.    *)
(***************************************************************************)
EXTENDS Naturals

CONSTANTS
    Events, Consumers,
    Routes               \* Routes[e]: the consumers of event e

VARIABLES
    written,             \* events of committed transactions
    published,           \* events that have their number
    pending,             \* <<consumer, event>> still to be handled, or to be settled
    effects,             \* effects[j]: how often the effects of j were committed
    failed               \* failed for good, a copy of it kept or not

deliveryVars == <<written, published, pending, effects, failed>>

Jobs == Consumers \X Events

CaredFor(j) == effects[j] = 1 \/ j \in pending \cup failed

-------------------------------------------------------------------------------

Init ==
    /\ written = {} /\ published = {}
    /\ pending = {}
    /\ effects = [j \in Jobs |-> 0]
    /\ failed = {}

Write(S) ==
    /\ S # {}
    /\ S \cap written = {}
    /\ written' = written \cup S
    /\ UNCHANGED <<published, pending, effects, failed>>

\* A consumer hears of committed events only, and of none anew once it is published.
Add(j) ==
    /\ j[2] \in written \ published
    /\ pending' = pending \cup {j}
    /\ UNCHANGED <<written, published, effects, failed>>

\* The effects are committed: never twice, and not for a job that nobody was given.  The
\* job may have failed for good meanwhile.
Handle(j) ==
    /\ j \in pending \cup failed
    /\ effects[j] = 0
    /\ effects' = [effects EXCEPT ![j] = 1]
    /\ UNCHANGED <<written, published, pending, failed>>

\* A job is settled only when its effects are committed.
Settle(j) ==
    /\ j \in pending
    /\ effects[j] = 1
    /\ pending' = pending \ {j}
    /\ UNCHANGED <<written, published, effects, failed>>

GiveUp(j) ==
    /\ j \in pending
    /\ pending' = pending \ {j}
    /\ failed' = failed \cup {j}
    /\ UNCHANGED <<written, published, effects>>

\* Events are published when all their consumers are cared for.
Publish(S) ==
    /\ S # {}
    /\ S \subseteq written \ published
    /\ \A e \in S : \A c \in Routes[e] : CaredFor(<<c, e>>)
    /\ published' = published \cup S
    /\ UNCHANGED <<written, pending, effects, failed>>

Next ==
    \/ \E S \in SUBSET Events : Write(S) \/ Publish(S)
    \/ \E j \in Jobs : Add(j) \/ Handle(j) \/ Settle(j) \/ GiveUp(j)

Spec == Init /\ [][Next]_deliveryVars
===============================================================================
