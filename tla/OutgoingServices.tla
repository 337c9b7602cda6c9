---------------------------- MODULE OutgoingServices ----------------------------
(***************************************************************************)
(* What leaves the system: webhooks and digests by email.  The components  *)
(* share no state; here they get constants and variables of their own, and *)
(* their properties names that runs and theorems use.                      *)
(***************************************************************************)
EXTENDS Integers

CONSTANTS
    Senders, HookAttempts, HookTimeout, HookLease, HookDelay, HookGrace, HookQueue, HookFaults,
    Messages, NoMessage, DigestAttempts, DigestFaults

VARIABLES
    active, endpoint, aged, attempt, due, deliveries, delivery, at, left, result, hookFaults,
    counting, count, expires, digests, knownDigests, digestMade, sender, untold, stranded, dropped,
    digestFaults

Hook ==
    INSTANCE WebhookDelivery WITH
        Workers <- Senders, MaxAttempts <- HookAttempts, Timeout <- HookTimeout,
        Lease <- HookLease, Delay <- HookDelay, Grace <- HookGrace, MaxQueued <- HookQueue,
        MaxFaults <- HookFaults,
        row <- attempt, queued <- deliveries, pc <- delivery, faults <- hookFaults

Digest ==
    INSTANCE NotificationDigest WITH
        Events <- Messages, NoEvent <- NoMessage, MaxAttempts <- DigestAttempts,
        MaxFaults <- DigestFaults,
        step <- counting, queued <- digests, known <- knownDigests, made <- digestMade,
        faults <- digestFaults

ASSUME OutgoingAssumption == Hook!HookConstants /\ Digest!DigestConstants

\* An attempt is sent by one worker at a time (delivery.job.ts:38).
OneSender == Hook!OneSender
\* One chain of attempts, of which at most one is still to be sent (delivery.job.ts:132).
OneAlive == Hook!OneAlive
\* An attempt to be sent comes to an end in an active tenant (webhook-sweep.job.ts:20).
EventuallyFinal == Hook!EventuallyFinal

\* A counted message has a digest to come (notification-digest.job.ts:54).
BurstHasJob == Digest!BurstHasJob
===============================================================================
