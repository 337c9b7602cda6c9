----------------------------- MODULE ServicesProofs -----------------------------
(***************************************************************************)
(* Proofs about MCServices: its specification runs each component as the   *)
(* component's own module does, so that what is proved of the components   *)
(* holds in the behaviours the services runs check.  The relay is the only *)
(* component whose proofs, in OutboxRelayProofs, are about other names for *)
(* its constants and variables: RP is that module with the names it has    *)
(* here.                                                                   *)
(***************************************************************************)
EXTENDS MCServices, EventJobsProofs, TicketServiceProofs, BoundaryProofs

RP ==
    INSTANCE OutboxRelayProofs WITH
        Events <- {1, 2}, Workers <- RelayWorkers, Routes <- RelayRoutes,
        BatchSize <- 1, NoWorker <- Nil, MaxFaults <- 1,
        queued <- enqueued, pc <- drain, at <- drainAt, faults <- relayFaults

-------------------------------------------------------------------------------
(* A component takes its own steps while it is in focus, and none otherwise. *)

LEMMA RunsJobs == ServicesSpec => Spec
<1>1. ServicesInit => Init
  BY DEF ServicesInit
<1>2. [ServicesNext]_servicesVars => [Next]_vars
  BY DEF ServicesNext, OthersUnchanged, servicesVars
<1> QED
  BY <1>1, <1>2, PTL DEF ServicesSpec, Spec

LEMMA RunsScan == ServicesSpec => Scan!Spec
<1>1. ServicesInit => Scan!Init
  BY DEF ServicesInit
<1>2. [ServicesNext]_servicesVars => [Scan!Next]_(Scan!vars)
  <2>1. UNCHANGED scanVars => UNCHANGED Scan!vars
    BY DEF scanVars, Scan!vars, Scan!jobVars
  <2> QED
    BY <2>1 DEF ServicesNext, OthersUnchanged, servicesVars
<1> QED
  BY <1>1, <1>2, PTL DEF ServicesSpec, Scan!Spec

LEMMA RunsWebhooks == ServicesSpec => Hook!Spec
<1>1. ServicesInit => Hook!Init
  BY DEF ServicesInit
<1>2. [ServicesNext]_servicesVars => [Hook!Next]_(Hook!vars)
  <2>1. UNCHANGED hookVars => UNCHANGED Hook!vars
    BY DEF hookVars, Hook!vars, Hook!settings, Hook!rows, Hook!work
  <2> QED
    BY <2>1 DEF ServicesNext, OthersUnchanged, servicesVars
<1> QED
  BY <1>1, <1>2, PTL DEF ServicesSpec, Hook!Spec

LEMMA RunsSla == ServicesSpec => Sla!Spec
<1>1. ServicesInit => Sla!Init
  BY DEF ServicesInit
<1>2. [ServicesNext]_servicesVars => [Sla!Next]_(Sla!vars)
  <2>1. UNCHANGED slaVars => UNCHANGED Sla!vars
    BY DEF slaVars, Sla!vars
  <2> QED
    BY <2>1 DEF ServicesNext, OthersUnchanged, servicesVars
<1> QED
  BY <1>1, <1>2, PTL DEF ServicesSpec, Sla!Spec

LEMMA RunsAssistant == ServicesSpec => Ai!Spec
<1>1. ServicesInit => Ai!Init
  BY DEF ServicesInit
<1>2. [ServicesNext]_servicesVars => [Ai!Next]_(Ai!vars)
  <2>1. UNCHANGED aiVars => UNCHANGED Ai!vars
    BY DEF aiVars, Ai!vars, Ai!settings, Ai!state
  <2> QED
    BY <2>1 DEF ServicesNext, OthersUnchanged, servicesVars
<1> QED
  BY <1>1, <1>2, PTL DEF ServicesSpec, Ai!Spec

LEMMA RunsAutomation == ServicesSpec => Automation!Spec
<1>1. ServicesInit => Automation!Init
  BY DEF ServicesInit
<1>2. [ServicesNext]_servicesVars => [Automation!Next]_(Automation!vars)
  <2>1. UNCHANGED autoVars => UNCHANGED Automation!vars
    BY DEF autoVars, Automation!vars, Automation!rules, Automation!ticket, Automation!jobs
  <2> QED
    BY <2>1 DEF ServicesNext, OthersUnchanged, servicesVars
<1> QED
  BY <1>1, <1>2, PTL DEF ServicesSpec, Automation!Spec

LEMMA RunsDigest == ServicesSpec => Digest!Spec
<1>1. ServicesInit => Digest!Init
  BY DEF ServicesInit
<1>2. [ServicesNext]_servicesVars => [Digest!Next]_(Digest!vars)
  <2>1. UNCHANGED digestVars => UNCHANGED Digest!vars
    BY DEF digestVars, Digest!vars, Digest!redis, Digest!jobs, Digest!ghosts
  <2> QED
    BY <2>1 DEF ServicesNext, OthersUnchanged, servicesVars
<1> QED
  BY <1>1, <1>2, PTL DEF ServicesSpec, Digest!Spec

LEMMA RunsSessions == ServicesSpec => Session!Spec
<1>1. ServicesInit => Session!Init
  BY DEF ServicesInit
<1>2. [ServicesNext]_servicesVars => [Session!Next]_(Session!vars)
  <2>1. UNCHANGED sessionVars => UNCHANGED Session!vars
    BY DEF sessionVars, Session!vars
  <2> QED
    BY <2>1 DEF ServicesNext, OthersUnchanged, servicesVars
<1> QED
  BY <1>1, <1>2, PTL DEF ServicesSpec, Session!Spec

LEMMA RunsIndex == ServicesSpec => Index!Spec
<1>1. ServicesInit => Index!Init
  BY DEF ServicesInit
<1>2. [ServicesNext]_servicesVars => [Index!Next]_(Index!vars)
  <2>1. UNCHANGED policyVars => UNCHANGED Index!vars
    BY DEF policyVars, Index!vars, Index!jobVars
  <2> QED
    BY <2>1 DEF ServicesNext, OthersUnchanged, servicesVars
<1> QED
  BY <1>1, <1>2, PTL DEF ServicesSpec, Index!Spec

LEMMA RunsViews == ServicesSpec => Views!Spec
<1>1. ServicesInit => Views!Init
  BY DEF ServicesInit
<1>2. [ServicesNext]_servicesVars => [Views!Next]_(Views!vars)
  <2>1. UNCHANGED viewVars => UNCHANGED Views!vars
    BY DEF viewVars, Views!vars, Views!runVars, Views!trailing, Views!clientVars
  <2> QED
    BY <2>1 DEF ServicesNext, OthersUnchanged, servicesVars
<1> QED
  BY <1>1, <1>2, PTL DEF ServicesSpec, Views!Spec

-------------------------------------------------------------------------------
(* The relay: both instances of it have the same actions. *)

LEMMA RelayHolds == RP!RelayAssumption
BY ServicesAssumption DEF RP!RelayAssumption, RelayRoutes

LEMMA SameRelay ==
    ASSUME [Relay!Next]_(Relay!vars) PROVE [RP!Next]_(RP!vars)
<1> USE DEF Relay!tableVars, RP!tableVars, Relay!electVars, RP!electVars, Relay!txVars, RP!txVars
<1>1. ASSUME UNCHANGED Relay!vars PROVE UNCHANGED RP!vars
  BY <1>1 DEF Relay!vars, RP!vars
<1>2. ASSUME NEW S \in SUBSET {1, 2}, Relay!Append(S) PROVE RP!Append(S)
  BY <1>2 DEF Relay!Append, RP!Append, Relay!Log!Write, RP!Log!Write
<1>3. ASSUME NEW w \in RelayWorkers, Relay!Start(w) PROVE RP!Start(w)
  BY <1>3 DEF Relay!Start, RP!Start
<1>4. ASSUME NEW w \in RelayWorkers, Relay!TryLead(w) PROVE RP!TryLead(w)
  BY <1>4 DEF Relay!TryLead, RP!TryLead, Relay!WakeUp, RP!WakeUp
<1>5. ASSUME NEW w \in RelayWorkers, Relay!Wake(w) PROVE RP!Wake(w)
  BY <1>5 DEF Relay!Wake, RP!Wake, Relay!WakeUp, RP!WakeUp
<1>6. ASSUME NEW w \in RelayWorkers, Relay!StepDown(w) PROVE RP!StepDown(w)
  BY <1>6 DEF Relay!StepDown, RP!StepDown
<1>7. ASSUME NEW w \in RelayWorkers, Relay!Stopped(w) PROVE RP!Stopped(w)
  BY <1>7 DEF Relay!Stopped, RP!Stopped
<1>8. ASSUME NEW w \in RelayWorkers, Relay!Select(w) PROVE RP!Select(w)
  BY <1>8 DEF Relay!Select, RP!Select, Relay!Unpublished, RP!Unpublished, Relay!Log!Unpublished,
     RP!Log!Unpublished
<1>9. ASSUME NEW w \in RelayWorkers, Relay!LockRows(w) PROVE RP!LockRows(w)
  BY <1>9 DEF Relay!LockRows, RP!LockRows, Relay!Unpublished, RP!Unpublished,
     Relay!Log!Unpublished, RP!Log!Unpublished, Relay!FirstRows, RP!FirstRows,
     Relay!LockedBy, RP!LockedBy, Relay!Members, RP!Members, Relay!Log!Members,
     RP!Log!Members
<1>10. ASSUME NEW w \in RelayWorkers, Relay!ReadMax(w) PROVE RP!ReadMax(w)
  BY <1>10 DEF Relay!ReadMax, RP!ReadMax, Relay!Retained, RP!Retained, Relay!Log!Retained,
     RP!Log!Retained, Relay!Log!Published, RP!Log!Published
<1>11. ASSUME NEW w \in RelayWorkers, Relay!Number(w) PROVE RP!Number(w)
  BY <1>11 DEF Relay!Number, RP!Number, Relay!UniqueViolation, RP!UniqueViolation, Relay!Contended,
     RP!Contended, Relay!Retained, RP!Retained, Relay!Log!Retained, RP!Log!Retained,
     Relay!Log!Published, RP!Log!Published, Relay!Numbers, RP!Numbers, Relay!JobsOf,
     RP!JobsOf, Relay!Members, RP!Members, Relay!Log!Members, RP!Log!Members
<1>12. ASSUME NEW w \in RelayWorkers, Relay!NumberConflict(w) PROVE RP!NumberConflict(w)
  BY <1>12 DEF Relay!NumberConflict, RP!NumberConflict, Relay!UniqueViolation, RP!UniqueViolation,
     Relay!Retained, RP!Retained, Relay!Log!Retained, RP!Log!Retained,
     Relay!Log!Published, RP!Log!Published, Relay!Numbers, RP!Numbers, Relay!FinishDrain,
     RP!FinishDrain
<1>13. ASSUME NEW w \in RelayWorkers, Relay!Commit(w) PROVE RP!Commit(w)
  BY <1>13 DEF Relay!Commit, RP!Commit, Relay!Log!Numbered, RP!Log!Numbered, Relay!Log!Members,
     RP!Log!Members
<1>14. ASSUME NEW w \in RelayWorkers, Relay!Emit(w) PROVE RP!Emit(w)
  BY <1>14 DEF Relay!Emit, RP!Emit
<1>15. ASSUME NEW w \in RelayWorkers, Relay!BatchDone(w) PROVE RP!BatchDone(w)
  BY <1>15 DEF Relay!BatchDone, RP!BatchDone
<1>16. ASSUME NEW w \in RelayWorkers, Relay!Prune(w) PROVE RP!Prune(w)
  BY <1>16 DEF Relay!Prune, RP!Prune, Relay!Retained, RP!Retained, Relay!Log!Retained,
     RP!Log!Retained, Relay!Log!Published, RP!Log!Published, Relay!PruneRows,
     RP!PruneRows, Relay!RetentionOutlastsTx, RP!RetentionOutlastsTx, Relay!FinishDrain,
     RP!FinishDrain
<1>17. ASSUME NEW w \in RelayWorkers, Relay!Fail(w) PROVE RP!Fail(w)
  BY <1>17 DEF Relay!Fail, RP!Fail, Relay!Fault, RP!Fault, Relay!FinishDrain, RP!FinishDrain
<1>18. ASSUME NEW w \in RelayWorkers, Relay!CommitUnanswered(w) PROVE RP!CommitUnanswered(w)
  BY <1>18 DEF Relay!CommitUnanswered, RP!CommitUnanswered, Relay!Fault, RP!Fault,
     Relay!FinishDrain, RP!FinishDrain, Relay!Log!Numbered, RP!Log!Numbered,
     Relay!Log!Members, RP!Log!Members
<1>19. ASSUME NEW w \in RelayWorkers, Relay!LoseLock(w) PROVE RP!LoseLock(w)
  BY <1>19 DEF Relay!LoseLock, RP!LoseLock, Relay!Fault, RP!Fault
<1>20. ASSUME NEW w \in RelayWorkers, Relay!Crash(w) PROVE RP!Crash(w)
  BY <1>20 DEF Relay!Crash, RP!Crash, Relay!Fault, RP!Fault
<1>21. ASSUME NEW w \in RelayWorkers, Relay!Shutdown(w) PROVE RP!Shutdown(w)
  BY <1>21 DEF Relay!Shutdown, RP!Shutdown, Relay!Fault, RP!Fault
<1>22. ASSUME NEW w \in RelayWorkers, NEW j \in Consumers \X {1, 2}, Relay!Enqueue(w, j)
      PROVE  RP!Enqueue(w, j)
  BY <1>22 DEF Relay!Enqueue, RP!Enqueue
<1> QED
  BY <1>1, <1>2, <1>3, <1>4, <1>5, <1>6, <1>7, <1>8, <1>9, <1>10, <1>11, <1>12, <1>13,
     <1>14, <1>15, <1>16, <1>17, <1>18, <1>19, <1>20, <1>21, <1>22
  DEF Relay!Next, RP!Next, Relay!Publish, RP!Publish, Relay!Transact, RP!Transact,
     Relay!Elect, RP!Elect, Relay!Break, RP!Break

LEMMA RunsRelay == ServicesSpec => RP!Spec
<1>1. ServicesInit => RP!Init
  BY DEF ServicesInit, Relay!Init, RP!Init, Relay!Log!Init, RP!Log!Init
<1>2. [ServicesNext]_servicesVars => [RP!Next]_(RP!vars)
  <2>1. UNCHANGED relayVars => UNCHANGED Relay!vars
    BY DEF relayVars, Relay!vars, Relay!tableVars, Relay!electVars, Relay!txVars
  <2>2. [ServicesNext]_servicesVars => [Relay!Next]_(Relay!vars)
    BY <2>1 DEF ServicesNext, OthersUnchanged, servicesVars
  <2> QED
    BY <2>2, SameRelay
<1> QED
  BY <1>1, <1>2, PTL DEF ServicesSpec, RP!Spec

-------------------------------------------------------------------------------
(* What holds in the runs of the services, for any values of the constants. *)

LEMMA RelayTyped == ServicesSpec => []Relay!TypeOK
<1>1. RP!TypeOK => Relay!TypeOK
  BY DEF RP!TypeOK, Relay!TypeOK, RP!Phases, Relay!Phases, RP!BatchSeqs, Relay!BatchSeqs
<1> QED
  BY <1>1, RelayHolds, RunsRelay, RP!TypeCorrect, PTL

\* Every component keeps to its types in the runs of the services: no worker, browser, timer or
\* rule, and none of the faults that the components allow, leaves a row, job or entry that the
\* code has no case for.
THEOREM ServicesTyped == ServicesSpec => []ServicesTypeOK
<1>1. /\ HookInv => Hook!TypeOK
      /\ DigestInv => Digest!TypeOK
      /\ ScanInv => Scan!TypeOK
      /\ IndexInv => Index!TypeOK
      /\ SlaInv => Sla!TypeOK
  BY DEF HookInv, DigestInv, ScanInv, IndexInv, SlaInv
<1>2. ServicesSpec => /\ []TypeOK /\ []Relay!TypeOK /\ []Ai!TypeOK /\ []Automation!TypeOK
                      /\ []Session!TypeOK /\ []Views!TypeOK
  BY RunsJobs, RunsAssistant, RunsAutomation, RunsSessions, RunsViews,
     JobsTypeCorrect, RelayTyped, AssistantTyped, RulesTyped, SessionTyped, ViewTyped, PTL
<1>3. ServicesSpec => /\ []Hook!TypeOK /\ []Digest!TypeOK /\ []Scan!TypeOK /\ []Index!TypeOK
                      /\ []Sla!TypeOK
  BY <1>1, RunsWebhooks, RunsDigest, RunsScan, RunsIndex, RunsSla,
     HookInvariant, DigestInvariant, ScanInvariant, IndexInvariant, SlaInvariant, PTL
<1>4. /\ TypeOK /\ Relay!TypeOK /\ Ai!TypeOK /\ Automation!TypeOK /\ Session!TypeOK
      /\ Views!TypeOK /\ Hook!TypeOK /\ Digest!TypeOK /\ Scan!TypeOK /\ Index!TypeOK
      /\ Sla!TypeOK
      => ServicesTypeOK
  BY DEF ServicesTypeOK
<1> QED
  BY <1>2, <1>3, <1>4, PTL

\* What the components promise holds in the runs of the services: a job that was added is kept
\* until it has run or is buried, a delivery has one sender and one living chain, a counted burst
\* has its digest, a revoked session stops being accepted, a file marked clean was scanned,
\* the newest policy is searched, views show the latest counts, the assistant answers in place
\* and not when stopped, rules answer once and end, SLA timers converge and speak once, and a
\* scan that meets fewer failures than it has attempts does not fail for good with a file to scan.
THEOREM ServicesKeepPromises ==
    ServicesSpec => /\ []AddedIsKept
                    /\ []OneSender /\ []OneAlive /\ []BurstHasJob
                    /\ []RevokedStops /\ []ShowsLatest
                    /\ []CleanIsScanned /\ []NewestServed
                    /\ []AnswersInPlace /\ []SilentWhenStopped
                    /\ []RepliesOnce /\ []ChainsEnd
                    /\ []Converged /\ []SaidOnce
                    /\ ScanFaults < ScanAttempts => []UsesUpAttempts
<1>1. ServicesSpec => /\ []AddedIsKept /\ []OneSender /\ []OneAlive /\ []BurstHasJob
                      /\ []RevokedStops /\ []ShowsLatest /\ []CleanIsScanned /\ []NewestServed
  BY RunsJobs, RunsWebhooks, RunsDigest, RunsSessions, RunsViews, RunsScan, RunsIndex,
     JobsKept, NeverSentTwiceAtOnce, OneChain, BurstsAreTold, RevokedIsRefused,
     ViewerSeesLatest, CleanFilesWereScanned, NewestVersionIsServed, PTL
<1>2. ServicesSpec => /\ []AnswersInPlace /\ []SilentWhenStopped /\ []RepliesOnce
                      /\ []ChainsEnd /\ []Converged /\ []SaidOnce
  BY RunsAssistant, RunsAutomation, RunsSla,
     NobodyIsTalkedOver, StoppedMeansSilent, OneReplyForATrigger, RuleChainsEnd,
     RecomputesConverge, AnnouncedOnce, PTL
<1>3. ASSUME ScanFaults < ScanAttempts PROVE ServicesSpec => []UsesUpAttempts
  <2>1. Scan!Spec => []UsesUpAttempts
    BY <1>3, AttemptsOutlastFailures
  <2> QED
    BY <2>1, RunsScan, PTL
<1> QED
  BY <1>1, <1>2, <1>3
===============================================================================
