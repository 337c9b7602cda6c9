---------------------------- MODULE BoundaryProofs ----------------------------
(***************************************************************************)
(* Proofs about what leaves the system, what a browser is served and what  *)
(* the workers do with a file: the webhooks and digests of                 *)
(* OutgoingServices, the session and the view counts of BrowserServices,   *)
(* the malware scan and the policy index of FileServices.                  *)
(***************************************************************************)
EXTENDS OutgoingServices, BrowserServices, FileServices, TLAPS

-------------------------------------------------------------------------------
(* Webhooks. *)

\* The chain of an event ends at attempt a, which the retention has deleted.
CutAt(a) ==
    /\ Hook!Purged(a)
    /\ \A b \in Hook!Attempts : b < a => attempt[b] = "failed" \/ Hook!Purged(b)
    /\ \A b \in Hook!Attempts : b > a => attempt[b] = "none"

\* What a delivery job knows of the attempt it sends: it is claimed for longer than its
\* request may still take, or was deleted with the endpoint or by the retention.
LeaseInv ==
    \A w \in Senders : \A a \in Hook!Attempts : Hook!Sending(w, a) =>
        endpoint = "gone" \/ (attempt[a] = "pending" /\ due[a] > left[w]) \/ CutAt(a)

\* No two workers send anything of one event.
AloneInv ==
    \A v, w \in Senders : \A a, b \in Hook!Attempts :
        Hook!Sending(v, a) /\ Hook!Sending(w, b) => v = w

\* An attempt that is to be followed by another was not the last.
RetryInv == \A w \in Senders : delivery[w] = "store" /\ result[w] = "failed" => at[w] < HookAttempts

GoneInv == endpoint = "gone" => \A a \in Hook!Attempts : attempt[a] = "none"

HookInv ==
    /\ Hook!TypeOK
    /\ LeaseInv /\ AloneInv /\ RetryInv /\ GoneInv
    /\ Hook!OneAlive

LEMMA HookInvInit == ASSUME Hook!HookConstants, Hook!Init PROVE HookInv
BY DEF Hook!HookConstants, Hook!Init, HookInv, Hook!TypeOK, LeaseInv, AloneInv, RetryInv, GoneInv,
       Hook!OneAlive, Hook!Attempts, Hook!Final, Hook!Sending

\* Queueing an attempt keeps to the bound, also of the attempt after the last.
LEMMA QueueTypes ==
    ASSUME Hook!HookConstants, deliveries \in [Hook!Attempts -> 0..HookQueue], NEW a, Hook!Queue(a)
    PROVE  deliveries' \in [Hook!Attempts -> 0..HookQueue]
<1>1. ASSUME a \in Hook!Attempts, deliveries[a] < HookQueue PROVE deliveries[a] + 1 \in 0..HookQueue
  BY <1>1 DEF Hook!HookConstants
<1>2. ASSUME a \in Hook!Attempts
      PROVE  (IF deliveries[a] < HookQueue THEN deliveries[a] + 1 ELSE deliveries[a])
             \in 0..HookQueue
  BY <1>1, <1>2
<1> QED
  BY <1>2 DEF Hook!Queue

\* The retention deletes aged attempts.
LEMMA SweepCuts ==
    ASSUME Hook!HookConstants, Hook!TypeOK, Hook!Sweep
    PROVE  \E old \in SUBSET Hook!Attempts :
              /\ \A a \in old : a <= aged /\ attempt[a] # "none"
              /\ attempt' = [a \in Hook!Attempts |-> IF a \in old THEN "none" ELSE attempt[a]]
              /\ due' = [a \in Hook!Attempts |-> IF a \in old THEN 0 ELSE due[a]]
<1>1. PICK old \in SUBSET {a \in 1..aged : attempt[a] # "none"} :
         /\ attempt' = [a \in Hook!Attempts |-> IF a \in old THEN "none" ELSE attempt[a]]
         /\ due' = [a \in Hook!Attempts |-> IF a \in old THEN 0 ELSE due[a]]
  BY DEF Hook!Sweep
<1>2. aged \in 0..HookAttempts /\ HookAttempts \in Nat
  BY DEF Hook!TypeOK, Hook!HookConstants
<1>3. \A a \in old : a \in Hook!Attempts /\ a <= aged /\ attempt[a] # "none"
  BY <1>2 DEF Hook!Attempts
<1> QED
  BY <1>1, <1>3

LEMMA FreeTypes ==
    ASSUME Hook!HookConstants, Hook!TypeOK, NEW w \in Senders, Hook!Free(w)
    PROVE  /\ delivery' \in [Senders -> {"idle", "claim", "send", "store", "enqueue"}]
           /\ at' \in [Senders -> Hook!Attempts] /\ left' \in [Senders -> 0..HookTimeout]
           /\ result' \in [Senders -> {"none", "failed"} \cup Hook!Final]
BY DEF Hook!HookConstants, Hook!TypeOK, Hook!Free, Hook!Attempts

LEMMA HookTypes ==
    ASSUME Hook!HookConstants, HookInv, [Hook!Next]_(Hook!vars)
    PROVE  Hook!TypeOK'
<1> USE DEF Hook!HookConstants, HookInv, Hook!settings, Hook!rows, Hook!work
<1>1. CASE Hook!Publish
  <2>1. deliveries' \in [Hook!Attempts -> 0..HookQueue] /\ hookFaults' \in 0..HookFaults
    BY <1>1, QueueTypes DEF Hook!Publish, Hook!TypeOK, Hook!Fault
  <2> QED
    BY <1>1, <2>1, SMTT(30) DEF Hook!Publish, Hook!TypeOK, Hook!Attempts
<1>2. CASE Hook!Sweep
  <2>1. deliveries' \in [Hook!Attempts -> 0..HookQueue] /\ hookFaults' \in 0..HookFaults
    BY <1>2, QueueTypes DEF Hook!Sweep, Hook!TypeOK, Hook!Fault
  <2>2. PICK old \in SUBSET Hook!Attempts :
           /\ attempt' = [a \in Hook!Attempts |-> IF a \in old THEN "none" ELSE attempt[a]]
           /\ due' = [a \in Hook!Attempts |-> IF a \in old THEN 0 ELSE due[a]]
    BY <1>2, SweepCuts
  <2>3. attempt' \in [Hook!Attempts -> {"none", "pending", "failed"} \cup Hook!Final]
    BY <2>2 DEF Hook!TypeOK
  <2>4. due' \in [Hook!Attempts -> Int] /\ \A a \in Hook!Attempts : -HookGrace <= due'[a]
    BY <2>2 DEF Hook!TypeOK
  <2>5. UNCHANGED <<active, endpoint, aged, delivery, at, left, result>>
    BY <1>2 DEF Hook!Sweep
  <2> QED
    BY <2>1, <2>3, <2>4, <2>5 DEF Hook!TypeOK
<1>11. CASE Hook!Age
  <2>1. aged' \in 0..HookAttempts
    BY <1>11 DEF Hook!Age, Hook!TypeOK
  <2> QED
    BY <1>11, <2>1 DEF Hook!Age, Hook!TypeOK
<1>3. CASE Hook!SwitchEndpoint \/ Hook!DeleteEndpoint \/ Hook!SuspendOrResume
  <2>1. CASE Hook!SwitchEndpoint
    BY <2>1 DEF Hook!SwitchEndpoint, Hook!TypeOK
  <2>2. CASE Hook!DeleteEndpoint
    BY <2>2 DEF Hook!DeleteEndpoint, Hook!TypeOK, Hook!Final
  <2>3. CASE Hook!SuspendOrResume
    <3>1. active' \in BOOLEAN
      BY <2>3 DEF Hook!SuspendOrResume
    <3> QED
      BY <2>3, <3>1 DEF Hook!SuspendOrResume, Hook!TypeOK
  <2> QED
    BY <1>3, <2>1, <2>2, <2>3
<1>4. CASE Hook!Tick
  <2>1. due' \in [Hook!Attempts -> Int] /\ \A a \in Hook!Attempts : -HookGrace <= due'[a]
    BY <1>4 DEF Hook!Tick, Hook!TypeOK
  <2>2. left' \in [Senders -> 0..HookTimeout]
    BY <1>4 DEF Hook!Tick, Hook!TypeOK
  <2> QED
    BY <1>4, <2>1, <2>2 DEF Hook!Tick, Hook!TypeOK
<1>5. ASSUME NEW w \in Senders, Hook!Claim(w) PROVE Hook!TypeOK'
  <2>1. CASE Hook!Free(w)
    BY <1>5, <2>1, FreeTypes DEF Hook!Claim, Hook!TypeOK, Hook!Final
  <2>2. CASE ~Hook!Free(w)
    BY <1>5, <2>2 DEF Hook!Claim, Hook!TypeOK
  <2> QED
    BY <2>1, <2>2
<1>6. ASSUME NEW w \in Senders, Hook!Send(w) PROVE Hook!TypeOK'
  BY <1>6 DEF Hook!Send, Hook!TypeOK, Hook!Final
<1>7. ASSUME NEW w \in Senders, Hook!Store(w) PROVE Hook!TypeOK'
  <2>1. attempt' \in [Hook!Attempts -> {"none", "pending", "failed"} \cup Hook!Final]
    BY <1>7 DEF Hook!Store, Hook!TypeOK
  <2>2. due' \in [Hook!Attempts -> Int] /\ \A a \in Hook!Attempts : -HookGrace <= due'[a]
    BY <1>7 DEF Hook!Store, Hook!TypeOK
  <2>3. CASE Hook!Free(w)
    BY <1>7, <2>1, <2>2, <2>3, FreeTypes DEF Hook!Store, Hook!TypeOK
  <2>4. CASE ~Hook!Free(w)
    BY <1>7, <2>1, <2>2, <2>4 DEF Hook!Store, Hook!TypeOK
  <2> QED
    BY <2>3, <2>4
<1>8. ASSUME NEW w \in Senders, Hook!Enqueue(w) \/ Hook!Fail(w) PROVE Hook!TypeOK'
  <2>1. deliveries' \in [Hook!Attempts -> 0..HookQueue] /\ hookFaults' \in 0..HookFaults
    BY <1>8, QueueTypes DEF Hook!Enqueue, Hook!Fail, Hook!TypeOK, Hook!Fault
  <2> QED
    BY <1>8, <2>1, FreeTypes DEF Hook!Enqueue, Hook!Fail, Hook!TypeOK
<1>9. ASSUME NEW w \in Senders, NEW a \in Hook!Attempts, Hook!Take(w, a) PROVE Hook!TypeOK'
  <2>1. deliveries[a] - 1 \in 0..HookQueue
    BY <1>9 DEF Hook!Take, Hook!TypeOK
  <2> QED
    BY <1>9, <2>1 DEF Hook!Take, Hook!TypeOK
<1>10. CASE UNCHANGED Hook!vars
  BY <1>10 DEF Hook!vars, Hook!TypeOK
<1> QED
  BY <1>1, <1>2, <1>3, <1>4, <1>5, <1>6, <1>7, <1>8, <1>9, <1>10, <1>11
  DEF Hook!Next, Hook!Working

\* Two workers never send at once: a claimed attempt is not due before its request is over, and
\* the chain is not continued before.
LEMMA LeaseKept ==
    ASSUME Hook!HookConstants, HookInv, [Hook!Next]_(Hook!vars)
    PROVE  (LeaseInv /\ AloneInv /\ RetryInv)'
<1> USE DEF Hook!HookConstants, HookInv, LeaseInv, AloneInv, RetryInv, Hook!Sending, Hook!TypeOK,
            Hook!settings, Hook!rows, Hook!work
<1>a. ASSUME UNCHANGED <<aged, attempt>> PROVE \A a : CutAt(a)' <=> CutAt(a)
  BY <1>a DEF CutAt, Hook!Purged
<1>b. ASSUME NEW a \in Hook!Attempts, CutAt(a), NEW b \in Hook!Attempts, attempt[b] = "pending"
      PROVE  FALSE
  <2>1. a \in Int /\ b \in Int
    BY DEF Hook!Attempts
  <2>2. b < a \/ b = a \/ b > a
    BY <2>1
  <2> QED
    BY <1>b, <2>2 DEF CutAt, Hook!Purged
<1>c. ASSUME UNCHANGED <<delivery, at, result>> PROVE AloneInv' /\ RetryInv'
  BY <1>c
<1>1. CASE Hook!Publish
  <2>1. \A a \in Hook!Attempts : ~CutAt(a)
    BY <1>1 DEF Hook!Publish, CutAt, Hook!Purged, Hook!Attempts
  <2>2. LeaseInv'
    BY <1>1, <2>1 DEF Hook!Publish
  <2> QED
    BY <1>1, <1>c, <2>2 DEF Hook!Publish
<1>2. CASE Hook!Sweep
  <2>1. PICK old \in SUBSET Hook!Attempts :
           /\ \A a \in old : a <= aged /\ attempt[a] # "none"
           /\ attempt' = [a \in Hook!Attempts |-> IF a \in old THEN "none" ELSE attempt[a]]
           /\ due' = [a \in Hook!Attempts |-> IF a \in old THEN 0 ELSE due[a]]
    BY <1>2, SweepCuts
  <2>2. UNCHANGED <<endpoint, aged, delivery, at, left, result>>
    BY <1>2 DEF Hook!Sweep
  <2>3. ASSUME NEW a \in Hook!Attempts, CutAt(a) PROVE CutAt(a)'
    BY <2>1, <2>2, <2>3 DEF CutAt, Hook!Purged
  <2>4. ASSUME NEW a \in old, attempt[a] = "pending" PROVE CutAt(a)'
    BY <2>1, <2>2, <2>4 DEF CutAt, Hook!Purged, Hook!OneAlive
  <2>5. ASSUME NEW w \in Senders, NEW a \in Hook!Attempts, Hook!Sending(w, a)'
        PROVE  endpoint' = "gone" \/ (attempt'[a] = "pending" /\ due'[a] > left'[w]) \/ CutAt(a)'
    <3>1. endpoint = "gone" \/ (attempt[a] = "pending" /\ due[a] > left[w]) \/ CutAt(a)
      BY <2>2, <2>5
    <3>2. CASE a \in old /\ attempt[a] = "pending"
      BY <2>4, <3>2
    <3>3. CASE a \notin old /\ attempt[a] = "pending" /\ due[a] > left[w]
      BY <2>1, <2>2, <3>3
    <3> QED
      BY <2>2, <2>3, <3>1, <3>2, <3>3
  <2>6. LeaseInv'
    BY <2>5
  <2> QED
    BY <1>c, <2>2, <2>6
<1>3. CASE Hook!SwitchEndpoint \/ Hook!SuspendOrResume
  BY <1>3, <1>a, <1>c DEF Hook!SwitchEndpoint, Hook!SuspendOrResume
<1>11. CASE Hook!Age
  <2>1. UNCHANGED <<endpoint, attempt, due, delivery, at, left, result>> /\ aged' = aged + 1
    BY <1>11 DEF Hook!Age
  <2>2. \A a \in Hook!Attempts : CutAt(a) => CutAt(a)'
    BY <2>1 DEF CutAt, Hook!Purged, Hook!Attempts
  <2> QED
    BY <1>c, <2>1, <2>2
<1>4. CASE Hook!DeleteEndpoint
  BY <1>4, <1>c DEF Hook!DeleteEndpoint
<1>5. CASE Hook!Tick
  BY <1>5, <1>a, <1>c DEF Hook!Tick
<1>6. ASSUME NEW w \in Senders, Hook!Claim(w) PROVE (LeaseInv /\ AloneInv /\ RetryInv)'
  <2>1. CASE Hook!Free(w) /\ UNCHANGED attempt
    BY <1>6, <1>a, <2>1 DEF Hook!Claim, Hook!Free
  <2>2. CASE Hook!Free(w) /\ Hook!Claimable(at[w]) /\ attempt' = [attempt EXCEPT ![at[w]] = "gave_up"]
    <3>1. ASSUME NEW v \in Senders, NEW a \in Hook!Attempts, Hook!Sending(v, a)'
          PROVE  endpoint' = "gone" \/ (attempt'[a] = "pending" /\ due'[a] > left'[v]) \/ CutAt(a)'
      <4>1. v # w /\ Hook!Sending(v, a) /\ left'[v] = left[v] /\ left[v] >= 0
        BY <2>2, <3>1 DEF Hook!Free
      <4>2. ~CutAt(a)
        BY <1>b, <2>2 DEF Hook!Claimable
      <4>3. UNCHANGED <<endpoint, due>> /\ due[at[w]] <= 0
        BY <1>6, <2>2 DEF Hook!Claim, Hook!Claimable
      <4>4. endpoint = "gone" \/ (attempt[a] = "pending" /\ due[a] > left[v])
        BY <4>1, <4>2
      <4>5. endpoint = "gone" \/ a # at[w]
        BY <4>1, <4>3, <4>4, SMTT(30)
      <4> QED
        BY <2>2, <4>1, <4>3, <4>4, <4>5
    <3>2. AloneInv' /\ RetryInv'
      BY <2>2 DEF Hook!Free
    <3> QED
      BY <3>1, <3>2
  <2>3. CASE /\ Hook!Claimable(at[w]) /\ endpoint = "on"
             /\ due' = [due EXCEPT ![at[w]] = HookLease]
             /\ delivery' = [delivery EXCEPT ![w] = "send"]
             /\ left' = [left EXCEPT ![w] = HookTimeout]
             /\ UNCHANGED <<attempt, at, result, endpoint, aged>>
    <3>1. ASSUME NEW v \in Senders, NEW a \in Hook!Attempts, Hook!Sending(v, a), v # w PROVE FALSE
      <4>1. attempt[at[w]] = "pending" /\ due[at[w]] <= 0
        BY <2>3 DEF Hook!Claimable
      <4>2. attempt[a] = "pending" /\ due[a] > left[v]
        BY <1>b, <2>3, <3>1, <4>1
      <4>3. ~(a < at[w]) /\ ~(a > at[w]) /\ a \in Int /\ at[w] \in Int
        <5>1. at[w] \in Hook!Attempts /\ a \in Int /\ at[w] \in Int
          BY DEF Hook!Attempts
        <5> QED
          BY <4>1, <4>2, <5>1 DEF Hook!OneAlive
      <4>4. a = at[w]
        BY <4>3
      <4> QED
        BY <4>1, <4>2, <4>4
    <3>2. \A v \in Senders, a \in Hook!Attempts : Hook!Sending(v, a)' => v = w /\ a = at[w]
      BY <2>3, <3>1
    <3>3. attempt'[at[w]] = "pending" /\ due'[at[w]] > left'[w]
      BY <2>3 DEF Hook!Claimable
    <3>4. RetryInv'
      BY <2>3
    <3> QED
      BY <3>2, <3>3, <3>4
  <2> QED
    BY <1>6, <2>1, <2>2, <2>3 DEF Hook!Claim
<1>7. ASSUME NEW w \in Senders, Hook!Send(w) PROVE (LeaseInv /\ AloneInv /\ RetryInv)'
  <2>1. UNCHANGED <<endpoint, aged, attempt, due, at, left>>
    BY <1>7 DEF Hook!Send
  <2>2. delivery' = [delivery EXCEPT ![w] = "store"] /\ delivery[w] = "send"
    BY <1>7 DEF Hook!Send
  <2>3. \A v \in Senders : \A a : Hook!Sending(v, a)' => Hook!Sending(v, a)
    BY <2>1, <2>2
  <2>4. LeaseInv'
    BY <1>a, <2>1, <2>3
  <2>5. AloneInv'
    BY <2>3
  <2>6. RetryInv'
    BY <1>7, <2>1, <2>2, SMTT(30) DEF Hook!Send, Hook!Attempts
  <2> QED
    BY <2>4, <2>5, <2>6
<1>8. ASSUME NEW w \in Senders, Hook!Store(w) PROVE (LeaseInv /\ AloneInv /\ RetryInv)'
  <2>1. ASSUME NEW v \in Senders, NEW a \in Hook!Attempts, Hook!Sending(v, a)' PROVE FALSE
    <3>1. Hook!Sending(v, a) /\ v # w /\ Hook!Sending(w, at[w]) /\ at[w] \in Hook!Attempts
      BY <1>8, <2>1 DEF Hook!Store, Hook!Free
    <3> QED
      BY <3>1
  <2>2. RetryInv'
    BY <1>8 DEF Hook!Store, Hook!Free
  <2> QED
    BY <2>1, <2>2
<1>9. ASSUME NEW w \in Senders, Hook!Enqueue(w) \/ Hook!Fail(w)
      PROVE  (LeaseInv /\ AloneInv /\ RetryInv)'
  BY <1>9, <1>a DEF Hook!Enqueue, Hook!Fail, Hook!Free
<1>10. ASSUME NEW w \in Senders, NEW a \in Hook!Attempts, Hook!Take(w, a)
       PROVE  (LeaseInv /\ AloneInv /\ RetryInv)'
  BY <1>10, <1>a DEF Hook!Take
<1>12. CASE UNCHANGED Hook!vars
  BY <1>12, <1>a DEF Hook!vars
<1> QED
  BY <1>1, <1>2, <1>3, <1>4, <1>5, <1>6, <1>7, <1>8, <1>9, <1>10, <1>11, <1>12
  DEF Hook!Next, Hook!Working

\* Failed and deleted attempts with one pending after them are a chain.
LEMMA ChainOf ==
    ASSUME Hook!HookConstants, NEW n \in Hook!Attempts, attempt'[n + 1] = "pending",
           \A b \in Hook!Attempts : b <= n => attempt'[b] = "failed" \/ Hook!Purged(b)',
           \A b \in Hook!Attempts : b > n + 1 => attempt'[b] = "none"
    PROVE  Hook!OneAlive'
<1> SUFFICES ASSUME NEW a \in Hook!Attempts, attempt'[a] # "none"
             PROVE  /\ \A b \in Hook!Attempts : b < a => attempt'[b] = "failed" \/ Hook!Purged(b)'
                    /\ attempt'[a] \in Hook!Final \cup {"pending"} =>
                            \A b \in Hook!Attempts : b > a => attempt'[b] = "none"
  BY DEF Hook!OneAlive
<1>1. a <= n \/ a = n + 1
  BY DEF Hook!HookConstants, Hook!Attempts
<1>2. a <= n => attempt'[a] = "failed"
  BY DEF Hook!Purged
<1> QED
  BY <1>1, <1>2 DEF Hook!HookConstants, Hook!Attempts, Hook!Final

\* The chain of attempts grows at its end only, and only from an attempt that failed.
LEMMA ChainKept ==
    ASSUME Hook!HookConstants, HookInv, [Hook!Next]_(Hook!vars)
    PROVE  (GoneInv /\ Hook!OneAlive)'
<1> USE DEF Hook!HookConstants, HookInv, GoneInv, Hook!OneAlive, Hook!TypeOK, Hook!Attempts,
            Hook!Final, Hook!settings, Hook!rows, Hook!work
<1>1. CASE Hook!Publish
  BY <1>1 DEF Hook!Publish, Hook!Purged
<1>2. CASE UNCHANGED <<endpoint, aged, attempt>>
  BY <1>2 DEF Hook!Purged
<1>3. CASE Hook!SwitchEndpoint \/ Hook!DeleteEndpoint
  BY <1>3 DEF Hook!SwitchEndpoint, Hook!DeleteEndpoint, Hook!Purged
<1>6. CASE Hook!Age
  BY <1>6 DEF Hook!Age, Hook!Purged
<1>7. CASE Hook!Sweep
  <2>1. PICK old \in SUBSET Hook!Attempts :
           /\ \A a \in old : a <= aged /\ attempt[a] # "none"
           /\ attempt' = [a \in Hook!Attempts |-> IF a \in old THEN "none" ELSE attempt[a]]
           /\ due' = [a \in Hook!Attempts |-> IF a \in old THEN 0 ELSE due[a]]
    BY <1>7, SweepCuts
  <2>2. UNCHANGED <<endpoint, aged>>
    BY <1>7 DEF Hook!Sweep
  <2>3. \A a \in Hook!Attempts :
           /\ attempt'[a] # "none" => attempt'[a] = attempt[a]
           /\ attempt[a] = "none" => attempt'[a] = "none"
           /\ attempt'[a] # attempt[a] => Hook!Purged(a)'
           /\ Hook!Purged(a) => Hook!Purged(a)'
    BY <2>1, <2>2 DEF Hook!Purged
  <2>4. GoneInv'
    BY <2>2, <2>3
  <2>5. Hook!OneAlive'
    BY <2>3
  <2> QED
    BY <2>4, <2>5
<1>4. ASSUME NEW w \in Senders, Hook!Claim(w) PROVE (GoneInv /\ Hook!OneAlive)'
  <2>0. UNCHANGED <<endpoint, aged>>
    BY <1>4 DEF Hook!Claim
  <2>1. CASE UNCHANGED attempt
    BY <2>0, <2>1 DEF Hook!Purged
  <2>2. CASE attempt[at[w]] = "pending" /\ attempt' = [attempt EXCEPT ![at[w]] = "gave_up"]
    <3>1. GoneInv'
      BY <1>4, <2>2 DEF Hook!Claim
    <3> QED
      BY <2>0, <2>2, <3>1, SMTT(30) DEF Hook!Purged
  <2> QED
    BY <1>4, <2>1, <2>2 DEF Hook!Claim, Hook!Claimable
<1>5. ASSUME NEW w \in Senders, Hook!Store(w) PROVE (GoneInv /\ Hook!OneAlive)'
  <2>0. UNCHANGED <<endpoint, aged>>
    BY <1>5 DEF Hook!Store
  <2>1. CASE endpoint = "gone"
    BY <1>5, <2>0, <2>1 DEF Hook!Store, Hook!Purged
  <2>2. CASE endpoint # "gone"
    <3> DEFINE a == at[w]
    <3>0. a \in Hook!Attempts
      OBVIOUS
    <3>1. attempt[a] = "pending" \/ CutAt(a)
      BY <1>5, <2>2 DEF Hook!Store, LeaseInv, Hook!Sending
    <3>2. /\ \A b \in Hook!Attempts : b < a => attempt[b] = "failed" \/ Hook!Purged(b)
          /\ \A b \in Hook!Attempts : b > a => attempt[b] = "none"
          /\ attempt[a] = "pending" \/ Hook!Purged(a)
      BY <3>0, <3>1 DEF CutAt
    <3>3. CASE result[w] = "failed"
      <4>1. a + 1 \in Hook!Attempts /\ attempt[a + 1] = "none"
        BY <1>5, <3>0, <3>2, <3>3, SMTT(30) DEF Hook!Store, RetryInv
      <4>2. attempt' = [b \in Hook!Attempts |->
                          IF b = a /\ attempt[a] # "none" THEN "failed"
                          ELSE IF b = a + 1 THEN "pending" ELSE attempt[b]]
        BY <1>5, <2>2, <3>3, <4>1 DEF Hook!Store, Hook!Retries
      <4> HIDE DEF a
      <4>3. \A b \in Hook!Attempts : b <= a => attempt'[b] = "failed" \/ Hook!Purged(b)'
        BY <2>0, <3>0, <3>2, <4>2 DEF Hook!Purged
      <4>4. attempt'[a + 1] = "pending"
        BY <3>0, <4>1, <4>2
      <4>5. \A b \in Hook!Attempts : b > a + 1 => attempt'[b] = "none"
        BY <3>0, <3>2, <4>2, SMTT(30)
      <4>6. Hook!OneAlive'
        BY <3>0, <4>3, <4>4, <4>5, ChainOf
      <4> QED
        BY <2>0, <2>2, <4>6
    <3>4. CASE result[w] # "failed"
      <4>1. attempt' = [b \in Hook!Attempts |->
                          IF b = a /\ attempt[a] # "none" THEN result[w] ELSE attempt[b]]
        BY <1>5, <3>4 DEF Hook!Store, Hook!Retries
      <4> HIDE DEF a
      <4>2. ASSUME NEW c \in Hook!Attempts, attempt'[c] # "none"
            PROVE  /\ \A b \in Hook!Attempts : b < c => attempt'[b] = "failed" \/ Hook!Purged(b)'
                   /\ attempt'[c] \in Hook!Final \cup {"pending"} =>
                         \A b \in Hook!Attempts : b > c => attempt'[b] = "none"
        <5>1. attempt[c] # "none" /\ (c # a => attempt'[c] = attempt[c]) /\ c <= a
          BY <3>0, <3>2, <4>1, <4>2
        <5> QED
          BY <2>0, <3>0, <3>2, <4>1, <4>2, <5>1, SMTT(30) DEF Hook!Purged
      <4>3. Hook!OneAlive'
        BY <4>2
      <4> QED
        BY <2>0, <2>2, <4>3
    <3> QED
      BY <3>3, <3>4
  <2> QED
    BY <2>1, <2>2
<1> QED
  BY <1>1, <1>2, <1>3, <1>4, <1>5, <1>6, <1>7
  DEF Hook!Next, Hook!Working, Hook!SuspendOrResume, Hook!Tick, Hook!Send, Hook!Enqueue,
      Hook!Fail, Hook!Take, Hook!vars

LEMMA HookInvariant == Hook!Spec => []HookInv
<1>1. HookInv /\ [Hook!Next]_(Hook!vars) => HookInv'
  BY OutgoingAssumption, HookTypes, LeaseKept, ChainKept DEF HookInv
<1>2. Hook!Init => HookInv
  BY OutgoingAssumption, HookInvInit
<1> QED
  BY <1>1, <1>2, PTL DEF Hook!Spec

\* "A claimed attempt is never sent twice at once" (delivery.job.ts:38), for any number of
\* workers and attempts, any delay and any grace, as long as a request is over before its lease.
THEOREM NeverSentTwiceAtOnce == Hook!Spec => []OneSender
<1>1. HookInv => OneSender
  BY DEF HookInv, AloneInv, OneSender, Hook!OneSender
<1> QED
  BY <1>1, HookInvariant, PTL

\* An event's attempts are one chain, of which the last alone may still be sent, also when the
\* retention deletes some of them, or one while it is being sent.
THEOREM OneChain == Hook!Spec => []OneAlive
<1>1. HookInv => OneAlive
  BY DEF HookInv, OneAlive
<1> QED
  BY <1>1, HookInvariant, PTL

-------------------------------------------------------------------------------
(* Digests. *)

\* A job is in one place: in the queue, or with one sender.
JobInv ==
    \A s \in Senders : sender[s] # Digest!Idle =>
        /\ sender[s].step # "idle" /\ sender[s].job \in knownDigests \ digests
        /\ \A t \in Senders : sender[t] # Digest!Idle /\ sender[t].job = sender[s].job => s = t

\* A job that will run has an attempt left.
AttemptInv ==
    /\ \A e \in digests : digestMade[e] < DigestAttempts
    /\ \A s \in Senders : sender[s] # Digest!Idle => digestMade[sender[s].job] < DigestAttempts
    /\ \A e \in Messages \ knownDigests : digestMade[e] = 0

\* A job is to come that will take the count, or a run is about to add one.
DigestComing ==
    \/ digests # {}
    \/ \E s \in Senders : sender[s].step = "take"
    \/ \E e \in Messages : counting[e] \in {"first", "add"}

\* A counter that was started has a job to come, ...
BurstInv == count > 0 => DigestComing

\* ... and so has a message in it; one no longer in it is covered by a job that took it.
UntoldInv == \A e \in untold : DigestComing \/ \E s \in Senders : e \in sender[s].covers

DigestInv ==
    /\ Digest!TypeOK /\ JobInv /\ AttemptInv
    /\ stranded \/ dropped \/ (BurstInv /\ UntoldInv)

LEMMA DigestInvInit == ASSUME Digest!DigestConstants, Digest!Init PROVE DigestInv
<1> USE DEF Digest!DigestConstants, Digest!Init, Digest!Idle
<1>1. Digest!TypeOK
  <2>1. expires \in BOOLEAN /\ ~expires /\ stranded \in BOOLEAN /\ dropped \in BOOLEAN
    OBVIOUS
  <2>2. sender \in [Senders -> [step : {"idle", "take", "send"},
                               job : Messages \cup {NoMessage}, covers : SUBSET Messages]]
    OBVIOUS
  <2> QED
    BY <2>1, <2>2 DEF Digest!TypeOK
<1>2. JobInv /\ AttemptInv
  BY DEF JobInv, AttemptInv
<1>3. BurstInv /\ UntoldInv
  BY DEF BurstInv, UntoldInv
<1> QED
  BY <1>1, <1>2, <1>3 DEF DigestInv

\* The consumer's run, and the expiry: jobs are added once.
LEMMA DigestHandling ==
    ASSUME Digest!DigestConstants, DigestInv,
           (\E e \in Messages : Digest!Handling(e) \/ Digest!Rollback(e)) \/ Digest!Expire
    PROVE  (Digest!TypeOK /\ JobInv /\ AttemptInv)'
<1> USE DEF Digest!DigestConstants, DigestInv, Digest!redis, Digest!jobs, Digest!ghosts, Digest!GoTo
<1>1. ASSUME NEW e \in Messages, Digest!Claim(e) \/ Digest!Commit(e)
      PROVE  (Digest!TypeOK /\ JobInv /\ AttemptInv)'
  BY <1>1 DEF Digest!Claim, Digest!Commit, Digest!TypeOK, JobInv, AttemptInv
<1>2. ASSUME NEW e \in Messages, Digest!Count(e) PROVE (Digest!TypeOK /\ JobInv /\ AttemptInv)'
  <2>1. JobInv' /\ AttemptInv'
    BY <1>2 DEF Digest!Count, Digest!TypeOK, JobInv, AttemptInv
  <2>2. count' \in Nat /\ count' > 0 /\ untold' \subseteq Messages
    BY <1>2 DEF Digest!Count, Digest!TypeOK
  <2>3. counting' \in [Messages -> {"none", "claimed", "first", "add", "scheduled", "done"}]
    BY <1>2 DEF Digest!Count, Digest!TypeOK
  <2> QED
    BY <1>2, <2>1, <2>2, <2>3 DEF Digest!Count, Digest!TypeOK
<1>3. ASSUME NEW e \in Messages, Digest!LetExpire(e) PROVE (Digest!TypeOK /\ JobInv /\ AttemptInv)'
  BY <1>3 DEF Digest!LetExpire, Digest!TypeOK, JobInv, AttemptInv
<1>4. ASSUME NEW e \in Messages, Digest!AddJob(e) PROVE (Digest!TypeOK /\ JobInv /\ AttemptInv)'
  BY <1>4 DEF Digest!AddJob, Digest!TypeOK, JobInv, AttemptInv
<1>5. ASSUME NEW e \in Messages, Digest!Rollback(e) PROVE (Digest!TypeOK /\ JobInv /\ AttemptInv)'
  BY <1>5 DEF Digest!Rollback, Digest!Fault, Digest!TypeOK, JobInv, AttemptInv
<1>6. CASE Digest!Expire
  BY <1>6 DEF Digest!Expire, Digest!TypeOK, JobInv, AttemptInv
<1> QED
  BY <1>1, <1>2, <1>3, <1>4, <1>5, <1>6 DEF Digest!Handling

\* The digest job: it leaves the queue for a sender, and comes back with one attempt more.
LEMMA DigestSending ==
    ASSUME Digest!DigestConstants, DigestInv, NEW s \in Senders,
           Digest!Sending(s) \/ Digest!JobFails(s)
    PROVE  (Digest!TypeOK /\ JobInv /\ AttemptInv)'
<1> USE DEF Digest!DigestConstants, DigestInv, Digest!redis, Digest!jobs, Digest!ghosts
<1>1. ASSUME NEW j \in digests, sender[s] = Digest!Idle, digests' = digests \ {j},
             sender' = [sender EXCEPT ![s] = [step |-> "take", job |-> j, covers |-> {}]],
             UNCHANGED <<counting, Digest!redis, knownDigests, digestMade, Digest!ghosts,
                         digestFaults>>
      PROVE  (Digest!TypeOK /\ JobInv /\ AttemptInv)'
  <2>1. Digest!TypeOK'
    BY <1>1 DEF Digest!TypeOK
  <2>2. JobInv' /\ AttemptInv'
    BY <1>1, ZenonT(60) DEF Digest!TypeOK, Digest!Idle, JobInv, AttemptInv
  <2> QED
    BY <2>1, <2>2
<1>2. CASE Digest!TakeCount(s)
  <2>1. Digest!TypeOK'
    BY <1>2, ZenonT(60) DEF Digest!TakeCount, Digest!TypeOK
  <2>2. /\ \A t \in Senders \ {s} : sender'[t] = sender[t]
        /\ sender'[s].step = "send" /\ sender'[s].job = sender[s].job
        /\ sender[s] # Digest!Idle /\ UNCHANGED <<digests, knownDigests, digestMade>>
    BY <1>2 DEF Digest!TakeCount, Digest!TypeOK, Digest!Idle
  <2>3. JobInv'
    BY <2>2 DEF JobInv, Digest!Idle
  <2>4. AttemptInv'
    BY <2>2 DEF AttemptInv, Digest!Idle
  <2> QED
    BY <2>1, <2>3, <2>4
<1>3. CASE Digest!SendDigest(s)
  <2>1. Digest!TypeOK'
    BY <1>3 DEF Digest!SendDigest, Digest!TypeOK, Digest!Idle
  <2>2. JobInv' /\ AttemptInv'
    BY <1>3 DEF Digest!SendDigest, Digest!TypeOK, Digest!Idle, JobInv, AttemptInv
  <2> QED
    BY <2>1, <2>2
<1>4. CASE Digest!JobFails(s)
  <2> DEFINE j == sender[s].job
  <2>1. j \in knownDigests /\ j \notin digests /\ digestMade[j] < DigestAttempts /\ j \in Messages
    BY <1>4 DEF Digest!JobFails, JobInv, AttemptInv, Digest!TypeOK
  <2>2. digestMade' = [digestMade EXCEPT ![j] = @ + 1] /\ digestMade[j] + 1 \in 0..DigestAttempts
    BY <1>4, <2>1 DEF Digest!JobFails, Digest!TypeOK
  <2>3. digests' \subseteq digests \cup {j}
        /\ (j \in digests' => digestMade[j] + 1 < DigestAttempts)
    BY <1>4, <2>1 DEF Digest!JobFails
  <2>4. sender' = [sender EXCEPT ![s] = Digest!Idle] /\ knownDigests' = knownDigests
    BY <1>4 DEF Digest!JobFails
  <2>5. sender'[s] = Digest!Idle /\ \A t \in Senders \ {s} : sender'[t] = sender[t]
    BY <2>4 DEF Digest!TypeOK
  <2>6. Digest!TypeOK'
    <3>1. digestMade' \in [Messages -> 0..DigestAttempts] /\ digests' \subseteq knownDigests'
          /\ knownDigests' \subseteq Messages
      BY <2>1, <2>2, <2>3, <2>4 DEF Digest!TypeOK
    <3>2. sender' \in [Senders -> [step : {"idle", "take", "send"},
                                  job : Messages \cup {NoMessage}, covers : SUBSET Messages]]
      BY <2>4 DEF Digest!TypeOK, Digest!Idle
    <3>3. untold' \subseteq Messages /\ digestFaults' \in 0..DigestFaults
      BY <1>4 DEF Digest!JobFails, Digest!Fault, Digest!TypeOK
    <3>4. dropped' = TRUE \/ dropped' = dropped
      BY <1>4 DEF Digest!JobFails
    <3> QED
      BY <1>4, <3>1, <3>2, <3>3, <3>4 DEF Digest!JobFails, Digest!TypeOK
  <2> HIDE DEF j
  <2>7. JobInv'
    <3>1. \A t \in Senders \ {s} : sender[t] # Digest!Idle => sender[t].job # j
      BY <1>4 DEF JobInv, Digest!JobFails, j
    <3> QED
      BY <2>3, <2>4, <2>5, <3>1 DEF JobInv
  <2>8. AttemptInv'
    <3>1. \A t \in Senders \ {s} : sender[t] # Digest!Idle => sender[t].job # j
      BY <1>4 DEF JobInv, Digest!JobFails, j
    <3>2. \A e \in Messages : e # j => digestMade'[e] = digestMade[e]
      BY <2>2 DEF Digest!TypeOK
    <3>3. digestMade'[j] = digestMade[j] + 1
      BY <2>1, <2>2 DEF Digest!TypeOK
    <3>4. \A t \in Senders : sender[t] # Digest!Idle => sender[t].job \in Messages
      BY DEF JobInv, Digest!TypeOK
    <3>5. digests \subseteq Messages
      BY DEF Digest!TypeOK
    <3> QED
      BY <2>1, <2>3, <2>4, <2>5, <3>1, <3>2, <3>3, <3>4, <3>5 DEF AttemptInv
  <2> QED
    BY <2>6, <2>7, <2>8
<1> QED
  BY <1>1, <1>2, <1>3, <1>4 DEF Digest!Sending, Digest!Take

\* Whoever takes the count takes all of it; whoever starts a counter goes on to add a job.
LEMMA ComingKept ==
    ASSUME Digest!DigestConstants, DigestInv, Digest!Next
    PROVE  (stranded \/ dropped \/ (BurstInv /\ UntoldInv))'
<1> USE DEF Digest!DigestConstants, Digest!redis, Digest!jobs, Digest!ghosts, Digest!GoTo
<1> USE DEF Digest!TypeOK, BurstInv, UntoldInv, DigestComing
<1>1. CASE stranded \/ dropped
  <2>1. ASSUME NEW e \in Messages, Digest!Handling(e) \/ Digest!Rollback(e)
        PROVE  (stranded \/ dropped)'
    BY <1>1, <2>1 DEF Digest!Handling, Digest!Claim, Digest!Count, Digest!LetExpire, Digest!AddJob,
                      Digest!Commit, Digest!Rollback
  <2>2. ASSUME NEW s \in Senders, Digest!Sending(s) \/ Digest!JobFails(s)
        PROVE  (stranded \/ dropped)'
    BY <1>1, <2>2 DEF Digest!Sending, Digest!Take, Digest!TakeCount, Digest!SendDigest,
        Digest!JobFails
  <2>3. ASSUME Digest!Expire PROVE (stranded \/ dropped)'
    BY <1>1, <2>3 DEF Digest!Expire
  <2> QED
    BY <2>1, <2>2, <2>3 DEF Digest!Next
<1>2. CASE BurstInv /\ UntoldInv
  <2>1. ASSUME NEW e \in Messages, Digest!Claim(e) \/ Digest!Count(e) \/ Digest!LetExpire(e)
        PROVE  (BurstInv /\ UntoldInv)'
    BY <1>2, <2>1 DEF Digest!Claim, Digest!Count, Digest!LetExpire, DigestInv
  <2>2. ASSUME NEW e \in Messages, Digest!AddJob(e)
        PROVE  (stranded \/ (BurstInv /\ UntoldInv))'
    BY <1>2, <2>2 DEF Digest!AddJob, DigestInv
  <2>3. ASSUME NEW e \in Messages, Digest!Rollback(e)
        PROVE  (stranded \/ (BurstInv /\ UntoldInv))'
    BY <1>2, <2>3 DEF Digest!Rollback, DigestInv
  <2>4. ASSUME NEW e \in Messages, Digest!Commit(e)
        PROVE  (BurstInv /\ UntoldInv)'
    BY <1>2, <2>4 DEF Digest!Commit, DigestInv
  <2>5. CASE Digest!Expire
    BY <1>2, <2>5 DEF Digest!Expire
  <2>6. ASSUME NEW s \in Senders, Digest!Take(s) PROVE (BurstInv /\ UntoldInv)'
    BY <1>2, <2>6 DEF Digest!Take, DigestInv
  <2>7. ASSUME NEW s \in Senders, Digest!TakeCount(s) PROVE (BurstInv /\ UntoldInv)'
    BY <1>2, <2>7 DEF Digest!TakeCount, DigestInv
  <2>8. ASSUME NEW s \in Senders, Digest!SendDigest(s) PROVE (BurstInv /\ UntoldInv)'
    BY <1>2, <2>8 DEF Digest!SendDigest, DigestInv, Digest!Idle
  <2>9. ASSUME NEW s \in Senders, Digest!JobFails(s)
        PROVE  (dropped \/ (BurstInv /\ UntoldInv))'
    BY <1>2, <2>9 DEF Digest!JobFails, DigestInv, Digest!Idle
  <2> QED
    BY <2>1, <2>2, <2>3, <2>4, <2>5, <2>6, <2>7, <2>8, <2>9
    DEF Digest!Next, Digest!Handling, Digest!Sending
<1> QED
  BY <1>1, <1>2 DEF DigestInv

LEMMA DigestInvariant == Digest!Spec => []DigestInv
<1>1. ASSUME DigestInv, Digest!Next PROVE DigestInv'
  BY <1>1, OutgoingAssumption, DigestHandling, DigestSending, ComingKept DEF Digest!Next, DigestInv
<1>2. ASSUME DigestInv, UNCHANGED Digest!vars PROVE DigestInv'
  BY <1>2 DEF Digest!vars, Digest!redis, Digest!jobs, Digest!ghosts, DigestInv, Digest!TypeOK,
              JobInv, AttemptInv, BurstInv, UntoldInv, DigestComing
<1>3. Digest!Init => DigestInv
  BY OutgoingAssumption, DigestInvInit
<1> QED
  BY <1>1, <1>2, <1>3, PTL DEF Digest!Spec

\* A message that was counted is told of by a digest to come, however many messages, senders and
\* failures there are, unless a counter was started and its job not added, or a job used up its
\* attempts (notification-digest.job.ts:54).
THEOREM BurstsAreTold == Digest!Spec => []BurstHasJob
<1>1. DigestInv => BurstHasJob
  BY DEF BurstHasJob, DigestInv, UntoldInv, DigestComing, Digest!BurstHasJob, Digest!OnItsWay,
         Digest!TypeOK
<1> QED
  BY <1>1, DigestInvariant, PTL

-------------------------------------------------------------------------------
(* A session, its cache entry and its lookups. *)

SessionTypes ==
    /\ session \in [there : BOOLEAN, left : 0..IdleLimit, seen : 0..TouchInterval]
    /\ cache \in [ttl : 0..CacheTtl, left : 0..IdleLimit]
    /\ lookup \in [Lookups -> [step : {"none", "touch", "store"}, left : 0..IdleLimit, ttl : 0..CacheTtl,
                               why : {"none", "request", "handshake", "sweep"}]]
    /\ deadTicks \in 0..CacheTtl

\* Each tick since the session was over has cost the cache entry one of its own.
EntryInv == cache.ttl + deadTicks <= CacheTtl /\ (cache.ttl = 0 => cache = Session!NoEntry)

\* A lookup that found the row keeps the ticks from being counted, and will write an entry
\* that lives.
HeldInv == \A l \in Lookups : lookup[l] # Session!NoLookup => lookup[l].ttl > 0 /\ deadTicks = 0

DeadInv == session.there => deadTicks = 0

SessionInv == SessionTypes /\ EntryInv /\ HeldInv /\ DeadInv

LEMMA SessionInit == ASSUME Session!Init PROVE SessionInv
<1> USE BrowserAssumption DEF Session!SessionConstants, Session!Init, Session!NoEntry,
                              Session!NoLookup
<1>1. SessionTypes
  BY DEF SessionTypes
<1>2. EntryInv /\ HeldInv /\ DeadInv
  BY DEF EntryInv, HeldInv, DeadInv
<1> QED
  BY <1>1, <1>2 DEF SessionInv

LEMMA SessionBegin ==
    ASSUME SessionInv, NEW l \in Lookups, NEW why \in {"request", "handshake", "sweep"},
           Session!Begin(l, why)
    PROVE  SessionInv'
<1>0. SessionTypes /\ EntryInv /\ HeldInv /\ DeadInv
  BY DEF SessionInv
<1>1. UNCHANGED <<session, cache, deadTicks>>
  BY DEF Session!Begin, Session!Hit, Session!Find
<1>2. /\ EntryInv' /\ DeadInv'
      /\ session' \in [there : BOOLEAN, left : 0..IdleLimit, seen : 0..TouchInterval]
      /\ cache' \in [ttl : 0..CacheTtl, left : 0..IdleLimit]
      /\ deadTicks' \in 0..CacheTtl
  BY <1>0, <1>1 DEF SessionTypes, EntryInv, DeadInv, Session!NoEntry
<1>3. CASE lookup' = lookup
  BY <1>0, <1>1, <1>2, <1>3 DEF SessionInv, SessionTypes, HeldInv, Session!NoLookup
<1>4. CASE lookup' # lookup
  <2>1. /\ Session!Alive
        /\ \E step \in {"touch", "store"}, rest \in {IdleLimit, session.left} :
              lookup' = [lookup EXCEPT ![l] = [step |-> step, why |-> why, left |-> rest,
                                               ttl |-> Session!Lower(CacheTtl, rest)]]
    BY <1>4 DEF Session!Begin, Session!Hit, Session!Find
  <2>2. PICK step \in {"touch", "store"}, rest \in {IdleLimit, session.left} :
           lookup' = [lookup EXCEPT ![l] = [step |-> step, why |-> why, left |-> rest,
                                            ttl |-> Session!Lower(CacheTtl, rest)]]
    BY <2>1
  <2>3. rest \in 0..IdleLimit /\ rest > 0
    BY <1>0, <2>1, BrowserAssumption DEF SessionTypes, Session!Alive, Session!SessionConstants
  <2>4. Session!Lower(CacheTtl, rest) \in 1..CacheTtl
    BY <2>3, BrowserAssumption DEF Session!Lower, Session!SessionConstants
  <2>5. /\ lookup' \in [Lookups -> [step : {"none", "touch", "store"}, left : 0..IdleLimit,
                                    ttl : 0..CacheTtl,
                                    why : {"none", "request", "handshake", "sweep"}]]
        /\ lookup'[l].ttl > 0 /\ \A k \in Lookups \ {l} : lookup'[k] = lookup[k]
    BY <1>0, <2>2, <2>3, <2>4, BrowserAssumption DEF SessionTypes, Session!SessionConstants
  <2>6. deadTicks = 0
    BY <1>0, <2>1 DEF DeadInv, Session!Alive
  <2>7. HeldInv'
    BY <1>0, <1>1, <2>5, <2>6 DEF HeldInv, Session!NoLookup
  <2> QED
    BY <1>2, <2>5, <2>7 DEF SessionInv, SessionTypes
<1> QED
  BY <1>3, <1>4

LEMMA SessionAnswer ==
    ASSUME SessionInv, NEW l \in Lookups, Session!Answer(l) \/ Session!LookupFails(l)
    PROVE  SessionInv'
<1> USE BrowserAssumption DEF Session!SessionConstants
<1>0. SessionTypes /\ EntryInv /\ HeldInv /\ DeadInv
  BY DEF SessionInv
<1>1. CASE Session!Touch(l)
  <2>1. lookup[l] # Session!NoLookup
    BY <1>1 DEF Session!Touch, Session!NoLookup
  <2>2. /\ lookup' \in [Lookups -> [step : {"none", "touch", "store"}, left : 0..IdleLimit,
                                    ttl : 0..CacheTtl,
                                    why : {"none", "request", "handshake", "sweep"}]]
        /\ \A k \in Lookups : lookup'[k].ttl = lookup[k].ttl
        /\ \A k \in Lookups \ {l} : lookup'[k] = lookup[k]
    BY <1>0, <1>1 DEF Session!Touch, SessionTypes
  <2>3. /\ session' \in [there : BOOLEAN, left : 0..IdleLimit, seen : 0..TouchInterval]
        /\ session'.there = session.there
    <3>1. CASE session.there
      <4>1. session' = [session EXCEPT !.left = lookup[l].left, !.seen = 0]
        BY <1>1, <3>1 DEF Session!Touch
      <4>2. lookup[l].left \in 0..IdleLimit
        BY <1>0 DEF SessionTypes
      <4>3. /\ session'.left = lookup[l].left /\ session'.seen = 0
            /\ session'.there = session.there /\ session.there \in BOOLEAN
            /\ session' = [there |-> session'.there, left |-> session'.left, seen |-> session'.seen]
        BY <1>0, <4>1 DEF SessionTypes
      <4>4. 0 \in 0..TouchInterval
        OBVIOUS
      <4> QED
        BY <4>2, <4>3, <4>4, Zenon
    <3>2. CASE ~session.there
      BY <1>0, <1>1, <3>2 DEF Session!Touch, SessionTypes
    <3> QED
      BY <3>1, <3>2
  <2>4. UNCHANGED <<cache, deadTicks>>
    BY <1>1 DEF Session!Touch
  <2>5. HeldInv'
    BY <1>0, <2>1, <2>2, <2>4 DEF HeldInv, Session!NoLookup
  <2>6. SessionTypes' /\ EntryInv' /\ DeadInv'
    BY <1>0, <2>2, <2>3, <2>4 DEF SessionTypes, EntryInv, DeadInv, Session!NoEntry
  <2> QED
    BY <2>5, <2>6 DEF SessionInv
<1>2. CASE Session!Store(l) \/ Session!LookupFails(l)
  <2>1. /\ lookup' = [lookup EXCEPT ![l] = Session!NoLookup] /\ UNCHANGED <<session, deadTicks>>
        /\ lookup[l] # Session!NoLookup
        /\ \/ cache' = [ttl |-> lookup[l].ttl, left |-> lookup[l].left]
           \/ cache' = cache
    BY <1>2 DEF Session!Store, Session!LookupFails, Session!NoLookup
  <2>2. /\ lookup' \in [Lookups -> [step : {"none", "touch", "store"}, left : 0..IdleLimit,
                                    ttl : 0..CacheTtl,
                                    why : {"none", "request", "handshake", "sweep"}]]
        /\ lookup'[l] = Session!NoLookup /\ \A k \in Lookups \ {l} : lookup'[k] = lookup[k]
    BY <1>0, <2>1 DEF SessionTypes, Session!NoLookup
  <2>3. lookup[l].ttl \in 1..CacheTtl /\ lookup[l].left \in 0..IdleLimit /\ deadTicks = 0
    BY <1>0, <2>1 DEF SessionTypes, HeldInv
  <2>4. cache' \in [ttl : 0..CacheTtl, left : 0..IdleLimit] /\ EntryInv'
    BY <1>0, <2>1, <2>3 DEF SessionTypes, EntryInv, Session!NoEntry
  <2>5. HeldInv' /\ DeadInv'
    BY <1>0, <2>1, <2>2 DEF HeldInv, DeadInv, Session!NoLookup
  <2> QED
    BY <1>0, <2>1, <2>2, <2>4, <2>5 DEF SessionInv, SessionTypes
<1> QED
  BY <1>1, <1>2 DEF Session!Answer

LEMMA SessionGateway ==
    ASSUME SessionInv,
           \/ Session!Revoke \/ Session!EndRevocation \/ Session!Control
           \/ Session!Join \/ Session!Disconnect \/ UNCHANGED Session!vars
    PROVE  SessionInv'
<1> USE BrowserAssumption DEF Session!SessionConstants
<1>0. SessionTypes /\ EntryInv /\ HeldInv /\ DeadInv
  BY DEF SessionInv
<1>1. UNCHANGED <<lookup, deadTicks>>
  BY DEF Session!Revoke, Session!EndRevocation, Session!Control, Session!Join,
         Session!Disconnect, Session!vars
<1>2. cache' \in {cache, Session!NoEntry}
  BY DEF Session!Revoke, Session!EndRevocation, Session!Control, Session!Join,
         Session!Disconnect, Session!vars
<1>3. session' \in {session, [there |-> FALSE, left |-> 0, seen |-> 0]}
  BY DEF Session!Revoke, Session!EndRevocation, Session!Control, Session!Join,
         Session!Disconnect, Session!vars
<1>4. cache' \in [ttl : 0..CacheTtl, left : 0..IdleLimit] /\ EntryInv'
  BY <1>0, <1>1, <1>2 DEF SessionTypes, EntryInv, Session!NoEntry
<1>5. /\ session' \in [there : BOOLEAN, left : 0..IdleLimit, seen : 0..TouchInterval]
      /\ session'.there => session.there
  <2>1. CASE session' = session
    BY <1>0, <2>1 DEF SessionTypes
  <2>2. CASE session' = [there |-> FALSE, left |-> 0, seen |-> 0]
    <3>1. 0 \in 0..IdleLimit /\ 0 \in 0..TouchInterval
      OBVIOUS
    <3> QED
      BY <2>2, <3>1
  <2> QED
    BY <1>3, <2>1, <2>2
<1>6. HeldInv' /\ DeadInv'
  BY <1>0, <1>1, <1>5 DEF HeldInv, DeadInv, Session!NoLookup
<1> QED
  BY <1>0, <1>1, <1>4, <1>5, <1>6 DEF SessionInv, SessionTypes

LEMMA SessionTick == ASSUME SessionInv, Session!Tick PROVE SessionInv'
<1> USE BrowserAssumption DEF Session!SessionConstants
<1>0. SessionTypes /\ EntryInv /\ HeldInv /\ DeadInv
  BY DEF SessionInv
<1>1. \A n \in 0..IdleLimit : Session!Down(n) \in 0..IdleLimit
  BY DEF Session!Down
<1>2. /\ session' \in [there : BOOLEAN, left : 0..IdleLimit, seen : 0..TouchInterval]
      /\ session'.there = session.there
  <2>1. session' = [session EXCEPT !.left = Session!Down(@),
                                   !.seen = IF session.there THEN
                                                Session!Lower(@ + 1, TouchInterval)
                                             ELSE @]
    BY DEF Session!Tick
  <2>2. \A n \in 0..TouchInterval : Session!Lower(n + 1, TouchInterval) \in 0..TouchInterval
    BY DEF Session!Lower
  <2>3. Session!Down(session.left) \in 0..IdleLimit
    BY <1>0, <1>1 DEF SessionTypes
  <2>4. (IF session.there THEN Session!Lower(session.seen + 1, TouchInterval) ELSE session.seen)
           \in 0..TouchInterval
    BY <1>0, <2>2 DEF SessionTypes
  <2> QED
    BY <1>0, <2>1, <2>3, <2>4 DEF SessionTypes
<1>3. /\ lookup' \in [Lookups -> [step : {"none", "touch", "store"}, left : 0..IdleLimit,
                                  ttl : 0..CacheTtl,
                                  why : {"none", "request", "handshake", "sweep"}]]
      /\ \A l \in Lookups : /\ lookup'[l].ttl = lookup[l].ttl
                            /\ lookup[l] = Session!NoLookup => lookup'[l] = Session!NoLookup
  <2>1. lookup' = [l \in Lookups |-> [lookup[l] EXCEPT !.left = Session!Down(@)]]
    BY DEF Session!Tick
  <2>2. \A l \in Lookups : Session!Down(lookup[l].left) \in 0..IdleLimit
    BY <1>0, <1>1 DEF SessionTypes
  <2>3. Session!Down(0) = 0
    BY DEF Session!Down
  <2> QED
    BY <1>0, <2>1, <2>2, <2>3 DEF SessionTypes, Session!NoLookup
<1>4. deadTicks' \in 0..CacheTtl /\ deadTicks' <= deadTicks + 1
  BY <1>0 DEF Session!Tick, Session!Lower, SessionTypes
<1>5. cache' \in [ttl : 0..CacheTtl, left : 0..IdleLimit] /\ EntryInv'
  <2>1. CASE cache.ttl <= 1
    <3>1. cache' = Session!NoEntry
      BY <2>1 DEF Session!Tick
    <3>2. cache'.ttl = 0 /\ cache'.left = 0 /\ cache' \in [ttl : 0..CacheTtl, left : 0..IdleLimit]
      BY <3>1 DEF Session!NoEntry
    <3>3. cache'.ttl + deadTicks' <= CacheTtl
      <4>1. \A m, n \in Nat : m <= n => 0 + m <= n
        OBVIOUS
      <4>2. deadTicks' \in Nat /\ deadTicks' <= CacheTtl /\ CacheTtl \in Nat
        BY <1>4
      <4>3. 0 + deadTicks' <= CacheTtl
        BY <4>1, <4>2, Zenon
      <4> QED
        BY <3>2, <4>3, Zenon
    <3>4. EntryInv'
      BY <3>1, <3>3 DEF EntryInv, Session!NoEntry
    <3> QED
      BY <3>2, <3>4
  <2>2. CASE cache.ttl > 1
    <3>1. cache' = [ttl |-> cache.ttl - 1, left |-> Session!Down(cache.left)]
      BY <1>0, <2>2 DEF Session!Tick, SessionTypes
    <3>2. Session!Down(cache.left) \in 0..IdleLimit
      BY <1>0, <1>1 DEF SessionTypes
    <3> QED
      BY <1>0, <1>4, <2>2, <3>1, <3>2 DEF EntryInv, SessionTypes
  <2> QED
    BY <1>0, <2>1, <2>2 DEF SessionTypes
<1>6. HeldInv' /\ DeadInv'
  BY <1>0, <1>2, <1>3 DEF Session!Tick, HeldInv, DeadInv
<1> QED
  BY <1>2, <1>3, <1>4, <1>5, <1>6 DEF SessionInv, SessionTypes

LEMMA SessionInvariant == Session!Spec => []SessionInv
<1>1. ASSUME SessionInv, [Session!Next]_(Session!vars) PROVE SessionInv'
  <2>1. ASSUME NEW l \in Lookups, NEW why \in {"request", "handshake", "sweep"},
               Session!Begin(l, why)
        PROVE  SessionInv'
    BY <1>1, <2>1, SessionBegin
  <2>2. ASSUME NEW l \in Lookups, Session!Answer(l) \/ Session!LookupFails(l) PROVE SessionInv'
    BY <1>1, <2>2, SessionAnswer
  <2>3. CASE \/ Session!Revoke \/ Session!EndRevocation \/ Session!Control
             \/ Session!Join \/ Session!Disconnect \/ UNCHANGED Session!vars
    BY <1>1, <2>3, SessionGateway
  <2>4. CASE Session!Tick
    BY <1>1, <2>4, SessionTick
  <2> QED
    BY <1>1, <2>1, <2>2, <2>3, <2>4 DEF Session!Next, Session!Sweep
<1> QED
  BY <1>1, SessionInit, PTL DEF Session!Spec

\* A revoked session is accepted for no longer than a cache entry lives once its lookups are
\* over, whichever purges fail and whoever wrote the cache last (session.service.ts:150): an
\* entry that is there was written by a lookup that was under way, and since then it has lost
\* as many ticks as have passed.
THEOREM RevokedIsRefused == Session!Spec => []RevokedStops
<1>1. ASSUME SessionInv PROVE RevokedStops
  <2>1. cache.ttl + deadTicks <= CacheTtl /\ (cache.ttl = 0 => cache = Session!NoEntry)
    BY <1>1 DEF SessionInv, EntryInv
  <2>2. cache.ttl \in Nat /\ CacheTtl \in Nat
    BY <1>1, BrowserAssumption DEF SessionInv, SessionTypes, Session!SessionConstants
  <2> QED
    BY <2>1, <2>2 DEF RevokedStops, Session!RevokedStops
<1> QED
  BY <1>1, SessionInvariant, PTL

\* A lookup under way is of someone who asked.
HolderInv == \A l \in Lookups : lookup[l].step # "none" => lookup[l].why # "none"

\* The socket, and what may fail.
Sockets == [step : {"none", "opened", "joined"}, left : 0..IdleLimit]

GatewayInv ==
    /\ socket \in Sockets
    /\ revocation \in {"none", "purged", "committed", "repurged", "done"}
    /\ sessionFaults \in 0..SessionFaults

LEMMA AcceptTypes ==
    ASSUME socket \in Sockets, NEW rest \in 0..IdleLimit,
           NEW why \in {"none", "request", "handshake", "sweep"}, Session!Accept(why, rest)
    PROVE  socket' \in Sockets \/ why = "none"
<1>1. 0 \in 0..IdleLimit
  BY BrowserAssumption DEF Session!SessionConstants
<1>2. CASE why = "handshake"
  BY <1>2 DEF Session!Accept, Sockets
<1>3. CASE why = "sweep"
  <2>1. PICK n \in 0..IdleLimit : socket' = [socket EXCEPT !.left = n]
    BY <1>1, <1>3 DEF Session!Accept
  <2> QED
    BY <2>1 DEF Sockets
<1>4. CASE why = "request"
  BY <1>4 DEF Session!Accept
<1> QED
  BY <1>2, <1>3, <1>4

LEMMA GatewayKept ==
    ASSUME SessionInv, HolderInv, GatewayInv, [Session!Next]_(Session!vars) PROVE GatewayInv'
<1>0. SessionTypes /\ HolderInv /\ Session!Closed \in Sockets
  BY BrowserAssumption DEF SessionInv, Session!Closed, Sockets, Session!SessionConstants
<1>1. ASSUME socket' \in Sockets, UNCHANGED revocation,
             UNCHANGED sessionFaults \/ Session!Fault
      PROVE  GatewayInv'
  <2>1. sessionFaults' \in 0..SessionFaults
    BY <1>1, BrowserAssumption DEF GatewayInv, Session!Fault, Session!SessionConstants
  <2> QED
    BY <1>1, <2>1 DEF GatewayInv
<1>2. ASSUME NEW l \in Lookups, NEW why \in {"request", "handshake", "sweep"}, Session!Begin(l, why)
      PROVE  GatewayInv'
  <2>1. UNCHANGED <<revocation, sessionFaults>>
    BY <1>2 DEF Session!Begin, Session!Hit, Session!Find
  <2>2. cache.left \in 0..IdleLimit
    BY <1>0 DEF SessionTypes
  <2>3. \/ Session!Accept(why, cache.left) \/ Session!Refuse(why) \/ socket' = socket
    BY <1>2 DEF Session!Begin, Session!Hit, Session!Find
  <2>4. socket' \in Sockets
    BY <1>0, <2>2, <2>3, AcceptTypes DEF Session!Refuse, GatewayInv
  <2> QED
    BY <1>1, <2>1, <2>4
<1>3. ASSUME NEW l \in Lookups, Session!Answer(l) \/ Session!LookupFails(l) PROVE GatewayInv'
  <2>1. UNCHANGED revocation /\ (UNCHANGED sessionFaults \/ Session!Fault)
    BY <1>3 DEF Session!Answer, Session!Touch, Session!Store, Session!LookupFails
  <2>2. socket' \in Sockets
    <3>1. CASE Session!Touch(l) \/ Session!LookupFails(l)
      BY <3>1 DEF Session!Touch, Session!LookupFails, GatewayInv
    <3>2. CASE Session!Store(l)
      <4>1. /\ lookup[l].left \in 0..IdleLimit
            /\ lookup[l].why \in {"none", "request", "handshake", "sweep"}
        BY <1>0 DEF SessionTypes
      <4>2. lookup[l].why # "none"
        BY <1>0, <3>2 DEF Session!Store, HolderInv, Session!NoLookup
      <4>3. Session!Accept(lookup[l].why, lookup[l].left) /\ socket \in Sockets
        BY <3>2 DEF Session!Store, GatewayInv
      <4> QED
        BY <4>1, <4>2, <4>3, AcceptTypes
    <3> QED
      BY <1>3, <3>1, <3>2 DEF Session!Answer
  <2> QED
    BY <1>1, <2>1, <2>2
<1>4. CASE Session!Revoke \/ Session!EndRevocation \/ Session!Control
  <2>1. socket' \in Sockets
    BY <1>0, <1>4 DEF Session!Revoke, Session!EndRevocation, Session!Control, GatewayInv
  <2>2. UNCHANGED sessionFaults \/ Session!Fault
    BY <1>4 DEF Session!Revoke, Session!EndRevocation, Session!Control
  <2>3. revocation' \in {"none", "purged", "committed", "repurged", "done"}
    BY <1>4 DEF Session!Revoke, Session!EndRevocation, Session!Control
  <2>4. sessionFaults' \in 0..SessionFaults
    BY <2>2, BrowserAssumption DEF GatewayInv, Session!Fault, Session!SessionConstants
  <2> QED
    BY <2>1, <2>3, <2>4 DEF GatewayInv
<1>5. CASE Session!Join \/ Session!Disconnect
  <2>1. socket' \in Sockets
    BY <1>0, <1>5 DEF Session!Join, Session!Disconnect, GatewayInv, Sockets
  <2> QED
    BY <1>1, <1>5, <2>1 DEF Session!Join, Session!Disconnect
<1>6. CASE Session!Tick
  <2>1. Session!Down(socket.left) \in 0..IdleLimit
    BY BrowserAssumption DEF GatewayInv, Sockets, Session!Down, Session!SessionConstants
  <2>2. socket' = [socket EXCEPT !.left = Session!Down(socket.left)]
    BY <1>6 DEF Session!Tick
  <2>3. socket' \in Sockets
    BY <2>1, <2>2 DEF GatewayInv, Sockets
  <2> QED
    BY <1>1, <1>6, <2>3 DEF Session!Tick
<1>7. CASE UNCHANGED Session!vars
  BY <1>7 DEF Session!vars, GatewayInv
<1> QED
  BY <1>2, <1>3, <1>4, <1>5, <1>6, <1>7 DEF Session!Next, Session!Sweep

LEMMA HolderKept ==
    ASSUME SessionInv, HolderInv, [Session!Next]_(Session!vars) PROVE HolderInv'
<1>0. SessionTypes
  BY DEF SessionInv
<1>1. ASSUME \A l \in Lookups : \/ lookup'[l].why = lookup[l].why /\ lookup'[l].step # "none"
                                   /\ lookup[l].step # "none"
                                \/ lookup'[l].why \in {"request", "handshake", "sweep"}
                                \/ lookup'[l] = lookup[l] \/ lookup'[l].step = "none"
      PROVE  HolderInv'
  BY <1>1 DEF HolderInv
<1>2. ASSUME NEW l \in Lookups, NEW why \in {"request", "handshake", "sweep"}, Session!Begin(l, why)
      PROVE  HolderInv'
  <2>1. lookup' = lookup \/ \E step, rest, ttl :
            lookup' = [lookup EXCEPT ![l] = [step |-> step, why |-> why, left |-> rest, ttl |-> ttl]]
    BY <1>2 DEF Session!Begin, Session!Hit, Session!Find
  <2>2. \A k \in Lookups : lookup'[k] = lookup[k] \/ lookup'[k].why = why
    BY <1>0, <2>1 DEF SessionTypes
  <2> QED
    BY <1>1, <2>2
<1>3. ASSUME NEW l \in Lookups, Session!Answer(l) \/ Session!LookupFails(l) PROVE HolderInv'
  <2>1. CASE Session!Touch(l)
    BY <1>0, <1>1, <2>1 DEF Session!Touch, SessionTypes
  <2>2. CASE Session!Store(l) \/ Session!LookupFails(l)
    BY <1>0, <1>1, <2>2 DEF Session!Store, Session!LookupFails, SessionTypes, Session!NoLookup
  <2> QED
    BY <1>3, <2>1, <2>2 DEF Session!Answer
<1>4. CASE Session!Tick
  BY <1>0, <1>4 DEF Session!Tick, HolderInv, SessionTypes
<1>5. CASE \/ Session!Revoke \/ Session!EndRevocation \/ Session!Control
           \/ Session!Join \/ Session!Disconnect \/ UNCHANGED Session!vars
  <2>1. lookup' = lookup
    BY <1>5 DEF Session!Revoke, Session!EndRevocation, Session!Control, Session!Join,
                Session!Disconnect, Session!vars
  <2> QED
    BY <2>1 DEF HolderInv
<1> QED
  BY <1>2, <1>3, <1>4, <1>5 DEF Session!Next, Session!Sweep

\* The session's state is of its types.
LEMMA SessionTyped == Session!Spec => []Session!TypeOK
<1>1. Session!Init => HolderInv /\ GatewayInv
  BY BrowserAssumption DEF Session!Init, HolderInv, GatewayInv, Sockets, Session!NoLookup,
                           Session!Closed, Session!SessionConstants
<1>2. SessionInv /\ HolderInv /\ GatewayInv /\ [Session!Next]_(Session!vars)
          => HolderInv' /\ GatewayInv'
  BY HolderKept, GatewayKept
<1>3. SessionInv /\ GatewayInv => Session!TypeOK
  BY DEF SessionInv, SessionTypes, GatewayInv, Sockets, Session!TypeOK
<1> QED
  BY <1>1, <1>2, <1>3, SessionInvariant, PTL DEF Session!Spec

-------------------------------------------------------------------------------
(* The count of a view. *)

ViewTypes ==
    /\ committed \subseteq Changes /\ recounted \subseteq committed
    /\ handling \in [Changes -> {"none", "window", "hint", "later", "done"}]
    /\ request \in [Requests -> [step : {"idle", "count", "write"}, count : SUBSET Changes]]
    /\ current \in Requests \cup {NoRequest}

\* A count has seen nothing that is not committed, and the client waits for a request that runs.
CountInv ==
    /\ shown \subseteq committed /\ (counts # NoCount => counts \subseteq committed)
    /\ \A q \in Requests : request[q].count \subseteq committed
    /\ current # NoRequest => request[current].step # "idle"

\* The cached count has seen what was dropped before, or it is known to be old.
CacheInv == stale \/ counts = NoCount \/ recounted \subseteq counts

DroppedInv ==
    \A e \in Changes : handling[e] # "none" => e \in committed /\ (stale \/ e \in recounted)

Coming == hint \/ timer # {} \/ flushing # {}

\* The client shows the change, or will when the request it waits for is answered.
ClientHolds(e) == IF current = NoRequest THEN e \in shown
            ELSE request[current].step = "count" \/ e \in request[current].count

\* A change whose hint is behind it reached the client, if no hint is to come.
NoticeInv ==
    lostHint \/ stale \/ Coming \/ \A e \in Changes : handling[e] \in {"later", "done"} => ClientHolds(e)

ViewInv == ViewTypes /\ CountInv /\ CacheInv /\ DroppedInv /\ NoticeInv

LEMMA ViewInit == ASSUME Views!Init PROVE ViewInv
<1> USE DEF Views!Init, Views!NoWait
<1>1. ViewTypes
  BY DEF ViewTypes
<1>2. CountInv /\ CacheInv /\ DroppedInv /\ NoticeInv
  BY DEF CountInv, CacheInv, DroppedInv, NoticeInv
<1> QED
  BY <1>1, <1>2 DEF ViewInv

\* What the client waits for and shows is as it was.
LEMMA ClientKeeps ==
    ASSUME ViewInv, UNCHANGED <<request, current, shown>>, committed \subseteq committed',
           committed' \subseteq Changes, counts' \in {counts, NoCount}
    PROVE  CountInv' /\ \A e : ClientHolds(e) => ClientHolds(e)'
  BY DEF ViewInv, CountInv, ClientHolds

LEMMA ViewCommit ==
    ASSUME ViewInv, NEW e \in Changes, Views!Commit(e) PROVE ViewInv'
<1>0. ViewTypes /\ CountInv /\ CacheInv /\ DroppedInv /\ NoticeInv
  BY DEF ViewInv
<1>1. /\ committed' = committed \cup {e}
      /\ UNCHANGED <<handling, timer, flushing, hint, counts, request, current, shown, recounted,
                     lostHint, stale>>
  BY DEF Views!Commit, Views!runVars, Views!trailing, Views!clientVars
<1>2. CountInv' /\ \A d : ClientHolds(d) => ClientHolds(d)'
  BY <1>0, <1>1, ClientKeeps DEF ViewTypes
<1>3. ViewTypes' /\ CacheInv' /\ DroppedInv'
  BY <1>0, <1>1 DEF ViewTypes, CacheInv, DroppedInv
<1>4. NoticeInv'
  BY <1>0, <1>1, <1>2 DEF NoticeInv, Coming
<1> QED
  BY <1>2, <1>3, <1>4 DEF ViewInv

LEMMA ViewInvalidate ==
    ASSUME ViewInv, NEW e \in Changes, Views!Invalidate(e) PROVE ViewInv'
<1>0. ViewTypes /\ CountInv /\ CacheInv /\ DroppedInv /\ NoticeInv
  BY DEF ViewInv
<1>1. /\ e \in committed /\ handling' = [handling EXCEPT ![e] = "window"]
      /\ UNCHANGED <<committed, timer, flushing, hint, request, current, shown, lostHint>>
      /\ \/ counts' = NoCount /\ recounted' = recounted \cup {e} /\ UNCHANGED stale
         \/ stale' = TRUE /\ UNCHANGED <<counts, recounted>>
  BY DEF Views!Invalidate, Views!trailing, Views!clientVars
<1>2. /\ handling' \in [Changes -> {"none", "window", "hint", "later", "done"}]
      /\ handling'[e] = "window" /\ \A d \in Changes \ {e} : handling'[d] = handling[d]
  BY <1>0, <1>1 DEF ViewTypes
<1>3. CountInv' /\ \A d : ClientHolds(d) => ClientHolds(d)'
  BY <1>0, <1>1, ClientKeeps DEF ViewTypes
<1>4. stale => stale'
  BY <1>1
<1>5. ViewTypes' /\ CacheInv' /\ DroppedInv'
  BY <1>0, <1>1, <1>2, <1>4 DEF ViewTypes, CacheInv, DroppedInv
<1>6. NoticeInv'
  BY <1>0, <1>1, <1>2, <1>3, <1>4 DEF NoticeInv, Coming
<1> QED
  BY <1>3, <1>5, <1>6 DEF ViewInv

\* A run goes on, or is undone: it has a hint to come if it leaves it to others.
LEMMA ViewRun ==
    ASSUME ViewInv, NEW e \in Changes,
           Views!OpensWindow(e) \/ Views!CommitRun(e) \/ Views!Rollback(e)
    PROVE  ViewInv'
<1>0. ViewTypes /\ CountInv /\ CacheInv /\ DroppedInv /\ NoticeInv
  BY DEF ViewInv
<1>1. UNCHANGED <<committed, flushing, counts, request, current, shown, recounted, lostHint, stale>>
  BY DEF Views!OpensWindow, Views!CommitRun, Views!Rollback, Views!trailing, Views!clientVars
<1>2. PICK next \in {"none", "hint", "later", "done"} :
         /\ handling' = [handling EXCEPT ![e] = next]
         /\ handling[e] # "none"
         /\ timer \subseteq timer' /\ (hint => hint')
         /\ next = "later" => timer' # {}
         /\ next = "done" => hint' \/ handling[e] = "later"
  <2>1. CASE Views!OpensWindow(e)
    BY <2>1 DEF Views!OpensWindow, Views!GoTo, Views!ScheduleTrailing
  <2>2. CASE Views!CommitRun(e)
    BY <2>2 DEF Views!CommitRun, Views!trailing
  <2>3. CASE Views!Rollback(e)
    BY <2>3 DEF Views!Rollback, Views!trailing
  <2> QED
    BY <2>1, <2>2, <2>3
<1>3. /\ handling' \in [Changes -> {"none", "window", "hint", "later", "done"}]
      /\ handling'[e] = next /\ \A d \in Changes \ {e} : handling'[d] = handling[d]
  BY <1>0, <1>2 DEF ViewTypes
<1>4. CountInv' /\ \A d : ClientHolds(d) => ClientHolds(d)'
  BY <1>0, <1>1, ClientKeeps DEF ViewTypes
<1>5. ViewTypes' /\ CacheInv' /\ DroppedInv'
  BY <1>0, <1>1, <1>2, <1>3 DEF ViewTypes, CacheInv, DroppedInv
<1>6. Coming => Coming'
  BY <1>1, <1>2 DEF Coming
<1>7. NoticeInv'
  BY <1>0, <1>1, <1>2, <1>3, <1>4, <1>6 DEF NoticeInv, Coming
<1> QED
  BY <1>4, <1>5, <1>7 DEF ViewInv

\* A trailing hint is sent, or lost, by its worker.
LEMMA ViewWorker ==
    ASSUME ViewInv, NEW w \in ViewWorkers,
           Views!FlushStarts(w) \/ Views!Flush(w) \/ Views!Crash(w)
    PROVE  ViewInv'
<1>0. ViewTypes /\ CountInv /\ CacheInv /\ DroppedInv /\ NoticeInv
  BY DEF ViewInv
<1>1. UNCHANGED <<committed, counts, request, current, shown, recounted, stale>>
  BY DEF Views!FlushStarts, Views!Flush, Views!Crash, Views!runVars, Views!clientVars
<1>2. /\ handling' \in [Changes -> {"none", "window", "hint", "later", "done"}]
      /\ \A d \in Changes : handling'[d] = handling[d] \/ handling'[d] = "none"
  <2>1. CASE Views!FlushStarts(w) \/ Views!Flush(w)
    BY <1>0, <2>1 DEF Views!FlushStarts, Views!Flush, Views!runVars, ViewTypes
  <2>2. CASE Views!Crash(w)
    BY <1>0, <2>2 DEF Views!Crash, ViewTypes
  <2> QED
    BY <2>1, <2>2
<1>3. Coming => Coming' \/ lostHint'
  BY DEF Views!FlushStarts, Views!Flush, Views!Crash, Coming
<1>4. lostHint => lostHint'
  BY DEF Views!FlushStarts, Views!Flush, Views!Crash
<1>5. CountInv' /\ \A d : ClientHolds(d) => ClientHolds(d)'
  BY <1>0, <1>1, ClientKeeps DEF ViewTypes
<1>6. ViewTypes' /\ CacheInv' /\ DroppedInv'
  BY <1>0, <1>1, <1>2 DEF ViewTypes, CacheInv, DroppedInv
<1>7. NoticeInv'
  BY <1>0, <1>1, <1>2, <1>3, <1>4, <1>5 DEF NoticeInv
<1> QED
  BY <1>5, <1>6, <1>7 DEF ViewInv

LEMMA ViewTime ==
    ASSUME ViewInv, Views!WindowEnds \/ Views!CacheExpires \/ UNCHANGED Views!vars
    PROVE  ViewInv'
<1>0. ViewTypes /\ CountInv /\ CacheInv /\ DroppedInv /\ NoticeInv
  BY DEF ViewInv
<1>1. /\ UNCHANGED <<committed, handling, timer, flushing, hint, request, current, shown,
                     recounted, lostHint, stale>>
      /\ counts' \in {counts, NoCount}
  BY DEF Views!WindowEnds, Views!CacheExpires, Views!vars, Views!runVars, Views!trailing,
         Views!clientVars
<1>2. CountInv' /\ \A d : ClientHolds(d) => ClientHolds(d)'
  BY <1>0, <1>1, ClientKeeps DEF ViewTypes
<1>3. ViewTypes' /\ CacheInv' /\ DroppedInv'
  BY <1>0, <1>1 DEF ViewTypes, CacheInv, DroppedInv
<1>4. NoticeInv'
  BY <1>0, <1>1, <1>2 DEF NoticeInv, Coming
<1> QED
  BY <1>2, <1>3, <1>4 DEF ViewInv

\* The client asks, and holds all it must from then on; or another tab does, and it holds what
\* it held.
LEMMA ViewAsk ==
    ASSUME ViewInv, NEW q \in Requests, Views!Hear(q) \/ Views!Poll(q)
    PROVE  ViewInv'
<1> USE BrowserAssumption DEF Views!ViewConstants
<1>0. ViewTypes /\ CountInv /\ CacheInv /\ DroppedInv /\ NoticeInv
  BY DEF ViewInv
<1>1. PICK client \in BOOLEAN : Views!Ask(q, client) /\ (hint' = hint \/ client)
  BY DEF Views!Hear, Views!Poll
<1>2. UNCHANGED <<committed, handling, timer, flushing, counts, recounted, lostHint, stale>>
  BY <1>1 DEF Views!Ask, Views!runVars, Views!trailing
<1>3. CacheInv' /\ DroppedInv'
  BY <1>0, <1>2 DEF CacheInv, DroppedInv
<1>4. CASE UNCHANGED <<request, current, shown>> /\ hint' = hint
  <2>1. CountInv' /\ \A d : ClientHolds(d) => ClientHolds(d)'
    BY <1>0, <1>2, <1>4, ClientKeeps DEF ViewTypes
  <2>2. ViewTypes' /\ NoticeInv'
    BY <1>0, <1>2, <1>4, <2>1 DEF ViewTypes, NoticeInv, Coming
  <2> QED
    BY <1>3, <2>1, <2>2 DEF ViewInv
<1>5. CASE client /\ counts # NoCount
  <2>1. request' = request /\ shown' = counts /\ current' = NoRequest
    BY <1>1, <1>5 DEF Views!Ask
  <2>2. ViewTypes' /\ CountInv'
    BY <1>0, <1>2, <1>5, <2>1 DEF ViewTypes, CountInv
  <2>3. NoticeInv'
    BY <1>0, <1>2, <1>5, <2>1 DEF NoticeInv, ClientHolds, CacheInv, DroppedInv
  <2> QED
    BY <1>3, <2>2, <2>3 DEF ViewInv
<1>6. CASE counts = NoCount
  <2>1. /\ request' = [request EXCEPT ![q].step = "count"] /\ shown' = shown
        /\ request[q].step = "idle" /\ current' = IF client THEN q ELSE current
    BY <1>1, <1>6 DEF Views!Ask
  <2>2. /\ request' \in [Requests -> [step : {"idle", "count", "write"}, count : SUBSET Changes]]
        /\ request'[q].step = "count" /\ request'[q].count = request[q].count
        /\ \A p \in Requests \ {q} : request'[p] = request[p]
    BY <1>0, <2>1 DEF ViewTypes
  <2>3. CASE client
    <3>1. current' = q
      BY <2>1, <2>3
    <3>2. ViewTypes' /\ CountInv'
      BY <1>0, <1>2, <2>1, <2>2, <3>1 DEF ViewTypes, CountInv
    <3>3. NoticeInv'
      BY <2>2, <3>1 DEF NoticeInv, ClientHolds
    <3> QED
      BY <1>3, <3>2, <3>3 DEF ViewInv
  <2>4. CASE ~client
    <3>1. current' = current /\ hint' = hint /\ (current # NoRequest => current # q)
      BY <1>0, <1>1, <2>1, <2>4 DEF CountInv
    <3>2. ViewTypes' /\ CountInv'
      BY <1>0, <1>2, <2>1, <2>2, <3>1 DEF ViewTypes, CountInv
    <3>3. \A d : ClientHolds(d) => ClientHolds(d)'
      BY <1>0, <2>1, <2>2, <3>1 DEF ViewTypes, ClientHolds
    <3>4. NoticeInv'
      BY <1>0, <1>2, <3>1, <3>3 DEF NoticeInv, Coming
    <3> QED
      BY <1>3, <3>2, <3>4 DEF ViewInv
  <2> QED
    BY <2>3, <2>4
<1> QED
  <2>1. counts # NoCount /\ ~client => UNCHANGED <<request, current, shown>> /\ hint' = hint
    BY <1>1 DEF Views!Ask
  <2> QED
    BY <1>4, <1>5, <1>6, <2>1

LEMMA ViewCount ==
    ASSUME ViewInv, NEW q \in Requests, Views!Count(q) PROVE ViewInv'
<1> USE BrowserAssumption DEF Views!ViewConstants
<1>0. ViewTypes /\ CountInv /\ CacheInv /\ DroppedInv /\ NoticeInv
  BY DEF ViewInv
<1>1. /\ request' = [request EXCEPT ![q] = [step |-> "write", count |-> committed]]
      /\ UNCHANGED <<committed, handling, timer, flushing, hint, counts, current, shown,
                     recounted, lostHint, stale>>
  BY DEF Views!Count, Views!runVars, Views!trailing
<1>2. /\ request' \in [Requests -> [step : {"idle", "count", "write"}, count : SUBSET Changes]]
      /\ request'[q] = [step |-> "write", count |-> committed]
      /\ \A p \in Requests \ {q} : request'[p] = request[p]
  BY <1>0, <1>1 DEF ViewTypes
<1>3. ViewTypes' /\ CountInv' /\ CacheInv' /\ DroppedInv'
  BY <1>0, <1>1, <1>2 DEF ViewTypes, CountInv, CacheInv, DroppedInv
<1>4. \A d \in committed : ClientHolds(d) => ClientHolds(d)'
  BY <1>0, <1>1, <1>2 DEF ViewTypes, ClientHolds
<1>5. NoticeInv'
  BY <1>0, <1>1, <1>4 DEF NoticeInv, DroppedInv, Coming
<1> QED
  BY <1>3, <1>5 DEF ViewInv

LEMMA ViewWrite ==
    ASSUME ViewInv, NEW q \in Requests, Views!WriteCache(q) PROVE ViewInv'
<1> USE BrowserAssumption DEF Views!ViewConstants
<1>0. ViewTypes /\ CountInv /\ CacheInv /\ DroppedInv /\ NoticeInv
  BY DEF ViewInv
<1>1. /\ request[q].step = "write" /\ request' = [request EXCEPT ![q] = Views!NoWait]
      /\ IF current = q THEN shown' = request[q].count /\ current' = NoRequest
                        ELSE UNCHANGED <<shown, current>>
      /\ UNCHANGED <<committed, handling, timer, flushing, hint, recounted, lostHint>>
      /\ counts' = request[q].count
  BY DEF Views!WriteCache, Views!Answer, Views!runVars, Views!trailing
<1>2. stale' = (stale \/ ~(recounted \subseteq request[q].count))
  BY DEF Views!WriteCache
<1>3. /\ request' \in [Requests -> [step : {"idle", "count", "write"}, count : SUBSET Changes]]
      /\ request'[q] = Views!NoWait /\ \A p \in Requests \ {q} : request'[p] = request[p]
  BY <1>0, <1>1 DEF ViewTypes, Views!NoWait
<1>4. (stale => stale') /\ CacheInv'
  BY <1>1, <1>2 DEF CacheInv
<1>5. ViewTypes' /\ CountInv'
  BY <1>0, <1>1, <1>3 DEF ViewTypes, CountInv, Views!NoWait
<1>6. DroppedInv'
  BY <1>0, <1>1, <1>4 DEF DroppedInv
<1>7. \A d : ClientHolds(d) => ClientHolds(d)'
  BY <1>0, <1>1, <1>3 DEF ViewTypes, ClientHolds
<1>8. NoticeInv'
  BY <1>0, <1>1, <1>4, <1>7 DEF NoticeInv, Coming
<1> QED
  BY <1>4, <1>5, <1>6, <1>8 DEF ViewInv

LEMMA ViewInvariant == Views!Spec => []ViewInv
<1>1. ASSUME ViewInv, [Views!Next]_(Views!vars) PROVE ViewInv'
  <2>1. ASSUME NEW e \in Changes, Views!Commit(e) \/ Views!Handling(e) \/ Views!Rollback(e)
        PROVE  ViewInv'
    BY <1>1, <2>1, ViewCommit, ViewInvalidate, ViewRun DEF Views!Handling
  <2>2. ASSUME NEW w \in ViewWorkers, Views!FlushStarts(w) \/ Views!Flush(w) \/ Views!Crash(w)
        PROVE  ViewInv'
    BY <1>1, <2>2, ViewWorker
  <2>3. CASE Views!WindowEnds \/ Views!CacheExpires \/ UNCHANGED Views!vars
    BY <1>1, <2>3, ViewTime
  <2>4. ASSUME NEW q \in Requests,
               Views!Hear(q) \/ Views!Poll(q) \/ Views!Count(q) \/ Views!WriteCache(q)
        PROVE  ViewInv'
    BY <1>1, <2>4, ViewAsk, ViewCount, ViewWrite
  <2> QED
    BY <1>1, <2>1, <2>2, <2>3, <2>4 DEF Views!Next
<1> QED
  BY <1>1, ViewInit, PTL DEF Views!Spec

\* When the changes are handled and the hints are heard the viewer sees the count as it is,
\* however windows, timers, requests and retries overlap, unless a hint or a drop of the cache
\* was lost (counts-notifier.ts:27): a run only leaves its hint to a timer that is set after it
\* has dropped the count, so whoever asks on that hint finds no count that lacks the change.
THEOREM ViewerSeesLatest == Views!Spec => []ShowsLatest
<1>1. ASSUME ViewInv PROVE ShowsLatest
  <2>1. SUFFICES ASSUME Views!Settled, ~lostHint, ~stale PROVE shown = committed
    BY DEF ShowsLatest, Views!ShowsLatest
  <2>2. \A e \in Changes : handling[e] \in {"later", "done"} => ClientHolds(e)
    BY <1>1, <2>1 DEF ViewInv, NoticeInv, Coming, Views!Settled
  <2>3. committed \subseteq shown
    BY <1>1, <2>1, <2>2 DEF ViewInv, ViewTypes, ClientHolds, Views!Settled
  <2> QED
    BY <1>1, <2>3 DEF ViewInv, CountInv
<1> QED
  BY <1>1, ViewInvariant, PTL

\* Where the runs and the timers are, and what may fail.
WorkerInv ==
    /\ process \in [Changes -> ViewWorkers] /\ timer \subseteq ViewWorkers
    /\ flushing \subseteq ViewWorkers /\ viewFaults \in 0..ViewFaults

FlagInv == window \in BOOLEAN /\ hint \in BOOLEAN /\ lostHint \in BOOLEAN /\ stale \in BOOLEAN

LEMMA FlagKept == ASSUME FlagInv, [Views!Next]_(Views!vars) PROVE FlagInv'
<1>1. window' \in {window, TRUE, FALSE}
  <2>1. ASSUME NEW e \in Changes, Views!Commit(e) \/ Views!Handling(e) \/ Views!Rollback(e)
        PROVE  window' \in {window, TRUE}
    BY <2>1 DEF Views!Commit, Views!Handling, Views!Invalidate, Views!OpensWindow,
                Views!CommitRun, Views!Rollback, Views!runVars
  <2>2. ASSUME NEW w \in ViewWorkers, Views!FlushStarts(w) \/ Views!Flush(w) \/ Views!Crash(w)
        PROVE  window' = window
    BY <2>2 DEF Views!FlushStarts, Views!Flush, Views!Crash, Views!runVars
  <2>3. ASSUME NEW q \in Requests,
               Views!Hear(q) \/ Views!Poll(q) \/ Views!Count(q) \/ Views!WriteCache(q)
        PROVE  window' = window
    BY <2>3 DEF Views!Hear, Views!Poll, Views!Ask, Views!Count, Views!WriteCache, Views!runVars
  <2> QED
    BY <2>1, <2>2, <2>3 DEF Views!Next, Views!WindowEnds, Views!CacheExpires, Views!vars,
                            Views!runVars
<1>2. hint' \in BOOLEAN
  <2>1. ASSUME NEW e \in Changes, Views!Commit(e) \/ Views!Handling(e) \/ Views!Rollback(e)
        PROVE  hint' \in BOOLEAN
    <3>1. hint' = hint \/ \E b \in BOOLEAN : hint' = (hint \/ b)
      BY <2>1, Zenon DEF Views!Commit, Views!Handling, Views!Invalidate, Views!OpensWindow,
                  Views!CommitRun, Views!Rollback
    <3> QED
      BY <3>1, Zenon DEF FlagInv
  <2>2. ASSUME NEW w \in ViewWorkers, Views!FlushStarts(w) \/ Views!Flush(w) \/ Views!Crash(w)
        PROVE  hint' = hint \/ hint' = TRUE
    BY <2>2 DEF Views!FlushStarts, Views!Flush, Views!Crash
  <2>3. ASSUME NEW q \in Requests,
               Views!Hear(q) \/ Views!Poll(q) \/ Views!Count(q) \/ Views!WriteCache(q)
        PROVE  hint' = hint \/ hint' = FALSE
    BY <2>3 DEF Views!Hear, Views!Poll, Views!Count, Views!WriteCache
  <2>4. ASSUME Views!WindowEnds \/ Views!CacheExpires \/ UNCHANGED Views!vars PROVE hint' = hint
    BY <2>4 DEF Views!WindowEnds, Views!CacheExpires, Views!vars
  <2> QED
    BY <2>1, <2>2, <2>3, <2>4, Zenon DEF Views!Next, FlagInv
<1>3. lostHint' \in BOOLEAN /\ stale' \in BOOLEAN
  <2>1. ASSUME NEW e \in Changes, Views!Commit(e) \/ Views!Handling(e) \/ Views!Rollback(e)
        PROVE  lostHint' = lostHint /\ (stale' = stale \/ stale' = TRUE)
    BY <2>1 DEF Views!Commit, Views!Handling, Views!Invalidate, Views!OpensWindow,
                Views!CommitRun, Views!Rollback
  <2>2. ASSUME NEW w \in ViewWorkers, Views!FlushStarts(w) \/ Views!Flush(w) \/ Views!Crash(w)
        PROVE  lostHint' \in BOOLEAN /\ stale' = stale
    BY <2>2, Zenon DEF Views!FlushStarts, Views!Flush, Views!Crash, FlagInv
  <2>3. ASSUME NEW q \in Requests,
               Views!Hear(q) \/ Views!Poll(q) \/ Views!Count(q) \/ Views!WriteCache(q)
        PROVE  lostHint' = lostHint /\ stale' \in BOOLEAN
    BY <2>3, Zenon DEF Views!Hear, Views!Poll, Views!Ask, Views!Count, Views!WriteCache, FlagInv
  <2>4. ASSUME Views!WindowEnds \/ Views!CacheExpires \/ UNCHANGED Views!vars
        PROVE  lostHint' = lostHint /\ stale' = stale
    BY <2>4 DEF Views!WindowEnds, Views!CacheExpires, Views!vars
  <2> QED
    BY <2>1, <2>2, <2>3, <2>4, Zenon DEF Views!Next, FlagInv
<1> QED
  BY <1>1, <1>2, <1>3, Zenon DEF FlagInv

LEMMA WorkerKept == ASSUME WorkerInv, [Views!Next]_(Views!vars) PROVE WorkerInv'
<1>0. ViewFaults \in Nat
  BY BrowserAssumption DEF Views!ViewConstants
<1>1. ASSUME UNCHANGED viewFaults \/ Views!Fault PROVE viewFaults' \in 0..ViewFaults
  BY <1>0, <1>1 DEF WorkerInv, Views!Fault
<1>2. ASSUME NEW e \in Changes, Views!Commit(e) \/ Views!Handling(e) \/ Views!Rollback(e)
      PROVE  WorkerInv'
  <2>1. UNCHANGED <<process, flushing>> /\ (UNCHANGED viewFaults \/ Views!Fault)
        /\ timer' \subseteq timer \cup {process[e]}
    BY <1>2 DEF Views!Commit, Views!Handling, Views!Invalidate, Views!OpensWindow,
                Views!CommitRun, Views!Rollback, Views!runVars, Views!trailing,
                Views!ScheduleTrailing
  <2> QED
    BY <1>1, <2>1 DEF WorkerInv
<1>3. ASSUME NEW w \in ViewWorkers, Views!FlushStarts(w) \/ Views!Flush(w) \/ Views!Crash(w)
      PROVE  WorkerInv'
  <2>1. /\ process' = process \/ process' \in [Changes -> ViewWorkers]
        /\ timer' \subseteq timer /\ flushing' \subseteq flushing \cup {w}
        /\ UNCHANGED viewFaults \/ Views!Fault
    BY <1>3 DEF Views!FlushStarts, Views!Flush, Views!Crash, Views!runVars
  <2> QED
    BY <1>1, <2>1 DEF WorkerInv
<1>4. ASSUME NEW q \in Requests,
             Views!Hear(q) \/ Views!Poll(q) \/ Views!Count(q) \/ Views!WriteCache(q)
      PROVE  WorkerInv'
  BY <1>4 DEF Views!Hear, Views!Poll, Views!Ask, Views!Count, Views!WriteCache, Views!runVars,
              Views!trailing, WorkerInv
<1>5. CASE Views!WindowEnds \/ Views!CacheExpires \/ UNCHANGED Views!vars
  BY <1>5 DEF Views!WindowEnds, Views!CacheExpires, Views!vars, Views!runVars, Views!trailing,
              WorkerInv
<1> QED
  BY <1>2, <1>3, <1>4, <1>5 DEF Views!Next

\* The state of a view's count is of its types.
LEMMA ViewTyped == Views!Spec => []Views!TypeOK
<1>1. Views!Init => WorkerInv /\ FlagInv
  <2>1. Views!Init => FlagInv
    BY Zenon DEF Views!Init, FlagInv
  <2>2. Views!Init => WorkerInv
    BY BrowserAssumption DEF Views!Init, Views!ViewConstants, WorkerInv
  <2> QED
    BY <2>1, <2>2
<1>2. WorkerInv /\ FlagInv /\ [Views!Next]_(Views!vars) => WorkerInv' /\ FlagInv'
  BY WorkerKept, FlagKept
<1>3. ViewInv /\ WorkerInv /\ FlagInv => Views!TypeOK
  <2>1. FlagInv => {window, hint, lostHint, stale} \subseteq BOOLEAN
    BY Zenon DEF FlagInv
  <2>2. ViewInv => counts \in {NoCount} \cup SUBSET Changes /\ shown \subseteq Changes
    BY DEF ViewInv, ViewTypes, CountInv
  <2> QED
    BY <2>1, <2>2 DEF ViewInv, ViewTypes, WorkerInv, Views!TypeOK
<1> QED
  BY <1>1, <1>2, <1>3, ViewInvariant, PTL DEF Views!Spec

-------------------------------------------------------------------------------
(* The malware scan of an attachment. *)

PastClaim == Scan!Busy \ {"claim"}

\* What a run has found out of the content stays true, and what it has copied stays there.
VerdictInv ==
    /\ "files" \in stored => ~infected
    /\ \A r \in FileRuns :
          /\ scan[r] \in {"copy", "remove", "clean"} => ~infected
          /\ scan[r] \in {"delete", "block"} => infected
          /\ scan[r] \in {"remove", "clean"} => "files" \in stored

\* Nothing runs before the row of the upload is there.
UploadInv ==
    /\ upload = "idle" => stored = {}
    /\ upload \in {"idle", "put"} => attachment = "none" /\ scanJob = "none"
    /\ scanJob = "none" => scanOwner = NoFileRun /\ scanMade = 0 /\ \A r \in FileRuns : scan[r] = "idle"

ScanOwnerInv == scanOwner # NoFileRun => scanJob = "active" /\ scan[scanOwner] # "idle"

ScanAttemptInv == scanJob \in {"none", "waiting", "active"} => scanMade < ScanAttempts

\* The run that holds the job is going to throw: it has thrown, has lost its transaction, or
\* is about to copy a file that another has moved.
Doomed ==
    /\ scanOwner # NoFileRun
    /\ \/ scan[scanOwner] = "threw"
       \/ scan[scanOwner] \in PastClaim /\ scanOwner \notin tx
       \/ scan[scanOwner] \in {"scan", "copy"} /\ "quarantine" \notin stored

\* A run that lost the job may still move the file away under the one that holds it.
Straggler ==
    /\ "quarantine" \in stored
    /\ \E r \in FileRuns \ {scanOwner} : scan[r] \in {"claim", "read", "scan", "copy", "remove"}

One(b) == IF b THEN 1 ELSE 0

\* As long as there is a file, each attempt used up, or certain to be, has cost a failure of
\* its own, and so has whatever may yet doom the run that holds the job.
BudgetInv ==
    stored # {} => scanMade + One(Doomed) + One(Straggler) + One(upload = "cleanup") <= scanFaults

ScanInv ==
    /\ Scan!TypeOK
    /\ VerdictInv /\ UploadInv /\ ScanOwnerInv /\ ScanAttemptInv /\ BudgetInv
    /\ Scan!CleanIsScanned

LEMMA ScanInvInit == ASSUME Scan!ScanConstants, Scan!Init PROVE ScanInv
<1> USE DEF Scan!ScanConstants, Scan!Init
<1>1. Scan!TypeOK
  <2>1. infected \in BOOLEAN /\ handled \in BOOLEAN /\ purged \in BOOLEAN
    OBVIOUS
  <2> QED
    BY <2>1 DEF Scan!TypeOK
<1>2. VerdictInv /\ UploadInv /\ ScanOwnerInv /\ ScanAttemptInv /\ BudgetInv /\ Scan!CleanIsScanned
  BY DEF VerdictInv, UploadInv, ScanOwnerInv, ScanAttemptInv, BudgetInv, Scan!CleanIsScanned
<1> QED
  BY <1>1, <1>2 DEF ScanInv

LEMMA ScanTypes ==
    ASSUME Scan!ScanConstants, ScanInv, [Scan!Next]_(Scan!vars)
    PROVE  Scan!TypeOK'
<1> USE DEF Scan!ScanConstants, ScanInv, Scan!jobVars, Scan!GoTo
<1>1. CASE Scan!Uploading
  <2>1. stored' \subseteq Scan!Areas
    BY <1>1 DEF Scan!Uploading, Scan!Put, Scan!Insert, Scan!InsertThrows, Scan!Cleanup,
                Scan!TypeOK, Scan!Areas
  <2> QED
    BY <1>1, <2>1 DEF Scan!Uploading, Scan!Put, Scan!Insert, Scan!InsertThrows, Scan!Cleanup,
           Scan!Inserted, Scan!Fault, Scan!unchangedByUpload, Scan!TypeOK
<1>2. ASSUME NEW r \in FileRuns, Scan!Claim(r) PROVE Scan!TypeOK'
  BY <1>2, ZenonT(60) DEF Scan!Claim, Scan!unchangedByScan, Scan!TypeOK, Scan!Busy
<1>3. ASSUME NEW r \in FileRuns, Scan!Read(r) \/ Scan!Scan(r) \/ Scan!Copy(r) PROVE Scan!TypeOK'
  BY <1>3 DEF Scan!Read, Scan!Scan, Scan!Copy, Scan!ThrowNow, Scan!unchangedByScan, Scan!TypeOK,
              Scan!Busy
<1>4. ASSUME NEW r \in FileRuns, Scan!Remove(r) \/ Scan!Delete(r) PROVE Scan!TypeOK'
  BY <1>4 DEF Scan!Remove, Scan!Delete, Scan!unchangedByScan, Scan!TypeOK, Scan!Busy
<1>5. ASSUME NEW r \in FileRuns, Scan!Mark(r) PROVE Scan!TypeOK'
  BY <1>5, ZenonT(60) DEF Scan!Mark, Scan!ThrowNow, Scan!unchangedByScan, Scan!TypeOK
<1>6. ASSUME NEW r \in FileRuns, Scan!Take(r) PROVE Scan!TypeOK'
  BY <1>6 DEF Scan!Take, Scan!unchangedByJob, Scan!TypeOK, Scan!Busy
<1>7. ASSUME NEW r \in FileRuns, Scan!End(r) PROVE Scan!TypeOK'
  <2>1. scanOwner = r => scanMade + 1 \in 0..ScanAttempts
    BY <1>7 DEF ScanOwnerInv, ScanAttemptInv, Scan!TypeOK
  <2> QED
    BY <1>7, <2>1 DEF Scan!End, Scan!unchangedByJob, Scan!TypeOK
<1>8. ASSUME NEW r \in FileRuns, Scan!Throw(r) \/ Scan!LoseTx(r) \/ Scan!Crash(r) PROVE Scan!TypeOK'
  BY <1>8 DEF Scan!Throw, Scan!LoseTx, Scan!Crash, Scan!Fault, Scan!unchangedByJob, Scan!TypeOK
<1>9. CASE Scan!Stall
  BY <1>9 DEF Scan!Stall, Scan!Fault, Scan!unchangedByJob, Scan!TypeOK
<1>10. CASE Scan!Purge
  <2>1. purged' = TRUE /\ stored' = {} /\ scanFaults' \in 0..ScanFaults
        /\ UNCHANGED <<infected, upload, handled, Scan!jobVars, scan, tx>>
        /\ attachment' \in {attachment, "gone"}
    BY <1>10 DEF Scan!Purge, Scan!Fault, Scan!TypeOK
  <2> QED
    BY <2>1 DEF Scan!TypeOK
<1>11. CASE UNCHANGED Scan!vars
  BY <1>11 DEF Scan!vars, Scan!TypeOK
<1> QED
  BY <1>1, <1>2, <1>3, <1>4, <1>5, <1>6, <1>7, <1>8, <1>9, <1>10, <1>11
  DEF Scan!Next, Scan!Working, Scan!Scanning

\* The scan's verdict and the file's place, and that the job belongs to one run.
LEMMA VerdictKept ==
    ASSUME Scan!ScanConstants, ScanInv, [Scan!Next]_(Scan!vars)
    PROVE  (VerdictInv /\ Scan!CleanIsScanned)'
<1> USE DEF ScanInv, Scan!TypeOK, VerdictInv, Scan!CleanIsScanned, Scan!GoTo
<1>1. CASE Scan!Uploading
  <2>1. UNCHANGED <<infected, scan, purged>> /\ attachment' \in {attachment, "pending"}
        /\ (attachment' = "pending" => attachment' = attachment \/ upload = "put")
    BY <1>1 DEF Scan!Uploading, Scan!Put, Scan!Insert, Scan!InsertThrows, Scan!Cleanup,
                Scan!Inserted, Scan!unchangedByUpload
  <2>2. \/ stored' = {"quarantine"} /\ stored = {}
        \/ stored' \in {stored, stored \ {"quarantine"}}
    BY <1>1 DEF Scan!Uploading, Scan!Put, Scan!Insert, Scan!InsertThrows, Scan!Cleanup, UploadInv
  <2>3. "files" \in stored' <=> "files" \in stored
    BY <2>2
  <2> QED
    BY <2>1, <2>3
<1>2. ASSUME NEW r \in FileRuns, Scan!Claim(r) PROVE (VerdictInv /\ Scan!CleanIsScanned)'
  BY <1>2 DEF Scan!Claim, Scan!unchangedByScan
<1>3. ASSUME NEW r \in FileRuns, Scan!Read(r) PROVE (VerdictInv /\ Scan!CleanIsScanned)'
  <2>1. UNCHANGED <<infected, attachment, stored, purged>>
        /\ scan' \in {[scan EXCEPT ![r] = p] : p \in {"threw", "scan", "clean"}}
    BY <1>3 DEF Scan!Read, Scan!ThrowNow, Scan!unchangedByScan
  <2>2. scan' = [scan EXCEPT ![r] = "clean"] => "files" \in stored
    <3>1. CASE stored = {}
      BY <1>3, <3>1 DEF Scan!Read, Scan!ThrowNow
    <3>2. CASE "quarantine" \in stored
      BY <1>3, <3>2 DEF Scan!Read
    <3>3. CASE stored # {} /\ "quarantine" \notin stored
      BY <3>3 DEF Scan!Areas
    <3> QED
      BY <3>1, <3>2, <3>3
  <2> QED
    BY <2>1, <2>2
<1>4. ASSUME NEW r \in FileRuns, Scan!Scan(r) PROVE (VerdictInv /\ Scan!CleanIsScanned)'
  BY <1>4 DEF Scan!Scan, Scan!unchangedByScan
<1>5. ASSUME NEW r \in FileRuns, Scan!Copy(r) PROVE (VerdictInv /\ Scan!CleanIsScanned)'
  BY <1>5 DEF Scan!Copy, Scan!ThrowNow, Scan!unchangedByScan, Scan!Areas
<1>6. ASSUME NEW r \in FileRuns, Scan!Remove(r) \/ Scan!Delete(r)
      PROVE  (VerdictInv /\ Scan!CleanIsScanned)'
  BY <1>6 DEF Scan!Remove, Scan!Delete, Scan!unchangedByScan
<1>7. ASSUME NEW r \in FileRuns, Scan!Mark(r) PROVE (VerdictInv /\ Scan!CleanIsScanned)'
  BY <1>7 DEF Scan!Mark, Scan!ThrowNow, Scan!unchangedByScan
<1>8. ASSUME NEW r \in FileRuns,
             Scan!Take(r) \/ Scan!End(r) \/ Scan!Throw(r) \/ Scan!LoseTx(r) \/ Scan!Crash(r)
      PROVE  (VerdictInv /\ Scan!CleanIsScanned)'
  BY <1>8 DEF Scan!Take, Scan!End, Scan!Throw, Scan!LoseTx, Scan!Crash, Scan!unchangedByJob
<1>9. CASE Scan!Stall
  BY <1>9 DEF Scan!Stall, Scan!unchangedByJob
<1>10. CASE Scan!Purge
  BY <1>10 DEF Scan!Purge
<1>11. CASE UNCHANGED Scan!vars
  BY <1>11 DEF Scan!vars
<1> QED
  BY <1>1, <1>2, <1>3, <1>4, <1>5, <1>6, <1>7, <1>8, <1>9, <1>10, <1>11
  DEF Scan!Next, Scan!Working, Scan!Scanning

LEMMA OwnerKept ==
    ASSUME Scan!ScanConstants, ScanInv, [Scan!Next]_(Scan!vars)
    PROVE  (UploadInv /\ ScanOwnerInv /\ ScanAttemptInv)'
<1> USE DEF Scan!ScanConstants, ScanInv, Scan!TypeOK, UploadInv, ScanOwnerInv, ScanAttemptInv,
            Scan!GoTo, Scan!jobVars
<1>1. CASE Scan!Uploading
  BY <1>1 DEF Scan!Uploading, Scan!Put, Scan!Insert, Scan!InsertThrows, Scan!Cleanup,
              Scan!Inserted, Scan!unchangedByUpload
<1>2. ASSUME NEW r \in FileRuns, Scan!Scanning(r)
      PROVE  (UploadInv /\ ScanOwnerInv /\ ScanAttemptInv)'
  <2>1. scanJob # "none" /\ UNCHANGED <<upload, scanJob, scanMade, scanOwner>>
    BY <1>2 DEF Scan!Scanning, Scan!Claim, Scan!Read, Scan!Scan, Scan!Copy, Scan!Remove,
                Scan!Delete, Scan!Mark, Scan!ThrowNow, Scan!unchangedByScan
  <2>2. \A t \in FileRuns : scan[t] # "idle" => scan'[t] # "idle"
    BY <1>2 DEF Scan!Scanning, Scan!Claim, Scan!Read, Scan!Scan, Scan!Copy, Scan!Remove,
                Scan!Delete, Scan!Mark, Scan!ThrowNow, Scan!unchangedByScan
  <2>3. upload \notin {"idle", "put"}
    BY <2>1
  <2> QED
    BY <2>1, <2>2, <2>3
<1>3. ASSUME NEW r \in FileRuns, Scan!Take(r) PROVE (UploadInv /\ ScanOwnerInv /\ ScanAttemptInv)'
  BY <1>3 DEF Scan!Take, Scan!unchangedByJob
<1>4. ASSUME NEW r \in FileRuns, Scan!End(r) PROVE (UploadInv /\ ScanOwnerInv /\ ScanAttemptInv)'
  BY <1>4 DEF Scan!End, Scan!unchangedByJob
<1>5. ASSUME NEW r \in FileRuns, Scan!Throw(r) \/ Scan!LoseTx(r)
      PROVE  (UploadInv /\ ScanOwnerInv /\ ScanAttemptInv)'
  BY <1>5 DEF Scan!Throw, Scan!LoseTx, Scan!Busy, Scan!unchangedByJob
<1>6. ASSUME NEW r \in FileRuns, Scan!Crash(r) PROVE (UploadInv /\ ScanOwnerInv /\ ScanAttemptInv)'
  BY <1>6 DEF Scan!Crash, Scan!unchangedByJob
<1>7. CASE Scan!Stall
  BY <1>7 DEF Scan!Stall, Scan!unchangedByJob
<1>8. CASE Scan!Purge
  BY <1>8 DEF Scan!Purge
<1>9. CASE UNCHANGED Scan!vars
  BY <1>9 DEF Scan!vars
<1> QED
  BY <1>1, <1>2, <1>3, <1>4, <1>5, <1>6, <1>7, <1>8, <1>9 DEF Scan!Next, Scan!Working

\* A step that dooms nothing more, and leaves no straggler more, keeps the budget.
LEMMA NoNewCharge ==
    ASSUME Scan!ScanConstants, ScanInv, scanFaults' \in Nat, scanMade' = scanMade,
           scanFaults <= scanFaults',
           stored' # {} => stored # {},
           upload' = "cleanup" => upload = "cleanup",
           stored' # {} /\ Doomed' => Doomed,
           stored' # {} /\ Straggler' => Straggler
    PROVE  BudgetInv'
<1>1. scanMade \in Nat /\ scanFaults \in Nat
  BY DEF Scan!ScanConstants, ScanInv, Scan!TypeOK
<1>2. stored' # {} => /\ One(Doomed') \in 0..One(Doomed)
                      /\ One(Straggler') \in 0..One(Straggler)
                      /\ One((upload = "cleanup")') \in 0..One(upload = "cleanup")
  BY DEF One
<1>3. ASSUME stored' # {}
      PROVE  scanMade' + One(Doomed') + One(Straggler') + One((upload = "cleanup")') <= scanFaults'
  <2>1. scanMade + One(Doomed) + One(Straggler) + One(upload = "cleanup") <= scanFaults
    BY <1>3 DEF ScanInv, BudgetInv
  <2>2. One(Doomed) \in 0..1 /\ One(Straggler) \in 0..1 /\ One(upload = "cleanup") \in 0..1
    BY DEF One
  <2> QED
    BY <1>1, <1>2, <1>3, <2>1, <2>2
<1> QED
  BY <1>3 DEF BudgetInv

\* A failure pays for one charge more.
LEMMA PaidCharge ==
    ASSUME Scan!ScanConstants, ScanInv, scanFaults' = scanFaults + 1, scanMade' = scanMade,
           stored' # {} => stored # {},
           stored' # {} =>
               \/ (Straggler' => Straggler) /\ (upload' = "cleanup" => upload = "cleanup")
               \/ (Doomed' => Doomed) /\ (upload' = "cleanup" => upload = "cleanup")
               \/ (Doomed' => Doomed) /\ (Straggler' => Straggler)
    PROVE  BudgetInv'
<1>1. scanMade \in Nat /\ scanFaults \in Nat
  BY DEF Scan!ScanConstants, ScanInv, Scan!TypeOK
<1>2. ASSUME stored' # {}
      PROVE  scanMade' + One(Doomed') + One(Straggler') + One((upload = "cleanup")') <= scanFaults'
  <2>1. scanMade + One(Doomed) + One(Straggler) + One(upload = "cleanup") <= scanFaults
    BY <1>2 DEF ScanInv, BudgetInv
  <2>2. /\ One(Doomed) \in 0..1 /\ One(Straggler) \in 0..1 /\ One(upload = "cleanup") \in 0..1
        /\ One(Doomed') \in 0..1 /\ One(Straggler') \in 0..1
        /\ One((upload = "cleanup")') \in 0..1
    BY DEF One
  <2>3. \/ One(Straggler') <= One(Straggler)
           /\ One((upload = "cleanup")') <= One(upload = "cleanup")
        \/ One(Doomed') <= One(Doomed)
           /\ One((upload = "cleanup")') <= One(upload = "cleanup")
        \/ One(Doomed') <= One(Doomed) /\ One(Straggler') <= One(Straggler)
    BY <1>2 DEF One
  <2> QED
    BY <1>1, <2>1, <2>2, <2>3
<1> QED
  BY <1>2 DEF BudgetInv

\* What could still move the file is gone with the file: its charge passes to the run it dooms.
LEMMA ChargePasses ==
    ASSUME Scan!ScanConstants, ScanInv, scanFaults' = scanFaults, scanMade' = scanMade,
           stored' # {} => stored # {}, ~Straggler',
           \/ Straggler /\ (upload' = "cleanup" => upload = "cleanup")
           \/ upload = "cleanup" /\ upload' # "cleanup"
    PROVE  BudgetInv'
<1>1. scanMade \in Nat /\ scanFaults \in Nat
  BY DEF Scan!ScanConstants, ScanInv, Scan!TypeOK
<1>2. ASSUME stored' # {}
      PROVE  scanMade' + One(Doomed') + One(Straggler') + One((upload = "cleanup")') <= scanFaults'
  <2>1. scanMade + One(Doomed) + One(Straggler) + One(upload = "cleanup") <= scanFaults
    BY <1>2 DEF ScanInv, BudgetInv
  <2>2. One(Doomed) \in 0..1 /\ One(Doomed') \in 0..1 /\ One(Straggler') = 0
    BY DEF One
  <2>3. One((upload = "cleanup")') + 1 <= One(Straggler) + One(upload = "cleanup")
    BY DEF One
  <2>4. One(Straggler) \in 0..1 /\ One(upload = "cleanup") \in 0..1
        /\ One((upload = "cleanup")') \in 0..1
    BY DEF One
  <2> QED
    BY <1>1, <2>1, <2>2, <2>3, <2>4
<1> QED
  BY <1>2 DEF BudgetInv

LEMMA BudgetKept ==
    ASSUME Scan!ScanConstants, ScanInv, [Scan!Next]_(Scan!vars)
    PROVE  BudgetInv'
<1>0. Scan!TypeOK /\ Scan!TypeOK'
  BY ScanTypes DEF ScanInv
<1>n. scanFaults \in Nat /\ scanFaults' \in Nat /\ scanMade \in Nat /\ scanMade' \in Nat
  BY <1>0 DEF Scan!TypeOK, Scan!ScanConstants
<1>1. CASE Scan!Put
  <2>1. scanMade' = 0 /\ upload' = "put" /\ scanOwner' = NoFileRun
        /\ \A r \in FileRuns : scan'[r] = "idle"
    BY <1>1 DEF Scan!Put, Scan!unchangedByUpload, ScanInv, UploadInv
  <2>2. ~Doomed' /\ ~Straggler'
    BY <2>1 DEF Doomed, Straggler
  <2> QED
    BY <1>n, <2>1, <2>2 DEF BudgetInv, One
<1>2. CASE Scan!Insert
  <2>1. upload' = "answered" /\ scanFaults' = scanFaults /\ scanMade' = scanMade
        /\ UNCHANGED <<scanOwner, scan, tx, stored>>
    BY <1>2 DEF Scan!Insert, Scan!unchangedByUpload
  <2> QED
    BY <1>n, <2>1, NoNewCharge DEF Doomed, Straggler
<1>3. CASE Scan!InsertThrows
  <2>1. scanFaults' = scanFaults + 1 /\ scanMade' = scanMade
        /\ UNCHANGED <<scanOwner, scan, tx, stored>>
    BY <1>3 DEF Scan!InsertThrows, Scan!Fault, Scan!unchangedByUpload
  <2> QED
    BY <2>1, PaidCharge DEF Doomed, Straggler
<1>4. CASE Scan!Cleanup
  <2>1. /\ upload = "cleanup" /\ upload' = "answered" /\ scanFaults' = scanFaults
        /\ scanMade' = scanMade
        /\ stored' = stored \/ stored' = stored \ {"quarantine"}
        /\ UNCHANGED <<scanOwner, scan, tx>>
    BY <1>4 DEF Scan!Cleanup, Scan!unchangedByUpload
  <2>2. CASE stored' = stored
    BY <1>n, <2>1, <2>2, NoNewCharge DEF Doomed, Straggler
  <2>3. CASE stored' = stored \ {"quarantine"}
    <3>1. ~Straggler' /\ (stored' # {} => stored # {})
      BY <2>3 DEF Straggler
    <3> QED
      BY <2>1, <3>1, ChargePasses
  <2> QED
    BY <2>1, <2>2, <2>3
<1>5. ASSUME NEW r \in FileRuns, Scan!Claim(r) PROVE BudgetInv'
  <2>1. /\ scan[r] = "claim" /\ UNCHANGED <<stored, upload, scanMade, scanOwner, scanFaults>>
        /\ \/ scan' = [scan EXCEPT ![r] = "returned"] /\ tx' = tx
           \/ scan' = [scan EXCEPT ![r] = "read"] /\ tx' = tx \cup {r}
    BY <1>5 DEF Scan!Claim, Scan!unchangedByScan, Scan!GoTo, Scan!jobVars
  <2>2. Doomed' => Doomed
    BY <1>0, <2>1 DEF Doomed, PastClaim, Scan!Busy, Scan!TypeOK
  <2>3. Straggler' => Straggler
    BY <1>0, <2>1 DEF Straggler, Scan!TypeOK
  <2> QED
    BY <1>n, <2>1, <2>2, <2>3, NoNewCharge
<1>6. ASSUME NEW r \in FileRuns, Scan!Read(r) PROVE BudgetInv'
  <2>1. CASE stored = {}
    BY <1>6, <2>1 DEF Scan!Read, Scan!ThrowNow, BudgetInv
  <2>2. CASE stored # {}
    <3>1. /\ scan[r] = "read" /\ UNCHANGED <<stored, upload, scanMade, scanOwner, scanFaults, tx>>
          /\ \/ scan' = [scan EXCEPT ![r] = "scan"] /\ "quarantine" \in stored
             \/ scan' = [scan EXCEPT ![r] = "clean"]
      BY <1>6, <2>2 DEF Scan!Read, Scan!unchangedByScan, Scan!GoTo, Scan!jobVars
    <3>2. Doomed' => Doomed
      BY <1>0, <3>1 DEF Doomed, PastClaim, Scan!Busy, Scan!TypeOK
    <3>3. Straggler' => Straggler
      BY <1>0, <3>1 DEF Straggler, Scan!TypeOK
    <3> QED
      BY <1>n, <3>1, <3>2, <3>3, NoNewCharge
  <2> QED
    BY <2>1, <2>2
<1>7. ASSUME NEW r \in FileRuns, Scan!Scan(r) PROVE BudgetInv'
  <2>1. /\ scan[r] = "scan" /\ UNCHANGED <<stored, upload, scanMade, scanOwner, scanFaults, tx>>
        /\ scan' = [scan EXCEPT ![r] = "delete"] \/ scan' = [scan EXCEPT ![r] = "copy"]
    BY <1>7 DEF Scan!Scan, Scan!unchangedByScan, Scan!GoTo, Scan!jobVars
  <2>2. Doomed' => Doomed
    BY <1>0, <2>1 DEF Doomed, PastClaim, Scan!Busy, Scan!TypeOK
  <2>3. Straggler' => Straggler
    BY <1>0, <2>1 DEF Straggler, Scan!TypeOK
  <2> QED
    BY <1>n, <2>1, <2>2, <2>3, NoNewCharge
<1>8. ASSUME NEW r \in FileRuns, Scan!Copy(r) PROVE BudgetInv'
  <2>1. CASE "quarantine" \notin stored
    <3>1. /\ scan[r] = "copy" /\ UNCHANGED <<stored, upload, scanMade, scanOwner, scanFaults>>
          /\ scan' = [scan EXCEPT ![r] = "threw"] /\ tx' = tx \ {r}
      BY <1>8, <2>1 DEF Scan!Copy, Scan!ThrowNow, Scan!unchangedByScan, Scan!GoTo, Scan!jobVars
    <3>2. Doomed' => Doomed
      BY <1>0, <2>1, <3>1 DEF Doomed, PastClaim, Scan!Busy, Scan!TypeOK
    <3>3. Straggler' => Straggler
      BY <2>1, <3>1 DEF Straggler
    <3> QED
      BY <1>n, <3>1, <3>2, <3>3, NoNewCharge
  <2>2. CASE "quarantine" \in stored
    <3>1. /\ scan[r] = "copy" /\ UNCHANGED <<upload, scanMade, scanOwner, scanFaults, tx>>
          /\ "quarantine" \in stored' /\ stored # {}
          /\ scan' = [scan EXCEPT ![r] = "remove"]
      BY <1>8, <2>2 DEF Scan!Copy, Scan!Areas, Scan!unchangedByScan, Scan!GoTo, Scan!jobVars
    <3>2. Doomed' => Doomed
      BY <1>0, <3>1 DEF Doomed, PastClaim, Scan!Busy, Scan!TypeOK
    <3>3. Straggler' => Straggler
      BY <1>0, <2>2, <3>1 DEF Straggler, Scan!TypeOK
    <3> QED
      BY <1>n, <3>1, <3>2, <3>3, NoNewCharge
  <2> QED
    BY <2>1, <2>2
<1>9. ASSUME NEW r \in FileRuns, Scan!Remove(r) PROVE BudgetInv'
  <2>1. /\ scan[r] = "remove" /\ UNCHANGED <<upload, scanMade, scanOwner, scanFaults, tx>>
        /\ stored' = stored \ {"quarantine"} /\ scan' = [scan EXCEPT ![r] = "clean"]
    BY <1>9 DEF Scan!Remove, Scan!unchangedByScan, Scan!GoTo, Scan!jobVars
  <2>2. ~Straggler' /\ (stored' # {} => stored # {})
    BY <2>1 DEF Straggler
  <2>3. CASE "quarantine" \in stored /\ scanOwner # r
    <3>1. Straggler
      BY <2>1, <2>3 DEF Straggler
    <3> QED
      BY <2>1, <2>2, <3>1, ChargePasses
  <2>4. CASE "quarantine" \notin stored \/ scanOwner = r
    <3>1. Doomed' => Doomed
      BY <1>0, <2>1, <2>4 DEF Doomed, PastClaim, Scan!Busy, Scan!TypeOK
    <3> QED
      BY <1>n, <2>1, <2>2, <3>1, NoNewCharge
  <2> QED
    BY <2>3, <2>4
<1>10. ASSUME NEW r \in FileRuns, Scan!Delete(r) PROVE BudgetInv'
  <2>1. infected
    BY <1>10 DEF Scan!Delete, ScanInv, VerdictInv
  <2>2. stored' = {}
    BY <1>0, <1>10, <2>1 DEF Scan!Delete, ScanInv, VerdictInv, Scan!TypeOK, Scan!Areas
  <2> QED
    BY <2>2 DEF BudgetInv
<1>11. ASSUME NEW r \in FileRuns, Scan!Mark(r) PROVE BudgetInv'
  <2>1. /\ scan[r] \in {"clean", "block"}
        /\ UNCHANGED <<stored, upload, scanMade, scanOwner, scanFaults>>
        /\ tx' = tx \ {r}
        /\ \/ r \notin tx /\ scan' = [scan EXCEPT ![r] = "threw"]
           \/ scan' = [scan EXCEPT ![r] = "returned"]
    BY <1>11 DEF Scan!Mark, Scan!ThrowNow, Scan!unchangedByScan, Scan!GoTo, Scan!jobVars
  <2>2. Doomed' => Doomed
    BY <1>0, <2>1 DEF Doomed, PastClaim, Scan!Busy, Scan!TypeOK
  <2>3. Straggler' => Straggler
    BY <1>0, <2>1 DEF Straggler, Scan!TypeOK
  <2> QED
    BY <1>n, <2>1, <2>2, <2>3, NoNewCharge
<1>12. ASSUME NEW r \in FileRuns, Scan!Take(r) PROVE BudgetInv'
  <2>1. /\ scan[r] = "idle" /\ scan' = [scan EXCEPT ![r] = "claim"] /\ scanOwner' = r
        /\ scanOwner = NoFileRun
        /\ UNCHANGED <<stored, upload, scanMade, scanFaults, tx>>
    BY <1>12 DEF Scan!Take, Scan!unchangedByJob, Scan!GoTo, ScanInv, ScanOwnerInv
  <2>2. ~Doomed'
    BY <1>0, <2>1 DEF Doomed, PastClaim, Scan!TypeOK
  <2>3. Straggler' => Straggler
    BY <1>0, <2>1 DEF Straggler, Scan!TypeOK, Scan!ScanConstants
  <2> QED
    BY <1>n, <2>1, <2>2, <2>3, NoNewCharge
<1>13. ASSUME NEW r \in FileRuns, Scan!End(r) PROVE BudgetInv'
  <2>1. /\ scan[r] \in {"returned", "threw"} /\ scan' = [scan EXCEPT ![r] = "idle"]
        /\ UNCHANGED <<stored, upload, scanFaults, tx>>
        /\ scanOwner' = IF scanOwner = r THEN NoFileRun ELSE scanOwner
    BY <1>13 DEF Scan!End, Scan!unchangedByJob, Scan!GoTo, Scan!jobVars
  <2>2. (Doomed' => Doomed) /\ (scanOwner = r => ~Doomed')
    BY <1>0, <2>1 DEF Doomed, PastClaim, Scan!Busy, Scan!TypeOK
  <2>3. Straggler' => Straggler
    BY <1>0, <2>1 DEF Straggler, Scan!TypeOK, Scan!ScanConstants
  <2>4. CASE scanMade' = scanMade
    BY <1>n, <2>1, <2>2, <2>3, <2>4, NoNewCharge
  <2>5. CASE scanMade' # scanMade
    <3>1. scanOwner = r /\ scan[r] = "threw" /\ scanMade' = scanMade + 1
      BY <1>13, <2>5 DEF Scan!End, Scan!jobVars
    <3>2. Doomed /\ ~Doomed'
      BY <2>2, <3>1 DEF Doomed, Scan!ScanConstants
    <3>3. ASSUME stored' # {}
          PROVE  scanMade' + One(Doomed') + One(Straggler') + One((upload = "cleanup")')
                 <= scanFaults'
      <4>1. scanMade + One(Doomed) + One(Straggler) + One(upload = "cleanup") <= scanFaults
        BY <2>1, <3>3 DEF ScanInv, BudgetInv
      <4>2. One(Doomed) = 1 /\ One(Doomed') = 0 /\ One(Straggler') \in 0..One(Straggler)
            /\ One((upload = "cleanup")') = One(upload = "cleanup")
        BY <2>1, <2>3, <3>2 DEF One
      <4>3. One(Straggler) \in 0..1 /\ One(upload = "cleanup") \in 0..1
        BY DEF One
      <4> QED
        BY <1>n, <2>1, <3>1, <4>1, <4>2, <4>3
    <3> QED
      BY <3>3 DEF BudgetInv
  <2> QED
    BY <2>4, <2>5
<1>14. ASSUME NEW r \in FileRuns, Scan!Throw(r) \/ Scan!LoseTx(r) PROVE BudgetInv'
  <2>1. /\ UNCHANGED <<stored, upload, scanMade, scanOwner>> /\ scanFaults' = scanFaults + 1
        /\ scan' = scan \/ scan' = [scan EXCEPT ![r] = "threw"]
    BY <1>14 DEF Scan!Throw, Scan!LoseTx, Scan!unchangedByJob, Scan!GoTo, Scan!jobVars, Scan!Fault
  <2>2. Straggler' => Straggler
    BY <1>0, <2>1 DEF Straggler, Scan!TypeOK
  <2> QED
    BY <2>1, <2>2, PaidCharge
<1>15. ASSUME NEW r \in FileRuns, Scan!Crash(r) PROVE BudgetInv'
  <2>1. /\ UNCHANGED <<stored, upload, scanMade>> /\ scanFaults' = scanFaults + 1
        /\ scan' = [scan EXCEPT ![r] = "idle"]
        /\ scanOwner' = IF scanOwner = r THEN NoFileRun ELSE scanOwner
    BY <1>15 DEF Scan!Crash, Scan!unchangedByJob, Scan!GoTo, Scan!Fault
  <2>2. Straggler' => Straggler
    BY <1>0, <2>1 DEF Straggler, Scan!TypeOK, Scan!ScanConstants
  <2> QED
    BY <2>1, <2>2, PaidCharge
<1>16. CASE Scan!Stall
  <2>1. UNCHANGED <<stored, upload, scanMade, scan, tx>> /\ scanOwner' = NoFileRun
        /\ (IF scanOwner = NoFileRun THEN scanFaults' = scanFaults ELSE scanFaults' = scanFaults + 1)
    BY <1>16 DEF Scan!Stall, Scan!unchangedByJob, Scan!Fault
  <2>2. ~Doomed'
    BY <2>1 DEF Doomed
  <2>3. CASE scanOwner = NoFileRun
    BY <1>n, <2>1, <2>2, <2>3, NoNewCharge DEF Straggler
  <2>4. CASE scanOwner # NoFileRun
    BY <2>1, <2>2, <2>4, PaidCharge
  <2> QED
    BY <2>3, <2>4
<1>17. CASE Scan!Purge
  BY <1>17 DEF Scan!Purge, BudgetInv
<1>18. CASE UNCHANGED Scan!vars
  BY <1>n, <1>18, NoNewCharge DEF Scan!vars, Doomed, Straggler, Scan!jobVars
<1> QED
  BY <1>1, <1>2, <1>3, <1>4, <1>5, <1>6, <1>7, <1>8, <1>9, <1>10, <1>11, <1>12, <1>13, <1>14,
     <1>15, <1>16, <1>17, <1>18
  DEF Scan!Next, Scan!Uploading, Scan!Working, Scan!Scanning

LEMMA ScanInvariant == Scan!Spec => []ScanInv
<1>1. Scan!Init => ScanInv
  BY FileAssumption, ScanInvInit
<1>2. ScanInv /\ [Scan!Next]_(Scan!vars) => ScanInv'
  BY FileAssumption, ScanTypes, VerdictKept, OwnerKept, BudgetKept DEF ScanInv
<1> QED
  BY <1>1, <1>2, PTL DEF Scan!Spec

\* For any number of runs, failures and stalls: a row is marked clean only of content that was
\* scanned clean, and then the file is where downloads are served from, unless a purge that
\* failed has deleted it (scan.job.ts:127, download.controller.ts:126).
THEOREM CleanFilesWereScanned == Scan!Spec => []CleanIsScanned
<1>1. ScanInv => CleanIsScanned
  BY DEF ScanInv, CleanIsScanned
<1> QED
  BY <1>1, ScanInvariant, PTL

\* Whatever fails, wherever: each attempt a scan uses up has cost a failure of its own as long
\* as there is a file to scan, so that a scan that meets fewer failures than it has attempts
\* (ScanFaults bounds them all) fails for good only without a file (scan.job.ts:126).
THEOREM AttemptsOutlastFailures ==
    ASSUME ScanFaults < ScanAttempts PROVE Scan!Spec => []UsesUpAttempts
<1>1. ScanInv => UsesUpAttempts
  <2> SUFFICES ASSUME ScanInv, scanMade = ScanAttempts, stored # {} PROVE FALSE
    BY DEF UsesUpAttempts, Scan!UsesUpAttempts
  <2>1. scanMade + One(Doomed) + One(Straggler) + One(upload = "cleanup") <= scanFaults
    BY DEF ScanInv, BudgetInv
  <2>2. One(Doomed) \in 0..1 /\ One(Straggler) \in 0..1 /\ One(upload = "cleanup") \in 0..1
    BY DEF One
  <2>3. scanMade \in Nat /\ scanFaults \in 0..ScanFaults /\ ScanFaults \in Nat
    BY FileAssumption DEF ScanInv, Scan!TypeOK, Scan!ScanConstants
  <2> QED
    BY <2>1, <2>2, <2>3
<1> QED
  BY <1>1, ScanInvariant, PTL

-------------------------------------------------------------------------------
(* The versions of a policy document. *)

\* One version at most is searched, and whatever gave way to another has a newer one above it.
ServedInv ==
    /\ passages = IF deleted THEN {} ELSE Index!Active
    /\ \A a, b \in Index!Active : a = b
    /\ \A u \in Versions : state[u] = "superseded" => Index!Newer(u)

\* What a run has learnt of its version still holds when it acts on it.
IndexRunInv ==
    \A r \in FileRuns :
        /\ index[r].step # "idle" => index[r].of \in Versions /\ state[index[r].of] # "none"
        /\ Index!At(r, "supersede") => Index!Newer(index[r].of)
        /\ Index!At(r, "returned") => deleted \/ state[index[r].of] # "processing"
        /\ Index!At(r, "threw") /\ Index!LastAttempt(r) =>
               deleted \/ state[index[r].of] # "processing" \/ index[r].of \in unmarked

\* The lock of a job is held by the run that works on it, with the count it was given.
Good(v) ==
    /\ indexJob[v] # "none" => state[v] # "none"
    /\ indexJob[v] \in {"none", "queued", "active"} => tries[v] < IndexAttempts
    /\ indexOwner[v] # NoFileRun => /\ indexJob[v] = "active"
                           /\ index[indexOwner[v]].step # "idle" /\ index[indexOwner[v]].of = v
                           /\ index[indexOwner[v]].tries = tries[v]
    /\ Index!Concluded(v)

IndexJobInv == \A v \in Versions : Good(v)

IndexInv == Index!TypeOK /\ ServedInv /\ IndexRunInv /\ IndexJobInv

LEMMA IndexInvInit == ASSUME Index!PolicyConstants, Index!Init PROVE IndexInv
<1> USE DEF Index!PolicyConstants, Index!Init, Index!Idle
<1>1. Index!TypeOK
  <2>1. deleted \in BOOLEAN
    OBVIOUS
  <2> QED
    BY <2>1 DEF Index!TypeOK, Index!Sources
<1>2. ServedInv
  BY DEF ServedInv, Index!Active
<1>3. IndexRunInv /\ IndexJobInv
  BY DEF IndexRunInv, IndexJobInv, Good, Index!Concluded, Index!At
<1> QED
  BY <1>1, <1>2, <1>3 DEF IndexInv

IndexSteps == {"idle", "read", "prepare", "embed", "swap", "supersede", "fail", "error", "failLast",
          "returned", "threw"}

RunRecords == [step : IndexSteps, of : Versions \cup {0}, tries : 0..IndexAttempts,
               waits : 0..IndexWaits,
               source : Index!Sources]

\* What a step changes of a run: never its version, never the count it was given.
Goes(r, steps) ==
    /\ index' \in [FileRuns -> RunRecords] /\ \A t \in FileRuns \ {r} : index'[t] = index[t]
    /\ index'[r].of = index[r].of /\ index'[r].tries = index[r].tries /\ index'[r].step \in steps

LEMMA GoToGoes ==
    ASSUME Index!TypeOK, NEW r \in FileRuns, NEW next \in IndexSteps, Index!GoTo(r, next)
    PROVE  Goes(r, {next})
BY DEF Index!TypeOK, Index!GoTo, Goes, RunRecords, IndexSteps

\* The run goes back to its slot.
Leaves(r) == index' \in [FileRuns -> RunRecords] /\ index'[r] = Index!Idle
             /\ \A t \in FileRuns \ {r} : index'[t] = index[t]

LEMMA IdleLeaves ==
    ASSUME Index!PolicyConstants, Index!TypeOK, NEW r \in FileRuns,
           index' = [index EXCEPT ![r] = Index!Idle]
    PROVE  Leaves(r)
BY DEF Index!TypeOK, Index!PolicyConstants, Leaves, Index!Idle, RunRecords, IndexSteps, Index!Sources

\* What the document goes through: a new version, the deletion, a version closed, one activated.
Closes(v) ==
    /\ Index!Open(v) /\ UNCHANGED <<deleted, passages>>
    /\ \E how \in {"failed", "superseded"} :
          state' = [state EXCEPT ![v] = how] /\ (how = "superseded" => Index!Newer(v))
Activates(v) == Index!Open(v) /\ ~Index!Newer(v) /\ Index!Activate(v) /\ UNCHANGED deleted
Creates(v)   == /\ state[v] = "none" /\ ~deleted /\ state' = [state EXCEPT ![v] = "processing"]
                /\ UNCHANGED <<deleted, passages>>
Removes      == deleted' = TRUE /\ passages' = {} /\ UNCHANGED state

DocumentStep ==
    \/ UNCHANGED Index!documentVars
    \/ Removes
    \/ \E v \in Versions : Creates(v) \/ Closes(v) \/ Activates(v)

\* The steps of a run that go on with its version: what each does to the document and the run.
LEMMA IndexingSteps ==
    ASSUME Index!PolicyConstants, IndexInv, NEW r \in FileRuns,
           Index!Read(r) \/ Index!Embed(r) \/ Index!Swap(r) \/ Index!Supersede(r) \/ Index!Fail(r)
           \/ Index!FailLast(r) \/ Index!Catch(r) \/ Index!Throw(r)
    PROVE  /\ DocumentStep
           /\ index[r].step # "idle" /\ index[r].of \in Versions /\ state[index[r].of] # "none"
           /\ Goes(r, IndexSteps \ {"idle", "supersede"})
           /\ UNCHANGED <<source, Index!jobVars>>
           /\ indexFaults' \in 0..IndexFaults /\ unmarked \subseteq unmarked'
           /\ unmarked' \subseteq Versions
           /\ index'[r].step = "returned" => deleted' \/ state'[index[r].of] # "processing"
           /\ index'[r].step = "threw" /\ Index!LastAttempt(r) =>
                 deleted' \/ state'[index[r].of] # "processing" \/ index[r].of \in unmarked'
<1> DEFINE v == index[r].of
<1>0. Index!TypeOK
  BY DEF IndexInv
<1>1. index[r].step # "idle" /\ v \in Versions /\ state[v] # "none"
  <2>1. index[r].step # "idle"
    BY DEF Index!Read, Index!Embed, Index!Swap, Index!Supersede, Index!Fail, Index!FailLast,
           Index!Catch, Index!Throw, Index!At
  <2> QED
    BY <2>1 DEF IndexInv, IndexRunInv
<1>2. CASE Index!Read(r)
  <2>1. index' = [index EXCEPT ![r].source = source[v],
                           ![r].step = IF state[v] = "processing" /\ ~deleted
                                       THEN "prepare" ELSE "returned"]
        /\ UNCHANGED <<Index!documentVars, source, Index!jobVars, unmarked, indexFaults>>
    BY <1>2 DEF Index!Read
  <2>2. source[v] \in Index!Sources
    BY <1>0, <1>1 DEF Index!TypeOK
  <2>3. Goes(r, {"prepare", "returned"})
    BY <1>0, <2>1, <2>2, ZenonT(60) DEF Index!TypeOK, Goes, RunRecords, IndexSteps
  <2>4. index'[r].step = "returned" => deleted \/ state[v] # "processing"
    BY <1>0, <2>1 DEF Index!TypeOK
  <2>5. Goes(r, IndexSteps \ {"idle", "supersede"}) /\ index'[r].step # "threw"
    BY <2>3 DEF Goes, IndexSteps
  <2> QED
    BY <1>0, <1>1, <2>1, <2>4, <2>5 DEF DocumentStep, Index!documentVars, Index!TypeOK
<1>3. CASE Index!Embed(r)
  <2>1. Goes(r, {"swap"}) \/ Goes(r, {"fail"})
    BY <1>0, <1>3, GoToGoes DEF Index!Embed, IndexSteps
  <2>2. Goes(r, IndexSteps \ {"idle", "supersede"}) /\ index'[r].step \notin {"returned", "threw"}
    BY <2>1 DEF Goes, IndexSteps
  <2> QED
    BY <1>0, <1>1, <1>3, <2>2 DEF Index!Embed, DocumentStep, Index!TypeOK
<1>4. CASE Index!Swap(r)
  <2>1. Goes(r, {"returned"})
    BY <1>0, <1>4, GoToGoes DEF Index!Swap, IndexSteps
  <2>2. Goes(r, IndexSteps \ {"idle", "supersede"}) /\ index'[r].step = "returned"
    BY <2>1 DEF Goes, IndexSteps
  <2>3. UNCHANGED <<deleted, source, Index!jobVars, unmarked, indexFaults>>
    BY <1>4 DEF Index!Swap
  <2>4. CASE ~Index!Open(v)
    <3>1. UNCHANGED <<state, passages>>
      BY <1>4, <2>4 DEF Index!Swap
    <3> QED
      BY <1>0, <1>1, <2>2, <2>3, <2>4, <3>1
      DEF DocumentStep, Index!documentVars, Index!Open, Index!TypeOK
  <2>5. CASE Index!Open(v) /\ Index!Newer(v)
    <3>1. state' = [state EXCEPT ![v] = "superseded"] /\ UNCHANGED passages
      BY <1>4, <2>5 DEF Index!Swap
    <3>2. Closes(v)
      BY <2>3, <2>5, <3>1 DEF Closes
    <3>3. state'[v] # "processing"
      BY <1>0, <1>1, <3>1 DEF Index!TypeOK
    <3> QED
      BY <1>0, <1>1, <2>2, <2>3, <3>2, <3>3 DEF DocumentStep, Index!TypeOK
  <2>6. CASE Index!Open(v) /\ ~Index!Newer(v)
    <3>1. Index!Activate(v)
      BY <1>4, <2>6 DEF Index!Swap
    <3>2. Activates(v)
      BY <2>3, <2>6, <3>1 DEF Activates
    <3>3. state'[v] # "processing"
      BY <1>1, <3>1 DEF Index!Activate
    <3> QED
      BY <1>0, <1>1, <2>2, <2>3, <3>2, <3>3 DEF DocumentStep, Index!TypeOK
  <2> QED
    BY <2>4, <2>5, <2>6
<1>5. ASSUME NEW how \in {"superseded", "failed"}, NEW next \in {"returned", "threw"},
             how = "superseded" => Index!Newer(v), Index!Close(r, how, next)
      PROVE  /\ DocumentStep /\ Goes(r, {next})
             /\ UNCHANGED <<source, Index!jobVars, unmarked, indexFaults>>
             /\ deleted' \/ state'[v] # "processing"
  <2>1. Goes(r, {next}) /\ UNCHANGED <<deleted, passages, source, Index!jobVars, unmarked,
                                       indexFaults>>
    BY <1>0, <1>5, GoToGoes DEF Index!Close, IndexSteps
  <2>2. state' = IF Index!Open(v) THEN [state EXCEPT ![v] = how] ELSE state
    BY <1>5 DEF Index!Close
  <2>3. CASE Index!Open(v)
    <3>1. Closes(v)
      BY <1>5, <2>1, <2>2, <2>3 DEF Closes
    <3>2. state'[v] # "processing"
      BY <1>0, <1>1, <2>2, <2>3 DEF Index!TypeOK
    <3> QED
      BY <1>1, <2>1, <3>1, <3>2 DEF DocumentStep
  <2>4. CASE ~Index!Open(v)
    BY <2>1, <2>2, <2>4 DEF DocumentStep, Index!documentVars, Index!Open
  <2> QED
    BY <2>3, <2>4
<1>6. CASE Index!Supersede(r)
  <2>1. Index!Newer(v) /\ Index!Close(r, "superseded", "returned")
    BY <1>6 DEF Index!Supersede, IndexInv, IndexRunInv
  <2>2. DocumentStep /\ Goes(r, {"returned"})
        /\ UNCHANGED <<source, Index!jobVars, unmarked, indexFaults>>
        /\ (deleted' \/ state'[v] # "processing")
    BY <1>5, <2>1
  <2>3. Goes(r, IndexSteps \ {"idle", "supersede"})
    BY <2>2 DEF Goes, IndexSteps
  <2> QED
    BY <1>0, <1>1, <2>2, <2>3 DEF Index!TypeOK
<1>7. CASE Index!Fail(r) \/ Index!FailLast(r)
  <2>1. PICK next \in {"returned", "threw"} : Index!Close(r, "failed", next)
    BY <1>7 DEF Index!Fail, Index!FailLast
  <2>2. DocumentStep /\ Goes(r, {next})
        /\ UNCHANGED <<source, Index!jobVars, unmarked, indexFaults>>
        /\ (deleted' \/ state'[v] # "processing")
    BY <1>5, <2>1
  <2>3. Goes(r, IndexSteps \ {"idle", "supersede"})
    BY <2>2 DEF Goes, IndexSteps
  <2> QED
    BY <1>0, <1>1, <2>2, <2>3 DEF Index!TypeOK
<1>8. CASE Index!Catch(r)
  <2>1. UNCHANGED <<Index!documentVars, source, Index!jobVars, unmarked, indexFaults>>
    BY <1>8 DEF Index!Catch
  <2>2. CASE Index!LastAttempt(r)
    <3>1. Goes(r, {"failLast"})
      BY <1>0, <1>8, <2>2, GoToGoes DEF Index!Catch, IndexSteps
    <3>2. Goes(r, IndexSteps \ {"idle", "supersede"}) /\ index'[r].step = "failLast"
      BY <3>1 DEF Goes, IndexSteps
    <3> QED
      BY <1>0, <1>1, <2>1, <3>2 DEF Index!TypeOK, DocumentStep
  <2>3. CASE ~Index!LastAttempt(r)
    <3>1. Goes(r, {"threw"})
      BY <1>0, <1>8, <2>3, GoToGoes DEF Index!Catch, IndexSteps
    <3>2. Goes(r, IndexSteps \ {"idle", "supersede"}) /\ index'[r].step = "threw"
      BY <3>1 DEF Goes, IndexSteps
    <3> QED
      BY <1>0, <1>1, <2>1, <2>3, <3>2 DEF Index!TypeOK, DocumentStep
  <2> QED
    BY <2>2, <2>3
<1>9. CASE Index!Throw(r)
  <2>1. UNCHANGED <<Index!documentVars, source, Index!jobVars>> /\ indexFaults' \in 0..IndexFaults
    BY <1>0, <1>9 DEF Index!Throw, Index!Fault, Index!TypeOK, Index!PolicyConstants
  <2>2. CASE Index!GoTo(r, "error") /\ UNCHANGED unmarked
    <3>1. Goes(r, {"error"})
      BY <1>0, <2>2, GoToGoes DEF IndexSteps
    <3>2. Goes(r, IndexSteps \ {"idle", "supersede"}) /\ index'[r].step = "error"
      BY <3>1 DEF Goes, IndexSteps
    <3> QED
      BY <1>0, <1>1, <2>1, <2>2, <3>2 DEF Index!TypeOK, DocumentStep
  <2>3. CASE Index!GoTo(r, "threw")
             /\ unmarked' = IF Index!LastAttempt(r) THEN unmarked \cup {v} ELSE unmarked
    <3>1. Goes(r, {"threw"})
      BY <1>0, <2>3, GoToGoes DEF IndexSteps
    <3>2. Goes(r, IndexSteps \ {"idle", "supersede"}) /\ index'[r].step = "threw"
      BY <3>1 DEF Goes, IndexSteps
    <3> QED
      BY <1>0, <1>1, <2>1, <2>3, <3>2 DEF Index!TypeOK, DocumentStep
  <2> QED
    BY <1>9, <2>2, <2>3 DEF Index!Throw
<1> QED
  BY <1>2, <1>3, <1>4, <1>6, <1>7, <1>8, <1>9

LEMMA PrepareSteps ==
    ASSUME Index!PolicyConstants, IndexInv, NEW r \in FileRuns, Index!Prepare(r)
    PROVE  LET v == index[r].of IN
           /\ index[r].step # "idle" /\ v \in Versions /\ state[v] # "none"
           /\ UNCHANGED <<Index!documentVars, source, tries, indexStalls, unmarked, indexFaults>>
           /\ polls' \in [Versions -> 0..IndexWaits]
           /\ \/ /\ Goes(r, {"supersede", "fail", "embed", "error"})
                 /\ UNCHANGED <<indexJob, indexOwner>>
                 /\ index'[r].step = "supersede" => Index!Newer(v)
              \/ /\ Leaves(r) /\ indexOwner[v] = r
                 /\ indexJob' = [indexJob EXCEPT ![v] = "queued"]
                 /\ indexOwner' = [indexOwner EXCEPT ![v] = NoFileRun]
<1> DEFINE v == index[r].of
<1>0. Index!TypeOK
  BY DEF IndexInv
<1>1. index[r].step # "idle" /\ v \in Versions /\ state[v] # "none"
  BY DEF Index!Prepare, Index!At, IndexInv, IndexRunInv
<1>2. UNCHANGED <<Index!documentVars, source, unmarked, indexFaults>>
  BY DEF Index!Prepare
<1>3. ASSUME NEW next \in {"supersede", "fail", "embed"}, Index!Prepared(r, next)
      PROVE  Goes(r, {next})
  <2>1. 0 \in 0..IndexWaits /\ "none" \in Index!Sources
    BY DEF Index!Sources, Index!PolicyConstants
  <2>2. index \in [FileRuns -> RunRecords] /\ next \in IndexSteps
    BY <1>0 DEF Index!TypeOK, RunRecords, IndexSteps
  <2>3. index' = [index EXCEPT ![r] = [index[r] EXCEPT !.step = next, !.source = "none",
                                                           !.waits = 0]]
    BY <1>3, <2>2 DEF Index!Prepared
  <2>4. [index[r] EXCEPT !.step = next, !.source = "none", !.waits = 0] \in RunRecords
    BY <2>1, <2>2 DEF RunRecords
  <2> QED
    BY <2>2, <2>3, <2>4 DEF Goes, RunRecords
<1>4. CASE Index!Newer(v) /\ Index!Prepared(r, "supersede") /\ UNCHANGED Index!jobVars
  <2>1. Goes(r, {"supersede"})
    BY <1>3, <1>4
  <2>2. Goes(r, {"supersede", "fail", "embed", "error"})
    BY <2>1 DEF Goes
  <2> QED
    BY <1>0, <1>1, <1>2, <1>4, <2>2 DEF Index!jobVars, Index!TypeOK
<1>5. ASSUME NEW next \in {"fail", "embed"}, Index!Prepared(r, next), UNCHANGED Index!jobVars
      PROVE  /\ Goes(r, {"supersede", "fail", "embed", "error"}) /\ index'[r].step # "supersede"
             /\ UNCHANGED <<indexJob, indexOwner, tries, indexStalls>>
             /\ polls' \in [Versions -> 0..IndexWaits]
  <2>1. Goes(r, {next})
    BY <1>3, <1>5
  <2> QED
    BY <1>0, <1>5, <2>1 DEF Index!jobVars, Index!TypeOK, Goes
<1>6. CASE index[r].waits < IndexWaits /\ Index!Delay(r)
  <2>1. polls' = [polls EXCEPT ![v] = index[r].waits + 1] /\ UNCHANGED <<tries, indexStalls>>
    BY <1>6 DEF Index!Delay
  <2>2. polls' \in [Versions -> 0..IndexWaits]
    <3>1. index[r].waits + 1 \in 0..IndexWaits
      BY <1>0, <1>6 DEF Index!TypeOK, Index!PolicyConstants
    <3> QED
      BY <1>0, <2>1, <3>1 DEF Index!TypeOK
  <2>3. CASE indexOwner[v] = r
    <3>1. Leaves(r)
      BY <1>0, <1>6, <2>3, IdleLeaves DEF Index!Delay
    <3> QED
      BY <1>1, <1>2, <1>6, <2>1, <2>2, <2>3, <3>1 DEF Index!Delay
  <2>4. CASE indexOwner[v] # r
    <3>1. Goes(r, {"error"}) /\ UNCHANGED <<indexJob, indexOwner>>
      BY <1>0, <1>6, <2>4, GoToGoes DEF Index!Delay, IndexSteps
    <3>2. Goes(r, {"supersede", "fail", "embed", "error"}) /\ index'[r].step # "supersede"
      BY <3>1 DEF Goes
    <3> QED
      BY <1>1, <1>2, <2>1, <2>2, <3>1, <3>2
  <2> QED
    BY <2>3, <2>4
<1> QED
  BY <1>1, <1>2, <1>4, <1>5, <1>6 DEF Index!Prepare

LEMMA IndexTypes ==
    ASSUME Index!PolicyConstants, IndexInv, [Index!Next]_(Index!vars)
    PROVE  Index!TypeOK'
<1> USE DEF Index!PolicyConstants
<1>0. Index!TypeOK
  BY DEF IndexInv
<1>1. ASSUME NEW v \in Versions, Index!CreateVersion(v) \/ Index!Enqueue(v) \/ Index!ScanEnds(v)
      PROVE  Index!TypeOK'
  <2>1. CASE Index!CreateVersion(v) \/ Index!ScanEnds(v)
    <3>1. source' \in [Versions -> Index!Sources]
      BY <1>0, <2>1 DEF Index!CreateVersion, Index!ScanEnds, Index!TypeOK, Index!Sources
    <3> QED
      BY <1>0, <2>1, <3>1 DEF Index!CreateVersion, Index!ScanEnds, Index!jobVars, Index!TypeOK
  <2>2. CASE Index!Enqueue(v)
    BY <1>0, <2>2 DEF Index!Enqueue, Index!TypeOK
  <2> QED
    BY <1>1, <2>1, <2>2
<1>2. CASE Index!RemoveDocument
  <2>1. deleted' = TRUE
    BY <1>2 DEF Index!RemoveDocument
  <2>2. deleted' \in BOOLEAN
    BY <2>1
  <2>3. passages' = {}
        /\ UNCHANGED <<state, source, indexJob, tries, indexStalls, polls, indexOwner, index,
                       unmarked, indexFaults>>
    BY <1>2 DEF Index!RemoveDocument, Index!jobVars
  <2> QED
    BY <1>0, <2>2, <2>3 DEF Index!TypeOK
<1>3. ASSUME NEW v \in Versions, Index!Stall(v) PROVE Index!TypeOK'
  <2>1. indexFaults' \in 0..IndexFaults
    BY <1>0, <1>3 DEF Index!Stall, Index!Fault, Index!TypeOK
  <2>2. indexStalls' \in [Versions -> 0..IndexStalls]
    <3>1. indexStalls[v] < IndexStalls => indexStalls[v] + 1 \in 0..IndexStalls
      BY <1>0 DEF Index!TypeOK
    <3> QED
      BY <1>0, <1>3, <3>1 DEF Index!Stall, Index!TypeOK
  <2> QED
    BY <1>0, <1>3, <2>1, <2>2 DEF Index!Stall, Index!documentVars, Index!TypeOK
<1>4. ASSUME NEW r \in FileRuns, Index!Take(r) PROVE Index!TypeOK'
  <2>1. PICK v \in Versions :
            /\ indexJob' = [indexJob EXCEPT ![v] = "active"]
            /\ indexOwner' = [indexOwner EXCEPT ![v] = r]
            /\ index' = [index EXCEPT ![r] = [step |-> "read", of |-> v, tries |-> tries[v],
                                          waits |-> polls[v], source |-> "none"]]
    BY <1>4 DEF Index!Take
  <2>2. index' \in [FileRuns -> RunRecords]
    BY <1>0, <2>1 DEF Index!TypeOK, Index!Sources, IndexSteps, RunRecords
  <2> QED
    BY <1>0, <1>4, <2>1, <2>2 DEF Index!Take, Index!documentVars, Index!TypeOK, IndexSteps, RunRecords
<1>5. ASSUME DocumentStep
      PROVE  /\ deleted' \in BOOLEAN
             /\ state' \in [Versions -> {"none", "processing", "active", "failed", "superseded"}]
             /\ passages' \subseteq Versions
  <2>1. deleted' = deleted \/ deleted' = TRUE
    BY <1>5 DEF DocumentStep, Removes, Creates, Closes, Activates, Index!documentVars
  <2>2. deleted' \in BOOLEAN
    <3>1. CASE deleted' = TRUE
      BY <3>1
    <3>2. CASE deleted' = deleted
      BY <1>0, <3>2 DEF Index!TypeOK
    <3> QED
      BY <2>1, <3>1, <3>2
  <2>3. CASE UNCHANGED Index!documentVars \/ Removes
    BY <1>0, <2>2, <2>3 DEF Removes, Index!documentVars, Index!TypeOK
  <2>4. ASSUME NEW v \in Versions, Creates(v) \/ Closes(v)
        PROVE  /\ state' \in [Versions -> {"none", "processing", "active", "failed", "superseded"}]
               /\ passages' \subseteq Versions
    BY <1>0, <2>4 DEF Creates, Closes, Index!TypeOK
  <2>5. ASSUME NEW v \in Versions, Activates(v)
        PROVE  /\ state' \in [Versions -> {"none", "processing", "active", "failed", "superseded"}]
               /\ passages' \subseteq Versions
    BY <1>0, <2>5 DEF Activates, Index!Activate, Index!TypeOK
  <2> QED
    BY <1>5, <2>2, <2>3, <2>4, <2>5 DEF DocumentStep
<1>6. ASSUME NEW r \in FileRuns,
             Index!Read(r) \/ Index!Embed(r) \/ Index!Swap(r) \/ Index!Supersede(r)
             \/ Index!Fail(r) \/ Index!FailLast(r) \/ Index!Catch(r) \/ Index!Throw(r)
      PROVE  Index!TypeOK'
  <2>1. /\ DocumentStep /\ index' \in [FileRuns -> RunRecords]
        /\ UNCHANGED <<source, Index!jobVars>>
        /\ indexFaults' \in 0..IndexFaults /\ unmarked' \subseteq Versions
    BY <1>6, IndexingSteps DEF Goes
  <2> QED
    BY <1>0, <1>5, <2>1 DEF Index!TypeOK, Index!jobVars, RunRecords, IndexSteps
<1>7. ASSUME NEW r \in FileRuns, Index!Prepare(r) PROVE Index!TypeOK'
  <2>1. /\ UNCHANGED <<Index!documentVars, source, tries, indexStalls, unmarked, indexFaults>>
        /\ polls' \in [Versions -> 0..IndexWaits] /\ index' \in [FileRuns -> RunRecords]
        /\ \/ UNCHANGED <<indexJob, indexOwner>>
           \/ /\ indexJob' = [indexJob EXCEPT ![index[r].of] = "queued"]
              /\ indexOwner' = [indexOwner EXCEPT ![index[r].of] = NoFileRun]
    BY <1>7, PrepareSteps DEF Goes, Leaves
  <2> QED
    BY <1>0, <2>1 DEF Index!documentVars, Index!TypeOK, RunRecords, IndexSteps
<1>8. ASSUME NEW r \in FileRuns, Index!End(r) PROVE Index!TypeOK'
  <2>1. index' \in [FileRuns -> RunRecords]
    BY <1>0, <1>8, IdleLeaves DEF Index!End, Leaves
  <2>2. UNCHANGED <<Index!documentVars, source, unmarked, indexFaults>>
    BY <1>8 DEF Index!End
  <2>3. CASE indexOwner[index[r].of] # r
    BY <1>0, <1>8, <2>1, <2>2, <2>3
    DEF Index!End, Index!documentVars, Index!jobVars, Index!TypeOK, RunRecords, IndexSteps
  <2>4. CASE indexOwner[index[r].of] = r
    <3>1. index[r].of \in Versions
      BY <1>8 DEF Index!End, IndexInv, IndexRunInv
    <3>2. tries[index[r].of] + 1 \in 0..IndexAttempts
      <4>0. Good(index[r].of)
        BY <3>1 DEF IndexInv, IndexJobInv
      <4>1. tries[index[r].of] < IndexAttempts
        BY <2>4, <4>0 DEF Good
      <4>2. tries[index[r].of] \in 0..IndexAttempts
        BY <1>0, <3>1 DEF Index!TypeOK
      <4> QED
        BY <4>1, <4>2
    <3>3. tries' \in [Versions -> 0..IndexAttempts]
      BY <1>0, <1>8, <2>4, <3>1, <3>2 DEF Index!End, Index!TypeOK
    <3>4. indexJob' \in [Versions -> {"none", "queued", "active", "done", "failed"}]
      BY <1>0, <1>8, <2>4, <3>1 DEF Index!End, Index!TypeOK
    <3>5. indexOwner' \in [Versions -> FileRuns \cup {NoFileRun}] /\ UNCHANGED <<indexStalls, polls>>
      BY <1>0, <1>8, <2>4, <3>1 DEF Index!End, Index!TypeOK
    <3> QED
      BY <1>0, <2>1, <2>2, <3>3, <3>4, <3>5
      DEF Index!documentVars, Index!TypeOK, RunRecords, IndexSteps
  <2> QED
    BY <2>3, <2>4
<1>9. ASSUME NEW r \in FileRuns, Index!Crash(r) PROVE Index!TypeOK'
  <2>1. index' \in [FileRuns -> RunRecords]
    BY <1>0, <1>9, IdleLeaves DEF Index!Crash, Leaves
  <2>2. indexOwner' \in [Versions -> FileRuns \cup {NoFileRun}]
    BY <1>0, <1>9 DEF Index!Crash, Index!TypeOK
  <2>3. indexFaults' \in 0..IndexFaults
    BY <1>0, <1>9 DEF Index!Crash, Index!Fault, Index!TypeOK
  <2>4. UNCHANGED <<deleted, state, passages, source, indexJob, tries, indexStalls, polls,
                    unmarked>>
    BY <1>9 DEF Index!Crash, Index!documentVars
  <2> QED
    BY <1>0, <2>1, <2>2, <2>3, <2>4 DEF Index!TypeOK, RunRecords, IndexSteps
<1>10. CASE UNCHANGED Index!vars
  BY <1>0, <1>10 DEF Index!vars, Index!jobVars, Index!TypeOK
<1> QED
  BY <1>1, <1>2, <1>3, <1>4, <1>6, <1>7, <1>8, <1>9, <1>10 DEF Index!Next, Index!Indexing

LEMMA DocumentSteps ==
    ASSUME Index!PolicyConstants, IndexInv, [Index!Next]_(Index!vars)
    PROVE  DocumentStep
<1>1. ASSUME NEW v \in Versions,
             Index!CreateVersion(v) \/ Index!Enqueue(v) \/ Index!ScanEnds(v) \/ Index!Stall(v)
      PROVE  DocumentStep
  BY <1>1 DEF Index!CreateVersion, Index!Enqueue, Index!ScanEnds, Index!Stall, DocumentStep,
              Creates, Index!documentVars
<1>2. CASE Index!RemoveDocument
  BY <1>2 DEF Index!RemoveDocument, DocumentStep, Removes
<1>3. ASSUME NEW r \in FileRuns, Index!Take(r) \/ Index!End(r) \/ Index!Crash(r) PROVE DocumentStep
  BY <1>3 DEF Index!Take, Index!End, Index!Crash, DocumentStep
<1>4. ASSUME NEW r \in FileRuns, Index!Prepare(r) PROVE DocumentStep
  BY <1>4 DEF Index!Prepare, DocumentStep
<1>5. CASE UNCHANGED Index!vars
  BY <1>5 DEF Index!vars, DocumentStep, Index!documentVars
<1> QED
  BY <1>1, <1>2, <1>3, <1>4, <1>5, IndexingSteps DEF Index!Next, Index!Indexing

\* What a step of the document keeps: the newest good version is served, and what was found
\* of a version holds from then on.
LEMMA ServedKept ==
    ASSUME Index!PolicyConstants, IndexInv, DocumentStep
    PROVE  /\ ServedInv'
           /\ \A v \in Versions : Index!Newer(v) => (Index!Newer(v))'
           /\ \A v \in Versions : state[v] # "none" => state'[v] # "none"
           /\ \A v \in Versions : state[v] # "none" /\ (deleted \/ state[v] # "processing") =>
                                      deleted' \/ state'[v] # "processing"
<1> DEFINE Kept ==
      /\ ServedInv'
      /\ \A v \in Versions : Index!Newer(v) => (Index!Newer(v))'
      /\ \A v \in Versions : state[v] # "none" => state'[v] # "none"
      /\ \A v \in Versions : state[v] # "none" /\ (deleted \/ state[v] # "processing") =>
                                 deleted' \/ state'[v] # "processing"
<1>0. Index!TypeOK /\ ServedInv
  BY DEF IndexInv
<1>1. CASE UNCHANGED Index!documentVars
  BY <1>0, <1>1 DEF Index!documentVars, ServedInv, Index!Newer, Index!Active
<1>2. CASE Removes
  BY <1>0, <1>2 DEF Removes, ServedInv, Index!Newer, Index!Active
<1>3. ASSUME NEW v \in Versions, Creates(v) \/ Closes(v) PROVE Kept
  <2>1. /\ ~deleted /\ state[v] \in {"none", "processing"} /\ UNCHANGED <<deleted, passages>>
        /\ \E s \in {"processing", "failed", "superseded"} :
              state' = [state EXCEPT ![v] = s] /\ (s = "superseded" => Index!Newer(v))
                       /\ (state[v] # "none" => s # "processing")
    BY <1>3 DEF Creates, Closes, Index!Open
  <2>2. Index!Active' = Index!Active
    BY <1>0, <2>1 DEF Index!Active, Index!TypeOK
  <2>3. \A w \in Versions : (Index!Newer(w))' <=> Index!Newer(w)
    BY <2>2 DEF Index!Newer
  <2>4. ServedInv'
    <3>1. \A u \in Versions : state'[u] = "superseded" => Index!Newer(u)
      BY <1>0, <2>1 DEF ServedInv, Index!TypeOK
    <3> QED
      BY <1>0, <2>1, <2>2, <2>3, <3>1 DEF ServedInv
  <2> QED
    BY <1>0, <2>1, <2>3, <2>4 DEF Index!TypeOK
<1>4. ASSUME NEW v \in Versions, Activates(v) PROVE Kept
  <2>1. /\ ~deleted /\ deleted' = deleted /\ state[v] = "processing" /\ passages' = {v}
        /\ state' = [w \in Versions |-> IF w = v THEN "active"
                                        ELSE IF w \in Index!Active THEN "superseded" ELSE state[w]]
    BY <1>4 DEF Activates, Index!Activate, Index!Open
  <2>2. Index!Active' = {v}
    BY <2>1 DEF Index!Active
  <2>3. \A a \in Index!Active : a < v
    <3>1. \A a \in Index!Active : ~(a > v) /\ a # v /\ a \in Nat /\ v \in Nat
      BY <1>4, <2>1 DEF Activates, Index!Newer, Index!Active, Index!PolicyConstants
    <3> QED
      BY <3>1
  <2>4. \A w \in Versions : Index!Newer(w) => v > w
    BY <2>3 DEF Index!Newer, Index!Active, Index!PolicyConstants
  <2>5. \A w \in Versions : v > w => (Index!Newer(w))'
    BY <2>2 DEF Index!Newer
  <2>6. \A u \in Versions : state'[u] = "superseded" => v > u
    BY <1>0, <2>1, <2>3, <2>4 DEF ServedInv, Index!PolicyConstants
  <2>7. ServedInv'
    BY <2>1, <2>2, <2>5, <2>6 DEF ServedInv
  <2> QED
    BY <1>0, <2>1, <2>4, <2>5, <2>7 DEF Index!TypeOK
<1> QED
  BY <1>1, <1>2, <1>3, <1>4 DEF DocumentStep

LEMMA IndexRunKept ==
    ASSUME Index!PolicyConstants, IndexInv, [Index!Next]_(Index!vars)
    PROVE  IndexRunInv'
<1>0. Index!TypeOK /\ DocumentStep /\ IndexRunInv
  BY DocumentSteps DEF IndexInv
<1>1. /\ \A v \in Versions : Index!Newer(v) => (Index!Newer(v))'
      /\ \A v \in Versions : state[v] # "none" => state'[v] # "none"
      /\ \A v \in Versions : state[v] # "none" /\ (deleted \/ state[v] # "processing") =>
                                 deleted' \/ state'[v] # "processing"
  BY <1>0, ServedKept
<1>2. ASSUME NEW t \in FileRuns, index'[t] = index[t], unmarked \subseteq unmarked'
      PROVE  /\ index'[t].step # "idle" =>
                    index'[t].of \in Versions /\ state'[index'[t].of] # "none"
             /\ (Index!At(t, "supersede"))' => (Index!Newer(index[t].of))'
             /\ (Index!At(t, "returned"))' => deleted' \/ state'[index'[t].of] # "processing"
             /\ (Index!At(t, "threw"))' /\ (Index!LastAttempt(t))' =>
                    deleted' \/ state'[index'[t].of] # "processing" \/ index'[t].of \in unmarked'
  <2>1. CASE index[t].step = "idle"
    BY <1>2, <2>1 DEF Index!At
  <2>2. CASE index[t].step # "idle"
    <3>1. index[t].of \in Versions /\ state[index[t].of] # "none"
      BY <1>0, <2>2 DEF IndexRunInv
    <3> QED
      BY <1>0, <1>1, <1>2, <3>1 DEF IndexRunInv, Index!At, Index!LastAttempt
  <2> QED
    BY <2>1, <2>2
<1>3. ASSUME UNCHANGED index, unmarked \subseteq unmarked' PROVE IndexRunInv'
  BY <1>2, <1>3 DEF IndexRunInv
<1>4. ASSUME NEW r \in FileRuns, \A t \in FileRuns \ {r} : index'[t] = index[t],
             unmarked \subseteq unmarked',
             /\ index'[r].step # "idle" =>
                   index'[r].of \in Versions /\ state'[index'[r].of] # "none"
             /\ (Index!At(r, "supersede"))' => (Index!Newer(index[r].of))'
             /\ (Index!At(r, "returned"))' => deleted' \/ state'[index'[r].of] # "processing"
             /\ (Index!At(r, "threw"))' /\ (Index!LastAttempt(r))' =>
                    deleted' \/ state'[index'[r].of] # "processing" \/ index'[r].of \in unmarked'
      PROVE  IndexRunInv'
  BY <1>2, <1>4 DEF IndexRunInv
<1>5. ASSUME NEW v \in Versions,
             Index!CreateVersion(v) \/ Index!Enqueue(v) \/ Index!ScanEnds(v) \/ Index!Stall(v)
      PROVE  IndexRunInv'
  BY <1>3, <1>5 DEF Index!CreateVersion, Index!Enqueue, Index!ScanEnds, Index!Stall
<1>6. CASE Index!RemoveDocument \/ UNCHANGED Index!vars
  BY <1>3, <1>6 DEF Index!RemoveDocument, Index!vars
<1>7. ASSUME NEW r \in FileRuns, Index!Take(r) PROVE IndexRunInv'
  <2>1. PICK v \in Versions :
            /\ indexJob[v] = "queued"
            /\ index' = [index EXCEPT ![r] = [step |-> "read", of |-> v, tries |-> tries[v],
                                          waits |-> polls[v], source |-> "none"]]
    BY <1>7 DEF Index!Take
  <2>2. index'[r].step = "read" /\ index'[r].of = v
        /\ \A t \in FileRuns \ {r} : index'[t] = index[t]
    BY <1>0, <2>1 DEF Index!TypeOK
  <2>3. state[v] # "none"
    BY <2>1 DEF IndexInv, IndexJobInv, Good
  <2>4. unmarked' = unmarked
    BY <1>7 DEF Index!Take
  <2> QED
    BY <1>1, <1>4, <2>2, <2>3, <2>4 DEF Index!At
<1>8. ASSUME NEW r \in FileRuns, Index!End(r) \/ Index!Crash(r) PROVE IndexRunInv'
  <2>1. Leaves(r) /\ unmarked' = unmarked
    BY <1>0, <1>8, IdleLeaves DEF Index!End, Index!Crash
  <2> QED
    BY <1>4, <2>1 DEF Leaves, Index!Idle, Index!At
<1>9. ASSUME NEW r \in FileRuns, Index!Prepare(r) PROVE IndexRunInv'
  <2>1. /\ index[r].of \in Versions /\ state[index[r].of] # "none" /\ unmarked' = unmarked
        /\ \/ /\ Goes(r, {"supersede", "fail", "embed", "error"})
              /\ index'[r].step = "supersede" => Index!Newer(index[r].of)
           \/ Leaves(r)
    BY <1>9, PrepareSteps
  <2>2. CASE Leaves(r)
    BY <1>4, <2>1, <2>2 DEF Leaves, Index!Idle, Index!At
  <2>3. CASE /\ Goes(r, {"supersede", "fail", "embed", "error"})
             /\ index'[r].step = "supersede" => Index!Newer(index[r].of)
    BY <1>1, <1>4, <2>1, <2>3 DEF Goes, Index!At
  <2> QED
    BY <2>1, <2>2, <2>3
<1>10. ASSUME NEW r \in FileRuns,
              Index!Read(r) \/ Index!Embed(r) \/ Index!Swap(r) \/ Index!Supersede(r)
              \/ Index!Fail(r) \/ Index!FailLast(r) \/ Index!Catch(r) \/ Index!Throw(r)
       PROVE  IndexRunInv'
  <2>1. /\ index[r].of \in Versions /\ state[index[r].of] # "none"
        /\ Goes(r, IndexSteps \ {"idle", "supersede"}) /\ unmarked \subseteq unmarked'
        /\ index'[r].step = "returned" => deleted' \/ state'[index[r].of] # "processing"
        /\ index'[r].step = "threw" /\ Index!LastAttempt(r) =>
              deleted' \/ state'[index[r].of] # "processing" \/ index[r].of \in unmarked'
    BY <1>10, IndexingSteps
  <2>2. (Index!LastAttempt(r))' => Index!LastAttempt(r)
    BY <2>1 DEF Goes, Index!LastAttempt
  <2> QED
    BY <1>1, <1>4, <2>1, <2>2 DEF Goes, Index!At
<1> QED
  BY <1>5, <1>6, <1>7, <1>8, <1>9, <1>10 DEF Index!Next, Index!Indexing

LEMMA IndexJobKept ==
    ASSUME Index!PolicyConstants, IndexInv, [Index!Next]_(Index!vars)
    PROVE  IndexJobInv'
<1> USE DEF Index!PolicyConstants
<1>0. Index!TypeOK /\ DocumentStep /\ IndexRunInv /\ IndexJobInv
  BY DocumentSteps DEF IndexInv
<1>1. /\ \A v \in Versions : state[v] # "none" => state'[v] # "none"
      /\ \A v \in Versions : state[v] # "none" /\ (deleted \/ state[v] # "processing") =>
                                 deleted' \/ state'[v] # "processing"
  BY <1>0, ServedKept
<1>2. \A v \in Versions : Good(v)
  BY <1>0 DEF IndexJobInv, Good
<1>3. ASSUME NEW v \in Versions, indexJob'[v] = indexJob[v], tries'[v] = tries[v],
             unmarked \subseteq unmarked',
             \/ indexOwner'[v] = NoFileRun
             \/ indexOwner'[v] = indexOwner[v] /\ index'[indexOwner[v]] = index[indexOwner[v]]
             \/ /\ indexOwner'[v] = indexOwner[v] /\ index'[indexOwner[v]].step # "idle"
                /\ index'[indexOwner[v]].of = index[indexOwner[v]].of
                /\ index'[indexOwner[v]].tries = index[indexOwner[v]].tries
      PROVE  Good(v)'
  <2>1. Good(v)
    BY <1>2
  <2>2. (Index!Concluded(v))'
    BY <1>1, <1>3, <2>1 DEF Good, Index!Concluded
  <2> QED
    BY <1>1, <1>3, <2>1, <2>2 DEF Good
<1>4. ASSUME UNCHANGED <<indexJob, tries, indexOwner, index>>, unmarked \subseteq unmarked'
      PROVE  \A v \in Versions : Good(v)'
  BY <1>3, <1>4
<1>5. ASSUME NEW v \in Versions, Index!CreateVersion(v) \/ Index!ScanEnds(v)
      PROVE  \A w \in Versions : Good(w)'
  BY <1>4, <1>5 DEF Index!CreateVersion, Index!ScanEnds, Index!jobVars
<1>6. ASSUME Index!RemoveDocument \/ UNCHANGED Index!vars PROVE \A w \in Versions : Good(w)'
  <2>1. UNCHANGED <<indexJob, tries, indexOwner, index, unmarked>>
    BY <1>6 DEF Index!RemoveDocument, Index!vars, Index!jobVars
  <2>2. unmarked \subseteq unmarked'
    BY <2>1
  <2> QED
    BY <1>4, <2>1, <2>2
<1>7. ASSUME NEW v \in Versions, Index!Enqueue(v) PROVE \A w \in Versions : Good(w)'
  <2>1. \A w \in Versions \ {v} : Good(w)'
    BY <1>0, <1>3, <1>7 DEF Index!Enqueue, Index!TypeOK
  <2>2. Good(v)
    BY <1>2
  <2>3. Good(v)'
    BY <1>0, <1>7, <2>2 DEF Index!Enqueue, Index!TypeOK, Index!Concluded, Good
  <2> QED
    BY <2>1, <2>3
<1>8. ASSUME NEW v \in Versions, Index!Stall(v) PROVE \A w \in Versions : Good(w)'
  <2>0. UNCHANGED <<Index!documentVars, tries, index>>
        /\ unmarked \subseteq unmarked' /\ indexOwner'[v] = NoFileRun
        /\ indexJob[v] = "active"
        /\ (indexJob'[v] = "queued" \/ (indexJob'[v] = "failed" /\ v \in unmarked'))
    BY <1>0, <1>8 DEF Index!Stall, Index!TypeOK
  <2>1. \A w \in Versions \ {v} : Good(w)'
    BY <1>0, <1>3, <1>8, <2>0 DEF Index!Stall, Index!TypeOK
  <2>2. Good(v)
    BY <1>2
  <2>3. Good(v)'
    BY <1>1, <2>0, <2>2 DEF Index!Concluded, Good
  <2> QED
    BY <2>1, <2>3
<1>9. ASSUME NEW r \in FileRuns, Index!Take(r) PROVE \A w \in Versions : Good(w)'
  <2>1. PICK v \in Versions :
            /\ indexJob[v] = "queued" /\ indexJob' = [indexJob EXCEPT ![v] = "active"]
            /\ indexOwner' = [indexOwner EXCEPT ![v] = r]
            /\ index' = [index EXCEPT ![r] = [step |-> "read", of |-> v, tries |-> tries[v],
                                          waits |-> polls[v], source |-> "none"]]
    BY <1>9 DEF Index!Take
  <2>2. UNCHANGED <<Index!documentVars, tries, unmarked>> /\ index[r].step = "idle"
    BY <1>9 DEF Index!Take, Index!At
  <2>3. ASSUME NEW w \in Versions \ {v} PROVE Good(w)'
    <3>0. Good(w)
      BY <1>0 DEF IndexJobInv
    <3>1. indexOwner[w] # r
      BY <2>2, <3>0 DEF Good
    <3>2. index'[indexOwner[w]] = index[indexOwner[w]] \/ indexOwner[w] = NoFileRun
      BY <1>0, <2>1, <3>1 DEF Index!TypeOK
    <3> QED
      BY <1>0, <1>3, <2>1, <2>2, <3>2 DEF Index!TypeOK
  <2>4. Good(v)'
    <3>1. Good(v)
      BY <1>2
    <3>2. /\ indexOwner'[v] = r /\ indexJob'[v] = "active" /\ index'[r].step = "read"
          /\ index'[r].of = v
          /\ index'[r].tries = tries[v]
      BY <1>0, <2>1 DEF Index!TypeOK
    <3> QED
      BY <1>1, <2>1, <2>2, <3>1, <3>2 DEF Good, Index!Concluded
  <2> QED
    BY <2>3, <2>4
<1>10. ASSUME NEW r \in FileRuns, Index!End(r) PROVE \A w \in Versions : Good(w)'
  <2>1. Leaves(r) /\ UNCHANGED <<Index!documentVars, unmarked>>
    BY <1>0, <1>10, IdleLeaves DEF Index!End
  <2>2. index[r].step \in {"returned", "threw"} /\ index[r].of \in Versions
    BY <1>0, <1>10 DEF Index!End, IndexRunInv
  <2>3. ASSUME NEW w \in Versions, w # index[r].of PROVE Good(w)'
    <3>1. indexOwner[w] # r
      BY <1>0, <2>3 DEF IndexJobInv, Good
    <3>2. indexOwner'[w] = indexOwner[w] /\ indexJob'[w] = indexJob[w] /\ tries'[w] = tries[w]
      BY <1>0, <1>10, <2>3 DEF Index!End, Index!jobVars, Index!TypeOK
    <3>3. index'[indexOwner[w]] = index[indexOwner[w]] \/ indexOwner[w] = NoFileRun
      BY <1>0, <2>1, <3>1 DEF Index!TypeOK, Leaves
    <3> QED
      BY <1>3, <2>1, <3>2, <3>3
  <2>4. ASSUME NEW v \in Versions, v = index[r].of PROVE Good(v)'
    <3>0. Good(v)
      BY <1>2
    <3>1. CASE indexOwner[v] # r
      <4>1. indexOwner'[v] = indexOwner[v] /\ indexJob'[v] = indexJob[v] /\ tries'[v] = tries[v]
        BY <1>10, <2>4, <3>1 DEF Index!End, Index!jobVars
      <4>2. index'[indexOwner[v]] = index[indexOwner[v]] \/ indexOwner[v] = NoFileRun
        BY <1>0, <2>1, <2>2, <2>4, <3>1 DEF Index!TypeOK, Leaves
      <4> QED
        BY <1>3, <2>1, <2>2, <2>4, <4>1, <4>2
    <3>2. CASE indexOwner[v] = r /\ index[r].step = "returned"
      <4>1. indexOwner'[v] = NoFileRun /\ indexJob'[v] = "done" /\ tries'[v] = tries[v]
        BY <1>0, <1>10, <2>2, <2>4, <3>2 DEF Index!End, Index!TypeOK, Index!At
      <4>2. deleted \/ state[v] # "processing"
        BY <1>0, <2>4, <3>2 DEF IndexRunInv, Index!At
      <4>3. state[v] # "none"
        BY <1>0, <2>2, <2>4 DEF IndexRunInv
      <4> QED
        BY <1>1, <2>2, <2>4, <4>1, <4>2, <4>3 DEF Good, Index!Concluded
    <3>3. CASE indexOwner[v] = r /\ index[r].step = "threw"
      <4>1. /\ indexOwner'[v] = NoFileRun /\ tries'[v] = tries[v] + 1
            /\ indexJob'[v] = IF Index!LastAttempt(r) THEN "failed" ELSE "queued"
        BY <1>0, <1>10, <2>2, <2>4, <3>3 DEF Index!End, Index!TypeOK, Index!At
      <4>2. Index!LastAttempt(r) => deleted \/ state[v] # "processing" \/ v \in unmarked
        BY <1>0, <2>4, <3>3 DEF IndexRunInv, Index!At
      <4>3. state[v] # "none" /\ r # NoFileRun
        BY <1>0, <2>2, <2>4 DEF IndexRunInv
      <4>4. ~Index!LastAttempt(r) => tries[v] + 1 < IndexAttempts
        <5>1. index[r].tries = tries[v] /\ tries[v] \in Nat
          BY <1>0, <2>2, <2>4, <3>3, <4>3 DEF IndexJobInv, Good, Index!TypeOK
        <5> QED
          BY <5>1 DEF Index!LastAttempt
      <4> QED
        BY <1>1, <2>1, <2>2, <2>4, <4>1, <4>2, <4>3, <4>4 DEF Good, Index!Concluded
    <3> QED
      BY <2>2, <2>4, <3>1, <3>2, <3>3
  <2> QED
    BY <2>2, <2>3, <2>4
<1>11. ASSUME NEW r \in FileRuns, Index!Crash(r) PROVE \A w \in Versions : Good(w)'
  <2>1. Leaves(r) /\ UNCHANGED <<indexJob, tries, unmarked>>
    BY <1>0, <1>11, IdleLeaves DEF Index!Crash
  <2>2. ASSUME NEW w \in Versions PROVE Good(w)'
    <3>1. indexOwner'[w] = IF indexOwner[w] = r THEN NoFileRun ELSE indexOwner[w]
      BY <1>11 DEF Index!Crash
    <3>2. indexOwner[w] # r /\ indexOwner[w] # NoFileRun => index'[indexOwner[w]] = index[indexOwner[w]]
      BY <1>0, <2>1 DEF Index!TypeOK, Leaves
    <3> QED
      BY <1>3, <2>1, <3>1, <3>2
  <2> QED
    BY <2>2
<1>12. ASSUME NEW r \in FileRuns, index[r].step # "idle", Goes(r, IndexSteps \ {"idle"}),
              UNCHANGED <<indexJob, tries, indexOwner>>, unmarked \subseteq unmarked'
       PROVE  \A w \in Versions : Good(w)'
  <2>1. ASSUME NEW w \in Versions PROVE Good(w)'
    <3>1. indexOwner[w] # r /\ indexOwner[w] # NoFileRun => index'[indexOwner[w]] = index[indexOwner[w]]
      BY <1>0, <1>12 DEF Index!TypeOK, Goes
    <3> QED
      BY <1>3, <1>12, <3>1 DEF Goes
  <2> QED
    BY <2>1
<1>13. ASSUME NEW r \in FileRuns, Index!Prepare(r) PROVE \A w \in Versions : Good(w)'
  <2>1. /\ index[r].step # "idle" /\ index[r].of \in Versions /\ state[index[r].of] # "none"
        /\ UNCHANGED <<Index!documentVars, tries, unmarked>>
        /\ \/ Goes(r, {"supersede", "fail", "embed", "error"}) /\ UNCHANGED <<indexJob, indexOwner>>
           \/ /\ Leaves(r) /\ indexOwner[index[r].of] = r
              /\ indexJob' = [indexJob EXCEPT ![index[r].of] = "queued"]
              /\ indexOwner' = [indexOwner EXCEPT ![index[r].of] = NoFileRun]
    BY <1>13, PrepareSteps
  <2>2. CASE Goes(r, {"supersede", "fail", "embed", "error"}) /\ UNCHANGED <<indexJob, indexOwner>>
    <3>1. Goes(r, IndexSteps \ {"idle"})
      BY <2>2 DEF Goes, IndexSteps
    <3> QED
      BY <1>12, <2>1, <2>2, <3>1
  <2>3. CASE /\ Leaves(r) /\ indexOwner[index[r].of] = r
             /\ indexJob' = [indexJob EXCEPT ![index[r].of] = "queued"]
             /\ indexOwner' = [indexOwner EXCEPT ![index[r].of] = NoFileRun]
    <3>1. ASSUME NEW w \in Versions, w # index[r].of PROVE Good(w)'
      <4>1. indexOwner[w] # r
        BY <1>0, <3>1 DEF IndexJobInv, Good
      <4>2. index'[indexOwner[w]] = index[indexOwner[w]] \/ indexOwner[w] = NoFileRun
        BY <1>0, <2>3, <4>1 DEF Index!TypeOK, Leaves
      <4>3. indexOwner'[w] = indexOwner[w] /\ indexJob'[w] = indexJob[w] /\ tries'[w] = tries[w]
        BY <1>0, <2>1, <2>3, <3>1 DEF Index!TypeOK
      <4> QED
        BY <1>3, <2>1, <4>2, <4>3
    <3>2. ASSUME NEW v \in Versions, v = index[r].of PROVE Good(v)'
      <4>1. Good(v) /\ r # NoFileRun
        BY <1>2, <2>1
      <4>2. indexOwner'[v] = NoFileRun /\ indexJob'[v] = "queued" /\ tries' = tries
        BY <1>0, <2>1, <2>3, <3>2 DEF Index!TypeOK
      <4>3. tries[v] < IndexAttempts
        BY <1>0, <2>3, <3>2, <4>1 DEF Good
      <4> QED
        BY <1>1, <2>1, <3>2, <4>2, <4>3 DEF Good, Index!Concluded
    <3> QED
      BY <2>1, <3>1, <3>2
  <2> QED
    BY <2>1, <2>2, <2>3
<1>14. ASSUME NEW r \in FileRuns,
              Index!Read(r) \/ Index!Embed(r) \/ Index!Swap(r) \/ Index!Supersede(r)
              \/ Index!Fail(r) \/ Index!FailLast(r) \/ Index!Catch(r) \/ Index!Throw(r)
       PROVE  \A w \in Versions : Good(w)'
  <2>1. /\ index[r].step # "idle" /\ Goes(r, IndexSteps \ {"idle", "supersede"})
        /\ unmarked \subseteq unmarked'
        /\ UNCHANGED <<indexJob, tries, indexOwner>>
    BY <1>14, IndexingSteps DEF Index!jobVars
  <2>2. Goes(r, IndexSteps \ {"idle"})
    BY <2>1 DEF Goes
  <2> QED
    BY <1>12, <2>1, <2>2
<1>15. \A w \in Versions : Good(w)'
  <2>1. CASE \E v \in Versions :
               Index!CreateVersion(v) \/ Index!Enqueue(v) \/ Index!ScanEnds(v) \/ Index!Stall(v)
    BY <1>5, <1>7, <1>8, <2>1
  <2>2. CASE \E r \in FileRuns : Index!Take(r) \/ Index!Indexing(r) \/ Index!Throw(r)
             \/ Index!End(r)
                             \/ Index!Crash(r)
    BY <1>9, <1>10, <1>11, <1>13, <1>14, <2>2 DEF Index!Indexing
  <2> QED
    BY <1>6, <2>1, <2>2 DEF Index!Next
<1> QED
  BY <1>15 DEF IndexJobInv

LEMMA IndexInvariant == Index!Spec => []IndexInv
<1>1. Index!Init => IndexInv
  BY FileAssumption, IndexInvInit
<1>2. IndexInv /\ [Index!Next]_(Index!vars) => IndexInv'
  BY FileAssumption, IndexTypes, DocumentSteps, ServedKept, IndexRunKept, IndexJobKept
  DEF IndexInv
<1> QED
  BY <1>1, <1>2, PTL DEF Index!Spec

\* For any number of versions, runs, failures and stalls: the passages that are searched are
\* those of the newest version that was ever good, and none after a deletion; and every version
\* comes to an end with its job (policy-index.job.ts:243, :156).
THEOREM NewestVersionIsServed == Index!Spec => []NewestServed
<1>1. IndexInv => NewestServed
  <2> SUFFICES ASSUME Index!PolicyConstants, IndexInv PROVE Index!NewestServed
    BY FileAssumption DEF NewestServed
  <2>1. passages = (IF deleted THEN {} ELSE Index!Active) /\ \A v \in Versions : Index!Concluded(v)
    BY DEF IndexInv, ServedInv, IndexJobInv, Good
  <2>2. ASSUME NEW a \in Index!Active, NEW v \in Versions, state[v] \in {"active", "superseded"}
        PROVE  v <= a
    <3>1. CASE state[v] = "active"
      <4>1. v = a
        BY <2>2, <3>1 DEF IndexInv, ServedInv, Index!Active
      <4> QED
        BY <4>1 DEF Index!PolicyConstants
    <3>2. CASE state[v] = "superseded"
      <4>1. PICK b \in Index!Active : b > v
        BY <3>2 DEF IndexInv, ServedInv, Index!Newer
      <4>2. a = b
        BY DEF IndexInv, ServedInv
      <4> QED
        BY <4>1, <4>2 DEF Index!PolicyConstants, Index!Active
    <3> QED
      BY <2>2, <3>1, <3>2
  <2> QED
    BY <2>1, <2>2 DEF Index!NewestServed
<1> QED
  BY <1>1, IndexInvariant, PTL

\* One step of anybody, second runs and failures included.
GoesForward ==
    /\ deleted => UNCHANGED <<deleted, state, passages>>
    /\ \A v \in Versions : state[v] \in {"failed", "superseded"} => state'[v] = state[v]
    /\ \A v \in Versions : state[v] = "active" /\ state'[v] # "active" => (Index!Newer(v))'
    /\ passages' # passages /\ ~deleted' =>
           \E v \in Versions : passages' = {v} /\ \A u \in passages : u < v

\* What is searched only ever moves to a newer version or, by a deletion, to none; a version that
\* was closed or has given way is never opened again, and after a deletion no run that was still
\* embedding brings anything back (policy-index.job.ts:237-278).
THEOREM SearchGoesForward == Index!Spec => [][GoesForward]_(Index!vars)
<1>1. ASSUME Index!PolicyConstants, IndexInv, [Index!Next]_(Index!vars) PROVE GoesForward
  <2>0. Index!TypeOK /\ ServedInv /\ DocumentStep
    BY <1>1, DocumentSteps DEF IndexInv
  <2>1. CASE UNCHANGED Index!documentVars
    BY <2>0, <2>1 DEF Index!documentVars, GoesForward
  <2>2. CASE Removes
    BY <2>0, <2>2 DEF Removes, GoesForward, ServedInv, Index!TypeOK
  <2>3. ASSUME NEW v \in Versions, Creates(v) \/ Closes(v) PROVE GoesForward
    <3>1. /\ ~deleted /\ state[v] \in {"none", "processing"} /\ UNCHANGED <<deleted, passages>>
          /\ \A u \in Versions \ {v} : state'[u] = state[u]
      BY <2>0, <2>3 DEF Creates, Closes, Index!Open, Index!TypeOK
    <3> QED
      BY <3>1 DEF GoesForward
  <2>4. ASSUME NEW v \in Versions, Activates(v) PROVE GoesForward
    <3>1. /\ ~deleted /\ ~deleted' /\ state[v] = "processing" /\ passages' = {v}
          /\ \A u \in Versions : state'[u] = IF u = v THEN "active"
                                     ELSE IF u \in Index!Active THEN "superseded" ELSE state[u]
      BY <2>4 DEF Activates, Index!Activate, Index!Open
    <3>2. \A a \in Index!Active : a < v
      <4>1. \A a \in Index!Active : ~(a > v) /\ a # v /\ a \in Nat /\ v \in Nat
        BY <1>1, <2>4, <3>1 DEF Activates, Index!Newer, Index!Active, Index!PolicyConstants
      <4> QED
        BY <4>1
    <3>3. \A a \in Index!Active : (Index!Newer(a))'
      BY <1>1, <3>1, <3>2 DEF Index!Newer, Index!Active, Index!PolicyConstants
    <3>4. passages = Index!Active
      BY <2>0, <3>1 DEF ServedInv
    <3> QED
      BY <3>1, <3>2, <3>3, <3>4 DEF GoesForward, Index!Active
  <2> QED
    BY <2>0, <2>1, <2>2, <2>3, <2>4 DEF DocumentStep
<1>2. IndexInv /\ [Index!Next]_(Index!vars) => GoesForward
  BY <1>1, FileAssumption
<1> QED
  BY <1>2, IndexInvariant, PTL DEF Index!Spec
===============================================================================
