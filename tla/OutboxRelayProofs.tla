--------------------------- MODULE OutboxRelayProofs ---------------------------
(***************************************************************************)
(* Proofs about OutboxRelay, for any number of events, workers, consumers  *)
(* and faults.  Inv is inductive; the properties the runs check follow     *)
(* from it, and so does the refinement of EventLog.                        *)
(***************************************************************************)
EXTENDS OutboxRelay, TLAPS

-------------------------------------------------------------------------------
(* The inductive invariant. *)

InTx(w) == pc[w] \in {"max", "update", "enqueue"}

\* Only committed rows have a number, and only published rows are deleted.
RowsInv ==
    /\ Published \subseteq written
    /\ pruned \subseteq Published

\* A deleted event is older than one that is retained.
PruneInv == \A p \in pruned : \E r \in Retained : seq[p] < seq[r]

\* The rows of an open transaction are distinct, unpublished, and its own.
BatchInv ==
    \A w \in Workers : InTx(w) =>
        /\ 1 \in DOMAIN batch[w]
        /\ \A i, j \in DOMAIN batch[w] : batch[w][i] = batch[w][j] => i = j
        /\ Members(batch[w]) \subseteq written
        /\ \A e \in Members(batch[w]) : seq[e] = 0
        /\ \A v \in Workers \ {w} : InTx(v) => Members(batch[v]) \cap Members(batch[w]) = {}

\* All numbers below the one a transaction has read are given, and none from it on deleted.
ReadInv ==
    \A w \in Workers : pc[w] \in {"update", "enqueue"} =>
        /\ first[w] > 0
        /\ \A n \in 1..(first[w] - 1) : \E d \in Events : seq[d] = n
        /\ \A p \in pruned : seq[p] < first[w]

\* At most one transaction has given numbers that are not committed yet: the next ones.
NumberInv ==
    \A w \in Workers : pc[w] = "enqueue" =>
        /\ \A e \in Events : seq[e] < first[w]
        /\ \A v \in Workers \ {w} : pc[v] # "enqueue"
        /\ \A j \in JobsOf(batch[w]) : j \in todo[w] \cup queued

\* What is being emitted, and what was, is published.
EmitInv ==
    /\ \A w \in Workers : pc[w] = "emit" => Members(batch[w]) \subseteq Published
    /\ emitted \subseteq Published

Inv ==
    /\ TypeOK
    /\ RowsInv /\ SeqDense /\ PruneInv
    /\ BatchInv /\ ReadInv /\ NumberInv
    /\ EmitInv /\ JobsBeforePublish

-------------------------------------------------------------------------------
(* The helpers of the publishing transaction. *)

\* What Log!Numbered does to seq: the batch takes consecutive numbers from f, and no
\* other event changes its number.
LEMMA NumberedSeq ==
    ASSUME seq \in [Events -> Nat], NEW b \in BatchSeqs, NEW f \in Nat
    PROVE  /\ Log!Numbered(b, f) \in [Events -> Nat]
           /\ \A e \in Events \ Members(b) : Log!Numbered(b, f)[e] = seq[e]
           /\ (\A i, j \in DOMAIN b : b[i] = b[j] => i = j) =>
                 \A i \in DOMAIN b : Log!Numbered(b, f)[b[i]] = f + i - 1
<1> DEFINE pos(e) == CHOOSE i \in DOMAIN b : b[i] = e
<1>1. PICK n \in 0..BatchSize : b \in [1..n -> Events]
  BY DEF BatchSeqs
<1>2. \A e \in Members(b) : pos(e) \in 1..n /\ b[pos(e)] = e
  BY <1>1 DEF Members, Log!Members
<1>3. \A e \in Members(b) : f + pos(e) - 1 \in Nat
  <2> TAKE e \in Members(b)
  <2>1. pos(e) \in Nat /\ pos(e) >= 1
    BY <1>2, RelayAssumption
  <2> HIDE DEF pos
  <2> QED BY <2>1
<1>4. \A e \in Members(b) : Log!Numbered(b, f)[e] = f + pos(e) - 1
  BY <1>1 DEF Log!Numbered, Members, Log!Members
<1>5. \A e \in Events \ Members(b) : Log!Numbered(b, f)[e] = seq[e]
  BY DEF Log!Numbered, Members
<1>6. \A e \in Events : Log!Numbered(b, f)[e] \in Nat
  <2> TAKE e \in Events
  <2>1. CASE e \in Members(b)
    BY <1>3, <1>4, <2>1
  <2>2. CASE e \notin Members(b)
    BY <1>5, <2>2
  <2> QED BY <2>1, <2>2
<1>7. Log!Numbered(b, f) \in [Events -> Nat]
  <2> DEFINE g == Log!Numbered(b, f)
  <2>1. g = [e \in Events |-> g[e]]
    BY DEF Log!Numbered
  <2>2. \A e \in Events : g[e] \in Nat
    BY <1>6
  <2> HIDE DEF g
  <2>3. g \in [Events -> Nat]
    BY <2>1, <2>2
  <2> QED BY <2>3 DEF g
<1>8. ASSUME \A i, j \in DOMAIN b : b[i] = b[j] => i = j, NEW i \in DOMAIN b
      PROVE  Log!Numbered(b, f)[b[i]] = f + i - 1
  <2>1. b[i] \in Members(b)
    BY DEF Members, Log!Members
  <2>2. pos(b[i]) = i
    BY <1>1, <1>2, <1>8, <2>1
  <2> QED BY <1>4, <2>1, <2>2
<1> QED BY <1>5, <1>7, <1>8

\* A batch is a sequence of rows of the scanned set, without a repetition, and it is
\* empty only if the set is.
LEMMA FirstRowsBatch ==
    ASSUME NEW S \in SUBSET Events, NEW b \in FirstRows(S)
    PROVE  /\ b \in BatchSeqs
           /\ Members(b) \subseteq S
           /\ \A i, j \in DOMAIN b : b[i] = b[j] => i = j
           /\ b # << >> => 1 \in DOMAIN b
<1>1. PICK n \in 0..BatchSize : b \in [1..n -> S]
  BY DEF FirstRows
<1>2. \A i, j \in 1..n : i < j => b[i] < b[j]
  BY <1>1 DEF FirstRows
<1>3. \A i \in 1..n : b[i] \in Nat
  BY <1>1, RelayAssumption
<1>4. \A i, j \in 1..n : b[i] = b[j] => i = j
  <2> TAKE i, j \in 1..n
  <2>1. i \in Nat /\ j \in Nat /\ b[i] \in Nat /\ b[j] \in Nat
    BY <1>3
  <2>2. i < j \/ j < i \/ i = j
    BY <2>1
  <2> QED BY <1>2, <2>1, <2>2
<1>5. b \in BatchSeqs
  BY <1>1 DEF BatchSeqs
<1>6. b # << >> => 1 \in 1..n
  <2> SUFFICES ASSUME ~(1 \in 1..n) PROVE b = << >>
    OBVIOUS
  <2>1. 1..n = {}
    BY RelayAssumption
  <2> QED BY <1>1, <2>1
<1> QED BY <1>1, <1>4, <1>5, <1>6 DEF Members, Log!Members

LEMMA EmptyBatch == << >> \in BatchSeqs
<1> DEFINE F(n) == [1..n -> Events]
<1>1. 0 \in 0..BatchSize
  BY RelayAssumption
<1>2. << >> \in F(0)
  OBVIOUS
<1>3. BatchSeqs = UNION {F(n) : n \in 0..BatchSize}
  BY DEF BatchSeqs
<1> HIDE DEF F
<1> QED BY <1>1, <1>2, <1>3

-------------------------------------------------------------------------------
(* Type correctness. *)

LEMMA TypeStep ==
    ASSUME TypeOK, [Next]_vars
    PROVE  TypeOK'
<1> USE RelayAssumption DEF TypeOK, Phases, tableVars, electVars, txVars
<1>1. CASE UNCHANGED vars
  BY <1>1 DEF vars
<1>2. ASSUME NEW S \in SUBSET Events, Append(S) PROVE TypeOK'
  BY <1>2 DEF Append, Log!Write
<1>3. ASSUME NEW w \in Workers, Publish(w) PROVE TypeOK'
  <2>0. << >> \in BatchSeqs
    BY EmptyBatch
  <2>1. CASE Select(w)
    BY <2>1 DEF Select, Unpublished, Log!Unpublished
  <2>2. CASE LockRows(w)
    <3>1. PICK b \in FirstRows(snap[w] \cap Unpublished) :
             batch' = [batch EXCEPT ![w] = b]
      BY <2>2 DEF LockRows
    <3>2. snap[w] \cap Unpublished \in SUBSET Events
      BY DEF Unpublished, Log!Unpublished
    <3>3. b \in BatchSeqs
      BY <3>1, <3>2, FirstRowsBatch
    <3>4. pc' \in [Workers -> Phases]
      BY <2>2 DEF LockRows
    <3> QED BY <2>2, <3>1, <3>3, <3>4 DEF LockRows
  <2>3. CASE ReadMax(w)
    BY <2>3 DEF ReadMax, Retained, Log!Retained, Log!Published
  <2>4. CASE Number(w)
    <3>1. JobsOf(batch[w]) \subseteq Consumers \X Events
      BY DEF JobsOf, Members, Log!Members, BatchSeqs
    <3> QED BY <2>4, <3>1 DEF Number
  <2>5. CASE NumberConflict(w)
    BY <2>0, <2>5 DEF NumberConflict, FinishDrain
  <2>6. ASSUME NEW j \in Consumers \X Events, Enqueue(w, j) PROVE TypeOK'
    BY <2>6 DEF Enqueue
  <2>7. CASE Commit(w)
    BY <2>7, NumberedSeq DEF Commit
  <2>8. CASE Emit(w)
    <3>1. batch[w] \in BatchSeqs
      OBVIOUS
    <3>2. batch[w][at[w]] \in Events
      BY <2>8, <3>1 DEF Emit, BatchSeqs
    <3>3. at[w] + 1 \in Nat
      OBVIOUS
    <3> QED BY <2>8, <3>2, <3>3 DEF Emit
  <2>9. CASE BatchDone(w)
    BY <2>0, <2>9 DEF BatchDone
  <2>10. CASE Prune(w)
    BY <2>0, <2>10 DEF Prune, PruneRows, Retained, Log!Retained, Log!Published, FinishDrain
  <2> QED BY <1>3, <2>1, <2>2, <2>3, <2>4, <2>5, <2>6, <2>7, <2>8, <2>9, <2>10 DEF Publish, Transact
<1>4. ASSUME NEW w \in Workers, Elect(w) PROVE TypeOK'
  BY <1>4 DEF Elect, Start, TryLead, Wake, WakeUp, StepDown, Stopped
<1>5. ASSUME NEW w \in Workers, Break(w) PROVE TypeOK'
  <2>0. << >> \in BatchSeqs
    BY EmptyBatch
  <2>1. CASE Fail(w)
    BY <2>0, <2>1 DEF Fail, FinishDrain, Fault
  <2>2. CASE CommitUnanswered(w)
    BY <2>0, <2>2, NumberedSeq DEF CommitUnanswered, FinishDrain, Fault
  <2>3. CASE LoseLock(w)
    BY <2>3 DEF LoseLock, Fault
  <2>4. CASE Crash(w)
    BY <2>0, <2>4 DEF Crash, Fault
  <2>5. CASE Shutdown(w)
    BY <2>5 DEF Shutdown, Fault
  <2> QED BY <1>5, <2>1, <2>2, <2>3, <2>4, <2>5 DEF Break
<1> QED BY <1>1, <1>2, <1>3, <1>4, <1>5 DEF Next

-------------------------------------------------------------------------------
(* Inv is inductive. *)

LEMMA InvInit == Init => Inv
<1> SUFFICES ASSUME Init PROVE Inv
  OBVIOUS
<1> USE RelayAssumption DEF Init, Log!Init
<1>1. Published = {} /\ Retained = {}
  BY DEF Published, Retained, Log!Published, Log!Retained
<1>2. TypeOK
  BY EmptyBatch DEF TypeOK, Phases
<1>3. SeqDense
  BY <1>1 DEF SeqDense
<1>4. \A w \in Workers : pc[w] = "idle"
  OBVIOUS
<1> QED BY <1>1, <1>2, <1>3, <1>4
     DEF Inv, RowsInv, PruneInv, BatchInv, ReadInv, NumberInv, EmitInv, InTx, JobsBeforePublish

\* A step that leaves the table and the queues alone, the transactions and emits of the other
\* workers, and w's own too unless it ends them.
Quiet(w) ==
    /\ UNCHANGED <<written, seq, pruned, queued, emitted>>
    /\ \A v \in Workers :
          \/ /\ pc'[v] = pc[v] /\ batch'[v] = batch[v]
             /\ first'[v] = first[v] /\ todo'[v] = todo[v]
          \/ v = w /\ pc'[v] \notin {"max", "update", "enqueue", "emit"}

LEMMA QuietStep ==
    ASSUME Inv, TypeOK', NEW w \in Workers, Quiet(w)
    PROVE  Inv'
<1> USE DEF Quiet
<1>1. Published' = Published /\ Retained' = Retained
  BY DEF Published, Retained, Log!Published, Log!Retained
<1>2. RowsInv' /\ SeqDense' /\ PruneInv' /\ JobsBeforePublish'
  BY <1>1 DEF Inv, RowsInv, SeqDense, PruneInv, JobsBeforePublish
<1>3. \A v \in Workers : InTx(v)' =>
        pc'[v] = pc[v] /\ batch'[v] = batch[v] /\ first'[v] = first[v] /\ todo'[v] = todo[v]
  BY DEF InTx
<1>4. BatchInv'
  BY <1>3, SMTT(30) DEF Inv, BatchInv, InTx, Members, Log!Members
<1>5. ReadInv'
  BY <1>3 DEF Inv, ReadInv, InTx
<1>6. NumberInv'
  BY <1>3 DEF Inv, NumberInv, InTx, JobsOf, Members, Log!Members
<1>7. EmitInv'
  BY <1>1 DEF Inv, EmitInv, Members, Log!Members
<1> QED BY <1>2, <1>4, <1>5, <1>6, <1>7 DEF Inv

\* The batch becomes visible with its numbers: CommitUnanswered and Commit.
Committing(w) ==
    /\ pc[w] = "enqueue" /\ todo[w] = {}
    /\ seq' = Log!Numbered(batch[w], first[w])
    /\ UNCHANGED <<written, pruned, queued, emitted>>
    /\ \A v \in Workers :
          \/ /\ pc'[v] = pc[v] /\ batch'[v] = batch[v] /\ v # w
             /\ first'[v] = first[v] /\ todo'[v] = todo[v]
          \/ v = w /\ ~InTx(v)' /\ (pc'[v] = "emit" => batch'[v] = batch[v])

\* The batch takes the numbers from first[w] on, after all the others, and nothing else changes.
LEMMA CommitNumbers ==
    ASSUME Inv, NEW w \in Workers, Committing(w)
    PROVE  /\ first[w] > 0
           /\ \A i \in DOMAIN batch[w] : batch[w][i] \in Events /\ i \in Nat /\ i > 0
           /\ \A i \in DOMAIN batch[w] : seq'[batch[w][i]] = first[w] + i - 1
           /\ \A i \in DOMAIN batch[w] : \A n \in 1..i : n \in DOMAIN batch[w]
           /\ \A e \in Events \ Members(batch[w]) : seq'[e] = seq[e]
           /\ \A e \in Events : seq[e] \in Nat /\ seq[e] < first[w]
           /\ \A e \in Members(batch[w]) : seq[e] = 0
<1>1. batch[w] \in BatchSeqs /\ first[w] \in Nat /\ seq \in [Events -> Nat]
  BY DEF Inv, TypeOK
<1>2. \A i, j \in DOMAIN batch[w] : batch[w][i] = batch[w][j] => i = j
  BY DEF Inv, BatchInv, InTx, Committing
<1>3. PICK n \in 0..BatchSize : batch[w] \in [1..n -> Events]
  BY <1>1 DEF BatchSeqs
<1>4. \A i \in DOMAIN batch[w] : batch[w][i] \in Events /\ i \in Nat /\ i > 0
  BY <1>3, RelayAssumption
<1>5. \A i \in DOMAIN batch[w] : \A k \in 1..i : k \in DOMAIN batch[w]
  BY <1>3, RelayAssumption
<1>6. /\ first[w] > 0
      /\ \A e \in Events : seq[e] \in Nat /\ seq[e] < first[w]
      /\ \A e \in Members(batch[w]) : seq[e] = 0
  BY <1>1 DEF Inv, BatchInv, ReadInv, NumberInv, InTx, Committing
<1>7. /\ \A i \in DOMAIN batch[w] : Log!Numbered(batch[w], first[w])[batch[w][i]] = first[w] + i - 1
      /\ \A e \in Events \ Members(batch[w]) : Log!Numbered(batch[w], first[w])[e] = seq[e]
  BY <1>1, <1>2, NumberedSeq
<1>8. seq' = Log!Numbered(batch[w], first[w])
  BY DEF Committing
<1>9. /\ \A i \in DOMAIN batch[w] : seq'[batch[w][i]] = first[w] + i - 1
      /\ \A e \in Events \ Members(batch[w]) : seq'[e] = seq[e]
  BY <1>7, <1>8
<1> QED BY <1>4, <1>5, <1>6, <1>9

LEMMA CommitStep ==
    ASSUME Inv, TypeOK', NEW w \in Workers, Committing(w)
    PROVE  Inv'
<1> DEFINE b == batch[w]
<1> DEFINE f == first[w]
<1>0. /\ f \in Nat /\ f > 0
      /\ \A i \in DOMAIN b : b[i] \in Events /\ i \in Nat /\ i > 0
      /\ \A i \in DOMAIN b : seq'[b[i]] = f + i - 1
      /\ \A i \in DOMAIN b : \A n \in 1..i : n \in DOMAIN b
      /\ \A e \in Events \ Members(b) : seq'[e] = seq[e]
      /\ \A e \in Events : seq[e] \in Nat /\ seq[e] < f
      /\ \A e \in Members(b) : seq[e] = 0
  BY CommitNumbers DEF Inv, TypeOK
<1>1. \A e \in Events : e \in Members(b) <=> \E i \in DOMAIN b : e = b[i]
  BY DEF Members, Log!Members
<1>2. pc[w] = "enqueue" /\ todo[w] = {} /\ InTx(w)
  BY DEF Committing, InTx
<1> HIDE DEF b, f
\* Everything published stays published with its number, and the batch joins it above.
<1>3. \A e \in Events : seq[e] > 0 => seq'[e] = seq[e]
  BY <1>0
<1>4. \A e \in Events : seq'[e] \in Nat
  BY DEF TypeOK
<1>5. \A e \in Members(b) : e \in Events /\ seq'[e] >= f
  <2> TAKE e \in Members(b)
  <2>1. PICK i \in DOMAIN b : e = b[i]
    BY DEF Members, Log!Members
  <2> QED BY <1>0, <2>1
<1>6. Published' = Published \cup Members(b)
  BY <1>0, <1>3, <1>4, <1>5 DEF Published, Log!Published
<1>7. pruned' = pruned /\ written' = written /\ queued' = queued /\ emitted' = emitted
  BY DEF Committing
<1>8. Retained \subseteq Retained'
  BY <1>6, <1>7 DEF Retained, Log!Retained, Published
<1>9. RowsInv'
  BY <1>2, <1>6, <1>7 DEF Inv, RowsInv, BatchInv, b
<1>10. SeqDense'
  <2>1. ASSUME NEW d \in Published', NEW e \in Published', seq'[d] = seq'[e]
        PROVE  d = e
    <3>1. CASE d \in Members(b) /\ e \in Members(b)
      <4>1. PICK i \in DOMAIN b : d = b[i]
        BY <3>1 DEF Members, Log!Members
      <4>2. PICK j \in DOMAIN b : e = b[j]
        BY <3>1 DEF Members, Log!Members
      <4>3. f + i - 1 = f + j - 1 /\ i \in Nat /\ j \in Nat
        BY <1>0, <2>1, <4>1, <4>2
      <4> QED BY <1>0, <4>1, <4>2, <4>3
    <3>2. CASE d \in Members(b) /\ e \notin Members(b)
      BY <1>0, <1>5, <2>1, <3>2, <1>6 DEF Published, Log!Published
    <3>3. CASE d \notin Members(b) /\ e \in Members(b)
      BY <1>0, <1>5, <2>1, <3>3, <1>6 DEF Published, Log!Published
    <3>4. CASE d \notin Members(b) /\ e \notin Members(b)
      BY <1>0, <1>6, <2>1, <3>4 DEF Inv, SeqDense, Published, Log!Published
    <3> QED BY <3>1, <3>2, <3>3, <3>4
  <2>2. ASSUME NEW e \in Events, NEW n \in 1..seq'[e]
        PROVE  \E d \in Events : seq'[d] = n
    <3>1. n \in Nat /\ n > 0 /\ n <= seq'[e]
      BY <1>4
    <3>2. CASE n < f
      <4>1. PICK d \in Events : seq[d] = n
        BY <1>0, <1>2, <3>1, <3>2 DEF Inv, ReadInv, f
      <4> QED BY <1>3, <3>1, <4>1
    <3>3. CASE n >= f
      <4>1. e \in Members(b)
        BY <1>0, <3>1, <3>3
      <4>2. PICK i \in DOMAIN b : e = b[i]
        BY <4>1 DEF Members, Log!Members
      <4>3. n - f + 1 \in 1..i
        BY <1>0, <3>1, <3>3, <4>2
      <4>4. n - f + 1 \in DOMAIN b
        BY <1>0, <4>2, <4>3
      <4>5. seq'[b[n - f + 1]] = n /\ b[n - f + 1] \in Events
        BY <1>0, <3>1, <4>4
      <4> QED BY <4>5
    <3> QED BY <1>0, <3>1, <3>2, <3>3
  <2> QED BY <2>1, <2>2 DEF SeqDense
<1>11. PruneInv'
  <2>1. \A e \in Published : seq'[e] = seq[e]
    BY <1>3 DEF Published, Log!Published
  <2>2. pruned \subseteq Published /\ Retained \subseteq Published
    BY DEF Inv, RowsInv, Retained, Log!Retained, Published
  <2> QED BY <1>7, <1>8, <2>1, <2>2 DEF Inv, PruneInv
\* The other transactions have other rows, and none of them has given numbers.
<1>12. ASSUME NEW v \in Workers, InTx(v)'
       PROVE  /\ v # w /\ InTx(v) /\ pc'[v] = pc[v] /\ pc[v] # "enqueue"
              /\ batch'[v] = batch[v] /\ first'[v] = first[v] /\ todo'[v] = todo[v]
              /\ Members(batch[v]) \cap Members(b) = {}
  BY <1>2, <1>12 DEF Committing, Inv, NumberInv, BatchInv, InTx, b
<1>13. BatchInv'
  <2>0. SUFFICES ASSUME NEW v \in Workers, InTx(v)'
               PROVE  /\ 1 \in DOMAIN batch'[v]
                      /\ \A i, j \in DOMAIN batch'[v] : batch'[v][i] = batch'[v][j] => i = j
                      /\ Members(batch'[v]) \subseteq written'
                      /\ \A e \in Members(batch'[v]) : seq'[e] = 0
                      /\ \A u \in Workers \ {v} :
                            InTx(u)' => Members(batch'[u]) \cap Members(batch'[v]) = {}
    BY DEF BatchInv
  <2>1. batch'[v] = batch[v] /\ InTx(v)
    BY <1>12, <2>0
  <2>2. \A e \in Members(batch[v]) : seq'[e] = 0
    <3>1. \A e \in Members(batch[v]) : e \in Events /\ seq[e] = 0 /\ e \notin Members(b)
      BY <1>12, <2>0 DEF Inv, BatchInv, TypeOK
    <3> QED BY <1>0, <3>1
  <2>3. \A u \in Workers \ {v} : InTx(u)' => Members(batch'[u]) \cap Members(batch'[v]) = {}
    <3> TAKE u \in Workers \ {v}
    <3> HAVE InTx(u)'
    <3>1. batch'[u] = batch[u] /\ InTx(u)
      BY <1>12
    <3> QED BY <2>1, <3>1 DEF Inv, BatchInv
  <2> QED BY <1>7, <2>1, <2>2, <2>3 DEF Inv, BatchInv
<1>14. ReadInv'
  <2> SUFFICES ASSUME NEW v \in Workers, pc'[v] \in {"update", "enqueue"}
               PROVE  /\ first'[v] > 0
                      /\ \A n \in 1..(first'[v] - 1) : \E d \in Events : seq'[d] = n
                      /\ \A p \in pruned' : seq'[p] < first'[v]
    BY DEF ReadInv
  <2>1. InTx(v)'
    BY DEF InTx
  <2>2. /\ first[v] > 0
        /\ \A n \in 1..(first[v] - 1) : \E d \in Events : seq[d] = n
        /\ \A p \in pruned : seq[p] < first[v]
    BY <1>12, <2>1 DEF Inv, ReadInv
  <2>3. \A p \in pruned : p \in Events /\ seq'[p] = seq[p]
    BY <1>3 DEF Inv, RowsInv, Published, Log!Published
  <2>4. \A n \in 1..(first[v] - 1) : n > 0
    BY DEF Inv, TypeOK
  <2> QED BY <1>3, <1>7, <1>12, <2>1, <2>2, <2>3, <2>4
<1>15. NumberInv'
  BY <1>12 DEF NumberInv, InTx
<1>16. EmitInv'
  <2>1. ASSUME NEW v \in Workers, pc'[v] = "emit" PROVE Members(batch'[v]) \subseteq Published'
    BY <1>6, <2>1 DEF Committing, Inv, EmitInv, b, Members, Log!Members
  <2> QED BY <1>6, <1>7, <2>1 DEF Inv, EmitInv, Members, Log!Members
<1>17. JobsBeforePublish'
  <2>1. \A e \in Members(b) : \A c \in Routes[e] : <<c, e>> \in JobsOf(b)
    BY <1>5, RelayAssumption DEF JobsOf
  <2>2. \A j \in JobsOf(b) : j \in queued
    BY <1>2 DEF Inv, NumberInv, b
  <2> QED BY <1>6, <1>7, <2>1, <2>2 DEF Inv, JobsBeforePublish
<1> QED BY <1>9, <1>10, <1>11, <1>13, <1>14, <1>15, <1>16, <1>17 DEF Inv

LEMMA AppendStep ==
    ASSUME Inv, TypeOK', NEW S \in SUBSET Events, Append(S)
    PROVE  Inv'
<1> USE DEF Append, Log!Write, tableVars, electVars, txVars
<1>1. Published' = Published /\ Retained' = Retained
  BY DEF Published, Retained, Log!Published, Log!Retained
<1>2. RowsInv' /\ SeqDense' /\ PruneInv' /\ EmitInv' /\ JobsBeforePublish'
  BY <1>1 DEF Inv, RowsInv, SeqDense, PruneInv, EmitInv, JobsBeforePublish
<1>3. BatchInv'
  BY DEF Inv, BatchInv, InTx
<1>4. ReadInv' /\ NumberInv'
  BY DEF Inv, ReadInv, NumberInv
<1> QED BY <1>2, <1>3, <1>4 DEF Inv

LEMMA LockRowsStep ==
    ASSUME Inv, TypeOK', NEW w \in Workers, LockRows(w)
    PROVE  Inv'
<1> USE DEF tableVars, electVars, txVars
<1>1. PICK b \in FirstRows(snap[w] \cap Unpublished) :
         /\ \A v \in Workers \ {w} : Members(b) \cap LockedBy(v) = {}
         /\ batch' = [batch EXCEPT ![w] = b]
         /\ pc' = [pc EXCEPT ![w] = IF b = << >> THEN "prune" ELSE "max"]
  BY DEF LockRows
<1>2. /\ pc[w] = "lock"
      /\ UNCHANGED <<written, seq, pruned, queued, emitted, first, todo>>
      /\ batch \in [Workers -> BatchSeqs] /\ pc \in [Workers -> Phases]
  BY DEF LockRows, Inv, TypeOK
<1>3. CASE b = << >>
  <2>1. Quiet(w)
    BY <1>1, <1>2, <1>3 DEF Quiet
  <2> QED BY <2>1, QuietStep
<1>4. CASE b # << >>
  <2>1. snap[w] \cap Unpublished \in SUBSET Events
    BY DEF Unpublished, Log!Unpublished, Inv, TypeOK
  <2>2. /\ Members(b) \subseteq Unpublished
        /\ \A i, j \in DOMAIN b : b[i] = b[j] => i = j
        /\ 1 \in DOMAIN b
    BY <1>1, <1>4, <2>1, FirstRowsBatch
  <2>3. Published' = Published /\ Retained' = Retained
    BY <1>2 DEF Published, Retained, Log!Published, Log!Retained
  <2>4. RowsInv' /\ SeqDense' /\ PruneInv' /\ JobsBeforePublish'
    BY <1>2, <2>3 DEF Inv, RowsInv, SeqDense, PruneInv, JobsBeforePublish
  <2>5. /\ pc'[w] = "max" /\ batch'[w] = b
        /\ \A v \in Workers \ {w} : pc'[v] = pc[v] /\ batch'[v] = batch[v]
    BY <1>1, <1>2, <1>4
  <2>6. \A v \in Workers \ {w} : InTx(v)' => Members(batch'[v]) \cap Members(b) = {}
    BY <1>1, <2>5 DEF LockedBy, InTx
  <2>7. \A e \in Members(b) : e \in written' /\ seq'[e] = 0
    BY <1>2, <2>2 DEF Unpublished, Log!Unpublished
  <2>8. BatchInv'
    <3>1. SUFFICES ASSUME NEW v \in Workers, InTx(v)'
                   PROVE  /\ 1 \in DOMAIN batch'[v]
                          /\ \A i, j \in DOMAIN batch'[v] : batch'[v][i] = batch'[v][j] => i = j
                          /\ Members(batch'[v]) \subseteq written'
                          /\ \A e \in Members(batch'[v]) : seq'[e] = 0
                          /\ \A u \in Workers \ {v} :
                                InTx(u)' => Members(batch'[u]) \cap Members(batch'[v]) = {}
      BY DEF BatchInv
    <3>2. CASE v = w
      BY <2>2, <2>5, <2>6, <2>7, <3>2
    <3>3. CASE v # w
      <4>1. batch'[v] = batch[v] /\ InTx(v)
        BY <2>5, <3>1, <3>3 DEF InTx
      <4>2. ASSUME NEW u \in Workers \ {v}, InTx(u)'
            PROVE  Members(batch'[u]) \cap Members(batch'[v]) = {}
        <5>1. CASE u = w
          BY <2>5, <2>6, <3>1, <3>3, <5>1
        <5>2. CASE u # w
          <6>1. batch'[u] = batch[u] /\ InTx(u)
            BY <2>5, <4>2, <5>2 DEF InTx
          <6> QED BY <4>1, <6>1 DEF Inv, BatchInv
        <5> QED BY <5>1, <5>2
      <4> QED BY <1>2, <4>1, <4>2 DEF Inv, BatchInv
    <3> QED BY <3>2, <3>3
  <2>9. ReadInv' /\ NumberInv'
    <3>1. \A v \in Workers : pc'[v] \in {"update", "enqueue"} => v # w
      BY <2>5
    <3> QED BY <1>2, <2>5, <3>1 DEF Inv, ReadInv, NumberInv
  <2>10. EmitInv'
    BY <1>2, <2>3, <2>5 DEF Inv, EmitInv, LockRows
  <2> QED BY <2>4, <2>8, <2>9, <2>10 DEF Inv
<1> QED BY <1>3, <1>4

LEMMA ReadMaxStep ==
    ASSUME Inv, TypeOK', NEW w \in Workers, ReadMax(w)
    PROVE  Inv'
<1> USE DEF tableVars, electVars, txVars
<1>1. PICK last \in {0} \cup {seq[e] : e \in Retained} :
         /\ \A e \in Retained : seq[e] <= last
         /\ first' = [first EXCEPT ![w] = last + 1]
  BY DEF ReadMax
<1>2. /\ pc[w] = "max" /\ pc' = [pc EXCEPT ![w] = "update"]
      /\ UNCHANGED <<written, seq, pruned, queued, emitted, batch, todo>>
      /\ first \in [Workers -> Nat] /\ pc \in [Workers -> Phases] /\ seq \in [Events -> Nat]
  BY DEF ReadMax, Inv, TypeOK
<1>3. Published' = Published /\ Retained' = Retained
  BY <1>2 DEF Published, Retained, Log!Published, Log!Retained
<1>4. RowsInv' /\ SeqDense' /\ PruneInv' /\ JobsBeforePublish' /\ EmitInv'
  BY <1>2, <1>3 DEF Inv, RowsInv, SeqDense, PruneInv, JobsBeforePublish, EmitInv
<1>5. BatchInv'
  BY <1>2 DEF Inv, BatchInv, InTx
<1>6. /\ pc'[w] = "update" /\ first'[w] = last + 1
      /\ \A v \in Workers \ {w} : pc'[v] = pc[v] /\ first'[v] = first[v]
  BY <1>1, <1>2
<1>7. /\ last \in Nat
      /\ \A n \in 1..last : \E d \in Events : seq[d] = n
  BY <1>2 DEF Inv, SeqDense, Retained, Log!Retained, Log!Published
<1>8. \A p \in pruned : seq[p] < last + 1
  <2> TAKE p \in pruned
  <2>1. PICK r \in Retained : seq[p] < seq[r]
    BY DEF Inv, PruneInv
  <2>2. p \in Events /\ r \in Events /\ seq[r] <= last
    BY <1>1 DEF Inv, TypeOK, Retained, Log!Retained, Log!Published
  <2> QED BY <1>2, <1>7, <2>1, <2>2
<1>9. ReadInv'
  BY <1>2, <1>6, <1>7, <1>8 DEF Inv, ReadInv
<1>10. NumberInv'
  BY <1>2, <1>6 DEF Inv, NumberInv
<1> QED BY <1>4, <1>5, <1>9, <1>10 DEF Inv

\* The heart of the matter: the unique index lets an UPDATE through only when its numbers
\* are still the next ones and no other transaction has given numbers.
LEMMA NumberStep ==
    ASSUME Inv, TypeOK', NEW w \in Workers, Number(w)
    PROVE  Inv'
<1> USE DEF tableVars, electVars, txVars
<1>1. /\ pc[w] = "update" /\ ~UniqueViolation(w) /\ ~Contended(w)
      /\ todo' = [todo EXCEPT ![w] = JobsOf(batch[w])]
      /\ pc' = [pc EXCEPT ![w] = "enqueue"]
      /\ UNCHANGED <<written, seq, pruned, queued, emitted, batch, first>>
  BY DEF Number
<1>2. /\ first \in [Workers -> Nat] /\ pc \in [Workers -> Phases] /\ seq \in [Events -> Nat]
      /\ todo \in [Workers -> SUBSET (Consumers \X Events)]
      /\ pruned \subseteq Published
  BY DEF Inv, TypeOK, RowsInv
<1>3. /\ first[w] > 0
      /\ \A n \in 1..(first[w] - 1) : \E d \in Events : seq[d] = n
      /\ \A p \in pruned : seq[p] < first[w]
      /\ 1 \in DOMAIN batch[w]
  BY <1>1 DEF Inv, ReadInv, BatchInv, InTx
<1>4. first[w] \in Numbers(w)
  <2>1. first[w] = first[w] + 1 - 1
    BY <1>2
  <2> QED BY <1>3, <2>1 DEF Numbers
<1>5. \A e \in Events : seq[e] < first[w]
  <2> SUFFICES ASSUME NEW e \in Events, seq[e] >= first[w] PROVE FALSE
    BY <1>2
  <2>1. first[w] \in 1..seq[e]
    BY <1>2, <1>3
  <2>2. PICK d \in Events : seq[d] = first[w]
    BY <2>1 DEF Inv, SeqDense
  <2>3. d \in Retained
    BY <1>2, <1>3, <2>2 DEF Retained, Log!Retained, Log!Published
  <2> QED BY <1>1, <1>4, <2>2, <2>3 DEF UniqueViolation
<1>6. \A v \in Workers \ {w} : pc[v] # "enqueue"
  <2> SUFFICES ASSUME NEW v \in Workers \ {w}, pc[v] = "enqueue" PROVE FALSE
    OBVIOUS
  <2>1. /\ first[v] > 0
        /\ \A n \in 1..(first[v] - 1) : \E d \in Events : seq[d] = n
        /\ \A e \in Events : seq[e] < first[v]
        /\ 1 \in DOMAIN batch[v]
    BY DEF Inv, ReadInv, NumberInv, BatchInv, InTx
  <2>2. first[v] \in Nat /\ first[w] \in Nat
    BY <1>2
  <2>3. ~(first[v] < first[w])
    <3> SUFFICES ASSUME first[v] < first[w] PROVE FALSE
      OBVIOUS
    <3>1. first[v] \in 1..(first[w] - 1)
      BY <2>1, <2>2
    <3>2. PICK d \in Events : seq[d] = first[v]
      BY <1>3, <3>1
    <3> QED BY <2>1, <2>2, <3>2
  <2>4. ~(first[w] < first[v])
    <3> SUFFICES ASSUME first[w] < first[v] PROVE FALSE
      OBVIOUS
    <3>1. first[w] \in 1..(first[v] - 1)
      BY <1>3, <2>2
    <3>2. PICK d \in Events : seq[d] = first[w]
      BY <2>1, <3>1
    <3> QED BY <1>5, <2>2, <3>2
  <2>5. first[v] = first[w]
    BY <2>2, <2>3, <2>4
  <2>6. first[v] = first[v] + 1 - 1
    BY <2>2
  <2>7. first[v] \in Numbers(v)
    BY <2>1, <2>6 DEF Numbers
  <2> QED BY <1>1, <1>4, <2>5, <2>7 DEF Contended
<1>7. Published' = Published /\ Retained' = Retained
  BY <1>1 DEF Published, Retained, Log!Published, Log!Retained
<1>8. RowsInv' /\ SeqDense' /\ PruneInv' /\ JobsBeforePublish' /\ EmitInv'
  BY <1>1, <1>2, <1>7 DEF Inv, RowsInv, SeqDense, PruneInv, JobsBeforePublish, EmitInv
<1>9. BatchInv'
  BY <1>1, <1>2 DEF Inv, BatchInv, InTx
<1>10. ReadInv'
  BY <1>1, <1>2, <1>3 DEF Inv, ReadInv
<1>11. NumberInv'
  BY <1>1, <1>2, <1>5, <1>6 DEF NumberInv
<1> QED BY <1>8, <1>9, <1>10, <1>11 DEF Inv

LEMMA EnqueueStep ==
    ASSUME Inv, TypeOK', NEW w \in Workers, NEW j \in Consumers \X Events, Enqueue(w, j)
    PROVE  Inv'
<1> USE DEF Enqueue, tableVars, electVars
<1>1. Published' = Published /\ Retained' = Retained
  BY DEF Published, Retained, Log!Published, Log!Retained
<1>2. RowsInv' /\ SeqDense' /\ PruneInv' /\ JobsBeforePublish' /\ EmitInv'
  BY <1>1 DEF Inv, RowsInv, SeqDense, PruneInv, JobsBeforePublish, EmitInv
<1>3. BatchInv' /\ ReadInv'
  BY DEF Inv, BatchInv, ReadInv, InTx
<1>4. \A v \in Workers : todo[v] \cup queued \subseteq todo'[v] \cup queued'
  BY DEF Inv, TypeOK
<1>5. NumberInv'
  BY <1>4 DEF Inv, NumberInv
<1> QED BY <1>2, <1>3, <1>5 DEF Inv

LEMMA EmitStep ==
    ASSUME Inv, TypeOK', NEW w \in Workers, Emit(w)
    PROVE  Inv'
<1> USE DEF Emit, tableVars, electVars
<1>1. Published' = Published /\ Retained' = Retained
  BY DEF Published, Retained, Log!Published, Log!Retained
<1>2. RowsInv' /\ SeqDense' /\ PruneInv' /\ JobsBeforePublish'
  BY <1>1 DEF Inv, RowsInv, SeqDense, PruneInv, JobsBeforePublish
<1>3. BatchInv' /\ ReadInv' /\ NumberInv'
  BY DEF Inv, BatchInv, ReadInv, NumberInv, InTx
<1>4. batch[w][at[w]] \in Members(batch[w])
  BY DEF Members, Log!Members
<1>5. EmitInv'
  BY <1>1, <1>4 DEF Inv, EmitInv
<1> QED BY <1>2, <1>3, <1>5 DEF Inv

LEMMA PruneStep ==
    ASSUME Inv, TypeOK', NEW w \in Workers, Prune(w)
    PROVE  Inv'
<1> USE DEF Prune, FinishDrain, electVars
<1>1. PICK old \in SUBSET Retained, last \in {0} \cup {seq[e] : e \in Retained} :
         /\ \A e \in Retained : seq[e] <= last
         /\ RetentionOutlastsTx(old)
         /\ pruned' = pruned \cup PruneRows(old, last)
  OBVIOUS
<1> DEFINE cut == PruneRows(old, last)
<1>2. /\ UNCHANGED <<written, seq, queued, emitted>>
      /\ seq \in [Events -> Nat] /\ pc \in [Workers -> Phases]
      /\ \A v \in Workers : first[v] \in Nat
      /\ last \in Nat
  BY DEF Inv, TypeOK, Retained, Log!Retained, Log!Published
<1>3. Published' = Published
  BY <1>2 DEF Published, Log!Published
<1>4. \A v \in Workers : pc'[v] \in {"max", "update", "enqueue", "emit"} =>
        /\ v # w /\ pc'[v] = pc[v] /\ batch'[v] = batch[v]
        /\ first'[v] = first[v] /\ todo'[v] = todo[v]
  BY <1>2 DEF Inv, TypeOK
<1>5. cut \subseteq Retained /\ cut \subseteq old /\ \A e \in cut : seq[e] < last
  BY DEF PruneRows
<1> HIDE DEF cut
<1>6. RowsInv'
  BY <1>1, <1>2, <1>3, <1>5 DEF Inv, RowsInv, Retained, Log!Retained, Published, cut
<1>7. SeqDense' /\ JobsBeforePublish'
  BY <1>2, <1>3 DEF Inv, SeqDense, JobsBeforePublish
<1>8. PruneInv'
  <2>1. \A e \in Retained : e \in Events /\ seq[e] \in Nat
    BY <1>2 DEF Retained, Log!Retained, Log!Published
  \* The newest of the rows that the DELETE could reach stays.
  <2>2. \A d \in Retained : \E r \in Retained : r \notin cut /\ seq[d] <= seq[r]
    <3> TAKE d \in Retained
    <3>1. last # 0
      BY <1>1, <1>2, <2>1 DEF Retained, Log!Retained, Log!Published
    <3>2. PICK x \in Retained : last = seq[x]
      BY <1>1, <3>1
    <3>3. x \notin cut
      BY <1>2, <1>5, <3>2
    <3> QED BY <1>1, <3>2, <3>3
  <2>3. ASSUME NEW p \in pruned' PROVE \E d \in Retained : seq[p] < seq[d]
    <3>1. CASE p \in pruned
      BY <3>1 DEF Inv, PruneInv
    <3>2. CASE p \in cut
      <4>1. last # 0 /\ seq[p] < last
        BY <1>2, <1>5, <2>1, <3>2
      <4>2. PICK x \in Retained : last = seq[x]
        BY <1>1, <4>1
      <4> QED BY <4>1, <4>2
    <3> QED BY <1>1, <3>1, <3>2 DEF cut
  <2>4. \A r \in Retained : r \notin cut => r \in Retained'
    BY <1>1, <1>3 DEF Retained, Log!Retained, Published, cut
  <2>5. ASSUME NEW p \in pruned' PROVE \E r \in Retained' : seq'[p] < seq'[r]
    <3>1. PICK d \in Retained : seq[p] < seq[d]
      BY <2>3
    <3>2. PICK r \in Retained : r \notin cut /\ seq[d] <= seq[r]
      BY <2>2
    <3>3. p \in Events
      BY DEF TypeOK
    <3> QED BY <1>2, <2>1, <2>4, <3>1, <3>2, <3>3
  <2> QED BY <2>5 DEF PruneInv
<1>9. BatchInv'
  <2>1. \A v \in Workers : InTx(v)' => InTx(v) /\ batch'[v] = batch[v]
    BY <1>4 DEF InTx
  <2>2. SUFFICES ASSUME NEW v \in Workers, InTx(v)'
                 PROVE  /\ 1 \in DOMAIN batch'[v]
                        /\ \A i, j \in DOMAIN batch'[v] : batch'[v][i] = batch'[v][j] => i = j
                        /\ Members(batch'[v]) \subseteq written'
                        /\ \A e \in Members(batch'[v]) : seq'[e] = 0
                        /\ \A u \in Workers \ {v} :
                              InTx(u)' => Members(batch'[u]) \cap Members(batch'[v]) = {}
    BY DEF BatchInv
  <2>3. ASSUME NEW u \in Workers \ {v}, InTx(u)'
        PROVE  Members(batch'[u]) \cap Members(batch'[v]) = {}
    <3>1. batch'[u] = batch[u] /\ InTx(u) /\ batch'[v] = batch[v] /\ InTx(v)
      BY <2>1, <2>2, <2>3
    <3> QED BY <3>1 DEF Inv, BatchInv
  <2> QED BY <1>2, <2>1, <2>2, <2>3 DEF Inv, BatchInv
<1>10. ReadInv'
  <2>1. ASSUME NEW v \in Workers, pc[v] \in {"update", "enqueue"}, NEW p \in pruned'
        PROVE  seq[p] < first[v]
    <3>1. CASE p \in pruned
      BY <2>1, <3>1 DEF Inv, ReadInv
    <3>2. CASE p \in cut
      BY <1>1, <1>5, <2>1, <3>2 DEF RetentionOutlastsTx
    <3> QED BY <1>1, <3>1, <3>2 DEF cut
  <2> QED BY <1>2, <1>4, <2>1 DEF Inv, ReadInv
<1>11. NumberInv'
  BY <1>2, <1>4 DEF Inv, NumberInv
<1>12. EmitInv'
  BY <1>2, <1>3, <1>4 DEF Inv, EmitInv
<1> QED BY <1>6, <1>7, <1>8, <1>9, <1>10, <1>11, <1>12 DEF Inv

LEMMA InvNext == Inv /\ [Next]_vars => Inv'
<1> SUFFICES ASSUME Inv, [Next]_vars PROVE Inv'
  OBVIOUS
<1> USE DEF tableVars, electVars, txVars
<1>0. TypeOK'
  BY TypeStep DEF Inv
<1>1. CASE UNCHANGED vars
  BY <1>1 DEF vars, Inv, TypeOK, RowsInv, SeqDense, PruneInv, BatchInv, ReadInv, NumberInv,
              EmitInv, JobsBeforePublish, InTx, Published, Retained, Log!Published, Log!Retained
<1>2. ASSUME NEW S \in SUBSET Events, Append(S) PROVE Inv'
  BY <1>0, <1>2, AppendStep
<1>3. ASSUME NEW w \in Workers, Publish(w) PROVE Inv'
  <2>1. CASE Select(w)
    <3>1. Quiet(w)
      BY <2>1 DEF Select, Quiet, Inv, TypeOK
    <3> QED BY <1>0, <3>1, QuietStep
  <2>2. CASE LockRows(w)
    BY <1>0, <2>2, LockRowsStep
  <2>3. CASE ReadMax(w)
    BY <1>0, <2>3, ReadMaxStep
  <2>4. CASE Number(w)
    BY <1>0, <2>4, NumberStep
  <2>5. CASE NumberConflict(w)
    <3>1. Quiet(w)
      BY <2>5 DEF NumberConflict, FinishDrain, Quiet, Inv, TypeOK
    <3> QED BY <1>0, <3>1, QuietStep
  <2>6. ASSUME NEW j \in Consumers \X Events, Enqueue(w, j) PROVE Inv'
    BY <1>0, <2>6, EnqueueStep
  <2>7. CASE Commit(w)
    <3>1. Committing(w)
      BY <2>7 DEF Commit, Committing, InTx, Inv, TypeOK
    <3> QED BY <1>0, <3>1, CommitStep
  <2>8. CASE Emit(w)
    BY <1>0, <2>8, EmitStep
  <2>9. CASE BatchDone(w)
    <3>1. Quiet(w)
      BY <2>9 DEF BatchDone, Quiet, Inv, TypeOK
    <3> QED BY <1>0, <3>1, QuietStep
  <2>10. CASE Prune(w)
    BY <1>0, <2>10, PruneStep
  <2> QED BY <1>3, <2>1, <2>2, <2>3, <2>4, <2>5, <2>6, <2>7, <2>8, <2>9, <2>10 DEF Publish, Transact
<1>4. ASSUME NEW w \in Workers, Elect(w) PROVE Inv'
  <2>1. Quiet(w)
    BY <1>4 DEF Elect, Start, TryLead, Wake, WakeUp, StepDown, Stopped, Quiet, Inv, TypeOK
  <2> QED BY <1>0, <2>1, QuietStep
<1>5. ASSUME NEW w \in Workers, Break(w) PROVE Inv'
  <2>1. CASE CommitUnanswered(w)
    <3>1. Committing(w)
      BY <2>1 DEF CommitUnanswered, FinishDrain, Committing, InTx, Inv, TypeOK
    <3> QED BY <1>0, <3>1, CommitStep
  <2>2. CASE Fail(w) \/ LoseLock(w) \/ Crash(w) \/ Shutdown(w)
    <3>1. Quiet(w)
      BY <2>2 DEF Fail, LoseLock, Crash, Shutdown, FinishDrain, Quiet, Inv, TypeOK
    <3> QED BY <1>0, <3>1, QuietStep
  <2> QED BY <1>5, <2>1, <2>2 DEF Break
<1> QED BY <1>1, <1>2, <1>3, <1>4, <1>5 DEF Next

LEMMA Invariance == Spec => []Inv
BY InvInit, InvNext, PTL DEF Spec

-------------------------------------------------------------------------------
(* The results. *)

\* Every variable keeps its type; in particular no batch exceeds BATCH_SIZE.
THEOREM TypeCorrect == Spec => []TypeOK
<1>1. Inv => TypeOK
  BY DEF Inv
<1> QED BY <1>1, Invariance, PTL

\* Whatever the leaders do, the numbers given so far are 1..n, each to one event
\* (relay.ts:40, "gap-free in publish order").
THEOREM SeqIsDense == Spec => []SeqDense
<1>1. Inv => SeqDense
  BY DEF Inv
<1> QED BY <1>1, Invariance, PTL

\* An envelope carries a committed number, below every number still to be committed
\* (relay.ts:46, "every seq a client receives is already visible to sync").
THEOREM EmitsFollowCommits == Spec => []EmitAfterCommit
<1>1. Inv => EmitAfterCommit
  BY DEF Inv, EmitInv, NumberInv, EmitAfterCommit, TypeOK
<1> QED BY <1>1, Invariance, PTL

\* No published event lacks the job of one of its consumers (relay.ts:302).
THEOREM JobsPrecedePublishing == Spec => []JobsBeforePublish
<1>1. Inv => JobsBeforePublish
  BY DEF Inv
<1> QED BY <1>1, Invariance, PTL

-------------------------------------------------------------------------------
(* The relay implements EventLog. *)

LEMMA CommitPublishes ==
    ASSUME Inv, Inv', NEW w \in Workers, Committing(w)
    PROVE  \E b \in Log!Batches : Log!Publish(b)
<1> DEFINE b == batch[w]
<1>1. b \in Log!Batches
  <2>0. b \in BatchSeqs
    BY DEF Inv, TypeOK
  <2>1. PICK n \in 0..BatchSize : b \in [1..n -> Events]
    BY <2>0 DEF BatchSeqs
  <2>2. /\ 1 \in DOMAIN b
        /\ \A i, j \in DOMAIN b : b[i] = b[j] => i = j
        /\ Members(b) \subseteq written
        /\ \A e \in Members(b) : seq[e] = 0
    BY DEF Committing, Inv, BatchInv, InTx
  <2>3. n \in 1..BatchSize
    BY <2>1, <2>2, RelayAssumption
  <2>4. \A i \in 1..n : b[i] \in Log!Unpublished
    BY <2>1, <2>2 DEF Members, Log!Members, Log!Unpublished
  <2>5. b \in [1..n -> Log!Unpublished]
    BY <2>1, <2>4
  <2> HIDE DEF b
  <2> QED BY <2>1, <2>2, <2>3, <2>5 DEF Log!Batches
<1>2. \E last \in {0} \cup {seq[e] : e \in Events} :
         (\A e \in Events : seq[e] <= last) /\ last + 1 = first[w]
  <2>1. /\ seq \in [Events -> Nat] /\ first[w] \in Nat /\ first[w] > 0
        /\ \A e \in Events : seq[e] < first[w]
        /\ \A n \in 1..(first[w] - 1) : \E d \in Events : seq[d] = n
    BY DEF Committing, Inv, TypeOK, ReadInv, NumberInv
  <2>2. first[w] - 1 \in {0} \cup {seq[e] : e \in Events}
    <3>1. CASE first[w] = 1
      BY <3>1
    <3>2. CASE first[w] > 1
      <4>1. first[w] - 1 \in 1..(first[w] - 1)
        BY <2>1, <3>2
      <4>2. PICK d \in Events : seq[d] = first[w] - 1
        BY <2>1, <4>1
      <4> QED BY <4>2
    <3> QED BY <2>1, <3>1, <3>2
  <2>3. (first[w] - 1) + 1 = first[w] /\ \A e \in Events : seq[e] <= first[w] - 1
    BY <2>1
  <2> QED BY <2>2, <2>3
<1>3. Log!Publish(b)
  BY <1>2 DEF Log!Publish, Committing
<1> QED BY <1>1, <1>3

LEMMA PruneTrims ==
    ASSUME Inv, NEW w \in Workers, Prune(w)
    PROVE  UNCHANGED Log!logVars \/ \E S \in SUBSET Log!Retained : Log!Prune(S)
<1>1. PICK old \in SUBSET Retained, last \in {0} \cup {seq[e] : e \in Retained} :
         pruned' = pruned \cup PruneRows(old, last)
  BY DEF Prune
<1>2. UNCHANGED <<written, seq>> /\ seq \in [Events -> Nat] /\ Retained = Log!Retained
  BY DEF Prune, Inv, TypeOK, Retained
<1>3. CASE PruneRows(old, last) = {}
  BY <1>1, <1>2, <1>3 DEF Log!logVars
<1>4. CASE PruneRows(old, last) # {}
  <2>1. \A e \in Retained : seq[e] \in Nat
    BY <1>2 DEF Log!Retained, Log!Published
  <2>2. PruneRows(old, last) \in SUBSET Log!Retained /\ \A e \in PruneRows(old, last) : seq[e] < last
    BY <1>2 DEF PruneRows
  <2>3. PICK x \in Retained : last = seq[x]
    BY <1>2, <1>4, <2>1, <2>2
  <2>4. Log!Prune(PruneRows(old, last))
    BY <1>1, <1>2, <2>2, <2>3 DEF Log!Prune
  <2> QED BY <2>2, <2>4
<1> QED BY <1>3, <1>4

\* The relay's processes, with their elections, overlapping transactions and failures,
\* implement the abstract log (relay.ts:36-50).
THEOREM RelayImplementsLog == Spec => LogSpec
<1> USE DEF tableVars
<1>1. Init => Log!Init
  BY DEF Init
<1>2. Inv /\ Inv' /\ [Next]_vars => [Log!Next]_(Log!logVars)
  <2> SUFFICES ASSUME Inv, Inv', [Next]_vars PROVE [Log!Next]_(Log!logVars)
    OBVIOUS
  <2>1. CASE UNCHANGED vars
    BY <2>1 DEF vars, Log!logVars
  <2>2. ASSUME NEW S \in SUBSET Events, Append(S) PROVE Log!Next
    BY <2>2 DEF Append, Log!Next
  <2>3. ASSUME NEW w \in Workers, Publish(w) PROVE [Log!Next]_(Log!logVars)
    <3>1. CASE Commit(w)
      <4>1. Committing(w)
        BY <3>1 DEF Commit, Committing, InTx, Inv, TypeOK, txVars
      <4> QED BY <4>1, CommitPublishes DEF Log!Next
    <3>2. CASE Prune(w)
      BY <3>2, PruneTrims DEF Log!Next
    <3>3. CASE \/ Select(w) \/ LockRows(w) \/ ReadMax(w) \/ Number(w) \/ NumberConflict(w)
              \/ (\E j \in Consumers \X Events : Enqueue(w, j)) \/ Emit(w) \/ BatchDone(w)
      BY <3>3 DEF Select, LockRows, ReadMax, Number, NumberConflict, Enqueue, Emit, BatchDone, Log!logVars
    <3> QED BY <2>3, <3>1, <3>2, <3>3 DEF Publish, Transact
  <2>4. ASSUME NEW w \in Workers, Elect(w) PROVE UNCHANGED Log!logVars
    BY <2>4 DEF Elect, Start, TryLead, Wake, StepDown, Stopped, Log!logVars
  <2>5. ASSUME NEW w \in Workers, Break(w) PROVE [Log!Next]_(Log!logVars)
    <3>1. CASE CommitUnanswered(w)
      <4>1. Committing(w)
        BY <3>1 DEF CommitUnanswered, FinishDrain, Committing, InTx, Inv, TypeOK, txVars
      <4> QED BY <4>1, CommitPublishes DEF Log!Next
    <3>2. CASE Fail(w) \/ LoseLock(w) \/ Crash(w) \/ Shutdown(w)
      BY <3>2 DEF Fail, LoseLock, Crash, Shutdown, Log!logVars
    <3> QED BY <2>5, <3>1, <3>2 DEF Break
  <2> QED BY <2>1, <2>2, <2>3, <2>4, <2>5 DEF Next
<1> QED BY <1>1, <1>2, Invariance, PTL DEF Spec, LogSpec, Log!Spec
===============================================================================
