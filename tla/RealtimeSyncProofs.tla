-------------------------- MODULE RealtimeSyncProofs --------------------------
(***************************************************************************)
(* Proofs about the cursor sync of a browser: its types, the order events  *)
(* are applied in, and that every event the browser lacks is known to be   *)
(* lacking, still to come, or excused by a gap the specification names.    *)
(***************************************************************************)
EXTENDS RealtimeSync, WellFoundedInduction, FiniteSetTheorems, TLAPS

-------------------------------------------------------------------------------
(* The conversation stream. *)

\* A set of numbers that is bounded has a largest one.
LEMMA LargestIsThere ==
    ASSUME NEW S, S \subseteq Int, S # {}, NEW top \in Int, \A s \in S : s <= top
    PROVE  Largest(S) \in S /\ \A s \in S : s <= Largest(S)
<1> DEFINE T == {top - s : s \in S}
           R == OpToRel(<, Nat)
<1>1. T \subseteq Nat
  <2>1. \A s \in S : top - s \in Nat
    OBVIOUS
  <2> QED
    BY <2>1
<1>2. T # {}
  OBVIOUS
<1>3. IsWellFoundedOn(R, Nat)
  BY NatLessThanWellFounded
<1>4. \A x, y \in Nat : y < x => <<y, x>> \in R
  <2>1. R = {ss \in Nat \X Nat : ss[1] < ss[2]}
    BY DEF OpToRel
  <2> QED
    BY <2>1
<1>5. PICK x \in T : \A y \in T : ~ (<<y, x>> \in R)
  <2> HIDE DEF T, R
  <2> QED
    BY <1>1, <1>2, <1>3, WFMin, Zenon
<1>6. \A y \in T : x <= y
  <2> HIDE DEF T, R
  <2> TAKE y \in T
  <2>1. x \in Nat /\ y \in Nat
    BY <1>1, <1>5
  <2>2. ~(y < x)
    BY <1>4, <1>5, <2>1, Zenon
  <2> QED
    BY <2>1, <2>2
<1>7. PICK n \in S : x = top - n
  OBVIOUS
<1>8. \A s \in S : s <= n
  <2> TAKE s \in S
  <2>1. top - s \in T
    OBVIOUS
  <2>2. x <= top - s
    BY <1>6, <2>1
  <2> QED
    BY <1>7, <2>2
<1> QED
  BY <1>8 DEF Largest

LEMMA LargerIs ==
    ASSUME NEW m \in Int, NEW n \in Int
    PROVE  Largest({m, n}) = IF m <= n THEN n ELSE m
  BY DEF Largest

Msg == [seq : 1..MaxSeq] \cup [seq : {0}, upTo : 0..MaxSeq, resync : BOOLEAN]

LogOK ==
    /\ last \in 0..MaxSeq /\ mine \subseteq 1..last /\ pruned \subseteq 1..(last - 1)
    /\ pending \in [Relays -> 0..MaxSeq]
    /\ \A r \in Relays : pending[r] # 0 => pending[r] \in mine

\* Only a browser that is connected is synced, from the cursor it sent.
ServerOK ==
    /\ link \in {"down", "opening", "up"} /\ srv \in {"none", "asked", "bounded"}
    /\ minSeq \in 0..MaxSeq /\ maxSeq \in 0..last
    /\ srv # "none" => link = "up" /\ syncFrom # None
    /\ srv = "bounded" /\ maxSeq > 0 => minSeq > 0

\* There is one answer for a connection at most, and none before it is asked for.
WireOK ==
    /\ wire \in Seq(Msg)
    /\ \A i \in DOMAIN wire : wire[i].seq \in mine \/ (wire[i].seq = 0 /\ wire[i].upTo <= last)
    /\ link = "down" => wire = << >>
    /\ link = "opening" \/ srv # "none" => \A i \in DOMAIN wire : wire[i].seq # 0

\* The cursor is past all that was applied, and while a sync is under way so is what it was sent.
ClientOK ==
    /\ cursor \in None..last /\ syncFrom \in None..cursor
    /\ applied \subseteq mine /\ held \subseteq mine
    /\ syncing \in BOOLEAN
    /\ syncing => link = "up" /\ syncFrom # None
    /\ ~syncing => held = {}
    /\ \A s \in applied : s <= cursor /\ (syncing => s <= syncFrom)

CacheOK ==
    /\ view \subseteq mine /\ loaded \in BOOLEAN
    /\ fetch \in {"idle", "wanted", "read", "answered"}
    /\ items \in 0..MaxSeq /\ streamSeq \in 0..last
    /\ \A s \in view : s <= items \/ s <= cursor
    /\ ~loaded => fetch # "idle"
    /\ loaded => cursor # None

GapsOK == excused \in [Gaps -> SUBSET mine]

Base ==
    /\ LogOK /\ ServerOK /\ WireOK /\ ClientOK /\ CacheOK /\ GapsOK
    /\ faults \in 0..MaxFaults

LEMMA BaseTypes == Base => TypeOK
<1> SUFFICES ASSUME Base PROVE TypeOK
  OBVIOUS
<1> USE SyncAssumption DEF Base
<1>1. \A i \in DOMAIN wire : wire[i].seq \in 0..MaxSeq
  <2>1. 0 \in 0..MaxSeq /\ mine \subseteq 0..MaxSeq
    BY DEF LogOK
  <2> QED
    BY <2>1 DEF WireOK
<1>2. maxSeq \in 0..MaxSeq /\ cursor \in None..MaxSeq /\ syncFrom \in None..MaxSeq
  BY DEF ServerOK, ClientOK, LogOK, None
<1>3. streamSeq \in 0..MaxSeq
  BY DEF CacheOK, LogOK
<1> QED
  BY <1>1, <1>2, <1>3 DEF TypeOK, LogOK, ServerOK, ClientOK, CacheOK, GapsOK

LEMMA BaseInit == Init => Base
<1> SUFFICES ASSUME Init PROVE Base
  OBVIOUS
<1> USE SyncAssumption DEF Init, None
<1>1. LogOK /\ ServerOK /\ WireOK
  BY DEF LogOK, ServerOK, WireOK
<1>2. ClientOK /\ CacheOK /\ GapsOK
  <2>1. syncing \in BOOLEAN /\ loaded \in BOOLEAN
    OBVIOUS
  <2> QED
    BY <2>1 DEF ClientOK, CacheOK, GapsOK
<1> QED
  BY <1>1, <1>2 DEF Base

\* The log grows, and what a step leaves alone is as good as it was.
LEMMA Frame ==
    ASSUME Base, last' \in last..MaxSeq, mine \subseteq mine'
    PROVE  /\ UNCHANGED <<link, srv, minSeq, maxSeq, syncFrom>> => ServerOK'
           /\ UNCHANGED <<wire, link, srv>> => WireOK'
           /\ UNCHANGED <<cursor, applied, syncing, held, syncFrom, link>> => ClientOK'
           /\ UNCHANGED <<view, loaded, fetch, items, streamSeq, cursor>> => CacheOK'
           /\ UNCHANGED excused => GapsOK'
<1> USE SyncAssumption DEF Base, None
<1>0. last \in Nat /\ last <= last' /\ last' <= MaxSeq /\ last' \in Nat
  BY DEF LogOK
<1>1. UNCHANGED <<link, srv, minSeq, maxSeq, syncFrom>> => ServerOK'
  BY <1>0 DEF ServerOK
<1>2. UNCHANGED <<wire, link, srv>> => WireOK'
  <2> SUFFICES ASSUME UNCHANGED <<wire, link, srv>> PROVE WireOK'
    OBVIOUS
  <2>1. Msg' = Msg
    BY DEF Msg
  <2>2. \A i \in DOMAIN wire : wire[i].upTo <= last /\ wire[i].seq = 0 => wire[i].upTo <= last'
    <3> TAKE i \in DOMAIN wire
    <3>1. wire[i] \in Msg
      BY DEF WireOK
    <3>2. wire[i].seq = 0 => wire[i].upTo \in 0..MaxSeq
      BY <3>1 DEF Msg
    <3> QED
      BY <1>0, <3>2
  <2> QED
    BY <2>1, <2>2 DEF WireOK
<1>3. UNCHANGED <<cursor, applied, syncing, held, syncFrom, link>> => ClientOK'
  BY <1>0 DEF ClientOK
<1>4. UNCHANGED <<view, loaded, fetch, items, streamSeq, cursor>> => CacheOK'
  BY <1>0 DEF CacheOK
<1>5. UNCHANGED excused => GapsOK'
  BY DEF GapsOK
<1> QED
  BY <1>1, <1>2, <1>3, <1>4, <1>5

LEMMA Excusing ==
    ASSUME Base, NEW gap \in Gaps, NEW S, S \subseteq mine, Excuse(gap, S)
    PROVE  /\ excused' \in [Gaps -> SUBSET mine]
           /\ AllExcused' = AllExcused \cup S
<1>1. /\ excused' \in [Gaps -> SUBSET mine]
      /\ excused'[gap] = excused[gap] \cup S
      /\ \A g \in Gaps \ {gap} : excused'[g] = excused[g]
  BY DEF Base, GapsOK, Excuse
<1>2. Gaps' = Gaps
  BY DEF Gaps
<1> QED
  BY <1>1, <1>2 DEF AllExcused, Base, GapsOK

LEMMA FaultOK == ASSUME Base, Fault PROVE faults' \in 0..MaxFaults
  BY SyncAssumption DEF Base, Fault

-------------------------------------------------------------------------------
LEMMA BasePublish ==
    ASSUME Base, NEW r \in Relays, NEW ours \in BOOLEAN, Publish(r, ours) PROVE Base'
<1> USE SyncAssumption
<1>1. /\ last' = last + 1 /\ last < MaxSeq /\ last \in Nat
      /\ mine \subseteq 1..last /\ pending \in [Relays -> 0..MaxSeq]
  BY DEF Publish, Base, LogOK
<1>2. last' \in last..MaxSeq /\ mine \subseteq mine'
  BY <1>1 DEF Publish
<1>3. UNCHANGED <<pruned, link, srv, minSeq, maxSeq, wire, cursor, applied, syncing, held, syncFrom,
                  view, loaded, fetch, items, streamSeq, excused, faults>>
  BY DEF Publish, serverVars, clientVars, cacheVars
<1>4. LogOK'
  <2>1. CASE ours
    <3>1. mine' = mine \cup {last'} /\ pending' = [pending EXCEPT ![r] = last']
      BY <2>1 DEF Publish
    <3>2. /\ pending' \in [Relays -> 0..MaxSeq] /\ pending'[r] = last'
          /\ \A q \in Relays \ {r} : pending'[q] = pending[q]
      BY <1>1, <1>2, <3>1
    <3> QED
      BY <1>1, <1>3, <3>1, <3>2 DEF LogOK, Base
  <2>2. CASE ~ours
    <3>1. mine' = mine /\ pending' = [pending EXCEPT ![r] = 0]
      BY <2>2 DEF Publish
    <3>2. /\ pending' \in [Relays -> 0..MaxSeq] /\ pending'[r] = 0
          /\ \A q \in Relays \ {r} : pending'[q] = pending[q]
      BY <1>1, <1>2, <3>1
    <3> QED
      BY <1>1, <1>3, <3>1, <3>2 DEF LogOK, Base
  <2> QED
    BY <2>1, <2>2
<1> QED
  BY <1>2, <1>3, <1>4, Frame DEF Base

\* What is emitted is on the wire, if there is a connection.
LEMMA Emitted ==
    ASSUME Base, NEW r \in Relays, Emit(r), link # "down"
    PROVE  /\ wire' \in Seq(Msg) /\ Len(wire') = Len(wire) + 1
           /\ \A i \in 1..Len(wire) : wire'[i] = wire[i]
           /\ wire'[Len(wire) + 1].seq = pending[r]
<1>1. [seq |-> pending[r]] \in Msg /\ wire \in Seq(Msg)
  BY SyncAssumption DEF Emit, Base, LogOK, WireOK, Msg
<1>2. wire' = Append(wire, [seq |-> pending[r]])
  BY DEF Emit
<1> QED
  BY <1>1, <1>2

LEMMA Unpending ==
    ASSUME Base, NEW r \in Relays, pending' = [pending EXCEPT ![r] = 0]
    PROVE  /\ pending' \in [Relays -> 0..MaxSeq] /\ pending'[r] = 0
           /\ \A q \in Relays \ {r} : pending'[q] = pending[q]
  BY SyncAssumption DEF Base, LogOK

LEMMA BaseEmit == ASSUME Base, NEW r \in Relays, Emit(r) PROVE Base'
<1> USE SyncAssumption
<1>0. /\ last' \in last..MaxSeq /\ mine' = mine /\ pending[r] \in mine
      /\ UNCHANGED <<last, pruned, link, srv, minSeq, maxSeq, cursor, applied, syncing, held, syncFrom,
                     view, loaded, fetch, items, streamSeq, faults>>
  BY DEF Emit, Base, LogOK, serverVars, clientVars, cacheVars
<1>1. LogOK'
  BY <1>0, Unpending DEF Emit, LogOK, Base
<1>2. WireOK'
  <2>1. CASE link = "down"
    BY <1>0, <2>1, Frame DEF Emit
  <2>2. CASE link # "down"
    <3>1. Msg' = Msg
      BY DEF Msg
    <3>2. 0 \notin mine
      BY DEF Base, LogOK
    <3> QED
      BY <1>0, <2>2, <3>1, <3>2, Emitted DEF WireOK, Base
  <2> QED
    BY <2>1, <2>2
<1>3. GapsOK'
  <2>1. ({pending[q] : q \in Relays} \cap 1..(pending[r] - 1)) \subseteq mine
    BY DEF Base, LogOK
  <2>2. "late" \in Gaps
    BY DEF Gaps
  <2> QED
    BY <1>0, <2>1, <2>2, Excusing DEF Emit, GapsOK
<1> QED
  BY <1>0, <1>1, <1>2, <1>3, Frame DEF Base

LEMMA BaseCrash == ASSUME Base, NEW r \in Relays, Crash(r) PROVE Base'
<1> USE SyncAssumption
<1>0. /\ last' \in last..MaxSeq /\ mine' = mine /\ pending[r] \in mine
      /\ UNCHANGED <<last, pruned, link, srv, minSeq, maxSeq, wire, cursor, applied, syncing, held,
                     syncFrom, view, loaded, fetch, items, streamSeq>>
  BY DEF Crash, Base, LogOK, serverVars, clientVars, cacheVars
<1>1. LogOK'
  BY <1>0, Unpending DEF Crash, LogOK, Base
<1>2. GapsOK'
  <2>1. "unsent" \in Gaps /\ {pending[r]} \subseteq mine
    BY <1>0 DEF Gaps
  <2> QED
    BY <1>0, <2>1, Excusing DEF Crash, GapsOK
<1>3. faults' \in 0..MaxFaults
  BY FaultOK DEF Crash
<1> QED
  BY <1>0, <1>1, <1>2, <1>3, Frame DEF Base

\* Prune, and steps of the fetch before it is over.
LEMMA BaseQuiet ==
    ASSUME Base, Prune \/ Accept \/ FetchMessages \/ FetchStreamSeq \/ UNCHANGED vars
    PROVE  Base'
<1> USE SyncAssumption
<1>0. /\ last' \in last..MaxSeq /\ mine' = mine
      /\ UNCHANGED <<last, mine, pending, srv, minSeq, maxSeq, wire, cursor, applied, syncing, held,
                     syncFrom, view, loaded, excused, faults>>
  BY DEF Prune, Accept, FetchMessages, FetchStreamSeq, vars, logVars, serverVars, clientVars,
         cacheVars, Base, LogOK
<1>1. LogOK'
  <2>1. pruned' \subseteq pruned \cup (Kept \ {last})
    BY DEF Prune, Accept, FetchMessages, FetchStreamSeq, vars, logVars
  <2> QED
    BY <1>0, <2>1 DEF Base, LogOK, Kept
<1>2. ServerOK' /\ WireOK' /\ ClientOK'
  <2>1. CASE Accept
    <3>1. link = "down" /\ link' = "opening"
      BY <2>1 DEF Accept
    <3>2. srv = "none" /\ ~syncing /\ wire = << >>
      BY <3>1 DEF Base, ServerOK, ClientOK, WireOK
    <3> QED
      BY <1>0, <3>1, <3>2 DEF Base, ServerOK, WireOK, ClientOK, Msg
  <2>2. CASE ~Accept
    <3>1. link' = link
      BY <2>2 DEF Prune, FetchMessages, FetchStreamSeq, vars
    <3> QED
      BY <1>0, <3>1, Frame
  <2> QED
    BY <2>1, <2>2
<1>3. CacheOK'
  <2>1. CASE FetchMessages
    BY <1>0, <2>1 DEF FetchMessages, Base, CacheOK, ClientOK, LogOK, None
  <2>2. CASE FetchStreamSeq
    <3> DEFINE S == {0} \cup (mine \ pruned)
    <3>0. last \in Nat /\ \A s \in mine : s \in Int /\ s > 0 /\ s <= last
      BY DEF Base, LogOK
    <3>1. S \subseteq Int /\ S # {} /\ \A s \in S : s >= 0 /\ s <= last
      BY <3>0
    <3>2. last \in Int
      BY DEF Base, LogOK
    <3>3. Largest(S) \in S
      <4> HIDE DEF S
      <4> QED
        BY <3>1, <3>2, LargestIsThere
    <3>4. streamSeq' \in 0..last
      <4>1. streamSeq' = Largest(S)
        BY <2>2 DEF FetchStreamSeq
      <4>2. Largest(S) \in 0..last
        <5>1. Largest(S) \in Int /\ Largest(S) >= 0 /\ Largest(S) <= last /\ last \in Int
          <6> HIDE DEF S
          <6> QED
            BY <3>1, <3>2, <3>3, Zenon
        <5> HIDE DEF S
        <5> QED
          BY <5>1
      <4> QED
        BY <4>1, <4>2, Zenon
    <3> QED
      BY <1>0, <2>2, <3>4 DEF FetchStreamSeq, Base, CacheOK
  <2>3. CASE ~FetchMessages /\ ~FetchStreamSeq
    <3>1. UNCHANGED <<fetch, items, streamSeq>>
      BY <2>3 DEF Prune, Accept, vars, cacheVars
    <3> QED
      BY <1>0, <3>1, Frame
  <2> QED
    BY <2>1, <2>2, <2>3
<1> QED
  BY <1>0, <1>1, <1>2, <1>3, Frame DEF Base

LEMMA BaseConnect == ASSUME Base, Connect PROVE Base'
<1> USE SyncAssumption
<1>0. /\ last' \in last..MaxSeq /\ mine' = mine /\ link = "opening" /\ link' = "up"
      /\ syncFrom' = cursor /\ held' = {}
      /\ UNCHANGED <<last, mine, pruned, pending, minSeq, maxSeq, wire, cursor, applied, view, loaded,
                     fetch, items, streamSeq, faults>>
  BY DEF Connect, logVars, cacheVars, Base, LogOK
<1>1. /\ srv = "none" /\ ~syncing
      /\ \/ srv' = srv /\ syncing' = syncing
         \/ srv' = "asked" /\ syncing' = TRUE /\ cursor # None
  BY <1>0 DEF Connect, MustSync, Base, ServerOK, ClientOK
<1>2. LogOK' /\ CacheOK'
  BY <1>0, Frame DEF Base, LogOK
<1>3. ServerOK' /\ ClientOK'
  <2>1. cursor \in None..last /\ \A s \in applied : s <= cursor
    BY DEF Base, ClientOK
  <2>2. cursor \in None..cursor
    BY <2>1 DEF None, Base, LogOK
  <2>3. ServerOK'
    BY <1>0, <1>1, <2>1 DEF ServerOK, Base
  <2>4. ClientOK'
    <3>1. CASE syncing' = syncing
      BY <1>0, <1>1, <2>1, <2>2, <3>1 DEF ClientOK, Base
    <3>2. CASE syncing' = TRUE /\ cursor # None
      BY <1>0, <1>1, <2>1, <2>2, <3>2 DEF ClientOK, Base
    <3> QED
      BY <1>1, <3>1, <3>2
  <2> QED
    BY <2>3, <2>4
<1>4. WireOK'
  <2>1. Msg' = Msg
    BY DEF Msg
  <2>2. wire \in Seq(Msg) /\ \A i \in DOMAIN wire : wire[i].seq # 0
    BY <1>0 DEF Base, WireOK
  <2> QED
    BY <1>0, <2>1, <2>2 DEF WireOK, Base
<1>5. GapsOK'
  <2> DEFINE S == (Missed \cap Sent) \ {wire[i].seq : i \in DOMAIN wire}
  <2>1. UNCHANGED excused \/ Excuse("unsynced", S)
    BY DEF Connect
  <2>2. S \subseteq mine /\ "unsynced" \in Gaps
    BY DEF Missed, Sent, Gaps
  <2>3. Excuse("unsynced", S) => GapsOK'
    <3> HIDE DEF S
    <3> QED
      BY <1>0, <2>2, Excusing DEF GapsOK
  <2> QED
    BY <1>0, <2>1, <2>3, Frame
<1> QED
  BY <1>0, <1>2, <1>3, <1>4, <1>5 DEF Base

LEMMA BaseSyncBounds == ASSUME Base, SyncBounds PROVE Base'
<1> USE SyncAssumption
<1>0. /\ last' \in last..MaxSeq /\ mine' = mine /\ srv = "asked" /\ srv' = "bounded"
      /\ UNCHANGED <<last, mine, pruned, pending, link, wire, cursor, applied, syncing, held, syncFrom,
                     view, loaded, fetch, items, streamSeq, excused, faults>>
  BY DEF SyncBounds, logVars, clientVars, cacheVars, Base, LogOK
<1>1. maxSeq' = last /\ ((minSeq' = 0 /\ last = 0) \/ minSeq' \in 1..last)
  BY DEF SyncBounds, Kept
<1>2. last \in Nat /\ last <= MaxSeq
  BY DEF Base, LogOK
<1>3. ServerOK'
  <2>1. link = "up" /\ syncFrom # None
    BY <1>0 DEF ServerOK, Base
  <2>2. CASE last = 0
    BY <1>0, <1>1, <1>2, <2>1, <2>2 DEF ServerOK, Base
  <2>3. CASE last # 0
    <3>1. minSeq' \in 0..MaxSeq /\ minSeq' > 0
      BY <1>1, <1>2, <2>3
    <3> QED
      BY <1>0, <1>1, <1>2, <2>1, <3>1 DEF ServerOK, Base
  <2> QED
    BY <2>2, <2>3
<1>4. WireOK'
  <2>1. Msg' = Msg
    BY DEF Msg
  <2>2. \A i \in DOMAIN wire : wire[i].seq # 0
    BY <1>0 DEF Base, WireOK
  <2> QED
    BY <1>0, <2>1, <2>2 DEF WireOK, Base
<1> QED
  BY <1>0, <1>3, <1>4, Frame DEF Base, LogOK

Wanted == {s \in mine : syncFrom < s /\ s <= maxSeq}
Rows   == Wanted \ pruned

LEMMA MineInRange == ASSUME Base PROVE \A s \in mine : s \in 1..MaxSeq /\ s \in 1..last
<1>1. last \in Nat /\ last <= MaxSeq /\ mine \subseteq 1..last
  BY SyncAssumption DEF Base, LogOK
<1> QED
  BY <1>1, SyncAssumption

\* All of a set of events in order is a sequence of them.
LEMMA AscendingIsSeq ==
    ASSUME Base, NEW S, S \subseteq mine, NEW replay \in Ascending(S)
    PROVE  /\ replay \in Seq(mine) /\ DOMAIN replay = 1..Len(replay)
           /\ \A s \in S : \E i \in 1..Len(replay) : replay[i] = s
           /\ \A i \in 1..Len(replay) : replay[i] \in S
           /\ \A i, j \in 1..Len(replay) : i < j => replay[i] < replay[j]
<1>1. IsFiniteSet(S)
  <2>1. IsFiniteSet(1..MaxSeq)
    BY SyncAssumption, FS_Interval
  <2>2. S \subseteq 1..MaxSeq
    BY MineInRange
  <2> QED
    BY <2>1, <2>2, FS_Subset
<1>2. Cardinality(S) \in Nat
  BY <1>1, FS_CardinalityType
<1>3. replay \in [1..Cardinality(S) -> S]
  BY DEF Ascending
<1>4. replay \in Seq(mine) /\ Len(replay) = Cardinality(S)
  BY <1>2, <1>3
<1> QED
  BY <1>3, <1>4 DEF Ascending

AnswersWith(resync, replay) ==
    /\ wire' \in Seq(Msg) /\ Len(wire') = Len(wire) + Len(replay) + 1 /\ Len(replay) \in Nat
    /\ \A i \in 1..Len(wire) : wire'[i] = wire[i]
    /\ \A i \in 1..Len(replay) : wire'[Len(wire) + i].seq = replay[i]
    /\ wire'[Len(wire')] = [seq |-> 0, upTo |-> maxSeq, resync |-> resync]
    /\ Excuse("pruned", IF resync THEN {} ELSE {s \in Wanted \ Rows : s >= minSeq})
    /\ syncFrom < maxSeq /\ TooOld(syncFrom) => resync

\* What the answer to a sync is, and what goes out before it.
LEMMA Replayed ==
    ASSUME Base, SyncReplay
    PROVE  \E resync \in BOOLEAN : \E replay \in Ascending(IF resync THEN {} ELSE Rows) :
              AnswersWith(resync, replay)
<1> DEFINE resync == syncFrom < maxSeq /\ (TooOld(syncFrom) \/ Cardinality(Rows) > MaxReplay)
           answer == [seq |-> 0, upTo |-> maxSeq, resync |-> resync]
<1>1. /\ \E replay \in Ascending(IF resync THEN {} ELSE Rows) :
            wire' = wire \o [i \in DOMAIN replay |-> [seq |-> replay[i]]] \o <<answer>>
      /\ Excuse("pruned", IF resync THEN {} ELSE {s \in Wanted \ Rows : s >= minSeq})
  BY DEF SyncReplay, Wanted, Rows
<1>2. PICK replay \in Ascending(IF resync THEN {} ELSE Rows) :
         wire' = wire \o [i \in DOMAIN replay |-> [seq |-> replay[i]]] \o <<answer>>
  BY <1>1
<1>3. resync \in BOOLEAN
  OBVIOUS
<1>4. (IF resync THEN {} ELSE Rows) \subseteq mine
  BY DEF Rows, Wanted
<1>5. replay \in Seq(mine) /\ DOMAIN replay = 1..Len(replay)
  <2> HIDE DEF resync
  <2> QED
    BY <1>4, AscendingIsSeq
<1> DEFINE rows == [i \in DOMAIN replay |-> [seq |-> replay[i]]]
<1>6. /\ rows \in Seq(Msg) /\ Len(rows) = Len(replay)
      /\ \A i \in 1..Len(replay) : rows[i].seq = replay[i]
  <2>1. \A i \in 1..Len(replay) : [seq |-> replay[i]] \in Msg
    <3> TAKE i \in 1..Len(replay)
    <3>1. replay[i] \in 1..MaxSeq
      BY <1>5, MineInRange
    <3> QED
      BY <3>1 DEF Msg
  <2> QED
    BY <1>5, <2>1
<1>7. answer \in Msg
  <2>1. maxSeq \in 0..MaxSeq
    BY SyncAssumption DEF Base, ServerOK, LogOK
  <2> HIDE DEF resync
  <2> QED
    BY <1>3, <2>1 DEF Msg
<1>8. wire \in Seq(Msg)
  BY DEF Base, WireOK
<1>9. /\ wire' \in Seq(Msg) /\ Len(wire') = Len(wire) + Len(rows) + 1
      /\ \A i \in 1..Len(wire) : wire'[i] = wire[i]
      /\ \A i \in 1..Len(rows) : wire'[Len(wire) + i] = rows[i]
      /\ wire'[Len(wire')] = answer
  <2> DEFINE sent == wire \o rows
  <2>1. wire' = Append(sent, answer)
    <3>1. wire' = wire \o rows \o <<answer>>
      BY <1>2
    <3> HIDE DEF rows, answer
    <3>2. sent \in Seq(Msg)
      BY <1>6, <1>8
    <3> HIDE DEF sent
    <3>3. Append(sent, answer) = sent \o <<answer>>
      BY <1>7, <3>2
    <3> QED
      BY <3>1, <3>3 DEF sent
  <2> HIDE DEF rows, answer
  <2>2. /\ sent \in Seq(Msg) /\ Len(sent) = Len(wire) + Len(rows)
        /\ \A i \in 1..Len(wire) : sent[i] = wire[i]
        /\ \A i \in 1..Len(rows) : sent[Len(wire) + i] = rows[i]
    BY <1>6, <1>8
  <2> HIDE DEF sent
  <2>3. /\ wire' \in Seq(Msg) /\ Len(wire') = Len(sent) + 1
        /\ \A i \in 1..Len(sent) : wire'[i] = sent[i]
        /\ wire'[Len(wire')] = answer
    BY <1>7, <2>1, <2>2
  <2>4. Len(wire) \in Nat /\ Len(rows) \in Nat
    BY <1>6, <1>8
  <2> QED
    BY <2>2, <2>3, <2>4
<1>10. /\ Len(wire') = Len(wire) + Len(replay) + 1 /\ Len(replay) \in Nat
       /\ \A i \in 1..Len(replay) : wire'[Len(wire) + i].seq = replay[i]
  <2> HIDE DEF rows, answer
  <2> QED
    BY <1>5, <1>6, <1>9
<1>11. syncFrom < maxSeq /\ TooOld(syncFrom) => resync
  OBVIOUS
<1>12. AnswersWith(resync, replay)
  <2> HIDE DEF resync, rows
  <2> QED
    BY <1>1, <1>9, <1>10, <1>11 DEF AnswersWith
<1> HIDE DEF resync, rows
<1> QED
  BY <1>3, <1>12

LEMMA BaseSyncReplay == ASSUME Base, SyncReplay PROVE Base'
<1> USE SyncAssumption
<1>0. /\ last' \in last..MaxSeq /\ mine' = mine /\ srv' = "none" /\ minSeq' = 0 /\ maxSeq' = 0
      /\ srv = "bounded"
      /\ UNCHANGED <<last, mine, pruned, pending, link, cursor, applied, syncing, held, syncFrom,
                     view, loaded, fetch, items, streamSeq, faults>>
  BY DEF SyncReplay, logVars, clientVars, cacheVars, Base, LogOK
<1>1. PICK resync \in BOOLEAN :
         \E replay \in Ascending(IF resync THEN {} ELSE Rows) : AnswersWith(resync, replay)
  BY Replayed
<1> PICK replay \in Ascending(IF resync THEN {} ELSE Rows) : AnswersWith(resync, replay)
  BY <1>1
<1>2. /\ wire' \in Seq(Msg) /\ Len(wire') = Len(wire) + Len(replay) + 1 /\ Len(replay) \in Nat
      /\ \A i \in 1..Len(wire) : wire'[i] = wire[i]
      /\ \A i \in 1..Len(replay) : wire'[Len(wire) + i].seq = replay[i]
      /\ wire'[Len(wire')] = [seq |-> 0, upTo |-> maxSeq, resync |-> resync]
      /\ Excuse("pruned", IF resync THEN {} ELSE {s \in Wanted \ Rows : s >= minSeq})
  BY DEF AnswersWith
<1>3. ServerOK'
  BY <1>0 DEF Base, ServerOK, LogOK
<1>4. WireOK'
  <2>1. Msg' = Msg
    BY DEF Msg
  <2>2. link = "up"
    BY <1>0 DEF Base, ServerOK
  <2>3. \A i \in 1..Len(replay) : replay[i] \in mine
    <3>1. (IF resync THEN {} ELSE Rows) \subseteq mine
      BY DEF Rows, Wanted
    <3> QED
      BY <3>1, AscendingIsSeq
  <2>4. \A i \in 1..Len(wire') :
          wire'[i].seq \in mine \/ (wire'[i].seq = 0 /\ wire'[i].upTo <= last)
    <3> TAKE i \in 1..Len(wire')
    <3>0. Len(wire) \in Nat /\ wire \in Seq(Msg)
      BY DEF Base, WireOK
    <3>1. CASE i \in 1..Len(wire)
      BY <1>2, <3>0, <3>1 DEF Base, WireOK
    <3>2. CASE i = Len(wire')
      BY <1>2, <3>2 DEF Base, ServerOK, LogOK
    <3>3. CASE i > Len(wire) /\ i < Len(wire')
      <4>1. i - Len(wire) \in 1..Len(replay) /\ i = Len(wire) + (i - Len(wire))
        BY <1>2, <3>0, <3>3
      <4> QED
        BY <1>2, <2>3, <4>1
    <3>4. i \in 1..Len(wire) \/ i = Len(wire') \/ (i > Len(wire) /\ i < Len(wire'))
      <4>1. i \in Nat /\ i > 0 /\ i <= Len(wire') /\ Len(wire') \in Nat
        BY <1>2, <3>0
      <4> QED
        BY <3>0, <4>1
    <3> QED
      BY <3>1, <3>2, <3>3, <3>4
  <2> QED
    BY <1>0, <1>2, <2>1, <2>2, <2>4 DEF WireOK
<1>5. GapsOK'
  <2>1. /\ "pruned" \in Gaps
        /\ (IF resync THEN {} ELSE {s \in Wanted \ Rows : s >= minSeq}) \subseteq mine
    BY DEF Gaps, Wanted
  <2> QED
    BY <1>0, <1>2, <2>1, Excusing DEF GapsOK
<1> QED
  BY <1>0, <1>3, <1>4, <1>5, Frame DEF Base, LogOK

\* Applying moves the cursor to the newest event applied, never back.
LEMMA Applying ==
    ASSUME Base, NEW S, S \subseteq mine, NEW floor, NEW from \in cursor..last, from \in Int,
           Apply(S, floor, from)
    PROVE  /\ cursor' \in from..last
           /\ applied' \subseteq mine /\ applied \subseteq applied'
           /\ \A s \in applied' \ applied : s \in S /\ ~Stale(s, floor)
           /\ \A s \in applied' : s <= cursor'
           /\ view' \subseteq mine /\ view \subseteq view'
           /\ \A s \in view' \ view : s <= cursor'
           /\ \A s \in S : \/ s \in applied \/ Stale(s, floor)
                          \/ (s <= cursor' /\ (loaded => s \in view'))
           /\ cursor' = from \/ cursor' \in S
<1> DEFINE new == {s \in S : s \notin applied /\ ~Stale(s, floor)}
<1>1. /\ applied' = applied \cup new
      /\ cursor' = IF new = {} THEN from ELSE Largest(new \cup {from})
      /\ view' = IF loaded THEN view \cup new ELSE view
  BY DEF Apply
<1>2. /\ last \in Nat /\ cursor \in Int /\ cursor <= from /\ from <= last
      /\ \A s \in mine : s \in Int /\ s <= last
      /\ applied \subseteq mine /\ view \subseteq mine /\ \A s \in applied : s <= cursor
  <2>1. last \in Nat /\ \A s \in mine : s \in Int /\ s <= last
    BY SyncAssumption, MineInRange DEF Base, LogOK
  <2>2. cursor \in Int
    BY <2>1 DEF Base, ClientOK, None
  <2> QED
    BY <2>1, <2>2 DEF Base, ClientOK, CacheOK
<1>3. new \subseteq S /\ new \subseteq mine
  OBVIOUS
<1>4. /\ cursor' \in new \cup {from} /\ from <= cursor' /\ \A s \in new : s <= cursor'
      /\ cursor' \in Int /\ cursor' <= last
  <2> HIDE DEF new
  <2>1. CASE new = {}
    BY <1>1, <1>2, <2>1
  <2>2. CASE new # {}
    <3> DEFINE T == new \cup {from}
    <3>1. T \subseteq Int /\ T # {} /\ (\A s \in T : s <= last) /\ last \in Int
      BY <1>2, <1>3
    <3>2. Largest(T) \in T /\ \A s \in T : s <= Largest(T)
      <4> HIDE DEF T
      <4> QED
        BY <3>1, LargestIsThere
    <3>3. cursor' = Largest(T)
      BY <1>1, <2>2
    <3> QED
      BY <3>1, <3>2, <3>3
  <2> QED
    BY <2>1, <2>2
<1>5. \A s \in applied' : s <= cursor'
  <2> TAKE s \in applied'
  <2>1. s \in applied \/ s \in new
    BY <1>1
  <2>2. s \in applied => s <= cursor'
    <3>1. s \in applied => s \in Int /\ s <= cursor
      BY <1>2
    <3> QED
      BY <1>2, <1>4, <3>1
  <2> QED
    BY <1>4, <2>1, <2>2
<1>6. cursor' \in from..last
  BY <1>2, <1>4
<1> QED
  BY <1>1, <1>2, <1>3, <1>4, <1>5, <1>6

\* The end of a sync, whatever comes of it: the buffer is applied, or the cursor moves as the
\* server said.
LEMMA SyncEnds ==
    ASSUME Base, NEW needed \in BOOLEAN, NEW from \in cursor..last, from \in Int,
           syncing' = FALSE, held' = {}, Resync(needed), Apply(held, syncFrom, from),
           last' = last, mine' = mine, UNCHANGED <<loaded, items, streamSeq>>,
           syncFrom' \in {syncFrom, None}
    PROVE  ClientOK' /\ CacheOK'
<1>1. held \subseteq mine /\ last \in Nat /\ cursor \in Int /\ syncFrom \in None..cursor
  BY SyncAssumption DEF Base, LogOK, ClientOK, None
<1>2. /\ cursor' \in from..last /\ applied' \subseteq mine /\ \A s \in applied' : s <= cursor'
      /\ view' \subseteq mine /\ view \subseteq view' /\ \A s \in view' \ view : s <= cursor'
  BY <1>1, Applying
<1>3. cursor <= cursor' /\ cursor' \in Int
  BY <1>1, <1>2
<1>4. ClientOK'
  <2>1. cursor' \in None..last
    BY <1>1, <1>2, <1>3 DEF Base, ClientOK, None
  <2>2. syncFrom' \in None..cursor'
    BY <1>1, <1>3, <2>1 DEF None
  <2>3. syncing' \in BOOLEAN /\ ~syncing'
    OBVIOUS
  <2> QED
    BY <1>2, <2>1, <2>2, <2>3 DEF ClientOK
<1>5. CacheOK'
  <2>1. fetch' = fetch \/ (fetch' = "wanted" /\ loaded)
    BY DEF Resync
  <2>2. \A s \in view' : s <= items' \/ s <= cursor'
    <3> TAKE s \in view'
    <3>1. CASE s \in view
      <4>1. s \in Int /\ (s <= items \/ s <= cursor)
        BY <3>1, MineInRange DEF Base, CacheOK
      <4> QED
        BY <1>1, <1>3, <4>1
    <3>2. CASE s \notin view
      BY <1>2, <3>2
    <3> QED
      BY <3>1, <3>2
  <2>3. loaded' => cursor' # None
    <3>1. loaded => cursor > None
      BY <1>1 DEF Base, CacheOK, ClientOK, None
    <3> QED
      BY <1>1, <1>3, <3>1 DEF None
  <2> QED
    BY <1>2, <2>1, <2>2, <2>3 DEF CacheOK, Base
<1> QED
  BY <1>4, <1>5

LEMMA Received ==
    ASSUME Base, Receive
    PROVE  /\ wire' \in Seq(Msg) /\ Len(wire') = Len(wire) - 1 /\ Len(wire) \in Nat \ {0}
           /\ \A i \in 1..Len(wire') : wire'[i] = wire[i + 1] /\ i + 1 \in 1..Len(wire)
           /\ wire[1] \in Msg
<1>1. wire \in Seq(Msg) /\ wire # << >> /\ wire' = Tail(wire)
  BY DEF Receive, Base, WireOK
<1> QED
  BY <1>1

LEMMA WireAfterReceive == ASSUME Base, Receive PROVE WireOK'
<1>0. mine' = mine /\ last' = last /\ link' = "up" /\ link = "up" /\ srv' = srv
  BY DEF Receive, logVars, serverVars
<1>1. Msg' = Msg
  BY DEF Msg
<1>2. \A i \in 1..Len(wire') : wire'[i].seq \in mine \/ (wire'[i].seq = 0 /\ wire'[i].upTo <= last)
  BY Received DEF Base, WireOK
<1>3. srv # "none" => \A i \in 1..Len(wire') : wire'[i].seq # 0
  BY Received DEF Base, WireOK
<1>4. DOMAIN wire' = 1..Len(wire') /\ wire' \in Seq(Msg)
  BY Received
<1> QED
  BY <1>0, <1>1, <1>2, <1>3, <1>4 DEF WireOK

\* What reaches the client, and how it is handled.
ReceivesAnswer == Head(wire).seq = 0 /\ syncing /\ HandleAck(Head(wire))
IgnoresAnswer ==
    /\ Head(wire).seq = 0 /\ ~syncing
    /\ UNCHANGED <<cursor, applied, syncing, held, view, fetch>>
HoldsEvent ==
    /\ Head(wire).seq # 0 /\ syncing /\ held' = held \cup {Head(wire).seq}
    /\ UNCHANGED <<cursor, applied, syncing, view, fetch>>
AppliesEvent ==
    /\ Head(wire).seq # 0 /\ ~syncing /\ Apply({Head(wire).seq}, cursor, cursor)
    /\ UNCHANGED <<syncing, held, fetch>>

LEMMA ReceiveCases ==
    ASSUME Receive PROVE ReceivesAnswer \/ IgnoresAnswer \/ HoldsEvent \/ AppliesEvent
  BY DEF Receive, ReceivesAnswer, IgnoresAnswer, HoldsEvent, AppliesEvent

\* The answer moves the cursor to where the server said, never back.
LEMMA AnswerCursor ==
    ASSUME Base, Receive, ReceivesAnswer
    PROVE  /\ wire[1].seq = 0 /\ wire[1].resync \in BOOLEAN /\ wire[1].upTo \in 0..last
           /\ Largest({cursor, wire[1].upTo}) \in cursor..last
           /\ Largest({cursor, wire[1].upTo}) \in Int
           /\ cursor \in Int
           /\ Largest({cursor, wire[1].upTo}) \in {cursor, wire[1].upTo}
           /\ wire[1].upTo <= Largest({cursor, wire[1].upTo})
<1>1. wire[1] \in Msg /\ Head(wire) = wire[1] /\ 1 \in DOMAIN wire
  BY Received DEF Base, WireOK
<1>2. wire[1].seq = 0
  BY <1>1 DEF ReceivesAnswer
<1>3. last \in Nat /\ cursor \in Int /\ cursor <= last
  BY SyncAssumption DEF Base, LogOK, ClientOK, None
<1>4. wire[1] \in [seq : {0}, upTo : 0..MaxSeq, resync : BOOLEAN]
  BY <1>1, <1>2 DEF Msg
<1>5. wire[1].upTo \in 0..last
  <2>1. wire[1].upTo <= last
    BY <1>1, <1>2 DEF Base, WireOK, LogOK
  <2> QED
    BY <1>3, <1>4, <2>1, SyncAssumption
<1> QED
  BY <1>2, <1>3, <1>4, <1>5, LargerIs

LEMMA BaseReceive == ASSUME Base, Receive PROVE Base'
<1> USE SyncAssumption
<1>0. /\ last' \in last..MaxSeq /\ mine' = mine /\ link = "up"
      /\ UNCHANGED <<last, mine, pruned, pending, link, srv, minSeq, maxSeq, syncFrom, loaded, items,
                     streamSeq, excused, faults>>
  BY DEF Receive, logVars, serverVars, Base, LogOK
<1>1. Head(wire) = wire[1] /\ 1 \in DOMAIN wire
  BY Received DEF Base, WireOK
<1>2. CASE IgnoresAnswer
  <2>1. ClientOK' /\ CacheOK'
    BY <1>0, <1>2, Frame DEF IgnoresAnswer
  <2> QED
    BY <1>0, <2>1, WireAfterReceive, Frame DEF Base, LogOK
<1>3. CASE HoldsEvent
  <2>1. Head(wire).seq \in mine
    BY <1>1, <1>3 DEF HoldsEvent, Base, WireOK
  <2>2. ClientOK'
    BY <1>0, <1>3, <2>1 DEF HoldsEvent, Base, ClientOK
  <2>3. CacheOK'
    BY <1>0, <1>3, Frame DEF HoldsEvent
  <2> QED
    BY <1>0, <2>2, <2>3, WireAfterReceive, Frame DEF Base, LogOK
<1>4. CASE ReceivesAnswer
  <2>1. ClientOK' /\ CacheOK'
    BY <1>0, <1>1, <1>4, AnswerCursor, SyncEnds DEF ReceivesAnswer, HandleAck
  <2> QED
    BY <1>0, <2>1, WireAfterReceive, Frame DEF Base, LogOK
<1>5. CASE AppliesEvent
  <2>1. {Head(wire).seq} \subseteq mine /\ Apply({Head(wire).seq}, cursor, cursor)
    BY <1>1, <1>5 DEF AppliesEvent, Base, WireOK
  <2>2. cursor \in cursor..last /\ cursor \in Int /\ last \in Int
    BY DEF Base, LogOK, ClientOK, None
  <2>3. /\ cursor' \in cursor..last /\ applied' \subseteq mine /\ \A s \in applied' : s <= cursor'
        /\ view' \subseteq mine /\ view \subseteq view' /\ \A s \in view' \ view : s <= cursor'
    BY <2>1, <2>2, Applying
  <2>4. ClientOK'
    <3>1. cursor' \in None..last /\ syncFrom \in None..cursor'
      BY <2>2, <2>3 DEF Base, ClientOK, None
    <3>2. ~syncing /\ syncing' = syncing /\ held' = held
      BY <1>5 DEF AppliesEvent
    <3> QED
      BY <1>0, <2>3, <3>1, <3>2 DEF Base, ClientOK
  <2>5. CacheOK'
    <3>1. \A s \in view' : s <= items \/ s <= cursor'
      <4> TAKE s \in view'
      <4>1. s \in view => s \in Int /\ (s <= items \/ s <= cursor)
        BY MineInRange DEF Base, CacheOK
      <4> QED
        BY <2>2, <2>3, <4>1
    <3>2. loaded => cursor' # None
      BY <2>2, <2>3 DEF Base, CacheOK, ClientOK, None
    <3> QED
      BY <1>0, <1>5, <2>3, <3>1, <3>2 DEF AppliesEvent, Base, CacheOK
  <2> QED
    BY <1>0, <2>4, <2>5, WireAfterReceive, Frame DEF Base, LogOK
<1> QED
  BY <1>2, <1>3, <1>4, <1>5, ReceiveCases

LEMMA BaseGiveUp == ASSUME Base, AckTimeout \/ Drop PROVE Base'
<1> USE SyncAssumption
<1>0. /\ last' \in last..MaxSeq /\ mine' = mine /\ GiveUpSync /\ Fault
      /\ UNCHANGED <<last, mine, pruned, pending, loaded, items, streamSeq>>
      /\ syncFrom' \in {syncFrom, None}
  BY DEF AckTimeout, Drop, logVars, Base, LogOK
<1>1. cursor \in cursor..last /\ cursor \in Int /\ last \in Int /\ syncing \in BOOLEAN
  BY DEF Base, LogOK, ClientOK, None
<1>2. ClientOK' /\ CacheOK'
  BY <1>0, <1>1, SyncEnds DEF GiveUpSync
<1>3. ServerOK' /\ WireOK'
  <2>1. CASE AckTimeout
    <3>1. UNCHANGED <<link, srv, minSeq, maxSeq, wire, syncFrom>>
      BY <2>1 DEF AckTimeout, serverVars
    <3> QED
      BY <1>0, <3>1, Frame
  <2>2. CASE Drop
    <3>1. link' = "down" /\ srv' = "none" /\ minSeq' = 0 /\ maxSeq' = 0 /\ wire' = << >>
      BY <2>2 DEF Drop
    <3>2. WireOK'
      BY <3>1 DEF WireOK, Msg
    <3> QED
      BY <1>0, <3>1, <3>2 DEF ServerOK, Base, LogOK
  <2> QED
    BY <2>1, <2>2
<1>4. GapsOK'
  <2> DEFINE S == IF syncing /\ ~loaded THEN Missed \ held ELSE {}
  <2>1. S \subseteq mine /\ "swallowed" \in Gaps /\ Excuse("swallowed", S)
    BY <1>0 DEF Missed, Gaps, GiveUpSync
  <2> HIDE DEF S
  <2> QED
    BY <1>0, <2>1, Excusing DEF GapsOK
<1> QED
  BY <1>0, <1>2, <1>3, <1>4, FaultOK DEF Base, LogOK

LEMMA BaseLoad == ASSUME Base, Load PROVE Base'
<1> USE SyncAssumption
<1>0. /\ last' \in last..MaxSeq /\ mine' = mine
      /\ UNCHANGED <<last, mine, pruned, pending, cursor>>
      /\ link' = "down" /\ srv' = "none" /\ minSeq' = 0 /\ maxSeq' = 0 /\ wire' = << >>
  BY DEF Load, logVars, Base, LogOK
<1>1. ServerOK' /\ WireOK'
  <2>1. WireOK'
    BY <1>0 DEF WireOK, Msg
  <2> QED
    BY <1>0, <2>1 DEF ServerOK, Base, LogOK
<1>2. ClientOK'
  <2>1. cursor \in None..last /\ None \in None..cursor
    BY DEF Base, LogOK, ClientOK, None
  <2>2. applied' = {} /\ ~syncing' /\ syncing' \in BOOLEAN /\ held' = {} /\ syncFrom' = None
    BY DEF Load
  <2> QED
    BY <1>0, <2>1, <2>2 DEF ClientOK
<1>3. CacheOK' /\ GapsOK'
  <2>1. view' = {} /\ ~loaded' /\ loaded' \in BOOLEAN /\ fetch' = "wanted" /\ items' = 0
    BY DEF Load
  <2>2. streamSeq' = 0 /\ 0 \in 0..last /\ 0 \in 0..MaxSeq
    BY DEF Load, Base, LogOK
  <2>3. excused' = [g \in Gaps |-> {}]
    BY DEF Load
  <2> QED
    BY <1>0, <2>1, <2>2, <2>3 DEF CacheOK, GapsOK, Gaps
<1> QED
  BY <1>0, <1>1, <1>2, <1>3, FaultOK DEF Base, LogOK, Load

\* A fetch that is over leaves nothing up to the cursor that is neither shown nor excused.
LEMMA FetchEnds ==
    ASSUME Base, FetchDone
    PROVE  /\ cursor \in Int /\ cursor' \in Int /\ cursor' \in cursor..last /\ cursor' >= streamSeq
           /\ view' = {s \in mine : s <= items}
           /\ excused' \in [Gaps -> SUBSET mine]
           /\ \A s \in mine : s > items /\ (s \in AllExcused \/ s <= cursor') => s \in AllExcused'
<1>1. /\ last \in Nat /\ cursor \in Int /\ cursor <= last
      /\ streamSeq \in Int /\ streamSeq >= 0 /\ streamSeq <= last
  BY DEF Base, LogOK, ClientOK, CacheOK, None
<1>2. cursor' = Largest({cursor, streamSeq})
  BY DEF FetchDone, Seed
<1>3. Largest({cursor, streamSeq}) \in cursor..last /\ Largest({cursor, streamSeq}) >= streamSeq
  BY <1>1, LargerIs
<1>4. cursor' \in cursor..last /\ cursor' >= streamSeq /\ cursor' \in Int
  BY <1>1, <1>2, <1>3
<1> DEFINE torn == {s \in mine : items < s /\ s <= cursor'}
           kept(g) == {s \in excused[g] : s > items} \cup (IF g = "torn" THEN torn ELSE {})
<1>5. excused' = [g \in Gaps |-> kept(g)]
  BY <1>2 DEF FetchDone
<1>6. /\ \A g \in Gaps : kept(g) \subseteq mine
      /\ torn \subseteq kept("torn")
      /\ \A g \in Gaps : \A s \in excused[g] : s > items => s \in kept(g)
  BY DEF Base, GapsOK
<1>7. Gaps' = Gaps /\ "torn" \in Gaps
  BY DEF Gaps
<1>8. /\ excused' \in [Gaps -> SUBSET mine]
      /\ \A g \in Gaps : excused'[g] = kept(g)
  <2> HIDE DEF kept
  <2> QED
    BY <1>5, <1>6
<1>9. \A s \in mine : s > items /\ (s \in AllExcused \/ s <= cursor') => s \in AllExcused'
  <2> SUFFICES ASSUME NEW s \in mine, s > items, s \in AllExcused \/ s <= cursor'
               PROVE  \E g \in Gaps : s \in excused'[g]
    BY <1>7 DEF AllExcused
  <2>1. CASE s \in AllExcused
    <3>1. PICK g \in Gaps : s \in excused[g]
      BY <2>1 DEF AllExcused
    <3>2. s \in kept(g)
      BY <1>6, <3>1
    <3> HIDE DEF kept
    <3> QED
      BY <1>8, <3>2
  <2>2. CASE s <= cursor'
    <3>1. s \in torn
      BY <2>2, MineInRange DEF Base, CacheOK
    <3>2. s \in kept("torn")
      BY <1>6, <3>1
    <3> HIDE DEF kept
    <3> QED
      BY <1>7, <1>8, <3>2
  <2> QED
    BY <2>1, <2>2
<1>10. view' = {s \in mine : s <= items}
  BY DEF FetchDone
<1> QED
  BY <1>1, <1>4, <1>8, <1>9, <1>10

LEMMA BaseFetchDone == ASSUME Base, FetchDone PROVE Base'
<1> USE SyncAssumption
<1>0. /\ last' \in last..MaxSeq /\ mine' = mine
      /\ UNCHANGED <<last, mine, pruned, pending, link, srv, minSeq, maxSeq, wire, applied, syncing,
                     held, syncFrom, items, streamSeq, faults>>
      /\ fetch' = "idle" /\ loaded' = TRUE
  BY DEF FetchDone, logVars, serverVars, Base, LogOK
<1>1. ClientOK'
  <2>1. cursor' \in None..last /\ syncFrom \in None..cursor'
    BY FetchEnds DEF Base, ClientOK, LogOK, None
  <2>2. \A s \in applied : s <= cursor'
    <3>1. \A s \in applied : s \in Int /\ s <= cursor
      BY MineInRange DEF Base, ClientOK
    <3> QED
      BY <3>1, FetchEnds
  <2> QED
    BY <1>0, <2>1, <2>2 DEF Base, ClientOK
<1>2. CacheOK' /\ GapsOK'
  <2>1. cursor' # None
    BY FetchEnds DEF Base, CacheOK, LogOK, None
  <2> QED
    BY <1>0, <2>1, FetchEnds DEF Base, CacheOK, GapsOK
<1> QED
  BY <1>0, <1>1, <1>2, Frame DEF Base, LogOK

LEMMA BaseFetchFails == ASSUME Base, FetchFails PROVE Base'
<1>0. /\ last' \in last..MaxSeq /\ mine' = mine /\ fetch' = "wanted"
      /\ UNCHANGED <<last, mine, pruned, pending, link, srv, minSeq, maxSeq, wire, cursor, applied,
                     syncing, held, syncFrom, view, loaded, items, streamSeq, excused>>
  BY SyncAssumption DEF FetchFails, logVars, serverVars, clientVars, Base, LogOK
<1>1. CacheOK'
  BY <1>0 DEF Base, CacheOK
<1>2. faults' \in 0..MaxFaults
  BY FaultOK DEF FetchFails
<1> QED
  BY <1>0, <1>1, <1>2, Frame DEF Base, LogOK

LEMMA BaseNext == ASSUME Base, [Next]_vars PROVE Base'
<1>1. ASSUME NEW r \in Relays, Publish(r, TRUE) \/ Publish(r, FALSE) \/ Emit(r) \/ Crash(r)
      PROVE  Base'
  BY <1>1, BasePublish, BaseEmit, BaseCrash
<1>2. CASE Prune \/ Accept \/ FetchMessages \/ FetchStreamSeq \/ UNCHANGED vars
  BY <1>2, BaseQuiet
<1>3. CASE Connect \/ SyncBounds \/ SyncReplay
  BY <1>3, BaseConnect, BaseSyncBounds, BaseSyncReplay
<1>4. CASE Receive \/ AckTimeout \/ Drop \/ Load \/ FetchDone \/ FetchFails
  BY <1>4, BaseReceive, BaseGiveUp, BaseLoad, BaseFetchDone, BaseFetchFails
<1> QED
  BY <1>1, <1>2, <1>3, <1>4 DEF Next, Server, Fetch

\* The state is what its comments say: nothing is applied, held or shown that is not in the log,
\* and a sync is under way only with a cursor that was sent (socket.ts:247).
THEOREM SyncIsTyped == Spec => []TypeOK
<1> QED
  BY BaseInit, BaseNext, BaseTypes, PTL DEF Spec

\* A browser applies the events of its stream in order, whatever was emitted late, replayed,
\* held or given up (socket.ts:302): all that was applied is behind the cursor, and while a
\* sync holds events back the cursor it sent is as far as anything was applied.
THEOREM AppliedInOrder == Spec => InOrder
<1> DEFINE Ordered == applied \subseteq applied' =>
                          \A s \in applied' \ applied : \A t \in applied : t < s
<1>1. ASSUME Base, [Next]_vars PROVE [Ordered]_vars
  <2> SUFFICES ASSUME NEW s \in applied' \ applied, NEW t \in applied PROVE t < s
    OBVIOUS
  <2>0. t \in Int /\ t <= cursor /\ (syncing => t <= syncFrom) /\ cursor \in Int /\ syncFrom \in Int
    BY <1>1, MineInRange DEF Base, ClientOK, LogOK, None
  <2>1. ASSUME NEW S, S \subseteq mine, NEW floor, NEW from \in cursor..last, from \in Int,
               Apply(S, floor, from), floor \in Int, t <= floor
        PROVE  t < s
    <3>1. s \in S /\ ~Stale(s, floor)
      BY <1>1, <2>1, Applying
    <3>2. s \in Int /\ ~(s < floor) /\ s # t
      BY <1>1, <2>1, <3>1, MineInRange DEF Stale
    <3> QED
      BY <2>0, <2>1, <3>2
  <2>2. cursor \in cursor..last /\ last \in Int
    BY <1>1 DEF Base, LogOK, ClientOK, None
  <2>3. held \subseteq mine /\ (held # {} => syncing)
    BY <1>1 DEF Base, ClientOK
  <2>4. CASE Receive
    <3>1. CASE ReceivesAnswer
      <4>1. /\ Apply(held, syncFrom, Largest({cursor, Head(wire).upTo})) /\ syncing
            /\ Head(wire) = wire[1]
        BY <1>1, <2>4, <3>1, Received DEF ReceivesAnswer, HandleAck, Base, WireOK
      <4> QED
        BY <1>1, <2>0, <2>1, <2>3, <2>4, <3>1, <4>1, AnswerCursor
    <3>2. CASE AppliesEvent
      <4>1. {Head(wire).seq} \subseteq mine /\ Apply({Head(wire).seq}, cursor, cursor)
        <5>1. Head(wire) = wire[1] /\ 1 \in DOMAIN wire
          BY <1>1, <2>4, Received DEF Base, WireOK
        <5> QED
          BY <1>1, <3>2, <5>1 DEF AppliesEvent, Base, WireOK
      <4> QED
        BY <2>0, <2>1, <2>2, <4>1
    <3>3. CASE IgnoresAnswer \/ HoldsEvent
      BY <3>3 DEF IgnoresAnswer, HoldsEvent
    <3> QED
      BY <2>4, <3>1, <3>2, <3>3, ReceiveCases
  <2>5. CASE AckTimeout \/ Drop
    <3>1. Apply(held, syncFrom, cursor)
      BY <2>5 DEF AckTimeout, Drop, GiveUpSync
    <3>2. held # {}
      BY <1>1, <2>2, <2>3, <3>1, Applying
    <3> QED
      BY <2>0, <2>1, <2>2, <2>3, <3>1, <3>2
  <2>6. CASE Load
    BY <2>6 DEF Load
  <2>7. CASE ~(Receive \/ AckTimeout \/ Drop \/ Load)
    <3>1. applied' = applied
      BY <1>1, <2>7 DEF Next, Publish, Emit, Crash, Prune, Accept, Connect, Server, SyncBounds,
                        SyncReplay, Fetch, FetchMessages, FetchStreamSeq, FetchDone,
                        FetchFails, clientVars, vars
    <3> QED
      BY <3>1
  <2> QED
    BY <2>4, <2>5, <2>6, <2>7
<1> QED
  BY <1>1, BaseInit, BaseNext, PTL DEF Spec, InOrder

-------------------------------------------------------------------------------
(* No event is missed unknown. *)

Unemitted == {pending[r] : r \in Relays}

OnWire(s)    == \E i \in DOMAIN wire : wire[i].seq = s
Before(s, k) == \E i \in DOMAIN wire : i < k /\ wire[i].seq = s

\* The event is shown or in a known gap, or the fetch under way will show it or find it torn.
Safe(s) ==
    \/ s \in view \cup AllExcused
    \/ fetch = "wanted"
    \/ fetch \in {"read", "answered"} /\ (s <= items \/ s <= cursor)

\* What has yet to come to this client over the socket.
Owed == {s \in mine : s > cursor /\ ~Safe(s)}

\* What is owed and newer than n is on its way, and none of it can be overtaken.
Follows(n) ==
    \A s \in Owed : s > n =>
        /\ s \in held \/ OnWire(s) \/ s \in Unemitted
        /\ \A t \in held : s < t => s \in held
        /\ \A j \in DOMAIN wire : s < wire[j].seq => s \in held \/ Before(s, j)

PassedInv == \A s \in mine : s <= cursor => Safe(s)

OpeningInv ==
    link = "opening" =>
        \A s \in Owed : s \in Unemitted \/ OnWire(s) =>
            \A j \in DOMAIN wire : s < wire[j].seq => Before(s, j)

LiveInv == link = "up" /\ ~syncing => Follows(0)

\* During a sync what is newer than its upper bound comes live ...
BoundedInv == syncing /\ srv = "bounded" => \A n \in 0..MaxSeq : maxSeq = n => Follows(n)

\* ... and the rest has come before the answer, unless that says to fetch again.
AnsweredInv ==
    syncing /\ srv = "none" =>
        \A k \in DOMAIN wire, n \in 0..MaxSeq : wire[k].seq = 0 /\ wire[k].upTo = n =>
            /\ Follows(n)
            /\ \A s \in Owed : s <= n => wire[k].resync \/ s \in held \/ Before(s, k)

GapInv == PassedInv /\ OpeningInv /\ LiveInv /\ BoundedInv /\ AnsweredInv

LEMMA GapInit == Init => GapInv
<1> SUFFICES ASSUME Init PROVE GapInv
  OBVIOUS
<1>1. mine = {} /\ link = "down" /\ ~syncing
  BY DEF Init
<1> QED
  BY <1>1 DEF GapInv, PassedInv, OpeningInv, LiveInv, BoundedInv, AnsweredInv

\* When all is safe nothing is owed.
LEMMA AllSafe ==
    ASSUME \A s \in mine' : Safe(s)' PROVE GapInv'
<1>1. Owed' = {}
  BY DEF Owed
<1>2. \A n : Follows(n)'
  BY <1>1 DEF Follows
<1>3. PassedInv'
  BY DEF PassedInv
<1> QED
  BY <1>1, <1>2, <1>3 DEF GapInv, OpeningInv, LiveInv, BoundedInv, AnsweredInv

\* What is safe stays so while the client shows more, and asks again at most.
LEMMA SafeStays ==
    ASSUME Base, cursor' \in Int, cursor <= cursor', view \subseteq view',
           AllExcused \subseteq AllExcused',
           items' = items, fetch' \in {fetch, "wanted"}
    PROVE  \A s \in mine : Safe(s) => Safe(s)'
<1>1. cursor \in Int /\ \A s \in mine : s \in Int
  BY MineInRange DEF Base, ClientOK, LogOK, None
<1> QED
  BY <1>1 DEF Safe

LEMMA OwedShrinks ==
    ASSUME Base, cursor' \in Int, cursor <= cursor', mine' = mine,
           \A s \in mine : Safe(s) => Safe(s)'
    PROVE  Owed' \subseteq Owed
<1>1. cursor \in Int /\ \A s \in mine : s \in Int
  BY MineInRange DEF Base, ClientOK, LogOK, None
<1> QED
  BY <1>1 DEF Owed

LEMMA PassedStays ==
    ASSUME PassedInv, mine' = mine, cursor' = cursor, \A s \in mine : Safe(s) => Safe(s)'
    PROVE  PassedInv'
  BY DEF PassedInv

\* A step that leaves the link, the wire and the buffer alone and only pays what is owed.
LEMMA GapStays ==
    ASSUME Base, GapInv, PassedInv', Owed' \subseteq Owed,
           UNCHANGED <<link, syncing, srv, maxSeq, wire, held>>,
           \A s \in Owed' : s \in Unemitted <=> s \in Unemitted'
    PROVE  GapInv'
<1>1. \A n : Follows(n) => Follows(n)'
  BY DEF Follows, OnWire, Before
<1>2. \A s, k : (OnWire(s)' <=> OnWire(s)) /\ (Before(s, k)' <=> Before(s, k))
  BY DEF OnWire, Before
<1>3. OpeningInv'
  BY <1>2 DEF GapInv, OpeningInv
<1>4. LiveInv' /\ BoundedInv'
  BY <1>1 DEF GapInv, LiveInv, BoundedInv
<1>5. AnsweredInv'
  BY <1>1, <1>2 DEF GapInv, AnsweredInv
<1> QED
  BY <1>3, <1>4, <1>5 DEF GapInv

LEMMA GapPublish ==
    ASSUME Base, GapInv, NEW r \in Relays, NEW ours \in BOOLEAN, Publish(r, ours)
    PROVE  GapInv'
<1>0. /\ UNCHANGED <<link, srv, maxSeq, wire, cursor, syncing, held, view, fetch, items, excused>>
      /\ last \in Nat /\ mine \subseteq 1..last /\ cursor \in Int /\ cursor <= last
      /\ held \subseteq mine /\ mine' \in {mine, mine \cup {last + 1}}
  BY SyncAssumption DEF Publish, serverVars, clientVars, cacheVars, Base, LogOK, ClientOK, None
<1>1. \A s : Safe(s)' <=> Safe(s)
  BY <1>0 DEF Safe, AllExcused, Gaps
<1>2. Owed' \subseteq Owed \cup {last + 1}
  BY <1>0, <1>1 DEF Owed
<1>3. \A s \in Unemitted : s # 0 => s \in Unemitted'
  <2>1. \A q \in Relays : pending[q] # 0 => pending'[q] = pending[q]
    BY DEF Publish, Base, LogOK
  <2> QED
    BY <2>1 DEF Unemitted
<1>4. last + 1 \in Owed' => last + 1 \in Unemitted'
  <2>1. CASE ours
    <3>1. pending'[r] = last + 1
      BY <2>1 DEF Publish, Base, LogOK
    <3> QED
      BY <3>1 DEF Unemitted
  <2>2. CASE ~ours
    <3>1. mine' = mine
      BY <2>2 DEF Publish
    <3> QED
      BY <1>0, <3>1 DEF Owed
  <2> QED
    BY <2>1, <2>2
<1>5. /\ \A j \in DOMAIN wire : ~(last + 1 < wire[j].seq)
      /\ \A t \in held : ~(last + 1 < t)
  <2>1. ~(last + 1 < 0) /\ \A t \in mine : ~(last + 1 < t)
    BY <1>0
  <2>2. \A j \in DOMAIN wire : wire[j].seq \in mine \/ wire[j].seq = 0
    BY DEF Base, WireOK
  <2> QED
    BY <1>0, <2>1, <2>2, Zenon
<1>6. \A s, k : (OnWire(s)' <=> OnWire(s)) /\ (Before(s, k)' <=> Before(s, k))
  BY <1>0 DEF OnWire, Before
<1>7. \A s \in Owed' : (s \in Owed /\ s # 0) \/ s = last + 1
  BY <1>0, <1>2 DEF Owed
<1>8. \A n : Follows(n) => Follows(n)'
  <2> TAKE n
  <2> SUFFICES ASSUME Follows(n), NEW s \in Owed', s > n
               PROVE  /\ s \in held \/ OnWire(s)' \/ s \in Unemitted'
                      /\ \A t \in held : s < t => s \in held
                      /\ \A j \in DOMAIN wire : s < wire[j].seq => s \in held \/ Before(s, j)'
    BY <1>0 DEF Follows
  <2>1. CASE s \in Owed /\ s # 0
    BY <1>3, <1>6, <2>1 DEF Follows
  <2>2. CASE s = last + 1
    BY <1>0, <1>4, <1>5, <2>2
  <2> QED
    BY <1>7, <2>1, <2>2
<1>9. PassedInv'
  BY <1>0, <1>1 DEF GapInv, PassedInv
<1>10. OpeningInv'
  <2> SUFFICES ASSUME link = "opening", NEW s \in Owed', s \in Unemitted' \/ OnWire(s),
                      NEW j \in DOMAIN wire, s < wire[j].seq
               PROVE  Before(s, j)
    BY <1>0, <1>6 DEF OpeningInv
  <2>1. s \in Owed /\ s # 0
    BY <1>0, <1>5, <1>7
  <2>2. s \in Unemitted' => s \in Unemitted
    <3>1. \A q \in Relays : pending'[q] \in {pending[q], 0, last + 1}
      BY DEF Publish, Base, LogOK
    <3>2. s # last + 1
      BY <1>0, <2>1 DEF Owed
    <3> QED
      BY <2>1, <3>1, <3>2 DEF Unemitted
  <2> QED
    BY <2>1, <2>2 DEF GapInv, OpeningInv
<1>11. LiveInv' /\ BoundedInv'
  BY <1>0, <1>8 DEF GapInv, LiveInv, BoundedInv
<1>12. AnsweredInv'
  <2> SUFFICES ASSUME syncing, srv = "none", NEW k \in DOMAIN wire, NEW n \in 0..MaxSeq,
                      wire[k].seq = 0, wire[k].upTo = n
               PROVE  /\ Follows(n)'
                      /\ \A s \in Owed' : s <= n => wire[k].resync \/ s \in held \/ Before(s, k)
    BY <1>0, <1>6 DEF AnsweredInv
  <2>1. n <= last
    BY <1>0 DEF Base, WireOK
  <2>2. \A s \in Owed' : s <= n => s \in Owed
    BY <1>0, <1>7, <2>1
  <2> QED
    BY <1>8, <2>2 DEF GapInv, AnsweredInv
<1> QED
  BY <1>9, <1>10, <1>11, <1>12 DEF GapInv

LEMMA GapEmit == ASSUME Base, GapInv, NEW r \in Relays, Emit(r) PROVE GapInv'
<1> DEFINE late == {pending[q] : q \in Relays} \cap 1..(pending[r] - 1)
<1>0. /\ UNCHANGED <<mine, link, srv, maxSeq, cursor, syncing, held, view, fetch, items>>
      /\ pending[r] # 0 /\ pending[r] \in mine /\ cursor \in Int
      /\ \A s \in mine : s \in Int /\ s > 0
  BY MineInRange DEF Emit, serverVars, clientVars, cacheVars, Base, LogOK, ClientOK, None
<1>1. AllExcused' = AllExcused \cup late
  <2>1. late \subseteq mine /\ "late" \in Gaps /\ Excuse("late", late)
    BY DEF Base, LogOK, Gaps, Emit
  <2> HIDE DEF late
  <2> QED
    BY <2>1, Excusing
<1>2. \A s \in mine : Safe(s) => Safe(s)'
  BY <1>0, <1>1, SafeStays
<1>3. Owed' \subseteq Owed
  BY <1>0, <1>2, OwedShrinks
<1>4. PassedInv'
  BY <1>0, <1>2, PassedStays DEF GapInv
<1>5. \A s \in Owed' : ~(s \in Unemitted /\ s < pending[r])
  <2> SUFFICES ASSUME NEW s \in mine, s \in Unemitted, s < pending[r] PROVE Safe(s)'
    BY <1>0 DEF Owed
  <2>1. s \in late
    BY <1>0 DEF Unemitted
  <2> QED
    BY <1>1, <2>1 DEF Safe
<1>6. \A s \in Owed' : s \in Unemitted <=> s \in Unemitted' \/ s = pending[r]
  <2>1. \A s \in Owed' : s # 0
    BY <1>0 DEF Owed
  <2>2. pending'[r] = 0 /\ \A q \in Relays \ {r} : pending'[q] = pending[q]
    BY Unpending DEF Emit
  <2> QED
    BY <2>1, <2>2 DEF Unemitted
<1>7. CASE link = "down"
  <2>1. link' = "down" /\ ~syncing'
    BY <1>0, <1>7 DEF Base, ClientOK
  <2> QED
    BY <1>4, <2>1 DEF GapInv, OpeningInv, LiveInv, BoundedInv, AnsweredInv
<1>8. CASE link # "down"
  <2>0. /\ wire' \in Seq(Msg) /\ wire \in Seq(Msg) /\ Len(wire') = Len(wire) + 1
        /\ \A i \in 1..Len(wire) : wire'[i] = wire[i]
        /\ wire'[Len(wire) + 1].seq = pending[r]
    BY <1>8, Emitted DEF Base, WireOK
  <2>1. DOMAIN wire' = 1..(Len(wire) + 1) /\ DOMAIN wire = 1..Len(wire) /\ Len(wire) \in Nat
    BY <2>0
  <2>2. \A s : OnWire(s)' <=> OnWire(s) \/ s = pending[r]
    <3> TAKE s
    <3>1. OnWire(s) => OnWire(s)'
      BY <2>0, <2>1 DEF OnWire
    <3>2. s = pending[r] => OnWire(s)'
      <4>1. Len(wire) + 1 \in DOMAIN wire'
        BY <2>1
      <4> QED
        BY <2>0, <4>1 DEF OnWire
    <3>3. OnWire(s)' => OnWire(s) \/ s = pending[r]
      <4> SUFFICES ASSUME NEW i \in DOMAIN wire', wire'[i].seq = s PROVE OnWire(s) \/ s = pending[r]
        BY DEF OnWire
      <4>1. i \in 1..Len(wire) \/ i = Len(wire) + 1
        BY <2>1
      <4> QED
        BY <2>0, <2>1, <4>1 DEF OnWire
    <3> QED
      BY <3>1, <3>2, <3>3
  <2>3. \A s, k : Before(s, k) => Before(s, k)'
    BY <2>0, <2>1 DEF Before
  <2>4. \A s, k : OnWire(s) /\ k = Len(wire) + 1 => Before(s, k)'
    <3> TAKE s, k
    <3> SUFFICES ASSUME NEW i \in DOMAIN wire, wire[i].seq = s, k = Len(wire) + 1
                 PROVE  Before(s, k)'
      BY DEF OnWire
    <3>1. i \in DOMAIN wire' /\ i < k /\ wire'[i].seq = s
      BY <2>0, <2>1
    <3> QED
      BY <3>1 DEF Before
  <2>5. \A j \in DOMAIN wire' : (j \in DOMAIN wire /\ wire'[j] = wire[j])
                                  \/ (j = Len(wire) + 1 /\ wire'[j].seq = pending[r])
    BY <2>0, <2>1
  <2>6. \A n : Follows(n) => Follows(n)'
    <3> TAKE n
    <3> SUFFICES ASSUME Follows(n), NEW s \in Owed', s > n
                 PROVE  /\ s \in held \/ OnWire(s)' \/ s \in Unemitted'
                        /\ \A t \in held : s < t => s \in held
                        /\ \A j \in DOMAIN wire' : s < wire'[j].seq => s \in held \/ Before(s, j)'
      BY <1>0 DEF Follows
    <3>1. /\ s \in held \/ OnWire(s) \/ s \in Unemitted
          /\ \A t \in held : s < t => s \in held
          /\ \A j \in DOMAIN wire : s < wire[j].seq => s \in held \/ Before(s, j)
      BY <1>3 DEF Follows
    <3>2. s \in held \/ OnWire(s)' \/ s \in Unemitted'
      BY <1>6, <2>2, <3>1
    <3>3. ASSUME NEW j \in DOMAIN wire', s < wire'[j].seq PROVE s \in held \/ Before(s, j)'
      <4>1. CASE j \in DOMAIN wire /\ wire'[j] = wire[j]
        BY <2>3, <3>1, <3>3, <4>1
      <4>2. CASE j = Len(wire) + 1 /\ wire'[j].seq = pending[r]
        BY <1>5, <2>4, <3>1, <3>3, <4>2
      <4> QED
        BY <2>5, <4>1, <4>2
    <3> QED
      BY <3>1, <3>2, <3>3
  <2>7. LiveInv' /\ BoundedInv'
    BY <1>0, <2>6 DEF GapInv, LiveInv, BoundedInv
  <2>8. AnsweredInv'
    <3> SUFFICES ASSUME syncing, srv = "none", NEW k \in DOMAIN wire', NEW n \in 0..MaxSeq,
                        wire'[k].seq = 0, wire'[k].upTo = n
                 PROVE  /\ Follows(n)'
                        /\ \A s \in Owed' : s <= n => wire'[k].resync \/ s \in held \/ Before(s, k)'
      BY <1>0 DEF AnsweredInv
    <3>1. k \in DOMAIN wire /\ wire'[k] = wire[k]
      BY <1>0, <2>5
    <3>2. /\ Follows(n)
          /\ \A s \in Owed : s <= n => wire[k].resync \/ s \in held \/ Before(s, k)
      BY <3>1 DEF GapInv, AnsweredInv
    <3> QED
      BY <1>3, <2>3, <2>6, <3>1, <3>2
  <2>9. OpeningInv'
    <3> SUFFICES ASSUME link = "opening", NEW s \in Owed', s \in Unemitted' \/ OnWire(s)',
                        NEW j \in DOMAIN wire', s < wire'[j].seq
                 PROVE  Before(s, j)'
      BY <1>0 DEF OpeningInv
    <3>1. s \in Unemitted \/ OnWire(s)
      BY <1>6, <2>2
    <3>2. CASE j \in DOMAIN wire /\ wire'[j] = wire[j]
      BY <1>3, <2>3, <3>1, <3>2 DEF GapInv, OpeningInv
    <3>3. CASE j = Len(wire) + 1 /\ wire'[j].seq = pending[r]
      BY <1>5, <2>4, <3>1, <3>3
    <3> QED
      BY <2>5, <3>2, <3>3
  <2> QED
    BY <1>4, <2>7, <2>8, <2>9 DEF GapInv
<1> QED
  BY <1>7, <1>8

LEMMA GapCrash == ASSUME Base, GapInv, NEW r \in Relays, Crash(r) PROVE GapInv'
<1>0. /\ UNCHANGED <<mine, link, srv, maxSeq, wire, cursor, syncing, held, view, fetch, items>>
      /\ pending[r] \in mine /\ cursor \in Int /\ \A s \in mine : s \in Int /\ s > 0
  BY MineInRange DEF Crash, serverVars, clientVars, cacheVars, Base, LogOK, ClientOK, None
<1>1. AllExcused' = AllExcused \cup {pending[r]}
  <2>1. {pending[r]} \subseteq mine /\ "unsent" \in Gaps /\ Excuse("unsent", {pending[r]})
    BY <1>0 DEF Gaps, Crash
  <2> QED
    BY <2>1, Excusing
<1>2. \A s \in mine : Safe(s) => Safe(s)'
  BY <1>0, <1>1, SafeStays
<1>3. Owed' \subseteq Owed
  BY <1>0, <1>2, OwedShrinks
<1>4. PassedInv'
  BY <1>0, <1>2, PassedStays DEF GapInv
<1>5. \A s \in Owed' : s \in Unemitted <=> s \in Unemitted'
  <2>1. \A s \in Owed' : s # 0 /\ s # pending[r]
    BY <1>0, <1>1 DEF Owed, Safe
  <2>2. pending'[r] = 0 /\ \A q \in Relays \ {r} : pending'[q] = pending[q]
    BY Unpending DEF Crash
  <2> QED
    BY <2>1, <2>2 DEF Unemitted
<1> QED
  BY <1>0, <1>3, <1>4, <1>5, GapStays

LEMMA GapFetch ==
    ASSUME Base, GapInv,
           \/ Prune \/ FetchMessages \/ FetchStreamSeq \/ FetchDone \/ FetchFails
           \/ UNCHANGED vars
    PROVE  GapInv'
<1>0. /\ UNCHANGED <<mine, pending, link, srv, maxSeq, wire, syncing, held>>
      /\ last \in Nat /\ cursor \in Int /\ \A s \in mine : s \in Int /\ s <= last
  BY MineInRange DEF Prune, FetchMessages, FetchStreamSeq, FetchDone, FetchFails, vars, logVars,
                     serverVars, clientVars, Base, LogOK, ClientOK, None
<1>1. cursor' \in Int /\ cursor <= cursor' /\ (cursor' = cursor \/ FetchDone)
  <2>1. CASE FetchDone
    BY <1>0, <2>1, FetchEnds
  <2>2. CASE ~FetchDone
    BY <1>0, <2>2 DEF Prune, FetchMessages, FetchStreamSeq, FetchFails, vars, clientVars
  <2> QED
    BY <2>1, <2>2
<1>2. ASSUME FetchDone PROVE \A s \in mine : s <= cursor' \/ Safe(s) => Safe(s)'
  <2> SUFFICES ASSUME NEW s \in mine, s <= cursor' \/ Safe(s) PROVE s \in view' \cup AllExcused'
    BY DEF Safe
  <2>1. CASE s <= items
    BY <1>2, <2>1, FetchEnds
  <2>2. CASE ~(s <= items)
    <3>1. s > items /\ (s \in view => s <= cursor)
      BY <1>0, <2>2 DEF Base, CacheOK
    <3>2. fetch = "answered"
      BY <1>2 DEF FetchDone
    <3>3. s \in AllExcused \/ s <= cursor \/ s <= cursor'
      BY <3>1, <3>2, <2>2 DEF Safe
    <3>4. s \in AllExcused \/ s <= cursor'
      BY <1>0, <1>1, <3>3
    <3> QED
      BY <1>2, <3>1, <3>4, FetchEnds
  <2> QED
    BY <2>1, <2>2
<1>3. \A s \in mine : Safe(s) => Safe(s)'
  <2>1. CASE FetchDone
    BY <1>2, <2>1
  <2>2. CASE FetchMessages
    BY <1>0, <2>2 DEF FetchMessages, clientVars, Safe
  <2>3. CASE FetchStreamSeq
    BY <1>0, <2>3 DEF FetchStreamSeq, clientVars, Safe, AllExcused, Gaps
  <2>4. CASE Prune \/ UNCHANGED vars
    BY <1>0, <2>4 DEF Prune, vars, clientVars, cacheVars, Safe, AllExcused, Gaps
  <2>5. CASE FetchFails
    BY <2>5 DEF FetchFails, Safe
  <2> QED
    BY <2>1, <2>2, <2>3, <2>4, <2>5
<1>4. PassedInv'
  <2>1. CASE FetchDone
    BY <1>0, <1>2, <2>1 DEF PassedInv
  <2>2. CASE cursor' = cursor
    BY <1>0, <1>3, <2>2, PassedStays DEF GapInv
  <2> QED
    BY <1>1, <2>1, <2>2
<1>5. Owed' \subseteq Owed
  BY <1>0, <1>1, <1>3, OwedShrinks
<1>6. Unemitted' = Unemitted
  BY <1>0 DEF Unemitted
<1> QED
  BY <1>0, <1>4, <1>5, <1>6, GapStays

LEMMA GapAccept == ASSUME Base, GapInv, Accept PROVE GapInv'
<1>0. /\ UNCHANGED <<mine, cursor, view, fetch, items, excused>> /\ cursor \in Int
      /\ link' = "opening" /\ ~syncing' /\ wire' = << >>
  BY DEF Accept, logVars, clientVars, cacheVars, Base, ClientOK, WireOK, LogOK, None
<1>1. \A s \in mine : Safe(s) => Safe(s)'
  BY <1>0 DEF Safe, AllExcused, Gaps
<1>2. PassedInv'
  BY <1>0, <1>1, PassedStays DEF GapInv
<1> QED
  BY <1>0, <1>2 DEF GapInv, OpeningInv, LiveInv, BoundedInv, AnsweredInv

\* A page without a cursor goes live at once: what the connection does not bring is excused.
LEMMA GapConnect == ASSUME Base, GapInv, Connect PROVE GapInv'
<1> DEFINE S == (Missed \cap Sent) \ {wire[i].seq : i \in DOMAIN wire}
<1>0. /\ UNCHANGED <<mine, pending, wire, cursor, view, loaded, fetch, items>>
      /\ link = "opening" /\ link' = "up" /\ held' = {} /\ ~syncing /\ srv = "none"
      /\ cursor \in Int /\ \A s \in mine : s \in Int /\ s > 0
  BY MineInRange DEF Connect, logVars, cacheVars, Base, LogOK, ServerOK, ClientOK, None
<1>1. CASE MustSync
  <2>1. syncing' /\ srv' = "asked" /\ excused' = excused
    BY <1>1 DEF Connect
  <2>2. \A s \in mine : Safe(s) => Safe(s)'
    BY <1>0, <2>1 DEF Safe, AllExcused, Gaps
  <2>3. PassedInv'
    BY <1>0, <2>2, PassedStays DEF GapInv
  <2> QED
    BY <1>0, <2>1, <2>3 DEF GapInv, OpeningInv, LiveInv, BoundedInv, AnsweredInv
<1>2. CASE ~MustSync
  <2>1. syncing' = syncing /\ Excuse("unsynced", S) /\ cursor = None
    BY <1>2 DEF Connect, MustSync
  <2>2. AllExcused' = AllExcused \cup S
    <3>1. S \subseteq mine /\ "unsynced" \in Gaps
      BY DEF Missed, Sent, Gaps
    <3> HIDE DEF S
    <3> QED
      BY <2>1, <3>1, Excusing
  <2>3. \A s \in mine : Safe(s) => Safe(s)'
    BY <1>0, <2>2, SafeStays
  <2>4. PassedInv' /\ Owed' \subseteq Owed
    BY <1>0, <2>3, PassedStays, OwedShrinks DEF GapInv
  <2>5. \A s \in Owed' : OnWire(s) \/ s \in Unemitted
    <3> TAKE s \in Owed'
    <3>1. s \in mine /\ ~Safe(s) /\ s \notin S
      BY <1>0, <2>2, <2>4 DEF Owed, Safe
    <3>2. s \in Missed
      BY <1>0, <2>1, <3>1, MineInRange DEF Base, CacheOK, Safe, Missed
    <3>3. s \in Sent \/ s \in Unemitted
      BY <3>1 DEF Sent, Unemitted
    <3> QED
      BY <3>1, <3>2, <3>3 DEF OnWire
  <2>6. \A s \in Owed', j \in DOMAIN wire : s < wire[j].seq => Before(s, j)
    BY <1>0, <2>4, <2>5 DEF GapInv, OpeningInv
  <2>7. Follows(0)'
    BY <1>0, <2>5, <2>6 DEF Follows, OnWire, Before, Unemitted
  <2>8. link' = "up" /\ ~syncing'
    BY <1>0, <2>1
  <2> QED
    BY <2>4, <2>7, <2>8 DEF GapInv, OpeningInv, LiveInv, BoundedInv, AnsweredInv
<1> QED
  BY <1>1, <1>2

\* What is newer than the bounds is published after them.
LEMMA GapSyncBounds == ASSUME Base, GapInv, SyncBounds PROVE GapInv'
<1>0. /\ UNCHANGED <<mine, pending, link, wire, syncing, held, cursor, view, fetch, items, excused>>
      /\ srv' = "bounded" /\ maxSeq' = last /\ link = "up" /\ cursor \in Int /\ last \in Nat
      /\ \A s \in mine : s \in Int /\ s <= last
  BY MineInRange
     DEF SyncBounds, logVars, clientVars, cacheVars, Base, LogOK, ServerOK, ClientOK, None
<1>1. \A s \in mine : Safe(s) => Safe(s)'
  BY <1>0 DEF Safe, AllExcused, Gaps
<1>2. PassedInv' /\ Owed' \subseteq Owed
  BY <1>0, <1>1, PassedStays, OwedShrinks DEF GapInv
<1>3. LiveInv'
  <2>1. Follows(0) => Follows(0)'
    BY <1>0, <1>2 DEF Follows, OnWire, Before, Unemitted
  <2> QED
    BY <1>0, <2>1 DEF GapInv, LiveInv
<1>4. \A n : last = n => Follows(n)'
  <2> TAKE n
  <2>1. \A s \in Owed' : ~(s > last)
    BY <1>0 DEF Owed
  <2> QED
    BY <2>1 DEF Follows
<1>5. BoundedInv' /\ AnsweredInv' /\ OpeningInv'
  BY <1>0, <1>4 DEF BoundedInv, AnsweredInv, OpeningInv
<1> QED
  BY <1>2, <1>3, <1>5 DEF GapInv

LEMMA GapSyncReplay == ASSUME Base, GapInv, SyncReplay PROVE GapInv'
<1>0. /\ UNCHANGED <<mine, pending, link, syncing, held, cursor, view, fetch, items>>
      /\ srv = "bounded" /\ srv' = "none" /\ link = "up"
      /\ cursor \in Int /\ maxSeq \in Int /\ minSeq \in Int /\ syncFrom \in Int
      /\ syncFrom <= cursor /\ maxSeq \in 0..MaxSeq /\ (maxSeq > 0 => minSeq > 0)
      /\ \A s \in mine : s \in Int /\ s > 0
  <2>1. \A s \in mine : s \in Int /\ s > 0
    BY MineInRange
  <2>2. maxSeq \in 0..MaxSeq /\ minSeq \in Int /\ last \in Nat
    BY SyncAssumption DEF Base, LogOK, ServerOK
  <2>3. cursor \in Int /\ syncFrom \in Int /\ syncFrom <= cursor
    BY <2>2 DEF Base, ClientOK, None
  <2> QED
    BY <2>1, <2>2, <2>3 DEF SyncReplay, logVars, clientVars, cacheVars, Base, ServerOK
<1>1. PICK resync \in BOOLEAN :
         \E replay \in Ascending(IF resync THEN {} ELSE Rows) : AnswersWith(resync, replay)
  BY Replayed
<1> PICK replay \in Ascending(IF resync THEN {} ELSE Rows) : AnswersWith(resync, replay)
  BY <1>1
<1> DEFINE missing == IF resync THEN {} ELSE {s \in Wanted \ Rows : s >= minSeq}
<1>2. /\ wire' \in Seq(Msg) /\ Len(wire') = Len(wire) + Len(replay) + 1 /\ Len(replay) \in Nat
      /\ \A i \in 1..Len(wire) : wire'[i] = wire[i]
      /\ \A i \in 1..Len(replay) : wire'[Len(wire) + i].seq = replay[i]
      /\ wire'[Len(wire')] = [seq |-> 0, upTo |-> maxSeq, resync |-> resync]
      /\ Excuse("pruned", missing)
      /\ syncFrom < maxSeq /\ TooOld(syncFrom) => resync
  BY DEF AnswersWith
<1>3. AllExcused' = AllExcused \cup missing
  <2>1. missing \subseteq mine /\ "pruned" \in Gaps
    BY DEF Wanted, Gaps
  <2> HIDE DEF missing
  <2> QED
    BY <1>2, <2>1, Excusing
<1>4. \A s \in mine : Safe(s) => Safe(s)'
  BY <1>0, <1>3, SafeStays
<1>5. PassedInv' /\ Owed' \subseteq Owed
  BY <1>0, <1>4, PassedStays, OwedShrinks DEF GapInv
<1>6. /\ \A i \in 1..Len(replay) : replay[i] \in Rows /\ ~resync
      /\ \A i, j \in 1..Len(replay) : i < j => replay[i] < replay[j]
      /\ ~resync => \A s \in Rows : \E i \in 1..Len(replay) : replay[i] = s
  <2>1. (IF resync THEN {} ELSE Rows) \subseteq mine
    BY DEF Rows, Wanted
  <2> QED
    BY <2>1, AscendingIsSeq
<1>7. \A s \in Owed' : s <= maxSeq => resync \/ \E i \in 1..Len(replay) : replay[i] = s
  <2> SUFFICES ASSUME NEW s \in Owed', s <= maxSeq, ~resync PROVE s \in Rows
    BY <1>6
  <2>1. s \in mine /\ s > cursor /\ s \notin missing
    BY <1>0, <1>3, <1>5 DEF Owed, Safe
  <2>2. s \in Wanted /\ syncFrom < maxSeq /\ s > syncFrom /\ maxSeq > 0
    BY <1>0, <2>1 DEF Wanted
  <2>3. s \in Rows \/ ~(s >= minSeq)
    BY <2>1, <2>2
  <2>4. ~(s >= minSeq) => TooOld(syncFrom)
    BY <1>0, <2>1, <2>2 DEF TooOld
  <2> QED
    BY <1>2, <2>2, <2>3, <2>4
<1>8. /\ DOMAIN wire' = 1..(Len(wire) + Len(replay) + 1) /\ DOMAIN wire = 1..Len(wire)
      /\ Len(wire) \in Nat
  BY <1>2 DEF Base, WireOK
<1>9. \A j \in DOMAIN wire' : \/ j \in DOMAIN wire /\ wire'[j] = wire[j]
                              \/ /\ j - Len(wire) \in 1..Len(replay)
                                 /\ wire'[j].seq = replay[j - Len(wire)]
                              \/ j = Len(wire') /\ wire'[j].seq = 0
  <2> TAKE j \in DOMAIN wire'
  <2>1. CASE j \in 1..Len(wire)
    BY <1>2, <1>8, <2>1
  <2>2. CASE j = Len(wire')
    BY <1>2, <2>2
  <2>3. CASE j > Len(wire) /\ j # Len(wire')
    <3>0. /\ j \in Nat /\ Len(wire) \in Nat /\ Len(replay) \in Nat
          /\ j <= Len(wire) + Len(replay) + 1 /\ j # Len(wire) + Len(replay) + 1
      BY <1>2, <1>8, <2>3
    <3>1. j - Len(wire) \in 1..Len(replay) /\ j = Len(wire) + (j - Len(wire))
      BY <2>3, <3>0
    <3> QED
      BY <1>2, <3>1
  <2> QED
    BY <1>8, <2>1, <2>2, <2>3
<1>10. \A s, k : (OnWire(s) => OnWire(s)') /\ (Before(s, k) => Before(s, k)')
  BY <1>2, <1>8 DEF OnWire, Before
<1>11. \A s, k : \A i \in 1..Len(replay) : replay[i] = s /\ i + Len(wire) < k => Before(s, k)'
  <2> SUFFICES ASSUME NEW s, NEW k, NEW i \in 1..Len(replay), replay[i] = s, i + Len(wire) < k
               PROVE  Before(s, k)'
    OBVIOUS
  <2>1. i + Len(wire) \in DOMAIN wire' /\ wire'[i + Len(wire)].seq = s
    BY <1>2, <1>8
  <2> QED
    BY <2>1 DEF Before
<1>12. ASSUME ~syncing PROVE Follows(0)'
  <2> SUFFICES ASSUME NEW s \in Owed'
               PROVE  /\ s \in held \/ OnWire(s)' \/ s \in Unemitted
                      /\ \A t \in held : s < t => s \in held
                      /\ \A j \in DOMAIN wire' : s < wire'[j].seq => s \in held \/ Before(s, j)'
    BY <1>0 DEF Follows, Unemitted
  <2>1. /\ s \in held \/ OnWire(s) \/ s \in Unemitted
        /\ \A t \in held : s < t => s \in held
        /\ \A j \in DOMAIN wire : s < wire[j].seq => s \in held \/ Before(s, j)
    <3>1. Follows(0) /\ s \in Owed /\ s > 0
      BY <1>0, <1>5, <1>12 DEF GapInv, LiveInv, Owed
    <3> QED
      BY <3>1 DEF Follows
  <2>2. ASSUME NEW j \in DOMAIN wire', s < wire'[j].seq PROVE s \in held \/ Before(s, j)'
    <3>1. CASE j \in DOMAIN wire /\ wire'[j] = wire[j]
      BY <1>10, <2>1, <2>2, <3>1
    <3>2. CASE j - Len(wire) \in 1..Len(replay) /\ wire'[j].seq = replay[j - Len(wire)]
      <4>1. replay[j - Len(wire)] \in Rows /\ ~resync
        BY <1>6, <3>2
      <4>2. s <= maxSeq
        BY <1>0, <2>2, <3>2, <4>1 DEF Rows, Wanted, Owed
      <4>3. PICK i \in 1..Len(replay) : replay[i] = s
        BY <1>7, <4>1, <4>2
      <4>4. i < j - Len(wire)
        <5>1. \A m \in 1..Len(replay) : replay[m] \in Int
          BY <1>0, <1>6 DEF Rows, Wanted
        <5>2. ~(j - Len(wire) < i) /\ j - Len(wire) # i
          BY <1>6, <2>2, <3>2, <4>3, <5>1
        <5> QED
          BY <1>2, <3>2, <5>2
      <4>5. i + Len(wire) < j
        BY <1>2, <1>8, <3>2, <4>4
      <4> QED
        BY <1>11, <4>3, <4>5
    <3>3. CASE wire'[j].seq = 0
      BY <1>0, <2>2, <3>3 DEF Owed
    <3> QED
      BY <1>9, <3>1, <3>2, <3>3
  <2> QED
    BY <1>10, <2>1, <2>2
<1>13. ASSUME syncing, NEW n, n = maxSeq PROVE Follows(n)'
  <2> SUFFICES ASSUME NEW s \in Owed', s > n
               PROVE  /\ s \in held \/ OnWire(s)' \/ s \in Unemitted
                      /\ \A t \in held : s < t => s \in held
                      /\ \A j \in DOMAIN wire' : s < wire'[j].seq => s \in held \/ Before(s, j)'
    BY <1>0 DEF Follows, Unemitted
  <2>1. /\ s \in held \/ OnWire(s) \/ s \in Unemitted
        /\ \A t \in held : s < t => s \in held
        /\ \A j \in DOMAIN wire : s < wire[j].seq => s \in held \/ Before(s, j)
    <3>1. Follows(n) /\ s \in Owed
      BY <1>0, <1>5, <1>13 DEF GapInv, BoundedInv
    <3> QED
      BY <3>1 DEF Follows
  <2>2. ASSUME NEW j \in DOMAIN wire', s < wire'[j].seq
        PROVE  j \in DOMAIN wire /\ wire'[j] = wire[j]
    <3>1. CASE j - Len(wire) \in 1..Len(replay) /\ wire'[j].seq = replay[j - Len(wire)]
      <4>1. replay[j - Len(wire)] \in Rows
        BY <1>6, <3>1
      <4> QED
        BY <1>0, <1>13, <2>2, <3>1, <4>1 DEF Rows, Wanted, Owed
    <3>2. CASE wire'[j].seq = 0
      BY <1>0, <2>2, <3>2 DEF Owed
    <3> QED
      BY <1>9, <3>1, <3>2
  <2> QED
    BY <1>10, <2>1, <2>2
<1>14. AnsweredInv'
  <2> SUFFICES ASSUME syncing, NEW k \in DOMAIN wire', NEW n \in 0..MaxSeq,
                      wire'[k].seq = 0, wire'[k].upTo = n
               PROVE  /\ Follows(n)'
                      /\ \A s \in Owed' : s <= n => wire'[k].resync \/ s \in held \/ Before(s, k)'
    BY <1>0 DEF AnsweredInv
  <2>1. k = Len(wire')
    <3>1. \A i \in DOMAIN wire : wire[i].seq # 0
      BY <1>0 DEF Base, WireOK
    <3>2. \A i \in 1..Len(replay) : replay[i] # 0
      BY <1>0, <1>6 DEF Rows, Wanted
    <3> QED
      BY <1>9, <3>1, <3>2
  <2>2. n = maxSeq /\ wire'[k].resync = resync
    BY <1>2, <2>1
  <2>3. ASSUME NEW s \in Owed', s <= n, ~resync PROVE Before(s, k)'
    <3>1. PICK i \in 1..Len(replay) : replay[i] = s
      BY <1>7, <2>2, <2>3
    <3>2. i + Len(wire) < k
      BY <1>2, <1>8, <2>1
    <3> QED
      BY <1>11, <3>1, <3>2
  <2> QED
    BY <1>13, <2>2, <2>3
<1>15. LiveInv' /\ BoundedInv' /\ OpeningInv'
  BY <1>0, <1>12 DEF LiveInv, BoundedInv, OpeningInv
<1> QED
  BY <1>5, <1>14, <1>15 DEF GapInv

\* What the rest of the wire has lost is what was received.
LEMMA Shifts ==
    ASSUME Base, Receive
    PROVE  /\ \A s : OnWire(s) => s = wire[1].seq \/ OnWire(s)'
           /\ \A j \in DOMAIN wire' : j + 1 \in DOMAIN wire /\ wire'[j] = wire[j + 1]
           /\ \A s, j, k : Before(s, k) /\ k = j + 1 /\ j \in DOMAIN wire' =>
                              s = wire[1].seq \/ Before(s, j)'
           /\ \A s : ~Before(s, 1)
           /\ 1 \in DOMAIN wire /\ Head(wire) = wire[1]
<1>1. /\ wire \in Seq(Msg) /\ wire' \in Seq(Msg) /\ Len(wire) \in Nat \ {0}
      /\ Len(wire') = Len(wire) - 1
      /\ \A i \in 1..Len(wire') : wire'[i] = wire[i + 1] /\ i + 1 \in 1..Len(wire)
  BY Received DEF Base, WireOK
<1>2. DOMAIN wire = 1..Len(wire) /\ DOMAIN wire' = 1..Len(wire')
  BY <1>1
<1>3. \A i \in DOMAIN wire : i = 1 \/ (i - 1 \in DOMAIN wire' /\ wire'[i - 1] = wire[i])
  <2> TAKE i \in DOMAIN wire
  <2>1. i # 1 => i - 1 \in 1..Len(wire') /\ (i - 1) + 1 = i
    BY <1>1, <1>2
  <2> QED
    BY <1>1, <1>2, <2>1
<1>4. \A s : OnWire(s) => s = wire[1].seq \/ OnWire(s)'
  BY <1>3 DEF OnWire
<1>5. \A s, j, k : Before(s, k) /\ k = j + 1 /\ j \in DOMAIN wire' =>
                     s = wire[1].seq \/ Before(s, j)'
  <2> SUFFICES ASSUME NEW s, NEW j \in DOMAIN wire', NEW i \in DOMAIN wire, i < j + 1,
                      wire[i].seq = s, i # 1
               PROVE  Before(s, j)'
    BY DEF Before
  <2>1. i - 1 \in DOMAIN wire' /\ wire'[i - 1].seq = s
    BY <1>3
  <2>2. i - 1 < j
    BY <1>1, <1>2
  <2> QED
    BY <2>1, <2>2 DEF Before
<1>6. \A s : ~Before(s, 1)
  BY <1>2 DEF Before
<1> QED
  BY <1>1, <1>2, <1>4, <1>5, <1>6

LEMMA GapAnswer == ASSUME Base, GapInv, Receive, ReceivesAnswer PROVE GapInv'
<1> DEFINE from == Largest({cursor, wire[1].upTo})
<1>0. /\ UNCHANGED <<mine, pending, link, srv, syncFrom, items, loaded, excused>>
      /\ link = "up" /\ syncing /\ ~syncing' /\ held' = {} /\ Resync(wire[1].resync)
      /\ Apply(held, syncFrom, from)
      /\ \A s \in mine : s \in Int /\ s > 0
      /\ held \subseteq mine /\ syncFrom \in Int /\ syncFrom <= cursor /\ cursor \in Int
      /\ (~loaded => fetch # "idle") /\ wire[1].seq = 0 /\ last \in Nat
  <2>1. Head(wire) = wire[1]
    BY Shifts
  <2>2. /\ last \in Nat /\ held \subseteq mine
        /\ cursor \in Int /\ syncFrom \in Int /\ syncFrom <= cursor
    BY DEF Base, LogOK, ClientOK, None
  <2>3. link = "up" /\ UNCHANGED <<mine, pending, link, srv, syncFrom, items, loaded, excused>>
    BY DEF Receive, logVars, serverVars
  <2> QED
    BY <2>1, <2>2, <2>3, MineInRange DEF ReceivesAnswer, HandleAck, Base, CacheOK
<1>1. /\ from \in cursor..last /\ from \in Int /\ wire[1].upTo \in 0..last
      /\ wire[1].upTo <= from /\ (from = cursor \/ from = wire[1].upTo)
  BY AnswerCursor
<1>2. /\ cursor' \in from..last /\ applied \subseteq applied' /\ \A s \in applied' : s <= cursor'
      /\ view \subseteq view'
      /\ \A s \in held : \/ s \in applied \/ Stale(s, syncFrom)
                         \/ (s <= cursor' /\ (loaded => s \in view'))
      /\ cursor' = from \/ cursor' \in held
  <2> HIDE DEF from
  <2> QED
    BY <1>0, <1>1, Applying
<1>3. cursor' \in Int /\ cursor <= cursor' /\ from <= cursor'
  BY <1>0, <1>1, <1>2
<1>4. \A s \in held : s <= cursor'
  BY <1>0, <1>2, <1>3 DEF Stale
<1>5. \A s \in held : s > cursor /\ loaded => s \in view'
  BY <1>0, <1>2 DEF Stale, Base, ClientOK
<1>6. srv = "none"
  BY <1>0, Shifts DEF Base, WireOK
<1>7. /\ \A n \in 0..MaxSeq : wire[1].upTo = n => Follows(n)
      /\ \A s \in Owed : s <= wire[1].upTo => wire[1].resync \/ s \in held
  <2>1. wire[1].upTo \in 0..MaxSeq /\ 1 \in DOMAIN wire
    BY <1>0, <1>1, SyncAssumption, Shifts DEF Base, LogOK
  <2> QED
    BY <1>0, <1>6, <2>1, Shifts DEF GapInv, AnsweredInv
<1>8. fetch' = fetch \/ fetch' = "wanted"
  BY <1>0 DEF Resync
<1>9. \A s \in mine : Safe(s) => Safe(s)'
  <2>1. AllExcused' = AllExcused
    BY <1>0 DEF AllExcused, Gaps
  <2> QED
    BY <1>0, <1>2, <1>3, <1>8, <2>1, SafeStays
<1>10. Owed' \subseteq Owed
  BY <1>0, <1>3, <1>9, OwedShrinks
<1>11. CASE fetch' = "wanted"
  <2>1. \A s \in mine' : Safe(s)'
    BY <1>11 DEF Safe
  <2> QED
    BY <2>1, AllSafe
<1>12. CASE fetch' = fetch /\ fetch # "wanted"
  <2>1. loaded => wire[1].resync = FALSE
    <3>1. wire[1].resync \in BOOLEAN
      BY AnswerCursor
    <3> QED
      BY <1>0, <1>12, <3>1 DEF Resync
  <2>2. Follows(wire[1].upTo)
    <3>1. wire[1].upTo \in 0..MaxSeq
      BY <1>1, SyncAssumption DEF Base, LogOK
    <3> QED
      BY <1>7, <3>1
  <2>3. PassedInv'
    <3> SUFFICES ASSUME NEW s \in mine, s <= cursor' PROVE Safe(s)'
      BY <1>0 DEF PassedInv
    <3>1. CASE fetch # "idle"
      BY <1>12, <3>1 DEF Safe, Base, CacheOK
    <3>2. CASE s <= cursor
      BY <1>9, <3>2 DEF GapInv, PassedInv
    <3>3. CASE fetch = "idle" /\ ~(s <= cursor) /\ Safe(s)
      BY <1>9, <3>3
    <3>4. CASE fetch = "idle" /\ ~(s <= cursor) /\ ~Safe(s)
      <4>1. s \in Owed /\ loaded /\ s > cursor
        BY <1>0, <3>4 DEF Owed
      <4>2. s \in held
        <5>1. CASE s <= wire[1].upTo
          BY <1>7, <2>1, <4>1, <5>1
        <5>2. CASE s > wire[1].upTo
          <6>1. cursor' \in held
            BY <1>0, <1>1, <1>2, <3>4, <5>2
          <6>2. s = cursor' \/ s < cursor'
            BY <1>0, <1>3
          <6> QED
            BY <2>2, <4>1, <5>2, <6>1, <6>2 DEF Follows
        <5> QED
          BY <1>0, <1>1, <5>1, <5>2
      <4> QED
        BY <1>5, <4>1, <4>2 DEF Safe
    <3> QED
      BY <3>1, <3>2, <3>3, <3>4
  <2>4. Follows(0)'
    <3> SUFFICES ASSUME NEW s \in Owed'
                 PROVE  /\ OnWire(s)' \/ s \in Unemitted
                        /\ \A j \in DOMAIN wire' : s < wire'[j].seq => Before(s, j)'
      BY <1>0 DEF Follows, Unemitted
    <3>1. s \in Owed /\ s \in mine /\ s > cursor'
      BY <1>0, <1>10 DEF Owed
    <3>2. s \notin held /\ s > wire[1].upTo /\ s # wire[1].seq
      BY <1>0, <1>1, <1>3, <1>4, <3>1
    <3>3. /\ OnWire(s) \/ s \in Unemitted
          /\ \A j \in DOMAIN wire : s < wire[j].seq => Before(s, j)
      BY <2>2, <3>1, <3>2 DEF Follows
    <3> QED
      BY <3>2, <3>3, Shifts
  <2> QED
    BY <1>0, <2>3, <2>4 DEF GapInv, LiveInv, OpeningInv, BoundedInv, AnsweredInv
<1> QED
  BY <1>8, <1>11, <1>12

LEMMA GapIgnore == ASSUME Base, GapInv, Receive, IgnoresAnswer PROVE GapInv'
<1>0. /\ UNCHANGED <<mine, pending, link, srv, items, excused, cursor, syncing, held, view, fetch>>
      /\ link = "up" /\ ~syncing /\ cursor \in Int /\ wire[1].seq = 0
      /\ \A s \in mine : s \in Int /\ s > 0
  BY Shifts, MineInRange
     DEF Receive, logVars, serverVars, IgnoresAnswer, Base, LogOK, ClientOK, None
<1>1. \A s \in mine : Safe(s) => Safe(s)'
  BY <1>0 DEF Safe, AllExcused, Gaps
<1>2. PassedInv' /\ Owed' \subseteq Owed
  BY <1>0, <1>1, PassedStays, OwedShrinks DEF GapInv
<1>3. Follows(0)'
  <2> SUFFICES ASSUME NEW s \in Owed'
               PROVE  /\ s \in held \/ OnWire(s)' \/ s \in Unemitted
                      /\ \A t \in held : s < t => s \in held
                      /\ \A j \in DOMAIN wire' : s < wire'[j].seq => s \in held \/ Before(s, j)'
    BY <1>0 DEF Follows, Unemitted
  <2>1. s \in Owed /\ s > 0 /\ s # wire[1].seq
    BY <1>0, <1>2 DEF Owed
  <2>2. Follows(0)
    BY <1>0 DEF GapInv, LiveInv
  <2> QED
    BY <2>1, <2>2, Shifts DEF Follows
<1> QED
  BY <1>0, <1>2, <1>3 DEF GapInv, LiveInv, OpeningInv, BoundedInv, AnsweredInv

LEMMA GapHold == ASSUME Base, GapInv, Receive, HoldsEvent PROVE GapInv'
<1>0. /\ UNCHANGED <<mine, pending, link, srv, maxSeq, items, excused, cursor, syncing, applied,
                     view, fetch>>
      /\ link = "up" /\ syncing /\ cursor \in Int /\ held' = held \cup {wire[1].seq}
      /\ wire[1].seq # 0
      /\ \A s \in mine : s \in Int /\ s > 0
  BY Shifts, MineInRange DEF Receive, logVars, serverVars, HoldsEvent, Base, LogOK, ClientOK, None
<1>1. \A s \in mine : Safe(s) => Safe(s)'
  BY <1>0 DEF Safe, AllExcused, Gaps
<1>2. PassedInv' /\ Owed' \subseteq Owed
  BY <1>0, <1>1, PassedStays, OwedShrinks DEF GapInv
<1>3. \A n : Follows(n) => Follows(n)'
  <2> TAKE n
  <2> SUFFICES ASSUME Follows(n), NEW s \in Owed', s > n
               PROVE  /\ s \in held' \/ OnWire(s)' \/ s \in Unemitted
                      /\ \A t \in held' : s < t => s \in held'
                      /\ \A j \in DOMAIN wire' : s < wire'[j].seq => s \in held' \/ Before(s, j)'
    BY <1>0 DEF Follows, Unemitted
  <2>1. /\ s \in held \/ OnWire(s) \/ s \in Unemitted
        /\ \A t \in held : s < t => s \in held
        /\ \A j \in DOMAIN wire : s < wire[j].seq => s \in held \/ Before(s, j)
    BY <1>2 DEF Follows
  <2>2. \A t \in held' : s < t => s \in held'
    BY <1>0, <2>1, Shifts
  <2>3. \A j \in DOMAIN wire' : s < wire'[j].seq => s \in held' \/ Before(s, j)'
    BY <1>0, <2>1, Shifts
  <2>4. s \in held' \/ OnWire(s)' \/ s \in Unemitted
    BY <1>0, <2>1, Shifts
  <2> QED
    BY <2>2, <2>3, <2>4
<1>4. BoundedInv'
  BY <1>0, <1>3 DEF GapInv, BoundedInv
<1>5. AnsweredInv'
  <2> SUFFICES ASSUME srv = "none", NEW k \in DOMAIN wire', NEW n \in 0..MaxSeq,
                      wire'[k].seq = 0, wire'[k].upTo = n
               PROVE  /\ Follows(n)'
                      /\ \A s \in Owed' : s <= n => wire'[k].resync \/ s \in held' \/ Before(s, k)'
    BY <1>0 DEF AnsweredInv
  <2>1. k + 1 \in DOMAIN wire /\ wire'[k] = wire[k + 1]
    BY Shifts
  <2>2. /\ Follows(n)
        /\ \A s \in Owed : s <= n => wire[k + 1].resync \/ s \in held \/ Before(s, k + 1)
    BY <1>0, <2>1 DEF GapInv, AnsweredInv
  <2>3. \A s : Before(s, k + 1) => s \in held' \/ Before(s, k)'
    BY <1>0, Shifts
  <2> QED
    BY <1>0, <1>2, <1>3, <2>1, <2>2, <2>3
<1> QED
  BY <1>0, <1>2, <1>4, <1>5 DEF GapInv, LiveInv, OpeningInv

LEMMA GapApply == ASSUME Base, GapInv, Receive, AppliesEvent PROVE GapInv'
<1>0. /\ UNCHANGED <<mine, pending, link, srv, items, excused, syncing, held, fetch>>
      /\ link = "up" /\ ~syncing /\ cursor \in Int /\ held = {} /\ wire[1].seq # 0
      /\ Apply({wire[1].seq}, cursor, cursor) /\ wire[1].seq \in mine
      /\ \A s \in mine : s \in Int /\ s > 0
      /\ (~loaded => fetch # "idle") /\ cursor \in cursor..last
      /\ \A s \in applied : s <= cursor
  <2>1. wire[1].seq # 0 /\ ~syncing /\ Apply({wire[1].seq}, cursor, cursor)
    BY Shifts DEF AppliesEvent
  <2>2. last \in Nat /\ cursor \in Int /\ cursor \in cursor..last /\ held = {}
    BY <2>1 DEF Base, LogOK, ClientOK, None
  <2>3. wire[1].seq \in mine
    BY <2>1, Shifts DEF Base, WireOK
  <2> QED
    BY <2>1, <2>2, <2>3, MineInRange
       DEF Receive, logVars, serverVars, AppliesEvent, Base, CacheOK, ClientOK
<1>1. /\ cursor' \in cursor..last /\ \A s \in applied' : s <= cursor'
      /\ applied \subseteq applied' /\ view \subseteq view'
      /\ \A s \in {wire[1].seq} : \/ s \in applied \/ Stale(s, cursor)
                                  \/ (s <= cursor' /\ (loaded => s \in view'))
      /\ cursor' = cursor \/ cursor' = wire[1].seq
  <2> DEFINE S == {wire[1].seq}
  <2>1. S \subseteq mine /\ Apply(S, cursor, cursor)
    BY <1>0
  <2> HIDE DEF S
  <2>2. /\ cursor' \in cursor..last /\ \A s \in applied' : s <= cursor'
        /\ applied \subseteq applied' /\ view \subseteq view'
        /\ \A s \in S : \/ s \in applied \/ Stale(s, cursor)
                       \/ (s <= cursor' /\ (loaded => s \in view'))
        /\ cursor' = cursor \/ cursor' \in S
    BY <1>0, <2>1, Applying
  <2> QED
    BY <2>2 DEF S
<1>2. cursor' \in Int /\ cursor <= cursor' /\ wire[1].seq <= cursor'
  BY <1>0, <1>1 DEF Stale
<1>3. \A s \in mine : Safe(s) => Safe(s)'
  <2>1. AllExcused' = AllExcused
    BY <1>0 DEF AllExcused, Gaps
  <2> QED
    BY <1>0, <1>1, <1>2, <2>1, SafeStays
<1>4. Owed' \subseteq Owed
  BY <1>0, <1>2, <1>3, OwedShrinks
<1>5. Follows(0)
  BY <1>0 DEF GapInv, LiveInv
<1>6. PassedInv'
  <2> SUFFICES ASSUME NEW s \in mine, s <= cursor' PROVE Safe(s)'
    BY <1>0 DEF PassedInv
  <2>1. CASE Safe(s) \/ s <= cursor
    BY <1>3, <2>1 DEF GapInv, PassedInv
  <2>2. CASE ~Safe(s) /\ ~(s <= cursor)
    <3>1. s \in Owed /\ s > cursor /\ s > 0
      BY <1>0, <2>2 DEF Owed
    <3>2. cursor' = wire[1].seq
      BY <1>1, <2>2
    <3>3. ~(s < wire[1].seq)
      BY <1>0, <1>5, <3>1, Shifts DEF Follows
    <3>4. s = wire[1].seq
      BY <1>0, <3>2, <3>3
    <3>5. loaded => s \in view'
      BY <1>0, <1>1, <3>1, <3>4 DEF Stale
    <3> QED
      BY <1>0, <3>5 DEF Safe, Base, CacheOK
  <2> QED
    BY <2>1, <2>2
<1>7. Follows(0)'
  <2> SUFFICES ASSUME NEW s \in Owed'
               PROVE  /\ OnWire(s)' \/ s \in Unemitted
                      /\ \A j \in DOMAIN wire' : s < wire'[j].seq => Before(s, j)'
    BY <1>0 DEF Follows, Unemitted
  <2>1. s \in Owed /\ s > 0 /\ s # wire[1].seq
    BY <1>0, <1>2, <1>4 DEF Owed
  <2>2. /\ OnWire(s) \/ s \in Unemitted
        /\ \A j \in DOMAIN wire : s < wire[j].seq => Before(s, j)
    BY <1>0, <1>5, <2>1 DEF Follows
  <2> QED
    BY <2>1, <2>2, Shifts
<1> QED
  BY <1>0, <1>6, <1>7 DEF GapInv, LiveInv, OpeningInv, BoundedInv, AnsweredInv

LEMMA GapGiveUp == ASSUME Base, GapInv, AckTimeout \/ Drop PROVE GapInv'
<1>0. /\ UNCHANGED <<mine, loaded, items>> /\ GiveUpSync /\ held' = {} /\ ~syncing'
      /\ held \subseteq mine /\ cursor \in Int /\ cursor \in cursor..last
      /\ syncFrom \in Int /\ syncFrom <= cursor
      /\ \A s \in mine : s \in Int
      /\ (~loaded => fetch # "idle")
      /\ fetch \in {"idle", "wanted", "read", "answered"} /\ items \in Int
      /\ \A s \in applied : s <= cursor
  <2>1. last \in Nat /\ cursor \in Int /\ cursor \in cursor..last /\ syncFrom \in Int
    BY DEF Base, LogOK, ClientOK, None
  <2>2. held \subseteq mine /\ syncFrom <= cursor /\ \A s \in applied : s <= cursor
    BY DEF Base, ClientOK
  <2> QED
    BY <2>1, <2>2, MineInRange DEF AckTimeout, Drop, logVars, GiveUpSync, Base, CacheOK
<1>1. Apply(held, syncFrom, cursor) /\ Resync(syncing)
  BY <1>0 DEF GiveUpSync
<1>2. /\ cursor' \in cursor..last /\ applied \subseteq applied' /\ \A s \in applied' : s <= cursor'
      /\ view \subseteq view'
      /\ \A s \in held : \/ s \in applied \/ Stale(s, syncFrom)
                         \/ (s <= cursor' /\ (loaded => s \in view'))
      /\ cursor' = cursor \/ cursor' \in held
  BY <1>0, <1>1, Applying
<1>3. cursor' \in Int /\ cursor <= cursor' /\ \A s \in held : s <= cursor'
  BY <1>0, <1>2 DEF Stale
<1> DEFINE S == IF syncing /\ ~loaded THEN Missed \ held ELSE {}
<1>4. AllExcused' = AllExcused \cup S
  <2>1. S \subseteq mine /\ "swallowed" \in Gaps /\ Excuse("swallowed", S)
    BY <1>0 DEF Missed, Gaps, GiveUpSync
  <2> HIDE DEF S
  <2> QED
    BY <2>1, Excusing
<1>5. CASE syncing
  <2>1. \A s \in mine : Safe(s)'
    <3>1. CASE loaded
      BY <1>1, <1>5, <3>1 DEF Resync, Safe
    <3>2. CASE ~loaded
      <4> TAKE s \in mine
      <4>1. fetch' = fetch /\ fetch \in {"wanted", "read", "answered"}
        BY <1>0, <1>1, <3>2 DEF Resync
      <4>2. CASE fetch = "wanted"
        BY <4>1, <4>2 DEF Safe
      <4>3. CASE fetch # "wanted" /\ (s <= items \/ s \in held)
        BY <1>0, <1>3, <4>1, <4>3 DEF Safe
      <4>4. CASE fetch # "wanted" /\ ~(s <= items) /\ s \notin held
        BY <1>0, <1>4, <1>5, <3>2, <4>4 DEF Safe, Missed
      <4> QED
        BY <4>2, <4>3, <4>4
    <3> QED
      BY <3>1, <3>2
  <2> QED
    BY <1>0, <2>1, AllSafe
<1>6. CASE ~syncing
  <2>1. Drop /\ held = {}
    BY <1>6 DEF AckTimeout, Base, ClientOK
  <2>2. cursor' = cursor /\ fetch' = fetch /\ link' = "down"
    BY <1>1, <1>2, <1>6, <2>1 DEF Resync, Drop
  <2>3. \A s \in mine : Safe(s) => Safe(s)'
    BY <1>0, <1>2, <1>3, <1>4, <2>2, SafeStays
  <2>4. PassedInv'
    BY <1>0, <2>2, <2>3, PassedStays DEF GapInv
  <2> QED
    BY <1>0, <2>2, <2>4 DEF GapInv, LiveInv, OpeningInv, BoundedInv, AnsweredInv
<1> QED
  BY <1>0, <1>5, <1>6 DEF Base, ClientOK

LEMMA GapNext == ASSUME Base, GapInv, [Next]_vars PROVE GapInv'
<1>1. ASSUME NEW r \in Relays, Publish(r, TRUE) \/ Publish(r, FALSE) \/ Emit(r) \/ Crash(r)
      PROVE  GapInv'
  BY <1>1, GapPublish, GapEmit, GapCrash
<1>2. CASE \/ Prune \/ FetchMessages \/ FetchStreamSeq \/ FetchDone \/ FetchFails
           \/ UNCHANGED vars
  BY <1>2, GapFetch
<1>3. CASE Accept \/ Connect \/ SyncBounds \/ SyncReplay
  BY <1>3, GapAccept, GapConnect, GapSyncBounds, GapSyncReplay
<1>4. CASE Receive
  BY <1>4, ReceiveCases, GapAnswer, GapIgnore, GapHold, GapApply
<1>5. CASE AckTimeout \/ Drop
  BY <1>5, GapGiveUp
<1>6. CASE Load
  <2>1. \A s \in mine' : Safe(s)'
    BY <1>6 DEF Load, Safe
  <2> QED
    BY <2>1, AllSafe
<1> QED
  BY <1>1, <1>2, <1>3, <1>4, <1>5, <1>6 DEF Next, Server, Fetch

\* A settled client shows every event of its stream up to its cursor, except in the six ways
\* named by Gaps (socket.ts:234, sync.handler.ts:64): what is behind the cursor is shown, in a
\* gap, or found by the fetch under way; what is owed to the client is on its way, and an
\* event that overtakes another leaves it in a gap.
THEOREM GapsAreKnown == Spec => []NoUnknownGap
<1>1. GapInv => NoUnknownGap
  BY DEF GapInv, PassedInv, Safe, NoUnknownGap, Settled
<1> QED
  BY <1>1, BaseInit, BaseNext, GapInit, GapNext, PTL DEF Spec
===============================================================================
