----------------------------- MODULE RealtimeSync -----------------------------
(***************************************************************************)
(* A customer's browser on its `conversation` stream: live events from the *)
(* relays, `sync` after a reconnect (platform-kernel/realtime), the client *)
(* in apps/web/src/data/socket.ts with its cursor, and the thread fetched  *)
(* over REST into the query cache (messaging, apps/web data/conversation). *)
(*                                                                         *)
(* The log is EventLog's: numbers are dense, and a worker publishes its    *)
(* next event when it has emitted the previous one.  Socket.IO, Redis and  *)
(* React Query are outside the repository: a connection delivers in order  *)
(* until it drops, a drop rejects the pending ack, and the data of a fetch *)
(* replaces what the cache holds.                                          *)
(***************************************************************************)
EXTENDS Integers, Sequences, FiniteSets

CONSTANTS
    MaxSeq,              \* bound: events published
    Relays,              \* worker processes that may publish
    MaxReplay,           \* MAX_REPLAY
    MaxFaults            \* bound: crashes, drops, timeouts, page loads and failed requests

ASSUME SyncAssumption ==
    MaxSeq \in Nat /\ MaxReplay \in Nat /\ MaxFaults \in Nat

VARIABLES
    last,                \* newest published seq
    mine,                \* seqs of the events on this conversation's stream
    pruned,              \* seqs of the rows that have been pruned
    pending,             \* pending[r]: the seq r has published and not emitted, 0 if none
    link,                \* the connection: "down", "opening" (server side only), "up"
    srv,                 \* the server's sync: "none", "asked", "bounded"
    minSeq, maxSeq,      \* its bounds
    wire,                \* what the server sent and the browser has not received
    cursor,              \* cursors.get('conversation') and its copy in sessionStorage, or None
    applied,             \* seqs applied since the page was loaded
    syncing,             \* this.buffered is defined
    held,                \* this.buffered
    syncFrom,            \* the cursor sent with the sync
    view,                \* seqs the cached thread shows
    loaded,              \* the cache has data
    fetch,               \* GET /customer/conversation: "idle", "wanted", "read", "answered"
    items,               \* the newest seq its messages contain
    streamSeq,           \* the streamSeq it read
    excused,             \* excused[k]: events that the gap k has kept from this browser
    faults               \* faults so far

logVars    == <<last, mine, pruned, pending>>
serverVars == <<srv, minSeq, maxSeq>>
clientVars == <<cursor, applied, syncing, held, syncFrom>>
cacheVars  == <<view, loaded, fetch, items, streamSeq>>
vars == <<logVars, link, serverVars, wire, clientVars, cacheVars, excused, faults>>

None  == -1
Seqs  == 1..MaxSeq
Gaps  == {"unsent", "late", "pruned", "unsynced", "swallowed", "torn"}

Largest(S) == CHOOSE n \in S : \A m \in S : m <= n

\* Published and emitted events of the stream.
Sent == mine \ {pending[r] : r \in Relays}

\* Events that a fetch in progress has missed, and no later one is asked for.
Missed == IF fetch = "wanted" THEN {} ELSE {s \in mine : s > items}

Excuse(gap, S) == excused' = [excused EXCEPT ![gap] = @ \cup S]

Fault == faults < MaxFaults /\ faults' = faults + 1

-------------------------------------------------------------------------------

Init ==
    /\ last = 0 /\ mine = {} /\ pruned = {}
    /\ pending = [r \in Relays |-> 0]
    /\ link = "down" /\ srv = "none" /\ minSeq = 0 /\ maxSeq = 0
    /\ wire = << >>
    /\ cursor = None /\ applied = {} /\ syncing = FALSE /\ held = {} /\ syncFrom = None
    /\ view = {} /\ loaded = FALSE /\ fetch = "wanted" /\ items = 0 /\ streamSeq = 0
    /\ excused = [g \in Gaps |-> {}]
    /\ faults = 0

-------------------------------------------------------------------------------
(* The log and the relays. *)

\* A transaction's event is published: on this stream, or on another.
Publish(r, ours) ==
    /\ last < MaxSeq /\ pending[r] = 0
    /\ last' = last + 1
    /\ mine' = IF ours THEN mine \cup {last + 1} ELSE mine
    /\ pending' = [pending EXCEPT ![r] = IF ours THEN last + 1 ELSE 0]
    /\ UNCHANGED <<pruned, link, serverVars, wire, clientVars, cacheVars, excused, faults>>

\* emit(): the envelope reaches the socket if it is in its room by now.
Emit(r) ==
    /\ pending[r] # 0
    /\ wire' = IF link = "down" THEN wire ELSE Append(wire, [seq |-> pending[r]])
    /\ pending' = [pending EXCEPT ![r] = 0]
    /\ Excuse("late", {pending[q] : q \in Relays} \cap 1..(pending[r] - 1))
    /\ UNCHANGED <<last, mine, pruned, link, serverVars, clientVars, cacheVars, faults>>

\* The relay's process dies before the emit (or its commit went unanswered).
Crash(r) ==
    /\ pending[r] # 0
    /\ Fault
    /\ pending' = [pending EXCEPT ![r] = 0]
    /\ Excuse("unsent", {pending[r]})
    /\ UNCHANGED <<last, mine, pruned, link, serverVars, wire, clientVars, cacheVars>>

\* The seqs whose rows are retained.
Kept == (1..last) \ pruned

\* pruneIfDue(): the newest event stays.  Two leaders need not publish in the order of their
\* numbers, so what is older by published_at need not be the lower part of the log.
Prune ==
    /\ \E old \in SUBSET (Kept \ {last}) : old # {} /\ pruned' = pruned \cup old
    /\ UNCHANGED <<last, mine, pending, link, serverVars, wire, clientVars, cacheVars, excused, faults>>

-------------------------------------------------------------------------------
(* The server's side of a connection. *)

\* handleConnection(): the socket joins the room of its conversation at once.
Accept ==
    /\ link = "down"
    /\ link' = "opening"
    /\ UNCHANGED <<logVars, serverVars, wire, clientVars, cacheVars, excused, faults>>

\* sync() reads the smallest and largest published seq ...
SyncBounds ==
    /\ srv = "asked"
    /\ \/ last = 0 /\ minSeq' = 0
       \/ minSeq' \in Kept /\ \A s \in Kept : minSeq' <= s
    /\ maxSeq' = last
    /\ srv' = "bounded"
    /\ UNCHANGED <<logVars, link, wire, clientVars, cacheVars, excused, faults>>

\* Mutant for NoUnknownGap: the cursor may be as old as the oldest retained event, or older.
NeverTooOld(after) == FALSE
\* The events right after the cursor are no longer all there.
TooOld(after) == minSeq > 0 /\ after < minSeq - 1

\* All of S, in seq order.
Ascending(S) ==
    {q \in [1..Cardinality(S) -> S] :
        /\ \A s \in S : \E i \in DOMAIN q : q[i] = s
        /\ \A i, j \in DOMAIN q : i < j => q[i] < q[j]}

\* ... and, in another transaction, the rows between the cursor and the largest; the
\* envelopes go out before the ack.
SyncReplay ==
    /\ srv = "bounded"
    /\ LET wanted == {s \in mine : syncFrom < s /\ s <= maxSeq}
           rows   == wanted \ pruned
           resync == syncFrom < maxSeq /\ (TooOld(syncFrom) \/ Cardinality(rows) > MaxReplay)
           answer == [seq |-> 0, upTo |-> maxSeq, resync |-> resync]
       IN /\ \E replay \in Ascending(IF resync THEN {} ELSE rows) :
                wire' = wire \o [i \in DOMAIN replay |-> [seq |-> replay[i]]] \o <<answer>>
          /\ Excuse("pruned", IF resync THEN {} ELSE {s \in wanted \ rows : s >= minSeq})
    /\ srv' = "none" /\ minSeq' = 0 /\ maxSeq' = 0
    /\ UNCHANGED <<logVars, link, clientVars, cacheVars, faults>>

-------------------------------------------------------------------------------
(* The client. *)

\* Mutant for EventuallySeen: no query keys are registered for the stream.
NoKeys(needed) == fetch' = fetch
\* resync(): the thread is invalidated.  A fetch of existing data starts again; the first
\* fetch of the page goes on as it is.
Resync(needed) ==
    fetch' = IF needed /\ loaded THEN "wanted" ELSE fetch

\* Mutant for InOrder: duplicates are known by id only.
AnyAge(s, floor) == FALSE
Stale(s, floor) == s < floor

\* apply() for every envelope of S in seq order: duplicates and those below floor are
\* dropped, the cursor follows, and the handler patches the thread if there is one.
Apply(S, floor, from) ==
    LET new == {s \in S : s \notin applied /\ ~Stale(s, floor)} IN
    /\ applied' = applied \cup new
    /\ cursor' = IF new = {} THEN from ELSE Largest(new \cup {from})
    /\ view' = IF loaded THEN view \cup new ELSE view

MustSync == cursor # None

\* 'connect': without a cursor there is nothing to sync and live events are applied at
\* once; what was emitted before the socket joined then only a later fetch can bring.
Connect ==
    /\ link = "opening"
    /\ link' = "up"
    /\ syncFrom' = cursor
    /\ \/ /\ ~MustSync
          /\ Excuse("unsynced", (Missed \cap Sent) \ {wire[i].seq : i \in DOMAIN wire})
          /\ UNCHANGED <<srv, syncing>>
       \/ /\ MustSync
          /\ syncing' = TRUE
          /\ srv' = "asked"
          /\ UNCHANGED excused
    /\ held' = {}
    /\ UNCHANGED <<logVars, minSeq, maxSeq, wire, cursor, applied, cacheVars, faults>>

\* The ack: resync what could not be replayed, move the cursor to upToSeq, and apply what
\* was held against the cursor that was sent.
HandleAck(answer) ==
    /\ syncing' = FALSE /\ held' = {}
    /\ Resync(answer.resync)
    /\ Apply(held, syncFrom, Largest({cursor, answer.upTo}))

Receive ==
    /\ link = "up" /\ wire # << >>
    /\ wire' = Tail(wire)
    /\ LET msg == Head(wire) IN
        \/ /\ msg.seq = 0 /\ syncing
           /\ HandleAck(msg)
        \/ \* An ack that comes after its timeout is ignored.
           /\ msg.seq = 0 /\ ~syncing
           /\ UNCHANGED <<cursor, applied, syncing, held, view, fetch>>
        \/ /\ msg.seq # 0 /\ syncing
           /\ held' = held \cup {msg.seq}
           /\ UNCHANGED <<cursor, applied, syncing, view, fetch>>
        \/ /\ msg.seq # 0 /\ ~syncing
           /\ Apply({msg.seq}, cursor, cursor)
           /\ UNCHANGED <<syncing, held, fetch>>
    /\ UNCHANGED <<logVars, link, serverVars, syncFrom, loaded, items, streamSeq, excused, faults>>

\* A sync that is not answered in time, or with an error, or because the connection went: refetch, and apply
\* what was held.
GiveUpSync ==
    /\ syncing' = FALSE /\ held' = {}
    /\ Resync(syncing)
    /\ Apply(held, syncFrom, cursor)
    /\ Excuse("swallowed", IF syncing /\ ~loaded THEN Missed \ held ELSE {})

AckTimeout ==
    /\ syncing
    /\ Fault
    /\ GiveUpSync
    /\ UNCHANGED <<logVars, link, serverVars, wire, syncFrom, loaded, items, streamSeq>>

\* The connection drops, with what was on its way.
Drop ==
    /\ link # "down"
    /\ Fault
    /\ link' = "down" /\ srv' = "none" /\ minSeq' = 0 /\ maxSeq' = 0 /\ wire' = << >>
    /\ GiveUpSync
    /\ syncFrom' = None
    /\ UNCHANGED <<logVars, loaded, items, streamSeq>>

\* The page is loaded anew: only the cursor is kept, in sessionStorage.
Load ==
    /\ Fault
    /\ link' = "down" /\ srv' = "none" /\ minSeq' = 0 /\ maxSeq' = 0 /\ wire' = << >>
    /\ applied' = {} /\ syncing' = FALSE /\ held' = {} /\ syncFrom' = None
    /\ view' = {} /\ loaded' = FALSE /\ fetch' = "wanted" /\ items' = 0 /\ streamSeq' = 0
    /\ excused' = [g \in Gaps |-> {}]
    /\ UNCHANGED <<logVars, cursor>>

-------------------------------------------------------------------------------
(* The thread over REST: one statement for the messages, a later one for streamSeq. *)

FetchMessages ==
    /\ fetch = "wanted"
    /\ items' = last
    /\ fetch' = "read"
    /\ UNCHANGED <<logVars, link, serverVars, wire, clientVars, view, loaded, streamSeq, excused, faults>>

FetchStreamSeq ==
    /\ fetch = "read"
    /\ streamSeq' = Largest({0} \cup (mine \ pruned))
    /\ fetch' = "answered"
    /\ UNCHANGED <<logVars, link, serverVars, wire, clientVars, view, loaded, items, excused, faults>>

\* seedCursor(): never back.
Seed == cursor' = Largest({cursor, streamSeq})

\* The answer replaces the cached thread, and seeds the cursor.  Events published since
\* its messages were read are not in it, although the cursor may be past them.
FetchDone ==
    /\ fetch = "answered"
    /\ fetch' = "idle" /\ loaded' = TRUE
    /\ view' = {s \in mine : s <= items}
    /\ Seed
    /\ LET torn == {s \in mine : items < s /\ s <= Largest({cursor, streamSeq})} IN
       excused' = [g \in Gaps |-> {s \in excused[g] : s > items} \cup IF g = "torn" THEN torn ELSE {}]
    /\ UNCHANGED <<logVars, link, serverVars, wire, applied, syncing, held, syncFrom, items, streamSeq, faults>>

\* A request fails, or all its retries do: the thread stays invalidated, and is asked for again.
FetchFails ==
    /\ fetch \in {"read", "answered"} /\ Fault
    /\ fetch' = "wanted"
    /\ UNCHANGED <<logVars, link, serverVars, wire, clientVars, view, loaded, items, streamSeq, excused>>

-------------------------------------------------------------------------------

Server == SyncBounds \/ SyncReplay
Fetch  == FetchMessages \/ FetchStreamSeq \/ FetchDone

Next ==
    \/ \E r \in Relays : Publish(r, TRUE) \/ Publish(r, FALSE) \/ Emit(r) \/ Crash(r)
    \/ Prune
    \/ Accept \/ Connect \/ Server \/ Receive \/ AckTimeout \/ Drop \/ Load
    \/ Fetch \/ FetchFails

Spec == Init /\ [][Next]_vars

\* Relays emit what they publish, Socket.IO reconnects, the server answers, the browser
\* handles what it receives, and requests are answered.
Fairness ==
    /\ \A r \in Relays : WF_vars(Emit(r))
    /\ WF_vars(Accept) /\ WF_vars(Connect) /\ WF_vars(Server) /\ WF_vars(Receive)
    /\ WF_vars(Fetch)

FairSpec == Spec /\ Fairness

-------------------------------------------------------------------------------
(* Properties. *)

TypeOK ==
    /\ last \in 0..MaxSeq /\ mine \subseteq 1..last /\ pruned \subseteq 1..last
    /\ pending \in [Relays -> 0..MaxSeq]
    /\ link \in {"down", "opening", "up"}
    /\ srv \in {"none", "asked", "bounded"}
    /\ minSeq \in 0..MaxSeq /\ maxSeq \in 0..MaxSeq
    /\ \A i \in DOMAIN wire : wire[i].seq \in 0..MaxSeq
    /\ cursor \in None..MaxSeq /\ syncFrom \in None..MaxSeq
    /\ applied \subseteq mine /\ held \subseteq mine /\ view \subseteq mine
    /\ syncing \in BOOLEAN /\ loaded \in BOOLEAN
    /\ syncing => syncFrom # None
    /\ fetch \in {"idle", "wanted", "read", "answered"}
    /\ items \in 0..MaxSeq /\ streamSeq \in 0..MaxSeq
    /\ excused \in [Gaps -> SUBSET mine]
    /\ faults \in 0..MaxFaults

Settled == loaded /\ fetch = "idle" /\ ~syncing

AllExcused == UNION {excused[g] : g \in Gaps}

\* A settled client shows every event of its stream up to its cursor (what it will never
\* ask for again), however connections drop, syncs time out and pages reload, except in
\* the six ways named by Gaps (socket.ts:234, sync.handler.ts:64).
NoUnknownGap ==
    Settled => \A s \in mine : s <= cursor => s \in view \cup AllExcused

\* "in `seq` order per stream": whatever is applied is newer than all that was applied
\* before on this page, through holds, replays and late emits.
InOrder ==
    [][applied \subseteq applied' => \A s \in applied' \ applied : \A t \in applied : t < s]_vars

\* A page reaches every event of its stream in the end, or the event is in a gap.
EventuallySeen == \A s \in Seqs : s \in mine ~> (s \in view \cup AllExcused)

-------------------------------------------------------------------------------
(* What the repository's documents say, and the gaps disprove. *)

ShownBut(gap) ==
    Settled => \A s \in mine : s <= cursor =>
        s \in view \cup UNION {excused[g] : g \in Gaps \ {gap}}

\* "At least once, in `seq` order per stream" (contracts/realtime-events.md:101), when a
\* relay dies between its commit and its emits (relay.ts:48).
AtLeastOnce == ShownBut("unsent")

\* "Starts a stream's cursor at the seq a snapshot was read at, so the next reconnect
\* replays only what came after it" (socket.ts:187): what came after it and before the
\* first join is not replayed.
FirstConnectCovered == ShownBut("unsynced")

\* "The snapshot is current up to `streamSeq`" (apps/web/src/data/conversation.ts:75).
SnapshotCurrent ==
    fetch = "answered" => \A s \in mine : s <= streamSeq => s <= items
===============================================================================
