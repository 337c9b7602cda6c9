-------------------------------- MODULE Sessions --------------------------------
(***************************************************************************)
(* One session and a socket opened with it: authenticate() with its cache  *)
(* in Redis and its sliding expiry (identity/session.service.ts), the      *)
(* revocation, and the gateway that closes sockets when it is told of the  *)
(* revocation or when its sweep finds the session over (realtime/).        *)
(*                                                                         *)
(* Times are ticks left.  Rows are read and written under the database's   *)
(* isolation, and a lookup holds what it has read while time goes on.  The *)
(* control message goes through the relay (see OutboxRelay), which may     *)
(* lose it.  A closed socket is opened again only when the lookups of the  *)
(* one before it are over.                                                 *)
(***************************************************************************)
EXTENDS Naturals, FiniteSets

CONSTANTS
    Lookups,             \* calls of authenticate() at once
    Idle,                \* idleWindowMs()
    TouchInterval,       \* TOUCH_INTERVAL_MS
    CacheTtl,            \* CACHE_TTL_S
    MaxFaults            \* bound: failures in a behaviour

VARIABLES
    row,                 \* the sessions row: it exists, time left, time since last_seen_at
    cache,               \* the entry in Redis: its time to live (0: none), the principal's time left
    lookup,              \* lookup[l]: how far it is and what it holds
    socket,              \* the socket: its step and the time left of its data.expiresAt
    revocation,          \* how far the revocation is
    dead,                \* ghost: ticks since it committed and no lookup held the row
    faults

SessionConstants ==
    /\ CacheTtl \in Nat \ {0} /\ Idle \in Nat \ {0} /\ TouchInterval \in Nat /\ MaxFaults \in Nat

vars == <<row, cache, lookup, socket, revocation, dead, faults>>

NoEntry  == [ttl |-> 0, left |-> 0]
NoLookup == [step |-> "none", why |-> "none", left |-> 0, ttl |-> 0]
Closed   == [step |-> "none", left |-> 0]

Lower(m, n) == IF m < n THEN m ELSE n
Down(n)     == IF n > 0 THEN n - 1 ELSE 0

Init ==
    /\ row = [there |-> TRUE, left |-> Idle, seen |-> 0]
    /\ cache = NoEntry /\ lookup = [l \in Lookups |-> NoLookup] /\ socket = Closed
    /\ revocation = "none" /\ dead = 0 /\ faults = 0

Fault == faults < MaxFaults /\ faults' = faults + 1

Alive == row.there /\ row.left > 0

For(why) == \E l \in Lookups : lookup[l].why = why

-------------------------------------------------------------------------------
(* authenticate(), for a request, a handshake or the sweep. *)

\* Who asks for the session, and when: the sweep for a socket that was due to expire.
Due == socket.step # "none" /\ socket.left = 0
Asks(why) ==
    \/ why = "request"
    \/ why = "handshake" /\ socket.step = "none" /\ ~For("handshake") /\ ~For("sweep")
    \/ why = "sweep" /\ Due /\ ~For("sweep")

\* The principal is returned: a socket is opened, or keeps what the sweep was told.
Accept(why, left) ==
    socket' = CASE why = "handshake" -> [step |-> "opened", left |-> left]
                [] why = "sweep"     -> [socket EXCEPT !.left = IF socket.step = "none" THEN 0 ELSE left]
                [] why = "request"   -> socket

\* Mutant for OverIsClosed: a session that is gone is left to the control message.
KeepGone(why) == socket' = IF why = "sweep" /\ row.there THEN Closed ELSE socket
\* No principal: the sweep closes the socket.
Refuse(why) == socket' = IF why = "sweep" THEN Closed ELSE socket

\* Mutant for RevokedStops: a hit is good for another minute.
HitRenews(why) ==
    /\ cache.ttl > 0
    /\ \/ cache.left > 0 /\ Accept(why, cache.left) /\ cache' = [cache EXCEPT !.ttl = CacheTtl]
       \/ cache.left = 0 /\ Refuse(why) /\ UNCHANGED cache
    /\ UNCHANGED <<row, lookup, revocation, dead, faults>>
Hit(why) ==
    /\ cache.ttl > 0
    /\ \/ cache.left > 0 /\ Accept(why, cache.left)
       \/ cache.left = 0 /\ Refuse(why)
    /\ UNCHANGED <<row, cache, lookup, revocation, dead, faults>>

\* The row is read, the cache having been found empty (or unreadable) before.  Use slides the
\* expiry, unless it did lately; the sweep is not use.
Find(l, why) ==
    /\ \/ ~Alive /\ Refuse(why) /\ UNCHANGED lookup
       \/ /\ Alive /\ UNCHANGED socket
          /\ LET slides == why # "sweep" /\ row.seen >= TouchInterval
                 left   == IF slides THEN Idle ELSE row.left
             IN  lookup' = [lookup EXCEPT ![l] = [step |-> IF slides THEN "touch" ELSE "store",
                                                  why |-> why, left |-> left,
                                                  ttl |-> Lower(CacheTtl, left)]]
    /\ UNCHANGED <<row, cache, revocation, dead, faults>>

Begin(l, why) == lookup[l] = NoLookup /\ Asks(why) /\ (Hit(why) \/ Find(l, why))

\* touch(): an UPDATE by id, which finds nothing once the row is gone.
Touch(l) ==
    /\ lookup[l].step = "touch" /\ lookup' = [lookup EXCEPT ![l].step = "store"]
    /\ row' = IF row.there THEN [row EXCEPT !.left = lookup[l].left, !.seen = 0] ELSE row
    /\ UNCHANGED <<cache, socket, revocation, dead, faults>>

\* writeCache(), with the time to live of when the lookup began; its failure is ignored.
Store(l) ==
    /\ lookup[l].step = "store" /\ lookup' = [lookup EXCEPT ![l] = NoLookup]
    /\ \/ cache' = [ttl |-> lookup[l].ttl, left |-> lookup[l].left] /\ UNCHANGED faults
       \/ Fault /\ UNCHANGED cache
    /\ Accept(lookup[l].why, lookup[l].left)
    /\ UNCHANGED <<row, revocation, dead>>

LookupFails(l) ==
    /\ lookup[l] # NoLookup /\ Fault /\ lookup' = [lookup EXCEPT ![l] = NoLookup]
    /\ UNCHANGED <<row, cache, socket, revocation, dead>>

-------------------------------------------------------------------------------
(* The revocation, and the gateway. *)

\* In the transaction: the row is deleted, the event appended, the cache purged if Redis answers.
Revoke ==
    /\ row.there /\ revocation = "none" /\ revocation' = "purged"
    /\ \/ cache' = NoEntry /\ UNCHANGED faults
       \/ Fault /\ UNCHANGED cache
    /\ UNCHANGED <<row, lookup, socket, dead>>

EndRevocation ==
    /\ revocation = "purged"
    /\ \/ revocation' = "committed" /\ row' = [there |-> FALSE, left |-> 0, seen |-> 0] /\ UNCHANGED faults
       \/ revocation' = "none" /\ Fault /\ UNCHANGED row
    /\ UNCHANGED <<cache, lookup, socket, dead>>

\* onControl(): the cache is purged again, then the sockets in the session's room are closed.
Control ==
    /\ \/ /\ revocation = "committed" /\ revocation' = "repurged" /\ UNCHANGED socket
          /\ \/ cache' = NoEntry /\ UNCHANGED faults
             \/ Fault /\ UNCHANGED cache
       \/ /\ revocation = "repurged" /\ revocation' = "done" /\ UNCHANGED <<cache, faults>>
          /\ socket' = IF socket.step = "joined" THEN Closed ELSE socket
       \/ revocation = "committed" /\ revocation' = "done" /\ Fault /\ UNCHANGED <<cache, socket>>
    /\ UNCHANGED <<row, lookup, dead>>

\* handleConnection(), some time after the handshake.
Join ==
    /\ socket.step = "opened" /\ socket' = [socket EXCEPT !.step = "joined"]
    /\ UNCHANGED <<row, cache, lookup, revocation, dead, faults>>

Disconnect ==
    /\ socket.step # "none" /\ socket' = Closed
    /\ UNCHANGED <<row, cache, lookup, revocation, dead, faults>>

-------------------------------------------------------------------------------

Tick ==
    /\ row' = [row EXCEPT !.left = Down(@), !.seen = IF row.there THEN Lower(@ + 1, TouchInterval) ELSE @]
    /\ cache' = IF cache.ttl <= 1 THEN NoEntry ELSE [ttl |-> cache.ttl - 1, left |-> Down(cache.left)]
    /\ lookup' = [l \in Lookups |-> [lookup[l] EXCEPT !.left = Down(@)]]
    /\ socket' = [socket EXCEPT !.left = Down(@)]
    /\ dead' = IF row.there \/ \E l \in Lookups : lookup[l] # NoLookup THEN dead
               ELSE Lower(dead + 1, CacheTtl)
    /\ UNCHANGED <<revocation, faults>>

Answer(l) == Touch(l) \/ Store(l)
Sweep     == \E l \in Lookups : Begin(l, "sweep")

Next ==
    \/ \E l \in Lookups : Answer(l) \/ LookupFails(l) \/ \E why \in {"request", "handshake"} : Begin(l, why)
    \/ Sweep \/ Revoke \/ EndRevocation \/ Control \/ Join \/ Disconnect \/ Tick

Spec == Init /\ [][Next]_vars

-------------------------------------------------------------------------------
(* Properties. *)

TypeOK ==
    /\ row \in [there : BOOLEAN, left : 0..Idle, seen : 0..TouchInterval]
    /\ cache \in [ttl : 0..CacheTtl, left : 0..Idle]
    /\ lookup \in [Lookups -> [step : {"none", "touch", "store"}, left : 0..Idle, ttl : 0..CacheTtl,
                               why : {"none", "request", "handshake", "sweep"}]]
    /\ socket \in [step : {"none", "opened", "joined"}, left : 0..Idle]
    /\ revocation \in {"none", "purged", "committed", "repurged", "done"}
    /\ dead \in 0..CacheTtl /\ faults \in 0..MaxFaults

\* A revoked session stops: once the lookups that had read its row are answered, it is accepted
\* for no longer than a cache entry lives, also when they wrote the cache after the purges, or
\* the purges failed (session.service.ts:150).
RevokedStops == dead = CacheTtl => cache = NoEntry

\* "Sockets must not outlive their session" (session-expiry.ts:11): when the session is revoked
\* or has expired, a socket is closed in the end, also one that was not in its room yet when the
\* control message came, or when that message was lost; unless use revives the session.
OverIsClosed == ~Alive ~> (socket.step = "none" \/ Alive)
===============================================================================
