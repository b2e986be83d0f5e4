----------------------------- MODULE RateLimiter -----------------------------
(***************************************************************************)
(* The per-client connection rate limit (internal/ratelimit/limiter.go) as *)
(* the handlers of the proxy use it: a table of token buckets of bounded   *)
(* size, with a fresh limiter in every snapshot of the configuration       *)
(* (newServerState in internal/proxy/server.go).                           *)
(*                                                                         *)
(* Allow reads the clock before it takes the mutex, so a handler may come  *)
(* to the table with a time that is older than the one it finds there.     *)
(* Tokens are counted in Unit-ths and time in ticks: a bucket gains Refill *)
(* Unit-ths of a token per tick.  Rounding of the float64 is left out.     *)
(***************************************************************************)
EXTENDS Integers, FiniteSets, FiniteSetsExt

CONSTANTS
    Addrs,          \* client addresses
    Handlers,       \* handlers that ask for admission
    Burst,          \* cfg.Burst
    Unit, Refill,   \* cfg.ConnectionsPerSecond is Refill / Unit per tick
    IdleTimeout,    \* cfg.IdleTimeout, in ticks
    MaxEntries,     \* cfg.MaxEntries
    MaxDelay,       \* bound on the age of a clock reading when it is used
    MaxClock,       \* bound on the time
    MaxSwaps,       \* bound on the snapshots after the first
    None

Capacity == Burst * Unit
Limiters == 0..MaxSwaps
Times    == 0..MaxClock
Hasty    == -1                 \* in lastCall: the client did not keep MinSpacing
Entry    == [tokens: 0..Capacity, lastRefill: Times, lastSeen: Times]

ASSUME LimiterAssumption ==
    /\ {Burst, Unit, Refill, IdleTimeout, MaxEntries} \subseteq Nat \ {0}
    /\ {MaxDelay, MaxClock, MaxSwaps} \subseteq Nat
    /\ IsFiniteSet(Addrs)
    /\ None \notin Int /\ None \notin Entry

VARIABLES
    clock,          \* time.Now
    entries,        \* limiter -> Limiter.entries
    current,        \* the limiter of the active snapshot
    reading,        \* handler -> its limiter, address and time, or None
    window,         \* history: a window of time over one bucket, or None
    lastCall,       \* history: address -> when it last asked, None, or Hasty
    refused         \* history: addresses refused although they kept MinSpacing

limiterVars == <<entries, current>>
history == <<window, lastCall, refused>>
vars == <<clock, limiterVars, reading, history>>

\* A time after which a client that waited has a token again, whatever the
\* delay of its handlers.
MinSpacing == Max({(Unit + Refill - 1) \div Refill, MaxDelay + 1})

TypeOK ==
    /\ clock \in Times
    /\ entries \in [Limiters -> [Addrs -> Entry \cup {None}]]
    /\ current \in Limiters
    /\ reading \in [Handlers -> [limiter: Limiters, addr: Addrs, now: Times] \cup {None}]
    /\ window \in [limiter: Limiters, addr: Addrs, start: Times, admitted: Nat] \cup {None}
    /\ lastCall \in [Addrs -> Times \cup {None, Hasty}]
    /\ refused \subseteq Addrs

Init ==
    /\ clock = 0
    /\ entries = [g \in Limiters |-> [a \in Addrs |-> None]]
    /\ current = 0
    /\ reading = [h \in Handlers |-> None]
    /\ window = None
    /\ lastCall = [a \in Addrs |-> None]
    /\ refused = {}

-----------------------------------------------------------------------------
\* Time passes; a handler uses its reading within MaxDelay.
Tick ==
    /\ clock < MaxClock
    /\ \A h \in Handlers : reading[h] # None => clock < reading[h].now + MaxDelay
    /\ clock' = clock + 1
    /\ UNCHANGED <<limiterVars, reading, history>>

Empty == [a \in Addrs |-> None]

\* A limiter lives on while a handler that loaded its snapshot is to call it.
Used(g) == g = current' \/ \E h \in Handlers : reading'[h] # None /\ reading'[h].limiter = g

Keep(tables) == entries' = [g \in Limiters |-> IF Used(g) THEN tables[g] ELSE Empty]

\* History: the window ends when its bucket is not among those left; otherwise it
\* counts the bucket that admitted a client, if there is one.
Observe(left, admitting) ==
    window' = IF window = None \/ ~Used(window.limiter)
                    \/ left[window.limiter][window.addr] = None THEN None
              ELSE IF <<window.limiter, window.addr>> \in admitting
                   THEN [window EXCEPT !.admitted = @ + 1]
              ELSE window

\* A reload or a discovery update: newServerState makes a new limiter.
SwapSnapshot ==
    /\ current < MaxSwaps
    /\ current' = current + 1
    /\ UNCHANGED <<clock, reading, lastCall, refused>>
    /\ Keep(entries) /\ Observe(entries, {})

Spaced(a) ==
    \/ lastCall[a] = None
    \/ lastCall[a] # Hasty /\ clock - lastCall[a] >= MinSpacing

\* Allow up to l.now(), on the limiter of the snapshot the handler loaded.  A
\* disabled limiter admits without a change of state: a stuttering step.
Allow(h, a) ==
    /\ reading[h] = None
    /\ reading' = [reading EXCEPT ![h] = [limiter |-> current, addr |-> a, now |-> clock]]
    /\ lastCall' = [lastCall EXCEPT ![a] = IF Spaced(a) THEN clock ELSE Hasty]
    /\ UNCHANGED <<clock, limiterVars, window, refused>>

-----------------------------------------------------------------------------
(* allowAt, under the mutex.                                               *)

Keys(table) == {a \in Addrs : table[a] # None}

Without(table, as) == [a \in Addrs |-> IF a \in as THEN None ELSE table[a]]

ExpiredKeys(table, now) == {a \in Keys(table) : now - table[a].lastSeen >= IdleTimeout}

\* deleteExpired.
DeleteExpired(table, now) == Without(table, ExpiredKeys(table, now))

\* deleteOldest: one of the entries seen longest ago; the map's order decides
\* between equals.
DeleteOldest(table) ==
    {Without(table, {a}) : a \in {a \in Keys(table) :
        \A b \in Keys(table) : table[a].lastSeen <= table[b].lastSeen}}

\* The tables in which the bucket of a may be looked for: room is made if there
\* is none.
MakeRoom(table, a) ==
    IF table[a] = None /\ Cardinality(Keys(table)) >= MaxEntries
    THEN DeleteOldest(table) ELSE {table}

\* Wrong variant: lastRefill stays behind, so that time is credited twice.
RefilledTwice(table, a, now) ==
    LET e == IF table[a] = None THEN [tokens |-> Capacity, lastRefill |-> now, lastSeen |-> now]
             ELSE table[a]
        elapsed == now - e.lastRefill
    IN  IF elapsed > 0
        THEN [e EXCEPT !.tokens = Min({Capacity, e.tokens + elapsed * Refill}), !.lastSeen = now]
        ELSE [e EXCEPT !.lastSeen = now]

\* Wrong variant: lastSeen is set only when the bucket is made.
RefilledUnseen(table, a, now) ==
    LET e == IF table[a] = None THEN [tokens |-> Capacity, lastRefill |-> now, lastSeen |-> now]
             ELSE table[a]
        elapsed == now - e.lastRefill
    IN  IF elapsed > 0
        THEN [e EXCEPT !.tokens = Min({Capacity, e.tokens + elapsed * Refill}), !.lastRefill = now]
        ELSE e

\* Wrong variant: a new bucket starts empty.
RefilledFromEmpty(table, a, now) ==
    LET e == IF table[a] = None THEN [tokens |-> 0, lastRefill |-> now, lastSeen |-> now]
             ELSE table[a]
        elapsed == now - e.lastRefill
    IN  IF elapsed > 0
        THEN [tokens |-> Min({Capacity, e.tokens + elapsed * Refill}),
              lastRefill |-> now, lastSeen |-> now]
        ELSE [e EXCEPT !.lastSeen = now]

\* The bucket of a at now, before it is asked for a token.
Refilled(table, a, now) ==
    LET e == IF table[a] = None THEN [tokens |-> Capacity, lastRefill |-> now, lastSeen |-> now]
             ELSE table[a]
        elapsed == now - e.lastRefill
    IN  IF elapsed > 0
        THEN [tokens |-> Min({Capacity, e.tokens + elapsed * Refill}),
              lastRefill |-> now, lastSeen |-> now]
        ELSE [e EXCEPT !.lastSeen = now]

AllowAt(h) ==
    /\ reading[h] # None
    /\ reading' = [reading EXCEPT ![h] = None]
    /\ UNCHANGED <<clock, current, lastCall>>
    /\ LET g   == reading[h].limiter
           a   == reading[h].addr
           now == reading[h].now
       IN \E table \in MakeRoom(DeleteExpired(entries[g], now), a) :
            LET e  == Refilled(table, a, now)
                ok == e.tokens >= Unit
            IN  /\ Keep([entries EXCEPT ![g] = [table EXCEPT ![a] =
                      IF ok THEN [e EXCEPT !.tokens = @ - Unit] ELSE e]])
                /\ Observe([entries EXCEPT ![g] = table], IF ok THEN {<<g, a>>} ELSE {})
                /\ refused' = IF ok \/ lastCall[a] = Hasty THEN refused
                              ELSE refused \cup {a}

\* History: from now on the admissions from one bucket are counted.
OpenWindow(g, a) ==
    /\ window = None
    /\ entries[g][a] # None
    /\ window' = [limiter |-> g, addr |-> a, start |-> clock, admitted |-> 0]
    /\ UNCHANGED <<clock, limiterVars, reading, lastCall, refused>>

Next ==
    \/ Tick
    \/ SwapSnapshot
    \/ \E h \in Handlers, a \in Addrs : Allow(h, a)
    \/ \E h \in Handlers : AllowAt(h)
    \/ \E g \in Limiters, a \in Addrs : OpenWindow(g, a)

Spec == Init /\ [][Next]_vars

-----------------------------------------------------------------------------
(* Properties.                                                             *)

\* In any window of time a client whose bucket is kept is admitted at most Burst
\* times plus what the rate allows for the length of the window and the delay of
\* a handler, however its handlers overlap and whatever else is evicted (allowAt).
\* The delay counts: a bucket is full only once a call fills it, and a late call
\* takes its token before that.
PacedWhileKept ==
    window # None =>
        window.admitted * Unit <= Capacity + Refill * (clock - window.start + MaxDelay)

\* The bucket of a in this table would be full at now.
FullAt(table, a, now) == table[a].tokens + Refill * (now - table[a].lastRefill) >= Capacity

\* An idle timeout that leaves a bucket the time to fill up, even when handlers
\* come late, gives no tokens away: every bucket that deleteExpired removes
\* would have been full.
ExpiryIsFree ==
    (IdleTimeout - MaxDelay) * Refill >= Capacity =>
        \A h \in Handlers : reading[h] # None =>
            LET table == entries[reading[h].limiter]
            IN  \A a \in ExpiredKeys(table, reading[h].now) :
                    FullAt(table, a, reading[h].now)

\* A client that spaces its connections by MinSpacing is never refused: neither
\* eviction, expiry, a new snapshot nor the calls of other clients take a token
\* from it.
SpacedClientIsAdmitted == refused = {}

=============================================================================
