-------------------------- MODULE RateLimiterProofs --------------------------
(***************************************************************************)
(* Proofs about RateLimiter for any rate, burst, idle timeout, size of the *)
(* table and delay of the handlers, and any number of clients.             *)
(***************************************************************************)
EXTENDS RateLimiter, TLAPS

\* Steps are for Zenon, unless they name the other prover; they are small, and the
\* limit is for a busy machine.
USE ZenonT(60)

\* A clock reading is used within MaxDelay, and a bucket was last refilled no later
\* than MaxDelay after it was last seen: a call that comes late sets lastSeen back,
\* but not lastRefill.
TimeInv ==
    /\ \A h \in Handlers : reading[h] # None =>
          reading[h].now <= clock /\ clock <= reading[h].now + MaxDelay
    /\ \A g \in Limiters, a \in Addrs : entries[g][a] # None =>
          /\ entries[g][a].lastRefill <= clock
          /\ entries[g][a].lastRefill <= entries[g][a].lastSeen + MaxDelay

\* Tokens that were taken in the window and tokens that are left were in the bucket
\* when the window began, or flowed into it since; the first call of the window may
\* have read the clock MaxDelay before.
WindowInv ==
    window # None =>
        LET e == entries[window.limiter][window.addr]
        IN  /\ e \in Entry
            /\ window.start <= clock
            /\ \/ window.admitted = 0
               \/ /\ e.lastRefill >= window.start - MaxDelay
                  /\ window.admitted * Unit + e.tokens
                        <= Capacity + Refill * (e.lastRefill - window.start + MaxDelay)

\* A client that keeps its distance has one call under way at most, which finds its
\* bucket refilled MinSpacing before or not at all.
SpacedInv(a) ==
    /\ lastCall[a] = None =>
          /\ \A g \in Limiters : entries[g][a] = None
          /\ \A h \in Handlers : reading[h] # None => reading[h].addr # a
    /\ lastCall[a] \notin {None, Hasty} =>
          /\ \A g \in Limiters : entries[g][a] # None => entries[g][a].lastRefill <= lastCall[a]
          /\ \A h \in Handlers : reading[h] # None /\ reading[h].addr = a =>
                /\ reading[h].now = lastCall[a]
                /\ \A k \in Handlers : reading[k] # None /\ reading[k].addr = a => k = h
                /\ \A g \in Limiters : entries[g][a] # None =>
                      entries[g][a].lastRefill + MinSpacing <= lastCall[a]

\* The inductive invariant.
IInv ==
    /\ TypeOK
    /\ TimeInv
    /\ WindowInv
    /\ \A a \in Addrs : SpacedInv(a)
    /\ SpacedClientIsAdmitted

-----------------------------------------------------------------------------
(* Arithmetic.                                                             *)

\* Multiplication by a natural number is monotonic.
LEMMA MulMono ==
    ASSUME NEW r \in Nat, NEW x \in Int, NEW y \in Int, x <= y
    PROVE  r * x <= r * y /\ r * x \in Int /\ r * y \in Int
  <1>1. r * (y - x) >= 0
    BY SMTT(60)
  <1>2. r * (y - x) = r * y - r * x
    BY SMTT(60)
  <1>3. QED
    BY <1>1, <1>2, SMTT(60)

\* The smaller of two numbers.
LEMMA MinOfTwo ==
    ASSUME NEW x \in Int, NEW y \in Int
    PROVE  Min({x, y}) = IF x <= y THEN x ELSE y
  <1>1. CASE x <= y
    <2>1. \A z \in {x, y} : (\A w \in {x, y} : z =< w) <=> z = x
      BY <1>1, SMTT(60)
    <2>2. QED
      BY <1>1, <2>1, SMTT(60) DEF Min
  <1>2. CASE ~(x <= y)
    <2>1. \A z \in {x, y} : (\A w \in {x, y} : z =< w) <=> z = y
      BY <1>2, SMTT(60)
    <2>2. QED
      BY <1>2, <2>1 DEF Min
  <1>3. QED
    BY <1>1, <1>2

\* The constants as numbers.  In the time MinSpacing a bucket gains a token, and a
\* full bucket has one.
LEMMA ConstantFacts ==
    /\ Unit \in Nat /\ Unit > 0 /\ Refill \in Nat /\ Refill > 0
    /\ Capacity \in Nat /\ Capacity >= Unit
    /\ MaxDelay \in Nat /\ MaxClock \in Nat /\ MaxSwaps \in Nat /\ IdleTimeout \in Nat
    /\ MinSpacing \in Nat /\ MinSpacing > MaxDelay /\ Refill * MinSpacing >= Unit
  <1>1. /\ Unit \in Nat /\ Unit > 0 /\ Refill \in Nat /\ Refill > 0
        /\ Burst \in Nat /\ Burst > 0
        /\ MaxDelay \in Nat /\ MaxClock \in Nat /\ MaxSwaps \in Nat /\ IdleTimeout \in Nat
    BY LimiterAssumption, SMTT(60)
  <1>2. Capacity \in Nat /\ Capacity >= Unit
    <2>1. Unit * 1 <= Unit * Burst
      BY <1>1, MulMono, SMTT(60)
    <2>2. Unit * 1 = Unit /\ Unit * Burst = Burst * Unit /\ Burst * Unit \in Nat
      BY <1>1, SMTT(60)
    <2>3. QED
      BY <1>1, <2>1, <2>2 DEF Capacity
  <1> DEFINE q == (Unit + Refill - 1) \div Refill
             m == MaxDelay + 1
  <1>3. q \in Int /\ Refill * q <= Unit + Refill - 1 /\ Unit + Refill - 1 < Refill * (q + 1)
    BY <1>1, SMTT(60)
  <1>4. Refill * q >= Unit
    <2>1. Refill * (q + 1) = Refill * q + Refill
      BY <1>1, <1>3, SMTT(60)
    <2>2. QED
      BY <1>1, <1>3, <2>1, SMTT(60)
  <1> HIDE DEF q
  <1>5. MinSpacing \in {q, m} /\ MinSpacing >= q /\ MinSpacing >= m
    <2>1. MinSpacing = Max({q, m})
      BY DEF MinSpacing, q
    <2>2. \E x \in {q, m} : \A y \in {q, m} : x >= y
      BY <1>1, <1>3, SMTT(60)
    <2>3. QED
      BY <2>1, <2>2 DEF Max
  <1>6. Refill * MinSpacing >= Unit
    <2>1. MinSpacing \in Int
      BY <1>1, <1>3, <1>5, SMTT(60)
    <2>2. Refill * q <= Refill * MinSpacing /\ Refill * q \in Int /\ Refill * MinSpacing \in Int
      BY <1>1, <1>3, <1>5, <2>1, MulMono
    <2>3. QED
      BY <1>1, <1>4, <2>2, SMTT(60)
  <1>7. QED
    BY <1>1, <1>2, <1>3, <1>5, <1>6, SMTT(60)

-----------------------------------------------------------------------------
(* allowAt.                                                                *)

\* The records of the state.
LEMMA RecordFacts ==
    ASSUME TypeOK
    PROVE  /\ clock \in Int /\ 0 <= clock /\ clock <= MaxClock
           /\ \A h \in Handlers : reading[h] # None =>
                 /\ reading[h] \in [limiter: Limiters, addr: Addrs, now: Times]
                 /\ reading[h].limiter \in Limiters /\ reading[h].addr \in Addrs
                 /\ reading[h].now \in Times
           /\ \A g \in Limiters, a \in Addrs : entries[g][a] # None => entries[g][a] \in Entry
  BY ConstantFacts, SMTT(60) DEF TypeOK, Times

\* The fields of a bucket are numbers.
LEMMA EntryFacts ==
    ASSUME NEW e \in Entry
    PROVE  /\ e.tokens \in Int /\ 0 <= e.tokens /\ e.tokens <= Capacity
           /\ e.lastRefill \in Int /\ e.lastRefill \in Times
           /\ e.lastSeen \in Int /\ e.lastSeen \in Times
  BY ConstantFacts, SMTT(60) DEF Entry, Times

\* A bucket with other contents.
LEMMA EntryType ==
    ASSUME NEW x \in Int, 0 <= x, x <= Capacity, NEW r \in Times, NEW s \in Times
    PROVE  [tokens |-> x, lastRefill |-> r, lastSeen |-> s] \in Entry
  BY ConstantFacts, SMTT(60) DEF Entry

\* deleteExpired and deleteOldest only remove buckets.
LEMMA RoomFacts ==
    ASSUME NEW old \in [Addrs -> Entry \cup {None}], NEW now, NEW a \in Addrs,
           NEW table \in MakeRoom(DeleteExpired(old, now), a)
    PROVE  /\ table \in [Addrs -> Entry \cup {None}]
           /\ \A b \in Addrs : table[b] = None \/ table[b] = old[b]
  <1>1. ASSUME NEW t \in [Addrs -> Entry \cup {None}], NEW as
        PROVE  /\ Without(t, as) \in [Addrs -> Entry \cup {None}]
               /\ \A b \in Addrs : Without(t, as)[b] = None \/ Without(t, as)[b] = t[b]
    BY DEF Without
  <1> DEFINE mid == DeleteExpired(old, now)
  <1>2. /\ mid \in [Addrs -> Entry \cup {None}]
        /\ \A b \in Addrs : mid[b] = None \/ mid[b] = old[b]
    BY <1>1 DEF DeleteExpired
  <1> HIDE DEF mid
  <1>3. table = mid \/ \E c \in Addrs : table = Without(mid, {c})
    BY DEF MakeRoom, DeleteOldest, Keys, mid
  <1>4. CASE table = mid
    BY <1>2, <1>4
  <1>5. ASSUME NEW c \in Addrs, table = Without(mid, {c})
        PROVE  /\ table \in [Addrs -> Entry \cup {None}]
               /\ \A b \in Addrs : table[b] = None \/ table[b] = mid[b]
    BY <1>1, <1>2, <1>5, SMTT(60)
  <1>6. QED
    BY <1>2, <1>3, <1>4, <1>5

\* What a call finds in its bucket.
LEMMA RefilledFacts ==
    ASSUME NEW table \in [Addrs -> Entry \cup {None}], NEW a \in Addrs, NEW now \in Times,
           NEW e, e = Refilled(table, a, now)
    PROVE  /\ e \in Entry /\ e.lastSeen = now
           /\ table[a] = None => e.tokens = Capacity /\ e.lastRefill = now
           /\ table[a] # None =>
                IF now > table[a].lastRefill
                THEN /\ e.lastRefill = now
                     /\ e.tokens <= table[a].tokens + Refill * (now - table[a].lastRefill)
                     /\ \/ e.tokens = Capacity
                        \/ e.tokens = table[a].tokens + Refill * (now - table[a].lastRefill)
                ELSE e.lastRefill = table[a].lastRefill /\ e.tokens = table[a].tokens
  <1>n. now \in Int
    BY ConstantFacts, SMTT(60) DEF Times
  <1>1. CASE table[a] = None
    <2>1. e = [tokens |-> Capacity, lastRefill |-> now, lastSeen |-> now]
      BY <1>n, <1>1, SMTT(60) DEF Refilled
    <2>2. QED
      BY <1>1, <2>1, EntryType, ConstantFacts, SMTT(60)
  <1>2. CASE table[a] # None /\ now > table[a].lastRefill
    <2> DEFINE elapsed == now - table[a].lastRefill
               gained == table[a].tokens + elapsed * Refill
    <2>1. table[a] \in Entry
      BY <1>2
    <2>2. table[a].tokens \in Int /\ 0 <= table[a].tokens /\ table[a].lastRefill \in Int
      BY <2>1, EntryFacts
    <2>3. elapsed \in Int /\ elapsed > 0
      BY <1>n, <1>2, <2>2, SMTT(60)
    <2>4. Refill * 0 <= Refill * elapsed /\ Refill * elapsed \in Int
      BY <2>3, ConstantFacts, MulMono, SMTT(60)
    <2>5. Refill * 0 = 0 /\ elapsed * Refill = Refill * elapsed
      BY <2>3, ConstantFacts, SMTT(60)
    <2>6. gained \in Int /\ gained >= 0 /\ gained = table[a].tokens + Refill * elapsed
      BY <2>2, <2>4, <2>5, SMTT(60)
    <2>7. e = [tokens |-> Min({Capacity, gained}), lastRefill |-> now, lastSeen |-> now]
      BY <1>2, <2>3 DEF Refilled
    <2> HIDE DEF gained, elapsed
    <2>8. Min({Capacity, gained}) = IF Capacity <= gained THEN Capacity ELSE gained
      BY <2>6, ConstantFacts, MinOfTwo, SMTT(60)
    <2>9. e.tokens \in Int /\ 0 <= e.tokens /\ e.tokens <= Capacity /\ e.tokens <= gained
          /\ (e.tokens = Capacity \/ e.tokens = gained)
      BY <2>6, <2>7, <2>8, ConstantFacts, SMTT(60)
    <2>10. e \in Entry
      BY <2>7, <2>9, EntryType, SMTT(60)
    <2>11. QED
      BY <1>2, <2>6, <2>7, <2>9, <2>10, SMTT(60) DEF elapsed
  <1>3. CASE table[a] # None /\ ~(now > table[a].lastRefill)
    <2>1. table[a] \in Entry
      BY <1>3
    <2>2. table[a].lastRefill \in Int
      BY <2>1, EntryFacts
    <2>3. e = [table[a] EXCEPT !.lastSeen = now]
      BY <1>n, <1>3, <2>2, SMTT(60) DEF Refilled
    <2>4. QED
      BY <1>3, <2>1, <2>3 DEF Entry
  <1>4. QED
    BY <1>1, <1>2, <1>3

\* The tables that are kept, and the ones that are dropped.
LEMMA KeepFacts ==
    ASSUME NEW tables \in [Limiters -> [Addrs -> Entry \cup {None}]], Keep(tables)
    PROVE  /\ entries' \in [Limiters -> [Addrs -> Entry \cup {None}]]
           /\ \A g \in Limiters : Used(g) => entries'[g] = tables[g]
           /\ \A g \in Limiters, a \in Addrs :
                 entries'[g][a] = None \/ entries'[g][a] = tables[g][a]
  <1>1. Empty \in [Addrs -> Entry \cup {None}] /\ \A a \in Addrs : Empty[a] = None
    BY DEF Empty
  <1>2. \A g \in Limiters : entries'[g] = IF Used(g) THEN tables[g] ELSE Empty
    BY DEF Keep
  <1>3. entries' \in [Limiters -> [Addrs -> Entry \cup {None}]]
    <2>1. entries' = [g \in Limiters |-> IF Used(g) THEN tables[g] ELSE Empty]
      BY DEF Keep
    <2>2. \A g \in Limiters : (IF Used(g) THEN tables[g] ELSE Empty) \in [Addrs -> Entry \cup {None}]
      BY <1>1
    <2>3. QED
      BY <2>1, <2>2
  <1>4. QED
    BY <1>1, <1>2, <1>3

\* A call takes a token or not, from the bucket e it found or made, which leaves
\* the bucket b, and it may remove buckets of its limiter.
Takes(h, table, e, b) ==
    LET g   == reading[h].limiter
        a   == reading[h].addr
        now == reading[h].now
    IN  /\ table \in [Addrs -> Entry \cup {None}]
        /\ \A c \in Addrs : table[c] = None \/ table[c] = entries[g][c]
        /\ e = Refilled(table, a, now)
        /\ b \in Entry /\ b.lastRefill = e.lastRefill /\ b.lastSeen = now
        /\ b.tokens = IF e.tokens >= Unit THEN e.tokens - Unit ELSE e.tokens
        /\ Keep([entries EXCEPT ![g] = [table EXCEPT ![a] = b]])
        /\ Observe([entries EXCEPT ![g] = table], IF e.tokens >= Unit THEN {<<g, a>>} ELSE {})
        /\ refused' = IF e.tokens >= Unit \/ lastCall[a] = Hasty THEN refused
                      ELSE refused \cup {a}

\* allowAt is such a call.
LEMMA AllowAtTakes ==
    ASSUME TypeOK, NEW h \in Handlers, AllowAt(h)
    PROVE  \E table, e, b : Takes(h, table, e, b)
  <1>1. /\ reading[h].limiter \in Limiters /\ reading[h].addr \in Addrs
        /\ reading[h].now \in Times
        /\ entries[reading[h].limiter] \in [Addrs -> Entry \cup {None}]
    BY RecordFacts DEF AllowAt, TypeOK
  <1>2. PICK table \in MakeRoom(DeleteExpired(entries[reading[h].limiter], reading[h].now),
                                reading[h].addr) :
          LET g   == reading[h].limiter
              a   == reading[h].addr
              e   == Refilled(table, a, reading[h].now)
              ok  == e.tokens >= Unit
          IN  /\ Keep([entries EXCEPT ![g] = [table EXCEPT ![a] =
                    IF ok THEN [e EXCEPT !.tokens = @ - Unit] ELSE e]])
              /\ Observe([entries EXCEPT ![g] = table], IF ok THEN {<<g, a>>} ELSE {})
              /\ refused' = IF ok \/ lastCall[a] = Hasty THEN refused ELSE refused \cup {a}
    BY DEF AllowAt
  <1>3. /\ table \in [Addrs -> Entry \cup {None}]
        /\ \A c \in Addrs : table[c] = None \/ table[c] = entries[reading[h].limiter][c]
    BY <1>1, RoomFacts, SMTT(60)
  <1> DEFINE e == Refilled(table, reading[h].addr, reading[h].now)
             b == IF e.tokens >= Unit THEN [e EXCEPT !.tokens = @ - Unit] ELSE e
  <1>4. e \in Entry /\ e.lastSeen = reading[h].now
    BY <1>1, <1>3, RefilledFacts, SMTT(60)
  <1>5. /\ b \in Entry /\ b.lastRefill = e.lastRefill /\ b.lastSeen = reading[h].now
        /\ b.tokens = IF e.tokens >= Unit THEN e.tokens - Unit ELSE e.tokens
    <2> HIDE DEF e
    <2>1. e.tokens \in Int /\ 0 <= e.tokens /\ e.tokens <= Capacity
      BY <1>4, EntryFacts
    <2>2. CASE e.tokens >= Unit
      <3>1. e.tokens - Unit \in 0..Capacity
        BY <2>1, <2>2, ConstantFacts, SMTT(60)
      <3>2. b = [e EXCEPT !.tokens = e.tokens - Unit]
        BY <2>2
      <3>3. QED
        BY <1>4, <2>2, <3>1, <3>2 DEF Entry
    <2>3. CASE ~(e.tokens >= Unit)
      BY <1>4, <2>3
    <2>4. QED
      BY <2>2, <2>3
  <1>6. Takes(h, table, e, b)
    BY <1>2, <1>3, <1>5 DEF Takes
  <1>7. QED
    BY <1>6

\* The tables such a call leaves, before limiters that nobody uses are dropped.
Left(h, table, b) ==
    [entries EXCEPT ![reading[h].limiter] = [table EXCEPT ![reading[h].addr] = b]]

\* They differ from the tables before in one limiter only.
LEMMA LeftFacts ==
    ASSUME TypeOK, NEW h \in Handlers, reading[h] # None, NEW table, NEW e, NEW b,
           Takes(h, table, e, b)
    PROVE  /\ Keep(Left(h, table, b))
           /\ Left(h, table, b) \in [Limiters -> [Addrs -> Entry \cup {None}]]
           /\ Left(h, table, b)[reading[h].limiter] = [table EXCEPT ![reading[h].addr] = b]
           /\ \A g \in Limiters \ {reading[h].limiter} : Left(h, table, b)[g] = entries[g]
  <1>1. reading[h].limiter \in Limiters /\ reading[h].addr \in Addrs
    BY RecordFacts
  <1>2. table \in [Addrs -> Entry \cup {None}] /\ b \in Entry
    BY DEF Takes
  <1>3. QED
    BY <1>1, <1>2 DEF TypeOK, Left, Takes

\* Such a call changes a limiter that is still used in its own bucket only.
LEMMA TakesFacts ==
    ASSUME TypeOK, NEW h \in Handlers, reading[h] # None, NEW table, NEW e, NEW b,
           Takes(h, table, e, b)
    PROVE  /\ entries' \in [Limiters -> [Addrs -> Entry \cup {None}]]
           /\ \A g \in Limiters : Used(g) =>
                 entries'[g] = IF g = reading[h].limiter
                               THEN [table EXCEPT ![reading[h].addr] = b] ELSE entries[g]
  BY LeftFacts, KeepFacts, SMTT(60)

\* It changes its own bucket, and removes another or leaves it.
LEMMA TakesBucket ==
    ASSUME TypeOK, NEW h \in Handlers, reading[h] # None, NEW table, NEW e, NEW b,
           Takes(h, table, e, b), NEW g \in Limiters, NEW a \in Addrs
    PROVE  \/ entries'[g][a] = None
           \/ g = reading[h].limiter /\ a = reading[h].addr /\ entries'[g][a] = b
           \/ ~(g = reading[h].limiter /\ a = reading[h].addr) /\ entries'[g][a] = entries[g][a]
  <1>1. entries'[g][a] = None \/ entries'[g][a] = Left(h, table, b)[g][a]
    <2>1. /\ Keep(Left(h, table, b))
          /\ Left(h, table, b) \in [Limiters -> [Addrs -> Entry \cup {None}]]
      BY LeftFacts
    <2>2. QED
      BY <2>1, KeepFacts
  <1>2. /\ reading[h].addr \in Addrs /\ table \in [Addrs -> Entry \cup {None}]
        /\ table[a] = None \/ table[a] = entries[reading[h].limiter][a]
    BY RecordFacts DEF Takes
  <1>3. \/ g = reading[h].limiter /\ Left(h, table, b)[g] = [table EXCEPT ![reading[h].addr] = b]
        \/ g # reading[h].limiter /\ Left(h, table, b)[g] = entries[g]
    BY LeftFacts, SMTT(60)
  <1>4. QED
    BY <1>1, <1>2, <1>3

-----------------------------------------------------------------------------
(* One lemma per part of the invariant.                                    *)

\* A window that goes on is over a bucket that is left.
LEMMA ObserveFacts ==
    ASSUME TypeOK, NEW left, NEW admitting, Observe(left, admitting)
    PROVE  /\ window' \in [limiter: Limiters, addr: Addrs, start: Times, admitted: Nat] \cup {None}
           /\ window' # None =>
                /\ window # None /\ Used(window.limiter)
                /\ left[window.limiter][window.addr] # None
                /\ window'.limiter = window.limiter /\ window'.addr = window.addr
                /\ window'.start = window.start
                /\ window'.admitted = IF <<window.limiter, window.addr>> \in admitting
                                      THEN window.admitted + 1 ELSE window.admitted
  <1>1. CASE window' = None
    BY <1>1
  <1>2. CASE window' # None
    <2>1. /\ window # None /\ Used(window.limiter)
          /\ left[window.limiter][window.addr] # None
      BY <1>2 DEF Observe
    <2>2. window' = IF <<window.limiter, window.addr>> \in admitting
                    THEN [window EXCEPT !.admitted = @ + 1] ELSE window
      BY <2>1 DEF Observe
    <2>3. window \in [limiter: Limiters, addr: Addrs, start: Times, admitted: Nat]
      BY <2>1 DEF TypeOK
    <2>4. CASE <<window.limiter, window.addr>> \in admitting
      <3>1. window' = [window EXCEPT !.admitted = window.admitted + 1]
        BY <2>2, <2>4
      <3>2. QED
        BY <2>1, <2>3, <2>4, <3>1, SMTT(60)
    <2>5. CASE <<window.limiter, window.addr>> \notin admitting
      BY <2>1, <2>2, <2>3, <2>5
    <2>6. QED
      BY <2>4, <2>5
  <1>3. QED
    BY <1>1, <1>2

\* The types.
LEMMA TypeStep ==
    ASSUME IInv, [Next]_vars
    PROVE  TypeOK'
  <1> USE DEF IInv
  <1>1. CASE Tick
    <2>1. clock' \in Times
      BY <1>1, RecordFacts, ConstantFacts, SMTT(60) DEF Tick, Times
    <2>2. QED
      BY <1>1, <2>1 DEF Tick, TypeOK, limiterVars, history
  <1>2. CASE SwapSnapshot
    <2>1. current' \in Limiters
      BY <1>2, ConstantFacts, SMTT(60) DEF SwapSnapshot, TypeOK, Limiters
    <2>2. entries' \in [Limiters -> [Addrs -> Entry \cup {None}]]
      BY <1>2, KeepFacts DEF SwapSnapshot, TypeOK
    <2>3. window' \in [limiter: Limiters, addr: Addrs, start: Times, admitted: Nat] \cup {None}
      BY <1>2, ObserveFacts DEF SwapSnapshot
    <2>4. QED
      BY <1>2, <2>1, <2>2, <2>3 DEF SwapSnapshot, TypeOK
  <1>3. ASSUME NEW h \in Handlers, NEW a \in Addrs, Allow(h, a)
        PROVE  TypeOK'
    <2>1. [limiter |-> current, addr |-> a, now |-> clock]
             \in [limiter: Limiters, addr: Addrs, now: Times]
      BY DEF TypeOK
    <2>2. reading' \in [Handlers -> [limiter: Limiters, addr: Addrs, now: Times] \cup {None}]
      BY <1>3, <2>1 DEF Allow, TypeOK
    <2>3. lastCall' \in [Addrs -> Times \cup {None, Hasty}]
      BY <1>3 DEF Allow, TypeOK
    <2>4. QED
      BY <1>3, <2>2, <2>3 DEF Allow, TypeOK, limiterVars
  <1>4. ASSUME NEW h \in Handlers, AllowAt(h)
        PROVE  TypeOK'
    <2>1. PICK table, e, b : Takes(h, table, e, b)
      BY <1>4, AllowAtTakes
    <2>2. reading[h] # None
      BY <1>4 DEF AllowAt
    <2>3. entries' \in [Limiters -> [Addrs -> Entry \cup {None}]]
      BY <2>1, <2>2, TakesFacts
    <2>4. window' \in [limiter: Limiters, addr: Addrs, start: Times, admitted: Nat] \cup {None}
      BY <2>1, ObserveFacts DEF Takes
    <2>5. refused' \subseteq Addrs
      <3>1. reading[h].addr \in Addrs
        BY <2>2, RecordFacts
      <3>2. refused' = refused \/ refused' = refused \cup {reading[h].addr}
        BY <2>1 DEF Takes
      <3>3. QED
        BY <3>1, <3>2 DEF TypeOK
    <2>6. reading' \in [Handlers -> [limiter: Limiters, addr: Addrs, now: Times] \cup {None}]
      BY <1>4 DEF AllowAt, TypeOK
    <2>7. QED
      BY <1>4, <2>3, <2>4, <2>5, <2>6 DEF AllowAt, TypeOK
  <1>5. ASSUME NEW g \in Limiters, NEW a \in Addrs, OpenWindow(g, a)
        PROVE  TypeOK'
    <2>1. window' \in [limiter: Limiters, addr: Addrs, start: Times, admitted: Nat]
      BY <1>5 DEF OpenWindow, TypeOK
    <2>2. QED
      BY <1>5, <2>1 DEF OpenWindow, TypeOK, limiterVars
  <1>6. CASE UNCHANGED vars
    BY <1>6 DEF TypeOK, vars, limiterVars, history
  <1>7. QED
    BY <1>1, <1>2, <1>3, <1>4, <1>5, <1>6 DEF Next

\* The times.
LEMMA TimeStep ==
    ASSUME IInv, [Next]_vars
    PROVE  TimeInv'
  <1> USE DEF IInv
  <1>c. clock \in Int /\ clock >= 0 /\ MaxDelay \in Nat
    BY RecordFacts, ConstantFacts
  <1>t. /\ \A h \in Handlers : reading[h] # None => reading[h].now \in Int
        /\ \A g \in Limiters, a \in Addrs : entries[g][a] # None =>
              entries[g][a].lastRefill \in Int /\ entries[g][a].lastSeen \in Int
    BY RecordFacts, EntryFacts, ConstantFacts, SMTT(60) DEF Times
  <1>1. CASE Tick
    <2>1. /\ clock' = clock + 1 /\ reading' = reading /\ entries' = entries
          /\ \A h \in Handlers : reading[h] # None => clock < reading[h].now + MaxDelay
      BY <1>1 DEF Tick, limiterVars
    <2>2. QED
      BY <1>c, <1>t, <2>1, SMTT(60) DEF TimeInv
  <1>2. CASE SwapSnapshot
    <2>1. clock' = clock /\ reading' = reading
      BY <1>2 DEF SwapSnapshot
    <2>2. \A g \in Limiters, a \in Addrs : entries'[g][a] = None \/ entries'[g][a] = entries[g][a]
      BY <1>2, KeepFacts DEF SwapSnapshot, TypeOK
    <2>3. QED
      BY <2>1, <2>2 DEF TimeInv
  <1>3. ASSUME NEW h \in Handlers, NEW a \in Addrs, Allow(h, a)
        PROVE  TimeInv'
    <2>1. clock' = clock /\ entries' = entries
      BY <1>3 DEF Allow, limiterVars
    <2>2. /\ reading'[h].now = clock
          /\ \A k \in Handlers \ {h} : reading'[k] = reading[k]
      BY <1>3 DEF Allow, TypeOK
    <2>3. QED
      BY <1>c, <2>1, <2>2, SMTT(60) DEF TimeInv
  <1>4. ASSUME NEW h \in Handlers, AllowAt(h)
        PROVE  TimeInv'
    <2>1. PICK table, e, b : Takes(h, table, e, b)
      BY <1>4, AllowAtTakes
    <2> DEFINE g == reading[h].limiter
               a == reading[h].addr
               now == reading[h].now
    <2>2. /\ reading[h] # None /\ clock' = clock
          /\ \A k \in Handlers : reading'[k] = None \/ reading'[k] = reading[k]
      BY <1>4 DEF AllowAt, TypeOK
    <2>3. g \in Limiters /\ a \in Addrs /\ now \in Times /\ now \in Int
      BY <1>t, <2>2, RecordFacts
    <2>4. now <= clock /\ clock <= now + MaxDelay
      BY <2>2 DEF TimeInv
    <2>5. /\ table \in [Addrs -> Entry \cup {None}] /\ e = Refilled(table, a, now)
          /\ b.lastRefill = e.lastRefill /\ b.lastSeen = now
          /\ table[a] = None \/ table[a] = entries[g][a]
      BY <2>1, <2>3 DEF Takes
    <2>6. e.lastRefill = now \/ (entries[g][a] # None /\ e.lastRefill = entries[g][a].lastRefill)
      BY <2>3, <2>5, RefilledFacts, SMTT(60)
    <2>7. b.lastRefill <= clock /\ b.lastRefill <= b.lastSeen + MaxDelay
      <3>1. entries[g][a] # None => entries[g][a].lastRefill \in Int /\ entries[g][a].lastRefill <= clock
        BY <1>t, <2>3 DEF TimeInv
      <3>2. QED
        <4> HIDE DEF g, a, now
        <4>1. QED
          BY <1>c, <2>3, <2>4, <2>5, <2>6, <3>1, SMTT(60)
    <2>8. \A d \in Limiters, c \in Addrs :
             entries'[d][c] = None \/ entries'[d][c] = b \/ entries'[d][c] = entries[d][c]
      BY <2>1, <2>2, TakesBucket, SMTT(60)
    <2>9. QED
      BY <2>2, <2>7, <2>8 DEF TimeInv
  <1>5. ASSUME NEW g \in Limiters, NEW a \in Addrs, OpenWindow(g, a)
        PROVE  TimeInv'
    BY <1>5 DEF OpenWindow, TimeInv, limiterVars
  <1>6. CASE UNCHANGED vars
    BY <1>6 DEF TimeInv, vars, limiterVars
  <1>7. QED
    BY <1>1, <1>2, <1>3, <1>4, <1>5, <1>6 DEF Next

\* The numbers of a window.
LEMMA WindowFacts ==
    ASSUME TypeOK, window # None
    PROVE  /\ window.limiter \in Limiters /\ window.addr \in Addrs
           /\ window.start \in Int /\ window.admitted \in Nat
  BY ConstantFacts, SMTT(60) DEF TypeOK, Times

\* A call on the bucket of the window: what is taken from it was in it or flowed in.
LEMMA WindowOfACall ==
    ASSUME IInv, NEW h \in Handlers, AllowAt(h)
    PROVE  WindowInv'
  <1> USE DEF IInv
  <1> SUFFICES ASSUME window' # None
               PROVE  /\ entries'[window'.limiter][window'.addr] \in Entry
                      /\ window'.start <= clock'
                      /\ \/ window'.admitted = 0
                         \/ /\ entries'[window'.limiter][window'.addr].lastRefill
                                  >= window'.start - MaxDelay
                            /\ window'.admitted * Unit + entries'[window'.limiter][window'.addr].tokens
                                  <= Capacity + Refill * (entries'[window'.limiter][window'.addr].lastRefill
                                                             - window'.start + MaxDelay)
    BY DEF WindowInv
  <1>1. PICK table, e, b : Takes(h, table, e, b)
    BY AllowAtTakes
  <1> DEFINE g == reading[h].limiter
             a == reading[h].addr
             now == reading[h].now
             d == window.limiter
             c == window.addr
             old == entries[d][c]
             start == window.start
             n == window.admitted
  <1>2. reading[h] # None /\ clock' = clock
    BY DEF AllowAt
  <1>3. /\ g \in Limiters /\ a \in Addrs /\ now \in Times /\ now \in Int
        /\ clock \in Int /\ now <= clock /\ clock <= now + MaxDelay
    BY <1>2, RecordFacts, ConstantFacts, SMTT(60) DEF Times, TimeInv
  <1>4. /\ table \in [Addrs -> Entry \cup {None}] /\ e = Refilled(table, a, now)
        /\ table[a] = None \/ table[a] = entries[g][a]
        /\ b \in Entry /\ b.lastRefill = e.lastRefill
        /\ b.tokens = IF e.tokens >= Unit THEN e.tokens - Unit ELSE e.tokens
        /\ Observe([entries EXCEPT ![g] = table], IF e.tokens >= Unit THEN {<<g, a>>} ELSE {})
    BY <1>1, <1>3 DEF Takes
  <1>5. /\ window # None /\ Used(d)
        /\ [entries EXCEPT ![g] = table][d][c] # None
        /\ window'.limiter = d /\ window'.addr = c /\ window'.start = start
        /\ window'.admitted = IF <<d, c>> \in (IF e.tokens >= Unit THEN {<<g, a>>} ELSE {})
                              THEN n + 1 ELSE n
    BY <1>4, ObserveFacts
  <1>6. /\ d \in Limiters /\ c \in Addrs /\ start \in Int /\ n \in Nat
    BY <1>5, WindowFacts
  <1>7. /\ old \in Entry /\ start <= clock
        /\ \/ n = 0
           \/ /\ old.lastRefill >= start - MaxDelay
              /\ n * Unit + old.tokens <= Capacity + Refill * (old.lastRefill - start + MaxDelay)
    BY <1>5 DEF WindowInv
  <1>8. entries'[d] = IF d = g THEN [table EXCEPT ![a] = b] ELSE entries[d]
    BY <1>1, <1>2, <1>5, <1>6, TakesFacts
  <1>9. CASE ~(d = g /\ c = a)
    <2>1. window'.admitted = n
      BY <1>5, <1>9
    <2>2. entries'[d][c] = old
      <3>1. CASE d = g
        <4>1. table[c] # None
          BY <1>3, <1>5, <3>1 DEF TypeOK
        <4>2. table[c] = None \/ table[c] = entries[g][c]
          BY <1>1, <1>6 DEF Takes
        <4>3. entries'[d][c] = table[c]
          BY <1>4, <1>6, <1>8, <1>9, <3>1
        <4>4. QED
          BY <3>1, <4>1, <4>2, <4>3
      <3>2. CASE d # g
        BY <1>8, <3>2
      <3>3. QED
        BY <3>1, <3>2
    <2>3. QED
      BY <1>2, <1>5, <1>7, <2>1, <2>2
  <1>10. CASE d = g /\ c = a
    <2>1. entries'[d][c] = b
      BY <1>3, <1>4, <1>8, <1>10
    <2>2. table[a] # None /\ table[a] = old
      BY <1>3, <1>4, <1>5, <1>10 DEF TypeOK
    <2>3. /\ window'.admitted = IF e.tokens >= Unit THEN n + 1 ELSE n
      BY <1>5, <1>10
    <2>4. /\ e \in Entry
          /\ IF now > old.lastRefill
             THEN e.lastRefill = now /\ e.tokens <= old.tokens + Refill * (now - old.lastRefill)
             ELSE e.lastRefill = old.lastRefill /\ e.tokens = old.tokens
      <3> HIDE DEF IInv, g, a, now, d, c, old, start, n
      <3>1. QED
        BY <1>3, <1>4, <2>2, RefilledFacts, SMTT(60)
    <2> DEFINE m == window'.admitted
    <2>5. /\ old.tokens \in Int /\ old.lastRefill \in Int /\ e.tokens \in Int /\ e.lastRefill \in Int
          /\ b.tokens \in Int /\ e.tokens <= Capacity /\ b.tokens >= 0
      BY <1>4, <1>7, <2>4, EntryFacts
    <2>6. m * Unit + b.tokens = n * Unit + e.tokens /\ m \in Nat /\ n * Unit \in Int
      <3>1. (n + 1) * Unit = n * Unit + Unit /\ n * Unit \in Int
        BY <1>6, ConstantFacts, SMTT(60)
      <3> HIDE DEF IInv, g, a, now, d, c, old, start, n
      <3>2. QED
        BY <1>4, <1>6, <2>3, <2>5, <3>1, ConstantFacts, SMTT(60)
    <2>7. CASE n = 0 /\ e.lastRefill < start - MaxDelay
      <3>1. FALSE
        <4>1. e.lastRefill >= now
          BY <1>3, <2>4, <2>5, SMTT(60)
        <4>2. QED
          BY <1>3, <1>6, <1>7, <2>5, <2>7, <4>1, ConstantFacts, SMTT(60)
      <3>2. QED
        BY <3>1
    <2>8. CASE n = 0 /\ e.lastRefill >= start - MaxDelay
      <3>1. Refill * 0 <= Refill * (e.lastRefill - start + MaxDelay)
            /\ Refill * (e.lastRefill - start + MaxDelay) \in Int
        <4>1. e.lastRefill - start + MaxDelay \in Int /\ 0 <= e.lastRefill - start + MaxDelay
          BY <1>6, <2>5, <2>8, ConstantFacts, SMTT(60)
        <4>2. QED
          BY <4>1, MulMono, ConstantFacts, SMTT(60)
      <3>2. n * Unit = 0 /\ Refill * 0 = 0
        BY <2>8, ConstantFacts, SMTT(60)
      <3>3. m * Unit + b.tokens <= Capacity + Refill * (e.lastRefill - start + MaxDelay)
        BY <2>5, <2>6, <3>1, <3>2, ConstantFacts, SMTT(60)
      <3>4. QED
        BY <1>2, <1>4, <1>5, <1>7, <2>1, <2>8, <3>3
    <2>9. CASE n # 0
      <3>1. /\ old.lastRefill >= start - MaxDelay
            /\ n * Unit + old.tokens <= Capacity + Refill * (old.lastRefill - start + MaxDelay)
        BY <1>7, <2>9
      <3>2. CASE now > old.lastRefill
        <4> DEFINE x == old.lastRefill - start + MaxDelay
                   y == now - old.lastRefill
        <4>1. x \in Int /\ y \in Int /\ now - start + MaxDelay = x + y
          BY <1>3, <1>6, <2>5, ConstantFacts, SMTT(60)
        <4>2. Refill * (x + y) = Refill * x + Refill * y /\ Refill * x \in Int /\ Refill * y \in Int
          BY <4>1, ConstantFacts, SMTT(60)
        <4>3. e.tokens <= old.tokens + Refill * y /\ e.lastRefill = now
          BY <2>4, <3>2
        <4>4. n * Unit + old.tokens <= Capacity + Refill * x
          BY <3>1
        <4>5. n * Unit + e.tokens <= Capacity + (Refill * x + Refill * y)
          <5> HIDE DEF x, y
          <5> QED BY <2>5, <2>6, <4>2, <4>3, <4>4, ConstantFacts, SMTT(60)
        <4>6. m * Unit + b.tokens <= Capacity + Refill * (e.lastRefill - start + MaxDelay)
          BY <2>6, <4>1, <4>2, <4>3, <4>5
        <4>7. e.lastRefill >= start - MaxDelay
          BY <1>3, <1>6, <2>5, <3>1, <3>2, <4>3, ConstantFacts, SMTT(60)
        <4>8. QED
          BY <1>2, <1>4, <1>5, <1>7, <2>1, <4>6, <4>7
      <3>3. CASE ~(now > old.lastRefill)
        <4>1. e.lastRefill = old.lastRefill /\ e.tokens = old.tokens
          BY <2>4, <3>3
        <4>2. m * Unit + b.tokens <= Capacity + Refill * (e.lastRefill - start + MaxDelay)
          BY <2>6, <3>1, <4>1
        <4>3. QED
          BY <1>2, <1>4, <1>5, <1>7, <2>1, <3>1, <4>1, <4>2
      <3>4. QED
        BY <3>2, <3>3
    <2>10. QED
      BY <1>6, <2>5, <2>7, <2>8, <2>9, ConstantFacts, SMTT(60)
  <1>11. QED
    BY <1>9, <1>10

\* The window.
LEMMA WindowStep ==
    ASSUME IInv, [Next]_vars
    PROVE  WindowInv'
  <1> USE DEF IInv
  <1>c. clock \in Int
    BY RecordFacts
  <1>1. CASE Tick
    <2>1. clock' = clock + 1 /\ window' = window /\ entries' = entries
      BY <1>1 DEF Tick, limiterVars, history
    <2>2. window # None => window.start \in Int
      BY WindowFacts
    <2>3. QED
      BY <1>c, <2>1, <2>2, SMTT(60) DEF WindowInv
  <1>2. CASE SwapSnapshot
    <2>1. clock' = clock /\ Keep(entries) /\ Observe(entries, {})
      BY <1>2 DEF SwapSnapshot
    <2>2. window' # None =>
             /\ window # None /\ Used(window.limiter)
             /\ window'.limiter = window.limiter /\ window'.addr = window.addr
             /\ window'.start = window.start /\ window'.admitted = window.admitted
      BY <2>1, ObserveFacts, SMTT(60)
    <2>3. \A g \in Limiters : Used(g) => entries'[g] = entries[g]
      BY <2>1, KeepFacts DEF TypeOK
    <2>4. window' # None => entries'[window'.limiter] = entries[window.limiter]
      BY <2>2, <2>3, WindowFacts, SMTT(60)
    <2>5. QED
      BY <2>1, <2>2, <2>4 DEF WindowInv
  <1>3. ASSUME NEW h \in Handlers, NEW a \in Addrs, Allow(h, a)
        PROVE  WindowInv'
    BY <1>3 DEF Allow, limiterVars, WindowInv
  <1>4. ASSUME NEW g \in Limiters, NEW a \in Addrs, OpenWindow(g, a)
        PROVE  WindowInv'
    <2>1. entries[g][a] \in Entry
      BY <1>4, RecordFacts DEF OpenWindow
    <2>2. /\ window' = [limiter |-> g, addr |-> a, start |-> clock, admitted |-> 0]
          /\ entries' = entries /\ clock' = clock
      BY <1>4 DEF OpenWindow, limiterVars
    <2>3. /\ window'.limiter = g /\ window'.addr = a
          /\ window'.start = clock /\ window'.admitted = 0
      BY <2>2
    <2>4. QED
      BY <1>c, <2>1, <2>2, <2>3, SMTT(60) DEF WindowInv
  <1>5. CASE UNCHANGED vars
    BY <1>5 DEF WindowInv, vars, limiterVars, history
  <1>6. QED
    BY <1>1, <1>2, <1>3, <1>4, <1>5, WindowOfACall DEF Next

\* A call of a client that keeps its distance finds a token.
LEMMA SpacedFindsAToken ==
    ASSUME IInv, NEW h \in Handlers, reading[h] # None, NEW table, NEW e, NEW b,
           Takes(h, table, e, b), lastCall[reading[h].addr] # Hasty
    PROVE  e.tokens >= Unit
  <1> USE DEF IInv
  <1> DEFINE g == reading[h].limiter
             a == reading[h].addr
             now == reading[h].now
  <1>1. g \in Limiters /\ a \in Addrs /\ now \in Times /\ now \in Int
    BY RecordFacts, ConstantFacts, SMTT(60) DEF Times
  <1>2. /\ table \in [Addrs -> Entry \cup {None}] /\ e = Refilled(table, a, now)
        /\ table[a] = None \/ table[a] = entries[g][a]
    BY <1>1 DEF Takes
  <1>3. CASE table[a] = None
    <2>1. e.tokens = Capacity
      BY <1>1, <1>2, <1>3, RefilledFacts, SMTT(60)
    <2>2. QED
      BY <2>1, ConstantFacts
  <1>4. CASE table[a] # None
    <2>1. table[a] = entries[g][a] /\ entries[g][a] \in Entry
      BY <1>1, <1>2, <1>4, RecordFacts
    <2> DEFINE old == entries[g][a]
    <2>2. old.lastRefill \in Int /\ old.tokens \in Int /\ old.tokens >= 0
      BY <2>1, EntryFacts
    <2>3. lastCall[a] \notin {None, Hasty}
      BY <1>1 DEF SpacedInv
    <2>4. now = lastCall[a] /\ old.lastRefill + MinSpacing <= lastCall[a]
      BY <1>1, <1>4, <2>1, <2>3 DEF SpacedInv
    <2>5. MinSpacing <= now - old.lastRefill /\ now > old.lastRefill
          /\ now - old.lastRefill \in Int
      <3> HIDE DEF IInv, g, a, now, old
      <3>1. QED
        BY <1>1, <2>2, <2>4, ConstantFacts, SMTT(60)
    <2>6. \/ e.tokens = Capacity
          \/ e.tokens = old.tokens + Refill * (now - old.lastRefill)
      <3> HIDE DEF IInv, g, a, now
      <3>1. QED
        BY <1>1, <1>2, <1>4, <2>1, <2>5, RefilledFacts, SMTT(60)
    <2>7. Refill * MinSpacing <= Refill * (now - old.lastRefill)
          /\ Refill * (now - old.lastRefill) \in Int /\ Refill * MinSpacing \in Int
      BY <2>5, MulMono, ConstantFacts, SMTT(60)
    <2> HIDE DEF IInv, g, a, now, old
    <2>8. QED
      BY <2>2, <2>6, <2>7, ConstantFacts, SMTT(60)
  <1>5. QED
    BY <1>3, <1>4

\* Nobody who keeps the distance is refused.
LEMMA RefusedStep ==
    ASSUME IInv, [Next]_vars
    PROVE  SpacedClientIsAdmitted'
  <1> USE DEF IInv
  <1>1. ASSUME NEW h \in Handlers, AllowAt(h)
        PROVE  refused' = refused
    <2>1. PICK table, e, b : Takes(h, table, e, b)
      BY <1>1, AllowAtTakes
    <2>2. reading[h] # None
      BY <1>1 DEF AllowAt
    <2>3. e.tokens >= Unit \/ lastCall[reading[h].addr] = Hasty
      BY <2>1, <2>2, SpacedFindsAToken
    <2>4. QED
      BY <2>1, <2>3 DEF Takes
  <1>2. refused' = refused
    BY <1>1 DEF Next, Tick, SwapSnapshot, Allow, OpenWindow, vars, history
  <1>3. QED
    BY <1>2 DEF SpacedClientIsAdmitted

\* Buckets that only go and calls that only end keep the distances.
LEMMA SpacedFrame ==
    ASSUME NEW a \in Addrs, SpacedInv(a), lastCall'[a] = lastCall[a],
           \A g \in Limiters : entries'[g][a] = None \/ entries'[g][a] = entries[g][a],
           \A h \in Handlers : \/ reading'[h] = None
                               \/ reading'[h].addr # a
                               \/ reading'[h] = reading[h]
    PROVE  SpacedInv(a)'
  BY DEF SpacedInv

\* The call of a client that keeps its distance.
LEMMA SpacedOfACall ==
    ASSUME IInv, NEW h \in Handlers, AllowAt(h), NEW a \in Addrs
    PROVE  SpacedInv(a)'
  <1> USE DEF IInv
  <1>1. PICK table, e, b : Takes(h, table, e, b)
    BY AllowAtTakes
  <1>2. /\ reading[h] # None /\ lastCall' = lastCall
        /\ reading'[h] = None /\ \A k \in Handlers \ {h} : reading'[k] = reading[k]
    BY DEF AllowAt, TypeOK
  <1> DEFINE l == reading[h].limiter
             now == reading[h].now
  <1>3. l \in Limiters /\ reading[h].addr \in Addrs /\ now \in Times /\ now \in Int
    BY <1>2, RecordFacts, ConstantFacts, SMTT(60) DEF Times
  <1>4. \A g \in Limiters :
           \/ entries'[g][a] = None
           \/ g = l /\ a = reading[h].addr /\ entries'[g][a] = b
           \/ ~(g = l /\ a = reading[h].addr) /\ entries'[g][a] = entries[g][a]
    BY <1>1, <1>2, TakesBucket, SMTT(60)
  <1>5. CASE reading[h].addr # a
    BY <1>2, <1>4, <1>5, SpacedFrame
  <1>6. CASE reading[h].addr = a /\ lastCall[a] = Hasty
    <2>1. Hasty # None
      BY LimiterAssumption, SMTT(60) DEF Hasty
    <2>2. QED
      BY <1>2, <1>6, <2>1 DEF SpacedInv
  <1>7. CASE reading[h].addr = a /\ lastCall[a] # Hasty
    <2>1. lastCall[a] \notin {None, Hasty}
      BY <1>2, <1>7 DEF SpacedInv
    <2>2. /\ now = lastCall[a]
          /\ \A k \in Handlers : reading[k] # None /\ reading[k].addr = a => k = h
          /\ \A g \in Limiters : entries[g][a] # None => entries[g][a].lastRefill <= lastCall[a]
      BY <1>2, <1>7, <2>1 DEF SpacedInv
    <2>3. b.lastRefill <= lastCall[a]
      <3>1. /\ table \in [Addrs -> Entry \cup {None}] /\ e = Refilled(table, a, now)
            /\ b.lastRefill = e.lastRefill
            /\ table[a] = None \/ table[a] = entries[l][a]
        BY <1>1, <1>7 DEF Takes
      <3>2. e.lastRefill = now \/ (entries[l][a] # None /\ e.lastRefill = entries[l][a].lastRefill)
        BY <1>3, <3>1, RefilledFacts, SMTT(60)
      <3>3. QED
        BY <1>3, <2>2, <3>1, <3>2, SMTT(60)
    <2>4. \A g \in Limiters : entries'[g][a] # None => entries'[g][a].lastRefill <= lastCall[a]
      BY <1>4, <2>2, <2>3
    <2>5. \A k \in Handlers : ~(reading'[k] # None /\ reading'[k].addr = a)
      BY <1>2, <2>2
    <2>6. QED
      BY <1>2, <2>1, <2>4, <2>5 DEF SpacedInv
  <1>8. QED
    BY <1>5, <1>6, <1>7

\* A client asks again.
LEMMA SpacedOfAnAllow ==
    ASSUME IInv, NEW h \in Handlers, NEW a \in Addrs, Allow(h, a)
    PROVE  SpacedInv(a)'
  <1> USE DEF IInv
  <1>1. /\ entries' = entries
        /\ reading'[h] = [limiter |-> current, addr |-> a, now |-> clock]
        /\ \A k \in Handlers \ {h} : reading'[k] = reading[k]
        /\ lastCall'[a] = IF Spaced(a) THEN clock ELSE Hasty
    BY DEF Allow, TypeOK, limiterVars
  <1>2. reading'[h].addr = a /\ reading'[h].now = clock
    BY <1>1, SMTT(60)
  <1>3. clock \in Int /\ clock >= 0 /\ Hasty # None /\ Hasty = -1 /\ None \notin Int
    BY RecordFacts, LimiterAssumption, SMTT(60) DEF Hasty
  <1>4. CASE ~Spaced(a)
    BY <1>1, <1>3, <1>4 DEF SpacedInv
  <1>5. CASE Spaced(a) /\ lastCall[a] = None
    <2>1. /\ \A g \in Limiters : entries[g][a] = None
          /\ \A k \in Handlers : reading[k] # None => reading[k].addr # a
      BY <1>5 DEF SpacedInv
    <2>2. lastCall'[a] = clock
      BY <1>1, <1>5
    <2>3. QED
      BY <1>1, <1>2, <1>3, <2>1, <2>2, SMTT(60) DEF SpacedInv
  <1>6. CASE Spaced(a) /\ lastCall[a] # None
    <2>1. lastCall[a] # Hasty /\ lastCall[a] \in Int /\ lastCall[a] + MinSpacing <= clock
      <3>1. lastCall[a] # Hasty /\ clock - lastCall[a] >= MinSpacing
        BY <1>6 DEF Spaced
      <3>2. lastCall[a] \in Int
        BY <1>6, <3>1, ConstantFacts, SMTT(60) DEF TypeOK, Times
      <3>3. QED
        BY <1>3, <3>1, <3>2, ConstantFacts, SMTT(60)
    <2>2. \A k \in Handlers : ~(reading[k] # None /\ reading[k].addr = a)
      <3>1. SUFFICES ASSUME NEW k \in Handlers, reading[k] # None, reading[k].addr = a
                     PROVE  FALSE
        OBVIOUS
      <3>2. reading[k].now = lastCall[a]
        BY <1>6, <2>1, <3>1 DEF SpacedInv
      <3>3. clock <= reading[k].now + MaxDelay
        BY <3>1 DEF TimeInv
      <3>4. QED
        BY <1>3, <2>1, <3>2, <3>3, ConstantFacts, SMTT(60)
    <2>3. \A g \in Limiters : entries[g][a] # None => entries[g][a].lastRefill <= lastCall[a]
      BY <1>6, <2>1 DEF SpacedInv
    <2>4. \A g \in Limiters : entries[g][a] # None => entries[g][a].lastRefill \in Int
      BY RecordFacts, EntryFacts
    <2>5. \A g \in Limiters : entries[g][a] # None =>
             entries[g][a].lastRefill + MinSpacing <= clock /\ entries[g][a].lastRefill <= clock
      BY <1>3, <2>1, <2>3, <2>4, ConstantFacts, SMTT(60)
    <2>6. lastCall'[a] = clock
      BY <1>1, <1>6
    <2>7. QED
      BY <1>1, <1>2, <1>3, <2>2, <2>5, <2>6, SMTT(60) DEF SpacedInv
  <1>7. QED
    BY <1>4, <1>5, <1>6

\* The distances.
LEMMA SpacedStep ==
    ASSUME IInv, [Next]_vars, NEW a \in Addrs
    PROVE  SpacedInv(a)'
  <1> USE DEF IInv
  <1>1. CASE Tick
    BY <1>1, SpacedFrame DEF Tick, limiterVars, history
  <1>2. CASE SwapSnapshot
    <2>1. \A g \in Limiters : entries'[g][a] = None \/ entries'[g][a] = entries[g][a]
      BY <1>2, KeepFacts DEF SwapSnapshot, TypeOK
    <2>2. QED
      BY <1>2, <2>1, SpacedFrame DEF SwapSnapshot
  <1>3. ASSUME NEW h \in Handlers, NEW b \in Addrs, Allow(h, b)
        PROVE  SpacedInv(a)'
    <2>1. CASE a = b
      BY <1>3, <2>1, SpacedOfAnAllow
    <2>2. CASE a # b
      <3>1. /\ entries' = entries /\ lastCall'[a] = lastCall[a]
            /\ reading'[h].addr # a
            /\ \A k \in Handlers \ {h} : reading'[k] = reading[k]
        BY <1>3, <2>2 DEF Allow, TypeOK, limiterVars
      <3>2. QED
        BY <3>1, SpacedFrame
    <2>3. QED
      BY <2>1, <2>2
  <1>4. ASSUME NEW g \in Limiters, NEW b \in Addrs, OpenWindow(g, b)
        PROVE  SpacedInv(a)'
    BY <1>4, SpacedFrame DEF OpenWindow, limiterVars
  <1>5. CASE UNCHANGED vars
    BY <1>5, SpacedFrame DEF vars, limiterVars, history
  <1>6. QED
    BY <1>1, <1>2, <1>3, <1>4, <1>5, SpacedOfACall DEF Next

-----------------------------------------------------------------------------
(* The theorems.                                                           *)

\* The invariant is inductive: it holds of empty tables, and every step of the
\* clock, of a handler or of a reload preserves it.
THEOREM Invariance == Spec => []IInv
  <1>1. Init => IInv
    <2> SUFFICES ASSUME Init PROVE IInv
      OBVIOUS
    <2>1. 0 \in Times /\ 0 \in Limiters
      BY ConstantFacts, SMTT(60) DEF Times, Limiters
    <2>2. \A g \in Limiters, a \in Addrs : entries[g][a] = None
      BY DEF Init
    <2>3. TypeOK
      BY <2>1 DEF Init, TypeOK
    <2>4. TimeInv /\ WindowInv
      BY <2>2 DEF Init, TimeInv, WindowInv
    <2>5. \A a \in Addrs : SpacedInv(a)
      BY <2>2 DEF Init, SpacedInv
    <2>6. QED
      BY <2>3, <2>4, <2>5 DEF Init, IInv, SpacedClientIsAdmitted
  <1>2. IInv /\ [Next]_vars => IInv'
    <2> SUFFICES ASSUME IInv, [Next]_vars PROVE IInv'
      OBVIOUS
    <2>1. TypeOK' /\ TimeInv' /\ WindowInv' /\ SpacedClientIsAdmitted'
      BY TypeStep, TimeStep, WindowStep, RefusedStep
    <2>2. \A a \in Addrs : SpacedInv(a)'
      BY SpacedStep
    <2>3. QED
      BY <2>1, <2>2 DEF IInv
  <1>3. QED
    BY <1>1, <1>2, PTL DEF Spec

\* Every reachable state of the limiters, the handlers and the history is well typed.
THEOREM TypeCorrect == Spec => []TypeOK
  <1>1. IInv => TypeOK
    BY DEF IInv
  <1>2. QED
    BY <1>1, Invariance, PTL

\* In any window of time a client whose bucket allowAt keeps is admitted no more often
\* than the burst, the rate and the delay of a handler allow.
THEOREM Paced == Spec => []PacedWhileKept
  <1>1. IInv => PacedWhileKept
    <2> SUFFICES ASSUME IInv, window # None
                 PROVE  window.admitted * Unit <= Capacity + Refill * (clock - window.start + MaxDelay)
      BY DEF PacedWhileKept
    <2> USE DEF IInv
    <2> DEFINE g == window.limiter
               a == window.addr
               n == window.admitted
               e == entries[g][a]
               now == clock - window.start + MaxDelay
    <2>1. g \in Limiters /\ a \in Addrs /\ window.start \in Int /\ n \in Nat /\ clock \in Int
      BY WindowFacts, RecordFacts
    <2>2. /\ e \in Entry /\ window.start <= clock
          /\ \/ n = 0
             \/ n * Unit + e.tokens <= Capacity + Refill * (e.lastRefill - window.start + MaxDelay)
      BY DEF WindowInv
    <2>3. now \in Int /\ 0 <= now
      BY <2>1, <2>2, ConstantFacts, SMTT(60)
    <2>4. e.tokens \in Int /\ 0 <= e.tokens /\ e.lastRefill \in Int
      BY <2>2, EntryFacts
    <2>5. Refill * 0 <= Refill * now /\ Refill * now \in Int /\ Refill * 0 = 0
      BY <2>3, MulMono, ConstantFacts, SMTT(60)
    <2>6. n * Unit \in Int /\ (n = 0 => n * Unit = 0)
      BY <2>1, ConstantFacts, SMTT(60)
    <2>7. CASE n = 0
      <3> HIDE DEF now
      <3> QED BY <2>5, <2>6, <2>7, ConstantFacts, SMTT(60) DEF now
    <2>8. CASE n * Unit + e.tokens <= Capacity + Refill * (e.lastRefill - window.start + MaxDelay)
      <3> DEFINE then == e.lastRefill - window.start + MaxDelay
      <3>1. e # None
        BY <2>2, LimiterAssumption
      <3>2. then \in Int /\ then <= now
        <4>1. e.lastRefill <= clock
          BY <2>1, <3>1 DEF TimeInv
        <4>2. QED
          BY <2>1, <2>4, <4>1, ConstantFacts, SMTT(60)
      <3>3. Refill * then <= Refill * now /\ Refill * then \in Int
        BY <2>3, <3>2, MulMono, ConstantFacts
      <3>4. QED
        BY <2>4, <2>5, <2>6, <2>8, <3>3, ConstantFacts, SMTT(60)
    <2>9. QED
      BY <2>2, <2>7, <2>8
  <1>2. QED
    BY <1>1, Invariance, PTL

\* With an idle timeout that leaves a bucket the time to fill up, deleteExpired removes
\* only buckets that would have been full.
THEOREM ExpiryFree == Spec => []ExpiryIsFree
  <1>1. IInv => ExpiryIsFree
    <2> SUFFICES ASSUME IInv, (IdleTimeout - MaxDelay) * Refill >= Capacity,
                        NEW h \in Handlers, reading[h] # None,
                        NEW a \in ExpiredKeys(entries[reading[h].limiter], reading[h].now)
                 PROVE  FullAt(entries[reading[h].limiter], a, reading[h].now)
      BY DEF ExpiryIsFree
    <2> USE DEF IInv
    <2> DEFINE g == reading[h].limiter
               now == reading[h].now
               e == entries[g][a]
    <2>1. g \in Limiters /\ now \in Int
      BY RecordFacts, ConstantFacts, SMTT(60) DEF Times
    <2>2. a \in Addrs /\ e # None /\ now - e.lastSeen >= IdleTimeout
      BY DEF ExpiredKeys, Keys
    <2>3. e \in Entry
      BY <2>1, <2>2, RecordFacts
    <2>4. e.tokens \in Int /\ 0 <= e.tokens /\ e.lastRefill \in Int /\ e.lastSeen \in Int
      BY <2>3, EntryFacts
    <2>5. e.lastRefill <= e.lastSeen + MaxDelay
      BY <2>1, <2>2 DEF TimeInv
    <2>6. /\ IdleTimeout - MaxDelay <= now - e.lastRefill
          /\ IdleTimeout - MaxDelay \in Int /\ now - e.lastRefill \in Int
      BY <2>1, <2>2, <2>4, <2>5, ConstantFacts, SMTT(60)
    <2>7. /\ Refill * (IdleTimeout - MaxDelay) <= Refill * (now - e.lastRefill)
          /\ Refill * (now - e.lastRefill) \in Int
          /\ Refill * (IdleTimeout - MaxDelay) = (IdleTimeout - MaxDelay) * Refill
      BY <2>6, MulMono, ConstantFacts, SMTT(60)
    <2>8. QED
      BY <2>4, <2>7, ConstantFacts, SMTT(60) DEF FullAt
  <1>2. QED
    BY <1>1, Invariance, PTL

\* A client that spaces its connections by MinSpacing is never refused by allowAt.
THEOREM SpacedAdmitted == Spec => []SpacedClientIsAdmitted
  <1>1. IInv => SpacedClientIsAdmitted
    BY DEF IInv
  <1>2. QED
    BY <1>1, Invariance, PTL
==============================================================================
