----------------------------- MODULE PlayerLease -----------------------------
(***************************************************************************)
(* What the registration API of the voice chat runtime promises: at any    *)
(* time a player is claimed by at most one backend, under a lease that was *)
(* granted for this claim and no other.  A claim ends only when another    *)
(* claim replaces it, when its holder gives it up by naming its lease,     *)
(* when it has lapsed, or when the service shuts down for good.            *)
(***************************************************************************)
CONSTANTS Players, Holders, Leases, None

Claims == [holder: Holders, lease: Leases, lapsed: BOOLEAN]

VARIABLES
    claim,      \* the claim on each player, or None
    issued,     \* the leases granted so far
    down        \* the service has shut down

vars == <<claim, issued, down>>

TypeOK ==
    /\ claim \in [Players -> Claims \cup {None}]
    /\ issued \subseteq Leases
    /\ down \in BOOLEAN

Init ==
    /\ claim = [u \in Players |-> None]
    /\ issued = {}
    /\ down = FALSE

\* A holder claims a player, claimed already or not, and gets a new lease.
Grant(u, h, l) ==
    /\ ~down
    /\ l \notin issued
    /\ claim' = [claim EXCEPT ![u] = [holder |-> h, lease |-> l, lapsed |-> FALSE]]
    /\ issued' = issued \cup {l}
    /\ UNCHANGED down

Named(u, h, l) ==
    /\ claim[u] # None
    /\ claim[u].holder = h
    /\ claim[u].lease = l

Renew(u, h, l) ==
    /\ Named(u, h, l)
    /\ claim' = [claim EXCEPT ![u].lapsed = FALSE]
    /\ UNCHANGED <<issued, down>>

Release(u, h, l) ==
    /\ Named(u, h, l)
    /\ claim' = [claim EXCEPT ![u] = None]
    /\ UNCHANGED <<issued, down>>

\* The time to live of a claim runs out.
Lapse(u) ==
    /\ claim[u] # None
    /\ claim' = [claim EXCEPT ![u].lapsed = TRUE]
    /\ UNCHANGED <<issued, down>>

\* Some of the lapsed claims are dropped.
Drop(U) ==
    /\ \A u \in U : claim[u] # None /\ claim[u].lapsed
    /\ claim' = [u \in Players |-> IF u \in U THEN None ELSE claim[u]]
    /\ UNCHANGED <<issued, down>>

ShutDown ==
    /\ claim' = [u \in Players |-> None]
    /\ down' = TRUE
    /\ UNCHANGED issued

Next ==
    \/ \E u \in Players, h \in Holders, l \in Leases :
          Grant(u, h, l) \/ Renew(u, h, l) \/ Release(u, h, l)
    \/ \E u \in Players : Lapse(u)
    \/ \E U \in SUBSET Players : Drop(U)
    \/ ShutDown

Spec == Init /\ [][Next]_vars

------------------------------------------------------------------------------
Held(l) == \E u \in Players : claim[u] # None /\ claim[u].lease = l

\* A lease is held for one player only, and only leases that were issued are.
OneClaimPerLease ==
    /\ \A u, v \in Players :
          (claim[u] # None /\ claim[v] # None /\ claim[u].lease = claim[v].lease) => u = v
    /\ \A l \in Leases : Held(l) => l \in issued

\* A lease that was lost is lost for good: no refresh or replayed request can
\* bring back a claim that was replaced, released, dropped or shut down.
LostLeaseStaysLost ==
    [][\A l \in issued : ~Held(l) => ~Held(l)']_vars

\* Nothing is claimed after the shutdown.
DownIsEmpty == down => claim = [u \in Players |-> None]
==============================================================================
