------------------------------- MODULE Service -------------------------------
(***************************************************************************)
(* What the gateway's run relies on in each of the servers that it starts  *)
(* (cmd/mc-gateway/main.go, run and waitForServers): once its context is   *)
(* done or its Close was called a server ends, and a server that has ended *)
(* has let go of every socket and goroutine it held.  The servers are shown*)
(* to implement this specification, and Gateway composes servers that do.  *)
(***************************************************************************)

VARIABLES
    phase,      \* "serving", "closing" (told to stop) or "ended"
    holding     \* a socket of a client or a backend, or a goroutine, is in use

vars == <<phase, holding>>

Init == phase = "serving" /\ holding = FALSE

Serve ==
    /\ phase # "ended"
    /\ holding' \in BOOLEAN
    /\ UNCHANGED phase

Stop ==
    /\ phase = "serving"
    /\ phase' = "closing"
    /\ UNCHANGED holding

\* Also without having been told to: Serve may fail.
End ==
    /\ phase # "ended"
    /\ phase' = "ended"
    /\ holding' = FALSE

Next == Serve \/ Stop \/ End

\* A server that was told to stop ends.
Ends == phase = "closing" ~> phase = "ended"

Spec == Init /\ [][Next]_vars /\ Ends
==============================================================================
