------------------------------ MODULE MCGateway ------------------------------
(* Bounds for the gateway.                                                  *)
EXTENDS Gateway

\* Every option is on in one snapshot and off in the other.
MCOptions == {{"trusted", "override", "loginDenied"}, {"statusDenied", "statusFailure"}}

\* A connection with at most one other part (bedrock stops as udp does); or every part, and no connection.
MCDeployments ==
    {[enabled |-> {}, offered |-> Conns]}
    \cup {[enabled |-> {p}, offered |-> Conns] : p \in {"metrics", "udp", "voice"}}
    \cup {[enabled |-> Parts \cup {"availability", "watch"}, offered |-> {}]}
==============================================================================
