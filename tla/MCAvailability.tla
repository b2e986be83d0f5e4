--------------------------- MODULE MCAvailability ---------------------------
(* Two backends, checked one after the other.                               *)
EXTENDS Availability

MCBackends == <<"hub", "lobby">>
=============================================================================
