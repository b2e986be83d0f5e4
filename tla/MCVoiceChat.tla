----------------------------- MODULE MCVoiceChat -----------------------------
(* Instances of VoiceChat for TLC. *)
EXTENDS VoiceChat, TLC

Symmetry == Permutations(Sess) \cup Permutations(Handlers) \cup Permutations(Backends)
            \cup Permutations(Owners) \cup Permutations(Players) \cup Permutations(Addrs)
==============================================================================
