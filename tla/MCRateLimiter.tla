---------------------------- MODULE MCRateLimiter ----------------------------
(* Addresses and handlers are interchangeable.                              *)
EXTENDS RateLimiter, TLC

Symmetry == Permutations(Addrs) \cup Permutations(Handlers)
=============================================================================
