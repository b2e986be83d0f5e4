----------------------------- MODULE MCRouteTable -----------------------------
(***************************************************************************)
(* Two hosts, one of them with two spellings, and a spelling that does not *)
(* normalize; files of at most two routes, the first with an alias or not; *)
(* every Service object that parsing tells apart.                          *)
(***************************************************************************)
EXTENDS RouteTable, Sequences, TLC

MCSpellings == {"a", "A", "b", "?"}
MCHosts == {"a", "b"}
MCNorm == "a" :> "a" @@ "A" :> "a" @@ "b" :> "b" @@ "?" :> Invalid

MCSpec(host) == [external |-> FALSE, enabled |-> TRUE, port |-> TRUE, host |-> host]

MCSpecs == {MCSpec(host) : host \in MCSpellings \cup {None}}
           \cup {[MCSpec("a") EXCEPT !.external = TRUE],
                 [MCSpec("a") EXCEPT !.enabled = FALSE],
                 [MCSpec("a") EXCEPT !.port = FALSE]}

MCRoute(names, i) == [names |-> names, ok |-> TRUE, backend |-> i]

MCRouteLists ==
    {<<>>} \cup {<<MCRoute(names, 1)>> : names \in [1..2 -> MCSpellings]}
    \cup {<<MCRoute(<<m>>, 1), MCRoute(<<n>>, 2)>> : m \in MCSpellings, n \in MCSpellings}
    \cup {<<[MCRoute(<<"b">>, 1) EXCEPT !.ok = FALSE]>>}

MCConfigs == {[routes |-> routes, policy |-> policy, default |-> default] :
                 routes \in MCRouteLists, policy \in {"deny", "default"}, default \in BOOLEAN}

Symmetry == Permutations(Services)
=============================================================================
