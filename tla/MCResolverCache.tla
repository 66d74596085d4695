--------------------------- MODULE MCResolverCache ---------------------------
(* A small instance of ResolverCache for TLC. *)
EXTENDS ResolverCache, TLC

CONSTANTS h1, h2, h3, c1, c2, api

ThreeHosts == {h1, h2, h3}
TwoCallers == {c1, c2}
OneService == {api}

(* Two hosts are in the table, so that one has answers that change. *)
Table == [h \in {h1, h2} |-> api]

(* The hosts of the table are alike, and so are the callers. *)
Symmetry == Permutations(DOMAIN Table) \cup Permutations(TwoCallers)
=============================================================================
