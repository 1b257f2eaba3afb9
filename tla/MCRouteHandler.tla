--------------------------- MODULE MCRouteHandler ---------------------------
(* Instances of RouteHandler for TLC. *)
EXTENDS RouteRefinement, TLC

\* Requests, keys and bodies are interchangeable.
Symmetric == Permutations(Request) \cup Permutations(Body)

=============================================================================
