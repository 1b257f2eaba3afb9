---------------------------- MODULE MCRouteCache -----------------------------
(* Instance of RouteCache for TLC: interchangeable readers. *)
EXTENDS RouteCache, TLC

CONSTANTS list, item

Pages == {list, item}
ListThenItem == <<{list}, {item}>>

Symmetric == Permutations(Reader)

=============================================================================
