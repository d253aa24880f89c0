--------------------------- MODULE MCGovernedTask ---------------------------
(* Instances of GovernedTask for TLC. *)
EXTENDS GovernedTask, FiniteSets, TLC

CONSTANTS c1, c2, f1, f2, pricing, unowned, solo, duo, deep

Symmetry == Permutations(Content) \cup Permutations(Files) \cup Permutations(Team \ OpusTeam)

----------------------------------------------------------------------------
(* Where a run looks: at two reviews of one route, and at two routes with  *)
(* one review.  Both together would be too many states.                    *)

Teams == ({routes[i].team : i \in DOMAIN routes} \cup {plan.team}) \ {None}

OneRoute ==
    /\ Len(routes) <= 1
    /\ discovered \cap Gap = {}
    /\ Teams \cap OpusTeam = {} /\ Cardinality(Teams) <= 1

OneReview ==
    /\ Len(reviews) <= 1
    /\ \A i \in DOMAIN reviews : reviews[i].manifest = files

Bound == OneRoute \/ OneReview
=============================================================================
