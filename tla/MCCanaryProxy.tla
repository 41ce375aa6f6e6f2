--------------------------- MODULE MCCanaryProxy ---------------------------
(* Finite instances of CanaryProxy. *)
EXTENDS CanaryProxy, TLC

CONSTANTS s1, s2, c1, c2, l1, l2

Plan(of, left, crashing) == [ops |-> [of |-> of, left |-> left], crashes |-> crashing]

NoPlans == {Plan({}, 0, 0)}
EndPlans == {Plan({"adopt", "deprecate"}, 1, 0)}
EditPlans == {Plan({"edit", "deprecate"}, 2, 1)}
AdoptPlans == {Plan({"adopt"}, 1, 1)}
\* A CanaryRelease created again, or a proxy that crashes.
Histories ==
    {Plan({"deprecate", "delete", "recreate"}, 3, 0),
     Plan({"adopt", "deprecate", "updateRelease", "deleteRelease"}, 2, 1)}

OneService == {s1}
TwoServices == {s1, s2}
OneConfig == {c1}
TwoConfigs == {c1, c2}
TwoLayouts == {l1, l2}
OneLayout == {l1}
LayoutOne == c1 :> l1
LayoutTwo == c1 :> l1 @@ c2 :> l2
ServiceSymmetry == Permutations(TwoServices)
=============================================================================
