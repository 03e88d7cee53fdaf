------------------------------ MODULE MCAdoption ------------------------------
(***************************************************************************)
(* Two bundles: one with an entity, a capability and its shape, and one    *)
(* whose entity exists already and is covered by projections.              *)
(***************************************************************************)
EXTENDS AdoptionPlan

CONSTANTS v1, v2

Items == {"capA", "entityA", "shapeA", "capB", "shapeB"}
Ranks == [i \in Items |-> CASE i = "capA" -> 1 [] i = "entityA" -> 2 [] i = "shapeA" -> 3
                            [] i = "capB" -> 4 [] OTHER -> 5]
Kinds == [i \in Items |-> CASE i \in {"capA", "capB"} -> "capability" [] i = "entityA" -> "entity"
                            [] OTHER -> "shape"]
Bundles == [i \in Items |-> IF i \in {"capA", "entityA", "shapeA"} THEN "a" ELSE "b"]
References == [i \in Items |-> CASE i = "capA" -> {"entityA", "shapeA"} [] i = "capB" -> {"shapeB"}
                                 [] OTHER -> {}]
\* The two shapes have the same fields.
Twins == [i \in Items |-> IF i \in {"shapeA", "shapeB"} THEN "fields" ELSE i]
Covering == [p \in {"api", "web", "ops"} |-> {"b"}]
\* The second version has lost the second capability, and the entity of the first.
TwoVersions == [v \in {v1, v2} |-> IF v = v1 THEN Items ELSE Items \ {"capB", "shapeB", "entityA"}]

From == [by |-> "from-plan"]
By(by, arg) == [by |-> by, arg |-> arg]
FewSelectors == {From, By("bundle", "a"), By("review", "api"), By("bundle-review", "b")}
=============================================================================
