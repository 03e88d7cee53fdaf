-------------------------- MODULE MCTemplateProject --------------------------
(***************************************************************************)
(* A template of two releases with an executable implementation of two     *)
(* files, both changed between the releases, and a topo file only the      *)
(* second release ships.                                                   *)
(***************************************************************************)
EXTENDS TemplateProject

CONSTANTS
    r1, r2,                      \* releases
    x2, m1, m2, n1, n2, mine     \* file contents

OneTopo == {"topo/x"}
TwoImpl == {"implementation/m", "implementation/n"}
Sorted == [p \in OneTopo \cup TwoImpl \cup {"topogram.project.json"} |->
    CASE p = "implementation/m" -> 1 [] p = "implementation/n" -> 2 [] p = "topo/x" -> 3 [] OTHER -> 4]

Shipped(x, m, n) == [f \in OneTopo \cup TwoImpl |-> CASE f = "topo/x" -> x
                                                      [] f = "implementation/m" -> m
                                                      [] f = "implementation/n" -> n]
TwoReleases == [v \in {r1, r2} |-> IF v = r1 THEN Shipped(Absent, m1, n1) ELSE Shipped(x2, m2, n2)]
=============================================================================
