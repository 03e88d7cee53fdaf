---------------------------- MODULE MCSdlcFiles ----------------------------
(***************************************************************************)
(* Two tasks under one CLI process that is killed, or under two processes  *)
(* of two actors.                                                          *)
(***************************************************************************)
EXTENDS SdlcFiles

CONSTANTS p1, p2

OneActor == [p \in {p1} |-> "ann"]
TwoActors == [p \in {p1, p2} |-> IF p = p1 THEN "ann" ELSE "bob"]

Unclaimed == [t \in Task |-> [status |-> "unclaimed", claims |-> <<>>, quoted |-> FALSE]]
=============================================================================
