---------------------------- MODULE MCHeadLinux -----------------------------
(* One pod and two neighbours for one place in the graph.                      *)
EXTENDS HeadLinux

PositionDef == [n \in Nbr |-> IF n = 1 THEN "far" ELSE "near"]
CadenceDef  == [m \in Modes |-> IF m = "baseline" THEN 2 ELSE 1]
SkewsDef    == {-1, 1}
=============================================================================
