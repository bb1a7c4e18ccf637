-------------------------- MODULE MCRecommendCancel -------------------------
(* Three calls with the same id and one without an id.                      *)
EXTENDS RecommendCancel

MCIdOf == [c \in {"a1", "a2", "a3", "x"} |-> IF c = "x" THEN "no_id" ELSE "a"]
=============================================================================
