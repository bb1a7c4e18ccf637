--------------------------- MODULE MCAnalyzeVideo ---------------------------
(* Instances of AnalyzeVideo for TLC: how the videos fall into groups and   *)
(* the groups into requests.                                                *)
EXTENDS AnalyzeVideo, TLC

(* One video. *)
SoloGroupOf   == [v \in {"v1"} |-> "g1"]
OneRequestOf  == [g \in {"g1"} |-> "r1"]

(* One request of two groups, one of them with two videos. *)
TwoGroupOf    == [v \in {"v1", "v2", "v3"} |-> IF v = "v3" THEN "g2" ELSE "g1"]
SameRequestOf == [g \in {"g1", "g2"} |-> "r1"]
=============================================================================
