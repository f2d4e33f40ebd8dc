--------------------------- MODULE MCGraphEngine ---------------------------
(* A graph with a loop and a branch: draft -> review -> draft or publish,   *)
(* with an interrupt before review, for TLC.                                *)
EXTENDS GraphEngine

MCEdges == [n \in Nodes |->
  CASE n = "draft"   -> {"review"}
    [] n = "review"  -> {"draft", "publish"}
    [] n = "publish" -> {End}]
=============================================================================
