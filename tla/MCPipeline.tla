----------------------------- MODULE MCPipeline -----------------------------
(* Instances of Pipeline for TLC: two stages of chosen kinds, channels of   *)
(* capacity one, so that every send can block.                              *)
EXTENDS Pipeline, TLC

PipeValidate == <<"pipe", "validate">>

Ones == 0 :> 1 @@ 1 :> 1 @@ 2 :> 1
=============================================================================
