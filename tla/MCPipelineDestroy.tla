------------------------- MODULE MCPipelineDestroy -------------------------
(* Model-checking instance of PipelineDestroy: a zero timeout (the flag's *)
(* "never"), and a two-second one, for which the poll ticker and the      *)
(* timeout ticker can fire in the same second.                             *)
EXTENDS PipelineDestroy

MCTimeouts == {0, 2}
=============================================================================
